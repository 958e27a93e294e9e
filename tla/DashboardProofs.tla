-------------------------- MODULE DashboardProofs ---------------------------
(***************************************************************************)
(* Theorems about Dashboard, for every set of tenants and documents and    *)
(* every number of calls, clicks and failures.                             *)
(***************************************************************************)
EXTENDS Dashboard, SequenceTheorems, TLAPS

-----------------------------------------------------------------------------
(* Calls, from one step to the next.                                       *)

\* Where the k-th call was before the i-th was taken away.
Before(i, k) == IF k < i THEN k ELSE k + 1

LEMMA WithoutProperties ==
  ASSUME calls \in Seq(Call), NEW i \in DOMAIN calls
  PROVE  /\ Without(i) \in Seq(Call)
         /\ Len(Without(i)) = Len(calls) - 1
         /\ \A k \in 1 .. Len(calls) - 1 : Without(i)[k] = calls[Before(i, k)]
  <1> DEFINE n == Len(calls)
             front == SubSeq(calls, 1, i - 1)
             back  == SubSeq(calls, i + 1, n)
  <1>1. n \in Nat /\ i \in 1 .. n
    OBVIOUS
  <1>2. /\ front \in Seq(Call) /\ Len(front) = i - 1
        /\ \A k \in 1 .. i - 1 : front[k] = calls[k]
    BY <1>1, SubSeqProperties
  <1>3. /\ back \in Seq(Call) /\ Len(back) = n - i
        /\ \A k \in 1 .. n - i : back[k] = calls[k + i]
    BY <1>1, SubSeqProperties
  <1> HIDE DEF front, back
  <1>4. Without(i) = front \o back
    BY DEF Without, RemoveAt, front, back
  <1>5. /\ front \o back \in Seq(Call)
        /\ Len(front \o back) = n - 1
        /\ \A k \in 1 .. n - 1 :
             (front \o back)[k] = IF k <= i - 1 THEN front[k] ELSE back[k - (i - 1)]
    <2>1. /\ front \o back \in Seq(Call)
          /\ Len(front \o back) = Len(front) + Len(back)
          /\ \A k \in 1 .. Len(front) + Len(back) :
               (front \o back)[k] = IF k <= Len(front) THEN front[k]
                                                       ELSE back[k - Len(front)]
      BY <1>2, <1>3, ConcatProperties
    <2>2. Len(front) + Len(back) = n - 1
      BY <1>1, <1>2, <1>3
    <2> QED BY <2>1, <2>2, <1>2
  <1>6. ASSUME NEW k \in 1 .. n - 1
        PROVE  (front \o back)[k] = calls[Before(i, k)]
    <2>1. CASE k < i
      <3>1. k \in 1 .. i - 1 /\ k <= i - 1
        BY <2>1, <1>1
      <3>2. (front \o back)[k] = front[k]
        BY <3>1, <1>5
      <3>3. front[k] = calls[k]
        BY <3>1, <1>2
      <3> QED BY <2>1, <3>2, <3>3 DEF Before
    <2>2. CASE k >= i
      <3>1. k - (i - 1) \in 1 .. n - i /\ (k - (i - 1)) + i = k + 1 /\ ~(k <= i - 1)
        BY <2>2, <1>1
      <3>2. (front \o back)[k] = back[k - (i - 1)]
        BY <3>1, <1>5
      <3>3. back[k - (i - 1)] = calls[(k - (i - 1)) + i]
        BY <3>1, <1>3
      <3>4. Before(i, k) = k + 1
        BY <2>2, <1>1 DEF Before
      <3> HIDE DEF n
      <3> QED BY <3>1, <3>2, <3>3, <3>4
    <2>3. k < i \/ k >= i
      BY <1>1
    <2> QED BY <2>1, <2>2, <2>3
  <1> QED BY <1>4, <1>5, <1>6

\* What an answer and a newer list leave of a call.
Same(c, e) ==
  /\ e.op = c.op /\ e.tenant = c.tenant /\ e.doc = c.doc /\ e.value = c.value
  /\ e.then = c.then /\ e.live = c.live
  /\ c.late => e.late
  /\ c.answer # "none" => e.answer = c.answer /\ e.body = c.body

LEMMA LateCall ==
  ASSUME NEW b \in Call
  PROVE  [b EXCEPT !.late = TRUE] \in Call /\ Same(b, [b EXCEPT !.late = TRUE]) /\ Same(b, b)
  <1> DEFINE c == [b EXCEPT !.late = TRUE]
  <1>1. /\ c.op = b.op /\ c.tenant = b.tenant /\ c.doc = b.doc /\ c.value = b.value
        /\ c.then = b.then /\ c.live = b.live /\ c.answer = b.answer /\ c.body = b.body
        /\ c.late
    BY DEF Call
  <1>2. c \in Call
    BY DEF Call
  <1> HIDE DEF c
  <1>3. Same(b, c) /\ Same(b, b)
    BY <1>1 DEF Same
  <1> QED BY <1>2, <1>3 DEF c

\* src[k] is where the k-th call was, 0 for the last one if it was not on its way, and
\* only the call that went away, if any, is not found again.
Carried(src, gone) ==
  /\ src \in [DOMAIN calls' -> 0 .. Len(calls)]
  /\ \A k \in DOMAIN calls' : src[k] # 0 => src[k] # gone /\ Same(calls[src[k]], calls'[k])
  /\ \A k, m \in DOMAIN calls' : k < m => src[k] # 0 /\ (src[m] # 0 => src[k] < src[m])
  /\ \A i \in DOMAIN calls : i # gone => \E k \in DOMAIN calls' : src[k] = i

\* The answers and rows that were there are not touched.
Kept(src) == \A k \in DOMAIN calls' :
               src[k] # 0 => /\ calls'[k].answer = calls[src[k]].answer
                             /\ calls'[k].body = calls[src[k]].body

\* The calls that are new.
Fresh(src, c) == \A k \in DOMAIN calls' : src[k] = 0 => calls'[k] = c

LEMMA CarriedAlong ==
  ASSUME TypeOK, DOMAIN calls' = DOMAIN calls,
         \A i \in DOMAIN calls : Same(calls[i], calls'[i])
  PROVE  \E src : /\ Carried(src, 0) /\ \A k \in DOMAIN calls : src[k] = k
  <1> DEFINE src == [k \in DOMAIN calls |-> k]
  <1>1. DOMAIN calls = 1 .. Len(calls) /\ Len(calls) \in Nat
    BY DEF TypeOK
  <1>2. Carried(src, 0)
    BY <1>1 DEF Carried
  <1> QED BY <1>2

LEMMA CarriedAppend ==
  ASSUME TypeOK, NEW c, c \in Call, calls' = Append(calls, c)
  PROVE  \E src : /\ Carried(src, 0) /\ Fresh(src, c) /\ Kept(src)
                  /\ \A k \in DOMAIN calls : src[k] = k
  <1> DEFINE n == Len(calls)
             src == [k \in 1 .. n + 1 |-> IF k <= n THEN k ELSE 0]
  <1>1. /\ n \in Nat /\ DOMAIN calls = 1 .. n
        /\ DOMAIN calls' = 1 .. n + 1
        /\ \A k \in 1 .. n : calls'[k] = calls[k]
        /\ calls'[n + 1] = c
    BY DEF TypeOK
  <1>2. Carried(src, 0) /\ Fresh(src, c) /\ Kept(src)
    BY <1>1 DEF Carried, Fresh, Kept, Same
  <1> QED BY <1>1, <1>2

LEMMA CarriedRemoval ==
  ASSUME TypeOK, NEW i \in DOMAIN calls, NEW m \in {Len(calls) - 1, Len(calls)},
         DOMAIN calls' = 1 .. m,
         \A k \in 1 .. Len(calls) - 1 : Same(calls[Before(i, k)], calls'[k])
  PROVE  \E src : /\ Carried(src, i)
                  /\ \A k \in DOMAIN calls' :
                       src[k] = IF k < Len(calls) THEN Before(i, k) ELSE 0
  <1> DEFINE n == Len(calls)
             src == [k \in 1 .. m |-> IF k < n THEN Before(i, k) ELSE 0]
  <1>1. n \in Nat /\ DOMAIN calls = 1 .. n /\ i \in 1 .. n /\ m \in {n - 1, n}
    BY DEF TypeOK
  <1> HIDE DEF n
  <1>2. src \in [DOMAIN calls' -> 0 .. n]
    BY <1>1 DEF Before
  <1>3. \A k \in DOMAIN calls' : src[k] # 0 => src[k] # i /\ Same(calls[src[k]], calls'[k])
    <2>1. ASSUME NEW k \in DOMAIN calls', src[k] # 0
          PROVE  k \in 1 .. n - 1 /\ src[k] = Before(i, k) /\ Before(i, k) # i
      BY <2>1, <1>1 DEF Before
    <2> QED BY <2>1 DEF n
  <1>4. \A k, l \in DOMAIN calls' : k < l => src[k] # 0 /\ (src[l] # 0 => src[k] < src[l])
    BY <1>1 DEF Before
  <1>5. ASSUME NEW j \in DOMAIN calls, j # i
        PROVE  \E k \in DOMAIN calls' : src[k] = j
    <2>1. CASE j < i
      BY <2>1, <1>1 DEF Before
    <2>2. CASE j > i
      <3>1. j - 1 \in 1 .. m /\ j - 1 < n /\ src[j - 1] = j
        BY <2>2, <1>1 DEF Before
      <3> QED BY <3>1
    <2> QED BY <2>1, <2>2, <1>5, <1>1
  <1>6. Carried(src, i)
    BY <1>2, <1>3, <1>4, <1>5 DEF Carried, n
  <1>7. \A k \in DOMAIN calls' : src[k] = IF k < Len(calls) THEN Before(i, k) ELSE 0
    BY DEF n
  <1> QED BY <1>6, <1>7

\* A call that was taken away and nothing else.
LEMMA CarriedWithout ==
  ASSUME TypeOK, NEW i \in DOMAIN calls, calls' = Without(i)
  PROVE  \E src : /\ Carried(src, i) /\ Kept(src)
                  /\ \A k \in DOMAIN calls' : src[k] # 0 /\ calls'[k] = calls[src[k]]
  <1>1. /\ Len(calls) \in Nat /\ i \in 1 .. Len(calls) /\ calls \in Seq(Call)
    BY DEF TypeOK
  <1>2. /\ Len(calls') = Len(calls) - 1 /\ DOMAIN calls' = 1 .. Len(calls')
        /\ \A k \in 1 .. Len(calls) - 1 : calls'[k] = calls[Before(i, k)]
    BY <1>1, WithoutProperties
  <1>3. PICK src : /\ Carried(src, i)
                   /\ \A k \in DOMAIN calls' :
                        src[k] = IF k < Len(calls) THEN Before(i, k) ELSE 0
    BY <1>1, <1>2, CarriedRemoval DEF Same
  <1>4. \A k \in DOMAIN calls' : k < Len(calls) /\ Before(i, k) # 0
    BY <1>1, <1>2 DEF Before
  <1> QED BY <1>2, <1>3, <1>4 DEF Kept

\* A call that was taken away for another.
LEMMA CarriedOver ==
  ASSUME TypeOK, NEW i \in DOMAIN calls, NEW c \in Call, calls' = Append(Without(i), c)
  PROVE  \E src : /\ Carried(src, i) /\ Fresh(src, c) /\ Kept(src)
                  /\ \E k \in DOMAIN calls' : src[k] = 0
                  /\ \A k \in DOMAIN calls' : src[k] # 0 => calls'[k] = calls[src[k]]
  <1>1. /\ Len(calls) \in Nat /\ i \in 1 .. Len(calls) /\ calls \in Seq(Call)
    BY DEF TypeOK
  <1>2. /\ Len(Without(i)) = Len(calls) - 1 /\ Without(i) \in Seq(Call)
        /\ \A k \in 1 .. Len(calls) - 1 : Without(i)[k] = calls[Before(i, k)]
    BY <1>1, WithoutProperties
  <1>3. /\ DOMAIN calls' = 1 .. Len(calls)
        /\ \A k \in 1 .. Len(calls) - 1 : calls'[k] = calls[Before(i, k)]
        /\ calls'[Len(calls)] = c
    BY <1>1, <1>2
  <1>4. PICK src : /\ Carried(src, i)
                   /\ \A k \in DOMAIN calls' :
                        src[k] = IF k < Len(calls) THEN Before(i, k) ELSE 0
    BY <1>1, <1>3, CarriedRemoval DEF Same
  <1>5. \A k \in DOMAIN calls' : /\ src[k] = 0 <=> k = Len(calls)
                                 /\ k < Len(calls) \/ k = Len(calls)
    BY <1>1, <1>3, <1>4 DEF Before
  <1>6. \A k \in DOMAIN calls' : src[k] # 0 => calls'[k] = calls[src[k]]
    BY <1>1, <1>3, <1>4, <1>5
  <1>7. Fresh(src, c) /\ src[Len(calls)] = 0 /\ Len(calls) \in DOMAIN calls'
    BY <1>1, <1>3, <1>4, <1>5 DEF Fresh
  <1> QED BY <1>4, <1>6, <1>7 DEF Kept

\* A list whose rows are shown.
LEMMA CarriedLate ==
  ASSUME TypeOK, NEW i \in DOMAIN calls, calls' = OthersLate(i)
  PROVE  \E src : /\ Carried(src, i) /\ Kept(src)
                  /\ \A k \in DOMAIN calls' :
                       LET b == calls[src[k]]
                       IN /\ src[k] # 0
                          /\ calls'[k] = IF src[k] < i /\ b.op = "list"
                                           THEN [b EXCEPT !.late = TRUE] ELSE b
  <1>1. /\ Len(calls) \in Nat /\ i \in 1 .. Len(calls) /\ calls \in Seq(Call)
    BY DEF TypeOK
  <1>2. \A k \in 1 .. Len(calls) - 1 : Without(i)[k] = calls[Before(i, k)]
    BY <1>1, WithoutProperties
  <1>3. DOMAIN calls' = 1 .. Len(calls) - 1
    BY DEF OthersLate
  <1>4. ASSUME NEW k \in 1 .. Len(calls) - 1
        PROVE  LET b == calls[Before(i, k)]
               IN /\ Before(i, k) \in 1 .. Len(calls) /\ k < Len(calls) /\ b \in Call
                  /\ calls'[k] = IF Before(i, k) < i /\ b.op = "list"
                                   THEN [b EXCEPT !.late = TRUE] ELSE b
    <2>1. calls'[k] = IF k < i /\ calls[Before(i, k)].op = "list"
                        THEN [calls[Before(i, k)] EXCEPT !.late = TRUE]
                        ELSE calls[Before(i, k)]
      BY <1>2 DEF OthersLate
    <2>2. Before(i, k) \in 1 .. Len(calls) /\ k < Len(calls) /\ (k < i <=> Before(i, k) < i)
      BY <1>1 DEF Before
    <2> QED BY <1>1, <2>1, <2>2
  <1>5. \A k \in 1 .. Len(calls) - 1 : Same(calls[Before(i, k)], calls'[k])
    BY <1>4, LateCall
  <1>6. PICK src : /\ Carried(src, i)
                   /\ \A k \in DOMAIN calls' :
                        src[k] = IF k < Len(calls) THEN Before(i, k) ELSE 0
    BY <1>1, <1>3, <1>5, CarriedRemoval
  <1>7. ASSUME NEW k \in DOMAIN calls'
        PROVE  LET b == calls[src[k]]
               IN /\ src[k] # 0
                  /\ calls'[k] = IF src[k] < i /\ b.op = "list"
                                   THEN [b EXCEPT !.late = TRUE] ELSE b
    BY <1>3, <1>4, <1>6
  <1>8. Kept(src)
    <2>1. \A k \in DOMAIN calls' : calls[src[k]] \in Call
      BY <1>1, <1>6, <1>7 DEF Carried
    <2> QED BY <1>7, <2>1 DEF Kept, Call
  <1> QED BY <1>6, <1>7, <1>8

-----------------------------------------------------------------------------
(* What is true of a table whatever happens to its calls.                  *)

\* A call that keeps the Replay button of d disabled.
Holds(c, d) == c.live /\ \/ c.op = "replay" /\ c.doc = d
                         \/ c.op = "list" /\ c.then = d

Edits == {"toggle", "delete"}

\* What a call asks for fits the table that it was made from.
Fits(c) ==
  /\ c.op = "list" => c.tenant \in Tenants
  /\ c.op = "replay" => c.tenant \in Tenants /\ c.doc \in Docs /\ Tab[c.doc] = "jobs"
  /\ c.op \in Edits => /\ c.tenant \in Tenants /\ c.doc \in Docs /\ Tab[c.doc] = "rules"
                       /\ c.value \in StatusesOf.rules
  /\ c.op \in {"tenants", "list"} => c.doc \notin Docs
  /\ c.op # "list" => DOMAIN c.body = {}
  /\ c.then \in Docs => c.op = "list" /\ Tab[c.then] = "jobs"
  /\ c.answer = "notFound" => c.op \in {"replay"} \cup Edits

CallsFit  == \A i \in DOMAIN calls :
               /\ Fits(calls[i])
               /\ calls[i].live => \A d \in DOMAIN calls[i].body : Tab[d] = tab
StoreFits == \A d \in Docs : store[d] \in StatusesOf[Tab[d]]
RowsFit   == \A d \in DOMAIN rows : Tab[d] = tab

\* Before the tenants have come there is nothing to see and nothing to click.
Blank == tenant = None =>
  timer = None /\ DOMAIN rows = {} /\ \A i \in DOMAIN calls : calls[i].op = "tenants"

\* One call at most holds a button, and the button shows it.
OneHolder == \A i, j \in DOMAIN calls, d \in Docs :
               Holds(calls[i], d) /\ Holds(calls[j], d) => i = j
Held == \A i \in DOMAIN calls, d \in Docs : Holds(calls[i], d) => d \in replaying

TableInv == TypeOK /\ CallsFit /\ StoreFits /\ RowsFit /\ Blank /\ OneHolder /\ Held

LEMMA RowsType ==
  ASSUME NEW S \in SUBSET Docs, NEW f \in [S -> Statuses \ {"removed"}]
  PROVE  f \in Rows
  BY DEF Rows

LEMMA NoRowsType == NoRows \in Rows /\ DOMAIN NoRows = {}
  <1>1. NoRows \in [{} -> Statuses \ {"removed"}]
    BY DEF NoRows
  <1> QED BY <1>1, RowsType DEF NoRows

LEMMA InitTable == Init => TableInv
  <1> SUFFICES ASSUME Init PROVE TableInv
    OBVIOUS
  <1> USE DashboardAssumption
  <1>1. NoRows \in Rows
    BY NoRowsType
  <1>2. /\ DOMAIN calls = {1} /\ Len(calls) = 1
        /\ calls[1] = NewCall("tenants", None, None)
        /\ calls[1] \in Call /\ calls \in Seq(Call)
    BY <1>1 DEF Init, NewCall, Call, Operations
  <1>3. TypeOK
    BY <1>1, <1>2 DEF Init, TypeOK, Tabs
  <1>4. CallsFit
    BY <1>2 DEF CallsFit, Fits, Edits, NewCall, NoRows
  <1>5. StoreFits /\ RowsFit /\ Blank
    BY <1>2 DEF Init, StoreFits, RowsFit, Blank, NoRows, NewCall
  <1>6. OneHolder /\ Held
    BY <1>2 DEF OneHolder, Held, Holds, NewCall
  <1> QED BY <1>3, <1>4, <1>5, <1>6 DEF TableInv

LEMMA NewCallType ==
  ASSUME NEW t \in Tenants \cup {None}
  PROVE  /\ List(t) \in Call
         /\ \A e \in Docs \cup {None} : [List(t) EXCEPT !.then = e] \in Call
         /\ \A d \in Docs : NewCall("replay", t, d) \in Call
         /\ \A op \in Edits, d \in Docs, v \in Statuses :
              [NewCall(op, t, d) EXCEPT !.value = v] \in Call
  BY NoRowsType DEF List, NewCall, Call, Operations, Edits

LEMMA ListingType ==
  ASSUME TypeOK, NEW t, NEW c
  PROVE  Listing(t, c) \in Rows /\ \A d \in DOMAIN Listing(t, c) : Tab[d] = c
  <1> DEFINE listed == {d \in Docs : Owner[d] = t /\ Tab[d] = c /\ store[d] # "removed"}
  <1>1. [d \in listed |-> store[d]] \in [listed -> Statuses \ {"removed"}]
    BY DEF TypeOK
  <1> QED BY <1>1, RowsType DEF Listing

LEMMA ClickStatus ==
  Flipped("enabled") \in StatusesOf.rules /\ \A s : Flipped(s) \in {"enabled", "disabled"}
  BY DEF Flipped, StatusesOf

LEMMA AppendTypes ==
  ASSUME TypeOK, NEW c \in Call, Len(calls) < MaxCalls
  PROVE  Append(calls, c) \in Seq(Call) /\ Len(Append(calls, c)) <= MaxCalls
  BY DashboardAssumption DEF TypeOK

\* The calls of a tab that is left.
LEMMA OrphanedTypes ==
  ASSUME TypeOK
  PROVE  /\ Orphaned \in Seq(Call) /\ Len(Orphaned) = Len(calls)
         /\ DOMAIN Orphaned = DOMAIN calls
         /\ \A i \in DOMAIN calls : Orphaned[i] = [calls[i] EXCEPT !.live = FALSE]
  <1>1. Len(calls) \in Nat /\ DOMAIN calls = 1 .. Len(calls)
    BY DEF TypeOK
  <1>2. \A i \in 1 .. Len(calls) : [calls[i] EXCEPT !.live = FALSE] \in Call
    <2>1. \A i \in 1 .. Len(calls) : calls[i] \in Call
      BY DEF TypeOK
    <2> QED BY <2>1 DEF Call
  <1>3. Orphaned \in [1 .. Len(calls) -> Call]
    BY <1>1, <1>2 DEF Orphaned
  <1> QED BY <1>1, <1>3 DEF Orphaned

LEMMA UserTypes ==
  ASSUME TypeOK, CallsFit, User \/ Poll
  PROVE  TypeOK'
  <1> USE DashboardAssumption
  <1>1. ASSUME NEW t \in Tenants, SelectTenant(t)
        PROVE  TypeOK'
    <2>1. List(t) \in Call
      BY NewCallType
    <2> QED BY <1>1, <2>1, AppendTypes DEF SelectTenant, Select, TimerFor, TypeOK
  <1>2. ASSUME NEW c \in Tabs, SelectTab(c)
        PROVE  TypeOK'
    <2>1. NoRows \in Rows
      BY NoRowsType
    <2>2. tenant # None => List(tenant) \in Call
      BY NewCallType DEF TypeOK
    <2>3. tenant # None => /\ Append(Orphaned, List(tenant)) \in Seq(Call)
                           /\ Len(Append(Orphaned, List(tenant))) <= MaxCalls
      BY <2>2, <1>2, OrphanedTypes DEF SelectTab, TypeOK
    <2> QED BY <1>2, <2>1, <2>3 DEF SelectTab, TimerFor, TypeOK
  <1>3. ASSUME Poll
        PROVE  TypeOK'
    <2>1. List(timer) \in Call
      BY <1>3, NewCallType DEF TypeOK
    <2> QED BY <1>3, <2>1, AppendTypes DEF Poll, TypeOK
  <1>4. ASSUME NEW d \in Docs, ClickReplay(d) \/ ClickToggle(d) \/ ClickDelete(d)
        PROVE  TypeOK'
    <2>1. PICK c : c \in Call /\ Click(c) /\ replaying' \subseteq Docs
      <3>1. /\ NewCall("replay", tenant, d) \in Call
            /\ [NewCall("toggle", tenant, d) EXCEPT !.value = Flipped(rows[d])] \in Call
            /\ [NewCall("delete", tenant, d) EXCEPT !.value = "removed"] \in Call
        <4>1. {"enabled", "disabled", "removed"} \subseteq Statuses
          BY DEF Statuses, StatusesOf, Tabs
        <4>2. tenant \in Tenants \cup {None}
          BY DEF TypeOK
        <4> QED BY <4>1, <4>2, NewCallType, ClickStatus DEF Edits
      <3> QED BY <1>4, <3>1 DEF ClickReplay, ClickToggle, ClickDelete, TypeOK
    <2>2. calls' \in Seq(Call) /\ Len(calls') <= MaxCalls
      BY <2>1, AppendTypes DEF Click
    <2>3. spent' = [spent EXCEPT !.clicks = spent.clicks + 1]
          /\ spent.clicks \in 0 .. MaxClicks /\ spent.clicks < MaxClicks
      BY <2>1 DEF Click, TypeOK
    <2>4. spent.clicks + 1 \in 0 .. MaxClicks
      BY <2>3, DashboardAssumption
    <2>5. spent' \in [clicks : 0 .. MaxClicks, mishaps : 0 .. MaxMishaps]
      BY <2>3, <2>4 DEF TypeOK
    <2> QED BY <2>1, <2>2, <2>5 DEF Click, TypeOK
  <1> QED BY <1>1, <1>2, <1>3, <1>4 DEF User

\* What the API does to the call that it serves.
LEMMA ServeCalls ==
  ASSUME TypeOK, NEW i \in DOMAIN calls, Serve(i)
  PROVE  /\ DOMAIN calls' = DOMAIN calls /\ Len(calls') = Len(calls) /\ calls' \in Seq(Call)
         /\ \A k \in DOMAIN calls : k # i => calls'[k] = calls[k]
         /\ \A k \in DOMAIN calls : Same(calls[k], calls'[k])
         /\ \A k \in DOMAIN calls : calls'[k].late = calls[k].late
         /\ calls[i].answer = "none" /\ calls'[i].answer # "none"
         /\ calls'[i].answer = "notFound" => calls[i].op \in {"replay"} \cup Edits
         /\ calls[i].op = "list" /\ calls[i].live =>
              calls'[i].body = Listing(calls[i].tenant, tab)
         /\ ~(calls[i].op = "list" /\ calls[i].live) => calls'[i].body = calls[i].body
  <1>1. calls \in Seq(Call) /\ calls[i] \in Call /\ calls[i].answer = "none"
    BY DEF TypeOK, Serve
  <1>2. PICK e \in Call :
          /\ calls' = [calls EXCEPT ![i] = e]
          /\ Same(calls[i], e) /\ e.late = calls[i].late
          /\ e.answer # "none"
          /\ e.answer = "notFound" => calls[i].op \in {"replay"} \cup Edits
          /\ calls[i].op = "list" /\ calls[i].live => e.body = Listing(calls[i].tenant, tab)
          /\ ~(calls[i].op = "list" /\ calls[i].live) => e.body = calls[i].body
    <2>1. \A a \in {"ok", "notFound"} : [calls[i] EXCEPT !.answer = a] \in Call
      BY <1>1 DEF Call
    <2>2. CASE calls[i].op = "list" /\ calls[i].live
      <3> DEFINE e == [calls[i] EXCEPT !.answer = "ok", !.body = Listing(calls[i].tenant, tab)]
      <3>1. e \in Call
        BY <1>1, ListingType DEF Call
      <3>2. calls' = [calls EXCEPT ![i] = e]
        BY <1>1, <2>2 DEF Serve, ServeRead, ServeReplay, ServeEdit
      <3> QED BY <1>1, <2>2, <3>1, <3>2 DEF Same, Call
    <2>3. CASE ~(calls[i].op = "list" /\ calls[i].live)
      <3>1. PICK a \in {"ok", "notFound"} :
              Answered(i, a) /\ (a = "notFound" => calls[i].op \in {"replay"} \cup Edits)
        BY <2>3 DEF Serve, ServeRead, ServeReplay, ServeEdit, Edits
      <3> DEFINE e == [calls[i] EXCEPT !.answer = a]
      <3>2. calls' = [calls EXCEPT ![i] = e]
        BY <1>1, <3>1 DEF Answered
      <3> QED BY <1>1, <2>1, <2>3, <3>1, <3>2 DEF Same, Call
    <2> QED BY <2>2, <2>3
  <1>3. \A k \in DOMAIN calls : Same(calls[k], calls'[k]) /\ calls'[k].late = calls[k].late
    BY <1>1, <1>2 DEF Same
  <1> QED BY <1>1, <1>2, <1>3

LEMMA ServeTypes ==
  ASSUME TypeOK, CallsFit, NEW i \in DOMAIN calls, Serve(i)
  PROVE  TypeOK'
  <1>1. calls' \in Seq(Call) /\ Len(calls') = Len(calls)
    BY ServeCalls
  <1>2. store' \in [Docs -> Statuses] /\ ours' \subseteq Docs /\ repeats' \in Nat
    <2>1. "queued" \in Statuses /\ StatusesOf.rules \subseteq Statuses
      BY DEF Statuses, StatusesOf, Tabs
    <2>2. calls[i].op \in Edits => calls[i].value \in Statuses
      BY <2>1 DEF CallsFit, Fits
    <2>3. calls[i].op = "replay" => calls[i].doc \in Docs
      BY DEF CallsFit, Fits
    <2> QED BY <2>1, <2>2, <2>3 DEF TypeOK, Serve, ServeRead, ServeReplay, ServeEdit, Edits
  <1> QED BY <1>1, <1>2 DEF TypeOK, Serve

\* An answer takes a call away and may send another.
LEMMA AnswerCalls ==
  ASSUME TypeOK, CallsFit, NEW i \in DOMAIN calls, Answer(i)
  PROVE  calls' \in Seq(Call) /\ Len(calls') <= MaxCalls
  <1>1. /\ Len(calls) \in Nat /\ i \in 1 .. Len(calls) /\ calls \in Seq(Call)
        /\ Len(calls) <= MaxCalls /\ calls[i] \in Call
    BY DEF TypeOK
  <1>2. /\ Without(i) \in Seq(Call) /\ Len(Without(i)) = Len(calls) - 1
    BY <1>1, WithoutProperties
  <1>3. CASE calls' = Without(i)
    BY <1>1, <1>2, <1>3, DashboardAssumption
  <1>4. CASE calls' = OthersLate(i)
    <2>1. \A k \in 1 .. Len(calls) - 1 :
            OthersLate(i)[k] \in Call
      <3>1. \A k \in 1 .. Len(calls) - 1 : Without(i)[k] \in Call
        BY <1>1, <1>2
      <3> QED BY <3>1, LateCall DEF OthersLate
    <2>2. OthersLate(i) \in [1 .. Len(calls) - 1 -> Call]
      BY <2>1 DEF OthersLate
    <2> QED BY <1>1, <1>4, <2>2, DashboardAssumption
  <1>5. CASE \E c \in Call : calls' = Append(Without(i), c)
    BY <1>1, <1>2, <1>5, DashboardAssumption
  <1>6. \/ calls' = Without(i) \/ calls' = OthersLate(i)
        \/ \E c \in Call : calls' = Append(Without(i), c)
    <2>1. CASE Reload(i)
      <3> DEFINE e == IF calls[i].op = "replay" THEN calls[i].doc ELSE None
      <3>1. [List(calls[i].tenant) EXCEPT !.then = e] \in Call
        BY <1>1, NewCallType DEF Call
      <3> QED BY <2>1, <3>1 DEF Reload
    <2>2. CASE Start(i)
      BY <2>2, NewCallType, DashboardAssumption DEF Start
    <2> QED BY <2>1, <2>2 DEF Answer, ShowRows, Ignored, Refused, Unread
  <1> QED BY <1>3, <1>4, <1>5, <1>6

LEMMA AnswerTypes ==
  ASSUME TypeOK, CallsFit, NEW i \in DOMAIN calls, Answer(i)
  PROVE  TypeOK'
  <1>1. calls[i] \in Call
    BY DEF TypeOK
  <1>2. /\ tenant' \in Tenants \cup {None} /\ timer' \in Tenants \cup {None}
        /\ rows' \in Rows /\ origin' \in Tenants \cup {None}
        /\ replaying' \subseteq Docs
        /\ excuses' \subseteq {"overtaken", "failed", "left", "unread", "stranger"}
    <2>1. CASE ShowRows(i)
      <3>1. calls[i].body \in Rows /\ calls[i].tenant \in Tenants \cup {None}
        BY <1>1 DEF Call
      <3> QED BY <2>1, <3>1 DEF ShowRows, TypeOK
    <2>2. CASE Ignored(i) \/ Reload(i)
      BY <2>2 DEF Ignored, Reload, TypeOK
    <2>3. CASE Refused(i)
      BY <2>3 DEF Refused, TypeOK
    <2>4. CASE Unread(i)
      BY <2>4 DEF Unread, TypeOK
    <2>5. CASE Start(i)
      BY <2>5, DashboardAssumption DEF Start, TimerFor, TypeOK
    <2> QED BY <2>1, <2>2, <2>3, <2>4, <2>5 DEF Answer
  <1> QED BY <1>2, AnswerCalls DEF TypeOK, Answer

LEMMA FailTypes ==
  ASSUME TypeOK, NEW i \in DOMAIN calls, Fail(i)
  PROVE  TypeOK'
  <1>1. /\ Len(calls) \in Nat /\ i \in 1 .. Len(calls) /\ calls \in Seq(Call)
        /\ Len(calls) <= MaxCalls
    BY DEF TypeOK
  <1>2. calls' \in Seq(Call) /\ Len(calls') <= MaxCalls
    BY <1>1, WithoutProperties, DashboardAssumption DEF Fail
  <1>3. spent' \in [clicks : 0 .. MaxClicks, mishaps : 0 .. MaxMishaps]
    <2>1. spent' = [spent EXCEPT !.mishaps = spent.mishaps + 1]
          /\ spent.mishaps \in 0 .. MaxMishaps /\ spent.mishaps < MaxMishaps
      BY DEF Fail, Mishap, TypeOK
    <2>2. spent.mishaps + 1 \in 0 .. MaxMishaps
      BY <2>1, DashboardAssumption
    <2> QED BY <2>1, <2>2 DEF TypeOK
  <1> QED BY <1>2, <1>3 DEF Fail, TypeOK

LEMMA OtherTypes ==
  ASSUME TypeOK, NEW d \in Docs, Engine(d) \/ Stranger(d)
  PROVE  TypeOK'
  <1>1. {"queued", "partial_failure", "completed", "processed"} \subseteq Statuses
        /\ StatusesOf.rules \subseteq Statuses
    BY DEF Statuses, StatusesOf, Tabs
  <1>2. store' \in [Docs -> Statuses]
    BY <1>1 DEF Engine, EngineMoves, Stranger, OtherReplays, OtherEdits, TypeOK
  <1>3. CASE Engine(d)
    BY <1>2, <1>3 DEF Engine, EngineMoves, TypeOK
  <1>4. CASE Stranger(d)
    <2>1. spent' \in [clicks : 0 .. MaxClicks, mishaps : 0 .. MaxMishaps]
      <3>1. spent' = [spent EXCEPT !.mishaps = spent.mishaps + 1]
            /\ spent.mishaps \in 0 .. MaxMishaps /\ spent.mishaps < MaxMishaps
        BY <1>4 DEF Stranger, Mishap, TypeOK
      <3>2. spent.mishaps + 1 \in 0 .. MaxMishaps
        BY <3>1, DashboardAssumption
      <3> QED BY <3>1, <3>2 DEF TypeOK
    <2>2. excuses' \subseteq {"overtaken", "failed", "left", "unread", "stranger"}
      BY <1>4 DEF Stranger, OtherReplays, OtherEdits, TypeOK
    <2> QED BY <1>2, <1>4, <2>1, <2>2 DEF Stranger, TypeOK
  <1> QED BY <1>3, <1>4

LEMMA TypesStep ==
  ASSUME TypeOK, CallsFit, [Next]_vars
  PROVE  TypeOK'
  <1>1. CASE UNCHANGED vars
    BY <1>1 DEF vars, TypeOK
  <1> QED BY <1>1, UserTypes, ServeTypes, AnswerTypes, FailTypes, OtherTypes DEF Next

-----------------------------------------------------------------------------
(* Every step keeps it.                                                    *)

\* A call as it is sent: for something that fits, and not answered yet.
Sent(c) == /\ Fits(c)
           /\ c.live /\ ~c.late /\ c.answer = "none" /\ DOMAIN c.body = {}

LEMMA SentLists ==
  ASSUME NEW t \in Tenants
  PROVE  /\ List(t) \in Call /\ Sent(List(t))
         /\ [List(t) EXCEPT !.then = None] = List(t)
         /\ \A d \in Docs : ~Holds(List(t), d)
  <1>1. List(t) = [op |-> "list", tenant |-> t, doc |-> None, value |-> None, then |-> None,
                   live |-> TRUE, late |-> FALSE, answer |-> "none", body |-> NoRows]
    BY DEF List, NewCall
  <1>2. [List(t) EXCEPT !.then = None] = List(t)
    <2>1. \A c \in Call : [c EXCEPT !.then = c.then] = c
      BY DEF Call
    <2>2. List(t).then = None
      BY <1>1
    <2>3. List(t) \in Call
      BY NewCallType
    <2> QED BY <2>1, <2>2, <2>3
  <1>3. Sent(List(t)) /\ \A d \in Docs : ~Holds(List(t), d)
    BY <1>1, NoRowsType, DashboardAssumption DEF Sent, Fits, Edits, Holds
  <1> QED BY <1>2, <1>3, NewCallType

\* The list that follows a replay.
ListAfter(t, e) == [List(t) EXCEPT !.then = e]

LEMMA SentReloads ==
  ASSUME NEW t \in Tenants, NEW e \in Docs, Tab[e] = "jobs"
  PROVE  /\ ListAfter(t, e) \in Call /\ Sent(ListAfter(t, e))
         /\ Holds(ListAfter(t, e), e)
         /\ \A d \in Docs : Holds(ListAfter(t, e), d) => d = e
  BY NewCallType, NoRowsType, DashboardAssumption
     DEF ListAfter, Sent, List, NewCall, Fits, Edits, Holds

\* What a click sends.
LEMMA SentClicks ==
  ASSUME TypeOK, RowsFit, Blank, NEW d \in DOMAIN rows
  PROVE  /\ tenant \in Tenants /\ d \in Docs
         /\ tab = "jobs" => LET c == NewCall("replay", tenant, d)
                            IN /\ c \in Call /\ Sent(c)
                               /\ \A e \in Docs : Holds(c, e) => e = d
         /\ tab = "rules" =>
              \A op \in Edits, v \in StatusesOf.rules :
                LET c == [NewCall(op, tenant, d) EXCEPT !.value = v]
                IN c \in Call /\ Sent(c) /\ \A e \in Docs : ~Holds(c, e)
  <1>1. tenant \in Tenants /\ d \in Docs /\ Tab[d] = tab /\ None \notin Docs
    BY DashboardAssumption DEF TypeOK, RowsFit, Blank, Rows
  <1>2. StatusesOf.rules \subseteq Statuses
    BY DEF Statuses, StatusesOf, Tabs
  <1>3. tab = "jobs" => LET c == NewCall("replay", tenant, d)
                        IN /\ c \in Call /\ Sent(c)
                           /\ \A e \in Docs : Holds(c, e) => e = d
    BY <1>1, NewCallType, NoRowsType DEF Sent, NewCall, Fits, Edits, Holds
  <1>4. ASSUME tab = "rules", NEW op \in Edits, NEW v \in StatusesOf.rules
        PROVE  LET c == [NewCall(op, tenant, d) EXCEPT !.value = v]
               IN c \in Call /\ Sent(c) /\ \A e \in Docs : ~Holds(c, e)
    BY <1>1, <1>2, <1>4, NewCallType, NoRowsType DEF Sent, NewCall, Fits, Edits, Holds
  <1> QED BY <1>1, <1>3, <1>4

LEMMA CarriedFits ==
  ASSUME CallsFit, NEW src, NEW gone, Carried(src, gone), Kept(src), tab' = tab,
         \A k \in DOMAIN calls' : src[k] = 0 => Sent(calls'[k])
  PROVE  CallsFit'
  <1> SUFFICES ASSUME NEW k \in DOMAIN calls'
               PROVE  /\ Fits(calls'[k])
                      /\ calls'[k].live => \A d \in DOMAIN calls'[k].body : Tab[d] = tab
    BY DEF CallsFit, Fits
  <1>1. CASE src[k] = 0
    BY <1>1 DEF Sent
  <1>2. CASE src[k] # 0
    <2>1. Same(calls[src[k]], calls'[k]) /\ src[k] \in DOMAIN calls
      BY <1>2 DEF Carried
    <2> QED BY <1>2, <2>1 DEF Kept, CallsFit, Fits, Same
  <1> QED BY <1>1, <1>2

LEMMA CarriedHolders ==
  ASSUME TypeOK', OneHolder, Held, NEW src, NEW gone, Carried(src, gone),
         \A k \in DOMAIN calls', d \in Docs :
           src[k] = 0 /\ Holds(calls'[k], d) =>
             d \in replaying' /\ \A i \in DOMAIN calls : Holds(calls[i], d) => i = gone,
         \A i \in DOMAIN calls, d \in Docs :
           i # gone /\ Holds(calls[i], d) => d \in replaying'
  PROVE  OneHolder' /\ Held'
  <1>1. \A k \in DOMAIN calls', d \in Docs :
          src[k] # 0 /\ Holds(calls'[k], d) =>
            src[k] \in DOMAIN calls /\ src[k] # gone /\ Holds(calls[src[k]], d)
    BY DEF Carried, Same, Holds
  <1>2. ASSUME NEW k \in DOMAIN calls', NEW m \in DOMAIN calls', k < m, NEW d \in Docs,
               Holds(calls'[k], d), Holds(calls'[m], d)
        PROVE  FALSE
    <2>1. src[k] # 0
      BY <1>2 DEF Carried
    <2>2. src[m] # 0
      BY <1>1, <1>2, <2>1
    <2>3. src[k] < src[m]
      BY <1>2, <2>2 DEF Carried
    <2>4. src[k] = src[m]
      BY <1>1, <1>2, <2>1, <2>2 DEF OneHolder
    <2>5. src[k] \in Nat /\ src[m] \in Nat
      BY DEF Carried
    <2> QED BY <2>3, <2>4, <2>5
  <1>3. \A k, m \in DOMAIN calls' : k = m \/ k < m \/ m < k
    BY DEF TypeOK
  <1>4. OneHolder'
    BY <1>2, <1>3 DEF OneHolder, Holds
  <1>5. Held'
    BY <1>1 DEF Held, Holds
  <1> QED BY <1>4, <1>5

\* The three facts about calls.
CallFacts == CallsFit /\ OneHolder /\ Held

\* A call was sent, and the button it holds is shown.
LEMMA SendKeepsCalls ==
  ASSUME TableInv, TypeOK', NEW c \in Call, Sent(c), calls' = Append(calls, c), tab' = tab,
         replaying \subseteq replaying',
         \A d \in Docs : Holds(c, d) => d \in replaying' \ replaying
  PROVE  CallFacts'
  <1>1. PICK src : Carried(src, 0) /\ Fresh(src, c) /\ Kept(src)
    BY CarriedAppend DEF TableInv
  <1> QED BY <1>1, CarriedFits, CarriedHolders DEF Fresh, TableInv, Held, CallFacts

LEMMA UserKeepsCalls ==
  ASSUME TableInv, TypeOK', User \/ Poll
  PROVE  CallFacts'
  <1> USE DashboardAssumption
  <1>1. ASSUME NEW t \in Tenants, SelectTenant(t)
        PROVE  CallFacts'
    BY <1>1, SentLists, SendKeepsCalls DEF SelectTenant, Select
  <1>2. ASSUME Poll
        PROVE  CallFacts'
    <2>1. timer \in Tenants
      BY <1>2 DEF Poll, TableInv, TypeOK
    <2> QED BY <1>2, <2>1, SentLists, SendKeepsCalls DEF Poll
  <1>3. ASSUME NEW d \in Docs, ClickReplay(d) \/ ClickToggle(d) \/ ClickDelete(d)
        PROVE  CallFacts'
    <2>1. d \in DOMAIN rows /\ tab' = tab
      BY <1>3 DEF ClickReplay, ClickToggle, ClickDelete, Click
    <2>2. CASE ClickReplay(d)
      <3>1. /\ calls' = Append(calls, NewCall("replay", tenant, d))
            /\ tab = "jobs" /\ d \notin replaying /\ replaying' = replaying \cup {d}
        BY <2>2 DEF ClickReplay, CanReplay, Click
      <3> QED BY <2>1, <3>1, SentClicks, SendKeepsCalls DEF TableInv
    <2>3. CASE ClickToggle(d) \/ ClickDelete(d)
      <3>1. PICK op \in Edits, v \in StatusesOf.rules :
              calls' = Append(calls, [NewCall(op, tenant, d) EXCEPT !.value = v])
        <4>1. {"enabled", "disabled", "removed"} \subseteq StatusesOf.rules
          BY DEF StatusesOf
        <4> QED BY <2>3, <4>1, ClickStatus DEF ClickToggle, ClickDelete, Click, Edits
      <3>2. tab = "rules" /\ replaying' = replaying
        BY <2>3 DEF ClickToggle, ClickDelete
      <3> DEFINE c == [NewCall(op, tenant, d) EXCEPT !.value = v]
      <3>3. c \in Call /\ Sent(c) /\ \A e \in Docs : ~Holds(c, e)
        BY <2>1, <3>2, SentClicks DEF TableInv
      <3> HIDE DEF c
      <3>4. calls' = Append(calls, c)
        BY <3>1 DEF c
      <3> QED BY <2>1, <3>2, <3>3, <3>4, SendKeepsCalls
    <2> QED BY <1>3, <2>2, <2>3
  <1>4. ASSUME NEW c \in Tabs, SelectTab(c)
        PROVE  CallFacts'
    <2>1. CASE tenant = None
      <3>1. calls' = calls /\ \A i \in DOMAIN calls : calls[i].op = "tenants"
        BY <1>4, <2>1 DEF SelectTab, TableInv, Blank
      <3>2. \A i \in DOMAIN calls, d \in Docs : ~Holds(calls[i], d)
        BY <3>1 DEF Holds, TableInv, CallsFit, Fits
      <3>3. \A i \in DOMAIN calls : DOMAIN calls[i].body = {}
        BY <3>1 DEF TableInv, CallsFit, Fits
      <3> QED BY <3>1, <3>2, <3>3 DEF CallFacts, TableInv, CallsFit, OneHolder, Held, Fits
    <2>2. CASE tenant # None
      <3>1. /\ DOMAIN calls' = 1 .. Len(calls) + 1 /\ DOMAIN calls = 1 .. Len(calls)
            /\ \A i \in DOMAIN calls : calls'[i] = [calls[i] EXCEPT !.live = FALSE]
            /\ calls'[Len(calls) + 1] = List(tenant)
            /\ Len(calls) \in Nat
        BY <1>4, <2>2, OrphanedTypes DEF SelectTab, TableInv, TypeOK
      <3>2. /\ Sent(List(tenant)) /\ \A d \in Docs : ~Holds(List(tenant), d)
        BY <2>2, SentLists DEF TableInv, TypeOK
      <3>3. \A i \in DOMAIN calls :
              calls[i] \in Call /\ Fits(calls'[i]) /\ ~calls'[i].live
        <4>1. \A i \in DOMAIN calls : calls[i] \in Call
          BY DEF TableInv, TypeOK
        <4>2. \A i \in DOMAIN calls : Fits(calls'[i]) /\ ~calls'[i].live
          <5> SUFFICES ASSUME NEW i \in DOMAIN calls
                       PROVE  Fits(calls'[i]) /\ ~calls'[i].live
            OBVIOUS
          <5>1. Fits(calls[i])
            BY DEF TableInv, CallsFit
          <5>2. calls'[i] = [calls[i] EXCEPT !.live = FALSE] /\ calls[i] \in Call
            BY <3>1, <4>1
          <5> QED BY <5>1, <5>2 DEF Call, Fits
        <4> QED BY <4>1, <4>2
      <3>4. \A i \in DOMAIN calls' : i \in DOMAIN calls \/ i = Len(calls) + 1
        BY <3>1
      <3> QED BY <3>1, <3>2, <3>3, <3>4
              DEF CallFacts, CallsFit, OneHolder, Held, Holds, Sent, Fits
    <2> QED BY <2>1, <2>2
  <1> QED BY <1>1, <1>2, <1>3, <1>4 DEF User

LEMMA ServeKeepsCalls ==
  ASSUME TableInv, TypeOK', NEW i \in DOMAIN calls, Serve(i)
  PROVE  CallFacts'
  <1>1. PICK src : Carried(src, 0) /\ \A k \in DOMAIN calls : src[k] = k
    BY ServeCalls, CarriedAlong DEF TableInv
  <1>2. DOMAIN calls' = DOMAIN calls /\ 0 \notin DOMAIN calls
        /\ replaying' = replaying /\ tab' = tab
    BY ServeCalls DEF Serve, TableInv, TypeOK
  <1>3. OneHolder' /\ Held'
    BY <1>1, <1>2, CarriedHolders DEF TableInv, Held
  <1>4. ASSUME NEW k \in DOMAIN calls'
        PROVE  /\ Fits(calls'[k])
               /\ calls'[k].live => \A d \in DOMAIN calls'[k].body : Tab[d] = tab
    <2>1. /\ k \in DOMAIN calls /\ Fits(calls[k])
          /\ calls[k].live => \A d \in DOMAIN calls[k].body : Tab[d] = tab
      BY <1>2 DEF TableInv, CallsFit
    <2>2. CASE k # i
      BY <2>1, <2>2, ServeCalls DEF TableInv
    <2>3. CASE k = i
      <3>1. Same(calls[i], calls'[i])
        BY ServeCalls DEF TableInv
      <3>2. CASE calls[i].op = "list" /\ calls[i].live
        <4>1. calls'[i].body = Listing(calls[i].tenant, tab) /\ calls'[i].answer # "notFound"
          BY <3>2, ServeCalls DEF TableInv, Edits
        <4>2. \A d \in DOMAIN calls'[i].body : Tab[d] = tab
          BY <4>1, ListingType DEF TableInv
        <4> QED BY <2>1, <2>3, <3>1, <3>2, <4>1, <4>2 DEF Same, Fits
      <3>3. CASE ~(calls[i].op = "list" /\ calls[i].live)
        <4>1. /\ calls'[i].body = calls[i].body
              /\ calls'[i].answer = "notFound" => calls[i].op \in {"replay"} \cup Edits
          BY <3>3, ServeCalls DEF TableInv
        <4> QED BY <2>1, <2>3, <3>1, <4>1 DEF Same, Fits
      <3> QED BY <3>2, <3>3
    <2> QED BY <2>2, <2>3
  <1>5. CallsFit'
    BY <1>2, <1>4 DEF CallsFit, Fits
  <1> QED BY <1>3, <1>5 DEF CallFacts

\* A call went away and freed, at most, the button that it held.
LEMMA DropKeepsCalls ==
  ASSUME TableInv, TypeOK', NEW i \in DOMAIN calls, tab' = tab,
         calls' = Without(i) \/ calls' = OthersLate(i),
         \A d \in Docs : d \in replaying /\ ~Holds(calls[i], d) =>
                           d \in replaying' \/ (d = calls[i].doc /\ calls[i].op \in Edits)
  PROVE  CallFacts'
  <1>1. PICK src : /\ Carried(src, i) /\ Kept(src)
                   /\ \A k \in DOMAIN calls' : src[k] # 0
    BY CarriedWithout, CarriedLate DEF TableInv
  <1>2. ASSUME NEW k \in DOMAIN calls, NEW d \in Docs, k # i, Holds(calls[k], d)
        PROVE  d \in replaying'
    <2>1. d \in replaying /\ ~Holds(calls[i], d)
      BY <1>2 DEF TableInv, Held, OneHolder
    <2>2. Tab[d] = "jobs"
      BY <1>2 DEF TableInv, CallsFit, Fits, Holds
    <2>3. calls[i].op \in Edits => Tab[calls[i].doc] = "rules"
      BY DEF TableInv, CallsFit, Fits
    <2> QED BY <2>1, <2>2, <2>3
  <1>3. CallsFit'
    BY <1>1, CarriedFits DEF TableInv
  <1>4. OneHolder' /\ Held'
    BY <1>1, <1>2, CarriedHolders DEF TableInv
  <1> QED BY <1>3, <1>4 DEF CallFacts

\* A call made room for a list, which holds no button but that of the call.
LEMMA ReplaceKeepsCalls ==
  ASSUME TableInv, TypeOK', NEW i \in DOMAIN calls, tab' = tab, replaying' = replaying,
         NEW c \in Call, Sent(c), calls' = Append(Without(i), c),
         \A d \in Docs : Holds(c, d) => Holds(calls[i], d)
  PROVE  CallFacts'
  <1>1. PICK src : Carried(src, i) /\ Kept(src) /\ Fresh(src, c)
    BY CarriedOver DEF TableInv
  <1>2. CallsFit'
    BY <1>1, CarriedFits DEF TableInv, Fresh
  <1>3. OneHolder' /\ Held'
    BY <1>1, CarriedHolders DEF TableInv, Fresh, Held, OneHolder
  <1> QED BY <1>2, <1>3 DEF CallFacts

LEMMA AnswerKeepsCalls ==
  ASSUME TableInv, TypeOK', NEW i \in DOMAIN calls, Answer(i)
  PROVE  CallFacts'
  <1> USE DashboardAssumption
  <1>1. Fits(calls[i]) /\ tab' = tab /\ calls[i] \in Call
    BY DEF TableInv, CallsFit, Answer, TypeOK
  <1>2. CASE ShowRows(i)
    BY <1>1, <1>2, DropKeepsCalls DEF ShowRows, Holds
  <1>3. CASE Ignored(i) \/ Unread(i)
    BY <1>1, <1>3, DropKeepsCalls DEF Ignored, Unread
  <1>4. CASE Refused(i)
    <2>1. calls[i].op \in {"replay"} \cup Edits
      BY <1>1, <1>4 DEF Refused, Fits
    <2>2. \A d \in replaying : d \in replaying' \/ (d = calls[i].doc /\ calls[i].live)
      BY <1>4 DEF Refused
    <2> QED BY <1>1, <1>4, <2>1, <2>2, DropKeepsCalls DEF Refused, Holds
  <1>5. CASE Start(i)
    BY <1>1, <1>5, SentLists, ReplaceKeepsCalls DEF Start
  <1>6. CASE Reload(i)
    <2>1. CASE ~calls[i].live
      BY <1>1, <1>6, <2>1, DropKeepsCalls DEF Reload
    <2>2. CASE calls[i].live /\ calls[i].op = "toggle"
      <3>1. calls' = Append(Without(i), [List(calls[i].tenant) EXCEPT !.then = None])
            /\ calls[i].tenant \in Tenants /\ replaying' = replaying
        BY <1>1, <1>6, <2>2 DEF Reload, Fits, Edits
      <3>2. [List(calls[i].tenant) EXCEPT !.then = None] = List(calls[i].tenant)
        BY <3>1, SentLists
      <3> QED BY <1>1, <3>1, <3>2, SentLists, ReplaceKeepsCalls
    <2>3. CASE calls[i].live /\ calls[i].op = "replay"
      <3>1. PICK t \in Tenants, e \in Docs :
              /\ calls' = Append(Without(i), ListAfter(t, e))
              /\ replaying' = replaying /\ e = calls[i].doc /\ Tab[e] = "jobs"
        BY <1>1, <1>6, <2>3 DEF Reload, Fits, ListAfter
      <3>2. \A d \in Docs : Holds(ListAfter(t, e), d) => Holds(calls[i], d)
        BY <2>3, <3>1, SentReloads DEF Holds
      <3> QED BY <1>1, <3>1, <3>2, SentReloads, ReplaceKeepsCalls
    <2> QED BY <1>6, <2>1, <2>2, <2>3 DEF Reload
  <1> QED BY <1>2, <1>3, <1>4, <1>5, <1>6 DEF Answer

LEMMA FailKeepsCalls ==
  ASSUME TableInv, TypeOK', NEW i \in DOMAIN calls, Fail(i)
  PROVE  CallFacts'
  <1>1. Fits(calls[i]) /\ tab' = tab /\ calls[i] \in Call
    BY DEF TableInv, CallsFit, Fail, TypeOK
  <1>2. \A d \in replaying : \/ d \in replaying'
                             \/ calls[i].live /\ (d = calls[i].doc \/ d = calls[i].then)
    BY DEF Fail
  <1>3. calls[i].op \in Operations
    BY <1>1 DEF Call
  <1>4. \A d \in Docs : d \in replaying /\ ~Holds(calls[i], d) =>
                          d \in replaying' \/ (d = calls[i].doc /\ calls[i].op \in Edits)
    BY <1>1, <1>2, <1>3 DEF Holds, Fits, Operations, Edits
  <1> QED BY <1>1, <1>4, DropKeepsCalls DEF Fail

LEMMA QuietKeepsCalls ==
  ASSUME TableInv, UNCHANGED <<calls, tab, replaying>>
  PROVE  CallFacts'
  BY DEF TableInv, CallFacts, CallsFit, Fits, OneHolder, Held, Holds

LEMMA StoreStep ==
  ASSUME TableInv, [Next]_vars
  PROVE  StoreFits'
  <1> SUFFICES ASSUME NEW d \in Docs, store'[d] # store[d]
               PROVE  store'[d] \in StatusesOf[Tab[d]]
    BY DEF TableInv, StoreFits
  <1> USE DashboardAssumption
  <1>1. store \in [Docs -> Statuses] /\ store[d] \in StatusesOf[Tab[d]] /\ Tab[d] \in Tabs
    BY DEF TableInv, TypeOK, StoreFits
  <1>2. \/ \E i \in DOMAIN calls : Serve(i)
        \/ \E e \in Docs : Engine(e) \/ Stranger(e)
    BY DEF Next, vars, User, SelectTenant, SelectTab, ClickReplay, ClickToggle, ClickDelete,
           Click, Poll, Answer, Fail
  <1>3. ASSUME NEW i \in DOMAIN calls, Serve(i)
        PROVE  store'[d] \in StatusesOf[Tab[d]]
    <2>1. Fits(calls[i])
      BY DEF TableInv, CallsFit
    <2>2. CASE calls[i].op = "replay"
      BY <1>1, <1>3, <2>1, <2>2
         DEF Serve, ServeRead, ServeReplay, ServeEdit, Fits, StatusesOf
    <2>3. CASE calls[i].op \in Edits
      BY <1>1, <1>3, <2>1, <2>3 DEF Serve, ServeRead, ServeReplay, ServeEdit, Fits, Edits
    <2>4. CASE calls[i].op \notin {"replay"} \cup Edits
      BY <1>3, <2>4 DEF Serve, ServeRead, ServeReplay, ServeEdit, Edits
    <2> QED BY <2>2, <2>3, <2>4
  <1>4. ASSUME NEW e \in Docs, Engine(e) \/ Stranger(e)
        PROVE  store'[d] \in StatusesOf[Tab[d]]
    <2>1. d = e
      BY <1>1, <1>4 DEF Engine, EngineMoves, Stranger, OtherReplays, OtherEdits
    <2>2. /\ store[d] \in {"queued", "partial_failure", "completed"} => Tab[d] = "jobs"
          /\ store[d] = "received" => Tab[d] = "events"
          /\ store[d] \in {"enabled", "disabled"} => Tab[d] = "rules"
      BY <1>1 DEF StatusesOf, Tabs
    <2>3. CASE Engine(e)
      BY <1>1, <2>1, <2>2, <2>3 DEF Engine, EngineMoves, StatusesOf
    <2>4. CASE Stranger(e)
      <3>1. CASE OtherReplays(e)
        BY <1>1, <2>1, <2>2, <3>1 DEF OtherReplays, StatusesOf
      <3>2. CASE OtherEdits(e)
        BY <1>1, <2>1, <2>2, <3>2 DEF OtherEdits
      <3> QED BY <2>4, <3>1, <3>2 DEF Stranger
    <2> QED BY <1>4, <2>3, <2>4
  <1> QED BY <1>2, <1>3, <1>4

LEMMA RowsStep ==
  ASSUME TableInv, [Next]_vars
  PROVE  RowsFit'
  <1> SUFFICES ASSUME ~(rows' = rows /\ tab' = tab)
               PROVE  RowsFit'
    BY DEF TableInv, RowsFit
  <1>1. (\E c \in Tabs : SelectTab(c)) \/ (\E i \in DOMAIN calls : Answer(i) /\ ShowRows(i))
    BY DEF Next, vars, User, SelectTenant, Select, ClickReplay, ClickToggle, ClickDelete,
           Click, Poll, Serve, Answer, Ignored, Reload, Refused, Unread, Start, Fail,
           Engine, Stranger
  <1>2. CASE \E c \in Tabs : SelectTab(c)
    BY <1>2, NoRowsType DEF SelectTab, RowsFit
  <1>3. CASE \E i \in DOMAIN calls : Answer(i) /\ ShowRows(i)
    BY <1>3 DEF Answer, ShowRows, TableInv, CallsFit, RowsFit
  <1> QED BY <1>1, <1>2, <1>3

LEMMA BlankStep ==
  ASSUME TableInv, [Next]_vars
  PROVE  Blank'
  <1> SUFFICES ASSUME tenant' = None
               PROVE  /\ timer' = None /\ DOMAIN rows' = {}
                      /\ \A i \in DOMAIN calls' : calls'[i].op = "tenants"
    BY DEF Blank
  <1> USE DashboardAssumption
  <1>1. tenant = None
    BY DEF Next, vars, User, SelectTenant, Select, SelectTab, ClickReplay, ClickToggle,
           ClickDelete, Click, Poll, Serve, Answer, ShowRows, Ignored, Reload, Refused,
           Unread, Start, Fail, Engine, Stranger
  <1>2. /\ timer = None /\ DOMAIN rows = {}
        /\ \A i \in DOMAIN calls : calls[i].op = "tenants"
    BY <1>1 DEF TableInv, Blank
  <1>3. ASSUME NEW c \in Tabs, SelectTab(c)
        PROVE  timer' = None /\ DOMAIN rows' = {} /\ calls' = calls
    BY <1>1, <1>3, NoRowsType DEF SelectTab
  <1>4. ASSUME NEW i \in DOMAIN calls, Serve(i)
        PROVE  /\ timer' = None /\ DOMAIN rows' = {}
               /\ \A k \in DOMAIN calls' : calls'[k].op = "tenants"
    <2>1. DOMAIN calls' = DOMAIN calls /\ \A k \in DOMAIN calls : Same(calls[k], calls'[k])
      BY <1>4, ServeCalls DEF TableInv
    <2> QED BY <1>2, <1>4, <2>1 DEF Serve, Same
  <1>5. ASSUME NEW i \in DOMAIN calls, Answer(i) \/ Fail(i)
        PROVE  /\ timer' = None /\ DOMAIN rows' = {}
               /\ \A k \in DOMAIN calls' : calls'[k].op = "tenants"
    <2>1. calls[i].op = "tenants" /\ calls[i].answer # "notFound"
      BY <1>2 DEF TableInv, CallsFit, Fits, Edits
    <2>2. ~Answer(i)
      BY <2>1, <1>1 DEF Answer, ShowRows, Ignored, Reload, Refused, Unread, Start
    <2>3. Fail(i)
      BY <1>5, <2>2
    <2>4. \A k \in DOMAIN calls' : calls'[k].op = "tenants"
      <3>1. PICK src : \A k \in DOMAIN calls' : src[k] \in DOMAIN calls
                                                /\ calls'[k] = calls[src[k]]
        <4>1. TypeOK /\ calls' = Without(i) /\ Len(calls) \in Nat
          BY <2>3 DEF Fail, TableInv, TypeOK
        <4>2. PICK f : /\ Carried(f, i)
                       /\ \A k \in DOMAIN calls' : f[k] # 0 /\ calls'[k] = calls[f[k]]
          BY <4>1, CarriedWithout
        <4>3. \A k \in DOMAIN calls' : f[k] \in 1 .. Len(calls)
          BY <4>1, <4>2 DEF Carried
        <4>4. DOMAIN calls = 1 .. Len(calls)
          BY <4>1 DEF TypeOK
        <4> QED BY <4>2, <4>3, <4>4
      <3> QED BY <1>2, <3>1
    <2> QED BY <1>2, <2>3, <2>4 DEF Fail
  <1>6. CASE \/ UNCHANGED vars \/ Poll \/ \E t \in Tenants : SelectTenant(t)
             \/ \E d \in Docs : \/ ClickReplay(d) \/ ClickToggle(d) \/ ClickDelete(d)
                                \/ Engine(d) \/ Stranger(d)
    BY <1>1, <1>2, <1>6 DEF vars, Poll, SelectTenant, ClickReplay, ClickToggle, ClickDelete,
                            Engine, Stranger
  <1> QED BY <1>2, <1>3, <1>4, <1>5, <1>6 DEF Next, User

LEMMA TableStep ==
  ASSUME TableInv, [Next]_vars
  PROVE  TableInv'
  <1>1. TypeOK'
    BY TypesStep DEF TableInv
  <1>2. CallFacts'
    <2>1. CASE UNCHANGED vars \/ \E d \in Docs : Engine(d) \/ Stranger(d)
      BY <2>1, QuietKeepsCalls DEF vars, Engine, Stranger
    <2> QED BY <1>1, <2>1, UserKeepsCalls, ServeKeepsCalls, AnswerKeepsCalls, FailKeepsCalls
            DEF Next
  <1> QED BY <1>1, <1>2, StoreStep, RowsStep, BlankStep DEF CallFacts, TableInv

THEOREM TableInvariant == Spec => []TableInv
  <1> QED BY InitTable, TableStep, PTL DEF Spec

\* The variables of the dashboard, and every call on its way, have their types.
THEOREM DashboardTypes == Spec => []TypeOK
  <1>1. TableInv => TypeOK
    BY DEF TableInv
  <1> QED BY <1>1, TableInvariant, PTL

-----------------------------------------------------------------------------
(* A job this tab has queued is not replayed on a stale picture of it.     *)

\* A call that, once answered, leads to a list in which d is not as it was before the
\* replay: a replay that was accepted, or a list sent after one.
Releases(c, d) ==
  /\ c.live
  /\ \/ c.op = "replay" /\ c.doc = d /\ c.answer = "ok"
     \/ c.op = "list" /\ c.then = d

\* One is on its way still, and was sent later than the k-th call if it is a list.
Pending(k, d) ==
  \E i \in DOMAIN calls : Releases(calls[i], d) /\ (calls[i].op = "list" => k < i)

ClicksLive == \A i \in DOMAIN calls : calls[i].op # "list" => calls[i].live
Unserved   == \A i \in DOMAIN calls :
                calls[i].op = "replay" /\ calls[i].answer # "ok" =>
                  calls[i].doc \notin ours
ShownStale == \A d \in DOMAIN rows :
                rows[d] = "partial_failure" /\ d \in ours => Pending(0, d)
SentStale  == \A k \in DOMAIN calls :
                calls[k].op = "list" /\ calls[k].live /\ ~calls[k].late =>
                  \A d \in DOMAIN calls[k].body :
                    calls[k].body[d] = "partial_failure" /\ d \in ours => Pending(k, d)
OursQueued == \A d \in ours : store[d] = "queued"

RepliesInv ==
  ClicksLive /\ Unserved /\ ShownStale /\ SentStale /\ OursQueued /\ repeats = 0

Unexcused == excuses \cap {"failed", "overtaken", "left"} = {}

ReplayInv == Unexcused => RepliesInv

LEMMA CarriedOn ==
  ASSUME TypeOK, TypeOK', NEW src, NEW gone, Carried(src, gone),
         NEW i \in DOMAIN calls, i # gone,
         NEW m \in {0} \cup DOMAIN calls', m # 0 => src[m] # 0
  PROVE  \E k \in DOMAIN calls' : /\ src[k] = i /\ Same(calls[i], calls'[k])
                                  /\ m = 0 \/ src[m] < i => m < k
  <1>1. PICK k \in DOMAIN calls' : src[k] = i
    BY DEF Carried
  <1>2. /\ src[k] \in Nat /\ k \in Nat \ {0} /\ m \in Nat
        /\ m \in DOMAIN calls' => src[m] \in Nat
    <2>1. \A n \in DOMAIN calls' : n \in Nat \ {0}
      BY DEF TypeOK
    <2>2. \A n \in DOMAIN calls' : src[n] \in Nat
      BY DEF Carried, TypeOK
    <2> QED BY <2>1, <2>2
  <1>3. src[k] # 0
    BY <1>1 DEF TypeOK
  <1>4. Same(calls[i], calls'[k])
    BY <1>1, <1>3 DEF Carried
  <1>5. ASSUME m # 0, src[m] < i
        PROVE  m < k
    <2>1. CASE k < m
      BY <2>1, <1>1, <1>2, <1>5 DEF Carried
    <2>2. CASE k = m
      BY <2>2, <1>1, <1>2, <1>5
    <2> QED BY <2>1, <2>2, <1>2
  <1> QED BY <1>1, <1>2, <1>4, <1>5

\* What is pending stays so if the call that goes away leaves a list in its place.
LEMMA PendingStays ==
  ASSUME TypeOK, TypeOK', NEW src, NEW gone, Carried(src, gone), NEW d \in Docs,
         gone # 0 /\ Releases(calls[gone], d) =>
           \E k \in DOMAIN calls' : src[k] = 0 /\ calls'[k].op = "list"
                                               /\ Releases(calls'[k], d),
         NEW m \in {0} \cup DOMAIN calls', m # 0 => src[m] # 0,
         NEW n \in Nat, n = IF m = 0 THEN 0 ELSE src[m], Pending(n, d)
  PROVE  Pending(m, d)'
  <1>1. PICK i \in DOMAIN calls : Releases(calls[i], d) /\ (calls[i].op = "list" => n < i)
    BY DEF Pending
  <1>2. i \in Nat \ {0}
    BY DEF TypeOK
  <1>3. CASE i # gone
    <2>1. PICK k \in DOMAIN calls' : /\ Same(calls[i], calls'[k])
                                     /\ m = 0 \/ src[m] < i => m < k
      BY <1>3, CarriedOn
    <2>2. Releases(calls'[k], d) /\ (calls'[k].op = "list" => m < k)
      BY <1>1, <2>1 DEF Releases, Same
    <2> QED BY <2>2 DEF Pending, Releases
  <1>4. CASE i = gone
    <2>1. PICK k \in DOMAIN calls' : src[k] = 0 /\ Releases(calls'[k], d)
      BY <1>1, <1>2, <1>4
    <2>2. m < k
      <3>1. m \in Nat /\ k \in Nat \ {0} /\ m # k
        BY <2>1 DEF TypeOK
      <3>2. m \in DOMAIN calls' => ~(k < m)
        BY <2>1 DEF Carried
      <3> QED BY <3>1, <3>2
    <2> QED BY <2>1, <2>2 DEF Pending, Releases
  <1> QED BY <1>3, <1>4

\* A step that leaves what is pending pending, and shows no rows that were not shown.
LEMMA RepliesCarried ==
  ASSUME TypeOK, TypeOK', CallsFit', RepliesInv, NEW src, NEW gone, Carried(src, gone),
         OursQueued', repeats' = repeats, rows' = rows \/ DOMAIN rows' = {},
         \A k \in DOMAIN calls' : src[k] = 0 =>
           /\ Sent(calls'[k])
           /\ calls'[k].op = "replay" => calls'[k].doc \notin ours',
         \A k \in DOMAIN calls', d \in Docs :
           /\ src[k] # 0 /\ calls'[k].op = "list" /\ calls'[k].live
           /\ d \in DOMAIN calls'[k].body /\ calls'[k].body[d] = "partial_failure"
           /\ calls'[k].body # calls[src[k]].body
           => d \notin ours',
         \A d \in Docs : d \notin ours /\ d \in ours' =>
           /\ \A m \in {0} \cup DOMAIN calls' : Pending(m, d)'
           /\ \A k \in DOMAIN calls' :
                calls'[k].op = "replay" /\ calls'[k].doc = d => calls'[k].answer = "ok",
         \A d \in Docs : gone # 0 /\ Releases(calls[gone], d) =>
           \E k \in DOMAIN calls' : src[k] = 0 /\ calls'[k].op = "list"
                                               /\ Releases(calls'[k], d)
  PROVE  RepliesInv'
  <1>1. \A k \in DOMAIN calls' : src[k] # 0 =>
          src[k] \in DOMAIN calls /\ src[k] \in Nat /\ Same(calls[src[k]], calls'[k])
    BY DEF Carried
  <1>2. ASSUME NEW d \in Docs, Pending(0, d)
        PROVE  Pending(0, d)'
    BY <1>2, PendingStays
  <1>3. ASSUME NEW d \in Docs, NEW m \in DOMAIN calls', src[m] # 0, Pending(src[m], d)
        PROVE  Pending(m, d)'
    <2>1. PICK n \in Nat : n = src[m]
      BY <1>1, <1>3
    <2>2. m # 0
      BY DEF TypeOK
    <2> QED BY <1>3, <2>1, <2>2, PendingStays
  <1>4. ClicksLive'
    BY <1>1 DEF RepliesInv, ClicksLive, Same, Sent
  <1>5. Unserved'
    <2> SUFFICES ASSUME NEW k \in DOMAIN calls', calls'[k].op = "replay",
                        calls'[k].answer # "ok", calls'[k].doc \in ours',
                        src[k] # 0
                 PROVE  FALSE
      BY DEF Unserved
    <2>1. PICK d \in Docs : d = calls'[k].doc
      BY DEF CallsFit, Fits
    <2>2. d \notin ours
      BY <1>1, <2>1 DEF RepliesInv, Unserved, Same
    <2> QED BY <2>1, <2>2
  <1>6. ShownStale'
    <2> SUFFICES ASSUME rows' = rows, NEW d \in DOMAIN rows, rows[d] = "partial_failure",
                        d \in ours'
                 PROVE  Pending(0, d)'
      BY DEF ShownStale
    <2>1. d \in Docs
      BY DEF TypeOK, Rows
    <2>2. CASE d \in ours
      BY <1>2, <2>1, <2>2 DEF RepliesInv, ShownStale
    <2> QED BY <2>1, <2>2
  <1>7. SentStale'
    <2> SUFFICES ASSUME NEW k \in DOMAIN calls', calls'[k].op = "list", calls'[k].live,
                        ~calls'[k].late, NEW d \in DOMAIN calls'[k].body,
                        calls'[k].body[d] = "partial_failure", d \in ours'
                 PROVE  Pending(k, d)'
      BY DEF SentStale
    <2>1. src[k] # 0
      BY DEF Sent
    <2>2. d \in Docs
      <3>1. calls'[k].body \in Rows
        <4>1. calls'[k] \in Call
          BY DEF TypeOK
        <4> QED BY <4>1 DEF Call
      <3> QED BY <3>1 DEF Rows
    <2>3. calls'[k].body = calls[src[k]].body
      BY <2>1, <2>2
    <2>4. CASE d \in ours
      <3>1. Pending(src[k], d)
        BY <1>1, <2>1, <2>3, <2>4 DEF RepliesInv, SentStale, Same
      <3> QED BY <1>3, <2>1, <2>2, <3>1
    <2> QED BY <2>2, <2>4
  <1> QED BY <1>4, <1>5, <1>6, <1>7 DEF RepliesInv

LEMMA InitReplies == Init => ReplayInv
  <1> SUFFICES ASSUME Init PROVE RepliesInv
    BY DEF ReplayInv
  <1>1. DOMAIN calls = {1} /\ calls[1].op = "tenants" /\ calls[1].live /\ DOMAIN rows = {}
    BY NoRowsType DEF Init, NewCall
  <1> QED BY <1>1 DEF Init, RepliesInv, ClicksLive, Unserved, ShownStale, SentStale, OursQueued

\* A step that sends or takes away no call.
LEMMA StayKeepsReplies ==
  ASSUME TableInv, TableInv', RepliesInv, calls' = calls,
         repeats' = repeats, rows' = rows \/ DOMAIN rows' = {},
         ours' \subseteq ours /\ OursQueued'
  PROVE  RepliesInv'
  <1>1. PICK src : Carried(src, 0) /\ \A k \in DOMAIN calls : src[k] = k
    BY CarriedAlong DEF Same, TableInv
  <1>2. 0 \notin DOMAIN calls
    BY DEF TableInv, TypeOK
  <1> QED BY <1>1, <1>2, RepliesCarried DEF TableInv

LEMMA SendKeepsReplies ==
  ASSUME TableInv, TableInv', RepliesInv, NEW c \in Call, Sent(c),
         calls' = Append(calls, c), UNCHANGED <<store, ours, repeats, rows>>,
         c.op = "replay" => c.doc \notin ours
  PROVE  RepliesInv'
  <1>1. PICK src : Carried(src, 0) /\ Fresh(src, c) /\ Kept(src)
    BY CarriedAppend DEF TableInv
  <1>2. OursQueued'
    BY DEF RepliesInv, OursQueued
  <1> QED BY <1>1, <1>2, RepliesCarried DEF Fresh, Kept, TableInv

\* A call went away that no list of a queued job has to wait for.
LEMMA DropKeepsReplies ==
  ASSUME TableInv, TableInv', RepliesInv, NEW i \in DOMAIN calls,
         calls' = Without(i), UNCHANGED <<store, ours, repeats, rows>>,
         \A d \in Docs : ~Releases(calls[i], d)
  PROVE  RepliesInv'
  <1>1. PICK src : /\ Carried(src, i) /\ Kept(src)
                   /\ \A k \in DOMAIN calls' : src[k] # 0
    BY CarriedWithout DEF TableInv
  <1>2. OursQueued'
    BY DEF RepliesInv, OursQueued
  <1> QED BY <1>1, <1>2, RepliesCarried DEF Kept, TableInv

\* It left a list in its place.
LEMMA ReplaceKeepsReplies ==
  ASSUME TableInv, TableInv', RepliesInv, NEW i \in DOMAIN calls, NEW c \in Call, Sent(c),
         calls' = Append(Without(i), c), UNCHANGED <<store, ours, repeats, rows>>,
         c.op = "list", \A d \in Docs : Releases(calls[i], d) => Releases(c, d)
  PROVE  RepliesInv'
  <1>1. PICK src : /\ Carried(src, i) /\ Kept(src) /\ Fresh(src, c)
                   /\ \E k \in DOMAIN calls' : src[k] = 0
    BY CarriedOver DEF TableInv
  <1>2. OursQueued'
    BY DEF RepliesInv, OursQueued
  <1> QED BY <1>1, <1>2, RepliesCarried DEF Fresh, Kept, TableInv

LEMMA UserKeepsReplies ==
  ASSUME TableInv, TableInv', RepliesInv, Unexcused', User \/ Poll
  PROVE  RepliesInv'
  <1> USE DashboardAssumption
  <1>1. ASSUME NEW t \in Tenants, SelectTenant(t) \/ (Poll /\ t = timer)
        PROVE  RepliesInv'
    <2>1. List(t).op = "list"
      BY DEF List, NewCall
    <2> QED BY <1>1, <2>1, SentLists, SendKeepsReplies DEF SelectTenant, Select, Poll
  <1>2. Poll => timer \in Tenants
    BY DEF Poll, TableInv, TypeOK
  <1>3. ASSUME NEW d \in Docs, ClickReplay(d)
        PROVE  RepliesInv'
    <2>1. /\ calls' = Append(calls, NewCall("replay", tenant, d))
          /\ tab = "jobs" /\ d \in DOMAIN rows /\ rows[d] = "partial_failure"
          /\ d \notin replaying /\ UNCHANGED <<store, ours, repeats, rows>>
      BY <1>3 DEF ClickReplay, CanReplay, Click
    <2>2. d \notin ours
      <3>1. ~Pending(0, d)
        BY <2>1 DEF Pending, Releases, TableInv, Held, Holds
      <3> QED BY <2>1, <3>1 DEF RepliesInv, ShownStale
    <2>3. NewCall("replay", tenant, d).doc = d
      BY DEF NewCall
    <2> QED BY <2>1, <2>2, <2>3, SentClicks, SendKeepsReplies DEF TableInv
  <1>4. ASSUME NEW d \in Docs, ClickToggle(d) \/ ClickDelete(d)
        PROVE  RepliesInv'
    <2>1. PICK op \in Edits, v \in StatusesOf.rules :
            calls' = Append(calls, [NewCall(op, tenant, d) EXCEPT !.value = v])
      <3>1. {"enabled", "disabled", "removed"} \subseteq StatusesOf.rules
        BY DEF StatusesOf
      <3> QED BY <1>4, <3>1, ClickStatus DEF ClickToggle, ClickDelete, Click, Edits
    <2>2. tab = "rules" /\ d \in DOMAIN rows /\ UNCHANGED <<store, ours, repeats, rows>>
      BY <1>4 DEF ClickToggle, ClickDelete, Click
    <2> DEFINE c == [NewCall(op, tenant, d) EXCEPT !.value = v]
    <2>3. c \in Call /\ Sent(c)
      BY <2>2, SentClicks DEF TableInv
    <2>4. c.op # "replay"
      BY DEF NewCall, Edits
    <2> HIDE DEF c
    <2>5. calls' = Append(calls, c)
      BY <2>1 DEF c
    <2> QED BY <2>2, <2>3, <2>4, <2>5, SendKeepsReplies
  <1>5. ASSUME NEW c \in Tabs, SelectTab(c)
        PROVE  RepliesInv'
    <2> OursQueued'
      BY <1>5 DEF SelectTab, RepliesInv, OursQueued
    <2>1. CASE tenant = None
      BY <1>5, <2>1, NoRowsType, StayKeepsReplies DEF SelectTab
    <2>2. CASE tenant # None
      <3>1. /\ DOMAIN calls' = 1 .. Len(calls) + 1 /\ DOMAIN calls = 1 .. Len(calls)
            /\ \A i \in DOMAIN calls : calls'[i] = [calls[i] EXCEPT !.live = FALSE]
            /\ calls'[Len(calls) + 1] = List(tenant)
            /\ Len(calls) \in Nat
        BY <1>5, <2>2, OrphanedTypes DEF SelectTab, TableInv, TypeOK
      <3>2. \A i \in DOMAIN calls : calls[i].op = "list"
        BY <1>5, <2>2 DEF SelectTab, Unexcused, Clicked
      <3>3. \A i \in DOMAIN calls : calls'[i].op = "list" /\ ~calls'[i].live
        <4>1. ASSUME NEW b \in Call
              PROVE  [b EXCEPT !.live = FALSE].op = b.op /\ ~[b EXCEPT !.live = FALSE].live
          BY DEF Call
        <4>2. ASSUME NEW i \in DOMAIN calls
              PROVE  calls'[i].op = "list" /\ ~calls'[i].live
          <5>1. calls[i] \in Call
            BY DEF TableInv, TypeOK
          <5>2. calls'[i] = [calls[i] EXCEPT !.live = FALSE] /\ calls[i].op = "list"
            BY <3>1, <3>2
          <5> QED BY <4>1, <5>1, <5>2
        <4> QED BY <4>2
      <3>4. /\ Sent(List(tenant)) /\ List(tenant).op = "list"
        BY <2>2, SentLists DEF TableInv, TypeOK, List, NewCall
      <3>5. \A i \in DOMAIN calls' : i \in DOMAIN calls \/ i = Len(calls) + 1
        BY <3>1
      <3>6. DOMAIN rows' = {} /\ repeats' = 0 /\ ours' = ours
        BY <1>5, NoRowsType DEF SelectTab, RepliesInv
      <3> QED BY <3>1, <3>3, <3>4, <3>5, <3>6
              DEF RepliesInv, ClicksLive, Unserved, ShownStale, SentStale, Sent
    <2> QED BY <2>1, <2>2
  <1> QED BY <1>1, <1>2, <1>3, <1>4, <1>5 DEF User

LEMMA ServeKeepsReplies ==
  ASSUME TableInv, TableInv', RepliesInv, NEW i \in DOMAIN calls, Serve(i)
  PROVE  RepliesInv'
  <1>1. /\ DOMAIN calls' = DOMAIN calls
        /\ \A k \in DOMAIN calls : k # i => calls'[k] = calls[k]
        /\ \A k \in DOMAIN calls : Same(calls[k], calls'[k])
        /\ calls[i].answer = "none"
        /\ calls[i].op = "list" /\ calls[i].live =>
             calls'[i].body = Listing(calls[i].tenant, tab)
        /\ ~(calls[i].op = "list" /\ calls[i].live) => calls'[i].body = calls[i].body
    BY ServeCalls DEF TableInv
  <1>2. PICK src : Carried(src, 0) /\ \A k \in DOMAIN calls : src[k] = k
    BY <1>1, CarriedAlong DEF TableInv
  <1>3. 0 \notin DOMAIN calls /\ rows' = rows
    BY DEF TableInv, TypeOK, Serve
  <1>4. ASSUME NEW k \in DOMAIN calls', NEW d \in Docs,
               calls'[k].op = "list", calls'[k].live, d \in DOMAIN calls'[k].body,
               calls'[k].body[d] = "partial_failure", calls'[k].body # calls[src[k]].body
        PROVE  d \notin ours'
    <2>1. k = i /\ calls[i].op = "list" /\ calls[i].live
      BY <1>1, <1>2, <1>4 DEF Same
    <2>2. calls'[i].body = Listing(calls[i].tenant, tab) /\ ours' = ours
      BY <1>1, <2>1 DEF Serve, ServeRead, ServeReplay, ServeEdit
    <2>3. store[d] = "partial_failure"
      BY <1>4, <2>1, <2>2 DEF Listing
    <2> QED BY <2>2, <2>3 DEF RepliesInv, OursQueued
  <1>5. CASE /\ calls[i].op = "replay" /\ Finds(calls[i])
    <2>1. PICK d \in Docs : d = calls[i].doc
      BY <1>5 DEF TableInv, CallsFit, Fits
    <2>2. /\ Answered(i, "ok") /\ store' = [store EXCEPT ![d] = "queued"]
          /\ ours' = ours \cup {d}
          /\ repeats' = IF d \in ours THEN repeats + 1 ELSE repeats
      BY <1>5, <2>1 DEF Serve, ServeRead, ServeReplay, ServeEdit
    <2>3. d \notin ours
      BY <1>1, <1>5, <2>1 DEF RepliesInv, Unserved
    <2>4. calls[i].live
      BY <1>5 DEF RepliesInv, ClicksLive
    <2>5. calls'[i].answer = "ok" /\ calls'[i].op = "replay" /\ calls'[i].doc = d
          /\ calls'[i].live
      <3>1. calls[i] \in Call
        BY DEF TableInv, TypeOK
      <3> QED BY <1>5, <2>1, <2>2, <2>4, <3>1 DEF Answered, Call
    <2>6. \A m \in {0} \cup DOMAIN calls' : Pending(m, d)'
      BY <1>1, <2>5 DEF Pending, Releases
    <2>7. ASSUME NEW k \in DOMAIN calls', calls'[k].op = "replay", calls'[k].doc = d
          PROVE  calls'[k].answer = "ok"
      <3>1. calls'[k].live
        BY <1>1, <2>7 DEF RepliesInv, ClicksLive, Same
      <3>2. k = i
        BY <1>1, <2>5, <2>7, <3>1 DEF TableInv, OneHolder, Holds
      <3> QED BY <2>5, <3>2
    <2>8. \A e \in Docs : e \notin ours /\ e \in ours' => e = d
      BY <2>2
    <2>9. repeats' = repeats
      BY <2>2, <2>3
    <2>10. OursQueued'
      <3>1. store \in [Docs -> Statuses] /\ ours \subseteq Docs
        BY DEF TableInv, TypeOK
      <3> QED BY <2>2, <3>1 DEF RepliesInv, OursQueued
    <2> QED BY <1>1, <1>2, <1>3, <1>4, <2>6, <2>7, <2>8, <2>9, <2>10, RepliesCarried
            DEF TableInv
  <1>6. CASE ~(calls[i].op = "replay" /\ Finds(calls[i]))
    <2>1. UNCHANGED <<ours, repeats>>
      BY <1>6 DEF Serve, ServeRead, ServeReplay, ServeEdit
    <2>2. ASSUME NEW d \in ours
          PROVE  store'[d] = "queued"
      <3>1. store \in [Docs -> Statuses] /\ d \in Docs /\ store[d] = "queued"
        BY DEF TableInv, TypeOK, RepliesInv, OursQueued
      <3>2. Tab[d] # "rules"
        BY <3>1 DEF TableInv, StoreFits, StatusesOf
      <3>3. calls[i].op \in Edits => calls[i].doc # d
        BY <3>2 DEF TableInv, CallsFit, Fits, Edits
      <3> QED BY <1>6, <3>1, <3>3 DEF Serve, ServeRead, ServeReplay, ServeEdit, Edits
    <2>3. OursQueued'
      BY <2>1, <2>2 DEF OursQueued
    <2> QED BY <1>1, <1>2, <1>3, <1>4, <2>1, <2>3, RepliesCarried DEF TableInv
  <1> QED BY <1>5, <1>6

\* The rows of a list, of which none that was sent later was shown before.
LEMMA ShowKeepsReplies ==
  ASSUME TableInv, TableInv', RepliesInv, NEW i \in DOMAIN calls, ShowRows(i),
         Unexcused', UNCHANGED <<store, ours, repeats>>
  PROVE  RepliesInv'
  <1>1. calls[i].op = "list" /\ calls[i].live /\ ~calls[i].late /\ rows' = calls[i].body
    BY DEF ShowRows, Unexcused
  <1>2. PICK src : /\ Carried(src, i) /\ Kept(src)
                   /\ \A k \in DOMAIN calls' :
                        LET b == calls[src[k]]
                        IN /\ src[k] # 0
                           /\ calls'[k] = IF src[k] < i /\ b.op = "list"
                                            THEN [b EXCEPT !.late = TRUE] ELSE b
    BY CarriedLate DEF ShowRows, TableInv
  <1>3. \A k \in DOMAIN calls' :
          src[k] \in DOMAIN calls /\ src[k] # i /\ Same(calls[src[k]], calls'[k])
    BY <1>2 DEF Carried
  <1>4. ASSUME NEW k \in DOMAIN calls', calls'[k].op = "list", ~calls'[k].late
        PROVE  src[k] > i
    <2>1. calls[src[k]].op = "list" /\ calls[src[k]] \in Call
      BY <1>3, <1>4 DEF Same, TableInv, TypeOK
    <2>2. ~(src[k] < i)
      BY <1>2, <1>4, <2>1 DEF Call
    <2> QED BY <1>3, <2>2 DEF TableInv, TypeOK
  <1>5. ASSUME NEW d \in Docs, NEW m \in {0} \cup DOMAIN calls', NEW n \in Nat, n >= i,
               Pending(n, d), m # 0 => src[m] = n
        PROVE  Pending(m, d)'
    <2>1. PICK j \in DOMAIN calls : Releases(calls[j], d) /\ (calls[j].op = "list" => n < j)
      BY <1>5 DEF Pending
    <2>2. j # i /\ j \in Nat /\ i \in Nat
      BY <1>1, <1>5, <2>1 DEF TableInv, TypeOK
    <2>3. m # 0 => src[m] # 0
      BY <1>2
    <2>4. TypeOK /\ TypeOK' /\ Carried(src, i)
      BY <1>2 DEF TableInv
    <2>5. PICK k \in DOMAIN calls' : /\ Same(calls[j], calls'[k])
                                     /\ m = 0 \/ src[m] < j => m < k
      BY <2>2, <2>3, <2>4, CarriedOn
    <2> QED BY <1>5, <2>1, <2>5 DEF Pending, Releases, Same
  <1>6. ClicksLive' /\ Unserved'
    BY <1>2, <1>3 DEF RepliesInv, ClicksLive, Unserved, Same, Kept
  <1>7. ShownStale'
    <2> SUFFICES ASSUME NEW d \in DOMAIN rows', rows'[d] = "partial_failure",
                        d \in ours
                 PROVE  Pending(0, d)'
      BY DEF ShownStale
    <2>1. Pending(i, d)
      BY <1>1 DEF RepliesInv, SentStale
    <2>2. d \in Docs /\ i \in Nat
      BY DEF TableInv, TypeOK, Rows
    <2> QED BY <1>5, <2>1, <2>2
  <1>8. SentStale'
    <2> SUFFICES ASSUME NEW k \in DOMAIN calls', calls'[k].op = "list", calls'[k].live,
                        ~calls'[k].late, NEW d \in DOMAIN calls'[k].body,
                        calls'[k].body[d] = "partial_failure", d \in ours
                 PROVE  Pending(k, d)'
      BY DEF SentStale
    <2>1. d \in Docs
      <3>1. calls'[k] \in Call
        BY DEF TableInv, TypeOK
      <3> QED BY <3>1 DEF Call, Rows
    <2>2. PICK n \in Nat : n = src[k] /\ n \in DOMAIN calls
      BY <1>3 DEF TableInv, TypeOK
    <2>3. Pending(n, d)
      BY <1>2, <1>3, <2>2 DEF RepliesInv, SentStale, Same, Kept
    <2>4. n >= i
      BY <1>4, <2>2 DEF TableInv, TypeOK
    <2> QED BY <1>5, <2>1, <2>2, <2>3, <2>4
  <1>9. OursQueued'
    BY DEF RepliesInv, OursQueued
  <1> QED BY <1>6, <1>7, <1>8, <1>9 DEF RepliesInv

LEMMA AnswerKeepsReplies ==
  ASSUME TableInv, TableInv', RepliesInv, NEW i \in DOMAIN calls, Answer(i), Unexcused'
  PROVE  RepliesInv'
  <1> USE DashboardAssumption
  <1>1. Fits(calls[i]) /\ calls[i] \in Call /\ UNCHANGED <<store, ours, repeats>>
    BY DEF TableInv, CallsFit, Answer, TypeOK
  <1>2. CASE ShowRows(i)
    BY <1>1, <1>2, ShowKeepsReplies
  <1>3. CASE Ignored(i) \/ Unread(i)
    BY <1>1, <1>3, DropKeepsReplies DEF Ignored, Unread, Releases
  <1>4. CASE Refused(i)
    BY <1>1, <1>4, DropKeepsReplies DEF Refused, Releases, Fits, Edits
  <1>5. CASE Start(i)
    <2>1. List(FirstTenant).op = "list"
      BY DEF List, NewCall
    <2> QED BY <1>1, <1>5, <2>1, SentLists, ReplaceKeepsReplies DEF Start, Releases
  <1>6. CASE Reload(i)
    <2>1. CASE ~calls[i].live
      BY <1>1, <1>6, <2>1, DropKeepsReplies DEF Reload, Releases
    <2>2. CASE calls[i].live /\ calls[i].op = "toggle"
      <3>1. PICK t \in Tenants :
              /\ calls' = Append(Without(i), [List(t) EXCEPT !.then = None])
              /\ rows' = rows
        BY <1>1, <1>6, <2>2 DEF Reload, Fits, Edits
      <3>2. List(t).op = "list"
        BY DEF List, NewCall
      <3> QED BY <1>1, <2>2, <3>1, <3>2, SentLists, ReplaceKeepsReplies DEF Releases
    <2>3. CASE calls[i].live /\ calls[i].op = "replay"
      <3>1. PICK t \in Tenants, e \in Docs :
              /\ calls' = Append(Without(i), ListAfter(t, e))
              /\ rows' = rows /\ e = calls[i].doc /\ Tab[e] = "jobs"
        BY <1>1, <1>6, <2>3 DEF Reload, Fits, ListAfter
      <3>2. ListAfter(t, e).op = "list" /\ ListAfter(t, e).then = e /\ ListAfter(t, e).live
        BY DEF ListAfter, List, NewCall
      <3>3. \A d \in Docs : Releases(calls[i], d) => Releases(ListAfter(t, e), d)
        BY <2>3, <3>1, <3>2 DEF Releases
      <3> QED BY <1>1, <3>1, <3>2, <3>3, SentReloads, ReplaceKeepsReplies
    <2> QED BY <1>6, <2>1, <2>2, <2>3 DEF Reload
  <1> QED BY <1>2, <1>3, <1>4, <1>5, <1>6 DEF Answer

LEMMA ReplyStep ==
  ASSUME TableInv, TableInv', ReplayInv, [Next]_vars
  PROVE  ReplayInv'
  <1> SUFFICES ASSUME Unexcused' PROVE RepliesInv'
    BY DEF ReplayInv
  <1>1. \A x \in excuses : x \in excuses'
    BY DEF Next, vars, User, SelectTenant, Select, SelectTab, ClickReplay, ClickToggle,
           ClickDelete, Click, Poll, Serve, Answer, ShowRows, Ignored, Reload, Refused,
           Unread, Start, Fail, Engine, Stranger, OtherReplays, OtherEdits
  <1>2. RepliesInv
    BY <1>1 DEF ReplayInv, Unexcused
  <1>3. CASE UNCHANGED vars
    <2>1. OursQueued'
      BY <1>2, <1>3 DEF vars, RepliesInv, OursQueued
    <2> QED BY <1>2, <1>3, <2>1, StayKeepsReplies DEF vars
  <1>4. ASSUME NEW d \in Docs, Engine(d) \/ Stranger(d)
        PROVE  RepliesInv'
    <2>1. store \in [Docs -> Statuses]
      BY DEF TableInv, TypeOK
    <2>2. ASSUME NEW e \in ours'
          PROVE  e \in ours /\ store'[e] = "queued"
      <3>1. e \in ours /\ (Engine(d) => e # d)
        BY <1>4, <2>2 DEF Engine, EngineMoves, Stranger
      <3>2. e \in Docs /\ store[e] = "queued"
        BY <1>2, <3>1 DEF TableInv, TypeOK, RepliesInv, OursQueued
      <3> QED BY <1>4, <2>1, <3>1, <3>2 DEF Engine, EngineMoves, Stranger, OtherReplays, OtherEdits
    <2>3. calls' = calls /\ rows' = rows /\ repeats' = repeats
      BY <1>4 DEF Engine, EngineMoves, Stranger
    <2>4. ours' \subseteq ours /\ OursQueued'
      BY <2>2 DEF OursQueued
    <2> QED BY <1>2, <2>3, <2>4, StayKeepsReplies
  <1>5. \A i \in DOMAIN calls : ~Fail(i)
    BY DEF Fail, Unexcused
  <1> QED BY <1>2, <1>3, <1>4, <1>5, UserKeepsReplies, ServeKeepsReplies, AnswerKeepsReplies
          DEF Next

\* The guard of the button and the list that it waits for are enough, for every number
\* of jobs, clicks and calls on their way and whatever other users do: a job that this
\* tab has queued is replayed by it again, before the engine has run it, only after a list
\* failed or was overtaken, or the table was left before a click was answered.
THEOREM NoRepeatedReplays == Spec => []ReplaysAreNotRepeated
  <1>1. Init => TableInv /\ ReplayInv
    BY InitTable, InitReplies
  <1>2. TableInv /\ ReplayInv /\ [Next]_vars => (TableInv /\ ReplayInv)'
    BY TableStep, ReplyStep
  <1>3. ReplayInv => ReplaysAreNotRepeated
    BY DEF ReplayInv, RepliesInv, Unexcused, ReplaysAreNotRepeated
  <1> QED BY <1>1, <1>2, <1>3, PTL DEF Spec

-----------------------------------------------------------------------------
(* The table of rules is right once it is quiet.                           *)

\* A call that, once answered, leads to a list of the rules of t as they are now: an
\* edit that was made, or a list.
Covers(c, t) ==
  /\ c.live /\ c.tenant = t
  /\ \/ c.op \in Edits /\ c.answer = "ok"
     \/ c.op = "list"

\* One is on its way still, and was sent later than the k-th call if it is a list.
Covered(k, t) ==
  \E i \in DOMAIN calls : Covers(calls[i], t) /\ (calls[i].op = "list" => k < i)

ShownRules == origin # None /\ rows # Listing(origin, "rules") => Covered(0, origin)
SentRules  == \A k \in DOMAIN calls :
                /\ calls[k].op = "list" /\ calls[k].live /\ ~calls[k].late
                /\ calls[k].answer = "ok"
                /\ calls[k].body # Listing(calls[k].tenant, "rules")
                => Covered(k, calls[k].tenant)

RulesTrue == ShownRules /\ SentRules

Undisturbed == excuses = {} /\ tab = "rules"

RulesInv == Undisturbed => RulesTrue

LEMMA CoveredStays ==
  ASSUME TypeOK, TypeOK', NEW src, NEW gone, Carried(src, gone), NEW t \in Tenants,
         gone # 0 /\ Covers(calls[gone], t) =>
           \E k \in DOMAIN calls' : src[k] = 0 /\ calls'[k].op = "list"
                                               /\ Covers(calls'[k], t),
         NEW m \in {0} \cup DOMAIN calls', m # 0 => src[m] # 0,
         NEW n \in Nat, n = IF m = 0 THEN 0 ELSE src[m], Covered(n, t)
  PROVE  Covered(m, t)'
  <1>1. PICK i \in DOMAIN calls : Covers(calls[i], t) /\ (calls[i].op = "list" => n < i)
    BY DEF Covered
  <1>2. i \in Nat \ {0}
    BY DEF TypeOK
  <1>3. CASE i # gone
    <2>1. PICK k \in DOMAIN calls' : /\ Same(calls[i], calls'[k])
                                     /\ m = 0 \/ src[m] < i => m < k
      BY <1>3, CarriedOn
    <2>2. Covers(calls'[k], t) /\ (calls'[k].op = "list" => m < k)
      BY <1>1, <2>1 DEF Covers, Same
    <2> QED BY <2>2 DEF Covered, Covers
  <1>4. CASE i = gone
    <2>1. PICK k \in DOMAIN calls' : src[k] = 0 /\ Covers(calls'[k], t)
      BY <1>1, <1>2, <1>4
    <2>2. m < k
      <3>1. m \in Nat /\ k \in Nat \ {0} /\ m # k
        BY <2>1 DEF TypeOK
      <3>2. m \in DOMAIN calls' => ~(k < m)
        BY <2>1 DEF Carried
      <3> QED BY <3>1, <3>2
    <2> QED BY <2>1, <2>2 DEF Covered, Covers
  <1> QED BY <1>3, <1>4

\* A step that leaves what is covered covered, and shows no rows that were not shown.
LEMMA RulesCarried ==
  ASSUME TypeOK, TypeOK', CallsFit', RulesTrue, NEW src, NEW gone, Carried(src, gone),
         UNCHANGED <<rows, origin>> \/ origin' = None,
         \A k \in DOMAIN calls' : src[k] = 0 => Sent(calls'[k]),
         \A k \in DOMAIN calls', t \in Tenants :
           /\ src[k] # 0 /\ calls'[k].op = "list" /\ calls'[k].live /\ calls'[k].tenant = t
           /\ calls'[k].answer = "ok" /\ calls[src[k]].answer = "none"
           => calls'[k].body = Listing(t, "rules")',
         \A t \in Tenants : Listing(t, "rules")' # Listing(t, "rules") =>
           \A m \in {0} \cup DOMAIN calls' : Covered(m, t)',
         \A t \in Tenants : gone # 0 /\ Covers(calls[gone], t) =>
           \E k \in DOMAIN calls' : src[k] = 0 /\ calls'[k].op = "list"
                                               /\ Covers(calls'[k], t)
  PROVE  RulesTrue'
  <1>1. \A k \in DOMAIN calls' : src[k] # 0 =>
          src[k] \in DOMAIN calls /\ src[k] \in Nat /\ Same(calls[src[k]], calls'[k])
    BY DEF Carried
  <1>2. ShownRules'
    <2> SUFFICES ASSUME NEW t \in Tenants, t = origin, UNCHANGED <<rows, origin>>,
                        rows # Listing(t, "rules")'
                 PROVE  Covered(0, t)'
      BY DEF ShownRules, Covered, Listing, TypeOK
    <2>1. CASE Listing(t, "rules")' = Listing(t, "rules")
      <3>1. Covered(0, t)
        BY <2>1, DashboardAssumption DEF RulesTrue, ShownRules
      <3> QED BY <3>1, CoveredStays
    <2> QED BY <2>1
  <1>3. SentRules'
    <2> SUFFICES ASSUME NEW k \in DOMAIN calls', NEW t \in Tenants, t = calls'[k].tenant,
                        calls'[k].op = "list", calls'[k].live, ~calls'[k].late,
                        calls'[k].answer = "ok", calls'[k].body # Listing(t, "rules")'
                 PROVE  Covered(k, t)'
      BY DEF SentRules, Covered, CallsFit, Fits, Listing
    <2>1. src[k] # 0
      BY DEF Sent
    <2>2. calls[src[k]].answer # "none"
      BY <2>1
    <2>3. PICK n \in DOMAIN calls : n = src[k] /\ n \in Nat
      BY <1>1, <2>1
    <2>4. CASE Listing(t, "rules")' = Listing(t, "rules")
      <3>1. Covered(n, t)
        BY <1>1, <2>1, <2>2, <2>3, <2>4 DEF RulesTrue, SentRules, Same
      <3>2. k # 0
        BY DEF TypeOK
      <3> QED BY <2>1, <2>3, <3>1, <3>2, CoveredStays
    <2> QED BY <2>4
  <1> QED BY <1>2, <1>3 DEF RulesTrue

\* Only what happens to the rules of a tenant changes what is listed for him.
LEMMA ListingOfRules ==
  ASSUME NEW t \in Tenants,
         \A d \in Docs : Tab[d] = "rules" /\ Owner[d] = t => store'[d] = store[d]
  PROVE  Listing(t, "rules")' = Listing(t, "rules")
  <1> DEFINE listed == {d \in Docs : Owner[d] = t /\ Tab[d] = "rules" /\ store[d] # "removed"}
             after  == {d \in Docs : Owner[d] = t /\ Tab[d] = "rules" /\ store'[d] # "removed"}
  <1>1. after = listed
    OBVIOUS
  <1>2. \A d \in listed : store'[d] = store[d]
    OBVIOUS
  <1>3. [d \in listed |-> store'[d]] = [d \in listed |-> store[d]]
    BY <1>2
  <1> QED BY <1>1, <1>3 DEF Listing

LEMMA InitRules == Init => RulesInv
  <1>1. Init => DOMAIN calls = {1} /\ calls[1].op = "tenants" /\ origin = None
    BY DEF Init, NewCall
  <1> QED BY <1>1 DEF RulesInv, RulesTrue, ShownRules, SentRules

LEMMA StayKeepsRules ==
  ASSUME TableInv, TableInv', RulesTrue, calls' = calls,
         UNCHANGED <<rows, origin>> \/ origin' = None,
         \A d \in Docs : Tab[d] = "rules" => store'[d] = store[d]
  PROVE  RulesTrue'
  <1>1. PICK src : Carried(src, 0) /\ \A k \in DOMAIN calls : src[k] = k
    BY CarriedAlong DEF Same, TableInv
  <1>2. 0 \notin DOMAIN calls
    BY DEF TableInv, TypeOK
  <1>3. \A t \in Tenants : Listing(t, "rules")' = Listing(t, "rules")
    BY ListingOfRules
  <1> QED BY <1>1, <1>2, <1>3, RulesCarried DEF TableInv

LEMMA SendKeepsRules ==
  ASSUME TableInv, TableInv', RulesTrue, NEW c \in Call, Sent(c),
         calls' = Append(calls, c), UNCHANGED <<store, rows, origin>>
  PROVE  RulesTrue'
  <1>1. PICK src : Carried(src, 0) /\ Fresh(src, c) /\ Kept(src)
    BY CarriedAppend DEF TableInv
  <1>2. \A t \in Tenants : Listing(t, "rules")' = Listing(t, "rules")
    BY ListingOfRules
  <1> QED BY <1>1, <1>2, RulesCarried DEF Fresh, Kept, TableInv

LEMMA DropKeepsRules ==
  ASSUME TableInv, TableInv', RulesTrue, NEW i \in DOMAIN calls,
         calls' = Without(i), UNCHANGED <<store, rows, origin>>,
         \A t \in Tenants : ~Covers(calls[i], t)
  PROVE  RulesTrue'
  <1>1. PICK src : /\ Carried(src, i) /\ Kept(src)
                   /\ \A k \in DOMAIN calls' : src[k] # 0
    BY CarriedWithout DEF TableInv
  <1>2. \A t \in Tenants : Listing(t, "rules")' = Listing(t, "rules")
    BY ListingOfRules
  <1> QED BY <1>1, <1>2, RulesCarried DEF Kept, TableInv

LEMMA ReplaceKeepsRules ==
  ASSUME TableInv, TableInv', RulesTrue, NEW i \in DOMAIN calls, NEW c \in Call, Sent(c),
         calls' = Append(Without(i), c), UNCHANGED <<store, rows, origin>>,
         c.op = "list", \A t \in Tenants : Covers(calls[i], t) => Covers(c, t)
  PROVE  RulesTrue'
  <1>1. PICK src : /\ Carried(src, i) /\ Kept(src) /\ Fresh(src, c)
                   /\ \E k \in DOMAIN calls' : src[k] = 0
    BY CarriedOver DEF TableInv
  <1>2. \A t \in Tenants : Listing(t, "rules")' = Listing(t, "rules")
    BY ListingOfRules
  <1> QED BY <1>1, <1>2, RulesCarried DEF Fresh, Kept, TableInv

\* The tab of the rules is opened: there are no rows yet, and no answers for it.
LEMMA OpenKeepsRules ==
  ASSUME TableInv, TableInv', NEW c \in Tabs, SelectTab(c)
  PROVE  RulesTrue'
  <1>1. origin' = None
    BY DEF SelectTab
  <1>2. CASE tenant = None
    BY <1>1, <1>2 DEF SelectTab, TableInv, Blank, RulesTrue, ShownRules, SentRules
  <1>3. CASE tenant # None
    <2>1. /\ DOMAIN calls' = 1 .. Len(calls) + 1 /\ DOMAIN calls = 1 .. Len(calls)
          /\ \A i \in DOMAIN calls : calls'[i] = [calls[i] EXCEPT !.live = FALSE]
          /\ calls'[Len(calls) + 1] = List(tenant)
          /\ Len(calls) \in Nat
      BY <1>3, OrphanedTypes DEF SelectTab, TableInv, TypeOK
    <2>2. \A i \in DOMAIN calls : ~calls'[i].live
      <3>1. \A i \in DOMAIN calls : calls[i] \in Call
        BY DEF TableInv, TypeOK
      <3> QED BY <2>1, <3>1 DEF Call
    <2>3. calls'[Len(calls) + 1].answer = "none"
      BY <2>1 DEF List, NewCall
    <2>4. \A i \in DOMAIN calls' : i \in DOMAIN calls \/ i = Len(calls) + 1
      BY <2>1
    <2> QED BY <1>1, <2>2, <2>3, <2>4 DEF RulesTrue, ShownRules, SentRules
  <1> QED BY <1>2, <1>3

LEMMA UserKeepsRules ==
  ASSUME TableInv, TableInv', RulesInv, Undisturbed', excuses = {}, User \/ Poll
  PROVE  RulesTrue'
  <1>1. ASSUME NEW c \in Tabs, SelectTab(c)
        PROVE  RulesTrue'
    BY <1>1, OpenKeepsRules
  <1>2. CASE /\ \A c \in Tabs : ~SelectTab(c)
    <2>1. tab' = tab /\ UNCHANGED <<store, rows, origin>>
      BY <1>2 DEF User, Poll, SelectTenant, Select, ClickReplay, ClickToggle, ClickDelete, Click
    <2>2. RulesTrue
      BY <2>1 DEF RulesInv, Undisturbed
    <2>3. PICK c \in Call : Sent(c) /\ calls' = Append(calls, c)
      <3>1. ASSUME NEW t \in Tenants, SelectTenant(t) \/ (Poll /\ t = timer)
            PROVE  \E c \in Call : Sent(c) /\ calls' = Append(calls, c)
        BY <3>1, SentLists DEF SelectTenant, Select, Poll
      <3>2. Poll => timer \in Tenants
        BY DEF Poll, TableInv, TypeOK
      <3>3. ASSUME NEW d \in Docs, ClickReplay(d)
            PROVE  \E c \in Call : Sent(c) /\ calls' = Append(calls, c)
        BY <3>3, SentClicks DEF ClickReplay, Click, TableInv
      <3>4. ASSUME NEW d \in Docs, ClickToggle(d) \/ ClickDelete(d)
            PROVE  \E c \in Call : Sent(c) /\ calls' = Append(calls, c)
        <4>1. PICK op \in Edits, v \in StatusesOf.rules :
                calls' = Append(calls, [NewCall(op, tenant, d) EXCEPT !.value = v])
          <5>1. {"enabled", "disabled", "removed"} \subseteq StatusesOf.rules
            BY DEF StatusesOf
          <5> QED BY <3>4, <5>1, ClickStatus DEF ClickToggle, ClickDelete, Click, Edits
        <4>2. tab = "rules" /\ d \in DOMAIN rows
          BY <3>4 DEF ClickToggle, ClickDelete
        <4> QED BY <4>1, <4>2, SentClicks DEF TableInv
      <3> QED BY <1>2, <3>1, <3>2, <3>3, <3>4 DEF User
    <2> QED BY <2>1, <2>2, <2>3, SendKeepsRules
  <1> QED BY <1>1, <1>2

LEMMA ServeKeepsRules ==
  ASSUME TableInv, TableInv', RulesTrue, ClicksLive, NEW i \in DOMAIN calls, Serve(i),
         tab = "rules"
  PROVE  RulesTrue'
  <1>1. /\ DOMAIN calls' = DOMAIN calls
        /\ \A k \in DOMAIN calls : k # i => calls'[k] = calls[k]
        /\ \A k \in DOMAIN calls : Same(calls[k], calls'[k])
        /\ calls[i].op = "list" /\ calls[i].live =>
             calls'[i].body = Listing(calls[i].tenant, tab)
    BY ServeCalls DEF TableInv
  <1>2. PICK src : Carried(src, 0) /\ \A k \in DOMAIN calls : src[k] = k
    BY <1>1, CarriedAlong DEF TableInv
  <1>3. 0 \notin DOMAIN calls /\ UNCHANGED <<rows, origin>>
    BY DEF TableInv, TypeOK, Serve
  <1>4. ASSUME NEW k \in DOMAIN calls', NEW t \in Tenants,
               calls'[k].op = "list", calls'[k].live, calls'[k].tenant = t,
               calls'[k].answer = "ok", calls[src[k]].answer = "none"
        PROVE  calls'[k].body = Listing(t, "rules")'
    <2>1. k = i /\ calls[i].op = "list" /\ calls[i].live /\ calls[i].tenant = t
      BY <1>1, <1>2, <1>4 DEF Same
    <2>2. store' = store
      BY <2>1 DEF Serve, ServeRead, ServeReplay, ServeEdit
    <2>3. Listing(t, "rules")' = Listing(t, "rules")
      BY <2>2, ListingOfRules
    <2> QED BY <1>1, <2>1, <2>3
  <1>5. ASSUME NEW t \in Tenants, Listing(t, "rules")' # Listing(t, "rules"),
               NEW m \in {0} \cup DOMAIN calls'
        PROVE  Covered(m, t)'
    <2>1. PICK d \in Docs : Tab[d] = "rules" /\ Owner[d] = t /\ store'[d] # store[d]
      BY <1>5, ListingOfRules
    <2>2. store \in [Docs -> Statuses]
      BY DEF TableInv, TypeOK
    <2>3. calls[i].op \in {"replay"} \cup Edits /\ calls[i].doc = d /\ Finds(calls[i])
          /\ Answered(i, "ok")
      BY <2>1, <2>2 DEF Serve, ServeRead, ServeReplay, ServeEdit, Edits
    <2>4. calls[i].op \in Edits
      BY <2>1, <2>3 DEF TableInv, CallsFit, Fits
    <2>5. calls[i].live /\ calls[i].tenant = t
      BY <2>1, <2>3, <2>4 DEF ClicksLive, Finds, Edits
    <2>6. calls'[i].answer = "ok"
      <3>1. calls[i] \in Call
        BY DEF TableInv, TypeOK
      <3> QED BY <2>3, <3>1 DEF Answered, Call
    <2>7. Covers(calls'[i], t) /\ calls'[i].op # "list"
      BY <1>1, <2>4, <2>5, <2>6 DEF Covers, Same, Edits
    <2> QED BY <1>1, <2>7 DEF Covered, Covers
  <1> QED BY <1>2, <1>3, <1>4, <1>5, <1>1, RulesCarried DEF TableInv

LEMMA ShowKeepsRules ==
  ASSUME TableInv, TableInv', RulesTrue, NEW i \in DOMAIN calls, ShowRows(i),
         calls[i].answer = "ok", excuses' = {}, store' = store
  PROVE  RulesTrue'
  <1>1. /\ calls[i].op = "list" /\ calls[i].live /\ ~calls[i].late
        /\ rows' = calls[i].body /\ origin' = calls[i].tenant
    BY DEF ShowRows
  <1>2. PICK src : /\ Carried(src, i) /\ Kept(src)
                   /\ \A k \in DOMAIN calls' :
                        LET b == calls[src[k]]
                        IN /\ src[k] # 0
                           /\ calls'[k] = IF src[k] < i /\ b.op = "list"
                                            THEN [b EXCEPT !.late = TRUE] ELSE b
    BY CarriedLate DEF ShowRows, TableInv
  <1>3. \A k \in DOMAIN calls' :
          src[k] \in DOMAIN calls /\ src[k] # i /\ Same(calls[src[k]], calls'[k])
    BY <1>2 DEF Carried
  <1>4. ASSUME NEW k \in DOMAIN calls', calls'[k].op = "list", ~calls'[k].late
        PROVE  src[k] > i
    <2>1. calls[src[k]].op = "list" /\ calls[src[k]] \in Call
      BY <1>3, <1>4 DEF Same, TableInv, TypeOK
    <2>2. ~(src[k] < i)
      BY <1>2, <1>4, <2>1 DEF Call
    <2> QED BY <1>3, <2>2 DEF TableInv, TypeOK
  <1>5. ASSUME NEW t \in Tenants, NEW m \in {0} \cup DOMAIN calls', NEW n \in Nat, n >= i,
               Covered(n, t), m # 0 => src[m] = n
        PROVE  Covered(m, t)'
    <2>1. PICK j \in DOMAIN calls : Covers(calls[j], t) /\ (calls[j].op = "list" => n < j)
      BY <1>5 DEF Covered
    <2>2. j # i /\ j \in Nat /\ i \in Nat
      BY <1>1, <1>5, <2>1 DEF TableInv, TypeOK
    <2>3. m # 0 => src[m] # 0
      BY <1>2
    <2>4. TypeOK /\ TypeOK' /\ Carried(src, i)
      BY <1>2 DEF TableInv
    <2>5. PICK k \in DOMAIN calls' : /\ Same(calls[j], calls'[k])
                                     /\ m = 0 \/ src[m] < j => m < k
      BY <2>2, <2>3, <2>4, CarriedOn
    <2> QED BY <1>5, <2>1, <2>5 DEF Covered, Covers, Same
  <1>6. \A t \in Tenants : Listing(t, "rules")' = Listing(t, "rules")
    BY ListingOfRules
  <1>7. ShownRules'
    <2> SUFFICES ASSUME NEW t \in Tenants, t = calls[i].tenant,
                        calls[i].body # Listing(t, "rules")
                 PROVE  Covered(0, t)'
      BY <1>1, <1>6 DEF ShownRules, Covered, TableInv, CallsFit, Fits
    <2>1. Covered(i, t)
      BY <1>1 DEF RulesTrue, SentRules
    <2>2. i \in Nat
      BY DEF TableInv, TypeOK
    <2> QED BY <1>5, <2>1, <2>2
  <1>8. SentRules'
    <2> SUFFICES ASSUME NEW k \in DOMAIN calls', NEW t \in Tenants, t = calls'[k].tenant,
                        calls'[k].op = "list", calls'[k].live, ~calls'[k].late,
                        calls'[k].answer = "ok", calls'[k].body # Listing(t, "rules")
                 PROVE  Covered(k, t)'
      BY <1>6 DEF SentRules, Covered, TableInv, CallsFit, Fits
    <2>1. PICK n \in Nat : n = src[k] /\ n \in DOMAIN calls
      <3>1. src[k] \in DOMAIN calls
        BY <1>3
      <3>2. \A n \in DOMAIN calls : n \in Nat
        BY DEF TableInv, TypeOK
      <3> QED BY <3>1, <3>2
    <2>2. Covered(n, t)
      BY <1>2, <1>3, <2>1 DEF RulesTrue, SentRules, Same, Kept
    <2>3. n >= i
      BY <1>4, <2>1 DEF TableInv, TypeOK
    <2> QED BY <1>5, <2>1, <2>2, <2>3
  <1> QED BY <1>7, <1>8 DEF RulesTrue

LEMMA AnswerKeepsRules ==
  ASSUME TableInv, TableInv', RulesTrue, NEW i \in DOMAIN calls, Answer(i), excuses' = {}
  PROVE  RulesTrue'
  <1> USE DashboardAssumption
  <1>1. Fits(calls[i]) /\ calls[i] \in Call /\ store' = store
    BY DEF TableInv, CallsFit, Answer, TypeOK
  <1>2. CASE ShowRows(i)
    <2>1. calls[i].answer = "ok"
      BY <1>1, <1>2 DEF Answer, ShowRows, Fits, Call, Edits
    <2> QED BY <1>1, <1>2, <2>1, ShowKeepsRules
  <1>3. CASE Ignored(i)
    BY <1>1, <1>3, DropKeepsRules DEF Ignored, Covers
  <1>4. CASE Refused(i)
    BY <1>1, <1>4, DropKeepsRules DEF Refused, Covers, Fits, Edits
  <1>5. CASE Start(i)
    <2>1. List(FirstTenant).op = "list"
      BY DEF List, NewCall
    <2> QED BY <1>1, <1>5, <2>1, SentLists, ReplaceKeepsRules DEF Start, Covers, Edits
  <1>6. CASE Reload(i)
    <2>1. CASE ~calls[i].live
      BY <1>1, <1>6, <2>1, DropKeepsRules DEF Reload, Covers
    <2>2. CASE calls[i].live /\ calls[i].op = "toggle"
      <3>1. PICK t \in Tenants :
              /\ calls' = Append(Without(i), [List(t) EXCEPT !.then = None])
              /\ UNCHANGED <<rows, origin>> /\ t = calls[i].tenant
        BY <1>1, <1>6, <2>2 DEF Reload, Fits, Edits
      <3>2. List(t).op = "list" /\ List(t).live /\ List(t).tenant = t
        BY DEF List, NewCall
      <3> QED BY <1>1, <2>2, <3>1, <3>2, SentLists, ReplaceKeepsRules DEF Covers
    <2>3. CASE calls[i].live /\ calls[i].op = "replay"
      <3>1. PICK t \in Tenants, e \in Docs :
              /\ calls' = Append(Without(i), ListAfter(t, e))
              /\ UNCHANGED <<rows, origin>> /\ Tab[e] = "jobs"
        BY <1>1, <1>6, <2>3 DEF Reload, Fits, ListAfter
      <3>2. ListAfter(t, e).op = "list"
        BY DEF ListAfter, List, NewCall
      <3> QED BY <1>1, <2>3, <3>1, <3>2, SentReloads, ReplaceKeepsRules DEF Covers, Edits
    <2> QED BY <1>6, <2>1, <2>2, <2>3 DEF Reload
  <1>7. ~Unread(i)
    BY DEF Unread
  <1> QED BY <1>2, <1>3, <1>4, <1>5, <1>6, <1>7 DEF Answer

LEMMA RulesStep ==
  ASSUME TableInv, TableInv', ReplayInv, RulesInv, [Next]_vars
  PROVE  RulesInv'
  <1> SUFFICES ASSUME Undisturbed' PROVE RulesTrue'
    BY DEF RulesInv
  <1>1. excuses' = {} /\ excuses = {}
    BY DEF Undisturbed, Next, vars, User, SelectTenant, Select, SelectTab, ClickReplay,
           ClickToggle, ClickDelete, Click, Poll, Serve, Answer, ShowRows, Ignored, Reload,
           Refused, Unread, Start, Fail, Engine, Stranger, OtherReplays, OtherEdits
  <1>2. ClicksLive
    BY <1>1 DEF ReplayInv, Unexcused, RepliesInv
  <1>3. CASE User \/ Poll
    BY <1>1, <1>3, UserKeepsRules
  <1>4. CASE UNCHANGED vars \/ \E d \in Docs : Engine(d) \/ (Stranger(d) /\ OtherReplays(d))
    <2>1. RulesTrue
      BY <1>4, <1>1 DEF vars, Engine, Stranger, RulesInv, Undisturbed
    <2>2. \A d \in Docs : Tab[d] = "rules" => store'[d] = store[d]
      <3>1. store \in [Docs -> Statuses]
        BY DEF TableInv, TypeOK
      <3>2. \A d \in Docs : Tab[d] = "rules" => store[d] \in StatusesOf.rules
        BY DEF TableInv, StoreFits
      <3>3. StatusesOf.rules \cap {"queued", "partial_failure", "completed", "received"} = {}
        BY DEF StatusesOf
      <3>4. DOMAIN EngineMoves \subseteq {"queued", "partial_failure", "received"}
        BY DEF EngineMoves
      <3> QED BY <1>4, <3>1, <3>2, <3>3, <3>4 DEF vars, Engine, OtherReplays
    <2>3. calls' = calls /\ UNCHANGED <<rows, origin>>
      BY <1>4 DEF vars, Engine, Stranger
    <2> QED BY <2>1, <2>2, <2>3, StayKeepsRules
  <1>5. ASSUME NEW i \in DOMAIN calls, Serve(i) \/ Answer(i)
        PROVE  RulesTrue'
    <2>1. tab = "rules"
      BY <1>5 DEF Undisturbed, Serve, Answer
    <2>2. RulesTrue
      BY <1>1, <2>1 DEF RulesInv, Undisturbed
    <2> QED BY <1>1, <1>2, <1>5, <2>1, <2>2, ServeKeepsRules, AnswerKeepsRules
  <1>6. \A i \in DOMAIN calls : ~Fail(i)
    BY <1>1 DEF Fail
  <1>7. \A d \in Docs : Stranger(d) => OtherReplays(d)
    BY <1>1 DEF Stranger, OtherEdits
  <1> QED BY <1>3, <1>4, <1>5, <1>6, <1>7 DEF Next

\* With nothing to excuse it, a table of rules whose calls are all answered shows the
\* rules of its tenant as the API would list them now, for every number of tenants,
\* rules, clicks and calls that overtook each other.
THEOREM QuietTablesAreTrue == Spec => []QuietRulesAreTrue
  <1> DEFINE Inv == TableInv /\ ReplayInv /\ RulesInv
  <1>1. Init => Inv
    BY InitTable, InitReplies, InitRules
  <1>2. Inv /\ [Next]_vars => Inv'
    BY TableStep, ReplyStep, RulesStep
  <1>3. Inv => QuietRulesAreTrue
    <2> SUFFICES ASSUME Inv, tab = "rules", calls = <<>>, origin = tenant, tenant # None,
                        excuses = {}
                 PROVE  rows = Listing(tenant, "rules")
      BY DEF QuietRulesAreTrue
    <2>1. ~Covered(0, origin)
      BY DEF Covered
    <2> QED BY <2>1 DEF RulesInv, Undisturbed, RulesTrue, ShownRules
  <1> QED BY <1>1, <1>2, <1>3, PTL DEF Spec

-----------------------------------------------------------------------------
\* A step at the documents of one tenant only: every call that it answers is his.
AtHome == \A d \in Docs : store'[d] # store[d] =>
            \A i \in DOMAIN calls :
              i \in DOMAIN calls' /\ calls'[i] # calls[i] => Owner[d] = calls[i].tenant

\* The tenant guard and the lookups by id and tenant keep clicks at home, however
\* stale the row that was clicked.
THEOREM ClicksAtHome == Spec => ClicksStayHome
  <1>1. [Next]_vars => AtHome
    <2> SUFFICES ASSUME [Next]_vars, NEW d \in Docs, store'[d] # store[d],
                        NEW i \in DOMAIN calls, i \in DOMAIN calls', calls'[i] # calls[i]
                 PROVE  Owner[d] = calls[i].tenant
      BY DEF AtHome
    <2>1. PICK k \in DOMAIN calls : Serve(k)
      BY DEF Next, vars, User, SelectTenant, SelectTab, ClickReplay, ClickToggle, ClickDelete,
             Click, Poll, Answer, Fail, Engine, Stranger
    <2>2. CASE ServeRead(k)
      BY <2>2 DEF ServeRead
    <2>3. CASE ServeReplay(k) \/ ServeEdit(k)
      <3>1. /\ Finds(calls[k])
            /\ \E status : store' = [store EXCEPT ![calls[k].doc] = status]
            /\ \E answer : Answered(k, answer)
        BY <2>3 DEF ServeReplay, ServeEdit
      <3>2. calls[k].doc = d /\ i = k
        <4> DEFINE e == calls[k].doc
        <4>1. d # e => store'[d] = store[d]
          BY <3>1
        <4>2. i # k => calls'[i] = calls[i]
          BY <3>1 DEF Answered
        <4> QED BY <4>1, <4>2
      <3> QED BY <3>1, <3>2 DEF Finds
    <2> QED BY <2>1, <2>2, <2>3 DEF Serve
  <1> QED BY <1>1, PTL DEF Spec, ClicksStayHome, AtHome

=============================================================================
