-------------------------- MODULE RuleEngineProofs --------------------------
(***************************************************************************)
(* Theorems about RuleEngine, for all payloads and conditions.             *)
(***************************************************************************)
EXTENDS RuleEngine, WellFoundedInduction, TLAPS

LEMMA ListShape ==
  ASSUME NEW l \in StoredLists
  PROVE  \E n \in 0 .. MaxLength : l \in [1 .. n -> RuleCondition]
  BY DEF StoredLists

LEMMA ListsAreStored == Lists \subseteq StoredLists
  <1> SUFFICES ASSUME NEW n \in 0 .. MaxLength, NEW l \in [1 .. n -> Conditions]
               PROVE  l \in [1 .. n -> RuleCondition]
    BY DEF Lists, StoredLists
  <1> QED BY EngineAssumption

LEMMA WhitelistedIsList ==
  ASSUME NEW l \in Lists
  PROVE  Whitelisted(l) \in StoredLists
  <1>1. PICK n \in 0 .. MaxLength : l \in [1 .. n -> Conditions]
    BY DEF Lists
  <1>2. \A i \in 1 .. n : [field |-> l[i].field, operator |-> l[i].operator,
                          value |-> Undefined] \in RuleCondition
    BY <1>1 DEF RuleCondition
  <1>3. Whitelisted(l) \in [1 .. n -> RuleCondition]
    BY <1>1, <1>2 DEF Whitelisted
  <1> QED BY <1>1, <1>3 DEF StoredLists

LEMMA ReverseIsList ==
  ASSUME NEW n \in Nat, NEW l \in [1 .. n -> RuleCondition]
  PROVE  Reverse(l) = [i \in 1 .. n |-> l[n - i + 1]]
  <1>1. Len(l) = n
    OBVIOUS
  <1> QED BY <1>1 DEF Reverse

\* A list matches just when none of its conditions fails or throws.
LEMMA MatchMeansAll ==
  ASSUME NEW p, NEW n \in Nat, NEW l, l # None, DOMAIN l = 1 .. n
  PROVE  Verdict(p, l) = "match" <=>
           \A i \in DOMAIN l : ~Throws(p, l[i]) /\ ~Fails(p, l[i])
  <1>1. CASE \E i \in DOMAIN l : Throws(p, l[i])
    BY <1>1 DEF Verdict
  <1>2. CASE \A i \in DOMAIN l : ~Throws(p, l[i])
    <2>1. CASE \E i \in DOMAIN l : Fails(p, l[i])
      BY <1>2, <2>1 DEF Verdict
    <2>2. CASE \A i \in DOMAIN l : ~Fails(p, l[i])
      BY <1>2, <2>2 DEF Verdict
    <2> QED BY <2>1, <2>2
  <1> QED BY <1>1, <1>2

-----------------------------------------------------------------------------

\* The seed script and POST store what passed validation, with values of a text.
Validated ==
  written \in {"seed", "post"} =>
    /\ stored # None
    /\ Valid(stored)
    /\ \A i \in DOMAIN stored : stored[i].value.text # None

RuleInv == RuleTypeOK /\ Validated

LEMMA WhitelistKeepsValid ==
  ASSUME NEW l, Valid(l)
  PROVE  /\ Valid(Whitelisted(l))
         /\ \A i \in DOMAIN Whitelisted(l) : Whitelisted(l)[i].value.text # None
  <1>1. Undefined.text # None
    BY ValuesAssumption DEF HasNoText, Undefined
  <1> QED BY <1>1 DEF Valid, Whitelisted

LEMMA InitRuleInv == Init => RuleInv
  BY DEF Init, RuleInv, RuleTypeOK, Validated

LEMMA NextRuleInv == RuleInv /\ [Next]_vars => RuleInv'
  <1> SUFFICES ASSUME RuleInv, [Next]_vars PROVE RuleInv'
    OBVIOUS
  <1>1. ASSUME NEW wish \in Lists, Seed(wish) PROVE RuleInv'
    BY <1>1, ListsAreStored, EngineAssumption
       DEF Seed, Write, RuleInv, RuleTypeOK, Validated
  <1>2. ASSUME NEW wish \in Lists, Post(wish) PROVE RuleInv'
    BY <1>2, WhitelistedIsList, WhitelistKeepsValid, EngineAssumption
       DEF Post, Write, RuleInv, RuleTypeOK, Validated
  <1>3. ASSUME NEW wish \in Lists \cup {None}, Patch(wish) PROVE RuleInv'
    BY <1>3, ListsAreStored DEF Patch, Write, RuleInv, RuleTypeOK, Validated
  <1>4. CASE UNCHANGED vars
    BY <1>4 DEF vars, RuleInv, RuleTypeOK, Validated, Valid
  <1> QED BY <1>1, <1>2, <1>3, <1>4 DEF Next

LEMMA AlwaysRuleInv == Spec => []RuleInv
  BY InitRuleInv, NextRuleInv, PTL DEF Spec

-----------------------------------------------------------------------------

\* What the database has of a rule's conditions is a list of conditions, or null,
\* whoever wrote it.
THEOREM RuleTypeCorrect == Spec => []RuleTypeOK
  <1>1. RuleInv => RuleTypeOK
    BY DEF RuleInv
  <1> QED BY <1>1, AlwaysRuleInv, PTL

\* A rule that was never patched throws only on what has no text in a payload.
THEOREM UnpatchedThrow == Spec => []UnpatchedThrowsOnNoText
  <1>1. RuleInv => UnpatchedThrowsOnNoText
    <2> SUFFICES ASSUME stored # None, Valid(stored),
                        \A i \in DOMAIN stored : stored[i].value.text # None,
                        NEW p \in Payloads, Verdict(p, stored) = "throw"
                 PROVE  \E i \in DOMAIN stored :
                          /\ stored[i].field # None
                          /\ stored[i].operator \in {"equals", "gt"}
                          /\ GetField(p, stored[i].field).text = None
      BY DEF RuleInv, Validated, UnpatchedThrowsOnNoText
    <2>1. PICK i \in DOMAIN stored : Throws(p, stored[i])
      BY DEF Verdict
    <2>2. stored[i].field # None /\ stored[i].value.text # None
      BY DEF Valid
    <2> QED BY <2>1, <2>2 DEF Throws
  <1> QED BY <1>1, AlwaysRuleInv, PTL

\* Which events a rule matches does not depend on the order of its conditions.
THEOREM OrderIsFree == Spec => []MatchIsOrderFree
  <1>1. RuleInv => MatchIsOrderFree
    <2> SUFFICES ASSUME stored \in StoredLists, NEW p \in Payloads
                 PROVE  Verdict(p, stored) = "match" <=> Verdict(p, Reverse(stored)) = "match"
      BY DEF RuleInv, RuleTypeOK, MatchIsOrderFree
    <2> DEFINE back == Reverse(stored)
               Holding(c) == ~Throws(p, c) /\ ~Fails(p, c)
    <2>1. PICK n \in 0 .. MaxLength : stored \in [1 .. n -> RuleCondition]
      BY ListShape
    <2>2. n \in Nat /\ back = [i \in 1 .. n |-> stored[n - i + 1]]
      BY <2>1, ReverseIsList, EngineAssumption
    <2>3. \A i \in 1 .. n : n - i + 1 \in 1 .. n /\ n - (n - i + 1) + 1 = i
      BY <2>2
    <2>4. back \in [1 .. n -> RuleCondition]
      BY <2>1, <2>2, <2>3
    <2>5. stored # None /\ back # None
      BY <2>1, <2>4, EngineAssumption DEF StoredLists
    <2> HIDE DEF back, Holding
    <2>6. (\A i \in 1 .. n : Holding(stored[i])) <=> (\A i \in 1 .. n : Holding(back[i]))
      <3>1. \A i \in 1 .. n : back[i] = stored[n - i + 1] /\ stored[i] = back[n - i + 1]
        BY <2>2, <2>3
      <3> QED BY <2>3, <3>1
    <2>7. DOMAIN stored = 1 .. n /\ DOMAIN back = 1 .. n
      BY <2>1, <2>4
    <2>8. /\ Verdict(p, stored) = "match" <=> \A i \in 1 .. n : Holding(stored[i])
          /\ Verdict(p, back) = "match" <=> \A i \in 1 .. n : Holding(back[i])
      BY <2>2, <2>5, <2>7, MatchMeansAll DEF Holding
    <2> QED BY <2>6, <2>8 DEF back
  <1> QED BY <1>1, AlwaysRuleInv, PTL

-----------------------------------------------------------------------------
(* What a path leads to.                                                   *)

LEMMA HasLeast ==
  ASSUME NEW T, T \subseteq Nat, T # {}
  PROVE  \E m \in T : \A k \in T : m <= k
  <1> DEFINE R == OpToRel(<, Nat)
  <1>1. IsWellFoundedOn(R, Nat)
    BY NatLessThanWellFounded, Zenon
  <1>2. \A x, y \in Nat : <<x, y>> \in R <=> x < y
    BY Zenon DEF OpToRel
  <1> HIDE DEF R
  <1>3. PICK x \in T : \A y \in T : ~ (<<y, x>> \in R)
    BY <1>1, WFMin, Zenon
  <1>4. \A y \in T : ~ (y < x)
    BY <1>2, <1>3
  <1>5. \A y \in T : x <= y
    BY <1>4
  <1> QED BY <1>5

\* Induction, about a set.
LEMMA AllNumbers ==
  ASSUME NEW T, 0 \in T, \A n \in Nat : n \in T => n + 1 \in T
  PROVE  Nat \subseteq T
  <1> SUFFICES ASSUME Nat \ T # {} PROVE FALSE
    OBVIOUS
  <1>1. PICK m \in Nat \ T : \A k \in Nat \ T : m <= k
    BY HasLeast
  <1>2. m # 0 /\ m - 1 \in Nat /\ m - 1 \notin T
    BY <1>1
  <1> QED BY <1>1, <1>2

LEMMA InnerIsValue ==
  ASSUME NEW v \in Values, NEW key
  PROVE  Inner(v, key) \in Values
  BY ValuesAssumption DEF Inner

\* f is what the first k keys of the path lead to, one after the other.
Leads(f, p, path, k) ==
  f[0] = p /\ \A n \in 1 .. k : f[n] = Inner(f[n - 1], path[n])

\* Along every path there is a value at every step.
LEMMA PathLeads ==
  ASSUME NEW p \in Values, NEW path \in Seq(STRING), NEW k \in Nat
  PROVE  \E f \in [0 .. k -> Values] : Leads(f, p, path, k)
  <1> DEFINE T == {m \in Nat : \E f \in [0 .. m -> Values] : Leads(f, p, path, m)}
  <1>1. 0 \in T
    <2> DEFINE f == [n \in 0 .. 0 |-> p]
    <2>1. f \in [0 .. 0 -> Values] /\ Leads(f, p, path, 0)
      BY DEF Leads
    <2> QED BY <2>1
  <1>2. ASSUME NEW m \in Nat, m \in T
        PROVE  m + 1 \in T
    <2>1. PICK f \in [0 .. m -> Values] : Leads(f, p, path, m)
      BY <1>2
    <2> DEFINE g == [n \in 0 .. m + 1 |-> IF n = m + 1 THEN Inner(f[m], path[n]) ELSE f[n]]
    <2>2. g \in [0 .. m + 1 -> Values]
      <3>1. Inner(f[m], path[m + 1]) \in Values
        BY <2>1, InnerIsValue
      <3> QED BY <3>1
    <2>3. Leads(g, p, path, m + 1)
      BY <2>1 DEF Leads
    <2> QED BY <2>2, <2>3
  <1> HIDE DEF T
  <1>3. k \in T
    BY <1>1, <1>2, AllNumbers
  <1> QED BY <1>3 DEF T

\* GetField finds the last of them.
LEMMA FieldLeads ==
  ASSUME NEW p \in Values, NEW path \in Seq(STRING)
  PROVE  \E f : Leads(f, p, path, Len(path)) /\ GetField(p, path) = f[Len(path)]
  <1> DEFINE n == Len(path)
             Step(f) == [k \in 0 .. n |-> IF k = 0 THEN p ELSE Inner(f[k - 1], path[k])]
             value == CHOOSE f : f = Step(f)
  <1>1. n \in Nat
    OBVIOUS
  <1>2. PICK g \in [0 .. n -> Values] : Leads(g, p, path, n)
    BY <1>1, PathLeads
  <1>3. \A k \in 0 .. n : g[k] = Step(g)[k]
    BY <1>1, <1>2 DEF Leads
  <1>4. g = Step(g)
    BY <1>2, <1>3
  <1>5. value = Step(value)
    BY <1>4
  <1>6. GetField(p, path) = value[n]
    BY DEF GetField
  <1> HIDE DEF value
  <1>7. \A k \in 0 .. n : value[k] = IF k = 0 THEN p ELSE Inner(value[k - 1], path[k])
    BY <1>5
  <1>8. Leads(value, p, path, n)
    BY <1>1, <1>7 DEF Leads
  <1> QED BY <1>6, <1>8

LEMMA FieldIsValue ==
  ASSUME NEW p \in Values, NEW path \in Seq(STRING)
  PROVE  GetField(p, path) \in Values
  <1>1. PICK f : Leads(f, p, path, Len(path)) /\ GetField(p, path) = f[Len(path)]
    BY FieldLeads
  <1> DEFINE T == {m \in Nat : m <= Len(path) => f[m] \in Values}
  <1>2. 0 \in T
    BY <1>1 DEF Leads
  <1>3. ASSUME NEW m \in Nat, m \in T
        PROVE  m + 1 \in T
    <2> SUFFICES ASSUME m + 1 <= Len(path)
                 PROVE  f[m + 1] \in Values
      OBVIOUS
    <2>1. f[m] \in Values
      BY <1>3
    <2>2. f[m + 1] = Inner(f[m], path[m + 1])
      <3>1. m + 1 \in 1 .. Len(path) /\ (m + 1) - 1 = m
        OBVIOUS
      <3> QED BY <1>1, <3>1 DEF Leads
    <2> QED BY <2>1, <2>2, InnerIsValue
  <1> HIDE DEF T
  <1>4. Len(path) \in T
    BY <1>2, <1>3, AllNumbers
  <1>5. Len(path) <= Len(path)
    OBVIOUS
  <1> QED BY <1>1, <1>4, <1>5 DEF T

\* Values with the same text have the same number, if they have one at all.
LEMMA TextHasNumber ==
  ASSUME NEW v \in Values, NEW w \in Values, v.text = w.text, v.text # None,
         v.num # NaN, w.num # NaN
  PROVE  v.num = w.num /\ v.num \in Int
  BY ValuesAssumption

LEMMA StoredCondition ==
  ASSUME RuleTypeOK, stored # None, NEW i \in DOMAIN stored
  PROVE  /\ stored[i].value \in Values
         /\ stored[i].field # None => stored[i].field \in Seq(STRING)
         /\ stored[i] \in RuleCondition
  <1>1. PICK n \in 0 .. MaxLength : stored \in [1 .. n -> RuleCondition]
    BY ListShape DEF RuleTypeOK
  <1>2. stored[i] \in RuleCondition
    BY <1>1
  <1> QED BY <1>2, ValuesAssumption DEF RuleCondition

\* On no payload is a value both equal to its bound and greater, although one is
\* decided by texts and the other by numbers.
THEOREM EqualIsNotGreater == Spec => []EqualExcludesGreater
  <1>1. RuleTypeOK => EqualExcludesGreater
    <2> SUFFICES ASSUME RuleTypeOK, stored # None, NEW i \in DOMAIN stored,
                        NEW p \in Payloads,
                        Passes(p, [stored[i] EXCEPT !.operator = "equals"]),
                        Passes(p, [stored[i] EXCEPT !.operator = "gt"])
                 PROVE  FALSE
      BY DEF EqualExcludesGreater
    <2> DEFINE v == GetField(p, stored[i].field)
               w == stored[i].value
               As(op) == [stored[i] EXCEPT !.operator = op]
    <2>1. \A op : As(op).field = stored[i].field /\ As(op).value = w /\ As(op).operator = op
      BY StoredCondition DEF RuleCondition
    <2>2. stored[i].field # None /\ v.text = w.text /\ v.text # None /\ Greater(v, w)
      <3> HIDE DEF v, w, As
      <3>1. Passes(p, As("equals")) /\ Passes(p, As("gt"))
        BY DEF As
      <3>2. stored[i].field # None /\ v.text = w.text /\ v.text # None
        BY <2>1, <3>1 DEF Passes, Holds, Throws, v
      <3>3. Greater(v, w)
        BY <2>1, <3>1 DEF Passes, Holds, v
      <3> QED BY <3>2, <3>3
    <2>3. v \in Values /\ w \in Values
      BY <2>2, StoredCondition, FieldIsValue, ValuesAssumption
    <2> HIDE DEF v, w
    <2>4. v.num = w.num /\ v.num \in Int
      BY <2>2, <2>3, TextHasNumber DEF Greater
    <2> QED BY <2>2, <2>4 DEF Greater
  <1> QED BY <1>1, RuleTypeCorrect, PTL

=============================================================================
