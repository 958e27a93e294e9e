------------------------------ MODULE Dashboard ------------------------------
(***************************************************************************)
(* The dashboard (App.tsx, api.ts and the three tables) in one browser     *)
(* tab, against the tenant-scoped endpoints of the API.                    *)
(*                                                                         *)
(* A call is sent, served by the API and answered at three moments, and    *)
(* calls overtake each other. A table loads its rows when it is mounted    *)
(* and when another tenant is selected; those of jobs and events load them *)
(* again on a timer. The tables stay mounted when the tenant changes: the  *)
(* rows of the last tenant are shown until the next answer comes.          *)
(***************************************************************************)
EXTENDS SequencesExt, Integers

CONSTANTS
  Tenants,       \* slugs
  FirstTenant,   \* the first that GET /tenants lists
  Docs,          \* the job runs, events and rules
  Owner,         \* the tenant of each
  Tab,           \* the table each is listed in
  InitialStore,  \* how they are at the start
  MaxCalls,      \* calls on their way, at most
  MaxClicks,     \* clicks on Replay, Enabled/Disabled and Delete, at most
  MaxMishaps,    \* calls that fail, and clicks in other browsers or tabs, at most
  None

Tabs       == {"jobs", "events", "rules"}
Polled     == {"jobs", "events"}
StatusesOf == [jobs   |-> {"queued", "partial_failure", "completed"},
               events |-> {"received", "processed"},
               rules  |-> {"enabled", "disabled", "removed"}]
Statuses   == UNION {StatusesOf[c] : c \in Tabs}
Operations == {"tenants", "list", "replay", "toggle", "delete"}

ASSUME DashboardAssumption ==
  /\ FirstTenant \in Tenants
  /\ Owner \in [Docs -> Tenants]
  /\ Tab \in [Docs -> Tabs]
  /\ InitialStore \in [Docs -> Statuses]
  /\ \A d \in Docs : InitialStore[d] \in StatusesOf[Tab[d]]
  /\ {MaxCalls, MaxClicks, MaxMishaps} \subseteq Nat /\ MaxCalls # 0
  /\ None \notin Tenants \cup Docs \cup Statuses

VARIABLES
  store,      \* what the database holds
  tenant,     \* the selected tenant
  tab,        \* the selected tab
  timer,      \* the tenant whose rows the timer loads
  rows,       \* the rows of the mounted table
  origin,     \* the tenant they were loaded for
  replaying,  \* the jobs whose Replay button shows an ellipsis
  calls,      \* calls on their way, in the order they were sent
  spent,      \* clicks and mishaps so far
  excuses,    \* what may have left a table out of date
  ours,       \* the queued jobs that a replay of this tab has queued
  repeats     \* replays of this tab the API accepted for one of those

vars == <<store, tenant, tab, timer, rows, origin, replaying, calls, spent, excuses,
          ours, repeats>>

\* A row of something deleted is never loaded.
Rows == UNION {[S -> Statuses \ {"removed"}] : S \in SUBSET Docs}

\* value : what a click sets                   then : the job to release after it
\* live  : the table that sent it is mounted   late : a list sent after it has come
Call == [op : Operations, tenant : Tenants \cup {None}, doc : Docs \cup {None},
         value : Statuses \cup {None}, then : Docs \cup {None},
         live : BOOLEAN, late : BOOLEAN,
         answer : {"none", "ok", "notFound"}, body : Rows]

TypeOK ==
  /\ store \in [Docs -> Statuses]
  /\ tenant \in Tenants \cup {None}
  /\ tab \in Tabs
  /\ timer \in Tenants \cup {None}
  /\ rows \in Rows
  /\ origin \in Tenants \cup {None}
  /\ replaying \subseteq Docs
  /\ calls \in Seq(Call) /\ Len(calls) <= MaxCalls
  /\ spent \in [clicks : 0 .. MaxClicks, mishaps : 0 .. MaxMishaps]
  /\ excuses \subseteq {"overtaken", "failed", "left", "unread", "stranger"}
  /\ ours \subseteq Docs
  /\ repeats \in Nat

NoRows == [d \in {} |-> None]

NewCall(op, t, d) == [op |-> op, tenant |-> t, doc |-> d, value |-> None, then |-> None,
                      live |-> TRUE, late |-> FALSE, answer |-> "none", body |-> NoRows]

List(t) == NewCall("list", t, None)

Init ==
  /\ store = InitialStore
  /\ tenant = None /\ tab = "jobs" /\ timer = None
  /\ rows = NoRows /\ origin = None /\ replaying = {}
  /\ calls = <<NewCall("tenants", None, None)>>
  /\ spent = [clicks |-> 0, mishaps |-> 0]
  /\ excuses = {} /\ ours = {} /\ repeats = 0

-----------------------------------------------------------------------------
(* App.tsx and the effects of the tables.                                  *)

TimerFor(c, t) == IF c \in Polled THEN t ELSE None

\* Mutant of Select: the timer keeps the tenant it was started for.
SelectKeepingTimer(t) ==
  /\ tenant' = t
  /\ timer' = IF timer = None THEN TimerFor(tab, t) ELSE timer
  /\ calls' = Append(calls, List(t))
  /\ UNCHANGED <<tab, rows, origin, replaying, spent, excuses>>

\* The effect of the mounted table for a tenant: load, and start the timer anew.
Select(t) ==
  /\ tenant' = t
  /\ timer' = TimerFor(tab, t)
  /\ calls' = Append(calls, List(t))
  /\ UNCHANGED <<tab, rows, origin, replaying, spent, excuses>>

SelectTenant(t) ==
  /\ tenant # None /\ t # tenant
  /\ Len(calls) < MaxCalls
  /\ Select(t)
  /\ UNCHANGED <<store, ours, repeats>>

\* The calls of a table that goes away: they are still on their way to the API, but
\* their answers find nothing to fill.
Orphaned == [i \in DOMAIN calls |-> [calls[i] EXCEPT !.live = FALSE]]

Clicked == \E i \in DOMAIN calls : calls[i].op # "list"

SelectTab(c) ==
  /\ c # tab
  /\ Len(calls) < MaxCalls
  /\ tab' = c
  /\ timer' = IF tenant = None THEN None ELSE TimerFor(c, tenant)
  /\ rows' = NoRows /\ origin' = None /\ replaying' = {}
  /\ calls' = IF tenant = None THEN calls ELSE Append(Orphaned, List(tenant))
  /\ excuses' = IF tenant # None /\ Clicked THEN excuses \cup {"left"} ELSE excuses
  /\ UNCHANGED <<store, tenant, spent, ours, repeats>>

\* setInterval(load, 3000)
Poll ==
  /\ timer # None
  /\ Len(calls) < MaxCalls
  /\ calls' = Append(calls, List(timer))
  /\ UNCHANGED <<store, tenant, tab, timer, rows, origin, replaying, spent, excuses,
                 ours, repeats>>

-----------------------------------------------------------------------------
(* The buttons.                                                            *)

Click(call) ==
  /\ spent.clicks < MaxClicks
  /\ Len(calls) < MaxCalls
  /\ spent' = [spent EXCEPT !.clicks = @ + 1]
  /\ calls' = Append(calls, call)
  /\ UNCHANGED <<store, tenant, tab, timer, rows, origin, excuses, ours, repeats>>

\* Mutant of CanReplay: the button is not disabled while a replay is on its way.
CanReplayAgain(d) == rows[d] = "partial_failure"

\* Nothing ever sets FAILED, the other status that could be replayed.
CanReplay(d) == rows[d] = "partial_failure" /\ d \notin replaying

ClickReplay(d) ==
  /\ tab = "jobs" /\ d \in DOMAIN rows
  /\ CanReplay(d)
  /\ replaying' = replaying \cup {d}
  /\ Click(NewCall("replay", tenant, d))

Flipped(status) == IF status = "enabled" THEN "disabled" ELSE "enabled"

\* The new value is made of the row as it is shown.
ClickToggle(d) ==
  /\ tab = "rules" /\ d \in DOMAIN rows
  /\ Click([NewCall("toggle", tenant, d) EXCEPT !.value = Flipped(rows[d])])
  /\ UNCHANGED replaying

ClickDelete(d) ==
  /\ tab = "rules" /\ d \in DOMAIN rows
  /\ Click([NewCall("delete", tenant, d) EXCEPT !.value = "removed"])
  /\ UNCHANGED replaying

-----------------------------------------------------------------------------
(* The API behind TenantGuard.                                             *)

\* Mutant of Listing: rules are marked as removed, not deleted.
ListingOfAll(t, c) ==
  LET listed == {d \in Docs : Owner[d] = t /\ Tab[d] = c}
  IN [d \in listed |-> store[d]]

Listing(t, c) ==
  LET listed == {d \in Docs : Owner[d] = t /\ Tab[d] = c /\ store[d] # "removed"}
  IN [d \in listed |-> store[d]]

\* Mutant of Finds: documents are found by their id alone.
FindsById(call) == store[call.doc] # "removed"

\* findOne, findOneAndUpdate and deleteOne: by id and tenant.
Finds(call) == store[call.doc] # "removed" /\ Owner[call.doc] = call.tenant

Answered(i, answer) == calls' = [calls EXCEPT ![i].answer = answer]

ServeRead(i) ==
  /\ \/ calls[i].op = "tenants" /\ Answered(i, "ok")
     \/ calls[i].op = "list" /\ ~calls[i].live /\ Answered(i, "ok")
     \/ /\ calls[i].op = "list" /\ calls[i].live
        /\ calls' = [calls EXCEPT ![i].answer = "ok",
                                  ![i].body = Listing(calls[i].tenant, tab)]
  /\ UNCHANGED <<store, ours, repeats>>

\* The status of the job is not looked at.
ServeReplay(i) ==
  LET d == calls[i].doc
  IN /\ calls[i].op = "replay"
     /\ IF Finds(calls[i])
          THEN /\ store' = [store EXCEPT ![d] = "queued"]
               /\ ours' = ours \cup {d}
               /\ repeats' = IF d \in ours THEN repeats + 1 ELSE repeats
               /\ Answered(i, "ok")
          ELSE Answered(i, "notFound") /\ UNCHANGED <<store, ours, repeats>>

ServeEdit(i) ==
  /\ calls[i].op \in {"toggle", "delete"}
  /\ IF Finds(calls[i])
       THEN store' = [store EXCEPT ![calls[i].doc] = calls[i].value] /\ Answered(i, "ok")
       ELSE Answered(i, "notFound") /\ UNCHANGED store
  /\ UNCHANGED <<ours, repeats>>

Serve(i) ==
  /\ calls[i].answer = "none"
  /\ ServeRead(i) \/ ServeReplay(i) \/ ServeEdit(i)
  /\ UNCHANGED <<tenant, tab, timer, rows, origin, replaying, spent, excuses>>

-----------------------------------------------------------------------------
(* What the browser does with an answer.                                   *)

Without(i) == RemoveAt(calls, i)

\* Lists sent before the i-th call are late once its answer is shown.
OthersLate(i) ==
  [k \in 1 .. Len(calls) - 1 |->
     IF k < i /\ Without(i)[k].op = "list" THEN [Without(i)[k] EXCEPT !.late = TRUE]
                                           ELSE Without(i)[k]]

ShowRows(i) ==
  /\ calls[i].op = "list" /\ calls[i].live
  /\ rows' = calls[i].body /\ origin' = calls[i].tenant
  /\ replaying' = replaying \ {calls[i].then}
  /\ calls' = OthersLate(i)
  /\ excuses' = IF calls[i].late THEN excuses \cup {"overtaken"} ELSE excuses
  /\ UNCHANGED <<tenant, timer>>

\* The table that asked for the rows is gone.
Ignored(i) ==
  /\ calls[i].op = "list" /\ ~calls[i].live
  /\ calls' = Without(i)
  /\ UNCHANGED <<tenant, timer, rows, origin, replaying, excuses>>

\* Mutant of Reload: a toggle leaves the row as it is shown.
ReloadAfterReplay(i) ==
  /\ calls[i].op \in {"replay", "toggle"} /\ calls[i].answer = "ok"
  /\ calls' = IF ~calls[i].live \/ calls[i].op = "toggle" THEN Without(i)
              ELSE Append(Without(i), [List(calls[i].tenant) EXCEPT !.then = calls[i].doc])
  /\ UNCHANGED <<tenant, timer, rows, origin, replaying, excuses>>

\* After a replay or a toggle the table is loaded once more, for the tenant it was
\* clicked under; a replay keeps its button disabled until then.
Reload(i) ==
  /\ calls[i].op \in {"replay", "toggle"} /\ calls[i].answer = "ok"
  /\ calls' = IF ~calls[i].live THEN Without(i)
              ELSE Append(Without(i),
                     [List(calls[i].tenant) EXCEPT
                        !.then = IF calls[i].op = "replay" THEN calls[i].doc ELSE None])
  /\ UNCHANGED <<tenant, timer, rows, origin, replaying, excuses>>

\* A 404 is thrown, and nobody but the `finally` of handleReplay waits for it.
Refused(i) ==
  /\ calls[i].answer = "notFound"
  /\ replaying' = IF calls[i].live THEN replaying \ {calls[i].doc} ELSE replaying
  /\ calls' = Without(i)
  /\ UNCHANGED <<tenant, timer, rows, origin, excuses>>

\* The answer to a DELETE has no body, res.json() rejects, and load() is not called.
Unread(i) ==
  /\ calls[i].op = "delete" /\ calls[i].answer = "ok"
  /\ calls' = Without(i)
  /\ excuses' = excuses \cup {"unread"}
  /\ UNCHANGED <<tenant, timer, rows, origin, replaying>>

\* The tenants have come: the first is selected and the table mounted.
Start(i) ==
  /\ calls[i].op = "tenants"
  /\ tenant' = FirstTenant
  /\ timer' = TimerFor(tab, FirstTenant)
  /\ calls' = Append(Without(i), List(FirstTenant))
  /\ UNCHANGED <<rows, origin, replaying, excuses>>

Answer(i) ==
  /\ calls[i].answer # "none"
  /\ ShowRows(i) \/ Ignored(i) \/ Reload(i) \/ Refused(i) \/ Unread(i) \/ Start(i)
  /\ UNCHANGED <<store, tab, spent, ours, repeats>>

Mishap ==
  /\ spent.mishaps < MaxMishaps
  /\ spent' = [spent EXCEPT !.mishaps = @ + 1]

\* A call fails, before or after it was served. Lists swallow it and say nothing.
Fail(i) ==
  /\ Mishap
  /\ calls' = Without(i)
  /\ replaying' = IF calls[i].live THEN replaying \ {calls[i].doc, calls[i].then}
                                   ELSE replaying
  /\ excuses' = excuses \cup {"failed"}
  /\ UNCHANGED <<store, tenant, tab, timer, rows, origin, ours, repeats>>

-----------------------------------------------------------------------------
(* The engine, and others who use the dashboard of the tenant.             *)

\* A replay job runs a queued row, a retry of its event's job one that has failed.
EngineMoves == [queued          |-> {"partial_failure", "completed"},
                partial_failure |-> {"completed"},
                received        |-> {"processed"}]

Engine(d) ==
  /\ store[d] \in DOMAIN EngineMoves
  /\ \E s \in EngineMoves[store[d]] : store' = [store EXCEPT ![d] = s]
  /\ ours' = ours \ {d}
  /\ UNCHANGED <<tenant, tab, timer, rows, origin, replaying, calls, spent, excuses, repeats>>

OtherReplays(d) ==
  /\ store[d] \in {"partial_failure", "completed"}
  /\ store' = [store EXCEPT ![d] = "queued"]
  /\ UNCHANGED excuses

OtherEdits(d) ==
  /\ store[d] \in {"enabled", "disabled"}
  /\ \E s \in StatusesOf.rules \ {store[d]} : store' = [store EXCEPT ![d] = s]
  /\ excuses' = excuses \cup {"stranger"}

Stranger(d) ==
  /\ Mishap
  /\ OtherReplays(d) \/ OtherEdits(d)
  /\ UNCHANGED <<tenant, tab, timer, rows, origin, replaying, calls, ours, repeats>>

User == \/ \E t \in Tenants : SelectTenant(t)
        \/ \E c \in Tabs : SelectTab(c)
        \/ \E d \in Docs : ClickReplay(d) \/ ClickToggle(d) \/ ClickDelete(d)

Next == \/ User \/ Poll
        \/ \E i \in DOMAIN calls : Serve(i) \/ Answer(i) \/ Fail(i)
        \/ \E d \in Docs : Engine(d) \/ Stranger(d)

Spec == Init /\ [][Next]_vars

\* The timer fires, the API serves and the network delivers. Users need not click.
FairSpec == /\ Spec
            /\ WF_vars(Poll)
            /\ WF_vars(\E i \in DOMAIN calls : Serve(i))
            /\ WF_vars(\E i \in DOMAIN calls : Answer(i))

-----------------------------------------------------------------------------
(* Properties.                                                             *)

\* A table of jobs or events that is left alone shows, in the end and from then on,
\* what the API has for the selected tenant, however answers overtook each other and
\* failed before (JobsTable.tsx:10-14, EventsTable.tsx:9-13).
TableCatchesUp ==
  \A t \in Tenants, c \in Polled :
    <>[](tenant = t /\ tab = c) => <>[](rows = Listing(t, c))

\* What a button does is done to a document of the tenant that was selected when it
\* was clicked, although the row it belongs to may have been another tenant's
\* (JobsTable.tsx:16-24, RulesTable.tsx:13-22, tenant.guard.ts:9-17).
ClicksStayHome ==
  [][\A d \in Docs : store'[d] # store[d] =>
       \A i \in DOMAIN calls :
         i \in DOMAIN calls' /\ calls'[i] # calls[i] => Owner[d] = calls[i].tenant]_vars

\* This tab does not repeat its own replay: while a job waits that it has queued, no
\* click on a stale picture of it queues it once more, whatever the engine and other
\* users do to it in between. The button stays disabled until a list taken after the
\* replay was shown (JobsTable.tsx:16-24), unless that list failed, an older one overtook
\* it, or the table was left meanwhile. A job that somebody else has queued can well be
\* replayed from a row up to three seconds old: the API does not look at its status.
ReplaysAreNotRepeated ==
  repeats > 0 => excuses \cap {"failed", "overtaken", "left"} # {}

\* The table of rules is not polled, and all the same it is right once its calls are
\* answered and the last rows shown were loaded for the selected tenant, unless a
\* call failed, an older list overtook a newer one, the table was left before a click
\* was answered, somebody else edited, or a rule was deleted. (A toggle answered after
\* the tenant was switched loads the rules of the tenant before: RulesTable.tsx:7-22.)
QuietRulesAreTrue ==
  tab = "rules" /\ calls = <<>> /\ origin = tenant /\ tenant # None /\ excuses = {} =>
    rows = Listing(tenant, "rules")

=============================================================================
