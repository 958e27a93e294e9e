-------------------------- MODULE WebhookProcessor --------------------------
(***************************************************************************)
(* webhook.processor.ts: the workers that take jobs off the queue, with    *)
(* the rules, the JobRun rows and the replay endpoint they share.          *)
(*                                                                         *)
(* One action per stretch of code between two awaits. What an action does  *)
(* outside (a notification sent, a CRM record written) is counted in       *)
(* `effects`. Every event was ingested: its job is waiting at the start.   *)
(***************************************************************************)
EXTENDS JobsService, RulesService, FiniteSets

CONSTANT Registered   \* the action types ActionRegistry has a class for

ASSUME RegistryAssumption == Registered \subseteq ActionTypes \ {None}

VARIABLES
  eventStatus,   \* WebhookEvent.status
  wk,            \* the local state of each call of process()
  effects        \* times the action at a position took effect, by firing

vars == <<used, queue, runs, req, rules, eventStatus, wk, effects>>

WorkerPoints == {"idle", "started", "rules", "loop", "create", "run", "finish",
                 "load", "replayRules"}

RuleSets == UNION {[S -> RuleDoc] : S \in SUBSET Rules}

\* job    : the job being processed            at     : last index of the loop
\* snap   : the rules the query returned       run    : id of jobRun
\* todo   : those the loop has not finished    doc    : jobRun as loaded, with
\* acts   : the ruleActions argument                    the outcomes so far
\* failed : anyFailure, or an exception is on its way out of process()
WorkerRecord == [pc     : WorkerPoints,
                 job    : JobIds \cup {None},
                 snap   : RuleSets,
                 todo   : SUBSET Rules,
                 run    : RunIds \cup {None},
                 doc    : RunDoc \cup {None},
                 acts   : ActionArrays,
                 at     : Nat,
                 failed : BOOLEAN]

Idle == [pc |-> "idle", job |-> None, snap |-> NoActions, todo |-> {},
         run |-> None, doc |-> None, acts |-> NoActions, at |-> 0,
         failed |-> FALSE]

TypeOK ==
  /\ used \in [Kinds -> Nat]
  /\ QueueTypeOK
  /\ JobsTypeOK
  /\ RulesTypeOK
  /\ eventStatus \in [Events -> IngestStatus]
  /\ wk \in [Workers -> WorkerRecord]
  /\ effects \in [Events \X Rules \X Positions -> Nat]

Init ==
  /\ used = Unspent
  /\ QueueInit
  /\ JobsInit
  /\ RulesInit
  /\ eventStatus = [e \in Events |-> "received"]
  /\ wk = [w \in Workers |-> Idle]
  /\ effects = [x \in Events \X Rules \X Positions |-> 0]

\* An exception leaves process(): what the worker had in memory is gone.
Throw(w) == wk' = [wk EXCEPT ![w] = [Idle EXCEPT !.pc = "finish",
                                                 !.job = wk[w].job,
                                                 !.failed = TRUE]]

-----------------------------------------------------------------------------
(* process: dispatch on the kind of job.                                   *)

TakeJob(w) ==
  /\ wk[w].pc = "idle"
  /\ \E j \in JobIds :
       /\ Activate(j, w)
       /\ wk' = [wk EXCEPT ![w].job = j,
                           ![w].pc = IF j \in Events THEN "started" ELSE "load"]
  /\ UNCHANGED <<used, runs, req, rules, eventStatus, effects>>

-----------------------------------------------------------------------------
(* processEvent.                                                           *)

MarkProcessing(w) ==
  /\ wk[w].pc = "started"
  /\ eventStatus' = [eventStatus EXCEPT ![wk[w].job] = "processing"]
  /\ wk' = [wk EXCEPT ![w].pc = "rules"]
  /\ UNCHANGED <<used, queue, runs, req, rules, effects>>

\* Rules whose conditions do not hold are passed over by the loop: `continue`.
FindRules(w) ==
  LET found == FindMatchingTriggers(wk[w].job)
  IN /\ wk[w].pc = "rules"
     /\ wk' = [wk EXCEPT
          ![w].pc   = "loop",
          ![w].snap = [r \in found |-> rules[r]],
          ![w].todo = {r \in found : rules[r].reading[wk[w].job] # "skip"}]
     /\ UNCHANGED <<used, queue, runs, req, rules, eventStatus, effects>>

\* The rule the loop is at.
Current(w, r) == wk[w].pc \in {"loop", "create"} /\ IsFirst(r, wk[w].todo)

ReadingOf(w, r) == wk[w].snap[r].reading[wk[w].job]

\* matches() throws and nothing catches it.
RuleEvalThrows(w) ==
  /\ wk[w].pc = "loop"
  /\ \E r \in Rules : Current(w, r) /\ ReadingOf(w, r) = "throw"
  /\ Throw(w)
  /\ UNCHANGED <<used, queue, runs, req, rules, eventStatus, effects>>

\* Mutant of Slots: the slots follow the rule of today.
SlotsOfToday(doc, acts) ==
  [i \in DOMAIN acts |->
     [type   |-> acts[i].type,
      status |-> IF i \in DOMAIN doc.slots THEN doc.slots[i].status ELSE "pending"]]

\* actionResults gets one pending slot per action, unless it has some already.
Slots(doc, acts) ==
  IF DOMAIN doc.slots = {}
    THEN [i \in DOMAIN acts |-> [type |-> acts[i].type, status |-> "pending"]]
    ELSE doc.slots

\* The start of runActionsForJobRun, on a row as it was just read.
Resume(w, id, doc, acts) ==
  wk' = [wk EXCEPT ![w].pc   = "run",
                   ![w].run  = id,
                   ![w].doc  = [doc EXCEPT !.slots = Slots(doc, acts)],
                   ![w].acts = acts,
                   ![w].at   = 0]

\* findOne of upsertForRuleMatch.
FindRun(w) ==
  /\ wk[w].pc = "loop"
  /\ \E r \in Rules :
       /\ Current(w, r)
       /\ ReadingOf(w, r) = "match"
       /\ \/ \E id \in RowsFor(wk[w].job, r) :
               Resume(w, id, runs[id], wk[w].snap[r].actions)
          \/ /\ RowsFor(wk[w].job, r) = {}
             /\ wk' = [wk EXCEPT ![w].pc = "create"]
  /\ UNCHANGED <<used, queue, runs, req, rules, eventStatus, effects>>

\* create of upsertForRuleMatch, decided by the findOne before it.
CreateRun(w) ==
  /\ wk[w].pc = "create"
  /\ \E r \in Rules, id \in RunIds :
       /\ Current(w, r)
       /\ InsertRun(id, wk[w].job, r)
       /\ Resume(w, id, NewRun(wk[w].job, r), wk[w].snap[r].actions)
  /\ UNCHANGED <<used, queue, req, rules, eventStatus, effects>>

\* Mutant of LoopDone: the loop stops one rule early.
LoopDoneEarly(todo) == \A r, s \in todo : r = s

LoopDone(todo) == todo = {}

MarkProcessed(w) ==
  /\ wk[w].pc = "loop"
  /\ LoopDone(wk[w].todo)
  /\ eventStatus' = [eventStatus EXCEPT ![wk[w].job] = "processed"]
  /\ wk' = [wk EXCEPT ![w].pc = "finish"]
  /\ UNCHANGED <<used, queue, runs, req, rules, effects>>

-----------------------------------------------------------------------------
(* processReplay.                                                          *)

LoadRun(w) ==
  LET id == req[wk[w].job].run
  IN /\ wk[w].pc = "load"
     /\ wk' = [wk EXCEPT ![w].pc = "replayRules", ![w].run = id, ![w].doc = runs[id]]
     /\ UNCHANGED <<used, queue, runs, req, rules, eventStatus, effects>>

\* actionsFromLastRun: the recorded types with an empty config.
RecordedActions(slots) ==
  [i \in DOMAIN slots |-> [type |-> slots[i].type, config |-> None]]

\* The rule's actions of today if it is still enabled for this event, whatever
\* its conditions say now.
FindReplayRule(w) ==
  LET doc == wk[w].doc
  IN /\ wk[w].pc = "replayRules"
     /\ Resume(w, wk[w].run, doc,
               IF doc.rule \in FindMatchingTriggers(doc.event)
                 THEN rules[doc.rule].actions
                 ELSE RecordedActions(doc.slots))
     /\ UNCHANGED <<used, queue, runs, req, rules, eventStatus, effects>>

-----------------------------------------------------------------------------
(* runActionsForJobRun: the loop over actionResults, then the save.        *)

\* Mutant of Due: actions that already succeeded are not skipped.
EverySlotDue(w) == {i \in DOMAIN wk[w].doc.slots : i > wk[w].at}

Due(w) == {i \in DOMAIN wk[w].doc.slots :
             i > wk[w].at /\ Outstanding(wk[w].doc.slots[i])}

\* ruleActions[i]?.config ?? {}
ConfigAt(acts, i) == IF i \in DOMAIN acts THEN acts[i].config ELSE None

\* A class is registered for the type, and the config has the field it needs.
Executable(type, config) == type \in Registered /\ config = type

WithOutcome(doc, i, status) == [doc EXCEPT !.slots[i].status = status]

Record(w, i, status) ==
  wk' = [wk EXCEPT ![w].at = i, ![w].doc = WithOutcome(@, i, status)]

TakeEffect(w, i) ==
  effects' = [effects EXCEPT ![<<wk[w].doc.event, wk[w].doc.rule, i>>] = @ + 1]

\* Mutant of Execute: whatever does not throw counts as success.
ExecuteOptimistically(w, i) ==
  \/ /\ TakeEffect(w, i)
     /\ Record(w, i, "succeeded")
     /\ UNCHANGED used
  \/ /\ Spend("lostReply")
     /\ TakeEffect(w, i)
     /\ Record(w, i, "failed")
  \/ /\ Spend("downstream")
     /\ Record(w, i, "succeeded")
     /\ UNCHANGED effects

\* The outcome of one execute() and what happened outside.
Execute(w, i) ==
  \/ /\ TakeEffect(w, i)
     /\ Record(w, i, "succeeded")
     /\ UNCHANGED used
  \/ /\ Spend("lostReply")
     /\ TakeEffect(w, i)
     /\ Record(w, i, "failed")
  \/ /\ Spend("downstream")
     /\ Record(w, i, "failed")
     /\ UNCHANGED effects

Reject(w, i) == Record(w, i, "failed") /\ UNCHANGED <<used, effects>>

RunAction(w) ==
  /\ wk[w].pc = "run"
  /\ \E i \in Positions :
       /\ IsFirst(i, Due(w))
       /\ IF Executable(wk[w].doc.slots[i].type, ConfigAt(wk[w].acts, i))
            THEN Execute(w, i)
            ELSE Reject(w, i)
  /\ UNCHANGED <<queue, runs, req, rules, eventStatus>>

\* Mutants of FinalStatus: one success is enough; the wrong enumeration.
CompletedBySome(slots) ==
  IF \E i \in DOMAIN slots : ~Outstanding(slots[i]) THEN "completed" ELSE "partial_failure"

FinalActionStatus(slots) == IF AllSucceeded(slots) THEN "succeeded" ELSE "failed"

FinalStatus(slots) == IF AllSucceeded(slots) THEN "completed" ELSE "partial_failure"

\* Mutant of AnyFailure: the outcome of the last rule decides.
LastFailure(failed, ok) == ~ok

\* anyFailure is never cleared once set.
AnyFailure(failed, ok) == failed \/ ~ok

SaveRun(w) ==
  LET doc == wk[w].doc
      ok  == AllSucceeded(doc.slots)
  IN /\ wk[w].pc = "run"
     /\ Due(w) = {}
     /\ SaveArray(wk[w].run, doc, FinalStatus(doc.slots), doc.slots)
     /\ wk' = [wk EXCEPT
          ![w].pc     = IF wk[w].job \in Events THEN "loop" ELSE "finish",
          ![w].todo   = @ \ {doc.rule},
          ![w].run    = None,
          ![w].doc    = None,
          ![w].acts   = NoActions,
          ![w].at     = 0,
          ![w].failed = AnyFailure(@, ok)]
     /\ UNCHANGED <<used, queue, req, rules, eventStatus, effects>>

\* Mutant of SaveConflict: the same document is saved again and again.
SaveConflictRetried(w) ==
  /\ wk[w].pc = "run"
  /\ Due(w) = {}
  /\ Stale(wk[w].run, wk[w].doc)
  /\ UNCHANGED vars

\* VersionError.
SaveConflict(w) ==
  /\ wk[w].pc = "run"
  /\ Due(w) = {}
  /\ Stale(wk[w].run, wk[w].doc)
  /\ Throw(w)
  /\ UNCHANGED <<used, queue, runs, req, rules, eventStatus, effects>>

-----------------------------------------------------------------------------
(* The BullMQ worker around process(), and what may go wrong with it.      *)

\* A worker that lost the job meanwhile is not listened to.
Finish(w) ==
  LET j == wk[w].job
  IN /\ wk[w].pc = "finish"
     /\ IF ~HoldsLock(j, w) THEN UNCHANGED queue
        ELSE IF wk[w].failed THEN FailAttempt(j)
        ELSE Complete(j)
     /\ wk' = [wk EXCEPT ![w] = Idle]
     /\ UNCHANGED <<used, runs, req, rules, eventStatus, effects>>

\* An awaited call to MongoDB rejects without having had an effect.
DbError(w) ==
  /\ wk[w].pc \in WorkerPoints \ {"idle", "finish"}
  /\ wk[w].pc = "run" => Due(w) = {}
  /\ Spend("dbError")
  /\ Throw(w)
  /\ UNCHANGED <<queue, runs, req, rules, eventStatus, effects>>

Crash(w) ==
  /\ wk[w].pc # "idle"
  /\ Spend("crash")
  /\ IF HoldsLock(wk[w].job, w) THEN ReleaseLock(wk[w].job) ELSE UNCHANGED queue
  /\ wk' = [wk EXCEPT ![w] = Idle]
  /\ UNCHANGED <<runs, req, rules, eventStatus, effects>>

LoseLock(w) ==
  /\ wk[w].pc # "idle"
  /\ HoldsLock(wk[w].job, w)
  /\ Spend("lockLoss")
  /\ ReleaseLock(wk[w].job)
  /\ UNCHANGED <<runs, req, rules, eventStatus, wk, effects>>

-----------------------------------------------------------------------------

Work(w) ==
  \/ TakeJob(w) \/ MarkProcessing(w) \/ FindRules(w) \/ RuleEvalThrows(w)
  \/ FindRun(w) \/ CreateRun(w) \/ MarkProcessed(w) \/ LoadRun(w)
  \/ FindReplayRule(w) \/ RunAction(w) \/ SaveRun(w) \/ SaveConflict(w)
  \/ Finish(w)

Interfere(w) == DbError(w) \/ Crash(w) \/ LoseLock(w)

Recover(j) == /\ RecoverStalled(j)
              /\ UNCHANGED <<used, runs, req, rules, eventStatus, wk, effects>>

Replay(q) == /\ \/ \E id \in RunIds : ReplayLoad(q, id)
                \/ ReplayRequest(q)
                \/ ReplayAbort(q)
             /\ UNCHANGED <<rules, eventStatus, wk, effects>>

EditRule(r) == /\ CreateRule(r) \/ UpdateRule(r) \/ RemoveRule(r)
               /\ UNCHANGED <<queue, runs, req, eventStatus, wk, effects>>

\* Nothing left to do until somebody clicks or edits.
Quiescent == /\ \A j \in JobIds : queue[j].state = "absent" \/ Settled(j)
             /\ \A w \in Workers : wk[w].pc = "idle"
             /\ UNCHANGED vars

Next == \/ \E w \in Workers : Work(w) \/ Interfere(w)
        \/ \E j \in JobIds : Recover(j)
        \/ \E q \in ReplayJobs : Replay(q)
        \/ \E r \in Rules : EditRule(r)
        \/ Quiescent

Spec == Init /\ [][Next]_vars

\* A running process goes on; BullMQ's stalled check runs on a timer. Nothing
\* is assumed of crashes, lost locks, errors, clicks and edits.
Fairness == /\ \A w \in Workers : WF_vars(Work(w))
            /\ \A j \in JobIds : WF_vars(Recover(j))
            /\ \A q \in ReplayJobs :
                 WF_vars(ReplayRequest(q) /\ UNCHANGED <<rules, eventStatus, wk, effects>>)

FairSpec == Spec /\ Fairness

-----------------------------------------------------------------------------
(* Properties.                                                             *)

\* A recorded success is backed by an effect: for every JobRun row whose slot i
\* says "succeeded", the action at i took effect for that event and rule at
\* least once (webhook.processor.ts:194-210).
SuccessIsReal ==
  \A id \in RunIds : runs[id] # None =>
    \A i \in DOMAIN runs[id].slots :
      ~Outstanding(runs[id].slots[i])
        => effects[<<runs[id].event, runs[id].rule, i>>] >= 1

Places == Events \X Rules \X Positions

\* Places whose success some row of the firing records.
Recorded ==
  {x \in Places : \E id \in RowsFor(x[1], x[2]) :
     x[3] \in DOMAIN runs[id].slots /\ ~Outstanding(runs[id].slots[x[3]])}

\* Firings with a replay request, and after a lost lock all of them.
Contested ==
  {x \in Places : \/ used["lockLoss"] > 0
                  \/ \E q \in ReplayJobs : req[q].run \in RowsFor(x[1], x[2])}

Ledger == INSTANCE ActionLedger
            WITH taken <- effects, done <- Recorded, contested <- Contested

\* Workers, rows, retries, replays and edits together keep the promise of the
\* ledger: what is on record was done and stays on record, and it is done again
\* only in firings that are replayed or after a lost lock; a replay of one rule's
\* row never makes another rule repeat (webhook.processor.ts:51-56,
\* jobs.service.ts:71-76).
KeepsLedger == Ledger!Spec

\* Without a lost lock, retries and crashes never leave two rows for one rule
\* firing, although nothing but a findOne before the create prevents it
\* (jobs.service.ts:28-44).
OneRunPerFiring ==
  used["lockLoss"] = 0 =>
    \A a, b \in RunIds :
      /\ runs[a] # None /\ runs[b] # None
      /\ runs[a].event = runs[b].event /\ runs[a].rule = runs[b].rule
      => a = b

\* When processEvent is about to return normally, every rule that matched and has
\* actions has a row all of whose actions succeeded, whatever the other rules of the
\* event, other workers, replays and edits did meanwhile (webhook.processor.ts:80-111).
CleanFinish ==
  \A w \in Workers :
    wk[w].pc = "finish" /\ ~wk[w].failed /\ wk[w].job \in Events =>
      \A r \in DOMAIN wk[w].snap :
        ReadingOf(w, r) = "match" /\ DOMAIN wk[w].snap[r].actions # {} =>
          \E id \in RowsFor(wk[w].job, r) :
            DOMAIN runs[id].slots # {} /\ AllSucceeded(runs[id].slots)

\* PROCESSED means that rule evaluation ran: while the rules are not edited,
\* each enabled rule that matches a processed event has a row
\* (webhook-event.schema.ts:9, webhook.processor.ts:98-101).
ProcessedMeansEvaluated ==
  used["edit"] = 0 =>
    \A e \in Events : eventStatus[e] = "processed" =>
      \A r \in FindMatchingTriggers(e) :
        rules[r].reading[e] = "match" => RowsFor(e, r) # {}

\* The status a tenant reads agrees with the results below it, though the two
\* fields are written by different saves: COMPLETED rows have no outstanding
\* action and PARTIAL_FAILURE rows have one (job-run.schema.ts:9-10).
StatusAgreesWithSlots ==
  \A id \in RunIds : runs[id] # None =>
    /\ runs[id].status = "completed" => AllSucceeded(runs[id].slots)
    /\ runs[id].status = "partial_failure" => ~AllSucceeded(runs[id].slots)

\* Retries alone repeat nothing: with no replay and no lost lock, an action takes
\* effect at most once more than there were faults that hide or lose a success
\* (webhook.processor.ts:51-56).
RepeatsNeedFaults ==
  used["lockLoss"] = 0 /\ (\A q \in ReplayJobs : req[q].pc = "unused") =>
    \A x \in DOMAIN effects :
      effects[x] <= 1 + used["crash"] + used["dbError"] + used["lostReply"]

\* A success once saved stays: no later save, of a worker or of the replay
\* endpoint, however stale the row it loaded, takes back a succeeded slot
\* (jobs.service.ts:80-85, webhook.processor.ts:213-215).
SuccessIsFinal ==
  [][\A id \in RunIds : runs[id] # None =>
       \A i \in DOMAIN runs[id].slots :
         ~Outstanding(runs[id].slots[i]) =>
           i \in DOMAIN runs'[id].slots /\ runs'[id].slots[i] = runs[id].slots[i]]_vars

\* Once a row has slots they are for the same actions, in the same order, for
\* ever, however the rule is edited between attempts (webhook.processor.ts:167-175).
PlanIsFixed ==
  [][\A id \in RunIds : runs[id] # None /\ DOMAIN runs[id].slots # {} =>
       /\ DOMAIN runs'[id].slots = DOMAIN runs[id].slots
       /\ \A i \in DOMAIN runs[id].slots :
            runs'[id].slots[i].type = runs[id].slots[i].type]_vars

\* No rule is looked for any more, and the calls that found it are over.
Off(r) == rules[r].state # "enabled" /\ \A w \in Workers : r \notin DOMAIN wk[w].snap

\* A rule that was disabled or deleted comes to rest once the calls of process() that
\* found it before are over: until it is enabled again no call finds it, no row is made
\* for it, and its actions take effect only by the hand of a replay job, however often
\* its events' jobs are retried or taken over (rules.service.ts:23-35).
OffRulesFireNoMore ==
  [][\A r \in Rules : Off(r) =>
       /\ Off(r)' \/ rules'[r].state = "enabled"
       /\ \A id \in RunIds :
            runs'[id] # None /\ runs'[id].rule = r => runs[id] # None
       /\ \A x \in Places : x[2] = r /\ effects'[x] # effects[x] =>
            \E w \in Workers : wk[w].job \in ReplayJobs /\ wk[w].doc # None
                               /\ wk[w].doc.rule = r]_vars

\* No more stalls than the checker forgives, and a failed call for each attempt that
\* a replay job has to spare: two are needed for the job itself, since a worker that
\* loaded the row before may save it in between, which refuses the job's own save.
Tolerable == /\ used["crash"] + used["lockLoss"] <= MaxStalledCount
             /\ used["dbError"] + 1 < ReplayAttempts

\* A row a tenant sees as QUEUED has somebody left to run it: its replay job is about
\* to be added or has not settled yet, whatever workers, crashes and refused saves
\* did, unless a request for it broke off between the save and the add
\* (jobs.service.ts:83-99).
QueuedIsPursued ==
  Tolerable =>
    \A id \in RunIds :
      /\ runs[id] # None /\ runs[id].status = "queued"
      /\ \A q \in ReplayJobs : req[q].run = id => req[q].pc # "lost"
      => \E q \in ReplayJobs :
           /\ req[q].run = id
           /\ Named(q) \/ queue[q].state \in {"waiting", "active"}

\* Every job that was enqueued ends up completed or failed for good: no crash,
\* lost lock, refused save or retry leaves it in the queue for ever
\* (webhooks.service.ts:122-123, jobs.service.ts:94-95).
JobsSettle ==
  \A j \in JobIds : queue[j].state # "absent" ~> Settled(j)

Delivered(e) ==
  /\ queue[e].state = "completed"
  /\ \A r \in FindMatchingTriggers(e) :
       rules[r].reading[e] = "match" =>
         \E id \in RowsFor(e, r) : AllSucceeded(runs[id].slots)

\* More stalls than the checker forgives, or as many failed attempts as allowed. A lost
\* lock may cost an attempt for each rule: the worker that lost it goes on through the
\* rules, and each row that it saves may refuse a save of one that took the job over.
PatienceExhausted ==
  \/ used["crash"] + used["lockLoss"] > MaxStalledCount
  \/ used["dbError"] + used["lostReply"] + used["downstream"]
       + used["lockLoss"] * Cardinality(Rules) >= EventAttempts

\* Retries mask what they are meant to mask: an event whose job meets fewer
\* failures than it has attempts, and no more stalls than BullMQ forgives, is
\* delivered in the end, and stays so (webhook.processor.ts:103-110,
\* webhooks.service.ts:122-123).
EventuallyDelivered ==
  \A e \in Events : <>[](Delivered(e) \/ PatienceExhausted)

-----------------------------------------------------------------------------
(* What comments and the README say and the code does not do.              *)

\* "skips any action that's already SUCCEEDED" (webhook.processor.ts:52-53),
\* "Previously completed actions are skipped during replay" (README.md:159): no
\* action takes effect whose success is already saved.
SucceededIsSkipped ==
  [][\A x \in DOMAIN effects : effects'[x] # effects[x] =>
       \A id \in RowsFor(x[1], x[2]) :
         x[3] \in DOMAIN runs[id].slots => Outstanding(runs[id].slots[x[3]])]_vars

\* "Fallback if the rule was deleted/edited since the original run: replay whatever
\* action types are already recorded" (webhook.processor.ts:149): a replay of a deleted
\* rule's row executes the recorded actions that have a class.
RecordedIsReplayed ==
  \A w \in Workers :
    /\ wk[w].pc = "run" /\ wk[w].job \in ReplayJobs
    /\ rules[wk[w].doc.rule].state = "removed"
    => \A i \in Due(w) :
         LET type == wk[w].doc.slots[i].type
         IN type \in Registered => Executable(type, ConfigAt(wk[w].acts, i))

\* "a tenant never sees two job history rows for the same rule firing once"
\* (jobs.service.ts:19-20).
OneRowSeen ==
  \A a, b \in RunIds :
    /\ runs[a] # None /\ runs[b] # None
    /\ runs[a].event = runs[b].event /\ runs[a].rule = runs[b].rule
    => a = b

=============================================================================
