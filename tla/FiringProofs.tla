---------------------------- MODULE FiringProofs ----------------------------
(***************************************************************************)
(* One JobRun row per rule firing, as long as no live worker loses its     *)
(* lock: OneRunPerFiring of WebhookProcessor, for all values of the        *)
(* constants.                                                              *)
(*                                                                         *)
(* upsertForRuleMatch checks and then creates. What makes that safe is not *)
(* in it: while locks are kept, a job has one worker, so nobody else can   *)
(* create a row for the same event between the check and the create.       *)
(***************************************************************************)
EXTENDS WebhookProcessorProofs

Locked == \A w \in Workers : wk[w].pc # "idle" => HoldsLock(wk[w].job, w)

\* The answer of the findOne is still true when the create is made.
NoRowYet == \A w \in Workers, r \in Rules :
              wk[w].pc = "create" /\ IsFirst(r, wk[w].todo) => RowsFor(wk[w].job, r) = {}

SameFiring(a, b) == /\ runs[a] # None /\ runs[b] # None
                    /\ runs[a].event = runs[b].event /\ runs[a].rule = runs[b].rule

Unique == \A a, b \in RunIds : SameFiring(a, b) => a = b

FiringInv == used["lockLoss"] = 0 => Locked /\ NoRowYet /\ Unique

-----------------------------------------------------------------------------

\* A step inside process(): the worker keeps its job and the queue is untouched.
Inside(w) == /\ queue' = queue
             /\ wk[w].pc # "idle" /\ wk'[w].job = wk[w].job
             /\ \A v \in Workers \ {w} : wk'[v] = wk[v]

LEMMA InsideStep ==
  ASSUME TypeInv, NEW w \in Workers, NEW record,
         wk' = [wk EXCEPT ![w] = record], record.job = wk[w].job,
         wk[w].pc # "idle", queue' = queue
  PROVE  Inside(w) /\ wk'[w] = record
  BY DEF Inside, TypeInv, TypeOK

\* A worker after its save of the row.
LEMMA SaveRunIsInside ==
  ASSUME TypeInv, NEW w \in Workers, SaveRun(w)
  PROVE  Inside(w) /\ wk'[w].pc \in {"loop", "finish"}
  <1> DEFINE pc     == IF wk[w].job \in Events THEN "loop" ELSE "finish"
             todo   == wk[w].todo \ {wk[w].doc.rule}
             failed == AnyFailure(wk[w].failed, AllSucceeded(wk[w].doc.slots))
             record == [wk[w] EXCEPT !.pc = pc, !.todo = todo, !.run = None, !.doc = None,
                                     !.acts = NoActions, !.at = 0, !.failed = failed]
  <1>1. wk' = [wk EXCEPT ![w] = record] /\ wk[w].pc # "idle" /\ queue' = queue
    BY DEF SaveRun
  <1>2. wk[w] \in WorkerRecord
    BY DEF TypeInv, TypeOK
  <1> HIDE DEF todo, failed
  <1>3. record.job = wk[w].job /\ record.pc = pc
    BY <1>2 DEF WorkerRecord
  <1> HIDE DEF record
  <1> QED BY <1>1, <1>3, InsideStep

LEMMA ThrowIsInside ==
  ASSUME TypeInv, NEW w \in Workers, Throw(w), wk[w].pc # "idle", queue' = queue
  PROVE  Inside(w) /\ wk'[w].pc = "finish"
  <1> DEFINE record == [Idle EXCEPT !.pc = "finish", !.job = wk[w].job, !.failed = TRUE]
  <1>1. wk'[w] = record
    BY DEF Throw, TypeInv, TypeOK
  <1>2. \A v \in Workers \ {w} : wk'[v] = wk[v]
    BY DEF Throw, TypeInv, TypeOK
  <1>3. wk'[w].job = wk[w].job /\ wk'[w].pc = "finish"
    BY <1>1 DEF Idle
  <1> QED BY <1>2, <1>3 DEF Inside

LEMMA ResumeIsInside ==
  ASSUME TypeInv, NEW w \in Workers, NEW id, NEW doc, NEW acts, Resume(w, id, doc, acts),
         wk[w].pc # "idle", queue' = queue
  PROVE  Inside(w) /\ wk'[w].pc = "run"
  <1> DEFINE d == [doc EXCEPT !.slots = Slots(doc, acts)]
             record == [wk[w] EXCEPT !.pc = "run", !.run = id, !.doc = d,
                                     !.acts = acts, !.at = 0]
  <1>1. wk' = [wk EXCEPT ![w] = record]
    BY DEF Resume
  <1>2. wk[w] \in WorkerRecord
    BY DEF TypeInv, TypeOK
  <1> HIDE DEF d
  <1>3. record.job = wk[w].job /\ record.pc = "run"
    BY <1>2 DEF WorkerRecord
  <1> HIDE DEF record
  <1> QED BY <1>1, <1>3, InsideStep

\* All the other steps inside process(). Only FindRun leads to "create".
LEMMA WorkIsInside ==
  ASSUME TypeInv, NEW w \in Workers, Work(w), ~TakeJob(w), ~Finish(w)
  PROVE  Inside(w) /\ (wk'[w].pc = "create" => FindRun(w))
  <1> wk[w] \in WorkerRecord
    BY DEF TypeInv, TypeOK
  <1>1. CASE MarkProcessing(w)
    <2> DEFINE record == [wk[w] EXCEPT !.pc = "rules"]
    <2>1. wk' = [wk EXCEPT ![w] = record] /\ wk[w].pc # "idle" /\ queue' = queue
      BY <1>1 DEF MarkProcessing
    <2>2. record.job = wk[w].job /\ record.pc # "create"
      BY DEF WorkerRecord
    <2> QED BY <2>1, <2>2, InsideStep
  <1>2. CASE FindRules(w)
    <2> DEFINE found  == FindMatchingTriggers(wk[w].job)
               snap   == [r \in found |-> rules[r]]
               todo   == {r \in found : rules[r].reading[wk[w].job] # "skip"}
               record == [wk[w] EXCEPT !.pc = "loop", !.snap = snap, !.todo = todo]
    <2>1. wk' = [wk EXCEPT ![w] = record] /\ wk[w].pc # "idle" /\ queue' = queue
      BY <1>2 DEF FindRules
    <2> HIDE DEF found, snap, todo
    <2>2. record.job = wk[w].job /\ record.pc # "create"
      BY DEF WorkerRecord
    <2> QED BY <2>1, <2>2, InsideStep
  <1>3. CASE MarkProcessed(w)
    <2> DEFINE record == [wk[w] EXCEPT !.pc = "finish"]
    <2>1. wk' = [wk EXCEPT ![w] = record] /\ wk[w].pc # "idle" /\ queue' = queue
      BY <1>3 DEF MarkProcessed
    <2>2. record.job = wk[w].job /\ record.pc # "create"
      BY DEF WorkerRecord
    <2> QED BY <2>1, <2>2, InsideStep
  <1>4. CASE LoadRun(w)
    <2> DEFINE id     == req[wk[w].job].run
               doc    == runs[id]
               record == [wk[w] EXCEPT !.pc = "replayRules", !.run = id, !.doc = doc]
    <2>1. wk' = [wk EXCEPT ![w] = record] /\ wk[w].pc # "idle" /\ queue' = queue
      BY <1>4 DEF LoadRun
    <2> HIDE DEF id, doc
    <2>2. record.job = wk[w].job /\ record.pc # "create"
      BY DEF WorkerRecord
    <2> QED BY <2>1, <2>2, InsideStep
  <1>5. CASE RuleEvalThrows(w) \/ SaveConflict(w)
    BY <1>5, ThrowIsInside DEF RuleEvalThrows, SaveConflict
  <1>6. CASE FindRun(w)
    <2>1. wk[w].pc # "idle" /\ queue' = queue
      BY <1>6 DEF FindRun
    <2>2. CASE \E id, doc, acts : Resume(w, id, doc, acts)
      BY <1>6, <2>1, <2>2, ResumeIsInside
    <2>3. CASE wk' = [wk EXCEPT ![w].pc = "create"]
      <3> DEFINE record == [wk[w] EXCEPT !.pc = "create"]
      <3>1. wk' = [wk EXCEPT ![w] = record]
        BY <2>3
      <3>2. record.job = wk[w].job
        BY DEF WorkerRecord
      <3> QED BY <1>6, <2>1, <3>1, <3>2, InsideStep
    <2> QED BY <1>6, <2>2, <2>3 DEF FindRun
  <1>7. CASE CreateRun(w) \/ FindReplayRule(w)
    <2>1. wk[w].pc # "idle" /\ queue' = queue
      BY <1>7 DEF CreateRun, FindReplayRule
    <2>2. \E id, doc, acts : Resume(w, id, doc, acts)
      BY <1>7 DEF CreateRun, FindReplayRule
    <2> QED BY <2>1, <2>2, ResumeIsInside
  <1>8. CASE RunAction(w)
    <2>1. PICK i, status : Record(w, i, status)
      BY <1>8 DEF RunAction, Execute, Reject
    <2> DEFINE doc    == WithOutcome(wk[w].doc, i, status)
               record == [wk[w] EXCEPT !.at = i, !.doc = doc]
    <2>2. wk' = [wk EXCEPT ![w] = record] /\ wk[w].pc = "run" /\ queue' = queue
      BY <1>8, <2>1 DEF RunAction, Record
    <2> HIDE DEF doc
    <2>3. record.job = wk[w].job /\ record.pc = wk[w].pc
      BY DEF WorkerRecord
    <2> QED BY <2>2, <2>3, InsideStep
  <1>9. CASE SaveRun(w)
    BY <1>9, SaveRunIsInside
  <1> QED BY <1>1, <1>2, <1>3, <1>4, <1>5, <1>6, <1>7, <1>8, <1>9 DEF Work

LEMMA UsedSteps ==
  ASSUME [Next]_vars
  PROVE  used' = used \/ \E k \in Kinds : Spend(k)
  <1>1. ASSUME NEW w \in Workers, Work(w)
        PROVE  used' = used \/ \E k \in Kinds : Spend(k)
    <2>1. CASE RunAction(w)
      BY <2>1 DEF RunAction, Execute, Reject, Kinds
    <2>2. CASE ~RunAction(w)
      BY <1>1, <2>2 DEF Work, TakeJob, MarkProcessing, FindRules, RuleEvalThrows, FindRun,
           CreateRun, MarkProcessed, LoadRun, FindReplayRule, SaveRun, SaveConflict, Finish
    <2> QED BY <2>1, <2>2
  <1>2. ASSUME NEW w \in Workers, Interfere(w) PROVE \E k \in Kinds : Spend(k)
    BY <1>2 DEF Interfere, DbError, Crash, LoseLock, Kinds
  <1>3. ASSUME NEW q \in ReplayJobs, Replay(q)
        PROVE  used' = used \/ \E k \in Kinds : Spend(k)
    BY <1>3 DEF Replay, ReplayLoad, ReplayRequest, ReplaySave, ReplayConflict,
                ReplayEnqueue, ReplayAbort, Kinds
  <1>4. ASSUME NEW r \in Rules, EditRule(r) PROVE \E k \in Kinds : Spend(k)
    BY <1>4 DEF EditRule, CreateRule, UpdateRule, RemoveRule, Kinds
  <1>5. ASSUME NEW j \in JobIds, Recover(j) PROVE used' = used
    BY <1>5 DEF Recover
  <1>6. CASE UNCHANGED vars
    BY <1>6 DEF vars
  <1> QED BY <1>1, <1>2, <1>3, <1>4, <1>5, <1>6 DEF Next, Quiescent

\* A lock once lost is never forgotten, and no step but LoseLock loses one.
LEMMA LocksStayLost ==
  ASSUME TypeInv, [Next]_vars, used'["lockLoss"] = 0
  PROVE  used["lockLoss"] = 0 /\ \A w \in Workers : ~LoseLock(w)
  <1>1. used \in [Kinds -> Nat] /\ "lockLoss" \in Kinds
    BY DEF TypeInv, TypeOK, Kinds
  <1>2. used' = used \/ \E k \in Kinds : Spend(k)
    BY UsedSteps
  <1>3. ASSUME NEW k \in Kinds, Spend(k)
        PROVE  used'["lockLoss"] >= used["lockLoss"]
    BY <1>1, <1>3 DEF Spend
  <1>4. used["lockLoss"] = 0
    BY <1>1, <1>2, <1>3
  <1>5. ASSUME NEW w \in Workers, LoseLock(w) PROVE FALSE
    BY <1>1, <1>4, <1>5 DEF LoseLock, Spend
  <1> QED BY <1>4, <1>5

-----------------------------------------------------------------------------
(* A job has one worker.                                                   *)

\* The worker leaves its job, which is the only one the queue may change.
Leaves(w) == /\ wk' = [wk EXCEPT ![w] = Idle]
             /\ \A j \in JobIds \ {wk[w].job} : queue'[j] = queue[j]

LEMMA LeavingSteps ==
  ASSUME TypeInv, NEW w \in Workers, Finish(w) \/ Crash(w)
  PROVE  Leaves(w) /\ wk[w].pc # "idle"
  <1>1. \A j \in JobIds \ {wk[w].job} : queue'[j] = queue[j]
    BY DEF Finish, Crash, FailAttempt, Complete, ReleaseLock, TypeInv, TypeOK, QueueTypeOK
  <1> QED BY <1>1 DEF Leaves, Finish, Crash

LEMMA LockedInside ==
  ASSUME Locked, NEW w \in Workers, Inside(w)
  PROVE  Locked'
  BY DEF Locked, Inside, HoldsLock

LEMMA LockedTakeJob ==
  ASSUME TypeInv, Locked, NEW w \in Workers, TakeJob(w)
  PROVE  Locked'
  <1>1. PICK j \in JobIds :
          /\ Activate(j, w)
          /\ wk' = [wk EXCEPT ![w].job = j,
                              ![w].pc = IF j \in Events THEN "started" ELSE "load"]
    BY DEF TakeJob
  <1>2. /\ queue'[j].state = "active" /\ queue'[j].owner = w
        /\ \A i \in JobIds \ {j} : queue'[i] = queue[i]
    BY <1>1 DEF Activate, TypeInv, TypeOK, QueueTypeOK, JobRecord
  <1>3. wk'[w].job = j /\ \A v \in Workers \ {w} : wk'[v] = wk[v]
    BY <1>1 DEF TypeInv, TypeOK, WorkerRecord
  <1>4. ASSUME NEW v \in Workers \ {w}, wk[v].pc # "idle"
        PROVE  wk[v].job \in JobIds \ {j} /\ HoldsLock(wk[v].job, v)
    BY <1>1, <1>4 DEF Locked, HoldsLock, Activate, TypeInv, Control, WorkerControl
  <1> QED BY <1>2, <1>3, <1>4 DEF Locked, HoldsLock

LEMMA LockedLeaving ==
  ASSUME TypeInv, Locked, NEW w \in Workers, Leaves(w), wk[w].pc # "idle"
  PROVE  Locked'
  <1>1. wk'[w] = Idle /\ \A v \in Workers \ {w} : wk'[v] = wk[v]
    BY DEF Leaves, TypeInv, TypeOK
  <1>2. ASSUME NEW v \in Workers \ {w}, wk[v].pc # "idle"
        PROVE  wk[v].job \in JobIds \ {wk[w].job} /\ HoldsLock(wk[v].job, v)
    BY <1>2 DEF Locked, HoldsLock, TypeInv, Control, WorkerControl
  <1>3. wk'[w].pc = "idle"
    BY <1>1 DEF Idle
  <1> QED BY <1>1, <1>2, <1>3 DEF Locked, HoldsLock, Leaves

\* Jobs whose lock nobody holds, and jobs not enqueued yet.
LEMMA LockedOutside ==
  ASSUME TypeInv, Locked, UNCHANGED wk,
         \A j \in JobIds : queue'[j] = queue[j] \/ queue[j].owner = None
                             \/ queue[j].state = "absent"
  PROVE  Locked'
  <1>1. ASSUME NEW v \in Workers, wk[v].pc # "idle"
        PROVE  wk[v].job \in JobIds /\ HoldsLock(wk[v].job, v) /\ v # None
    BY <1>1, TypesAssumption DEF Locked, TypeInv, Control, WorkerControl
  <1> QED BY <1>1 DEF Locked, HoldsLock

LEMMA LockedNext ==
  ASSUME TypeInv, Locked, [Next]_vars, \A w \in Workers : ~LoseLock(w)
  PROVE  Locked'
  <1>1. ASSUME NEW w \in Workers, Work(w) PROVE Locked'
    BY <1>1, WorkIsInside, LockedInside, LockedTakeJob, LeavingSteps, LockedLeaving
  <1>2. ASSUME NEW w \in Workers, Interfere(w) PROVE Locked'
    <2>1. CASE DbError(w)
      BY <2>1, ThrowIsInside, LockedInside DEF DbError
    <2>2. CASE Crash(w)
      BY <2>2, LeavingSteps, LockedLeaving
    <2> QED BY <1>2, <2>1, <2>2 DEF Interfere
  <1>3. ASSUME NEW j \in JobIds, Recover(j) PROVE Locked'
    <2>1. \A i \in JobIds : queue'[i] = queue[i] \/ queue[i].owner = None
      BY <1>3 DEF Recover, RecoverStalled, TypeInv, TypeOK, QueueTypeOK
    <2> QED BY <1>3, <2>1, LockedOutside DEF Recover
  <1>4. ASSUME NEW q \in ReplayJobs, Replay(q) PROVE Locked'
    <2>1. \A i \in JobIds : queue'[i] = queue[i] \/ queue[i].state = "absent"
      BY <1>4 DEF Replay, ReplayLoad, ReplayRequest, ReplaySave, ReplayConflict,
           ReplayEnqueue, ReplayAbort, Enqueue, TypeInv, TypeOK, QueueTypeOK
    <2> QED BY <1>4, <2>1, LockedOutside DEF Replay
  <1>5. CASE (\E r \in Rules : EditRule(r)) \/ UNCHANGED vars
    BY <1>5, LockedOutside DEF EditRule, vars
  <1> QED BY <1>1, <1>2, <1>3, <1>4, <1>5 DEF Next, Quiescent
-----------------------------------------------------------------------------
(* A row keeps the event and the rule it was created for, and only         *)
(* CreateRun adds one.                                                     *)

SameRows == \A id \in RunIds :
              /\ (runs'[id] = None) <=> (runs[id] = None)
              /\ runs[id] # None => /\ runs'[id].event = runs[id].event
                                    /\ runs'[id].rule = runs[id].rule

LEMMA ReplaceRow ==
  ASSUME JobsTypeOK, NEW id \in RunIds, runs[id] \in RunDoc, NEW row \in RunDoc,
         runs' = [runs EXCEPT ![id] = row],
         row.event = runs[id].event, row.rule = runs[id].rule
  PROVE  SameRows
  <1>1. runs[id] # None /\ row # None
    BY TypesAssumption
  <1>2. runs'[id] = row /\ \A i \in RunIds \ {id} : runs'[i] = runs[i]
    BY DEF JobsTypeOK
  <1> QED BY <1>1, <1>2 DEF SameRows

LEMMA SaveArrayRows ==
  ASSUME JobsTypeOK, NEW id \in RunIds, runs[id] \in RunDoc, NEW doc \in RunDoc,
         NEW status \in JobStatus, NEW slots \in SlotArrays,
         SaveArray(id, doc, status, slots)
  PROVE  SameRows
  <1> DEFINE ver     == runs[id].ver + 1
             written == Written(id, doc, status)
             row == [runs[id] EXCEPT !.status = written, !.slots = slots, !.ver = ver]
  <1>1. written \in JobStatus /\ ver \in Nat
    BY DEF Written, RunDoc
  <1>2. runs' = [runs EXCEPT ![id] = row]
    BY DEF SaveArray
  <1> HIDE DEF ver, written
  <1>3. row \in RunDoc /\ row.event = runs[id].event /\ row.rule = runs[id].rule
    BY <1>1 DEF RunDoc
  <1> HIDE DEF row
  <1> QED BY <1>2, <1>3, ReplaceRow

LEMMA SaveStatusRows ==
  ASSUME JobsTypeOK, NEW id \in RunIds, runs[id] \in RunDoc, NEW doc \in RunDoc,
         NEW status \in JobStatus, SaveStatus(id, doc, status)
  PROVE  SameRows
  <1> DEFINE written == Written(id, doc, status)
             row == [runs[id] EXCEPT !.status = written]
  <1>1. written \in JobStatus
    BY DEF Written, RunDoc
  <1>2. runs' = [runs EXCEPT ![id] = row]
    BY DEF SaveStatus
  <1> HIDE DEF written
  <1>3. row \in RunDoc /\ row.event = runs[id].event /\ row.rule = runs[id].rule
    BY <1>1 DEF RunDoc
  <1> HIDE DEF row
  <1> QED BY <1>2, <1>3, ReplaceRow

LEMMA SaveRunRows ==
  ASSUME TypeInv, NEW w \in Workers, SaveRun(w)
  PROVE  SameRows
  <1>1. /\ wk[w].run \in RunIds /\ runs[wk[w].run] \in RunDoc
        /\ wk[w].doc \in RunDoc /\ wk[w].doc.slots \in SlotArrays
    BY RowType DEF SaveRun, RunDoc
  <1>2. FinalStatus(wk[w].doc.slots) \in JobStatus
    BY FinalStatusType
  <1> QED BY <1>1, <1>2, SaveArrayRows DEF SaveRun, TypeInv, TypeOK

LEMMA ReplaySaveRows ==
  ASSUME TypeInv, NEW q \in ReplayJobs, ReplaySave(q)
  PROVE  SameRows
  <1>1. /\ req[q].run \in RunIds /\ runs[req[q].run] \in RunDoc
        /\ req[q].doc \in RunDoc /\ req[q].doc.slots \in SlotArrays
    BY LoadedRow DEF ReplaySave, RunDoc
  <1>2. Reset(req[q].doc.slots) \in SlotArrays /\ "queued" \in JobStatus
    BY <1>1, ResetType DEF JobStatus
  <1> QED BY <1>1, <1>2, SaveArrayRows, SaveStatusRows DEF ReplaySave, TypeInv, TypeOK

LEMMA OtherStepsKeepRows ==
  ASSUME TypeInv, [Next]_vars, \A w \in Workers : ~CreateRun(w)
  PROVE  SameRows
  <1>1. CASE UNCHANGED runs
    BY <1>1 DEF SameRows
  <1>2. ASSUME NEW w \in Workers, Work(w) PROVE SameRows
    <2>1. CASE SaveRun(w)
      BY <2>1, SaveRunRows
    <2>2. CASE ~SaveRun(w)
      BY <1>1, <1>2, <2>2 DEF Work, TakeJob, MarkProcessing, FindRules, RuleEvalThrows,
         FindRun, MarkProcessed, LoadRun, FindReplayRule, RunAction, SaveConflict, Finish
    <2> QED BY <2>1, <2>2
  <1>3. ASSUME NEW w \in Workers, Interfere(w) PROVE UNCHANGED runs
    BY <1>3 DEF Interfere, DbError, Crash, LoseLock
  <1>4. ASSUME NEW q \in ReplayJobs, Replay(q) PROVE SameRows
    BY <1>1, <1>4, ReplaySaveRows DEF Replay, ReplayLoad, ReplayRequest, ReplayConflict,
       ReplayEnqueue, ReplayAbort
  <1>5. (\E j \in JobIds : Recover(j)) \/ (\E r \in Rules : EditRule(r)) \/ UNCHANGED vars
          => UNCHANGED runs
    BY DEF Recover, EditRule, vars
  <1> QED BY <1>1, <1>2, <1>3, <1>4, <1>5 DEF Next, Quiescent

-----------------------------------------------------------------------------
(* The check before the create is still right when the create is made.     *)

LEMMA OneFirst ==
  ASSUME NEW S \in SUBSET Rules, NEW r \in Rules, NEW s \in Rules,
         IsFirst(r, S), IsFirst(s, S)
  PROVE  r = s
  <1>1. r \in Nat /\ s \in Nat /\ r <= s /\ s <= r
    BY TypesAssumption DEF IsFirst
  <1> QED BY <1>1

LEMMA FindRunNoRow ==
  ASSUME TypeInv, NEW w \in Workers, FindRun(w), wk'[w].pc = "create"
  PROVE  /\ wk'[w].todo = wk[w].todo /\ wk'[w].job = wk[w].job
         /\ \A r \in Rules : IsFirst(r, wk[w].todo) => RowsFor(wk[w].job, r) = {}
  <1> wk[w] \in WorkerRecord
    BY DEF TypeInv, TypeOK
  <1>1. PICK r \in Rules :
          /\ Current(w, r)
          /\ \/ \E id, doc, acts : Resume(w, id, doc, acts)
             \/ /\ RowsFor(wk[w].job, r) = {}
                /\ wk' = [wk EXCEPT ![w].pc = "create"]
    BY DEF FindRun
  <1>2. wk[w].pc # "idle" /\ queue' = queue
    BY DEF FindRun
  <1>3. RowsFor(wk[w].job, r) = {} /\ wk' = [wk EXCEPT ![w].pc = "create"]
    BY <1>1, <1>2, ResumeIsInside
  <1>4. wk'[w].todo = wk[w].todo /\ wk'[w].job = wk[w].job
    BY <1>3 DEF TypeInv, TypeOK, WorkerRecord
  <1>5. IsFirst(r, wk[w].todo) /\ wk[w].todo \in SUBSET Rules
    BY <1>1 DEF Current, WorkerRecord
  <1> QED BY <1>3, <1>4, <1>5, OneFirst

\* Who is at "create" after a step was there before, or has just looked.
LEMMA AtCreate ==
  ASSUME TypeInv, [Next]_vars, NEW v \in Workers, wk'[v].pc = "create"
  PROVE  wk'[v] = wk[v] \/ FindRun(v)
  <1>1. ASSUME NEW w \in Workers, Work(w) PROVE wk'[v] = wk[v] \/ FindRun(v)
    <2>1. CASE TakeJob(w)
      <3>1. wk'[w].pc \in {"started", "load"} /\ \A u \in Workers \ {w} : wk'[u] = wk[u]
        BY <2>1 DEF TakeJob, TypeInv, TypeOK, WorkerRecord
      <3> QED BY <3>1
    <2>2. CASE Finish(w)
      <3>1. wk'[w] = Idle /\ \A u \in Workers \ {w} : wk'[u] = wk[u]
        BY <2>2 DEF Finish, TypeInv, TypeOK
      <3> QED BY <3>1 DEF Idle
    <2>3. CASE ~TakeJob(w) /\ ~Finish(w)
      BY <1>1, <2>3, WorkIsInside DEF Inside
    <2> QED BY <2>1, <2>2, <2>3
  <1>2. ASSUME NEW w \in Workers, Interfere(w) PROVE wk'[v] = wk[v]
    <2>1. CASE DbError(w)
      BY <2>1, ThrowIsInside DEF DbError, Inside
    <2>2. CASE Crash(w)
      <3>1. wk'[w] = Idle /\ \A u \in Workers \ {w} : wk'[u] = wk[u]
        BY <2>2 DEF Crash, TypeInv, TypeOK
      <3> QED BY <3>1 DEF Idle
    <2>3. CASE LoseLock(w)
      BY <2>3 DEF LoseLock
    <2> QED BY <1>2, <2>1, <2>2, <2>3 DEF Interfere
  <1>3. (\E j \in JobIds : Recover(j)) \/ (\E r \in Rules : EditRule(r))
          \/ (\E q \in ReplayJobs : Replay(q)) \/ UNCHANGED vars => wk'[v] = wk[v]
    BY DEF Recover, EditRule, Replay, vars
  <1> QED BY <1>1, <1>2, <1>3 DEF Next, Quiescent

\* What CreateRun adds, and that its worker moves on.
LEMMA CreateRunRow ==
  ASSUME TypeInv, NEW w \in Workers, CreateRun(w)
  PROVE  /\ wk[w].pc = "create" /\ wk'[w].pc # "create"
         /\ \A v \in Workers \ {w} : wk'[v] = wk[v]
         /\ \E r \in Rules, id \in RunIds :
              /\ IsFirst(r, wk[w].todo)
              /\ runs[id] = None /\ runs'[id] = NewRun(wk[w].job, r)
              /\ \A i \in RunIds \ {id} : runs'[i] = runs[i]
  <1>1. PICK r \in Rules, id \in RunIds :
          /\ Current(w, r)
          /\ InsertRun(id, wk[w].job, r)
          /\ \E doc, acts : Resume(w, id, doc, acts)
    BY DEF CreateRun
  <1>2. wk[w].pc = "create" /\ wk[w].pc # "idle" /\ queue' = queue
    BY DEF CreateRun
  <1>3. wk'[w].pc = "run" /\ \A v \in Workers \ {w} : wk'[v] = wk[v]
    BY <1>1, <1>2, ResumeIsInside DEF Inside
  <1>4. /\ runs[id] = None /\ runs'[id] = NewRun(wk[w].job, r)
        /\ \A i \in RunIds \ {id} : runs'[i] = runs[i]
    BY <1>1 DEF InsertRun, IsFirst, TypeInv, TypeOK, JobsTypeOK
  <1> QED BY <1>1, <1>2, <1>3, <1>4 DEF Current
-----------------------------------------------------------------------------
(* The invariant.                                                          *)

LEMMA InitFiringInv == Init => FiringInv
  <1> SUFFICES ASSUME Init PROVE FiringInv
    OBVIOUS
  <1>1. \A w \in Workers : wk[w].pc = "idle"
    BY DEF Init, Idle
  <1>2. \A id \in RunIds : runs[id] = None
    BY DEF Init, JobsInit
  <1> QED BY <1>1, <1>2 DEF FiringInv, Locked, NoRowYet, Unique, SameFiring

LEMMA FiringCreateRun ==
  ASSUME TypeInv, [Next]_vars, Locked, NoRowYet, Unique, NEW w \in Workers, CreateRun(w)
  PROVE  NoRowYet' /\ Unique'
  <1>1. PICK r \in Rules, id \in RunIds :
          /\ IsFirst(r, wk[w].todo)
          /\ runs[id] = None /\ runs'[id] = NewRun(wk[w].job, r)
          /\ \A i \in RunIds \ {id} : runs'[i] = runs[i]
    BY CreateRunRow
  <1>2. wk[w].pc = "create" /\ wk'[w].pc # "create" /\ wk[w].job \in Events
    BY CreateRunRow DEF TypeInv, Control, WorkerControl
  <1>3. RowsFor(wk[w].job, r) = {}
    BY <1>1, <1>2 DEF NoRowYet
  <1>4. runs'[id].event = wk[w].job /\ runs'[id].rule = r
    BY <1>1 DEF NewRun
  <1>5. Unique'
    BY <1>1, <1>3, <1>4 DEF Unique, SameFiring, RowsFor
  <1>6. ASSUME NEW v \in Workers, NEW s \in Rules,
               wk'[v].pc = "create", IsFirst(s, wk'[v].todo)
        PROVE  RowsFor(wk[v].job, s)' = {}
    <2>1. v # w /\ wk[v].pc # "idle" /\ wk[w].pc # "idle"
      BY <1>2, <1>6, AtCreate DEF FindRun
    <2>2. wk[v].job # wk[w].job
      BY <2>1 DEF Locked, HoldsLock
    <2>3. wk'[v] = wk[v]
      BY <2>1, CreateRunRow
    <2>4. RowsFor(wk[v].job, s) = {}
      BY <1>6, <2>3 DEF NoRowYet
    <2> QED BY <1>1, <1>4, <2>2, <2>3, <2>4 DEF RowsFor
  <1> QED BY <1>5, <1>6 DEF NoRowYet

LEMMA FiringOtherStep ==
  ASSUME TypeInv, [Next]_vars, NoRowYet, Unique, \A w \in Workers : ~CreateRun(w)
  PROVE  NoRowYet' /\ Unique'
  <1>1. SameRows
    BY OtherStepsKeepRows
  <1>2. Unique'
    BY <1>1 DEF Unique, SameFiring, SameRows
  <1>3. ASSUME NEW v \in Workers, NEW s \in Rules,
               wk'[v].pc = "create", IsFirst(s, wk'[v].todo)
        PROVE  RowsFor(wk[v].job, s)' = {}
    <2>1. RowsFor(wk[v].job, s) = {} /\ wk'[v].job = wk[v].job
      <3>1. CASE wk'[v] = wk[v]
        BY <1>3, <3>1 DEF NoRowYet
      <3>2. CASE FindRun(v)
        <4>1. wk'[v].todo = wk[v].todo /\ wk'[v].job = wk[v].job
          BY <1>3, <3>2, FindRunNoRow
        <4> QED BY <1>3, <3>2, <4>1, FindRunNoRow
      <3> QED BY <1>3, <3>1, <3>2, AtCreate
    <2> QED BY <1>1, <2>1 DEF RowsFor, SameRows
  <1> QED BY <1>2, <1>3 DEF NoRowYet

LEMMA NextFiringInv == TypeInv /\ FiringInv /\ [Next]_vars => FiringInv'
  <1> SUFFICES ASSUME TypeInv, FiringInv, [Next]_vars, used'["lockLoss"] = 0
               PROVE  Locked' /\ NoRowYet' /\ Unique'
    BY DEF FiringInv
  <1>1. Locked /\ NoRowYet /\ Unique
    BY LocksStayLost DEF FiringInv
  <1>2. Locked'
    BY <1>1, LocksStayLost, LockedNext
  <1> QED BY <1>1, <1>2, FiringCreateRun, FiringOtherStep

\* As long as no live worker loses its job lock, whatever crashes, retries, replays
\* and rule edits do, there is at most one JobRun row per event and rule: the
\* check-then-create of upsertForRuleMatch (jobs.service.ts:28-44) is then safe.
THEOREM OneRun == Spec => []OneRunPerFiring
  <1>1. Spec => []TypeInv
    BY InitTypeInv, NextTypeInv, PTL DEF Spec
  <1>2. FiringInv => OneRunPerFiring
    BY DEF FiringInv, OneRunPerFiring, Unique, SameFiring
  <1> QED BY <1>1, <1>2, InitFiringInv, NextFiringInv, PTL DEF Spec

=============================================================================
