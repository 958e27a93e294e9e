--------------------------- MODULE PipelineProofs ---------------------------
(***************************************************************************)
(* The composition: what was proved of the ingestion path and what was     *)
(* proved of the workers make one run per webhook and rule, from the HTTP  *)
(* request to the JobRun row, and nothing is done for a webhook that was   *)
(* not verified.                                                           *)
(***************************************************************************)
EXTENDS Pipeline, AttemptProofs

IngestFacts == INSTANCE IngestProofs WITH jobs <- Added

\* Workers, the rows they make and what they do are about jobs that were added.
JobsBehind == /\ \A w \in Workers : wk[w].job \in Events => wk[w].job \in Added
              /\ \A id \in RunIds : runs[id] # None => runs[id].event \in Added
              /\ \A x \in Places : effects[x] > 0 => x[1] \in Added

\* The composition is without replays.
NoReplays == \A q \in ReplayJobs : req[q].pc = "unused"

PipelineInv == TypeInv /\ FiringInv /\ LedgerInv /\ NoReplays /\ JobsBehind

-----------------------------------------------------------------------------
(* The steps.                                                              *)

AddStep(r) == /\ r \in Events /\ Enqueue(r)
              /\ UNCHANGED <<used, runs, req, rules, eventStatus, wk, effects>>

\* What the composition does to the worker's variables.
LEMMA PipelineSteps ==
  ASSUME [PipelineNext]_pipelineVars
  PROVE  [Next]_vars \/ \E r \in Events : AddStep(r)
  BY DEF PipelineNext, pipelineVars, handlerVars, Send, Handle, HandlerFault, AddJob, AddStep,
         AllQuiet, Next

LEMMA AddKeepsTypes ==
  ASSUME TypeInv, NEW r \in Events, AddStep(r)
  PROVE  TypeInv'
  <1>1. /\ queue' = [queue EXCEPT ![r] = Fresh("waiting")] /\ r \in JobIds
        /\ queue \in [JobIds -> JobRecord]
    BY DEF AddStep, Enqueue, JobIds, TypeInv, TypeOK, QueueTypeOK
  <1>2. QueueTypeOK'
    BY <1>1 DEF Fresh, JobRecord, JobStates, QueueTypeOK
  <1>3. \A q \in ReplayJobs : queue'[q] = queue[q]
    BY <1>1, TypesAssumption DEF JobIds
  <1>4. Control'
    BY <1>3, OutsideFrame DEF AddStep
  <1> QED BY <1>2, <1>4 DEF AddStep, TypeInv, TypeOK, JobsTypeOK, RulesTypeOK

LEMMA AddKeepsFirings ==
  ASSUME TypeInv, FiringInv, NEW r \in Events, AddStep(r)
  PROVE  FiringInv'
  <1> SUFFICES ASSUME used["lockLoss"] = 0 PROVE Locked' /\ NoRowYet' /\ Unique'
    BY DEF FiringInv, AddStep
  <1>1. \A j \in JobIds : queue'[j] = queue[j] \/ queue[j].state = "absent"
    BY DEF AddStep, Enqueue, TypeInv, TypeOK, QueueTypeOK
  <1>2. Locked'
    BY <1>1, LockedOutside DEF AddStep, FiringInv
  <1>3. NoRowYet' /\ Unique'
    BY DEF AddStep, FiringInv, NoRowYet, Unique, SameFiring, RowsFor
  <1> QED BY <1>2, <1>3

LEMMA AddKeepsLedger ==
  ASSUME LedgerInv, NEW r \in Events, AddStep(r)
  PROVE  LedgerInv'
  BY DEF AddStep, LedgerInv

LEMMA NoReplayStep ==
  ASSUME [PipelineNext]_pipelineVars
  PROVE  UNCHANGED req
  <1>1. ASSUME NEW w \in Workers, Work(w) PROVE UNCHANGED req
    BY <1>1 DEF Work, TakeJob, MarkProcessing, FindRules, RuleEvalThrows, FindRun, CreateRun,
       MarkProcessed, LoadRun, FindReplayRule, RunAction, SaveRun, SaveConflict, Finish
  <1>2. ASSUME NEW w \in Workers, Interfere(w) PROVE UNCHANGED req
    BY <1>2 DEF Interfere, DbError, Crash, LoseLock
  <1>3. ASSUME NEW j \in JobIds, Recover(j) PROVE UNCHANGED req
    BY <1>3 DEF Recover
  <1>4. UNCHANGED vars \/ (\E r \in Events : \E step : AddJob(r, step)) => UNCHANGED req
    BY DEF vars, AddJob
  <1> QED BY <1>1, <1>2, <1>3, <1>4
          DEF PipelineNext, pipelineVars, Send, Resend, Handle, HandlerFault, AllQuiet,
              Quiescent

\* Workers neither add nor remove the jobs of events.
LEMMA WorkersKeepJobs ==
  ASSUME TypeInv, [Next]_vars
  PROVE  Added' = Added
  <1> queue \in [JobIds -> JobRecord] /\ Events \subseteq JobIds
    BY DEF TypeInv, TypeOK, QueueTypeOK, JobIds
  <1>1. SUFFICES ASSUME NEW e \in Events
                 PROVE  queue'[e].state = "absent" <=> queue[e].state = "absent"
    BY DEF Added
  <1>2. ASSUME NEW j \in JobIds, NEW w \in Workers, Activate(j, w)
        PROVE  queue'[e].state = "absent" <=> queue[e].state = "absent"
    BY <1>2 DEF Activate, JobRecord
  <1>3. ASSUME NEW w \in Workers, Finish(w) \/ Crash(w) \/ LoseLock(w)
        PROVE  queue'[e].state = "absent" <=> queue[e].state = "absent"
    <2>1. wk[w].job \in JobIds
      BY <1>3 DEF Finish, Crash, LoseLock, TypeInv, Control, WorkerControl
    <2> DEFINE j == wk[w].job
    <2>2. \/ UNCHANGED queue
          \/ queue[j].state = "active" /\ (FailAttempt(j) \/ Complete(j) \/ ReleaseLock(j))
      BY <1>3 DEF Finish, Crash, LoseLock, HoldsLock
    <2> HIDE DEF j
    <2>3. j \in JobIds
      BY <2>1 DEF j
    <2>4. CASE FailAttempt(j)
      <3> DEFINE state    == IF RetriesLeft(j) THEN "waiting" ELSE "failed"
                 attempts == queue[j].attempts + 1
                 record   == [queue[j] EXCEPT !.state = state, !.attempts = attempts,
                                              !.owner = None]
      <3>1. queue' = [queue EXCEPT ![j] = record]
        BY <2>4 DEF FailAttempt
      <3> HIDE DEF attempts
      <3>2. record.state = state /\ state # "absent"
        BY <2>3 DEF JobRecord
      <3> HIDE DEF record
      <3> QED BY <2>2, <2>4, <3>1, <3>2 DEF Complete, ReleaseLock
    <2>5. CASE Complete(j)
      BY <2>2, <2>3, <2>5 DEF Complete, FailAttempt, ReleaseLock, JobRecord
    <2>6. CASE ReleaseLock(j)
      BY <2>3, <2>6 DEF ReleaseLock, JobRecord
    <2> QED BY <2>2, <2>4, <2>5, <2>6
  <1>4. ASSUME NEW j \in JobIds, Recover(j)
        PROVE  queue'[e].state = "absent" <=> queue[e].state = "absent"
    BY <1>4 DEF Recover, RecoverStalled, JobRecord
  <1>5. ASSUME NEW q \in ReplayJobs, Replay(q)
        PROVE  queue'[e] = queue[e]
    BY <1>5, TypesAssumption DEF Replay, ReplayLoad, ReplayRequest, ReplaySave, ReplayConflict,
       ReplayEnqueue, ReplayAbort, Enqueue, TypeInv, Control, RequestControl
  <1>6. ASSUME NEW w \in Workers, Work(w), ~TakeJob(w), ~Finish(w)
        PROVE  queue' = queue
    BY <1>6, WorkIsInside DEF Inside
  <1>7. ASSUME NEW w \in Workers, DbError(w) PROVE queue' = queue
    BY <1>7 DEF DbError
  <1>8. (\E r \in Rules : EditRule(r)) \/ UNCHANGED vars => queue' = queue
    BY DEF EditRule, vars
  <1>9. ASSUME NEW w \in Workers, TakeJob(w)
        PROVE  queue'[e].state = "absent" <=> queue[e].state = "absent"
    BY <1>2, <1>9 DEF TakeJob
  <1> QED BY <1>3, <1>4, <1>5, <1>6, <1>7, <1>8, <1>9 DEF Next, Interfere, Quiescent

LEMMA AddedGrows ==
  ASSUME TypeInv, NEW r \in Events, AddStep(r)
  PROVE  Added' = Added \cup {r}
  BY DEF AddStep, Enqueue, Added, Fresh, TypeInv, TypeOK, QueueTypeOK, JobIds

\* The job of a worker after a step: the one it had, one it took, or none.
LEMMA JobAfter ==
  ASSUME TypeInv, [Next]_vars, NEW v \in Workers, wk'[v].job \in Events
  PROVE  wk'[v].job = wk[v].job \/ wk'[v].job \in Added
  <1>1. ASSUME NEW w \in Workers, Work(w)
        PROVE  wk'[v].job = wk[v].job \/ wk'[v].job \in Added
    <2>1. CASE TakeJob(w)
      <3>1. PICK j \in JobIds :
              /\ Activate(j, w)
              /\ wk' = [wk EXCEPT ![w].job = j,
                                  ![w].pc = IF j \in Events THEN "started" ELSE "load"]
        BY <2>1 DEF TakeJob
      <3>2. wk'[w].job = j /\ \A u \in Workers \ {w} : wk'[u] = wk[u]
        BY <3>1 DEF TypeInv, TypeOK, WorkerRecord
      <3>3. queue[j].state # "absent"
        BY <3>1 DEF Activate
      <3> QED BY <3>2, <3>3 DEF Added
    <2>2. CASE Finish(w)
      <3>1. wk'[w] = Idle /\ \A u \in Workers \ {w} : wk'[u] = wk[u]
        BY <2>2 DEF Finish, TypeInv, TypeOK
      <3> QED BY <3>1, TypesAssumption DEF Idle
    <2>3. CASE ~TakeJob(w) /\ ~Finish(w)
      BY <1>1, <2>3, WorkIsInside DEF Inside
    <2> QED BY <2>1, <2>2, <2>3
  <1>2. ASSUME NEW w \in Workers, Interfere(w)
        PROVE  wk'[v].job = wk[v].job
    <2>1. CASE DbError(w)
      BY <2>1, ThrowIsInside DEF DbError, Inside
    <2>2. CASE Crash(w)
      <3>1. wk'[w] = Idle /\ \A u \in Workers \ {w} : wk'[u] = wk[u]
        BY <2>2 DEF Crash, TypeInv, TypeOK
      <3> QED BY <3>1, TypesAssumption DEF Idle
    <2>3. CASE LoseLock(w)
      BY <2>3 DEF LoseLock
    <2> QED BY <1>2, <2>1, <2>2, <2>3 DEF Interfere
  <1>3. (\E j \in JobIds : Recover(j)) \/ (\E r \in Rules : EditRule(r))
          \/ (\E q \in ReplayJobs : Replay(q)) \/ UNCHANGED vars => wk'[v] = wk[v]
    BY DEF Recover, EditRule, Replay, vars
  <1> QED BY <1>1, <1>2, <1>3 DEF Next, Quiescent

\* An action is taken for the event of the row that is being run.
LEMMA ActsBehind ==
  ASSUME TypeInv, LedgerInv, JobsBehind, [Next]_vars,
         NEW x \in Places, effects'[x] > 0
  PROVE  x[1] \in Added
  <1>1. CASE UNCHANGED effects
    BY <1>1 DEF JobsBehind
  <1>2. ASSUME NEW w \in Workers, RunAction(w) PROVE x[1] \in Added
    <2>1. PICK i \in DOMAIN wk[w].doc.slots :
            /\ wk[w].pc = "run"
            /\ <<wk[w].doc.event, wk[w].doc.rule, i>> \in Places
            /\ effects' = effects \/ TakeEffect(w, i)
      BY <1>2, RunActionStep
    <2> DEFINE y == <<wk[w].doc.event, wk[w].doc.rule, i>>
    <2>2. y[1] \in Added
      BY <2>1, RowType DEF LedgerInv, CopyOf, JobsBehind
    <2>3. TakeEffect(w, i) => \A z \in Places \ {y} : effects'[z] = effects[z]
      <3>1. effects \in [Places -> Nat] /\ y \in Places
        BY <2>1, EffectsType DEF Effects
      <3>2. TakeEffect(w, i) => effects' = [effects EXCEPT ![y] = effects[y] + 1]
        BY DEF TakeEffect
      <3> HIDE DEF y
      <3> QED BY <3>1, <3>2
    <2> HIDE DEF y
    <2> QED BY <1>1, <2>1, <2>2, <2>3 DEF JobsBehind
  <1> QED BY <1>1, <1>2, OnlyRunActionActs

LEMMA WorkersKeepBehind ==
  ASSUME TypeInv, LedgerInv, JobsBehind, [Next]_vars
  PROVE  JobsBehind'
  <1>1. Added' = Added
    BY WorkersKeepJobs
  <1>2. \A v \in Workers : wk'[v].job \in Events => wk'[v].job \in Added
    BY JobAfter DEF JobsBehind
  <1>3. \A id \in RunIds : runs'[id] # None => runs'[id].event \in Added
    <2>1. CASE \A w \in Workers : ~CreateRun(w)
      BY <2>1, OtherStepsKeepRows DEF SameRows, JobsBehind
    <2>2. ASSUME NEW w \in Workers, CreateRun(w)
          PROVE  \A id \in RunIds : runs'[id] # None => runs'[id].event \in Added
      <3>1. wk[w].job \in Added
        BY <2>2 DEF CreateRun, TypeInv, Control, WorkerControl, JobsBehind
      <3>2. PICK r \in Rules, id \in RunIds :
              /\ runs'[id] = NewRun(wk[w].job, r)
              /\ \A i \in RunIds \ {id} : runs'[i] = runs[i]
        BY <2>2, CreateRunRow
      <3>3. runs'[id].event = wk[w].job
        BY <3>2 DEF NewRun
      <3> QED BY <3>1, <3>2, <3>3 DEF JobsBehind
    <2> QED BY <2>1, <2>2
  <1>4. \A x \in Places : effects'[x] > 0 => x[1] \in Added
    BY ActsBehind
  <1> QED BY <1>1, <1>2, <1>3, <1>4 DEF JobsBehind

-----------------------------------------------------------------------------
(* The invariant of the composition.                                       *)

LEMMA InitPipelineInv == PipelineInit => PipelineInv
  <1> SUFFICES ASSUME PipelineInit PROVE PipelineInv
    OBVIOUS
  <1>1. used \in [Kinds -> Nat]
    BY DEF PipelineInit, Unspent
  <1>2. QueueTypeOK
    BY DEF PipelineInit, QueueTypeOK, Fresh, JobRecord, JobStates
  <1>3. JobsTypeOK
    BY DEF PipelineInit, JobsInit, JobsTypeOK, NoRequest, Request, RequestStates
  <1>4. RulesTypeOK
    BY RulesAssumption DEF PipelineInit, RulesInit, RulesTypeOK
  <1>5. eventStatus \in [Events -> IngestStatus]
    BY DEF PipelineInit, IngestStatus
  <1>6. wk \in [Workers -> WorkerRecord]
    BY IdleType DEF PipelineInit
  <1>7. effects \in [Events \X Rules \X Positions -> Nat]
    BY DEF PipelineInit, Places
  <1>8. \A w \in Workers : WorkerControl(w)
    BY TypesAssumption DEF PipelineInit, WorkerControl, Idle, NoActions
  <1>9. \A q \in ReplayJobs : RequestControl(q)
    BY DEF PipelineInit, JobsInit, NoRequest, Fresh, RequestControl, Named, JobIds
  <1>10. TypeInv
    BY <1>1, <1>2, <1>3, <1>4, <1>5, <1>6, <1>7, <1>8, <1>9 DEF TypeInv, TypeOK, Control
  <1>11. /\ \A w \in Workers : wk[w].pc = "idle" /\ wk[w].job = None
         /\ \A id \in RunIds : runs[id] = None
    BY DEF PipelineInit, JobsInit, Idle
  <1>12. FiringInv
    BY <1>11 DEF FiringInv, Locked, NoRowYet, Unique, SameFiring
  <1>13. JobsBehind
    BY <1>11, TypesAssumption DEF JobsBehind, PipelineInit
  <1>14. NoReplays
    BY DEF PipelineInit, JobsInit, NoRequest, NoReplays
  <1>15. LedgerInv
    BY <1>11, <1>14 DEF LedgerInv, NoReplays
  <1> QED BY <1>10, <1>12, <1>13, <1>14, <1>15 DEF PipelineInv

LEMMA NextPipelineInv == PipelineInv /\ [PipelineNext]_pipelineVars => PipelineInv'
  <1> SUFFICES ASSUME PipelineInv, [PipelineNext]_pipelineVars PROVE PipelineInv'
    OBVIOUS
  <1>1. NoReplays'
    BY NoReplayStep DEF NoReplays, PipelineInv
  <1>2. CASE [Next]_vars
    BY <1>1, <1>2, NextTypeInv, NextFiringInv, NextLedgerInv, WorkersKeepBehind
       DEF PipelineInv
  <1>3. ASSUME NEW r \in Events, AddStep(r) PROVE PipelineInv'
    <2>1. TypeInv' /\ FiringInv' /\ LedgerInv'
      BY <1>3, AddKeepsTypes, AddKeepsFirings, AddKeepsLedger DEF PipelineInv
    <2>2. JobsBehind'
      BY <1>3, AddedGrows DEF AddStep, JobsBehind, PipelineInv
    <2> QED BY <1>1, <2>1, <2>2 DEF PipelineInv
  <1> QED BY <1>2, <1>3, PipelineSteps

LEMMA AlwaysPipelineInv == PipelineSpec => []PipelineInv
  BY InitPipelineInv, NextPipelineInv, PTL DEF PipelineSpec

-----------------------------------------------------------------------------
(* What was proved of the workers holds here too: adding a job changes     *)
(* nothing they look at, except that there is one more to take.            *)

WorkInv == PipelineInv /\ OwnedInv /\ LoopInv /\ RepeatInv /\ ProcessedMeansEvaluated

LEMMA InitWorkInv == PipelineInit => WorkInv
  <1> SUFFICES ASSUME PipelineInit PROVE WorkInv
    OBVIOUS
  <1>1. /\ \A w \in Workers : wk[w].pc = "idle"
        /\ \A q \in ReplayJobs : req[q].run = None
        /\ \A x \in Places : effects[x] = 0
        /\ \A e \in Events : eventStatus[e] = "received"
    BY DEF PipelineInit, JobsInit, Idle, NoRequest
  <1>2. Losses = 0
    BY DEF PipelineInit, Unspent, Kinds, Losses
  <1>3. OwnedInv
    BY <1>1 DEF OwnedInv, Owned
  <1>4. LoopInv
    BY <1>1 DEF LoopInv, LoopControl, LoopPoints
  <1>5. RepeatInv
    BY <1>1, <1>2 DEF RepeatInv
  <1>6. ProcessedMeansEvaluated
    BY <1>1 DEF ProcessedMeansEvaluated
  <1> QED BY <1>3, <1>4, <1>5, <1>6, InitPipelineInv DEF WorkInv

LEMMA AddKeepsWork ==
  ASSUME WorkInv, NEW r \in Events, AddStep(r)
  PROVE  OwnedInv' /\ LoopInv' /\ RepeatInv' /\ ProcessedMeansEvaluated'
  <1> USE DEF AddStep, WorkInv
  <1>1. OwnedInv'
    BY DEF OwnedInv, Owned, Shared
  <1>2. LoopInv'
    <2>1. ASSUME NEW w \in Workers, LoopControl(w) PROVE LoopControl(w)'
      <3>1. /\ Finished(w)' = Finished(w)
            /\ FindMatchingTriggers(wk[w].job)' = FindMatchingTriggers(wk[w].job)
        BY DEF Finished, ReadingOf, FindMatchingTriggers
      <3>2. \A s : /\ HasActions(w, s)' <=> HasActions(w, s)
                   /\ RowsFor(wk[w].job, s)' = RowsFor(wk[w].job, s)
        BY DEF HasActions, RowsFor
      <3>3. \A id : Done(id)' <=> Done(id)
        BY DEF Done
      <3> QED BY <2>1, <3>1, <3>2, <3>3 DEF LoopControl
    <2> QED BY <2>1 DEF LoopInv
  <1>3. RepeatInv'
    BY DEF RepeatInv, Alone, Losses, Known, Recorded, RowsFor
  <1>4. ProcessedMeansEvaluated'
    BY DEF ProcessedMeansEvaluated, RowsFor, FindMatchingTriggers
  <1> QED BY <1>1, <1>2, <1>3, <1>4

LEMMA NextWorkInv == WorkInv /\ [PipelineNext]_pipelineVars => WorkInv'
  <1> SUFFICES ASSUME WorkInv, [PipelineNext]_pipelineVars PROVE WorkInv'
    OBVIOUS
  <1>1. PipelineInv'
    BY NextPipelineInv DEF WorkInv
  <1>2. CASE [Next]_vars
    BY <1>1, <1>2, NextOwnedInv, NextLoopInv, NextRepeatInv, NextProcessed
       DEF WorkInv, PipelineInv
  <1>3. ASSUME NEW r \in Events, AddStep(r) PROVE WorkInv'
    BY <1>1, <1>3, AddKeepsWork DEF WorkInv
  <1> QED BY <1>2, <1>3, PipelineSteps

LEMMA AlwaysWorkInv == PipelineSpec => []WorkInv
  BY InitWorkInv, NextWorkInv, PTL DEF PipelineSpec

-----------------------------------------------------------------------------
(* The ingestion path within the composition.                              *)

LEMMA PipelineStarts == PipelineInit => Ingest!Init
  BY PipelineAssumption DEF PipelineInit, Ingest!Init, Added, Fresh, JobIds

LEMMA PipelineStepsMap ==
  PipelineInv /\ [PipelineNext]_pipelineVars => [Ingest!Next]_(Ingest!vars)
  <1> SUFFICES ASSUME PipelineInv, [PipelineNext]_pipelineVars
               PROVE  [Ingest!Next]_(Ingest!vars)
    OBVIOUS
  <1>1. CASE Ingest!Next
    BY <1>1
  <1>2. CASE UNCHANGED handlerVars /\ [Next]_vars
    BY <1>2, WorkersKeepJobs DEF handlerVars, Ingest!vars, PipelineInv
  <1> QED BY <1>1, <1>2, PipelineAssumption
          DEF PipelineNext, pipelineVars, Send, Handle, HandlerFault, AddJob, AllQuiet, Next,
              Ingest!Next, Ingest!Handle

\* The composition is an ingestion path: the workers, who take and settle jobs, never
\* make one of an event appear or vanish.
THEOREM PipelineIngests == PipelineSpec => ImplementsIngest
  <1>1. PipelineSpec => Ingest!Spec
    BY PipelineStarts, PipelineStepsMap, AlwaysPipelineInv, PTL DEF PipelineSpec, Ingest!Spec
  <1> QED BY <1>1 DEF ImplementsIngest

\* IngestProofs speaks of the same specification.
LEMMA SameStart == Ingest!Init <=> IngestFacts!Init
  BY DEF Ingest!Init, IngestFacts!Init, Ingest!Requests, IngestFacts!Requests

LEMMA SameSteps == [Ingest!Next]_(Ingest!vars) <=> [IngestFacts!Next]_(IngestFacts!vars)
  BY DEF Ingest!Next, IngestFacts!Next, Ingest!vars, IngestFacts!vars,
         Ingest!Send, IngestFacts!Send, Ingest!Handle, IngestFacts!Handle,
         Ingest!Admit, IngestFacts!Admit, Ingest!Insert, IngestFacts!Insert,
         Ingest!Enqueue, IngestFacts!Enqueue, Ingest!LostAnswer, IngestFacts!LostAnswer,
         Ingest!Fault, IngestFacts!Fault, Ingest!Quiescent, IngestFacts!Quiescent,
         Ingest!Goto, IngestFacts!Goto, Ingest!Sent, IngestFacts!Sent,
         Ingest!Verdict, IngestFacts!Verdict, Ingest!Of, IngestFacts!Of,
         Ingest!VerifySignature, IngestFacts!VerifySignature,
         Ingest!Indexed, IngestFacts!Indexed, Ingest!IndexKey, IngestFacts!IndexKey,
         Ingest!DedupeKey, IngestFacts!DedupeKey, Ingest!Running, IngestFacts!Running,
         Ingest!Requests, IngestFacts!Requests

LEMMA SameClaims ==
  /\ Ingest!OneJobPerDelivery <=> IngestFacts!OneJobPerDelivery
  /\ Ingest!OnlyVerifiedStored <=> IngestFacts!OnlyVerifiedStored
  BY DEF Ingest!OneJobPerDelivery, IngestFacts!OneJobPerDelivery, Ingest!Same,
         IngestFacts!Same, Ingest!Of, IngestFacts!Of,
         Ingest!OnlyVerifiedStored, IngestFacts!OnlyVerifiedStored

LEMMA SameConstants == IngestFacts!IngestConstants
  BY PipelineAssumption
     DEF Ingest!IngestConstants, IngestFacts!IngestConstants, Ingest!WebhookFields,
         IngestFacts!WebhookFields

\* What was proved of the ingestion path holds of the composition.
LEMMA IngestHolds ==
  PipelineSpec => [](/\ Ingest!OneJobPerDelivery
                     /\ Ingest!OnlyVerifiedStored
                     /\ Added \subseteq events)
  <1>1. PipelineSpec => Ingest!Spec
    BY PipelineIngests DEF ImplementsIngest
  <1>2. Ingest!Spec => IngestFacts!Spec
    BY SameStart, SameSteps, PTL DEF Ingest!Spec, IngestFacts!Spec
  <1>3. IngestFacts!Spec => []IngestFacts!OneJobPerDelivery
    BY SameConstants, IngestFacts!OneJobEach
  <1>4. IngestFacts!Spec => []IngestFacts!OnlyVerifiedStored
    BY SameConstants, IngestFacts!StoredIsVerified
  <1>5. IngestFacts!Spec => []IngestFacts!IngestTypeOK
    BY SameConstants, IngestFacts!IngestTypeCorrect
  <1>6. IngestFacts!IngestTypeOK => Added \subseteq events
    BY DEF IngestFacts!IngestTypeOK
  <1> QED BY <1>1, <1>2, <1>3, <1>4, <1>5, <1>6, SameClaims, PTL

\* One row per webhook and rule, however often the webhook is sent and whatever fails,
\* unless a live worker loses its lock: the unique index lets one event through, its id
\* one job, and the lock of that job one worker at a time.
THEOREM OneRunEach == PipelineSpec => []OneRunPerWebhook
  <1>1. PipelineInv /\ Ingest!OneJobPerDelivery => OneRunPerWebhook
    BY DEF PipelineInv, FiringInv, Unique, SameFiring, JobsBehind, Ingest!OneJobPerDelivery,
           OneRunPerWebhook
  <1> QED BY <1>1, IngestHolds, AlwaysPipelineInv, PTL

\* No worker takes up, and no action takes effect for, a webhook that was not verified:
\* the checks come before the insert, and rows and effects are about jobs that were
\* added for what was inserted (webhooks.controller.ts:52-88, send-sample-webhooks.js:68).
THEOREM OnlyVerifiedRuns == PipelineSpec => []OnlyVerifiedRun
  <1>1. ASSUME PipelineInv, Ingest!OnlyVerifiedStored, Added \subseteq events
        PROVE  OnlyVerifiedRun
    <2>1. \A e \in Added : Verified(e)
      BY <1>1 DEF Ingest!OnlyVerifiedStored, Verified
    <2>2. ASSUME NEW w \in Workers, wk[w].job # None PROVE wk[w].job \in Added
      <3>1. wk[w].job \in JobIds
        BY <1>1, <2>2 DEF PipelineInv, TypeInv, TypeOK, WorkerRecord
      <3>2. wk[w].job \notin ReplayJobs
        BY <1>1 DEF PipelineInv, NoReplays, TypeInv, Control, WorkerControl, Past
      <3> QED BY <1>1, <3>1, <3>2 DEF JobIds, PipelineInv, JobsBehind
    <2> QED BY <1>1, <2>1, <2>2 DEF OnlyVerifiedRun, PipelineInv, JobsBehind
  <1> QED BY <1>1, IngestHolds, AlwaysPipelineInv, PTL

\* What a webhook asks for is done once, except for faults at the workers: the places
\* where actions took effect for it are those of one event, because only one of its
\* attempts got a job, and at each the count of RepeatInv holds.
THEOREM ActsOnceEach == PipelineSpec => []ActsOncePerWebhook
  <1>1. ASSUME WorkInv, Ingest!OneJobPerDelivery
        PROVE  ActsOncePerWebhook
    <2> SUFFICES ASSUME used["lockLoss"] = 0, NEW x \in Places, NEW y \in Places,
                        effects[x] > 0, effects[y] > 0,
                        Ingest!Same(Ingest!Of(x[1]), Ingest!Of(y[1])),
                        x[2] = y[2], x[3] = y[3]
                 PROVE  /\ x = y
                        /\ effects[x] <= 1 + used["crash"] + used["dbError"] + used["lostReply"]
      BY DEF ActsOncePerWebhook
    <2>1. x[1] \in Added /\ y[1] \in Added
      BY <1>1 DEF WorkInv, PipelineInv, JobsBehind
    <2>2. x[1] = y[1]
      BY <1>1, <2>1 DEF Ingest!OneJobPerDelivery
    <2>3. x = y
      <3>1. x = <<x[1], x[2], x[3]>> /\ y = <<y[1], y[2], y[3]>>
        BY DEF Places
      <3> QED BY <2>2, <3>1
    <2>4. effects[x] <= Losses + 1
      BY <1>1 DEF WorkInv, PipelineInv, NoReplays, RepeatInv, Alone
    <2>5. /\ effects[x] \in Nat /\ used["crash"] \in Nat /\ used["dbError"] \in Nat
          /\ used["lostReply"] \in Nat
      BY <1>1, EffectsType DEF Effects, WorkInv, PipelineInv, TypeInv, TypeOK, Kinds
    <2> QED BY <2>3, <2>4, <2>5 DEF Losses
  <1> QED BY <1>1, IngestHolds, AlwaysWorkInv, PTL

\* What the workers promise, with webhooks arriving while they work: no success is on
\* record that did not happen, a job that completes left no matching rule behind, and
\* an event is PROCESSED only after each of them has a row.
THEOREM WorkersKeepPromises ==
  PipelineSpec => [](SuccessIsReal /\ CleanFinish /\ ProcessedMeansEvaluated)
  <1>1. WorkInv => SuccessIsReal /\ CleanFinish /\ ProcessedMeansEvaluated
    BY LoopIsClean DEF WorkInv, PipelineInv, LedgerInv, Backed, SuccessIsReal
  <1> QED BY <1>1, AlwaysWorkInv, PTL

LEMMA PipelineLedgerStart == PipelineInit => Ledger!Init
  <1> SUFFICES ASSUME PipelineInit PROVE Ledger!Init
    OBVIOUS
  <1>1. /\ \A id \in RunIds : runs[id] = None
        /\ \A q \in ReplayJobs : req[q].run = None
        /\ used["lockLoss"] = 0
        /\ effects = [x \in Places |-> 0]
    BY DEF PipelineInit, JobsInit, NoRequest, Unspent, Kinds
  <1>2. Recorded = {} /\ Contested = {}
    BY <1>1, TypesAssumption DEF Recorded, Contested, RowsFor
  <1> QED BY <1>1, <1>2 DEF Ledger!Init

\* The composition implements the ledger as well: from the arrival of webhooks to the
\* effects of actions, a success on record is repeated only where a lock was lost,
\* since nobody replays (webhook.processor.ts:192-215).
THEOREM PipelineLedger == PipelineSpec => KeepsLedger
  <1>1. ASSUME WorkInv, WorkInv', [PipelineNext]_pipelineVars
        PROVE  [Ledger!Next]_(Ledger!ledger)
    <2>1. CASE [Next]_vars
      BY <1>1, <2>1, LedgerStep DEF WorkInv, PipelineInv
    <2>2. ASSUME NEW r \in Events, AddStep(r) PROVE UNCHANGED Ledger!ledger
      BY <2>2 DEF AddStep, Ledger!ledger, Recorded, Contested, RowsFor
    <2> QED BY <1>1, <2>1, <2>2, PipelineSteps
  <1> QED BY <1>1, PipelineLedgerStart, AlwaysWorkInv, PTL
          DEF PipelineSpec, KeepsLedger, Ledger!Spec

=============================================================================
