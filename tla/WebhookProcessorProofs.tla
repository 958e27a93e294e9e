----------------------- MODULE WebhookProcessorProofs -----------------------
(***************************************************************************)
(* Theorems about WebhookProcessor, for every number of events, replays,   *)
(* rules, rows and workers and every bound on the interference.            *)
(***************************************************************************)
EXTENDS WebhookProcessor, TLAPS

-----------------------------------------------------------------------------
(* The helpers on arrays stay within their types.                          *)

LEMMA NoActionsType == NoActions \in SlotArrays /\ NoActions \in ActionArrays
  <1>1. {} \in ArrayShapes
    BY DEF ArrayShapes
  <1>2. NoActions \in [{} -> Slot] /\ NoActions \in [{} -> Action]
    BY DEF NoActions
  <1> QED BY <1>1, <1>2 DEF SlotArrays, ActionArrays

LEMMA WithOutcomeType ==
  ASSUME NEW doc \in RunDoc, NEW i \in DOMAIN doc.slots, NEW status \in ActionStatus
  PROVE  WithOutcome(doc, i, status) \in RunDoc
  <1>1. PICK d \in ArrayShapes : doc.slots \in [d -> Slot]
    BY DEF RunDoc, SlotArrays
  <1>2. [doc.slots EXCEPT ![i].status = status] \in [d -> Slot]
    BY <1>1 DEF Slot
  <1>3. [doc.slots EXCEPT ![i].status = status] \in SlotArrays
    BY <1>1, <1>2 DEF SlotArrays
  <1> QED BY <1>3 DEF WithOutcome, RunDoc

LEMMA ResetType ==
  ASSUME NEW slots \in SlotArrays
  PROVE  Reset(slots) \in SlotArrays
  <1>1. PICK d \in ArrayShapes : slots \in [d -> Slot]
    BY DEF SlotArrays
  <1>2. \A i \in d : ResetSlot(slots[i]) \in Slot
    BY <1>1 DEF ResetSlot, Slot, ActionStatus
  <1>3. Reset(slots) \in [d -> Slot]
    BY <1>1, <1>2 DEF Reset
  <1> QED BY <1>1, <1>3 DEF SlotArrays

LEMMA ActionListsAreArrays == ActionLists \subseteq ActionArrays
  <1> SUFFICES ASSUME NEW a \in ActionLists PROVE a \in ActionArrays
    OBVIOUS
  <1>1. DOMAIN a \in ArrayShapes /\ a \in [DOMAIN a -> Action]
    BY TypesAssumption DEF ArrayShapes
  <1> QED BY <1>1 DEF ActionArrays

LEMMA ResumeType ==
  ASSUME NEW doc \in RunDoc, NEW acts \in ActionArrays
  PROVE  [doc EXCEPT !.slots = Slots(doc, acts)] \in RunDoc
  <1>1. PICK d \in ArrayShapes : acts \in [d -> Action]
    BY DEF ActionArrays
  <1>2. [i \in DOMAIN acts |-> [type |-> acts[i].type, status |-> "pending"]]
          \in [d -> Slot]
    BY <1>1 DEF Action, Slot, ActionStatus
  <1>3. Slots(doc, acts) \in SlotArrays
    BY <1>1, <1>2 DEF Slots, SlotArrays, RunDoc
  <1> QED BY <1>3 DEF RunDoc

LEMMA RecordedActionsType ==
  ASSUME NEW slots \in SlotArrays
  PROVE  RecordedActions(slots) \in ActionArrays
  <1>1. PICK d \in ArrayShapes : slots \in [d -> Slot]
    BY DEF SlotArrays
  <1>2. RecordedActions(slots) \in [d -> Action]
    BY <1>1 DEF RecordedActions, Slot, Action
  <1> QED BY <1>1, <1>2 DEF ActionArrays

LEMMA SlotIndexType ==
  ASSUME NEW doc \in RunDoc, NEW i \in DOMAIN doc.slots
  PROVE  i \in Nat /\ i \in Positions
  <1>1. PICK d \in ArrayShapes : doc.slots \in [d -> Slot]
    BY DEF RunDoc, SlotArrays
  <1>2. i \in d
    BY <1>1
  <1> QED BY <1>1, <1>2, TypesAssumption DEF ArrayShapes, Positions

LEMMA FinalStatusType ==
  ASSUME NEW slots
  PROVE  FinalStatus(slots) \in JobStatus
  BY DEF FinalStatus, JobStatus

-----------------------------------------------------------------------------
(* Type correctness. TypeOK is not inductive: that a worker at "run" holds *)
(* a row, or that a replay job has a request behind it, depends on where   *)
(* the worker and the request are in their code.                           *)

RowOf(w) == wk[w].run \in RunIds /\ runs[wk[w].run] # None /\ wk[w].doc # None

\* The request has left its first two calls behind: its job may be there.
Past(q) == req[q].pc \notin {"unused", "loaded"}

WorkerControl(w) ==
  /\ wk[w].pc # "idle" => wk[w].job \in JobIds
  /\ wk[w].pc \in {"started", "rules", "loop", "create"} => wk[w].job \in Events
  /\ wk[w].pc \in {"load", "replayRules"} => wk[w].job \in ReplayJobs
  /\ wk[w].job \in ReplayJobs => Past(wk[w].job)
  /\ wk[w].pc \in {"run", "replayRules"} => RowOf(w)
  /\ wk[w].todo \subseteq DOMAIN wk[w].snap

RequestControl(q) ==
  /\ req[q].pc # "unused" => req[q].run \in RunIds /\ runs[req[q].run] # None
  /\ req[q].pc = "loaded" => req[q].doc # None
  /\ Named(q) => /\ req[q].as \in ReplayJobs /\ Past(req[q].as)
                 /\ req[req[q].as].run = req[q].run
  /\ queue[q].state # "absent" => Past(q)

Control == /\ \A w \in Workers : WorkerControl(w)
           /\ \A q \in ReplayJobs : RequestControl(q)

TypeInv == TypeOK /\ Control

LEMMA RuleSetType ==
  ASSUME NEW S \in SUBSET Rules, NEW f \in [S -> RuleDoc]
  PROVE  f \in RuleSets
  BY DEF RuleSets

LEMMA IdleType == Idle \in WorkerRecord
  <1>1. NoActions \in [{} -> RuleDoc]
    BY DEF NoActions
  <1>2. NoActions \in RuleSets
    BY <1>1, RuleSetType
  <1> QED BY <1>2, NoActionsType DEF Idle, WorkerRecord, WorkerPoints

LEMMA InitTypeInv == Init => TypeInv
  <1> SUFFICES ASSUME Init PROVE TypeInv
    OBVIOUS
  <1>1. used \in [Kinds -> Nat]
    BY DEF Init, Unspent
  <1>2. QueueTypeOK
    BY DEF Init, QueueInit, QueueTypeOK, Fresh, JobRecord, JobStates
  <1>3. JobsTypeOK
    BY DEF Init, JobsInit, JobsTypeOK, NoRequest, Request, RequestStates
  <1>4. RulesTypeOK
    BY RulesAssumption DEF Init, RulesInit, RulesTypeOK
  <1>5. eventStatus \in [Events -> IngestStatus]
    BY DEF Init, IngestStatus
  <1>6. wk \in [Workers -> WorkerRecord]
    BY IdleType DEF Init
  <1>7. effects \in [Events \X Rules \X Positions -> Nat]
    BY DEF Init
  <1>8. ASSUME NEW w \in Workers PROVE WorkerControl(w)
    BY TypesAssumption DEF Init, WorkerControl, Idle, NoActions
  <1>9. ASSUME NEW q \in ReplayJobs PROVE RequestControl(q)
    BY TypesAssumption DEF Init, QueueInit, JobsInit, NoRequest, Fresh, RequestControl, JobIds,
                           Named
  <1> QED BY <1>1, <1>2, <1>3, <1>4, <1>5, <1>6, <1>7, <1>8, <1>9
          DEF TypeInv, TypeOK, Control

\* What a step of worker w leaves alone of Control.
LEMMA WorkerFrame ==
  ASSUME TypeInv, NEW w \in Workers, NEW record \in WorkerRecord,
         wk' = [wk EXCEPT ![w] = record], WorkerControl(w)',
         UNCHANGED req,
         \A id \in RunIds : runs[id] # None => runs'[id] # None,
         \A q \in ReplayJobs : queue'[q].state # "absent" => queue[q].state # "absent"
  PROVE  Control' /\ wk' \in [Workers -> WorkerRecord]
  <1>1. wk' \in [Workers -> WorkerRecord]
    BY DEF TypeInv, TypeOK
  <1>2. ASSUME NEW v \in Workers PROVE WorkerControl(v)'
    <2>1. CASE v = w
      BY <2>1
    <2>2. CASE v # w
      <3>1. wk'[v] = wk[v]
        BY <2>2 DEF TypeInv, TypeOK
      <3>2. WorkerControl(v)
        BY DEF TypeInv, Control
      <3> QED BY <3>1, <3>2 DEF WorkerControl, RowOf, Past
    <2> QED BY <2>1, <2>2
  <1>3. ASSUME NEW q \in ReplayJobs PROVE RequestControl(q)'
    BY DEF TypeInv, Control, RequestControl, Named, Past
  <1> QED BY <1>1, <1>2, <1>3 DEF Control

LEMMA MarkProcessingInv ==
  ASSUME TypeInv, NEW w \in Workers, MarkProcessing(w)
  PROVE  TypeInv'
  <1> DEFINE record == [wk[w] EXCEPT !.pc = "rules"]
  <1> wk[w] \in WorkerRecord /\ WorkerControl(w)
    BY DEF TypeInv, TypeOK, Control
  <1>1. record \in WorkerRecord
    BY DEF WorkerRecord, WorkerPoints
  <1>2. wk' = [wk EXCEPT ![w] = record]
    BY DEF MarkProcessing
  <1>3. WorkerControl(w)'
    BY <1>2 DEF MarkProcessing, WorkerControl, WorkerRecord, TypeInv, TypeOK, Past
  <1>4. Control' /\ wk' \in [Workers -> WorkerRecord]
    BY <1>1, <1>2, <1>3, WorkerFrame DEF MarkProcessing
  <1>5. eventStatus' \in [Events -> IngestStatus]
    BY DEF MarkProcessing, TypeInv, TypeOK, IngestStatus, WorkerControl
  <1> QED BY <1>4, <1>5 DEF MarkProcessing, TypeInv, TypeOK, QueueTypeOK, JobsTypeOK,
                            RulesTypeOK

LEMMA MarkProcessedInv ==
  ASSUME TypeInv, NEW w \in Workers, MarkProcessed(w)
  PROVE  TypeInv'
  <1> DEFINE record == [wk[w] EXCEPT !.pc = "finish"]
  <1> wk[w] \in WorkerRecord /\ WorkerControl(w)
    BY DEF TypeInv, TypeOK, Control
  <1>1. record \in WorkerRecord
    BY DEF WorkerRecord, WorkerPoints
  <1>2. wk' = [wk EXCEPT ![w] = record]
    BY DEF MarkProcessed
  <1>3. WorkerControl(w)'
    BY <1>2 DEF MarkProcessed, WorkerControl, WorkerRecord, TypeInv, TypeOK, Past
  <1>4. Control' /\ wk' \in [Workers -> WorkerRecord]
    BY <1>1, <1>2, <1>3, WorkerFrame DEF MarkProcessed
  <1>5. eventStatus' \in [Events -> IngestStatus]
    BY DEF MarkProcessed, TypeInv, TypeOK, IngestStatus, WorkerControl
  <1> QED BY <1>4, <1>5 DEF MarkProcessed, TypeInv, TypeOK, QueueTypeOK, JobsTypeOK,
                            RulesTypeOK

LEMMA TakeJobInv ==
  ASSUME TypeInv, NEW w \in Workers, TakeJob(w)
  PROVE  TypeInv'
  <1>1. PICK j \in JobIds :
          /\ Activate(j, w)
          /\ wk' = [wk EXCEPT ![w].job = j,
                              ![w].pc = IF j \in Events THEN "started" ELSE "load"]
    BY DEF TakeJob
  <1> DEFINE record == [wk[w] EXCEPT !.job = j,
                                     !.pc = IF j \in Events THEN "started" ELSE "load"]
  <1> wk[w] \in WorkerRecord /\ WorkerControl(w) /\ queue[j] \in JobRecord
    BY DEF TypeInv, TypeOK, Control, QueueTypeOK
  <1>2. record \in WorkerRecord
    BY DEF WorkerRecord, WorkerPoints
  <1>3. wk' = [wk EXCEPT ![w] = record]
    BY <1>1
  <1>4. QueueTypeOK'
    BY <1>1 DEF Activate, TypeInv, TypeOK, QueueTypeOK, JobRecord, JobStates
  <1>5. j \in ReplayJobs => Past(j)
    BY <1>1 DEF Activate, TypeInv, Control, RequestControl
  <1>6. WorkerControl(w)'
    BY <1>1, <1>3, <1>5 DEF TakeJob, WorkerControl, WorkerRecord, TypeInv, TypeOK, JobIds,
                            Past
  <1>7. \A q \in ReplayJobs : queue'[q].state # "absent" => queue[q].state # "absent"
    BY <1>1 DEF Activate, TypeInv, TypeOK, QueueTypeOK, JobIds
  <1>8. Control' /\ wk' \in [Workers -> WorkerRecord]
    BY <1>2, <1>3, <1>6, <1>7, WorkerFrame DEF TakeJob
  <1> QED BY <1>4, <1>8 DEF TakeJob, TypeInv, TypeOK, JobsTypeOK, RulesTypeOK

LEMMA FindRulesInv ==
  ASSUME TypeInv, NEW w \in Workers, FindRules(w)
  PROVE  TypeInv'
  <1> DEFINE found == FindMatchingTriggers(wk[w].job)
             snap   == [r \in found |-> rules[r]]
             todo   == {r \in found : rules[r].reading[wk[w].job] # "skip"}
             record == [wk[w] EXCEPT !.pc = "loop", !.snap = snap, !.todo = todo]
  <1> wk[w] \in WorkerRecord /\ WorkerControl(w) /\ rules \in [Rules -> RuleDoc]
    BY DEF TypeInv, TypeOK, Control, RulesTypeOK
  <1>1. found \in SUBSET Rules /\ todo \subseteq found
    BY DEF FindMatchingTriggers
  <1>2. snap \in [found -> RuleDoc]
    BY <1>1
  <1>3. snap \in RuleSets /\ DOMAIN snap = found /\ todo \in SUBSET Rules
    BY <1>1, <1>2, RuleSetType
  <1> HIDE DEF found, snap, todo
  <1>4. record \in WorkerRecord
    BY <1>3 DEF WorkerRecord, WorkerPoints
  <1>5. wk' = [wk EXCEPT ![w] = record]
    BY DEF FindRules, found, snap, todo
  <1>6. /\ wk'[w].todo \subseteq DOMAIN wk'[w].snap
        /\ wk'[w].pc = "loop" /\ wk'[w].job = wk[w].job
    BY <1>1, <1>3, <1>5 DEF TypeInv, TypeOK, WorkerRecord
  <1>7. WorkerControl(w)'
    BY <1>6 DEF FindRules, WorkerControl, Past
  <1>8. Control' /\ wk' \in [Workers -> WorkerRecord]
    BY <1>4, <1>5, <1>7, WorkerFrame DEF FindRules
  <1> QED BY <1>8 DEF FindRules, TypeInv, TypeOK, QueueTypeOK, JobsTypeOK, RulesTypeOK

LEMMA ThrowInv ==
  ASSUME TypeInv, NEW w \in Workers, wk[w].pc # "idle", Throw(w),
         used' \in [Kinds -> Nat],
         UNCHANGED <<queue, runs, req, rules, eventStatus, effects>>
  PROVE  TypeInv'
  <1> DEFINE record == [Idle EXCEPT !.pc = "finish", !.job = wk[w].job, !.failed = TRUE]
  <1> wk[w] \in WorkerRecord /\ WorkerControl(w)
    BY DEF TypeInv, TypeOK, Control
  <1>1. record \in WorkerRecord
    BY IdleType DEF WorkerRecord, WorkerPoints
  <1>2. wk' = [wk EXCEPT ![w] = record]
    BY DEF Throw
  <1>3. wk'[w] = record
    BY <1>2 DEF TypeInv, TypeOK
  <1>4. WorkerControl(w)'
    BY <1>3 DEF WorkerControl, Idle, Past
  <1>5. Control' /\ wk' \in [Workers -> WorkerRecord]
    BY <1>1, <1>2, <1>4, WorkerFrame
  <1> QED BY <1>5 DEF TypeInv, TypeOK, QueueTypeOK, JobsTypeOK, RulesTypeOK

LEMMA RuleEvalThrowsInv ==
  ASSUME TypeInv, NEW w \in Workers, RuleEvalThrows(w)
  PROVE  TypeInv'
  BY ThrowInv DEF RuleEvalThrows, TypeInv, TypeOK

LEMMA SaveConflictInv ==
  ASSUME TypeInv, NEW w \in Workers, SaveConflict(w)
  PROVE  TypeInv'
  BY ThrowInv DEF SaveConflict, TypeInv, TypeOK

LEMMA SpendType ==
  ASSUME used \in [Kinds -> Nat], NEW k \in Kinds, Spend(k)
  PROVE  used' \in [Kinds -> Nat]
  BY DEF Spend

LEMMA DbErrorInv ==
  ASSUME TypeInv, NEW w \in Workers, DbError(w)
  PROVE  TypeInv'
  <1>1. used' \in [Kinds -> Nat]
    BY SpendType DEF DbError, Kinds, TypeInv, TypeOK
  <1> QED BY <1>1, ThrowInv DEF DbError

\* Resume puts a worker that has a job at the start of runActionsForJobRun.
LEMMA ResumeFrame ==
  ASSUME TypeInv, NEW w \in Workers, wk[w].job \in JobIds,
         NEW id \in RunIds, NEW doc \in RunDoc, NEW acts \in ActionArrays,
         Resume(w, id, doc, acts), UNCHANGED <<req, queue>>,
         \A i \in RunIds : runs[i] # None => runs'[i] # None,
         runs'[id] # None
  PROVE  Control' /\ wk' \in [Workers -> WorkerRecord]
  <1> DEFINE d == [doc EXCEPT !.slots = Slots(doc, acts)]
             record == [wk[w] EXCEPT !.pc = "run", !.run = id, !.doc = d,
                                     !.acts = acts, !.at = 0]
  <1> wk[w] \in WorkerRecord /\ WorkerControl(w)
    BY DEF TypeInv, TypeOK, Control
  <1>1. d \in RunDoc /\ d # None
    BY ResumeType, TypesAssumption
  <1>2. wk' = [wk EXCEPT ![w] = record]
    BY DEF Resume
  <1> HIDE DEF d
  <1>3. record \in WorkerRecord
    BY <1>1 DEF WorkerRecord, WorkerPoints
  <1>4. wk'[w] = record
    BY <1>2 DEF TypeInv, TypeOK
  <1>5. WorkerControl(w)'
    BY <1>1, <1>4 DEF WorkerControl, RowOf, WorkerRecord, Past
  <1> QED BY <1>2, <1>3, <1>5, WorkerFrame

LEMMA SnapActionsType ==
  ASSUME TypeInv, NEW w \in Workers, NEW r \in wk[w].todo
  PROVE  wk[w].snap[r].actions \in ActionArrays
  <1>1. wk[w].snap \in RuleSets /\ r \in DOMAIN wk[w].snap
    BY DEF TypeInv, TypeOK, WorkerRecord, Control, WorkerControl
  <1>2. wk[w].snap[r] \in RuleDoc
    BY <1>1 DEF RuleSets
  <1> QED BY <1>2, ActionListsAreArrays DEF RuleDoc

LEMMA FindRunInv ==
  ASSUME TypeInv, NEW w \in Workers, FindRun(w)
  PROVE  TypeInv'
  <1> wk[w] \in WorkerRecord /\ WorkerControl(w)
    BY DEF TypeInv, TypeOK, Control
  <1>1. PICK r \in Rules :
          /\ Current(w, r)
          /\ \/ \E id \in RowsFor(wk[w].job, r) :
                  Resume(w, id, runs[id], wk[w].snap[r].actions)
             \/ wk' = [wk EXCEPT ![w].pc = "create"]
    BY DEF FindRun
  <1>2. CASE \E id \in RowsFor(wk[w].job, r) :
               Resume(w, id, runs[id], wk[w].snap[r].actions)
    <2>1. PICK id \in RowsFor(wk[w].job, r) :
            Resume(w, id, runs[id], wk[w].snap[r].actions)
      BY <1>2
    <2>2. id \in RunIds /\ runs[id] \in RunDoc /\ runs[id] # None
      BY DEF RowsFor, TypeInv, TypeOK, JobsTypeOK
    <2>3. wk[w].snap[r].actions \in ActionArrays
      BY <1>1, SnapActionsType DEF Current, IsFirst
    <2>4. wk[w].job \in JobIds
      BY DEF FindRun, WorkerControl, JobIds
    <2> QED BY <2>1, <2>2, <2>3, <2>4, ResumeFrame DEF FindRun, TypeInv, TypeOK, QueueTypeOK,
                                                      JobsTypeOK, RulesTypeOK
  <1>3. CASE wk' = [wk EXCEPT ![w].pc = "create"]
    <2> DEFINE record == [wk[w] EXCEPT !.pc = "create"]
    <2>1. record \in WorkerRecord /\ wk' = [wk EXCEPT ![w] = record]
      BY <1>3 DEF WorkerRecord, WorkerPoints
    <2>2. WorkerControl(w)'
      BY <2>1 DEF FindRun, WorkerControl, WorkerRecord, TypeInv, TypeOK, Past
    <2>3. Control' /\ wk' \in [Workers -> WorkerRecord]
      BY <2>1, <2>2, WorkerFrame DEF FindRun
    <2> QED BY <2>3 DEF FindRun, TypeInv, TypeOK, QueueTypeOK, JobsTypeOK, RulesTypeOK
  <1> QED BY <1>1, <1>2, <1>3

LEMMA NewRunType ==
  ASSUME NEW e \in Events, NEW r \in Rules
  PROVE  NewRun(e, r) \in RunDoc
  BY NoActionsType DEF NewRun, RunDoc, JobStatus

LEMMA CreateRunInv ==
  ASSUME TypeInv, NEW w \in Workers, CreateRun(w)
  PROVE  TypeInv'
  <1> wk[w] \in WorkerRecord /\ WorkerControl(w)
    BY DEF TypeInv, TypeOK, Control
  <1>1. PICK r \in Rules, id \in RunIds :
          /\ Current(w, r)
          /\ InsertRun(id, wk[w].job, r)
          /\ Resume(w, id, NewRun(wk[w].job, r), wk[w].snap[r].actions)
    BY DEF CreateRun
  <1>2. wk[w].job \in Events /\ wk[w].job \in JobIds
    BY DEF CreateRun, WorkerControl, JobIds
  <1>3. NewRun(wk[w].job, r) \in RunDoc /\ NewRun(wk[w].job, r) # None
    BY <1>2, NewRunType, TypesAssumption
  <1>4. /\ JobsTypeOK'
        /\ \A i \in RunIds : runs[i] # None => runs'[i] # None
        /\ runs'[id] # None
    BY <1>1, <1>3 DEF InsertRun, CreateRun, TypeInv, TypeOK, JobsTypeOK
  <1>5. wk[w].snap[r].actions \in ActionArrays
    BY <1>1, SnapActionsType DEF Current, IsFirst
  <1>6. Control' /\ wk' \in [Workers -> WorkerRecord]
    BY <1>1, <1>2, <1>3, <1>4, <1>5, ResumeFrame DEF CreateRun
  <1> QED BY <1>4, <1>6 DEF CreateRun, TypeInv, TypeOK, QueueTypeOK, RulesTypeOK

LEMMA LoadRunInv ==
  ASSUME TypeInv, NEW w \in Workers, LoadRun(w)
  PROVE  TypeInv'
  <1> DEFINE id     == req[wk[w].job].run
             record == [wk[w] EXCEPT !.pc = "replayRules", !.run = id, !.doc = runs[id]]
  <1> wk[w] \in WorkerRecord /\ WorkerControl(w)
    BY DEF TypeInv, TypeOK, Control
  <1>1. wk[w].job \in ReplayJobs /\ wk[w].job \in JobIds
    BY DEF LoadRun, WorkerControl, JobIds
  <1>2. id \in RunIds /\ runs[id] # None /\ runs[id] \in RunDoc
    <2>1. id \in RunIds /\ runs[id] # None
      BY <1>1 DEF WorkerControl, TypeInv, Control, RequestControl, Past
    <2> QED BY <2>1 DEF TypeInv, TypeOK, JobsTypeOK
  <1>3. wk' = [wk EXCEPT ![w] = record]
    BY DEF LoadRun
  <1>4. req' = req /\ runs' = runs /\ queue' = queue
    BY DEF LoadRun
  <1>5. Past(wk[w].job)
    BY <1>1 DEF WorkerControl
  <1> HIDE DEF id
  <1>6. record \in WorkerRecord
    BY <1>2 DEF WorkerRecord, WorkerPoints
  <1>7. wk'[w] = record
    BY <1>3 DEF TypeInv, TypeOK
  <1>8. WorkerControl(w)'
    BY <1>1, <1>2, <1>4, <1>5, <1>7 DEF WorkerControl, RowOf, WorkerRecord, Past
  <1>9. Control' /\ wk' \in [Workers -> WorkerRecord]
    BY <1>3, <1>4, <1>6, <1>8, WorkerFrame
  <1> QED BY <1>9 DEF LoadRun, TypeInv, TypeOK, QueueTypeOK, JobsTypeOK, RulesTypeOK

LEMMA RowType ==
  ASSUME TypeInv, NEW w \in Workers, wk[w].pc \in {"run", "replayRules"}
  PROVE  /\ wk[w].run \in RunIds
         /\ runs[wk[w].run] \in RunDoc /\ runs[wk[w].run] # None
         /\ wk[w].doc \in RunDoc
         /\ wk[w].job \in JobIds
  BY DEF TypeInv, TypeOK, JobsTypeOK, Control, WorkerControl, RowOf, WorkerRecord

LEMMA FindReplayRuleInv ==
  ASSUME TypeInv, NEW w \in Workers, FindReplayRule(w)
  PROVE  TypeInv'
  <1> DEFINE doc  == wk[w].doc
             acts == IF doc.rule \in FindMatchingTriggers(doc.event)
                       THEN rules[doc.rule].actions
                       ELSE RecordedActions(doc.slots)
  <1>1. /\ wk[w].run \in RunIds /\ runs[wk[w].run] # None
        /\ doc \in RunDoc /\ wk[w].job \in JobIds
    BY RowType DEF FindReplayRule
  <1>2. doc.rule \in Rules /\ doc.slots \in SlotArrays
    BY <1>1 DEF RunDoc
  <1>3. rules[doc.rule].actions \in ActionArrays
    BY <1>2, ActionListsAreArrays DEF TypeInv, TypeOK, RulesTypeOK, RuleDoc
  <1>4. acts \in ActionArrays
    BY <1>2, <1>3, RecordedActionsType
  <1>5. Resume(w, wk[w].run, doc, acts)
    BY DEF FindReplayRule
  <1>6. UNCHANGED <<used, queue, runs, req, rules, eventStatus, effects>>
    BY DEF FindReplayRule
  <1> HIDE DEF doc, acts
  <1>7. Control' /\ wk' \in [Workers -> WorkerRecord]
    BY <1>1, <1>4, <1>5, <1>6, ResumeFrame
  <1> QED BY <1>6, <1>7 DEF TypeInv, TypeOK, QueueTypeOK, JobsTypeOK, RulesTypeOK

\* A step that only records an outcome in memory.
LEMMA RecordFrame ==
  ASSUME TypeInv, NEW w \in Workers, wk[w].pc = "run",
         NEW i \in DOMAIN wk[w].doc.slots, NEW status \in ActionStatus,
         Record(w, i, status), UNCHANGED <<queue, runs, req>>
  PROVE  Control' /\ wk' \in [Workers -> WorkerRecord]
  <1> DEFINE doc    == WithOutcome(wk[w].doc, i, status)
             record == [wk[w] EXCEPT !.at = i, !.doc = doc]
  <1> wk[w] \in WorkerRecord /\ WorkerControl(w)
    BY DEF TypeInv, TypeOK, Control
  <1>1. wk[w].doc \in RunDoc
    BY RowType
  <1>2. doc \in RunDoc /\ doc # None /\ i \in Nat
    BY <1>1, WithOutcomeType, SlotIndexType, TypesAssumption
  <1>3. wk' = [wk EXCEPT ![w] = record]
    BY DEF Record
  <1> HIDE DEF doc
  <1>4. record \in WorkerRecord
    BY <1>2 DEF WorkerRecord
  <1>5. wk'[w] = record
    BY <1>3 DEF TypeInv, TypeOK
  <1>6. WorkerControl(w)'
    BY <1>2, <1>5 DEF WorkerControl, RowOf, WorkerRecord, Past
  <1> QED BY <1>3, <1>4, <1>6, WorkerFrame

LEMMA RunActionInv ==
  ASSUME TypeInv, NEW w \in Workers, RunAction(w)
  PROVE  TypeInv'
  <1>1. PICK i \in Positions : /\ IsFirst(i, Due(w))
                               /\ Execute(w, i) \/ Reject(w, i)
    BY DEF RunAction
  <1>2. i \in DOMAIN wk[w].doc.slots /\ wk[w].pc = "run" /\ wk[w].doc \in RunDoc
    BY <1>1, RowType DEF RunAction, IsFirst, Due
  <1>3. PICK status \in ActionStatus : Record(w, i, status)
    BY <1>1 DEF Execute, Reject, ActionStatus
  <1>4. Control' /\ wk' \in [Workers -> WorkerRecord]
    BY <1>2, <1>3, RecordFrame DEF RunAction
  <1>5. used' \in [Kinds -> Nat]
    BY <1>1, SpendType DEF Execute, Reject, Kinds, TypeInv, TypeOK
  <1>6. effects' \in [Events \X Rules \X Positions -> Nat]
    <2>1. effects' = effects \/ TakeEffect(w, i)
      BY <1>1 DEF Execute, Reject
    <2> QED BY <1>2, <2>1 DEF TakeEffect, TypeInv, TypeOK
  <1> QED BY <1>4, <1>5, <1>6 DEF RunAction, TypeInv, TypeOK, QueueTypeOK, JobsTypeOK,
                                  RulesTypeOK

LEMMA SaveArrayType ==
  ASSUME JobsTypeOK, NEW id \in RunIds, runs[id] \in RunDoc, NEW doc \in RunDoc,
         NEW status \in JobStatus, NEW slots \in SlotArrays,
         SaveArray(id, doc, status, slots)
  PROVE  /\ runs' \in [RunIds -> RunDoc \cup {None}]
         /\ \A i \in RunIds : runs[i] # None => runs'[i] # None
  <1> DEFINE ver == runs[id].ver + 1
             row == [runs[id] EXCEPT !.status = Written(id, doc, status),
                                     !.slots = slots, !.ver = ver]
  <1>1. Written(id, doc, status) \in JobStatus /\ ver \in Nat
    BY DEF Written, RunDoc
  <1>2. row \in RunDoc
    <2> HIDE DEF ver
    <2> QED BY <1>1 DEF RunDoc
  <1>3. runs' = [runs EXCEPT ![id] = row]
    BY DEF SaveArray
  <1>4. row # None
    BY <1>2, TypesAssumption
  <1> HIDE DEF row
  <1> QED BY <1>2, <1>3, <1>4 DEF JobsTypeOK

LEMMA SaveStatusType ==
  ASSUME JobsTypeOK, NEW id \in RunIds, runs[id] \in RunDoc, NEW doc \in RunDoc,
         NEW status \in JobStatus, SaveStatus(id, doc, status)
  PROVE  /\ runs' \in [RunIds -> RunDoc \cup {None}]
         /\ \A i \in RunIds : runs[i] # None => runs'[i] # None
  <1> DEFINE row == [runs[id] EXCEPT !.status = Written(id, doc, status)]
  <1>1. Written(id, doc, status) \in JobStatus
    BY DEF Written, RunDoc
  <1>2. row \in RunDoc
    BY <1>1 DEF RunDoc
  <1>3. runs' = [runs EXCEPT ![id] = row]
    BY DEF SaveStatus
  <1>4. row # None
    BY <1>2, TypesAssumption
  <1> HIDE DEF row
  <1> QED BY <1>2, <1>3, <1>4 DEF JobsTypeOK

LEMMA SaveRunInv ==
  ASSUME TypeInv, NEW w \in Workers, SaveRun(w)
  PROVE  TypeInv'
  <1> DEFINE doc  == wk[w].doc
             next == IF wk[w].job \in Events THEN "loop" ELSE "finish"
             fail == AnyFailure(wk[w].failed, AllSucceeded(doc.slots))
             record == [wk[w] EXCEPT !.pc = next, !.todo = @ \ {doc.rule}, !.run = None,
                                     !.doc = None, !.acts = NoActions, !.at = 0,
                                     !.failed = fail]
  <1> wk[w] \in WorkerRecord /\ WorkerControl(w)
    BY DEF TypeInv, TypeOK, Control
  <1>1. /\ wk[w].run \in RunIds /\ runs[wk[w].run] \in RunDoc
        /\ doc \in RunDoc /\ wk[w].job \in JobIds
    BY RowType DEF SaveRun
  <1>2. /\ JobsTypeOK'
        /\ \A i \in RunIds : runs[i] # None => runs'[i] # None
    <2>1. FinalStatus(doc.slots) \in JobStatus /\ doc.slots \in SlotArrays
      BY <1>1, FinalStatusType DEF RunDoc
    <2>2. /\ runs' \in [RunIds -> RunDoc \cup {None}]
          /\ \A i \in RunIds : runs[i] # None => runs'[i] # None
      BY <1>1, <2>1, SaveArrayType DEF SaveRun, TypeInv, TypeOK
    <2> QED BY <2>2 DEF SaveRun, TypeInv, TypeOK, JobsTypeOK
  <1>3. wk' = [wk EXCEPT ![w] = record]
    BY DEF SaveRun
  <1>4. fail \in BOOLEAN /\ next \in WorkerPoints
    BY DEF AnyFailure, AllSucceeded, WorkerRecord, WorkerPoints
  <1>5. record \in WorkerRecord
    <2> HIDE DEF doc, next, fail
    <2> QED BY <1>4, NoActionsType DEF WorkerRecord
  <1>6. wk'[w] = record
    BY <1>3 DEF TypeInv, TypeOK
  <1>7. WorkerControl(w)'
    <2>1. /\ wk'[w].pc = next /\ wk'[w].job = wk[w].job
          /\ wk'[w].todo \subseteq wk[w].todo /\ wk'[w].snap = wk[w].snap
      BY <1>6 DEF WorkerRecord
    <2>2. req' = req
      BY DEF SaveRun
    <2> QED BY <1>1, <2>1, <2>2 DEF WorkerControl, Past
  <1>8. Control' /\ wk' \in [Workers -> WorkerRecord]
    <2> HIDE DEF record
    <2> QED BY <1>2, <1>3, <1>5, <1>7, WorkerFrame DEF SaveRun
  <1> QED BY <1>2, <1>8 DEF SaveRun, TypeInv, TypeOK, QueueTypeOK, RulesTypeOK

LEMMA IdleFrame ==
  ASSUME TypeInv, NEW w \in Workers, wk' = [wk EXCEPT ![w] = Idle],
         UNCHANGED <<runs, req>>,
         \A q \in ReplayJobs : queue'[q].state # "absent" => queue[q].state # "absent"
  PROVE  Control' /\ wk' \in [Workers -> WorkerRecord]
  <1>1. wk'[w] = Idle
    BY DEF TypeInv, TypeOK
  <1>2. WorkerControl(w)'
    BY <1>1, TypesAssumption DEF WorkerControl, Idle
  <1> QED BY <1>2, IdleType, WorkerFrame

\* What can happen to the job of a busy worker.
LEMMA QueueStepType ==
  ASSUME TypeInv, NEW j \in JobIds,
         \/ FailAttempt(j) \/ Complete(j) \/ ReleaseLock(j) \/ RecoverStalled(j)
         \/ UNCHANGED queue,
         queue[j].state # "absent"
  PROVE  /\ QueueTypeOK'
         /\ \A q \in ReplayJobs : queue'[q].state # "absent" => queue[q].state # "absent"
  <1> queue \in [JobIds -> JobRecord] /\ queue[j] \in JobRecord
    BY DEF TypeInv, TypeOK, QueueTypeOK
  <1>1. CASE FailAttempt(j)
    BY <1>1 DEF FailAttempt, QueueTypeOK, JobRecord, JobStates, JobIds
  <1>2. CASE Complete(j)
    BY <1>2 DEF Complete, QueueTypeOK, JobRecord, JobStates, JobIds
  <1>3. CASE ReleaseLock(j)
    BY <1>3 DEF ReleaseLock, QueueTypeOK, JobRecord, JobStates, JobIds
  <1>4. CASE RecoverStalled(j)
    BY <1>4 DEF RecoverStalled, QueueTypeOK, JobRecord, JobStates, JobIds
  <1>5. CASE UNCHANGED queue
    BY <1>5 DEF QueueTypeOK
  <1> QED BY <1>1, <1>2, <1>3, <1>4, <1>5

LEMMA FinishInv ==
  ASSUME TypeInv, NEW w \in Workers, Finish(w)
  PROVE  TypeInv'
  <1>1. wk[w].job \in JobIds
    BY DEF Finish, TypeInv, Control, WorkerControl
  <1>2. /\ QueueTypeOK'
        /\ \A q \in ReplayJobs : queue'[q].state # "absent" => queue[q].state # "absent"
    <2>1. CASE UNCHANGED queue
      BY <2>1 DEF TypeInv, TypeOK, QueueTypeOK
    <2>2. CASE HoldsLock(wk[w].job, w)
      BY <1>1, <2>2, QueueStepType DEF Finish, HoldsLock
    <2> QED BY <2>1, <2>2 DEF Finish
  <1>3. Control' /\ wk' \in [Workers -> WorkerRecord]
    BY <1>2, IdleFrame DEF Finish
  <1> QED BY <1>2, <1>3 DEF Finish, TypeInv, TypeOK, JobsTypeOK, RulesTypeOK

LEMMA CrashInv ==
  ASSUME TypeInv, NEW w \in Workers, Crash(w)
  PROVE  TypeInv'
  <1>1. wk[w].job \in JobIds
    BY DEF Crash, TypeInv, Control, WorkerControl
  <1>2. /\ QueueTypeOK'
        /\ \A q \in ReplayJobs : queue'[q].state # "absent" => queue[q].state # "absent"
    <2>1. CASE UNCHANGED queue
      BY <2>1 DEF TypeInv, TypeOK, QueueTypeOK
    <2>2. CASE HoldsLock(wk[w].job, w)
      BY <1>1, <2>2, QueueStepType DEF Crash, HoldsLock
    <2> QED BY <2>1, <2>2 DEF Crash
  <1>3. Control' /\ wk' \in [Workers -> WorkerRecord]
    BY <1>2, IdleFrame DEF Crash
  <1>4. used' \in [Kinds -> Nat]
    BY SpendType DEF Crash, Kinds, TypeInv, TypeOK
  <1> QED BY <1>2, <1>3, <1>4 DEF Crash, TypeInv, TypeOK, JobsTypeOK, RulesTypeOK

\* A step of nobody among the workers.
LEMMA OutsideFrame ==
  ASSUME TypeInv, UNCHANGED <<wk, runs, req>>,
         \A q \in ReplayJobs : queue'[q].state # "absent" => queue[q].state # "absent"
  PROVE  Control'
  <1>1. ASSUME NEW w \in Workers PROVE WorkerControl(w)'
    BY DEF TypeInv, Control, WorkerControl, RowOf, Past
  <1>2. ASSUME NEW q \in ReplayJobs PROVE RequestControl(q)'
    BY DEF TypeInv, Control, RequestControl, Named, Past
  <1> QED BY <1>1, <1>2 DEF Control

LEMMA LoseLockInv ==
  ASSUME TypeInv, NEW w \in Workers, LoseLock(w)
  PROVE  TypeInv'
  <1>1. wk[w].job \in JobIds
    BY DEF LoseLock, TypeInv, Control, WorkerControl
  <1>2. /\ QueueTypeOK'
        /\ \A q \in ReplayJobs : queue'[q].state # "absent" => queue[q].state # "absent"
    BY <1>1, QueueStepType DEF LoseLock, HoldsLock
  <1>3. Control'
    BY <1>2, OutsideFrame DEF LoseLock
  <1>4. used' \in [Kinds -> Nat]
    BY SpendType DEF LoseLock, Kinds, TypeInv, TypeOK
  <1> QED BY <1>2, <1>3, <1>4 DEF LoseLock, TypeInv, TypeOK, JobsTypeOK, RulesTypeOK

LEMMA RecoverInv ==
  ASSUME TypeInv, NEW j \in JobIds, Recover(j)
  PROVE  TypeInv'
  <1>1. /\ QueueTypeOK'
        /\ \A q \in ReplayJobs : queue'[q].state # "absent" => queue[q].state # "absent"
    BY QueueStepType DEF Recover, RecoverStalled
  <1>2. Control'
    BY <1>1, OutsideFrame DEF Recover
  <1> QED BY <1>1, <1>2 DEF Recover, TypeInv, TypeOK, JobsTypeOK, RulesTypeOK

LEMMA EditRuleInv ==
  ASSUME TypeInv, NEW r \in Rules, EditRule(r)
  PROVE  TypeInv'
  <1>1. Control'
    BY OutsideFrame DEF EditRule
  <1>2. used' \in [Kinds -> Nat]
    BY SpendType DEF EditRule, CreateRule, UpdateRule, RemoveRule, Kinds, TypeInv, TypeOK
  <1>3. RulesTypeOK'
    <2>1. CASE \E doc \in RuleDoc : rules' = [rules EXCEPT ![r] = doc]
      BY <2>1 DEF TypeInv, TypeOK, RulesTypeOK
    <2>2. CASE RemoveRule(r)
      BY <2>2 DEF RemoveRule, TypeInv, TypeOK, RulesTypeOK, RuleDoc, RuleStates
    <2> QED BY <2>1, <2>2 DEF EditRule, CreateRule, UpdateRule
  <1> QED BY <1>1, <1>2, <1>3 DEF EditRule, TypeInv, TypeOK, QueueTypeOK, JobsTypeOK

\* A step of replay request q.
LEMMA RequestFrame ==
  ASSUME TypeInv, NEW q \in ReplayJobs, NEW record \in Request,
         req' = [req EXCEPT ![q] = record], RequestControl(q)', UNCHANGED wk,
         Past(q) => record.pc \notin {"unused", "loaded"} /\ record.run = req[q].run,
         \A id \in RunIds : runs[id] # None => runs'[id] # None,
         \A p \in ReplayJobs : queue'[p].state # "absent" =>
                                queue[p].state # "absent" \/ Past(p)
  PROVE  Control' /\ req' \in [ReplayJobs -> Request]
  <1>1. req' \in [ReplayJobs -> Request]
    BY DEF TypeInv, TypeOK, JobsTypeOK
  <1>2. ASSUME NEW p \in ReplayJobs, Past(p)
        PROVE  Past(p)' /\ req'[p].run = req[p].run
    BY <1>2 DEF TypeInv, TypeOK, JobsTypeOK, Past
  <1>3. ASSUME NEW w \in Workers PROVE WorkerControl(w)'
    <2>1. WorkerControl(w)
      BY DEF TypeInv, Control
    <2> QED BY <1>2, <2>1 DEF WorkerControl, RowOf, Past
  <1>4. ASSUME NEW p \in ReplayJobs PROVE RequestControl(p)'
    <2>1. CASE p = q
      BY <2>1
    <2>2. CASE p # q
      <3>1. req'[p] = req[p]
        BY <2>2 DEF TypeInv, TypeOK, JobsTypeOK
      <3>2. RequestControl(p)
        BY DEF TypeInv, Control
      <3>3. Named(p) => /\ req[p].as \in ReplayJobs
                        /\ req'[req[p].as].run = req[req[p].as].run
                        /\ req'[req[p].as].pc \notin {"unused", "loaded"}
        BY <1>2, <3>2 DEF RequestControl, Past
      <3> QED BY <1>2, <3>1, <3>2, <3>3 DEF RequestControl, Named, Past
    <2> QED BY <2>1, <2>2
  <1> QED BY <1>1, <1>3, <1>4 DEF Control

\* The job of a request is not there before its row is saved.
LEMMA NotYetEnqueued ==
  ASSUME TypeInv, NEW q \in ReplayJobs, ~Past(q)
  PROVE  queue[q].state = "absent"
  BY DEF TypeInv, Control, RequestControl

LEMMA LoadedRow ==
  ASSUME TypeInv, NEW q \in ReplayJobs, req[q].pc = "loaded" \/ Named(q)
  PROVE  /\ req[q] \in Request
         /\ req[q].run \in RunIds
         /\ runs[req[q].run] \in RunDoc /\ runs[req[q].run] # None
         /\ req[q].pc = "loaded" => req[q].doc \in RunDoc
         /\ Named(q) => /\ req[q].as \in ReplayJobs /\ Past(req[q].as)
                        /\ req[req[q].as].run = req[q].run
  BY DEF TypeInv, TypeOK, JobsTypeOK, Control, RequestControl, Request, Named

LEMMA ReplayLoadInv ==
  ASSUME TypeInv, NEW q \in ReplayJobs, NEW id \in RunIds, ReplayLoad(q, id),
         UNCHANGED <<rules, eventStatus, wk, effects>>
  PROVE  TypeInv'
  <1> DEFINE record == [pc |-> "loaded", run |-> id, doc |-> runs[id], as |-> None]
  <1>1. runs[id] \in RunDoc /\ runs[id] # None
    BY DEF ReplayLoad, TypeInv, TypeOK, JobsTypeOK
  <1>2. record \in Request
    BY <1>1 DEF Request, RequestStates
  <1>3. req' = [req EXCEPT ![q] = record] /\ req[q].pc = "unused"
    BY DEF ReplayLoad
  <1>4. queue[q].state = "absent"
    BY <1>3, NotYetEnqueued DEF Past
  <1>5. req'[q] = record
    BY <1>3 DEF TypeInv, TypeOK, JobsTypeOK
  <1>6. RequestControl(q)'
    BY <1>1, <1>4, <1>5 DEF RequestControl, ReplayLoad, Named
  <1>7. Control' /\ req' \in [ReplayJobs -> Request]
    BY <1>2, <1>3, <1>6, RequestFrame DEF ReplayLoad, Past
  <1> QED BY <1>7 DEF ReplayLoad, TypeInv, TypeOK, QueueTypeOK, JobsTypeOK, RulesTypeOK

LEMMA ReplaySaveInv ==
  ASSUME TypeInv, NEW q \in ReplayJobs, ReplaySave(q),
         UNCHANGED <<rules, eventStatus, wk, effects>>
  PROVE  TypeInv'
  <1> DEFINE id  == req[q].run
             doc == req[q].doc
  <1>1. /\ req[q] \in Request /\ req[q].pc = "loaded"
        /\ id \in RunIds /\ runs[id] \in RunDoc /\ runs[id] # None /\ doc \in RunDoc
    BY LoadedRow DEF ReplaySave
  <1>2. /\ runs' \in [RunIds -> RunDoc \cup {None}]
        /\ \A i \in RunIds : runs[i] # None => runs'[i] # None
    <2>1. Reset(doc.slots) \in SlotArrays /\ "queued" \in JobStatus /\ JobsTypeOK
      BY <1>1, ResetType DEF RunDoc, JobStatus, TypeInv, TypeOK
    <2>2. CASE SaveArray(id, doc, "queued", Reset(doc.slots))
      BY <1>1, <2>1, <2>2, SaveArrayType
    <2>3. CASE SaveStatus(id, doc, "queued")
      BY <1>1, <2>1, <2>3, SaveStatusType
    <2> QED BY <2>2, <2>3 DEF ReplaySave
  <1>3. PICK jobId \in {q} \cup SharedIds(q) :
          req' = [req EXCEPT ![q].pc = "saved", ![q].doc = None, ![q].as = jobId]
    BY DEF ReplaySave
  <1>4. jobId \in ReplayJobs /\ (jobId # q => Past(jobId) /\ req[jobId].run = id)
    <2>1. CASE jobId = q
      BY <2>1
    <2>2. CASE jobId \in Twins(q) /\ queue[jobId] = Fresh("waiting")
      BY <2>2 DEF Twins, Fresh, TypeInv, Control, RequestControl
    <2>3. CASE \E p \in Twins(q) : Named(p) /\ req[p].as = jobId
      BY <2>3 DEF Twins, TypeInv, Control, RequestControl
    <2> QED BY <1>3, <2>1, <2>2, <2>3 DEF SharedIds
  <1> DEFINE record == [req[q] EXCEPT !.pc = "saved", !.doc = None, !.as = jobId]
  <1>5. req' = [req EXCEPT ![q] = record]
    BY <1>3
  <1>6. record \in Request /\ record.pc = "saved" /\ record.run = id /\ record.as = jobId
    BY <1>1, <1>4 DEF Request, RequestStates
  <1> HIDE DEF record
  <1>7. req'[q] = record
    BY <1>5 DEF TypeInv, TypeOK, JobsTypeOK
  <1>8. RequestControl(q)'
    <2>1. req'[jobId].pc \notin {"unused", "loaded"} /\ req'[jobId].run = id
      BY <1>4, <1>5, <1>6, <1>7 DEF Past, TypeInv, TypeOK, JobsTypeOK
    <2>2. queue' = queue /\ runs'[id] # None
      BY <1>1, <1>2 DEF ReplaySave
    <2> QED BY <1>1, <1>4, <1>6, <1>7, <2>1, <2>2 DEF RequestControl, Named, Past
  <1>9. Control' /\ req' \in [ReplayJobs -> Request]
    <2>1. ~Past(q) /\ queue' = queue
      BY <1>1 DEF Past, ReplaySave
    <2> QED BY <1>2, <1>5, <1>6, <1>8, <2>1, RequestFrame
  <1> QED BY <1>2, <1>9 DEF ReplaySave, TypeInv, TypeOK, QueueTypeOK, JobsTypeOK, RulesTypeOK

\* ReplayConflict and ReplayAbort leave the request answered with an error.
LEMMA FailRequest ==
  ASSUME TypeInv, NEW q \in ReplayJobs, NEW record \in Request,
         record.pc \in {"failed", "lost"}, record.run = req[q].run,
         req[q].pc # "unused", req' = [req EXCEPT ![q] = record],
         used' \in [Kinds -> Nat],
         UNCHANGED <<queue, runs, rules, eventStatus, wk, effects>>
  PROVE  TypeInv'
  <1>1. req'[q] = record
    BY DEF TypeInv, TypeOK, JobsTypeOK
  <1>2. RequestControl(q)'
    BY <1>1 DEF RequestControl, Named, Past, TypeInv, Control
  <1>3. Control' /\ req' \in [ReplayJobs -> Request]
    BY <1>2, RequestFrame
  <1> QED BY <1>3 DEF TypeInv, TypeOK, QueueTypeOK, JobsTypeOK, RulesTypeOK

LEMMA ReplayConflictInv ==
  ASSUME TypeInv, NEW q \in ReplayJobs, ReplayConflict(q),
         UNCHANGED <<rules, eventStatus, wk, effects>>
  PROVE  TypeInv'
  <1> DEFINE record == [req[q] EXCEPT !.pc = "failed", !.doc = None]
  <1>1. /\ record \in Request
        /\ record.pc = "failed" /\ record.run = req[q].run
    BY DEF Request, RequestStates, TypeInv, TypeOK, JobsTypeOK
  <1>2. req' = [req EXCEPT ![q] = record] /\ req[q].pc # "unused"
    BY DEF ReplayConflict
  <1> HIDE DEF record
  <1>3. used' \in [Kinds -> Nat]
    BY DEF ReplayConflict, TypeInv, TypeOK
  <1> QED BY <1>1, <1>2, <1>3, FailRequest DEF ReplayConflict

LEMMA ReplayAbortInv ==
  ASSUME TypeInv, NEW q \in ReplayJobs, ReplayAbort(q),
         UNCHANGED <<rules, eventStatus, wk, effects>>
  PROVE  TypeInv'
  <1> DEFINE record == [req[q] EXCEPT !.pc = IF Named(q) THEN "lost" ELSE "failed",
                                      !.doc = None, !.as = None]
  <1>1. /\ record \in Request
        /\ record.pc \in {"failed", "lost"} /\ record.run = req[q].run
    BY DEF Request, RequestStates, TypeInv, TypeOK, JobsTypeOK
  <1>2. req' = [req EXCEPT ![q] = record] /\ req[q].pc # "unused"
    BY DEF ReplayAbort, Named
  <1> HIDE DEF record
  <1>3. used' \in [Kinds -> Nat]
    BY SpendType DEF ReplayAbort, Kinds, TypeInv, TypeOK
  <1> QED BY <1>1, <1>2, <1>3, FailRequest DEF ReplayAbort

LEMMA ReplayEnqueueInv ==
  ASSUME TypeInv, NEW q \in ReplayJobs, ReplayEnqueue(q),
         UNCHANGED <<rules, eventStatus, wk, effects>>
  PROVE  TypeInv'
  <1> DEFINE record == [req[q] EXCEPT !.pc = "done", !.as = None]
             jobId  == req[q].as
  <1>1. /\ Named(q) /\ req[q] \in Request /\ jobId \in ReplayJobs /\ Past(jobId)
        /\ req[q].run \in RunIds /\ runs[req[q].run] # None
    BY LoadedRow DEF ReplayEnqueue
  <1>2. record \in Request /\ record.pc = "done" /\ record.run = req[q].run
    BY <1>1 DEF Request, RequestStates
  <1>3. req' = [req EXCEPT ![q] = record]
    BY DEF ReplayEnqueue
  <1> HIDE DEF record
  <1>4. req'[q] = record
    BY <1>3 DEF TypeInv, TypeOK, JobsTypeOK
  <1>5. RequestControl(q)'
    BY <1>1, <1>2, <1>4 DEF RequestControl, ReplayEnqueue, Named, Past
  <1>6. \/ queue' = [queue EXCEPT ![jobId] = Fresh("waiting")]
        \/ UNCHANGED queue
    BY DEF ReplayEnqueue, Enqueue
  <1>7. Fresh("waiting") \in JobRecord
    BY DEF Fresh, JobRecord, JobStates
  <1>8. QueueTypeOK'
    BY <1>6, <1>7 DEF TypeInv, TypeOK, QueueTypeOK
  <1>9. \A p \in ReplayJobs : queue'[p].state # "absent" => queue[p].state # "absent" \/ Past(p)
    BY <1>1, <1>6 DEF TypeInv, TypeOK, QueueTypeOK, JobIds
  <1>10. Control' /\ req' \in [ReplayJobs -> Request]
    BY <1>2, <1>3, <1>5, <1>9, RequestFrame DEF ReplayEnqueue
  <1> QED BY <1>8, <1>10 DEF ReplayEnqueue, TypeInv, TypeOK, JobsTypeOK, RulesTypeOK

LEMMA ReplayInv ==
  ASSUME TypeInv, NEW q \in ReplayJobs, Replay(q)
  PROVE  TypeInv'
  <1> UNCHANGED <<rules, eventStatus, wk, effects>>
    BY DEF Replay
  <1>1. CASE \E id \in RunIds : ReplayLoad(q, id)
    BY <1>1, ReplayLoadInv
  <1>2. CASE ReplaySave(q)
    BY <1>2, ReplaySaveInv
  <1>3. CASE ReplayConflict(q)
    BY <1>3, ReplayConflictInv
  <1>4. CASE ReplayEnqueue(q)
    BY <1>4, ReplayEnqueueInv
  <1>5. CASE ReplayAbort(q)
    BY <1>5, ReplayAbortInv
  <1> QED BY <1>1, <1>2, <1>3, <1>4, <1>5 DEF Replay, ReplayRequest

LEMMA NextTypeInv == TypeInv /\ [Next]_vars => TypeInv'
  <1> SUFFICES ASSUME TypeInv, [Next]_vars PROVE TypeInv'
    OBVIOUS
  <1>1. ASSUME NEW w \in Workers, Work(w) PROVE TypeInv'
    BY <1>1, TakeJobInv, MarkProcessingInv, FindRulesInv, RuleEvalThrowsInv, FindRunInv,
       CreateRunInv, MarkProcessedInv, LoadRunInv, FindReplayRuleInv, RunActionInv,
       SaveRunInv, SaveConflictInv, FinishInv DEF Work
  <1>2. ASSUME NEW w \in Workers, Interfere(w) PROVE TypeInv'
    BY <1>2, DbErrorInv, CrashInv, LoseLockInv DEF Interfere
  <1>3. CASE UNCHANGED vars
    BY <1>3 DEF vars, TypeInv, TypeOK, QueueTypeOK, JobsTypeOK, RulesTypeOK, Control,
                WorkerControl, RowOf, RequestControl, Named, Past
  <1> QED BY <1>1, <1>2, <1>3, RecoverInv, ReplayInv, EditRuleInv DEF Next, Quiescent

\* Every variable stays in its type, whatever the workers, the endpoint and the
\* environment do.
THEOREM TypeCorrect == Spec => []TypeOK
  <1>1. Spec => []TypeInv
    BY InitTypeInv, NextTypeInv, PTL DEF Spec
  <1>2. TypeInv => TypeOK
    BY DEF TypeInv
  <1> QED BY <1>1, <1>2, PTL

=============================================================================
