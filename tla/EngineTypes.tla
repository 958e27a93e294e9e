---------------------------- MODULE EngineTypes ----------------------------
(***************************************************************************)
(* What the other modules share: the identities of the documents and jobs, *)
(* the enumerations of the Mongoose schemas, and the budget that bounds    *)
(* how often the environment interferes.                                   *)
(***************************************************************************)
EXTENDS Integers

CONSTANTS
  Events,       \* WebhookEvent ids, also the jobIds of their process-event jobs
  ReplayJobs,   \* one per replay request, also the jobId of the job it enqueues
  Rules,        \* Rule ids, numbered in insertion order
  RunIds,       \* JobRun ids, numbered in insertion order
  ActionTypes,  \* values the `type` of an action may have
  ActionLists,  \* the `actions` arrays a rule may hold
  Workers,      \* concurrent calls of WebhookProcessor.process
  Limit,        \* how often each kind of interference may happen
  TotalLimit,   \* how much interference of all kinds may happen
  None          \* undefined / no document

VARIABLE used   \* interference spent so far, by kind

-----------------------------------------------------------------------------

JobIds == Events \cup ReplayJobs

IngestStatus == {"received", "processing", "processed"}
JobStatus    == {"queued", "processing", "completed", "partial_failure", "failed"}
ActionStatus == {"pending", "succeeded", "failed"}

\* One entry of Rule.actions. A config is abstracted to the action type whose
\* required field it carries (`url` or `idField`), None when it has neither.
Action == [type : ActionTypes, config : ActionTypes \cup {None}]

\* One entry of JobRun.actionResults.
Slot == [type : ActionTypes, status : ActionStatus]

NoActions   == [i \in {} |-> None]
ArrayShapes == {DOMAIN a : a \in ActionLists} \cup {{}}
Positions   == UNION ArrayShapes
SlotArrays  == UNION {[d -> Slot] : d \in ArrayShapes}
ActionArrays == UNION {[d -> Action] : d \in ArrayShapes}

RunDoc == [event  : Events,
           rule   : Rules,
           status : JobStatus,
           slots  : SlotArrays,
           ver    : Nat]

\* The least element of a non-empty set of naturals is the first in order.
IsFirst(x, S) == x \in S /\ \A y \in S : x <= y

-----------------------------------------------------------------------------

\* crash      : a worker or the API process dies between two steps
\* lockLoss   : a live worker fails to renew its job lock in time
\* dbError    : an awaited MongoDB operation rejects
\* lostReply  : an action took effect but reported failure (timeout, bad status)
\* downstream : an action was refused and had no effect
\* edit       : a rule is created, updated or removed
Kinds == {"crash", "lockLoss", "dbError", "lostReply", "downstream", "edit"}

Spent == used["crash"] + used["lockLoss"] + used["dbError"]
           + used["lostReply"] + used["downstream"] + used["edit"]

Spend(k) == /\ used[k] < Limit[k]
            /\ Spent < TotalLimit
            /\ used' = [used EXCEPT ![k] = @ + 1]

Unspent == [k \in Kinds |-> 0]

ASSUME TypesAssumption ==
  /\ Rules \subseteq Nat
  /\ RunIds \subseteq Nat
  /\ \A a \in ActionLists : DOMAIN a \subseteq Nat /\ a \in [DOMAIN a -> Action]
  /\ Limit \in [Kinds -> Nat]
  /\ TotalLimit \in Nat
  /\ Events \cap ReplayJobs = {}
  /\ None \notin Events /\ None \notin ReplayJobs
  /\ None \notin RunIds /\ None \notin Workers
  /\ None \notin RunDoc
  /\ None \notin ActionArrays

=============================================================================
