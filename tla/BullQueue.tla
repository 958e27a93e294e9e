----------------------------- MODULE BullQueue -----------------------------
(***************************************************************************)
(* The BullMQ queue 'webhook-processing', as far as the engine's use of it *)
(* goes: attempts with backoff, a lock held by the worker that took a job, *)
(* and the stalled-job check that takes back a job whose lock expired.     *)
(*                                                                         *)
(* The library is not part of the repository. What is modelled is the part *)
(* the options in webhooks.service.ts and jobs.service.ts select. Delayed  *)
(* jobs (backoff) are "waiting": no order among waiting jobs is assumed.   *)
(***************************************************************************)
EXTENDS EngineTypes

CONSTANTS
  EventAttempts,    \* `attempts` of a process-event job, 5 in the code
  ReplayAttempts,   \* `attempts` of a replay-job-run job, 3 in the code
  MaxStalledCount   \* worker option, left at its default of 1

ASSUME QueueAssumption ==
  /\ EventAttempts \in Nat \ {0}
  /\ ReplayAttempts \in Nat \ {0}
  /\ MaxStalledCount \in Nat

VARIABLE queue

JobStates == {"absent", "waiting", "active", "completed", "failed"}

JobRecord == [state    : JobStates,
              attempts : Nat,
              stalls   : Nat,
              owner    : Workers \cup {None}]

QueueTypeOK == queue \in [JobIds -> JobRecord]

Fresh(state) == [state |-> state, attempts |-> 0, stalls |-> 0, owner |-> None]

\* Every event of this model has been ingested and its job enqueued.
QueueInit ==
  queue = [j \in JobIds |-> Fresh(IF j \in Events THEN "waiting" ELSE "absent")]

-----------------------------------------------------------------------------

\* Mutant of Attempts: the options of the two kinds of job are mixed up.
AttemptsSwapped(j) == IF j \in Events THEN ReplayAttempts ELSE EventAttempts

Attempts(j) == IF j \in Events THEN EventAttempts ELSE ReplayAttempts

Enqueue(j) ==
  /\ queue[j].state = "absent"
  /\ queue' = [queue EXCEPT ![j] = Fresh("waiting")]

Activate(j, w) ==
  /\ queue[j].state = "waiting"
  /\ queue' = [queue EXCEPT ![j].state = "active", ![j].owner = w]

HoldsLock(j, w) == queue[j].state = "active" /\ queue[j].owner = w

\* The lock is no longer renewed; it expires and nobody holds it.
ReleaseLock(j) == queue' = [queue EXCEPT ![j].owner = None]

\* Mutant of Complete: a completed job is removed at once.
CompleteAndRemove(j) == queue' = [queue EXCEPT ![j] = Fresh("absent")]

\* The last 1000 completed jobs are kept, and their ids in use.
Complete(j) ==
  queue' = [queue EXCEPT ![j].state = "completed", ![j].owner = None]

RetriesLeft(j) == queue[j].attempts + 1 < Attempts(j)

\* A processor that threw: back to waiting after a backoff, or failed for good.
FailAttempt(j) ==
  queue' = [queue EXCEPT ![j].state    = IF RetriesLeft(j) THEN "waiting" ELSE "failed",
                         ![j].attempts = @ + 1,
                         ![j].owner    = None]

\* The stalled checker found an active job without a lock.
RecoverStalled(j) ==
  /\ queue[j].state = "active"
  /\ queue[j].owner = None
  /\ queue' = [queue EXCEPT
       ![j].state  = IF queue[j].stalls < MaxStalledCount THEN "waiting" ELSE "failed",
       ![j].stalls = @ + 1]

Settled(j) == queue[j].state \in {"completed", "failed"}

=============================================================================
