---------------------------- MODULE JobsService ----------------------------
(***************************************************************************)
(* jobs.service.ts and job-run.schema.ts: the JobRun rows, the "upsert"    *)
(* the worker finds or creates them with, and the replay endpoint.         *)
(*                                                                         *)
(* A row is read into memory, changed there and saved later. Mongoose      *)
(* guards a save that replaces the actionResults array with the version    *)
(* key: it is refused when another such save came in between. A save that  *)
(* only changes `status` is not guarded, and a field set back to the value *)
(* it was loaded with is not written at all.                               *)
(***************************************************************************)
EXTENDS BullQueue

VARIABLES
  runs,   \* the JobRun collection
  req     \* the calls of the replay endpoint, one per replay job

\* "failed": answered with an error before the row was saved, "lost": after.
RequestStates == {"unused", "loaded", "saved", "done", "failed", "lost"}

\* as : the id of the job that is about to be added
Request == [pc  : RequestStates,
            run : RunIds \cup {None},
            doc : RunDoc \cup {None},
            as  : ReplayJobs \cup {None}]

NoRequest == [pc |-> "unused", run |-> None, doc |-> None, as |-> None]

JobsTypeOK == /\ runs \in [RunIds -> RunDoc \cup {None}]
              /\ req \in [ReplayJobs -> Request]

JobsInit == /\ runs = [id \in RunIds |-> None]
            /\ req = [q \in ReplayJobs |-> NoRequest]

-----------------------------------------------------------------------------

\* Mutant of Stale: the save carries no version.
StaleUnnoticed(id, doc) == FALSE

Stale(id, doc) == runs[id].ver # doc.ver

\* Status is written only when it differs from the loaded one.
Written(id, doc, status) == IF status # doc.status THEN status ELSE runs[id].status

\* save() after actionResults was replaced: guarded and counted by __v.
SaveArray(id, doc, status, slots) ==
  /\ ~Stale(id, doc)
  /\ runs' = [runs EXCEPT ![id].status = Written(id, doc, status),
                          ![id].slots  = slots,
                          ![id].ver    = @ + 1]

\* save() after nothing but status was set.
SaveStatus(id, doc, status) ==
  runs' = [runs EXCEPT ![id].status = Written(id, doc, status)]

-----------------------------------------------------------------------------
(* upsertForRuleMatch: a findOne and, when it finds nothing, a create.     *)

\* Mutant of RowsFor: only a row in progress counts as existing.
ProcessingRowsFor(e, r) ==
  {id \in RunIds : /\ runs[id] # None /\ runs[id].event = e /\ runs[id].rule = r
                   /\ runs[id].status = "processing"}

RowsFor(e, r) ==
  {id \in RunIds : runs[id] # None /\ runs[id].event = e /\ runs[id].rule = r}

NewRun(e, r) == [event |-> e, rule |-> r, status |-> "processing",
                 slots |-> NoActions, ver |-> 0]

InsertRun(id, e, r) ==
  /\ IsFirst(id, {i \in RunIds : runs[i] = None})
  /\ runs' = [runs EXCEPT ![id] = NewRun(e, r)]

-----------------------------------------------------------------------------
(* replay: load the row, reset it, save it, enqueue a replay-job-run job.  *)

Outstanding(slot) == slot.status # "succeeded"

AllSucceeded(slots) == \A i \in DOMAIN slots : ~Outstanding(slots[i])

\* Mutant of ResetSlot: succeeded actions are reset as well.
ResetEverySlot(slot) == [slot EXCEPT !.status = "pending"]

ResetSlot(slot) == IF Outstanding(slot) THEN [slot EXCEPT !.status = "pending"] ELSE slot

Reset(slots) == [i \in DOMAIN slots |-> ResetSlot(slots[i])]

\* Whether mongoose sees a change in the array: a slot that is reset gets a field
\* `error: undefined`, and so differs even if it was pending already.
Changed(doc) == ~AllSucceeded(doc.slots)

\* The row is saved and the id of its replay job made.
Named(q) == req[q].pc = "saved"

ReplayLoad(q, id) ==
  /\ req[q].pc = "unused"
  /\ runs[id] # None
  /\ req' = [req EXCEPT ![q] = [pc |-> "loaded", run |-> id, doc |-> runs[id], as |-> None]]
  /\ UNCHANGED <<used, queue, runs>>

\* The other requests for the same row.
Twins(q) == {p \in ReplayJobs \ {q} : req[p].run = req[q].run}

\* The jobId is made of the row and the clock's millisecond: so near to another
\* request that its job was not taken yet, both may get the same one.
SharedIds(q) ==
  {id \in ReplayJobs :
     \/ id \in Twins(q) /\ queue[id] = Fresh("waiting")
     \/ queue[id].state = "absent" /\ \E p \in Twins(q) : Named(p) /\ req[p].as = id}

ReplaySave(q) ==
  LET id  == req[q].run
      doc == req[q].doc
  IN /\ req[q].pc = "loaded"
     /\ IF Changed(doc) THEN SaveArray(id, doc, "queued", Reset(doc.slots))
                        ELSE SaveStatus(id, doc, "queued")
     /\ \E jobId \in {q} \cup SharedIds(q) :
          req' = [req EXCEPT ![q].pc = "saved", ![q].doc = None, ![q].as = jobId]
     /\ UNCHANGED <<used, queue>>

\* VersionError: the endpoint answers 500 and enqueues nothing.
ReplayConflict(q) ==
  /\ req[q].pc = "loaded"
  /\ Changed(req[q].doc)
  /\ Stale(req[q].run, req[q].doc)
  /\ req' = [req EXCEPT ![q].pc = "failed", ![q].doc = None]
  /\ UNCHANGED <<used, queue, runs>>

\* Mutant of ReplayEnqueue: a row whose event job is not settled is left to it.
ReplayEnqueueUnlessBusy(q) ==
  /\ Named(q)
  /\ IF Settled(runs[req[q].run].event) THEN Enqueue(req[q].as) ELSE UNCHANGED queue
  /\ req' = [req EXCEPT ![q].pc = "done", ![q].as = None]
  /\ UNCHANGED <<used, runs>>

\* BullMQ does not add a job whose id exists, and reports no error.
ReplayEnqueue(q) ==
  /\ Named(q)
  /\ IF queue[req[q].as].state = "absent" THEN Enqueue(req[q].as) ELSE UNCHANGED queue
  /\ req' = [req EXCEPT ![q].pc = "done", ![q].as = None]
  /\ UNCHANGED <<used, runs>>

\* The API process dies, or MongoDB or Redis refuses the next call.
ReplayAbort(q) ==
  /\ req[q].pc = "loaded" \/ Named(q)
  /\ \E k \in {"crash", "dbError"} : Spend(k)
  /\ req' = [req EXCEPT ![q].pc = IF Named(q) THEN "lost" ELSE "failed",
                         ![q].doc = None, ![q].as = None]
  /\ UNCHANGED <<queue, runs>>

ReplayRequest(q) == ReplaySave(q) \/ ReplayConflict(q) \/ ReplayEnqueue(q)

=============================================================================
