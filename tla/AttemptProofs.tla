---------------------------- MODULE AttemptProofs ----------------------------
(***************************************************************************)
(* What an attempt at a job leaves behind, for all values of the constants *)
(* of WebhookProcessor: when it ends well every rule was evaluated and run *)
(* (CleanFinish, ProcessedMeansEvaluated), and when it does not, the next  *)
(* one repeats only what a fault made it forget (RepeatsNeedFaults). As    *)
(* long as a replayed row waits there is such an attempt to come           *)
(* (QueuedIsPursued), and none acts for rules that are off by then         *)
(* (OffRulesFireNoMore).                                                   *)
(*                                                                         *)
(* The loop over the rules works on the rules as it read them, on rows it  *)
(* reads one by one, and forgets all when it throws. The first invariant   *)
(* says what is known of the rules it has finished, while others write     *)
(* rows; the second counts what is not known any more; the third counts    *)
(* the attempts a replay job has lost.                                     *)
(***************************************************************************)
EXTENDS LedgerProofs

\* A row that was run to the end and had something to run.
Done(id) == runs[id] # None /\ DOMAIN runs[id].slots # {} /\ AllSucceeded(runs[id].slots)

\* The rules the loop has finished, those that matched with actions to run.
Finished(w) == {r \in DOMAIN wk[w].snap \ wk[w].todo : ReadingOf(w, r) = "match"}
HasActions(w, r) == DOMAIN wk[w].snap[r].actions # {}

LoopPoints == {"loop", "create", "run", "finish"}

LoopControl(w) ==
  wk[w].pc \in LoopPoints /\ wk[w].job \in Events =>
    /\ wk[w].pc = "run" =>
         /\ wk[w].doc.rule \in DOMAIN wk[w].snap
         /\ HasActions(w, wk[w].doc.rule) => DOMAIN wk[w].doc.slots # {}
    /\ ~wk[w].failed =>
         \A r \in Finished(w) :
           HasActions(w, r) => \E id \in RowsFor(wk[w].job, r) : Done(id)
    /\ wk[w].pc = "finish" /\ ~wk[w].failed => wk[w].todo = {}
    /\ wk[w].pc # "finish" /\ used["edit"] = 0 =>
         /\ wk[w].snap = [r \in FindMatchingTriggers(wk[w].job) |-> rules[r]]
         /\ \A r \in Finished(w) : RowsFor(wk[w].job, r) # {}

LoopInv == \A w \in Workers : LoopControl(w)

-----------------------------------------------------------------------------
(* Steps.                                                                  *)

LEMMA DoneStays ==
  ASSUME TypeInv, TypeInv', LedgerInv, [Next]_vars, NEW e, NEW r,
         \E id \in RowsFor(e, r) : Done(id)
  PROVE  (\E id \in RowsFor(e, r) : Done(id))'
  <1>1. PICK id \in RunIds :
          /\ runs[id] # None /\ runs[id].event = e /\ runs[id].rule = r
          /\ DOMAIN runs[id].slots # {} /\ AllSucceeded(runs[id].slots)
    BY DEF RowsFor, Done
  <1>2. runs'[id] # None /\ Advances(runs[id], runs'[id])
    BY <1>1, RowsAdvance
  <1>3. /\ runs'[id].event = e /\ runs'[id].rule = r
        /\ DOMAIN runs'[id].slots # {} /\ AllSucceeded(runs'[id].slots)
    BY <1>1, <1>2 DEF Advances, Continues, AllSucceeded
  <1> QED BY <1>2, <1>3 DEF RowsFor, Done

LEMMA RowsStay ==
  ASSUME TypeInv, TypeInv', LedgerInv, [Next]_vars, NEW e, NEW r, RowsFor(e, r) # {}
  PROVE  RowsFor(e, r)' # {}
  <1>1. PICK id \in RunIds : runs[id] # None /\ runs[id].event = e /\ runs[id].rule = r
    BY DEF RowsFor
  <1>2. runs'[id] # None /\ Advances(runs[id], runs'[id])
    BY <1>1, RowsAdvance
  <1> QED BY <1>1, <1>2 DEF RowsFor, Advances

\* As long as no rule was edited the rules are those of the start.
LEMMA NoEdits ==
  ASSUME TypeInv, [Next]_vars, used'["edit"] = 0
  PROVE  used["edit"] = 0 /\ rules' = rules
  <1>1. used \in [Kinds -> Nat] /\ "edit" \in Kinds
    BY DEF TypeInv, TypeOK, Kinds
  <1>2. ASSUME NEW k \in Kinds, Spend(k) PROVE used["edit"] = 0 /\ k # "edit"
    BY <1>1, <1>2 DEF Spend
  <1>3. \/ UNCHANGED <<used, rules>>
        \/ UNCHANGED rules /\ \E k \in Kinds : Spend(k)
        \/ Spend("edit")
    <2>1. ASSUME NEW w \in Workers, Work(w)
          PROVE  UNCHANGED rules /\ (used' = used \/ \E k \in Kinds : Spend(k))
      <3>1. CASE RunAction(w)
        BY <3>1 DEF RunAction, Execute, Reject, Kinds
      <3>2. CASE ~RunAction(w)
        BY <2>1, <3>2 DEF Work, TakeJob, MarkProcessing, FindRules, RuleEvalThrows, FindRun,
             CreateRun, MarkProcessed, LoadRun, FindReplayRule, SaveRun, SaveConflict, Finish
      <3> QED BY <3>1, <3>2
    <2>2. ASSUME NEW w \in Workers, Interfere(w)
          PROVE  UNCHANGED rules /\ \E k \in Kinds : Spend(k)
      BY <2>2 DEF Interfere, DbError, Crash, LoseLock, Kinds
    <2>3. ASSUME NEW q \in ReplayJobs, Replay(q)
          PROVE  UNCHANGED rules /\ (used' = used \/ \E k \in Kinds : Spend(k))
      BY <2>3 DEF Replay, ReplayLoad, ReplayRequest, ReplaySave, ReplayConflict,
                  ReplayEnqueue, ReplayAbort, Kinds
    <2>4. ASSUME NEW r \in Rules, EditRule(r) PROVE Spend("edit")
      BY <2>4 DEF EditRule, CreateRule, UpdateRule, RemoveRule
    <2>5. ASSUME NEW j \in JobIds, Recover(j) PROVE UNCHANGED <<used, rules>>
      BY <2>5 DEF Recover
    <2>6. CASE UNCHANGED vars
      BY <2>6 DEF vars
    <2> QED BY <2>1, <2>2, <2>3, <2>4, <2>5, <2>6 DEF Next, Quiescent
  <1> QED BY <1>1, <1>2, <1>3

\* Only its own steps, and what breaks into them, move a worker.
LEMMA OwnSteps ==
  ASSUME TypeInv, [Next]_vars, NEW v \in Workers
  PROVE  wk'[v] = wk[v] \/ Work(v) \/ DbError(v) \/ Crash(v)
  <1>1. ASSUME NEW w \in Workers, Work(w), v # w PROVE wk'[v] = wk[v]
    <2>1. CASE TakeJob(w)
      BY <1>1, <2>1 DEF TakeJob, TypeInv, TypeOK
    <2>2. CASE Finish(w)
      BY <1>1, <2>2 DEF Finish, TypeInv, TypeOK
    <2> QED BY <1>1, <2>1, <2>2, WorkIsInside DEF Inside
  <1>2. ASSUME NEW w \in Workers, Interfere(w), v # w PROVE wk'[v] = wk[v]
    BY <1>2 DEF Interfere, DbError, Crash, LoseLock, Throw, TypeInv, TypeOK
  <1>3. Interfere(v) => DbError(v) \/ Crash(v) \/ wk'[v] = wk[v]
    BY DEF Interfere, LoseLock
  <1>4. (\E j \in JobIds : Recover(j)) \/ (\E r \in Rules : EditRule(r))
          \/ (\E q \in ReplayJobs : Replay(q)) \/ UNCHANGED vars => wk'[v] = wk[v]
    BY DEF Recover, EditRule, Replay, vars
  <1> QED BY <1>1, <1>2, <1>3, <1>4 DEF Next, Quiescent

\* The loop goes on with what it knows.
KeepsLoop(w) == /\ wk'[w].job = wk[w].job /\ wk'[w].snap = wk[w].snap
                /\ wk'[w].todo = wk[w].todo /\ wk'[w].failed = wk[w].failed

LEMMA LoopKept ==
  ASSUME TypeInv, TypeInv', LedgerInv, [Next]_vars, NEW w \in Workers, LoopControl(w),
         KeepsLoop(w), wk[w].pc \in LoopPoints \ {"finish"}, wk'[w].pc \in LoopPoints \ {"finish"},
         wk'[w].pc = "run" /\ wk[w].job \in Events =>
           /\ wk'[w].doc.rule \in DOMAIN wk[w].snap
           /\ HasActions(w, wk'[w].doc.rule) => DOMAIN wk'[w].doc.slots # {}
  PROVE  LoopControl(w)'
  <1> SUFFICES ASSUME wk[w].job \in Events
               PROVE  LoopControl(w)'
    BY DEF LoopControl, KeepsLoop
  <1>1. ASSUME ~wk[w].failed, NEW r \in DOMAIN wk[w].snap \ wk[w].todo,
               wk[w].snap[r].reading[wk[w].job] = "match", HasActions(w, r)
        PROVE  (\E id \in RowsFor(wk[w].job, r) : Done(id))'
    <2>1. \E id \in RowsFor(wk[w].job, r) : Done(id)
      BY <1>1 DEF LoopControl, Finished, ReadingOf
    <2> QED BY <2>1, DoneStays DEF KeepsLoop, RowsFor, Done
  <1>2. ASSUME used'["edit"] = 0, wk[w].pc # "finish"
        PROVE  /\ wk[w].snap = [r \in FindMatchingTriggers(wk[w].job) |-> rules[r]]'
               /\ \A r \in Finished(w) : RowsFor(wk[w].job, r)' # {}
    <2>1. used["edit"] = 0 /\ rules' = rules
      BY <1>2, NoEdits
    <2>2. /\ wk[w].snap = [r \in FindMatchingTriggers(wk[w].job) |-> rules[r]]
          /\ \A r \in Finished(w) : RowsFor(wk[w].job, r) # {}
      BY <1>2, <2>1 DEF LoopControl
    <2>3. \A r \in Finished(w) : RowsFor(wk[w].job, r)' # {}
      BY <2>2, RowsStay DEF KeepsLoop, RowsFor
    <2>4. wk[w].snap = [r \in FindMatchingTriggers(wk[w].job) |-> rules[r]]'
      <3>1. wk'[w].job = wk[w].job
        BY DEF KeepsLoop
      <3>2. FindMatchingTriggers(wk[w].job)' = FindMatchingTriggers(wk[w].job)
        BY <2>1, <3>1 DEF FindMatchingTriggers
      <3> QED BY <2>1, <2>2, <3>2
    <2> QED BY <2>3, <2>4
  <1> QED BY <1>1, <1>2 DEF LoopControl, KeepsLoop, Finished, ReadingOf, HasActions

LEMMA ResumeKeepsLoop ==
  ASSUME TypeInv, NEW w \in Workers, NEW id, NEW doc, NEW acts, Resume(w, id, doc, acts)
  PROVE  KeepsLoop(w)
  <1> DEFINE d == [doc EXCEPT !.slots = Slots(doc, acts)]
             record == [wk[w] EXCEPT !.pc = "run", !.run = id, !.doc = d,
                                     !.acts = acts, !.at = 0]
  <1>1. wk' = [wk EXCEPT ![w] = record]
    BY DEF Resume
  <1>2. wk[w] \in WorkerRecord
    BY DEF TypeInv, TypeOK
  <1> HIDE DEF d
  <1>3. /\ record.job = wk[w].job /\ record.snap = wk[w].snap
        /\ record.todo = wk[w].todo /\ record.failed = wk[w].failed
    BY <1>2 DEF WorkerRecord
  <1> HIDE DEF record
  <1>4. wk'[w] = record
    BY <1>1 DEF TypeInv, TypeOK
  <1> QED BY <1>3, <1>4 DEF KeepsLoop

LEMMA RunActionKeepsLoop ==
  ASSUME TypeInv, NEW w \in Workers, RunAction(w)
  PROVE  KeepsLoop(w)
  <1>1. PICK i, status : Record(w, i, status)
    BY DEF RunAction, Execute, Reject
  <1> DEFINE doc    == WithOutcome(wk[w].doc, i, status)
             record == [wk[w] EXCEPT !.at = i, !.doc = doc]
  <1>2. wk' = [wk EXCEPT ![w] = record]
    BY <1>1 DEF Record
  <1>3. wk[w] \in WorkerRecord
    BY DEF TypeInv, TypeOK
  <1> HIDE DEF doc
  <1>4. /\ record.job = wk[w].job /\ record.snap = wk[w].snap
        /\ record.todo = wk[w].todo /\ record.failed = wk[w].failed
    BY <1>3 DEF WorkerRecord
  <1> HIDE DEF record
  <1>5. wk'[w] = record
    BY <1>2 DEF TypeInv, TypeOK
  <1> QED BY <1>4, <1>5 DEF KeepsLoop

\* The rule a row is resumed for is one of those the loop works on, and its slots
\* are there if the rule has actions.
LEMMA ResumeForRule ==
  ASSUME TypeInv, NEW w \in Workers, NEW id, NEW row \in RunDoc, NEW r \in DOMAIN wk[w].snap,
         row.rule = r, Resume(w, id, row, wk[w].snap[r].actions)
  PROVE  /\ wk'[w].doc.rule \in DOMAIN wk[w].snap
         /\ HasActions(w, wk'[w].doc.rule) => DOMAIN wk'[w].doc.slots # {}
  <1> DEFINE slots == Slots(row, wk[w].snap[r].actions)
             d     == [row EXCEPT !.slots = slots]
  <1>1. wk'[w].doc = d
    BY ResumeStep
  <1>2. HasActions(w, r) => DOMAIN slots # {}
    BY DEF Slots, HasActions
  <1> HIDE DEF slots
  <1>3. d.rule = r /\ d.slots = slots
    BY DEF RunDoc
  <1> QED BY <1>1, <1>2, <1>3

LEMMA LoopFindRun ==
  ASSUME TypeInv, TypeInv', LedgerInv, [Next]_vars,
         NEW w \in Workers, LoopControl(w), FindRun(w)
  PROVE  LoopControl(w)'
  <1> wk[w] \in WorkerRecord /\ wk[w].todo \subseteq DOMAIN wk[w].snap
    BY DEF TypeInv, TypeOK, Control, WorkerControl
  <1>1. PICK r \in Rules :
          /\ Current(w, r)
          /\ \/ \E id \in RowsFor(wk[w].job, r) :
                  Resume(w, id, runs[id], wk[w].snap[r].actions)
             \/ wk' = [wk EXCEPT ![w].pc = "create"]
    BY DEF FindRun
  <1>2. r \in DOMAIN wk[w].snap /\ wk[w].pc = "loop"
    BY <1>1 DEF FindRun, Current, IsFirst
  <1>3. ASSUME NEW id \in RowsFor(wk[w].job, r),
               Resume(w, id, runs[id], wk[w].snap[r].actions)
        PROVE  LoopControl(w)'
    <2>1. runs[id] \in RunDoc /\ runs[id].rule = r
      BY <1>3 DEF RowsFor, TypeInv, TypeOK, JobsTypeOK
    <2>2. /\ wk'[w].doc.rule \in DOMAIN wk[w].snap
          /\ HasActions(w, wk'[w].doc.rule) => DOMAIN wk'[w].doc.slots # {}
      BY <1>2, <1>3, <2>1, ResumeForRule
    <2>3. KeepsLoop(w) /\ wk'[w].pc = "run"
      BY <1>3, ResumeKeepsLoop, ResumeStep
    <2> QED BY <1>2, <2>2, <2>3, LoopKept DEF LoopPoints
  <1>4. CASE wk' = [wk EXCEPT ![w].pc = "create"]
    <2>1. KeepsLoop(w) /\ wk'[w].pc = "create"
      BY <1>4 DEF KeepsLoop, TypeInv, TypeOK, WorkerRecord
    <2> QED BY <1>2, <2>1, LoopKept DEF LoopPoints
  <1> QED BY <1>1, <1>3, <1>4

LEMMA LoopCreateRun ==
  ASSUME TypeInv, TypeInv', LedgerInv, [Next]_vars,
         NEW w \in Workers, LoopControl(w), CreateRun(w)
  PROVE  LoopControl(w)'
  <1> wk[w].todo \subseteq DOMAIN wk[w].snap
    BY DEF TypeInv, Control, WorkerControl
  <1>1. PICK r \in Rules, id \in RunIds :
          Current(w, r) /\ Resume(w, id, NewRun(wk[w].job, r), wk[w].snap[r].actions)
    BY DEF CreateRun
  <1>2. r \in DOMAIN wk[w].snap /\ wk[w].pc = "create" /\ wk[w].job \in Events
    BY <1>1 DEF CreateRun, Current, IsFirst, TypeInv, Control, WorkerControl
  <1>3. NewRun(wk[w].job, r) \in RunDoc /\ NewRun(wk[w].job, r).rule = r
    BY <1>2, NewRunType DEF NewRun
  <1>4. /\ wk'[w].doc.rule \in DOMAIN wk[w].snap
        /\ HasActions(w, wk'[w].doc.rule) => DOMAIN wk'[w].doc.slots # {}
    BY <1>1, <1>2, <1>3, ResumeForRule
  <1>5. KeepsLoop(w) /\ wk'[w].pc = "run"
    BY <1>1, ResumeKeepsLoop, ResumeStep
  <1> QED BY <1>2, <1>4, <1>5, LoopKept DEF LoopPoints

LEMMA LoopRunAction ==
  ASSUME TypeInv, TypeInv', LedgerInv, [Next]_vars,
         NEW w \in Workers, LoopControl(w), RunAction(w)
  PROVE  LoopControl(w)'
  <1>1. PICK i \in DOMAIN wk[w].doc.slots, status \in ActionStatus :
          /\ wk[w].pc = "run" /\ wk'[w].pc = "run" /\ wk[w].doc \in RunDoc
          /\ wk'[w].doc = WithOutcome(wk[w].doc, i, status)
    BY RunActionStep
  <1>2. wk'[w].doc.rule = wk[w].doc.rule /\ DOMAIN wk'[w].doc.slots = DOMAIN wk[w].doc.slots
    BY <1>1, OutcomeDoc
  <1> QED BY <1>1, <1>2, RunActionKeepsLoop, LoopKept DEF LoopPoints, LoopControl

\* The rule whose row was saved joins the finished ones.
LEMMA LoopSaveRun ==
  ASSUME TypeInv, TypeInv', LedgerInv, OwnedInv, [Next]_vars,
         NEW w \in Workers, LoopControl(w), SaveRun(w)
  PROVE  LoopControl(w)'
  <1> DEFINE doc  == wk[w].doc
             next == IF wk[w].job \in Events THEN "loop" ELSE "finish"
             todo == wk[w].todo \ {doc.rule}
             fail == AnyFailure(wk[w].failed, AllSucceeded(doc.slots))
             record == [wk[w] EXCEPT !.pc = next, !.todo = todo, !.run = None,
                                     !.doc = None, !.acts = NoActions, !.at = 0,
                                     !.failed = fail]
  <1>1. wk' = [wk EXCEPT ![w] = record]
    BY DEF SaveRun
  <1>2. wk[w] \in WorkerRecord
    BY DEF TypeInv, TypeOK
  <1>3. ~fail => ~wk[w].failed /\ AllSucceeded(doc.slots)
    BY DEF AnyFailure
  <1>4. wk[w].job \in Events => next = "loop"
    OBVIOUS
  <1>5. doc.event = runs[wk[w].run].event /\ doc.rule = runs[wk[w].run].rule
    BY DEF SaveRun, LedgerInv, CopyOf
  <1>6. wk[w].job \in Events => doc.event = wk[w].job
    BY DEF SaveRun, OwnedInv, Owned
  <1>7. /\ wk[w].run \in RunIds /\ runs[wk[w].run] # None
        /\ Advances(runs[wk[w].run], runs'[wk[w].run])
        /\ runs'[wk[w].run].slots = doc.slots
    BY SaveRunStep
  <1>8. runs'[wk[w].run] # None
    BY <1>7, RowsAdvance
  <1>9. wk[w].pc = "run"
    BY DEF SaveRun
  <1>10. LoopControl(w) /\ ~fail /\ wk[w].job \in Events /\ HasActions(w, doc.rule) =>
           DOMAIN doc.slots # {}
    BY <1>9 DEF LoopControl, LoopPoints
  <1> HIDE DEF doc, next, todo, fail
  <1>11. /\ record.pc = next /\ record.job = wk[w].job /\ record.snap = wk[w].snap
         /\ record.todo = todo /\ record.failed = fail
    BY <1>2 DEF WorkerRecord
  <1> HIDE DEF record
  <1>12. wk'[w] = record
    BY <1>1 DEF TypeInv, TypeOK
  <1> SUFFICES ASSUME wk[w].job \in Events
               PROVE  LoopControl(w)'
    BY <1>11, <1>12 DEF LoopControl
  <1>13. ASSUME ~fail, NEW r \in DOMAIN wk[w].snap \ todo,
                wk[w].snap[r].reading[wk[w].job] = "match", HasActions(w, r)
         PROVE  (\E id \in RowsFor(wk[w].job, r) : Done(id))'
    <2>1. CASE r = doc.rule
      <3>1. /\ runs'[wk[w].run].event = wk[w].job /\ runs'[wk[w].run].rule = r
            /\ DOMAIN runs'[wk[w].run].slots # {} /\ AllSucceeded(runs'[wk[w].run].slots)
        BY <1>3, <1>5, <1>6, <1>7, <1>10, <1>13, <2>1 DEF Advances
      <3> QED BY <1>7, <1>8, <1>11, <1>12, <3>1 DEF RowsFor, Done
    <2>2. CASE r # doc.rule
      <3>1. r \in DOMAIN wk[w].snap \ wk[w].todo
        BY <1>13, <2>2 DEF todo
      <3>2. \E id \in RowsFor(wk[w].job, r) : Done(id)
        BY <1>3, <1>9, <1>13, <3>1 DEF LoopControl, LoopPoints, Finished, ReadingOf
      <3> QED BY <1>11, <1>12, <3>2, DoneStays DEF RowsFor, Done
    <2> QED BY <2>1, <2>2
  <1>14. ASSUME used'["edit"] = 0
         PROVE  /\ wk[w].snap = [r \in FindMatchingTriggers(wk[w].job) |-> rules'[r]]
                /\ UNCHANGED rules
                /\ \A r \in DOMAIN wk[w].snap \ todo :
                     wk[w].snap[r].reading[wk[w].job] = "match"
                       => RowsFor(wk[w].job, r)' # {}
    <2>1. used["edit"] = 0 /\ rules' = rules
      BY <1>14, NoEdits
    <2>2. /\ wk[w].snap = [r \in FindMatchingTriggers(wk[w].job) |-> rules[r]]
          /\ \A r \in Finished(w) : RowsFor(wk[w].job, r) # {}
      BY <1>9, <2>1 DEF LoopControl, LoopPoints
    <2>3. ASSUME NEW r \in DOMAIN wk[w].snap \ todo,
                 wk[w].snap[r].reading[wk[w].job] = "match"
          PROVE  RowsFor(wk[w].job, r)' # {}
      <3>1. CASE r = doc.rule
        BY <1>5, <1>6, <1>7, <1>8, <1>11, <1>12, <3>1 DEF Advances, RowsFor
      <3>2. CASE r # doc.rule
        <4>1. r \in Finished(w)
          BY <2>3, <3>2 DEF todo, Finished, ReadingOf
        <4> QED BY <1>11, <1>12, <2>2, <4>1, RowsStay DEF RowsFor
      <3> QED BY <3>1, <3>2
    <2> QED BY <2>1, <2>2, <2>3
  <1>15. /\ wk'[w].pc = "loop" /\ wk'[w].job = wk[w].job /\ wk'[w].snap = wk[w].snap
         /\ wk'[w].todo = todo /\ wk'[w].failed = fail
    BY <1>4, <1>11, <1>12
  <1>16. ~wk'[w].failed => \A r \in Finished(w)' :
           HasActions(w, r)' => (\E id \in RowsFor(wk[w].job, r) : Done(id))'
    BY <1>13, <1>15 DEF Finished, ReadingOf, HasActions
  <1>17. used'["edit"] = 0 =>
           /\ wk'[w].snap = [r \in FindMatchingTriggers(wk[w].job)' |-> rules'[r]]
           /\ \A r \in Finished(w)' : RowsFor(wk[w].job, r)' # {}
    <2>1. used'["edit"] = 0 =>
            FindMatchingTriggers(wk[w].job)' = FindMatchingTriggers(wk[w].job)
      BY <1>14, <1>15 DEF FindMatchingTriggers
    <2> QED BY <1>14, <1>15, <2>1 DEF Finished, ReadingOf
  <1> QED BY <1>15, <1>16, <1>17 DEF LoopControl

LEMMA LoopFindRules ==
  ASSUME TypeInv, [Next]_vars, NEW w \in Workers, FindRules(w)
  PROVE  LoopControl(w)'
  <1> DEFINE found  == FindMatchingTriggers(wk[w].job)
             snap   == [r \in found |-> rules[r]]
             todo   == {r \in found : rules[r].reading[wk[w].job] # "skip"}
             record == [wk[w] EXCEPT !.pc = "loop", !.snap = snap, !.todo = todo]
  <1>1. wk' = [wk EXCEPT ![w] = record] /\ UNCHANGED rules
    BY DEF FindRules
  <1> wk[w] \in WorkerRecord
    BY DEF TypeInv, TypeOK
  <1>2. \A r \in DOMAIN snap \ todo : snap[r].reading[wk[w].job] # "match"
    OBVIOUS
  <1> HIDE DEF snap, todo
  <1>3. /\ record.pc = "loop" /\ record.job = wk[w].job
        /\ record.snap = snap /\ record.todo = todo
    BY DEF WorkerRecord
  <1> HIDE DEF record
  <1>4. wk'[w] = record
    BY <1>1 DEF TypeInv, TypeOK
  <1>5. Finished(w)' = {}
    BY <1>2, <1>3, <1>4 DEF Finished, ReadingOf
  <1>6. wk'[w].snap = [r \in FindMatchingTriggers(wk[w].job)' |-> rules'[r]]
    <2>1. FindMatchingTriggers(wk[w].job)' = FindMatchingTriggers(wk[w].job)
      BY <1>1, <1>3, <1>4 DEF FindMatchingTriggers
    <2> QED BY <1>1, <1>3, <1>4, <2>1 DEF snap
  <1>7. wk'[w].pc = "loop"
    BY <1>3, <1>4
  <1> QED BY <1>5, <1>6, <1>7 DEF LoopControl

LEMMA LoopMarkProcessed ==
  ASSUME TypeInv, NEW w \in Workers, LoopControl(w), MarkProcessed(w)
  PROVE  LoopControl(w)'
  <1> DEFINE record == [wk[w] EXCEPT !.pc = "finish"]
  <1>1. wk' = [wk EXCEPT ![w] = record] /\ wk[w].pc = "loop" /\ UNCHANGED runs
    BY DEF MarkProcessed
  <1>2. wk[w].todo = {}
    BY DEF MarkProcessed, LoopDone
  <1>3. /\ record.pc = "finish" /\ record.job = wk[w].job /\ record.snap = wk[w].snap
        /\ record.todo = wk[w].todo /\ record.failed = wk[w].failed
    BY DEF WorkerRecord, TypeInv, TypeOK
  <1> HIDE DEF record
  <1>4. wk'[w] = record
    BY <1>1 DEF TypeInv, TypeOK
  <1>5. SUFFICES ASSUME wk[w].job \in Events, ~wk[w].failed, NEW r \in Finished(w)',
                        HasActions(w, r)'
                 PROVE  (\E id \in RowsFor(wk[w].job, r) : Done(id))'
    BY <1>2, <1>3, <1>4 DEF LoopControl
  <1>6. r \in Finished(w) /\ HasActions(w, r)
    BY <1>3, <1>4, <1>5 DEF Finished, ReadingOf, HasActions
  <1>7. PICK id \in RowsFor(wk[w].job, r) : Done(id)
    BY <1>1, <1>5, <1>6 DEF LoopControl, LoopPoints
  <1> QED BY <1>1, <1>3, <1>4, <1>7 DEF RowsFor, Done

\* A worker that has failed, or does not work on an event, knows nothing.
LEMMA LoopVacuous ==
  ASSUME NEW w \in Workers,
         \/ wk'[w].pc \notin LoopPoints
         \/ wk'[w].job \notin Events
         \/ wk'[w].pc = "finish" /\ wk'[w].failed
  PROVE  LoopControl(w)'
  BY DEF LoopControl

LEMMA LoopThrow ==
  ASSUME TypeInv, NEW w \in Workers, Throw(w)
  PROVE  LoopControl(w)'
  <1>1. wk'[w] = [Idle EXCEPT !.pc = "finish", !.job = wk[w].job, !.failed = TRUE]
    BY DEF Throw, TypeInv, TypeOK
  <1>2. wk'[w].pc = "finish" /\ wk'[w].failed
    BY <1>1 DEF Idle
  <1> QED BY <1>2, LoopVacuous

LEMMA LoopElsewhere ==
  ASSUME TypeInv, NEW w \in Workers,
         \/ TakeJob(w) \/ MarkProcessing(w) \/ LoadRun(w) \/ FindReplayRule(w)
         \/ Finish(w) \/ Crash(w)
  PROVE  LoopControl(w)'
  <1> wk[w] \in WorkerRecord
    BY DEF TypeInv, TypeOK
  <1>1. CASE TakeJob(w)
    <2>1. PICK j \in JobIds :
            wk' = [wk EXCEPT ![w].job = j,
                             ![w].pc = IF j \in Events THEN "started" ELSE "load"]
      BY <1>1 DEF TakeJob
    <2>2. wk'[w].pc \in {"started", "load"}
      BY <2>1 DEF TypeInv, TypeOK, WorkerRecord
    <2> QED BY <2>2, LoopVacuous DEF LoopPoints
  <1>2. CASE MarkProcessing(w)
    <2>1. wk'[w].pc = "rules"
      BY <1>2 DEF MarkProcessing, TypeInv, TypeOK, WorkerRecord
    <2> QED BY <2>1, LoopVacuous DEF LoopPoints
  <1>3. CASE LoadRun(w) \/ FindReplayRule(w)
    <2>1. wk[w].job \in ReplayJobs /\ wk[w].pc # "idle"
      BY <1>3 DEF LoadRun, FindReplayRule, TypeInv, Control, WorkerControl
    <2>2. wk'[w].job = wk[w].job
      <3>1. Inside(w)
        <4>1. Work(w) /\ ~TakeJob(w) /\ ~Finish(w)
          BY <1>3, <2>1 DEF Work, LoadRun, FindReplayRule, TakeJob, Finish
        <4> QED BY <4>1, WorkIsInside
      <3> QED BY <3>1 DEF Inside
    <2> QED BY <2>1, <2>2, LoopVacuous, TypesAssumption
  <1>4. CASE Finish(w) \/ Crash(w)
    <2>1. wk'[w] = Idle
      BY <1>4 DEF Finish, Crash, TypeInv, TypeOK
    <2> QED BY <2>1, LoopVacuous DEF Idle, LoopPoints
  <1> QED BY <1>1, <1>2, <1>3, <1>4

\* A worker that does not move, while others do.
LEMMA LoopWaits ==
  ASSUME TypeInv, TypeInv', LedgerInv, [Next]_vars, NEW w \in Workers, LoopControl(w),
         wk'[w] = wk[w]
  PROVE  LoopControl(w)'
  <1>1. CASE wk[w].pc \in LoopPoints \ {"finish"}
    <2>1. KeepsLoop(w)
      BY DEF KeepsLoop
    <2> QED BY <1>1, <2>1, LoopKept DEF LoopControl
  <1>2. CASE wk[w].pc = "finish" /\ wk[w].job \in Events /\ ~wk[w].failed
    <2>1. ASSUME NEW r \in Finished(w), HasActions(w, r)
          PROVE  (\E id \in RowsFor(wk[w].job, r) : Done(id))'
      <3>1. \E id \in RowsFor(wk[w].job, r) : Done(id)
        BY <1>2, <2>1 DEF LoopControl, LoopPoints
      <3> QED BY <3>1, DoneStays DEF RowsFor, Done
    <2> QED BY <1>2, <2>1 DEF LoopControl, LoopPoints, Finished, ReadingOf, HasActions
  <1>3. CASE \/ wk[w].pc \notin LoopPoints \/ wk[w].job \notin Events
             \/ wk[w].pc = "finish" /\ wk[w].failed
    BY <1>3, LoopVacuous
  <1> QED BY <1>1, <1>2, <1>3

LEMMA NextLoopInv ==
  TypeInv /\ TypeInv' /\ LedgerInv /\ OwnedInv /\ LoopInv /\ [Next]_vars => LoopInv'
  <1> SUFFICES ASSUME TypeInv, TypeInv', LedgerInv, OwnedInv, LoopInv, [Next]_vars,
                      NEW w \in Workers
               PROVE  LoopControl(w)'
    BY DEF LoopInv
  <1>1. LoopControl(w)
    BY DEF LoopInv
  <1>2. CASE Work(w)
    <2>1. CASE RuleEvalThrows(w) \/ SaveConflict(w)
      BY <2>1, LoopThrow DEF RuleEvalThrows, SaveConflict
    <2> QED BY <1>1, <1>2, <2>1, LoopFindRules, LoopFindRun, LoopCreateRun, LoopRunAction,
               LoopSaveRun, LoopMarkProcessed, LoopElsewhere DEF Work
  <1>3. CASE DbError(w)
    BY <1>3, LoopThrow DEF DbError
  <1> QED BY <1>1, <1>2, <1>3, OwnSteps, LoopElsewhere, LoopWaits

-----------------------------------------------------------------------------
(* The properties.                                                         *)

LEMMA InvariantLoop == Spec => [](TypeInv /\ LedgerInv /\ OwnedInv /\ LoopInv)
  <1>1. Init => LoopInv
    BY DEF Init, Idle, LoopInv, LoopControl, LoopPoints
  <1> QED BY <1>1, InitTypeInv, NextTypeInv, InitLedgerInv, NextLedgerInv, InitFiringInv,
             NextFiringInv, InitOwnedInv, NextOwnedInv, NextLoopInv, PTL DEF Spec

LEMMA LoopIsClean == TypeInv /\ LoopInv => CleanFinish
  <1> SUFFICES ASSUME TypeInv, LoopInv,
                      NEW w \in Workers, wk[w].pc = "finish", ~wk[w].failed,
                      wk[w].job \in Events, NEW r \in DOMAIN wk[w].snap,
                      ReadingOf(w, r) = "match", HasActions(w, r)
               PROVE  \E id \in RowsFor(wk[w].job, r) :
                        DOMAIN runs[id].slots # {} /\ AllSucceeded(runs[id].slots)
    BY DEF CleanFinish, HasActions
  <1>1. LoopControl(w) /\ wk[w].todo = {}
    BY DEF LoopInv, LoopControl, LoopPoints
  <1>2. r \in Finished(w)
    BY <1>1 DEF Finished
  <1> QED BY <1>1, <1>2 DEF LoopControl, LoopPoints, Done

\* A process-event job that is about to complete left a row whose actions all
\* succeeded for every rule that matched and has actions, whatever others wrote and
\* edited while it ran (webhook.processor.ts:80-111).
THEOREM FinishIsClean == Spec => []CleanFinish
  BY LoopIsClean, InvariantLoop, PTL

LEMMA NextProcessed ==
  TypeInv /\ TypeInv' /\ LedgerInv /\ LoopInv /\ ProcessedMeansEvaluated /\ [Next]_vars
    => ProcessedMeansEvaluated'
  <1> SUFFICES ASSUME TypeInv, TypeInv', LedgerInv, LoopInv, ProcessedMeansEvaluated,
                      [Next]_vars, used'["edit"] = 0
               PROVE  ProcessedMeansEvaluated'
    BY DEF ProcessedMeansEvaluated
  <1> SUFFICES ASSUME NEW e \in Events, eventStatus'[e] = "processed",
                      NEW r \in FindMatchingTriggers(e), rules[r].reading[e] = "match"
               PROVE  RowsFor(e, r)' # {}
    BY NoEdits DEF ProcessedMeansEvaluated, FindMatchingTriggers
  <1>1. used["edit"] = 0
    BY NoEdits
  <1>2. CASE eventStatus[e] = "processed"
    BY <1>1, <1>2, RowsStay DEF ProcessedMeansEvaluated
  <1>3. ASSUME NEW w \in Workers, MarkProcessed(w), wk[w].job = e
        PROVE  RowsFor(e, r)' # {}
    <2>1. wk[w].pc = "loop" /\ wk[w].todo = {} /\ UNCHANGED runs
      BY <1>3 DEF MarkProcessed, LoopDone
    <2>2. /\ wk[w].snap = [s \in FindMatchingTriggers(e) |-> rules[s]]
          /\ \A s \in Finished(w) : RowsFor(e, s) # {}
      BY <1>1, <1>3, <2>1 DEF LoopInv, LoopControl, LoopPoints
    <2>3. r \in Finished(w)
      BY <1>3, <2>1, <2>2 DEF Finished, ReadingOf
    <2> QED BY <2>1, <2>2, <2>3 DEF RowsFor
  <1>4. ASSUME eventStatus[e] # "processed"
        PROVE  \E w \in Workers : MarkProcessed(w) /\ wk[w].job = e
    <2>1. eventStatus' # eventStatus
      BY <1>4
    <2>2. ASSUME NEW w \in Workers, Work(w)
          PROVE  MarkProcessed(w) /\ wk[w].job = e
      <3>1. MarkProcessing(w) \/ MarkProcessed(w)
        BY <2>1, <2>2 DEF Work, TakeJob, FindRules, RuleEvalThrows, FindRun, CreateRun,
           LoadRun, FindReplayRule, RunAction, SaveRun, SaveConflict, Finish
      <3>2. CASE MarkProcessing(w)
        BY <1>4, <3>2 DEF MarkProcessing, TypeInv, TypeOK
      <3>3. CASE MarkProcessed(w)
        BY <1>4, <3>3 DEF MarkProcessed, TypeInv, TypeOK
      <3> QED BY <3>1, <3>2, <3>3
    <2>3. ASSUME NEW w \in Workers, Interfere(w) PROVE FALSE
      BY <2>1, <2>3 DEF Interfere, DbError, Crash, LoseLock
    <2>4. (\E j \in JobIds : Recover(j)) \/ (\E s \in Rules : EditRule(s))
            \/ (\E q \in ReplayJobs : Replay(q)) \/ UNCHANGED vars => FALSE
      BY <2>1 DEF Recover, EditRule, Replay, vars
    <2> QED BY <2>2, <2>3, <2>4 DEF Next, Quiescent
  <1> QED BY <1>2, <1>3, <1>4

\* While the rules are not edited, an event marked PROCESSED has a row for each
\* enabled rule that matches it (webhook-event.schema.ts:9, webhook.processor.ts:98-101).
THEOREM ProcessedIsEvaluated == Spec => []ProcessedMeansEvaluated
  <1>1. Init => ProcessedMeansEvaluated
    BY DEF Init, ProcessedMeansEvaluated
  <1> QED BY <1>1, NextProcessed, InvariantLoop, PTL DEF Spec

-----------------------------------------------------------------------------
(* How often an action is taken.                                           *)

\* What makes the engine forget a success.
Losses == used["crash"] + used["dbError"] + used["lostReply"]

Alone == used["lockLoss"] = 0 /\ \A q \in ReplayJobs : req[q].pc = "unused"

\* A success that is on record, or in the copy a worker will save.
HasSuccess(doc, x) == /\ doc.event = x[1] /\ doc.rule = x[2]
                      /\ x[3] \in DOMAIN doc.slots /\ ~Outstanding(doc.slots[x[3]])

Known(x) == \/ x \in Recorded
            \/ \E w \in Workers : wk[w].pc = "run" /\ HasSuccess(wk[w].doc, x)

RepeatInv == Alone => \A x \in Places : /\ effects[x] <= Losses + 1
                                        /\ ~Known(x) => effects[x] <= Losses

LEMMA AloneStayed ==
  ASSUME TypeInv, [Next]_vars, Alone'
  PROVE  Alone /\ \A w \in Workers : ~LoseLock(w)
  <1>1. \A q \in ReplayJobs : req[q].pc = "unused"
    BY RequestSteps DEF Alone
  <1> QED BY <1>1, LocksStayLost DEF Alone

LEMMA LossesGrow ==
  ASSUME TypeInv, [Next]_vars
  PROVE  /\ Losses \in Nat /\ Losses' \in Nat /\ Losses' >= Losses
         /\ Spend("crash") \/ Spend("dbError") \/ Spend("lostReply") => Losses' = Losses + 1
  <1>1. used \in [Kinds -> Nat]
    BY DEF TypeInv, TypeOK
  <1>2. ASSUME NEW k \in Kinds, Spend(k)
        PROVE  used'[k] = used[k] + 1 /\ \A l \in Kinds \ {k} : used'[l] = used[l]
    BY <1>1, <1>2 DEF Spend
  <1>3. {"crash", "dbError", "lostReply"} \subseteq Kinds
    BY DEF Kinds
  <1>4. used["crash"] \in Nat /\ used["dbError"] \in Nat /\ used["lostReply"] \in Nat
    BY <1>1, <1>3
  <1>5. ASSUME NEW k \in {"crash", "dbError", "lostReply"}, Spend(k)
        PROVE  Losses' = Losses + 1
    BY <1>2, <1>3, <1>4, <1>5 DEF Losses
  <1>6. ASSUME NEW k \in Kinds, Spend(k), k \notin {"crash", "dbError", "lostReply"}
        PROVE  Losses' = Losses
    BY <1>2, <1>3, <1>6 DEF Losses
  <1>7. CASE used' = used
    <2>1. Losses' = Losses
      BY <1>7 DEF Losses
    <2>2. ~Spend("crash") /\ ~Spend("dbError") /\ ~Spend("lostReply")
      BY <1>2, <1>3, <1>4, <1>7
    <2> QED BY <1>4, <2>1, <2>2 DEF Losses
  <1>8. Losses \in Nat
    BY <1>4 DEF Losses
  <1>9. CASE \E k \in Kinds : Spend(k)
    BY <1>5, <1>6, <1>8, <1>9
  <1> QED BY <1>5, <1>7, <1>8, <1>9, UsedSteps

\* While nobody replays and every lock is kept, a row is run by one worker with the
\* newest copy, for the event of its job.
LEMMA AloneRuns ==
  ASSUME TypeInv, OwnedInv, Alone, NEW w \in Workers, wk[w].pc = "run"
  PROVE  /\ wk[w].job \in Events /\ wk[w].doc.event = wk[w].job
         /\ wk[w].doc.ver = runs[wk[w].run].ver
  <1>1. wk[w].job \in Events
    BY RowType DEF JobIds, Alone, TypeInv, Control, WorkerControl, Past
  <1>2. wk[w].run \in RunIds /\ wk[w].run # None
    BY RowType, TypesAssumption
  <1>3. \A q \in ReplayJobs : req[q].run = None
    BY DEF OwnedInv, Alone
  <1>4. ~Shared(wk[w].run)
    <2>1. ~(used["lockLoss"] > 0)
      BY DEF Alone
    <2> QED BY <1>2, <1>3, <2>1 DEF Shared
  <1> QED BY <1>1, <1>4 DEF OwnedInv, Owned

LEMMA NotContested ==
  ASSUME OwnedInv, Alone
  PROVE  Contested = {}
  <1>1. \A q \in ReplayJobs : req[q].run \notin RunIds
    BY TypesAssumption DEF OwnedInv, Alone
  <1>2. ~(used["lockLoss"] > 0)
    BY DEF Alone
  <1> QED BY <1>1, <1>2 DEF Contested, RowsFor

\* What a worker is about to run succeeded neither on record nor in any memory.
LEMMA DueIsUnknown ==
  ASSUME TypeInv, LedgerInv, FiringInv, OwnedInv, Alone,
         NEW w \in Workers, wk[w].pc = "run",
         NEW i \in DOMAIN wk[w].doc.slots, Outstanding(wk[w].doc.slots[i])
  PROVE  ~Known(<<wk[w].doc.event, wk[w].doc.rule, i>>)
  <1> DEFINE x == <<wk[w].doc.event, wk[w].doc.rule, i>>
  <1>1. x \notin Recorded
    BY RepeatIsContested, NotContested
  <1>2. ASSUME NEW v \in Workers, wk[v].pc = "run", HasSuccess(wk[v].doc, x)
        PROVE  FALSE
    <2>1. wk[v].job = wk[w].job
      BY <1>2, AloneRuns DEF HasSuccess
    <2>2. HoldsLock(wk[v].job, v) /\ HoldsLock(wk[w].job, w)
      BY <1>2 DEF Alone, FiringInv, Locked
    <2>3. v = w
      BY <2>1, <2>2 DEF HoldsLock
    <2> QED BY <1>2, <2>3 DEF HasSuccess
  <1> QED BY <1>1, <1>2 DEF Known

LEMMA LeavesRun ==
  ASSUME TypeInv, [Next]_vars, NEW v \in Workers, wk[v].pc = "run"
  PROVE  \/ wk'[v] = wk[v]
         \/ RunAction(v) \/ SaveRun(v) \/ SaveConflict(v) \/ DbError(v) \/ Crash(v)
  <1>1. ASSUME NEW w \in Workers, Work(w), v # w PROVE wk'[v] = wk[v]
    <2>1. CASE TakeJob(w)
      BY <1>1, <2>1 DEF TakeJob, TypeInv, TypeOK
    <2>2. CASE Finish(w)
      BY <1>1, <2>2 DEF Finish, TypeInv, TypeOK
    <2> QED BY <1>1, <2>1, <2>2, WorkIsInside DEF Inside
  <1>2. Work(v) => RunAction(v) \/ SaveRun(v) \/ SaveConflict(v)
    BY DEF Work, TakeJob, MarkProcessing, FindRules, RuleEvalThrows, FindRun, CreateRun,
       MarkProcessed, LoadRun, FindReplayRule, Finish
  <1>3. ASSUME NEW w \in Workers, Interfere(w), v # w PROVE wk'[v] = wk[v]
    <2>1. CASE DbError(w)
      BY <1>3, <2>1, ThrowIsInside DEF DbError, Inside
    <2>2. CASE Crash(w)
      BY <1>3, <2>2 DEF Crash, TypeInv, TypeOK
    <2>3. CASE LoseLock(w)
      BY <2>3 DEF LoseLock
    <2> QED BY <1>3, <2>1, <2>2, <2>3 DEF Interfere
  <1>4. Interfere(v) => wk'[v] = wk[v] \/ DbError(v) \/ Crash(v)
    BY DEF Interfere, LoseLock
  <1>5. (\E j \in JobIds : Recover(j)) \/ (\E r \in Rules : EditRule(r))
          \/ (\E q \in ReplayJobs : Replay(q)) \/ UNCHANGED vars => wk'[v] = wk[v]
    BY DEF Recover, EditRule, Replay, vars
  <1> QED BY <1>1, <1>2, <1>3, <1>4, <1>5 DEF Next, Quiescent

\* A worker that gets to the save puts its successes on record.
LEMMA SavedIsRecorded ==
  ASSUME TypeInv, TypeInv', LedgerInv, NEW v \in Workers, SaveRun(v),
         NEW x \in Places, HasSuccess(wk[v].doc, x)
  PROVE  x \in Recorded'
  <1> DEFINE id == wk[v].run
  <1>1. /\ wk[v].pc = "run" /\ id \in RunIds /\ runs[id] # None
        /\ Advances(runs[id], runs'[id])
        /\ runs'[id].slots = wk[v].doc.slots
    BY SaveRunStep
  <1>2. runs'[id].event = x[1] /\ runs'[id].rule = x[2]
    BY <1>1 DEF HasSuccess, LedgerInv, CopyOf, Advances
  <1>3. runs'[id] # None
    <2>1. /\ wk[v].doc \in RunDoc /\ wk[v].doc.slots \in SlotArrays
          /\ FinalStatus(wk[v].doc.slots) \in JobStatus
      BY <1>1, RowType DEF RunDoc, FinalStatus, JobStatus
    <2>2. SameRows
      BY SaveRunRows
    <2> QED BY <1>1, <2>2 DEF SameRows
  <1> HIDE DEF id
  <1> QED BY <1>1, <1>2, <1>3 DEF Recorded, RowsFor, HasSuccess

\* Only a fault makes the engine forget a success.
LEMMA ForgottenByFault ==
  ASSUME TypeInv, TypeInv', LedgerInv, OwnedInv, Alone, [Next]_vars,
         \A w \in Workers : ~RunAction(w),
         NEW x \in Places, Known(x), ~Known(x)'
  PROVE  Losses' = Losses + 1
  <1>1. x \notin Recorded
    BY RecordedGrows DEF Known
  <1>2. PICK v \in Workers : wk[v].pc = "run" /\ HasSuccess(wk[v].doc, x)
    BY <1>1 DEF Known
  <1>3. wk'[v] # wk[v]
    BY <1>2 DEF Known, HasSuccess
  <1>4. ~SaveRun(v)
    BY <1>2, SavedIsRecorded DEF Known
  <1>5. ~SaveConflict(v)
    BY <1>2, AloneRuns DEF SaveConflict, Stale
  <1>6. DbError(v) \/ Crash(v)
    BY <1>2, <1>3, <1>4, <1>5, LeavesRun
  <1> QED BY <1>6, LossesGrow DEF DbError, Crash

LEMMA RepeatRunAction ==
  ASSUME TypeInv, TypeInv', LedgerInv, FiringInv, OwnedInv, RepeatInv, Alone, [Next]_vars,
         NEW w \in Workers, RunAction(w), NEW x \in Places
  PROVE  effects'[x] <= Losses' + 1 /\ (~Known(x)' => effects'[x] <= Losses')
  <1>1. PICK i \in DOMAIN wk[w].doc.slots, status \in ActionStatus :
          /\ wk[w].pc = "run" /\ wk[w].doc \in RunDoc
          /\ <<wk[w].doc.event, wk[w].doc.rule, i>> \in Places
          /\ Outstanding(wk[w].doc.slots[i])
          /\ wk'[w].pc = "run"
          /\ wk'[w].doc = WithOutcome(wk[w].doc, i, status)
          /\ \/ effects' = effects
             \/ TakeEffect(w, i) /\ (status = "succeeded" \/ Spend("lostReply"))
    BY RunActionStep
  <1> DEFINE y   == <<wk[w].doc.event, wk[w].doc.rule, i>>
             new == WithOutcome(wk[w].doc, i, status)
  <1>2. /\ new.event = wk[w].doc.event /\ new.rule = wk[w].doc.rule
        /\ DOMAIN new.slots = DOMAIN wk[w].doc.slots
        /\ new.slots[i].status = status
        /\ \A j \in DOMAIN wk[w].doc.slots \ {i} : new.slots[j] = wk[w].doc.slots[j]
    BY <1>1, OutcomeDoc
  <1> HIDE DEF new
  <1>3. \A z \in Places : effects[z] \in Nat
    BY EffectsType DEF Effects
  <1>4. effects[x] <= Losses + 1 /\ (~Known(x) => effects[x] <= Losses)
    BY DEF RepeatInv
  <1>5. Known(x) => Known(x)'
    <2>1. Recorded' = Recorded
      BY DEF RunAction, Recorded, RowsFor
    <2>2. ASSUME NEW v \in Workers, wk[v].pc = "run", HasSuccess(wk[v].doc, x)
          PROVE  wk'[v].pc = "run" /\ HasSuccess(wk'[v].doc, x)
      <3>1. CASE v = w
        BY <1>1, <1>2, <2>2, <3>1 DEF HasSuccess, new
      <3>2. CASE v # w
        <4>1. wk'[v] = wk[v]
          BY <3>2, WorkIsInside DEF Inside, Work, RunAction, TakeJob, Finish
        <4> QED BY <2>2, <4>1
      <3> QED BY <3>1, <3>2
    <2> QED BY <2>1, <2>2 DEF Known, HasSuccess
  <1>6. CASE effects' = effects
    BY <1>3, <1>4, <1>5, <1>6, LossesGrow
  <1>7. CASE TakeEffect(w, i) /\ (status = "succeeded" \/ Spend("lostReply"))
    <2>1. effects'[y] = effects[y] + 1 /\ \A z \in Places \ {y} : effects'[z] = effects[z]
      <3>1. effects \in [Places -> Nat] /\ y \in Places
        BY <1>1, EffectsType DEF Effects
      <3>2. effects' = [effects EXCEPT ![y] = effects[y] + 1]
        BY <1>7 DEF TakeEffect
      <3> HIDE DEF y
      <3> QED BY <3>1, <3>2
    <2>2. CASE x # y
      BY <1>3, <1>4, <1>5, <2>1, <2>2, LossesGrow
    <2>3. CASE x = y
      <3>1. ~Known(x)
        BY <1>1, <2>3, DueIsUnknown
      <3>2. effects'[x] <= Losses + 1
        BY <1>3, <1>4, <2>1, <2>3, <3>1, LossesGrow
      <3>3. CASE Spend("lostReply")
        BY <1>3, <2>1, <2>3, <3>2, <3>3, LossesGrow
      <3>4. CASE status = "succeeded"
        <4>1. HasSuccess(new, x)
          BY <1>2, <2>3, <3>4 DEF HasSuccess, Outstanding
        <4>2. Known(x)'
          BY <1>1, <4>1 DEF Known, HasSuccess, new
        <4> QED BY <1>3, <2>1, <2>3, <3>2, <4>2, LossesGrow
      <3> QED BY <1>7, <3>3, <3>4
    <2> QED BY <2>2, <2>3
  <1> QED BY <1>1, <1>6, <1>7

LEMMA NextRepeatInv ==
  TypeInv /\ TypeInv' /\ LedgerInv /\ FiringInv /\ OwnedInv /\ RepeatInv /\ [Next]_vars
    => RepeatInv'
  <1> SUFFICES ASSUME TypeInv, TypeInv', LedgerInv, FiringInv, OwnedInv, RepeatInv,
                      [Next]_vars, Alone', NEW x \in Places
               PROVE  effects'[x] <= Losses' + 1 /\ (~Known(x)' => effects'[x] <= Losses')
    BY DEF RepeatInv
  <1>1. Alone
    BY AloneStayed
  <1>2. ASSUME NEW w \in Workers, RunAction(w)
        PROVE  effects'[x] <= Losses' + 1 /\ (~Known(x)' => effects'[x] <= Losses')
    BY <1>1, <1>2, RepeatRunAction
  <1>3. CASE \A w \in Workers : ~RunAction(w)
    <2>1. effects' = effects /\ effects[x] \in Nat
      BY <1>3, OnlyRunActionActs, EffectsType DEF Effects
    <2>2. effects[x] <= Losses + 1 /\ (~Known(x) => effects[x] <= Losses)
      BY <1>1 DEF RepeatInv
    <2>3. Known(x) /\ ~Known(x)' => Losses' = Losses + 1
      BY <1>1, <1>3, ForgottenByFault
    <2> QED BY <2>1, <2>2, <2>3, LossesGrow
  <1> QED BY <1>2, <1>3

LEMMA InitRepeatInv == Init => RepeatInv
  <1> SUFFICES ASSUME Init, NEW x \in Places
               PROVE  effects[x] <= Losses + 1 /\ effects[x] <= Losses
    BY DEF RepeatInv
  <1>1. effects[x] = 0
    BY DEF Init, Places
  <1>2. Losses = 0
    BY DEF Init, Unspent, Kinds, Losses
  <1> QED BY <1>1, <1>2

\* Without replays and lost locks an action is taken at most once, and once more for
\* every crash, database error and lost reply, through any number of attempts: what
\* a copy remembers is lost only with the worker, and what is on record is skipped
\* (webhook.processor.ts:51-56, 177-215).
THEOREM RepeatsAreFaults == Spec => []RepeatsNeedFaults
  <1>1. ASSUME TypeInv, RepeatInv PROVE RepeatsNeedFaults
    <2> SUFFICES ASSUME Alone, NEW x \in DOMAIN effects
                 PROVE  effects[x] <= 1 + used["crash"] + used["dbError"] + used["lostReply"]
      BY DEF RepeatsNeedFaults, Alone
    <2>1. x \in Places
      BY EffectsType, <1>1 DEF Effects
    <2>2. effects[x] <= Losses + 1
      BY <1>1, <2>1 DEF RepeatInv
    <2>3. /\ effects[x] \in Nat /\ used["crash"] \in Nat /\ used["dbError"] \in Nat
          /\ used["lostReply"] \in Nat
      BY <1>1, <2>1, EffectsType DEF Effects, TypeInv, TypeOK, Kinds
    <2> QED BY <2>2, <2>3 DEF Losses
  <1> QED BY <1>1, InitTypeInv, NextTypeInv, InitLedgerInv, NextLedgerInv, InitFiringInv,
             NextFiringInv, InitOwnedInv, NextOwnedInv, InitRepeatInv, NextRepeatInv,
             PTL DEF Spec

-----------------------------------------------------------------------------
(* Queued rows are pursued. Somewhere there is a job, due or in the hands  *)
(* of a worker, whose attempts at the row can still be counted: one failed *)
(* for every database error, and at most one for a save it was refused.    *)

Lapsed(j) == queue[j].state = "active" /\ queue[j].owner = None

Stalls == used["crash"] + used["lockLoss"]

\* No job stalls but by a crash or a lost lock.
StallInv == \A j \in JobIds : /\ queue[j].stalls <= Stalls
                              /\ Lapsed(j) => queue[j].stalls + 1 <= Stalls

LEMMA UsedGrows ==
  ASSUME TypeInv, [Next]_vars, NEW k \in Kinds
  PROVE  /\ used[k] \in Nat /\ used'[k] \in Nat /\ used'[k] >= used[k]
         /\ Spend(k) => used'[k] = used[k] + 1
  <1>1. used \in [Kinds -> Nat]
    BY DEF TypeInv, TypeOK
  <1>2. ASSUME NEW kind \in Kinds, Spend(kind)
        PROVE  used' = [used EXCEPT ![kind] = used[kind] + 1]
    BY <1>2 DEF Spend
  <1> QED BY <1>1, <1>2, UsedSteps

LEMMA StallsGrow ==
  ASSUME TypeInv, [Next]_vars
  PROVE  /\ Stalls \in Nat /\ Stalls' \in Nat /\ Stalls' >= Stalls
         /\ Spend("crash") \/ Spend("lockLoss") => Stalls' >= Stalls + 1
  <1>1. "crash" \in Kinds /\ "lockLoss" \in Kinds
    BY DEF Kinds
  <1> QED BY <1>1, UsedGrows DEF Stalls

\* What a step may do to a job.
TakenBy(w, j) == /\ TakeJob(w) /\ queue[j].state = "waiting"
                 /\ queue'[j] = [queue[j] EXCEPT !.state = "active", !.owner = w]
                 /\ wk'[w].job = j

EndedBy(w, j) ==
  /\ Finish(w) /\ wk[w].job = j /\ HoldsLock(j, w)
  /\ \/ /\ ~wk[w].failed
        /\ queue'[j] = [queue[j] EXCEPT !.state = "completed", !.owner = None]
     \/ /\ wk[w].failed
        /\ queue'[j] = [queue[j] EXCEPT
                          !.state    = IF RetriesLeft(j) THEN "waiting" ELSE "failed",
                          !.attempts = queue[j].attempts + 1,
                          !.owner    = None]

LeftBy(w, j) == /\ Crash(w) \/ LoseLock(w)
                /\ wk[w].job = j /\ HoldsLock(j, w)
                /\ queue'[j] = [queue[j] EXCEPT !.owner = None]

TakenBack(j) ==
  /\ Lapsed(j)
  /\ queue'[j] = [queue[j] EXCEPT
       !.state  = IF queue[j].stalls < MaxStalledCount THEN "waiting" ELSE "failed",
       !.stalls = queue[j].stalls + 1]

AddedNow(j) == queue[j].state = "absent" /\ queue'[j] = Fresh("waiting")

LEMMA JobSteps ==
  ASSUME TypeInv, [Next]_vars, NEW j \in JobIds
  PROVE  \/ queue'[j] = queue[j]
         \/ AddedNow(j) \/ TakenBack(j)
         \/ \E w \in Workers : TakenBy(w, j) \/ EndedBy(w, j) \/ LeftBy(w, j)
  <1> queue \in [JobIds -> JobRecord] /\ wk \in [Workers -> WorkerRecord]
    BY DEF TypeInv, TypeOK, QueueTypeOK
  <1>1. ASSUME NEW w \in Workers, Finish(w)
        PROVE  queue'[j] = queue[j] \/ EndedBy(w, j)
    <2> DEFINE i == wk[w].job
    <2>1. i \in JobIds
      BY <1>1 DEF Finish, TypeInv, Control, WorkerControl
    <2>2. CASE j = i
      BY <1>1, <2>1, <2>2 DEF Finish, EndedBy, FailAttempt, Complete
    <2>3. CASE j # i
      BY <1>1, <2>1, <2>3 DEF Finish, FailAttempt, Complete
    <2> QED BY <2>2, <2>3
  <1>2. ASSUME NEW w \in Workers, Crash(w) \/ LoseLock(w)
        PROVE  queue'[j] = queue[j] \/ LeftBy(w, j)
    <2> DEFINE i == wk[w].job
    <2>1. i \in JobIds
      BY <1>2 DEF Crash, LoseLock, TypeInv, Control, WorkerControl
    <2>2. CASE j = i
      BY <1>2, <2>1, <2>2 DEF Crash, LoseLock, LeftBy, ReleaseLock
    <2>3. CASE j # i
      BY <1>2, <2>1, <2>3 DEF Crash, LoseLock, ReleaseLock
    <2> QED BY <2>2, <2>3
  <1>3. ASSUME NEW w \in Workers, TakeJob(w)
        PROVE  queue'[j] = queue[j] \/ TakenBy(w, j)
    <2>1. PICK i \in JobIds :
            /\ Activate(i, w)
            /\ wk' = [wk EXCEPT ![w].job = i,
                                ![w].pc = IF i \in Events THEN "started" ELSE "load"]
      BY <1>3 DEF TakeJob
    <2>2. wk'[w].job = i
      BY <2>1 DEF WorkerRecord
    <2>3. CASE j = i
      BY <1>3, <2>1, <2>2, <2>3 DEF Activate, TakenBy
    <2>4. CASE j # i
      BY <2>1, <2>4 DEF Activate
    <2> QED BY <2>3, <2>4
  <1>4. ASSUME NEW w \in Workers, Work(w), ~TakeJob(w), ~Finish(w) PROVE queue' = queue
    BY <1>4, WorkIsInside DEF Inside
  <1>5. ASSUME NEW i \in JobIds, Recover(i) PROVE queue'[j] = queue[j] \/ TakenBack(j)
    <2>1. CASE j = i
      BY <1>5, <2>1 DEF Recover, RecoverStalled, TakenBack, Lapsed
    <2>2. CASE j # i
      BY <1>5, <2>2 DEF Recover, RecoverStalled
    <2> QED BY <2>1, <2>2
  <1>6. ASSUME NEW q \in ReplayJobs, Replay(q) PROVE queue'[j] = queue[j] \/ AddedNow(j)
    <2>1. CASE ReplayEnqueue(q)
      <3> DEFINE i == req[q].as
      <3>1. i \in JobIds
        BY <2>1 DEF ReplayEnqueue, TypeInv, Control, RequestControl, JobIds
      <3>2. CASE j = i
        BY <2>1, <3>1, <3>2 DEF ReplayEnqueue, Enqueue, AddedNow
      <3>3. CASE j # i
        BY <2>1, <3>1, <3>3 DEF ReplayEnqueue, Enqueue
      <3> QED BY <3>2, <3>3
    <2>2. CASE ~ReplayEnqueue(q)
      BY <1>6, <2>2 DEF Replay, ReplayLoad, ReplayRequest, ReplaySave, ReplayConflict, ReplayAbort
    <2> QED BY <2>1, <2>2
  <1>7. ASSUME NEW w \in Workers, DbError(w) PROVE queue' = queue
    BY <1>7 DEF DbError
  <1>8. (\E r \in Rules : EditRule(r)) \/ UNCHANGED vars => queue' = queue
    BY DEF EditRule, vars
  <1> QED BY <1>1, <1>2, <1>3, <1>4, <1>5, <1>6, <1>7, <1>8 DEF Next, Work, Interfere, Quiescent

LEMMA NextStallInv == TypeInv /\ StallInv /\ [Next]_vars => StallInv'
  <1> SUFFICES ASSUME TypeInv, StallInv, [Next]_vars, NEW j \in JobIds
               PROVE  /\ queue'[j].stalls <= Stalls'
                      /\ Lapsed(j)' => queue'[j].stalls + 1 <= Stalls'
    BY DEF StallInv
  <1>1. /\ queue[j] \in JobRecord
        /\ queue[j].stalls \in Nat /\ queue[j].stalls <= Stalls
        /\ Lapsed(j) => queue[j].stalls + 1 <= Stalls
    BY DEF StallInv, TypeInv, TypeOK, QueueTypeOK, JobRecord
  <1>2. CASE queue'[j] = queue[j]
    BY <1>1, <1>2, StallsGrow DEF Lapsed
  <1>3. CASE AddedNow(j)
    BY <1>1, <1>3, StallsGrow DEF AddedNow, Fresh, Lapsed
  <1>4. CASE TakenBack(j)
    <2>1. queue'[j].stalls = queue[j].stalls + 1 /\ queue'[j].state # "active"
      BY <1>1, <1>4 DEF TakenBack, JobRecord
    <2> QED BY <1>1, <1>4, <2>1, StallsGrow DEF TakenBack, Lapsed
  <1>5. ASSUME NEW w \in Workers, TakenBy(w, j)
        PROVE  queue'[j].stalls = queue[j].stalls /\ queue'[j].owner # None
    BY <1>1, <1>5, TypesAssumption DEF TakenBy, JobRecord
  <1>6. ASSUME NEW w \in Workers, EndedBy(w, j)
        PROVE  queue'[j].stalls = queue[j].stalls /\ queue'[j].state # "active"
    <2>1. CASE wk[w].failed
      <3>1. queue'[j] = [queue[j] EXCEPT
                           !.state    = IF RetriesLeft(j) THEN "waiting" ELSE "failed",
                           !.attempts = queue[j].attempts + 1,
                           !.owner    = None]
        BY <1>6, <2>1 DEF EndedBy
      <3> QED BY <1>1, <3>1 DEF JobRecord
    <2>2. CASE ~wk[w].failed
      BY <1>1, <1>6, <2>2 DEF EndedBy, JobRecord
    <2> QED BY <2>1, <2>2
  <1>7. ASSUME NEW w \in Workers, LeftBy(w, j)
        PROVE  queue'[j].stalls = queue[j].stalls /\ Stalls' >= Stalls + 1
    <2>1. queue'[j].stalls = queue[j].stalls
      BY <1>1, <1>7 DEF LeftBy, JobRecord
    <2>2. Spend("crash") \/ Spend("lockLoss")
      BY <1>7 DEF LeftBy, Crash, LoseLock
    <2> QED BY <2>1, <2>2, StallsGrow
  <1> QED BY <1>1, <1>2, <1>3, <1>4, <1>5, <1>6, <1>7, JobSteps, StallsGrow DEF Lapsed

Holding == {"replayRules", "run"}

\* The worker would save the row and leave its status as it is: it read the row before
\* the replay endpoint set the status, in a save that left the version alone.
BlindOn(w, id) == /\ wk[w].pc \in Holding /\ wk[w].run = id
                  /\ wk[w].doc.ver = runs[id].ver /\ wk[w].doc.status # "queued"

Blind(id) == \E w \in Workers : BlindOn(w, id)

\* An attempt may yet be refused its save by a blind one, and by no other.
Spare(n, id) == /\ n <= used["dbError"] + 1
                /\ Blind(id) => n <= used["dbError"]

\* What a worker makes of a row that is queued: it saves it with another status, or it
\* fails, and has not failed too often.
RunsIt(w, p, id) ==
  LET n == queue[p].attempts
  IN \/ wk[w].pc = "load" /\ Spare(n, id)
     \/ /\ wk[w].pc \in Holding /\ wk[w].run = id
        /\ \/ /\ wk[w].doc.ver = runs[id].ver /\ wk[w].doc.status = "queued"
              /\ Spare(n, id)
           \/ wk[w].doc.ver # runs[id].ver /\ Spare(n + 1, id)
     \/ wk[w].pc = "finish" /\ wk[w].failed /\ Spare(n + 1, id)

Announced(p) == queue[p].state = "absent" /\ \E q \in ReplayJobs : Named(q) /\ req[q].as = p

Awaited(p, id) == /\ queue[p].state = "waiting" \/ Lapsed(p)
                  /\ Spare(queue[p].attempts, id)

InHand(p, id) == /\ queue[p].state = "active"
                 /\ \E w \in Workers : /\ queue[p].owner = w /\ wk[w].job = p
                                       /\ RunsIt(w, p, id)

Chases(p, id) == /\ req[p].run = id /\ Past(p)
                 /\ Announced(p) \/ Awaited(p, id) \/ InHand(p, id)

QueuedRow(id) == runs[id] # None /\ runs[id].status = "queued"

Unlost(id) == \A q \in ReplayJobs : req[q].run = id => req[q].pc # "lost"

PursuitInv ==
  Tolerable => \A id \in RunIds :
                 QueuedRow(id) /\ Unlost(id) => \E p \in ReplayJobs : Chases(p, id)

LEMMA DbErrorsGrow ==
  ASSUME TypeInv, [Next]_vars
  PROVE  /\ used["dbError"] \in Nat /\ used'["dbError"] \in Nat
         /\ used'["dbError"] >= used["dbError"]
         /\ Spend("dbError") => used'["dbError"] = used["dbError"] + 1
  BY UsedGrows DEF Kinds

LEMMA TolerableBefore ==
  ASSUME TypeInv, [Next]_vars, Tolerable'
  PROVE  Tolerable
  BY StallsGrow, DbErrorsGrow, QueueAssumption DEF Tolerable, Stalls

LEMMA UnlostBefore ==
  ASSUME TypeInv, [Next]_vars, NEW id \in RunIds, Unlost(id)'
  PROVE  Unlost(id)
  <1> SUFFICES ASSUME NEW q \in ReplayJobs, req[q].run = id, req[q].pc = "lost"
               PROVE  req'[q].run = id /\ req'[q].pc = "lost"
    BY DEF Unlost
  <1>1. ASSUME NEW p \in ReplayJobs, Replay(p), p # q PROVE req'[q] = req[q]
    BY <1>1 DEF Replay, ReplayLoad, ReplayRequest, ReplaySave, ReplayConflict, ReplayEnqueue,
                ReplayAbort, TypeInv, TypeOK, JobsTypeOK
  <1>2. ~Replay(q)
    BY DEF Replay, ReplayLoad, ReplayRequest, ReplaySave, ReplayConflict, ReplayEnqueue,
           ReplayAbort, Named
  <1>3. ASSUME NEW w \in Workers, Work(w) \/ Interfere(w) PROVE UNCHANGED req
    BY <1>3 DEF Work, TakeJob, MarkProcessing, FindRules, RuleEvalThrows, FindRun, CreateRun,
       MarkProcessed, LoadRun, FindReplayRule, RunAction, SaveRun, SaveConflict, Finish,
       Interfere, DbError, Crash, LoseLock
  <1>4. (\E j \in JobIds : Recover(j)) \/ (\E r \in Rules : EditRule(r)) \/ UNCHANGED vars
          => UNCHANGED req
    BY DEF Recover, EditRule, vars
  <1> QED BY <1>1, <1>2, <1>3, <1>4 DEF Next, Quiescent

\* What leads up to the save, and the loop before it, keep the copy as it was read.
LEMMA RunnerKeepsCopy ==
  ASSUME TypeInv, NEW w \in Workers, FindReplayRule(w) \/ RunAction(w)
  PROVE  /\ wk[w].pc \in Holding /\ wk'[w].pc \in Holding /\ wk'[w].run = wk[w].run
         /\ wk'[w].doc.ver = wk[w].doc.ver /\ wk'[w].doc.status = wk[w].doc.status
         /\ runs' = runs
  <1>1. CASE FindReplayRule(w)
    <2>1. PICK acts : Resume(w, wk[w].run, wk[w].doc, acts)
      BY <1>1 DEF FindReplayRule
    <2>2. wk[w].pc = "replayRules" /\ wk[w].doc \in RunDoc
      BY <1>1, RowType DEF FindReplayRule
    <2>3. /\ wk'[w].pc = "run" /\ wk'[w].run = wk[w].run
          /\ wk'[w].doc = [wk[w].doc EXCEPT !.slots = Slots(wk[w].doc, acts)]
      BY <2>1, ResumeStep
    <2> QED BY <1>1, <2>2, <2>3 DEF RunDoc, Holding, FindReplayRule
  <1>2. CASE RunAction(w)
    <2>1. PICK i \in DOMAIN wk[w].doc.slots, status \in ActionStatus :
            /\ wk[w].pc = "run" /\ wk[w].doc \in RunDoc
            /\ wk'[w].pc = "run" /\ wk'[w].run = wk[w].run
            /\ wk'[w].doc = WithOutcome(wk[w].doc, i, status)
      BY <1>2, RunActionStep
    <2>2. wk'[w].doc.ver = wk[w].doc.ver /\ wk'[w].doc.status = wk[w].doc.status
      BY <2>1, OutcomeDoc
    <2> QED BY <1>2, <2>1, <2>2 DEF Holding, RunAction
  <1> QED BY <1>1, <1>2

\* Nobody comes to hold an outdated status of a row that is queued by reading it.
LEMMA NotBlindByReading ==
  ASSUME TypeInv, [Next]_vars, NEW w \in Workers, NEW id \in RunIds,
         QueuedRow(id), runs'[id] = runs[id], BlindOn(w, id)'
  PROVE  BlindOn(w, id)
  <1> /\ wk \in [Workers -> WorkerRecord] /\ wk[w] \in WorkerRecord
      /\ runs[id] \in RunDoc
    BY DEF TypeInv, TypeOK, JobsTypeOK, QueuedRow
  <1>1. wk'[w].pc \in Holding
    BY DEF BlindOn
  <1>2. CASE FindRun(w)
    <2>1. PICK r \in Rules :
            \/ \E i \in RowsFor(wk[w].job, r) : Resume(w, i, runs[i], wk[w].snap[r].actions)
            \/ wk' = [wk EXCEPT ![w].pc = "create"]
      BY <1>2 DEF FindRun
    <2>2. PICK i \in RowsFor(wk[w].job, r) : Resume(w, i, runs[i], wk[w].snap[r].actions)
      BY <1>1, <2>1 DEF Holding, WorkerRecord
    <2>3. /\ wk'[w].run = i
          /\ wk'[w].doc = [runs[i] EXCEPT !.slots = Slots(runs[i], wk[w].snap[r].actions)]
      BY <2>2, ResumeStep
    <2>4. i = id
      BY <2>3 DEF BlindOn
    <2>5. wk'[w].doc.status = runs[id].status
      BY <2>3, <2>4 DEF RunDoc
    <2> QED BY <2>5 DEF BlindOn, QueuedRow
  <1>3. CASE CreateRun(w)
    <2>1. PICK r \in Rules, i \in RunIds :
            /\ InsertRun(i, wk[w].job, r)
            /\ Resume(w, i, NewRun(wk[w].job, r), wk[w].snap[r].actions)
      BY <1>3 DEF CreateRun
    <2>2. wk'[w].run = i /\ runs[i] = None
      BY <2>1, ResumeStep DEF InsertRun, IsFirst
    <2> QED BY <2>2 DEF BlindOn, QueuedRow
  <1>4. CASE LoadRun(w)
    <2>1. wk'[w].run = req[wk[w].job].run /\ wk'[w].doc = runs[req[wk[w].job].run]
      BY <1>4 DEF LoadRun, WorkerRecord
    <2> QED BY <2>1 DEF BlindOn, QueuedRow
  <1>5. CASE FindReplayRule(w) \/ RunAction(w)
    BY <1>5, RunnerKeepsCopy DEF BlindOn
  <1>6. CASE wk'[w] = wk[w]
    BY <1>6 DEF BlindOn
  <1> QED BY <1>1, <1>2, <1>3, <1>4, <1>5, <1>6, HowCopied DEF Holding

\* The save of a worker that leaves a row queued is a blind one, and the last one.
LEMMA BlindSave ==
  ASSUME TypeInv, TypeInv', LedgerInv, LedgerInv', [Next]_vars, NEW id \in RunIds,
         NEW w \in Workers, SaveRun(w), wk[w].run = id, QueuedRow(id)'
  PROVE  /\ QueuedRow(id) /\ BlindOn(w, id) /\ ~Blind(id)'
         /\ runs'[id].ver > runs[id].ver
  <1> DEFINE doc == wk[w].doc
  <1>1. /\ wk[w].pc = "run"
        /\ runs[id] \in RunDoc /\ runs[id] # None /\ doc \in RunDoc
    BY RowType DEF SaveRun
  <1>2. /\ doc.ver = runs[id].ver
        /\ runs'[id].status = Written(id, doc, FinalStatus(doc.slots))
        /\ runs'[id].ver = runs[id].ver + 1
    BY <1>1 DEF SaveRun, SaveArray, Stale, RunDoc, TypeInv, TypeOK, JobsTypeOK
  <1>3. FinalStatus(doc.slots) # "queued"
    BY DEF FinalStatus
  <1>4. doc.status # "queued" /\ runs[id].status = "queued"
    BY <1>1, <1>2, <1>3 DEF Written, QueuedRow
  <1>5. ASSUME NEW v \in Workers, BlindOn(v, id)' PROVE FALSE
    <2>1. wk'[v] = wk[v]
      <3>1. v # w
        <4>1. wk'[w].pc \in {"loop", "finish"}
          BY SaveRunIsInside
        <4> QED BY <1>5, <4>1 DEF BlindOn, Holding
      <3> QED BY <3>1 DEF SaveRun, TypeInv, TypeOK
    <2>2. wk[v].pc \in {"run", "replayRules"} /\ wk[v].run = id
      BY <1>5, <2>1 DEF BlindOn, Holding
    <2>3. wk[v].doc.ver <= runs[id].ver /\ wk[v].doc \in RunDoc
      BY <2>2, RowType DEF LedgerInv, CopyOf
    <2> QED BY <1>1, <1>2, <1>5, <2>1, <2>3 DEF BlindOn, RunDoc
  <1> QED BY <1>1, <1>2, <1>4, <1>5 DEF BlindOn, Blind, Holding, QueuedRow, RunDoc

\* A row that is queued after a step which was not its own replay.
LEMMA QueuedSteps ==
  ASSUME TypeInv, TypeInv', LedgerInv, LedgerInv', [Next]_vars, NEW id \in RunIds,
         QueuedRow(id)', \A q \in ReplayJobs : ReplaySave(q) => req[q].run # id
  PROVE  /\ QueuedRow(id)
         /\ Blind(id)' => Blind(id)
         /\ \/ runs'[id] = runs[id]
            \/ Blind(id) /\ ~Blind(id)' /\ runs'[id].ver > runs[id].ver
  <1>1. CASE runs'[id] = runs[id]
    BY <1>1, NotBlindByReading DEF QueuedRow, Blind
  <1>2. CASE runs'[id] # runs[id]
    <2>1. ASSUME NEW w \in Workers, CreateRun(w), runs'[id].status = "processing" PROVE FALSE
      BY <2>1 DEF QueuedRow
    <2>2. PICK w \in Workers : SaveRun(w) /\ wk[w].run = id
      BY <1>2, <2>1, RowChanges
    <2> QED BY <2>2, BlindSave DEF Blind
  <1> QED BY <1>1, <1>2

\* What a step of somebody else leaves of the attempts to spare.
LEMMA SpareStays ==
  ASSUME TypeInv, [Next]_vars, NEW id \in RunIds, Blind(id)' => Blind(id),
         NEW n \in Nat, Spare(n, id)
  PROVE  /\ Spare(n, id)'
         /\ Blind(id) /\ ~Blind(id)' => Spare(n + 1, id)'
         /\ Spend("dbError") => Spare(n + 1, id)'
  BY DbErrorsGrow DEF Spare

LEMMA SpareLess ==
  ASSUME TypeInv, NEW id \in RunIds, NEW n \in Nat, Spare(n + 1, id)
  PROVE  Spare(n, id)
  <1>1. used["dbError"] \in Nat
    BY DEF TypeInv, TypeOK, Kinds
  <1> QED BY <1>1 DEF Spare

\* From here on: a step that is not a replay of the row, which stays queued.
Elsewhere(id) == /\ Blind(id)' => Blind(id)
                 /\ \/ runs'[id] = runs[id]
                    \/ Blind(id) /\ ~Blind(id)' /\ runs'[id].ver > runs[id].ver

LEMMA JobType ==
  ASSUME TypeInv, NEW p \in ReplayJobs
  PROVE  /\ p \in JobIds /\ p \notin Events
         /\ queue[p] \in JobRecord /\ queue[p].attempts \in Nat
  BY TypesAssumption DEF JobIds, TypeInv, TypeOK, QueueTypeOK, JobRecord

LEMMA FreshIsAwaited ==
  ASSUME TypeInv, [Next]_vars, NEW p \in ReplayJobs, NEW id \in RunIds,
         queue'[p] = Fresh("waiting")
  PROVE  Awaited(p, id)'
  BY DbErrorsGrow DEF Awaited, Fresh, Spare

LEMMA NamedSteps ==
  ASSUME TypeInv, [Next]_vars, NEW q \in ReplayJobs, Named(q)
  PROVE  \/ req'[q] = req[q]
         \/ ReplayEnqueue(q)
         \/ req'[q].run = req[q].run /\ req'[q].pc = "lost"
  <1> req[q] \in Request
    BY DEF TypeInv, TypeOK, JobsTypeOK
  <1>1. ASSUME NEW p \in ReplayJobs, Replay(p), p # q PROVE req'[q] = req[q]
    BY <1>1 DEF Replay, ReplayLoad, ReplayRequest, ReplaySave, ReplayConflict, ReplayEnqueue,
                ReplayAbort, TypeInv, TypeOK, JobsTypeOK
  <1>2. CASE Replay(q)
    <2>1. ReplayEnqueue(q) \/ ReplayAbort(q)
      BY <1>2 DEF Replay, ReplayLoad, ReplayRequest, ReplaySave, ReplayConflict, Named
    <2>2. ReplayAbort(q) => req'[q].run = req[q].run /\ req'[q].pc = "lost"
      BY DEF ReplayAbort, Request, TypeInv, TypeOK, JobsTypeOK
    <2> QED BY <2>1, <2>2
  <1>3. ASSUME NEW w \in Workers, Work(w) \/ Interfere(w) PROVE UNCHANGED req
    BY <1>3 DEF Work, TakeJob, MarkProcessing, FindRules, RuleEvalThrows, FindRun, CreateRun,
       MarkProcessed, LoadRun, FindReplayRule, RunAction, SaveRun, SaveConflict, Finish,
       Interfere, DbError, Crash, LoseLock
  <1>4. (\E j \in JobIds : Recover(j)) \/ (\E r \in Rules : EditRule(r)) \/ UNCHANGED vars
          => UNCHANGED req
    BY DEF Recover, EditRule, vars
  <1> QED BY <1>1, <1>2, <1>3, <1>4 DEF Next, Quiescent

LEMMA AnnouncedSteps ==
  ASSUME TypeInv, [Next]_vars, NEW p \in ReplayJobs, NEW id \in RunIds,
         req[p].run = id, Announced(p), Unlost(id)'
  PROVE  Announced(p)' \/ Awaited(p, id)'
  <1>1. PICK q \in ReplayJobs : Named(q) /\ req[q].as = p
    BY DEF Announced
  <1>2. req[q].run = id /\ queue[p].state = "absent" /\ queue[p] \in JobRecord
    BY <1>1, JobType DEF Announced, TypeInv, Control, RequestControl
  <1>3. CASE AddedNow(p)
    BY <1>3, FreshIsAwaited DEF AddedNow
  <1>4. CASE queue'[p] = queue[p]
    <2>1. ~ReplayEnqueue(q)
      <3> SUFFICES ASSUME Enqueue(p) PROVE FALSE
        BY <1>1, <1>2 DEF ReplayEnqueue
      <3>1. queue'[p] = Fresh("waiting")
        BY JobType DEF Enqueue, TypeInv, TypeOK, QueueTypeOK
      <3> QED BY <1>2, <1>4, <3>1 DEF Fresh
    <2>2. req'[q] = req[q]
      BY <1>1, <1>2, <2>1, NamedSteps DEF Unlost
    <2> QED BY <1>1, <1>2, <1>4, <2>2 DEF Announced, Named
  <1> QED BY <1>2, <1>3, <1>4, JobSteps, JobType
          DEF TakenBack, Lapsed, TakenBy, EndedBy, LeftBy, HoldsLock

LEMMA AwaitedSteps ==
  ASSUME TypeInv, StallInv, Tolerable, [Next]_vars, NEW p \in ReplayJobs, NEW id \in RunIds,
         Awaited(p, id), Elsewhere(id)
  PROVE  Awaited(p, id)' \/ InHand(p, id)'
  <1>0. PICK n \in Nat : n = queue[p].attempts
    BY JobType
  <1>1. n = queue[p].attempts /\ Spare(n, id)' /\ queue[p] \in JobRecord
    BY <1>0, JobType, SpareStays DEF Awaited, Elsewhere
  <1>2. CASE queue'[p] = queue[p]
    BY <1>1, <1>2 DEF Awaited, Lapsed
  <1>3. CASE TakenBack(p)
    <2>1. queue[p].stalls \in Nat /\ queue[p].stalls + 1 <= Stalls /\ Stalls <= MaxStalledCount
      BY <1>1, <1>3, JobType DEF TakenBack, StallInv, Tolerable, Stalls, JobRecord
    <2>2. queue[p].stalls < MaxStalledCount
      BY <2>1, StallsGrow, QueueAssumption
    <2>3. queue'[p].state = "waiting" /\ queue'[p].attempts = n
      BY <1>1, <1>3, <2>2 DEF TakenBack, JobRecord
    <2> QED BY <1>1, <2>3 DEF Awaited
  <1>4. ASSUME NEW w \in Workers, TakenBy(w, p) PROVE InHand(p, id)'
    <2>1. queue'[p].state = "active" /\ queue'[p].owner = w /\ queue'[p].attempts = n
      BY <1>1, <1>4 DEF TakenBy, JobRecord
    <2>2. wk'[w].job = p /\ wk'[w].pc = "load"
      <3>1. PICK j \in JobIds : wk' = [wk EXCEPT ![w].job = j,
                                       ![w].pc = IF j \in Events THEN "started" ELSE "load"]
        BY <1>4 DEF TakenBy, TakeJob
      <3>2. wk'[w].job = j /\ wk'[w].pc = IF j \in Events THEN "started" ELSE "load"
        BY <3>1 DEF TypeInv, TypeOK, WorkerRecord
      <3> QED BY <1>4, <3>2, JobType DEF TakenBy
    <2>3. RunsIt(w, p, id)'
      BY <1>1, <2>1, <2>2 DEF RunsIt
    <2> QED BY <2>1, <2>2, <2>3 DEF InHand
  <1>5. queue[p].state # "absent" /\ \A w \in Workers : ~HoldsLock(p, w)
    BY TypesAssumption DEF Awaited, Lapsed, HoldsLock
  <1> QED BY <1>2, <1>3, <1>4, <1>5, JobSteps, JobType DEF AddedNow, EndedBy, LeftBy

\* The worker that runs the job does nothing, or somebody saves the row meanwhile.
LEMMA RunnerWaits ==
  ASSUME TypeInv, LedgerInv, [Next]_vars, NEW p \in ReplayJobs, NEW id \in RunIds,
         NEW w \in Workers, RunsIt(w, p, id), Elsewhere(id),
         wk'[w] = wk[w], queue'[p].attempts = queue[p].attempts, QueuedRow(id)
  PROVE  RunsIt(w, p, id)'
  <1>0. PICK n \in Nat : n = queue[p].attempts
    BY JobType
  <1>1. n = queue[p].attempts /\ n + 1 \in Nat
    BY <1>0
  <1>2. CASE wk[w].pc = "load" \/ wk[w].pc = "finish"
    BY <1>1, <1>2, SpareStays DEF RunsIt, Elsewhere, Holding
  <1>3. CASE wk[w].pc \in Holding
    <2>1. /\ wk[w].run = id
          /\ \/ /\ wk[w].doc.ver = runs[id].ver /\ wk[w].doc.status = "queued"
                /\ Spare(n, id)
             \/ wk[w].doc.ver # runs[id].ver /\ Spare(n + 1, id)
      BY <1>1, <1>3 DEF RunsIt, Holding
    <2>2. CASE runs'[id] = runs[id]
      BY <1>1, <1>3, <2>1, <2>2, SpareStays DEF RunsIt, Elsewhere
    <2>3. CASE runs'[id] # runs[id]
      <3>1. Blind(id) /\ ~Blind(id)' /\ runs'[id].ver > runs[id].ver
        BY <2>3 DEF Elsewhere
      <3>2. wk[w].doc.ver <= runs[id].ver /\ wk[w].doc \in RunDoc /\ runs[id] \in RunDoc
        BY <1>3, <2>1, RowType DEF LedgerInv, CopyOf, Holding
      <3>4. wk[w].doc.ver # runs'[id].ver
        BY <3>1, <3>2 DEF RunDoc
      <3>5. Spare(n + 1, id)'
        BY <1>1, <2>1, <3>1, SpareStays DEF Elsewhere
      <3> QED BY <1>1, <1>3, <2>1, <3>4, <3>5 DEF RunsIt
    <2> QED BY <2>2, <2>3
  <1> QED BY <1>2, <1>3 DEF RunsIt

\* The worker takes a step.
LEMMA RunnerWorks ==
  ASSUME TypeInv, TypeInv', LedgerInv, LedgerInv', [Next]_vars, NEW p \in ReplayJobs,
         NEW id \in RunIds, NEW w \in Workers, req[p].run = id, wk[w].job = p,
         RunsIt(w, p, id), Elsewhere(id), QueuedRow(id), QueuedRow(id)', Work(w), ~Finish(w)
  PROVE  wk'[w].job = p /\ queue' = queue /\ RunsIt(w, p, id)'
  <1> DEFINE n == queue[p].attempts
  <1> wk[w] \in WorkerRecord /\ wk \in [Workers -> WorkerRecord]
    BY DEF TypeInv, TypeOK
  <1>1. n \in Nat /\ n + 1 \in Nat
    BY JobType
  <1>2. wk[w].pc \in {"load", "replayRules", "run", "finish"}
    BY DEF RunsIt, Holding
  <1>3. wk'[w].job = p /\ queue' = queue
    BY <1>2, WorkIsInside DEF Inside, TakeJob
  <1>4. LoadRun(w) \/ FindReplayRule(w) \/ RunAction(w) \/ SaveRun(w) \/ SaveConflict(w)
    BY <1>2 DEF Work, TakeJob, MarkProcessing, FindRules, RuleEvalThrows, FindRun, CreateRun,
                MarkProcessed
  <1>5. CASE LoadRun(w)
    <2>1. /\ wk'[w].pc = "replayRules" /\ wk'[w].run = id /\ wk'[w].doc = runs[id]
          /\ runs' = runs
      BY <1>5 DEF LoadRun
    <2>2. Spare(n, id)
      BY <1>5 DEF LoadRun, RunsIt, Holding
    <2> QED BY <1>1, <1>3, <2>1, <2>2, SpareStays DEF RunsIt, Elsewhere, Holding, QueuedRow
  <1>6. CASE FindReplayRule(w) \/ RunAction(w)
    BY <1>1, <1>3, <1>6, RunnerKeepsCopy, SpareStays DEF RunsIt, Elsewhere, Holding
  <1>7. CASE SaveRun(w)
    <2>1. wk[w].pc = "run" /\ wk[w].run = id
      BY <1>7 DEF SaveRun, RunsIt, Holding
    <2>2. wk[w].doc.ver = runs[id].ver /\ wk[w].doc.status # "queued"
      BY <1>7, <2>1, BlindSave DEF BlindOn
    <2> QED BY <2>1, <2>2 DEF RunsIt, Holding
  <1>8. CASE SaveConflict(w)
    <2>1. wk[w].pc = "run" /\ wk[w].run = id /\ wk[w].doc.ver # runs[id].ver
      BY <1>8 DEF SaveConflict, Stale, RunsIt, Holding
    <2>2. wk'[w].pc = "finish" /\ wk'[w].failed
      BY <1>8 DEF SaveConflict, Throw, Idle
    <2>3. Spare(n + 1, id)
      BY <2>1 DEF RunsIt, Holding
    <2> QED BY <1>1, <1>3, <2>2, <2>3, SpareStays DEF RunsIt, Elsewhere
  <1> QED BY <1>3, <1>4, <1>5, <1>6, <1>7, <1>8

LEMMA InHandSteps ==
  ASSUME TypeInv, TypeInv', LedgerInv, LedgerInv', Tolerable, [Next]_vars,
         NEW p \in ReplayJobs, NEW id \in RunIds, req[p].run = id,
         InHand(p, id), Elsewhere(id), QueuedRow(id), QueuedRow(id)'
  PROVE  Awaited(p, id)' \/ InHand(p, id)'
  <1>0. PICK n \in Nat : n = queue[p].attempts
    BY JobType
  <1>1. PICK w \in Workers : /\ queue[p].state = "active" /\ queue[p].owner = w
                             /\ wk[w].job = p /\ RunsIt(w, p, id)
    BY DEF InHand
  <1>2. /\ n = queue[p].attempts /\ n + 1 \in Nat
        /\ queue[p] \in JobRecord /\ p \in JobIds /\ p \notin Events
    BY <1>0, JobType
  <1>3. Spare(n, id)
    BY <1>1, <1>2, SpareLess DEF RunsIt
  <1>4. CASE LeftBy(w, p)
    <2>1. queue'[p].state = "active" /\ queue'[p].owner = None /\ queue'[p].attempts = n
      BY <1>1, <1>2, <1>4 DEF LeftBy, JobRecord
    <2>2. Spare(n, id)'
      BY <1>2, <1>3, SpareStays DEF Elsewhere
    <2> QED BY <2>1, <2>2 DEF Awaited, Lapsed
  <1>5. CASE EndedBy(w, p)
    <2>1. wk[w].failed /\ Spare(n + 1, id)
      BY <1>1, <1>2, <1>5 DEF EndedBy, Finish, RunsIt, Holding
    <2>2. RetriesLeft(p)
      BY <1>2, <2>1, DbErrorsGrow, QueueAssumption DEF RetriesLeft, Attempts, Spare, Tolerable
    <2>3. queue'[p].state = "waiting" /\ queue'[p].attempts = n + 1
      <3> DEFINE record == [queue[p] EXCEPT !.state = "waiting", !.attempts = n + 1,
                                            !.owner = None]
      <3>1. queue'[p] = record
        BY <1>2, <1>5, <2>1, <2>2 DEF EndedBy
      <3>2. record.state = "waiting" /\ record.attempts = n + 1
        BY <1>2 DEF JobRecord
      <3> QED BY <3>1, <3>2
    <2>4. Spare(n + 1, id)'
      BY <1>2, <2>1, SpareStays DEF Elsewhere
    <2> QED BY <2>3, <2>4 DEF Awaited
  <1>6. CASE queue'[p] = queue[p]
    <2>1. wk'[w].job = p /\ RunsIt(w, p, id)'
      <3>1. CASE wk'[w] = wk[w]
        BY <1>1, <1>6, <3>1, RunnerWaits
      <3>2. CASE Finish(w)
        <4>1. wk[w].pc = "finish" /\ HoldsLock(p, w)
          BY <1>1, <3>2 DEF Finish, HoldsLock
        <4>2. queue'[p].state # "active"
          <5>1. FailAttempt(p) \/ Complete(p)
            BY <1>1, <3>2, <4>1 DEF Finish
          <5> QED BY <1>2, <5>1 DEF FailAttempt, Complete, TypeInv, TypeOK, QueueTypeOK, JobRecord
        <4> QED BY <1>1, <1>6, <4>2
      <3>3. CASE Work(w) /\ ~Finish(w)
        BY <1>1, <3>3, RunnerWorks
      <3>4. CASE DbError(w)
        <4>1. wk'[w].pc = "finish" /\ wk'[w].failed /\ wk'[w].job = p
          BY <1>1, <3>4 DEF DbError, Throw, Idle, TypeInv, TypeOK
        <4>2. Spare(n + 1, id)'
          BY <1>2, <1>3, <3>4, SpareStays DEF DbError, Elsewhere
        <4> QED BY <1>2, <1>6, <4>1, <4>2 DEF RunsIt
      <3>5. CASE Crash(w)
        <4>1. ReleaseLock(p) /\ queue \in [JobIds -> JobRecord]
          BY <1>1, <3>5 DEF Crash, HoldsLock, TypeInv, TypeOK, QueueTypeOK
        <4>2. queue'[p].owner = None
          BY <1>2, <4>1 DEF ReleaseLock, JobRecord
        <4> QED BY <1>1, <1>6, <4>2, TypesAssumption
      <3> QED BY <3>1, <3>2, <3>3, <3>4, <3>5, OwnSteps
    <2> QED BY <1>1, <1>6, <2>1 DEF InHand
  <1>7. /\ ~AddedNow(p) /\ ~TakenBack(p)
        /\ \A v \in Workers : ~TakenBy(v, p) /\ (EndedBy(v, p) \/ LeftBy(v, p) => v = w)
    BY <1>1, TypesAssumption DEF AddedNow, TakenBack, Lapsed, TakenBy, EndedBy, LeftBy, HoldsLock
  <1> QED BY <1>2, <1>4, <1>5, <1>6, <1>7, JobSteps
\* The request that saved the row has announced a job that nobody took yet.
LEMMA ReplayChases ==
  ASSUME TypeInv, TypeInv', [Next]_vars, NEW q \in ReplayJobs, NEW id \in RunIds,
         ReplaySave(q), req[q].run = id
  PROVE  \E p \in ReplayJobs : Chases(p, id)'
  <1>1. PICK p \in {q} \cup SharedIds(q) :
          req' = [req EXCEPT ![q].pc = "saved", ![q].doc = None, ![q].as = p]
    BY DEF ReplaySave
  <1>2. /\ req[q].pc = "loaded" /\ queue' = queue
        /\ req[q] \in Request /\ req \in [ReplayJobs -> Request]
    BY LoadedRow DEF ReplaySave, TypeInv, TypeOK, JobsTypeOK
  <1>3. p \in ReplayJobs
    BY <1>1 DEF SharedIds
  <1>4. req'[q].pc = "saved" /\ req'[q].as = p /\ req'[q].run = id
    BY <1>1, <1>2 DEF Request
  <1>5. Past(p)' /\ req'[p].run = id
    BY <1>4 DEF TypeInv, Control, RequestControl, Named
  <1>6. CASE queue[p] = Fresh("waiting")
    <2>1. Awaited(p, id)'
      BY <1>2, <1>3, <1>6, FreshIsAwaited
    <2> QED BY <1>3, <1>5, <2>1 DEF Chases
  <1>7. CASE queue[p].state = "absent"
    <2>1. Announced(p)'
      BY <1>2, <1>4, <1>7 DEF Announced, Named
    <2> QED BY <1>3, <1>5, <2>1 DEF Chases
  <1>8. queue[p] = Fresh("waiting") \/ queue[p].state = "absent"
    <2>1. queue[q].state = "absent"
      BY <1>2, NotYetEnqueued DEF Past
    <2> QED BY <1>1, <2>1 DEF SharedIds
  <1> QED BY <1>6, <1>7, <1>8

LEMMA NextPursuitInv ==
  /\ TypeInv /\ TypeInv' /\ LedgerInv /\ LedgerInv' /\ StallInv /\ PursuitInv
  /\ [Next]_vars
  => PursuitInv'
  <1> SUFFICES ASSUME TypeInv, TypeInv', LedgerInv, LedgerInv', StallInv, PursuitInv,
                      [Next]_vars, Tolerable', NEW id \in RunIds,
                      QueuedRow(id)', Unlost(id)'
               PROVE  \E p \in ReplayJobs : Chases(p, id)'
    BY DEF PursuitInv
  <1>1. Tolerable /\ Unlost(id)
    BY TolerableBefore, UnlostBefore
  <1>2. CASE \E q \in ReplayJobs : ReplaySave(q) /\ req[q].run = id
    BY <1>2, ReplayChases
  <1>3. CASE ~\E q \in ReplayJobs : ReplaySave(q) /\ req[q].run = id
    <2>1. QueuedRow(id) /\ Elsewhere(id)
      BY <1>3, QueuedSteps DEF Elsewhere
    <2>2. PICK p \in ReplayJobs : Chases(p, id)
      BY <1>1, <2>1 DEF PursuitInv
    <2>3. req[p].run = id /\ Past(p)
      BY <2>2 DEF Chases
    <2>4. req'[p].run = id /\ Past(p)'
      BY <2>3, RequestSteps DEF Past, ReplayLoad
    <2>5. Announced(p)' \/ Awaited(p, id)' \/ InHand(p, id)'
      <3>1. CASE Announced(p)
        BY <2>3, <3>1, AnnouncedSteps
      <3>2. CASE Awaited(p, id)
        BY <1>1, <2>1, <3>2, AwaitedSteps
      <3>3. CASE InHand(p, id)
        BY <1>1, <2>1, <2>3, <3>3, InHandSteps
      <3> QED BY <2>2, <3>1, <3>2, <3>3 DEF Chases
    <2> QED BY <2>4, <2>5 DEF Chases
  <1> QED BY <1>2, <1>3

LEMMA InitPursuitInv == Init => StallInv /\ PursuitInv
  <1>1. Init => StallInv
    BY DEF Init, QueueInit, Fresh, Unspent, Kinds, StallInv, Stalls, Lapsed
  <1>2. Init => PursuitInv
    BY DEF Init, JobsInit, PursuitInv, QueuedRow
  <1> QED BY <1>1, <1>2

\* Whatever crashes, lost locks, refused saves and database errors do, a row that says
\* QUEUED has a replay job that will run it, or a request that is about to add it, unless
\* a request for it broke off in between: attempts are lost only to errors, and the save
\* of one worker that read the row before it was reset (jobs.service.ts:83-99).
THEOREM QueuedRowsArePursued == Spec => []QueuedIsPursued
  <1>1. ASSUME TypeInv, PursuitInv PROVE QueuedIsPursued
    <2> SUFFICES ASSUME Tolerable, NEW id \in RunIds, QueuedRow(id), Unlost(id)
                 PROVE  \E q \in ReplayJobs :
                          /\ req[q].run = id
                          /\ Named(q) \/ queue[q].state \in {"waiting", "active"}
      BY DEF QueuedIsPursued, QueuedRow, Unlost
    <2>1. PICK p \in ReplayJobs : Chases(p, id)
      BY <1>1 DEF PursuitInv
    <2>2. CASE Announced(p)
      <3>1. PICK q \in ReplayJobs : Named(q) /\ req[q].as = p
        BY <2>2 DEF Announced
      <3>2. req[q].run = id
        BY <1>1, <2>1, <3>1 DEF Chases, TypeInv, Control, RequestControl
      <3> QED BY <3>1, <3>2
    <2>3. CASE Awaited(p, id) \/ InHand(p, id)
      BY <2>1, <2>3 DEF Chases, Awaited, InHand, Lapsed
    <2> QED BY <2>1, <2>2, <2>3 DEF Chases
  <1> QED BY <1>1, InitTypeInv, NextTypeInv, InitLedgerInv, NextLedgerInv, NextStallInv,
             InitPursuitInv, NextPursuitInv, PTL DEF Spec

-----------------------------------------------------------------------------
(* Rules that are off. The query of an event's job finds the enabled ones, *)
(* and the loop makes rows for, and runs the actions of, what was found.   *)

\* Where the rules that a worker works on come from.
LEMMA SnapSteps ==
  ASSUME TypeInv, [Next]_vars, NEW v \in Workers
  PROVE  \/ wk'[v].snap = wk[v].snap
         \/ wk'[v].snap = NoActions
         \/ DOMAIN wk'[v].snap = FindMatchingTriggers(wk[v].job)
  <1> wk[v] \in WorkerRecord /\ wk \in [Workers -> WorkerRecord]
    BY DEF TypeInv, TypeOK
  <1>1. CASE TakeJob(v)
    <2>1. PICK j \in JobIds, pc \in {"started", "load"} :
            wk' = [wk EXCEPT ![v].job = j, ![v].pc = pc]
      BY <1>1 DEF TakeJob
    <2> QED BY <2>1 DEF WorkerRecord
  <1>2. CASE MarkProcessing(v) \/ MarkProcessed(v)
    BY <1>2 DEF MarkProcessing, MarkProcessed, WorkerRecord
  <1>3. CASE LoadRun(v)
    BY <1>3 DEF LoadRun, WorkerRecord
  <1>4. CASE SaveRun(v)
    BY <1>4 DEF SaveRun, WorkerRecord
  <1>5. CASE FindRules(v)
    <2> DEFINE found  == FindMatchingTriggers(wk[v].job)
               snap   == [r \in found |-> rules[r]]
               todo   == {r \in found : rules[r].reading[wk[v].job] # "skip"}
               record == [wk[v] EXCEPT !.pc = "loop", !.snap = snap, !.todo = todo]
    <2>1. wk' = [wk EXCEPT ![v] = record]
      BY <1>5 DEF FindRules
    <2>2. DOMAIN snap = found
      OBVIOUS
    <2> HIDE DEF snap, todo, found
    <2>3. record.snap = snap
      BY DEF WorkerRecord
    <2> HIDE DEF record
    <2> QED BY <2>1, <2>2, <2>3 DEF found
  <1>6. CASE RuleEvalThrows(v) \/ SaveConflict(v) \/ DbError(v) \/ Finish(v) \/ Crash(v)
    <2>1. wk'[v].snap = NoActions
      <3>1. CASE Throw(v)
        BY <3>1 DEF Throw, Idle
      <3>2. CASE wk'[v] = Idle
        BY <3>2 DEF Idle
      <3> QED BY <1>6, <3>1, <3>2 DEF RuleEvalThrows, SaveConflict, DbError, Finish, Crash
    <2> QED BY <2>1
  <1>7. CASE FindRun(v)
    <2>1. CASE wk' = [wk EXCEPT ![v].pc = "create"]
      BY <2>1 DEF WorkerRecord
    <2> QED BY <1>7, <2>1, ResumeKeepsLoop DEF FindRun, KeepsLoop
  <1>8. CASE CreateRun(v) \/ FindReplayRule(v)
    BY <1>8, ResumeKeepsLoop DEF CreateRun, FindReplayRule, KeepsLoop
  <1>9. CASE RunAction(v)
    BY <1>9, RunActionKeepsLoop DEF KeepsLoop
  <1> QED BY <1>1, <1>2, <1>3, <1>4, <1>5, <1>6, <1>7, <1>8, <1>9, OwnSteps DEF Work

\* A rule that is off is not found again before it is enabled.
LEMMA OffStays ==
  ASSUME TypeInv, [Next]_vars, NEW r \in Rules, Off(r)
  PROVE  Off(r)' \/ rules'[r].state = "enabled"
  <1>1. ASSUME NEW w \in Workers PROVE r \notin DOMAIN wk'[w].snap
    <2>1. r \notin FindMatchingTriggers(wk[w].job) /\ r \notin DOMAIN wk[w].snap
      BY DEF Off, FindMatchingTriggers
    <2>2. DOMAIN NoActions = {}
      BY DEF NoActions
    <2> QED BY <2>1, <2>2, SnapSteps
  <1> QED BY <1>1 DEF Off

\* No row is made for it.
LEMMA OffMakesNoRow ==
  ASSUME TypeInv, LedgerInv, [Next]_vars, NEW r \in Rules, Off(r),
         NEW id \in RunIds, runs[id] = None, runs'[id] # None
  PROVE  runs'[id].rule # r
  <1>1. PICK w \in Workers : CreateRun(w)
    <2>1. ~\E w \in Workers : SaveRun(w) /\ wk[w].run = id
      BY SaveRunStep
    <2>2. ~\E q \in ReplayJobs : ReplaySave(q) /\ req[q].run = id
      BY LoadedRow DEF ReplaySave
    <2> QED BY <2>1, <2>2, RowChanges
  <1>2. PICK s \in Rules : s \in wk[w].todo /\ runs'[id] = NewRun(wk[w].job, s)
    BY <1>1, CreateRunRow DEF IsFirst
  <1>3. s \in DOMAIN wk[w].snap
    BY <1>2 DEF TypeInv, Control, WorkerControl
  <1> QED BY <1>2, <1>3 DEF NewRun, Off

\* Its actions are run by replay jobs only: the loop runs those of rules it found.
LEMMA OffActsByReplay ==
  ASSUME TypeInv, LoopInv, [Next]_vars, NEW r \in Rules, Off(r),
         NEW x \in Places, x[2] = r, effects'[x] # effects[x]
  PROVE  \E w \in Workers : wk[w].job \in ReplayJobs /\ wk[w].doc # None /\ wk[w].doc.rule = r
  <1>1. PICK w \in Workers : RunAction(w)
    BY OnlyRunActionActs
  <1>2. PICK i \in DOMAIN wk[w].doc.slots : TakeEffect(w, i)
    BY <1>1, RunActionStep
  <1>3. wk[w].doc.rule = r
    <2>1. x = <<wk[w].doc.event, wk[w].doc.rule, i>>
      BY <1>2 DEF TakeEffect, TypeInv, TypeOK, Places
    <2> QED BY <2>1
  <1>4. wk[w].pc = "run"
    BY <1>1 DEF RunAction
  <1>5. wk[w].job \in JobIds /\ wk[w].doc # None
    BY <1>4, RowType, TypesAssumption
  <1>6. wk[w].job \notin Events
    BY <1>3, <1>4 DEF LoopInv, LoopControl, LoopPoints, Off
  <1> QED BY <1>3, <1>5, <1>6 DEF JobIds

\* Once a rule is disabled or deleted and the calls that found it are over, no call finds
\* it, no row is made for it and no job of an event runs its actions, for any number of
\* events, workers, retries and edits, until it is enabled again
\* (rules.service.ts:23-35).
THEOREM OffRulesRest == Spec => OffRulesFireNoMore
  <1>1. TypeInv /\ LedgerInv /\ LoopInv /\ [Next]_vars =>
          [\A r \in Rules : Off(r) =>
             /\ Off(r)' \/ rules'[r].state = "enabled"
             /\ \A id \in RunIds :
                  runs'[id] # None /\ runs'[id].rule = r => runs[id] # None
             /\ \A x \in Places : x[2] = r /\ effects'[x] # effects[x] =>
                  \E w \in Workers : wk[w].job \in ReplayJobs /\ wk[w].doc # None
                                     /\ wk[w].doc.rule = r]_vars
    <2> SUFFICES ASSUME TypeInv, LedgerInv, LoopInv, [Next]_vars, NEW r \in Rules, Off(r)
                 PROVE  /\ Off(r)' \/ rules'[r].state = "enabled"
                        /\ \A id \in RunIds :
                             runs'[id] # None /\ runs'[id].rule = r => runs[id] # None
                        /\ \A x \in Places : x[2] = r /\ effects'[x] # effects[x] =>
                             \E w \in Workers :
                               wk[w].job \in ReplayJobs /\ wk[w].doc # None
                               /\ wk[w].doc.rule = r
      OBVIOUS
    <2> QED BY OffStays, OffMakesNoRow, OffActsByReplay
  <1> QED BY <1>1, InvariantLoop, PTL DEF Spec, OffRulesFireNoMore

=============================================================================
