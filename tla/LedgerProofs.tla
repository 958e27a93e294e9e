---------------------------- MODULE LedgerProofs ----------------------------
(***************************************************************************)
(* What a row records was done, stays on record, and is done again only    *)
(* where several may work on it: WebhookProcessor implements ActionLedger, *)
(* for all values of the constants.                                        *)
(*                                                                         *)
(* Everything rests on the copies of a row that workers and requests hold  *)
(* in memory. A copy may be old, but then its version says so and it       *)
(* cannot be saved; a copy that can be saved has every success of the row. *)
(***************************************************************************)
EXTENDS FiringProofs

-----------------------------------------------------------------------------
(* Arrays of slots.                                                        *)

\* `new` is for the same actions as `old`, unless there were none yet, and has
\* its successes.
Continues(new, old) ==
  /\ DOMAIN old # {} => DOMAIN new = DOMAIN old
  /\ \A i \in DOMAIN old : /\ new[i].type = old[i].type
                           /\ ~Outstanding(old[i]) => new[i] = old[i]

\* The successes in `new` are in `old` already.
AddsNoSuccess(new, old) ==
  \A i \in DOMAIN new : ~Outstanding(new[i]) => i \in DOMAIN old /\ ~Outstanding(old[i])

LEMMA ContinuesTrans ==
  ASSUME NEW a, NEW b, NEW c, Continues(b, a), Continues(c, b)
  PROVE  Continues(c, a)
  BY DEF Continues

LEMMA ResetSlots ==
  ASSUME NEW slots \in SlotArrays
  PROVE  Continues(Reset(slots), slots) /\ AddsNoSuccess(Reset(slots), slots)
  <1>1. PICK d \in ArrayShapes : slots \in [d -> Slot]
    BY DEF SlotArrays
  <1>2. ASSUME NEW i \in d
        PROVE  /\ ResetSlot(slots[i]).type = slots[i].type
               /\ ~Outstanding(slots[i]) => ResetSlot(slots[i]) = slots[i]
               /\ Outstanding(slots[i]) => Outstanding(ResetSlot(slots[i]))
    BY <1>1 DEF ResetSlot, Outstanding, Slot
  <1> QED BY <1>1, <1>2 DEF Reset, Continues, AddsNoSuccess

LEMMA ResumedSlots ==
  ASSUME NEW doc \in RunDoc, NEW acts, NEW old, Continues(doc.slots, old)
  PROVE  Continues(Slots(doc, acts), old) /\ AddsNoSuccess(Slots(doc, acts), doc.slots)
  BY DEF Slots, Continues, AddsNoSuccess, Outstanding

LEMMA OutcomeDoc ==
  ASSUME NEW doc \in RunDoc, NEW i \in DOMAIN doc.slots, NEW status \in ActionStatus
  PROVE  LET new == WithOutcome(doc, i, status)
         IN  /\ new.event = doc.event /\ new.rule = doc.rule /\ new.ver = doc.ver
             /\ new.status = doc.status
             /\ DOMAIN new.slots = DOMAIN doc.slots
             /\ new.slots[i].type = doc.slots[i].type /\ new.slots[i].status = status
             /\ \A j \in DOMAIN doc.slots \ {i} : new.slots[j] = doc.slots[j]
  <1>1. PICK d \in ArrayShapes : doc.slots \in [d -> Slot]
    BY DEF RunDoc, SlotArrays
  <1> DEFINE slot  == [doc.slots[i] EXCEPT !.status = status]
             slots == [doc.slots EXCEPT ![i] = slot]
  <1>2. slot.type = doc.slots[i].type /\ slot.status = status
    BY <1>1 DEF Slot
  <1>3. WithOutcome(doc, i, status) = [doc EXCEPT !.slots = slots]
    BY DEF WithOutcome
  <1> HIDE DEF slot
  <1>4. /\ DOMAIN slots = DOMAIN doc.slots
        /\ slots[i] = slot
        /\ \A j \in DOMAIN doc.slots \ {i} : slots[j] = doc.slots[j]
    BY <1>1
  <1> HIDE DEF slots
  <1> QED BY <1>2, <1>3, <1>4 DEF RunDoc

LEMMA OutcomeContinues ==
  ASSUME NEW doc \in RunDoc, NEW i \in DOMAIN doc.slots, NEW status \in ActionStatus,
         Outstanding(doc.slots[i]), NEW old, Continues(doc.slots, old)
  PROVE  Continues(WithOutcome(doc, i, status).slots, old)
  <1> DEFINE new == WithOutcome(doc, i, status)
  <1>1. /\ DOMAIN new.slots = DOMAIN doc.slots
        /\ new.slots[i].type = doc.slots[i].type
        /\ \A j \in DOMAIN doc.slots \ {i} : new.slots[j] = doc.slots[j]
    BY OutcomeDoc
  <1> HIDE DEF new
  <1>2. Continues(new.slots, old)
    BY <1>1 DEF Continues
  <1> QED BY <1>2 DEF new

-----------------------------------------------------------------------------
(* Copies of rows.                                                         *)

Backed(doc, did) ==
  \A i \in DOMAIN doc.slots :
    ~Outstanding(doc.slots[i]) => did[<<doc.event, doc.rule, i>>] >= 1

CopyOf(doc, row, did) ==
  /\ doc.event = row.event /\ doc.rule = row.rule
  /\ doc.ver <= row.ver
  /\ doc.ver = row.ver => /\ Continues(doc.slots, row.slots)
                          /\ row.status \in {doc.status, "queued"}
  /\ Backed(doc, did)

\* What a step may do to a row, and to the record of what was done.
Advances(row, next) ==
  /\ next.event = row.event /\ next.rule = row.rule
  /\ Continues(next.slots, row.slots)
  /\ \/ next.ver > row.ver
     \/ /\ next.ver = row.ver /\ next.slots = row.slots
        /\ next.status \in {row.status, "queued"}

Grows(did, next) == \A x \in Places : next[x] >= did[x]

Effects == [Places -> Nat]

LEMMA BackedStays ==
  ASSUME NEW doc \in RunDoc, NEW did \in Effects, NEW next \in Effects,
         Backed(doc, did), Grows(did, next)
  PROVE  Backed(doc, next)
  <1> SUFFICES ASSUME NEW i \in DOMAIN doc.slots, ~Outstanding(doc.slots[i])
               PROVE  next[<<doc.event, doc.rule, i>>] >= 1
    BY DEF Backed
  <1> DEFINE x == <<doc.event, doc.rule, i>>
  <1>1. x \in Places
    BY SlotIndexType DEF Places, RunDoc
  <1>2. did[x] >= 1
    BY DEF Backed
  <1> HIDE DEF x
  <1>3. did[x] \in Nat /\ next[x] \in Nat /\ next[x] >= did[x]
    BY <1>1 DEF Grows, Effects
  <1>4. next[x] >= 1
    BY <1>2, <1>3
  <1> QED BY <1>4 DEF x

LEMMA CopyStays ==
  ASSUME NEW doc \in RunDoc, NEW row \in RunDoc, NEW row2 \in RunDoc,
         NEW did \in Effects, NEW next \in Effects,
         CopyOf(doc, row, did), Advances(row, row2), Grows(did, next)
  PROVE  CopyOf(doc, row2, next)
  <1>1. doc.ver \in Nat /\ row.ver \in Nat /\ row2.ver \in Nat
    BY DEF RunDoc
  <1>2. doc.ver <= row2.ver
    BY <1>1 DEF CopyOf, Advances
  <1>3. doc.ver = row2.ver => /\ doc.ver = row.ver /\ row2.slots = row.slots
                              /\ row2.status \in {row.status, "queued"}
    BY <1>1 DEF CopyOf, Advances
  <1> QED BY <1>2, <1>3, BackedStays DEF CopyOf, Advances

\* A copy as it was just made, and one that took in the actions to run.
LEMMA ResumedCopy ==
  ASSUME NEW doc \in RunDoc, NEW row, NEW did, NEW acts, CopyOf(doc, row, did)
  PROVE  LET new == [doc EXCEPT !.slots = Slots(doc, acts)]
         IN  CopyOf(new, row, did) /\ new.event = doc.event /\ new.ver = doc.ver
  <1> DEFINE slots == Slots(doc, acts)
             new   == [doc EXCEPT !.slots = slots]
  <1>1. AddsNoSuccess(slots, doc.slots)
    BY DEF Slots, AddsNoSuccess, Outstanding
  <1>2. doc.ver = row.ver => Continues(slots, row.slots)
    BY ResumedSlots DEF CopyOf
  <1> HIDE DEF slots
  <1>3. /\ new.event = doc.event /\ new.rule = doc.rule /\ new.ver = doc.ver
        /\ new.slots = slots /\ new.status = doc.status
    BY DEF RunDoc
  <1> HIDE DEF new
  <1>4. Backed(new, did)
    BY <1>1, <1>3 DEF Backed, AddsNoSuccess, CopyOf
  <1>5. CopyOf(new, row, did) /\ new.event = doc.event /\ new.ver = doc.ver
    BY <1>2, <1>3, <1>4 DEF CopyOf
  <1> QED BY <1>5 DEF new, slots

LEMMA RowIsItsCopy ==
  ASSUME NEW row \in RunDoc, NEW did, Backed(row, did)
  PROVE  CopyOf(row, row, did) /\ Advances(row, row)
  BY DEF CopyOf, Advances, Continues, RunDoc

-----------------------------------------------------------------------------
(* The steps that change rows or the world.                                *)

LedgerInv ==
  /\ \A id \in RunIds : runs[id] # None => Backed(runs[id], effects)
  /\ \A w \in Workers :
       wk[w].pc \in {"run", "replayRules"} => CopyOf(wk[w].doc, runs[wk[w].run], effects)
  /\ \A q \in ReplayJobs :
       req[q].pc = "loaded" => CopyOf(req[q].doc, runs[req[q].run], effects)

LEMMA EffectsType ==
  ASSUME TypeInv
  PROVE  effects \in Effects
  BY DEF TypeInv, TypeOK, Effects, Places

\* What the loop does with the action it is at.
LEMMA RunActionStep ==
  ASSUME TypeInv, NEW w \in Workers, RunAction(w)
  PROVE  \E i \in DOMAIN wk[w].doc.slots, status \in ActionStatus :
           /\ wk[w].pc = "run" /\ wk[w].doc \in RunDoc
           /\ <<wk[w].doc.event, wk[w].doc.rule, i>> \in Places
           /\ Outstanding(wk[w].doc.slots[i])
           /\ wk'[w].pc = "run" /\ wk'[w].job = wk[w].job /\ wk'[w].run = wk[w].run
           /\ wk'[w].doc = WithOutcome(wk[w].doc, i, status)
           /\ \/ effects' = effects
              \/ TakeEffect(w, i) /\ (status = "succeeded" \/ Spend("lostReply"))
           /\ status = "succeeded" => TakeEffect(w, i)
  <1> wk[w] \in WorkerRecord
    BY DEF TypeInv, TypeOK
  <1>1. PICK i \in Positions : IsFirst(i, Due(w)) /\ (Execute(w, i) \/ Reject(w, i))
    BY DEF RunAction
  <1>2. /\ i \in DOMAIN wk[w].doc.slots /\ Outstanding(wk[w].doc.slots[i])
        /\ wk[w].pc = "run" /\ wk[w].doc \in RunDoc
    BY <1>1, RowType DEF RunAction, IsFirst, Due
  <1>3. PICK status \in ActionStatus :
          /\ Record(w, i, status)
          /\ \/ effects' = effects
             \/ TakeEffect(w, i) /\ (status = "succeeded" \/ Spend("lostReply"))
          /\ status = "succeeded" => TakeEffect(w, i)
    BY <1>1 DEF Execute, Reject, ActionStatus
  <1> DEFINE doc    == WithOutcome(wk[w].doc, i, status)
             record == [wk[w] EXCEPT !.at = i, !.doc = doc]
  <1>4. wk' = [wk EXCEPT ![w] = record]
    BY <1>3 DEF Record
  <1> HIDE DEF doc
  <1>5. /\ record.pc = wk[w].pc /\ record.job = wk[w].job
        /\ record.run = wk[w].run /\ record.doc = doc
    BY DEF WorkerRecord
  <1> HIDE DEF record
  <1>6. wk'[w] = record
    BY <1>4 DEF TypeInv, TypeOK
  <1>7. <<wk[w].doc.event, wk[w].doc.rule, i>> \in Places
    BY <1>2 DEF Places, RunDoc
  <1> QED BY <1>2, <1>3, <1>5, <1>6, <1>7 DEF doc

LEMMA TakeEffectGrows ==
  ASSUME TypeInv, NEW w \in Workers, NEW i, TakeEffect(w, i),
         <<wk[w].doc.event, wk[w].doc.rule, i>> \in Places
  PROVE  /\ Grows(effects, effects')
         /\ effects'[<<wk[w].doc.event, wk[w].doc.rule, i>>] >= 1
  <1> DEFINE x == <<wk[w].doc.event, wk[w].doc.rule, i>>
  <1>1. effects \in [Places -> Nat] /\ x \in Places
    BY EffectsType DEF Effects
  <1>2. effects' = [effects EXCEPT ![x] = effects[x] + 1]
    BY DEF TakeEffect
  <1> HIDE DEF x
  <1>3. effects'[x] = effects[x] + 1 /\ \A y \in Places \ {x} : effects'[y] = effects[y]
    BY <1>1, <1>2
  <1>4. \A y \in Places : effects[y] \in Nat
    BY <1>1
  <1>5. Grows(effects, effects') /\ effects'[x] >= 1
    BY <1>1, <1>3, <1>4 DEF Grows
  <1> QED BY <1>5 DEF x

LEMMA OnlyRunActionActs ==
  ASSUME [Next]_vars, \A w \in Workers : ~RunAction(w)
  PROVE  UNCHANGED effects
  <1>1. ASSUME NEW w \in Workers, Work(w) PROVE UNCHANGED effects
    BY <1>1 DEF Work, TakeJob, MarkProcessing, FindRules, RuleEvalThrows, FindRun, CreateRun,
       MarkProcessed, LoadRun, FindReplayRule, SaveRun, SaveConflict, Finish
  <1>2. ASSUME NEW w \in Workers, Interfere(w) PROVE UNCHANGED effects
    BY <1>2 DEF Interfere, DbError, Crash, LoseLock
  <1>3. (\E j \in JobIds : Recover(j)) \/ (\E r \in Rules : EditRule(r))
          \/ (\E q \in ReplayJobs : Replay(q)) \/ UNCHANGED vars => UNCHANGED effects
    BY DEF Recover, EditRule, Replay, vars
  <1> QED BY <1>1, <1>2, <1>3 DEF Next, Quiescent

LEMMA EffectsGrow ==
  ASSUME TypeInv, [Next]_vars
  PROVE  Grows(effects, effects')
  <1>1. CASE UNCHANGED effects
    <2>1. \A x \in Places : effects[x] \in Nat
      BY EffectsType DEF Effects
    <2> QED BY <1>1, <2>1 DEF Grows
  <1>2. ASSUME NEW w \in Workers, RunAction(w) PROVE Grows(effects, effects')
    BY <1>1, <1>2, RunActionStep, TakeEffectGrows
  <1> QED BY <1>1, <1>2, OnlyRunActionActs

\* The document with the outcome in it is still a copy of its row.
LEMMA RunActionCopy ==
  ASSUME TypeInv, LedgerInv, NEW w \in Workers, RunAction(w), effects' \in Effects
  PROVE  CopyOf(wk'[w].doc, runs[wk[w].run], effects')
  <1>1. PICK i \in DOMAIN wk[w].doc.slots, status \in ActionStatus :
          /\ wk[w].pc = "run" /\ wk[w].doc \in RunDoc
          /\ <<wk[w].doc.event, wk[w].doc.rule, i>> \in Places
          /\ Outstanding(wk[w].doc.slots[i])
          /\ wk'[w].doc = WithOutcome(wk[w].doc, i, status)
          /\ effects' = effects \/ TakeEffect(w, i)
          /\ status = "succeeded" => TakeEffect(w, i)
    BY RunActionStep
  <1> DEFINE old == wk[w].doc
             new == wk'[w].doc
             row == runs[wk[w].run]
  <1>2. CopyOf(old, row, effects)
    BY <1>1 DEF LedgerInv
  <1>3. /\ new.event = old.event /\ new.rule = old.rule /\ new.ver = old.ver
        /\ new.status = old.status
        /\ DOMAIN new.slots = DOMAIN old.slots
        /\ new.slots[i].status = status
        /\ \A j \in DOMAIN old.slots \ {i} : new.slots[j] = old.slots[j]
    BY <1>1, OutcomeDoc
  <1>4. new.ver = row.ver => Continues(new.slots, row.slots)
    BY <1>1, <1>2, <1>3, OutcomeContinues DEF CopyOf
  <1>5. Backed(old, effects')
    <2>1. Grows(effects, effects')
      <3>1. CASE effects' = effects
        BY <3>1, EffectsType DEF Effects, Grows
      <3> QED BY <1>1, <3>1, TakeEffectGrows
    <2> QED BY <1>1, <1>2, <2>1, EffectsType, BackedStays DEF CopyOf
  <1>6. status = "succeeded" => effects'[<<old.event, old.rule, i>>] >= 1
    BY <1>1, TakeEffectGrows
  <1> HIDE DEF old, new, row
  <1>7. Backed(new, effects')
    BY <1>3, <1>5, <1>6 DEF Backed, Outstanding
  <1>8. CopyOf(new, row, effects')
    BY <1>2, <1>3, <1>4, <1>7 DEF CopyOf
  <1> QED BY <1>8 DEF new, row

\* A save puts a copy in the place of the row.
LEMMA SaveArrayAdvances ==
  ASSUME JobsTypeOK, NEW id \in RunIds, runs[id] \in RunDoc, NEW doc \in RunDoc,
         NEW status \in JobStatus, NEW slots \in SlotArrays,
         SaveArray(id, doc, status, slots), CopyOf(doc, runs[id], effects),
         Continues(slots, doc.slots), AddsNoSuccess(slots, doc.slots)
  PROVE  /\ \A i \in RunIds \ {id} : runs'[i] = runs[i]
         /\ Advances(runs[id], runs'[id]) /\ Backed(runs'[id], effects)
         /\ runs'[id].slots = slots /\ runs'[id].status \in {status, "queued"}
  <1> DEFINE ver     == runs[id].ver + 1
             written == Written(id, doc, status)
             row == [runs[id] EXCEPT !.status = written, !.slots = slots, !.ver = ver]
  <1>1. runs' = [runs EXCEPT ![id] = row] /\ runs[id].ver = doc.ver
    BY DEF SaveArray, Stale
  <1>2. ver > runs[id].ver
    BY DEF RunDoc
  <1>3. Continues(slots, runs[id].slots)
    BY <1>1, ContinuesTrans DEF CopyOf
  <1>8. written \in {status, "queued"}
    BY <1>1 DEF Written, CopyOf
  <1> HIDE DEF ver, written
  <1>4. /\ row.event = runs[id].event /\ row.rule = runs[id].rule
        /\ row.ver = ver /\ row.slots = slots /\ row.status = written
    BY DEF RunDoc
  <1> HIDE DEF row
  <1>5. runs'[id] = row /\ \A i \in RunIds \ {id} : runs'[i] = runs[i]
    BY <1>1 DEF JobsTypeOK
  <1>6. Advances(runs[id], row)
    BY <1>2, <1>3, <1>4 DEF Advances
  <1>7. Backed(row, effects)
    BY <1>4 DEF Backed, CopyOf, AddsNoSuccess
  <1> QED BY <1>4, <1>5, <1>6, <1>7, <1>8

LEMMA SaveStatusAdvances ==
  ASSUME JobsTypeOK, NEW id \in RunIds, runs[id] \in RunDoc, NEW doc,
         SaveStatus(id, doc, "queued"), Backed(runs[id], effects)
  PROVE  /\ \A i \in RunIds \ {id} : runs'[i] = runs[i]
         /\ Advances(runs[id], runs'[id]) /\ Backed(runs'[id], effects)
         /\ runs'[id].slots = runs[id].slots
         /\ runs'[id].status \in {runs[id].status, "queued"}
  <1> DEFINE written == Written(id, doc, "queued")
             row == [runs[id] EXCEPT !.status = written]
  <1>1. runs' = [runs EXCEPT ![id] = row]
    BY DEF SaveStatus
  <1>4. written \in {runs[id].status, "queued"}
    BY DEF Written
  <1> HIDE DEF written
  <1>2. /\ row.event = runs[id].event /\ row.rule = runs[id].rule
        /\ row.ver = runs[id].ver /\ row.slots = runs[id].slots /\ row.status = written
    BY DEF RunDoc
  <1> HIDE DEF row
  <1>3. runs'[id] = row /\ \A i \in RunIds \ {id} : runs'[i] = runs[i]
    BY <1>1 DEF JobsTypeOK
  <1> QED BY <1>2, <1>3, <1>4 DEF Advances, Continues, Backed

LEMMA SaveRunStep ==
  ASSUME TypeInv, LedgerInv, NEW w \in Workers, SaveRun(w)
  PROVE  LET id == wk[w].run
         IN  /\ wk[w].pc = "run" /\ id \in RunIds /\ runs[id] # None
             /\ \A i \in RunIds \ {id} : runs'[i] = runs[i]
             /\ Advances(runs[id], runs'[id]) /\ Backed(runs'[id], effects)
             /\ runs'[id].slots = wk[w].doc.slots
             /\ runs'[id].status \in {FinalStatus(wk[w].doc.slots), "queued"}
             /\ wk'[w].pc # "run" /\ effects' = effects
  <1>1. /\ wk[w].run \in RunIds /\ runs[wk[w].run] \in RunDoc /\ runs[wk[w].run] # None
        /\ wk[w].doc \in RunDoc /\ wk[w].doc.slots \in SlotArrays
    BY RowType DEF SaveRun, RunDoc
  <1>2. /\ FinalStatus(wk[w].doc.slots) \in JobStatus
        /\ Continues(wk[w].doc.slots, wk[w].doc.slots)
        /\ AddsNoSuccess(wk[w].doc.slots, wk[w].doc.slots)
    BY FinalStatusType DEF Continues, AddsNoSuccess
  <1>3. CopyOf(wk[w].doc, runs[wk[w].run], effects) /\ wk[w].pc = "run" /\ effects' = effects
    BY DEF LedgerInv, SaveRun
  <1>4. JobsTypeOK
    BY DEF TypeInv, TypeOK
  <1>5. wk'[w].pc # "run"
    <2> wk[w] \in WorkerRecord
      BY DEF TypeInv, TypeOK
    <2>1. wk'[w].pc \in {"loop", "finish"}
      BY DEF SaveRun, WorkerRecord, TypeInv, TypeOK
    <2> QED BY <2>1
  <1>6. SaveArray(wk[w].run, wk[w].doc, FinalStatus(wk[w].doc.slots), wk[w].doc.slots)
    BY DEF SaveRun
  <1> QED BY <1>1, <1>2, <1>3, <1>4, <1>5, <1>6, SaveArrayAdvances

LEMMA ReplaySaveStep ==
  ASSUME TypeInv, LedgerInv, NEW q \in ReplayJobs, ReplaySave(q)
  PROVE  LET id == req[q].run
         IN  /\ id \in RunIds /\ runs[id] # None
             /\ \A i \in RunIds \ {id} : runs'[i] = runs[i]
             /\ Advances(runs[id], runs'[id]) /\ Backed(runs'[id], effects)
             /\ \/ runs'[id].status = "queued"
                \/ runs'[id].slots = runs[id].slots /\ runs'[id].status = runs[id].status
  <1>1. /\ req[q].run \in RunIds /\ runs[req[q].run] \in RunDoc /\ runs[req[q].run] # None
        /\ req[q].doc \in RunDoc /\ req[q].doc.slots \in SlotArrays
    BY LoadedRow DEF ReplaySave, RunDoc
  <1>2. /\ Reset(req[q].doc.slots) \in SlotArrays /\ "queued" \in JobStatus
        /\ Continues(Reset(req[q].doc.slots), req[q].doc.slots)
        /\ AddsNoSuccess(Reset(req[q].doc.slots), req[q].doc.slots)
    BY <1>1, ResetType, ResetSlots DEF JobStatus
  <1>3. CopyOf(req[q].doc, runs[req[q].run], effects) /\ Backed(runs[req[q].run], effects)
    BY <1>1 DEF LedgerInv, ReplaySave
  <1>4. JobsTypeOK
    BY DEF TypeInv, TypeOK
  <1>5. \/ SaveArray(req[q].run, req[q].doc, "queued", Reset(req[q].doc.slots))
        \/ SaveStatus(req[q].run, req[q].doc, "queued")
    BY DEF ReplaySave
  <1> QED BY <1>1, <1>2, <1>3, <1>4, <1>5, SaveArrayAdvances, SaveStatusAdvances

\* Who changes a row.
LEMMA RowChanges ==
  ASSUME TypeInv, LedgerInv, [Next]_vars, NEW id \in RunIds, runs'[id] # runs[id]
  PROVE  \/ \E w \in Workers : SaveRun(w) /\ wk[w].run = id
         \/ \E q \in ReplayJobs : ReplaySave(q) /\ req[q].run = id /\ UNCHANGED <<wk, effects>>
         \/ \E w \in Workers : CreateRun(w) /\ runs[id] = None
                                 /\ runs'[id].slots = NoActions
                                 /\ runs'[id].status = "processing"
  <1>1. ASSUME NEW w \in Workers, SaveRun(w) PROVE wk[w].run = id
    BY <1>1, SaveRunStep
  <1>2. ASSUME NEW w \in Workers, CreateRun(w)
        PROVE  /\ runs[id] = None /\ runs'[id].slots = NoActions
               /\ runs'[id].status = "processing"
    <2>1. PICK r \in Rules, i \in RunIds :
            /\ runs[i] = None /\ runs'[i] = NewRun(wk[w].job, r)
            /\ \A k \in RunIds \ {i} : runs'[k] = runs[k]
      BY <1>2, CreateRunRow
    <2>2. i = id
      BY <2>1
    <2> QED BY <2>1, <2>2 DEF NewRun
  <1>3. ASSUME NEW w \in Workers, Work(w) PROVE SaveRun(w) \/ CreateRun(w)
    BY <1>3 DEF Work, TakeJob, MarkProcessing, FindRules, RuleEvalThrows,
       FindRun, MarkProcessed, LoadRun, FindReplayRule, RunAction, SaveConflict, Finish
  <1>4. ASSUME NEW w \in Workers, Interfere(w) PROVE FALSE
    BY <1>4 DEF Interfere, DbError, Crash, LoseLock
  <1>5. ASSUME NEW q \in ReplayJobs, Replay(q)
        PROVE  ReplaySave(q) /\ req[q].run = id /\ UNCHANGED <<wk, effects>>
    <2>1. ReplaySave(q)
      BY <1>5 DEF Replay, ReplayLoad, ReplayRequest, ReplayConflict, ReplayEnqueue, ReplayAbort
    <2> QED BY <1>5, <2>1, ReplaySaveStep DEF Replay
  <1>6. (\E j \in JobIds : Recover(j)) \/ (\E r \in Rules : EditRule(r)) \/ UNCHANGED vars
          => FALSE
    BY DEF Recover, EditRule, vars
  <1> QED BY <1>1, <1>2, <1>3, <1>4, <1>5, <1>6 DEF Next, Quiescent

LEMMA RowsAdvance ==
  ASSUME TypeInv, TypeInv', LedgerInv, [Next]_vars, NEW id \in RunIds
  PROVE  /\ runs[id] # None => runs'[id] # None /\ Advances(runs[id], runs'[id])
         /\ runs'[id] # None => Backed(runs'[id], effects')
  <1>1. CASE runs'[id] = runs[id]
    <2> SUFFICES ASSUME runs[id] # None
                 PROVE  Advances(runs[id], runs[id]) /\ Backed(runs[id], effects')
      BY <1>1
    <2>1. runs[id] \in RunDoc /\ Backed(runs[id], effects)
      BY DEF TypeInv, TypeOK, JobsTypeOK, LedgerInv
    <2>2. effects \in Effects /\ effects' \in Effects
      BY EffectsType DEF TypeInv, TypeOK, Effects, Places
    <2> QED BY <2>1, <2>2, RowIsItsCopy, EffectsGrow, BackedStays
  <1>2. ASSUME NEW w \in Workers, CreateRun(w), runs[id] = None, runs'[id].slots = NoActions
        PROVE  Backed(runs'[id], effects')
    BY <1>2 DEF Backed, NoActions
  <1>3. ASSUME runs[id] # None
        PROVE  runs'[id] # None
    <2>1. CASE \A w \in Workers : ~CreateRun(w)
      BY <1>3, <2>1, OtherStepsKeepRows DEF SameRows
    <2>2. ASSUME NEW w \in Workers, CreateRun(w) PROVE runs'[id] = runs[id]
      BY <1>3, <2>2, CreateRunRow
    <2> QED BY <1>3, <2>1, <2>2
  <1> QED BY <1>1, <1>2, <1>3, RowChanges, SaveRunStep, ReplaySaveStep

-----------------------------------------------------------------------------
(* How a worker or a request comes by its copy.                            *)

LEMMA HowCopied ==
  ASSUME TypeInv, [Next]_vars, NEW v \in Workers, wk'[v].pc \in {"run", "replayRules"}
  PROVE  \/ wk'[v] = wk[v]
         \/ FindRun(v) \/ CreateRun(v) \/ LoadRun(v) \/ FindReplayRule(v) \/ RunAction(v)
  <1>1. ASSUME NEW w \in Workers, Work(w), v # w PROVE wk'[v] = wk[v]
    <2>1. CASE TakeJob(w)
      BY <1>1, <2>1 DEF TakeJob, TypeInv, TypeOK
    <2>2. CASE Finish(w)
      BY <1>1, <2>2 DEF Finish, TypeInv, TypeOK
    <2> QED BY <1>1, <2>1, <2>2, WorkIsInside DEF Inside
  <1>2. CASE Work(v)
    <2> wk[v] \in WorkerRecord
      BY DEF TypeInv, TypeOK
    <2>1. CASE TakeJob(v)
      <3>1. wk'[v].pc \in {"started", "load"}
        BY <2>1 DEF TakeJob, TypeInv, TypeOK, WorkerRecord
      <3> QED BY <3>1
    <2>2. CASE MarkProcessing(v) \/ MarkProcessed(v) \/ FindRules(v) \/ SaveRun(v)
      <3>1. MarkProcessing(v) => wk'[v].pc = "rules"
        BY DEF MarkProcessing, TypeInv, TypeOK, WorkerRecord
      <3>2. MarkProcessed(v) => wk'[v].pc = "finish"
        BY DEF MarkProcessed, TypeInv, TypeOK, WorkerRecord
      <3>3. FindRules(v) => wk'[v].pc = "loop"
        <4> DEFINE found  == FindMatchingTriggers(wk[v].job)
                   snap   == [r \in found |-> rules[r]]
                   todo   == {r \in found : rules[r].reading[wk[v].job] # "skip"}
                   record == [wk[v] EXCEPT !.pc = "loop", !.snap = snap, !.todo = todo]
        <4>1. FindRules(v) => wk' = [wk EXCEPT ![v] = record]
          BY DEF FindRules
        <4> HIDE DEF snap, todo
        <4>2. record.pc = "loop"
          BY DEF WorkerRecord
        <4> QED BY <4>1, <4>2 DEF TypeInv, TypeOK
      <3>4. SaveRun(v) => wk'[v].pc \in {"loop", "finish"}
        BY SaveRunIsInside
      <3> QED BY <2>2, <3>1, <3>2, <3>3, <3>4
    <2>3. CASE RuleEvalThrows(v) \/ SaveConflict(v)
      <3>1. wk'[v].pc = "finish"
        BY <2>3, ThrowIsInside DEF RuleEvalThrows, SaveConflict
      <3> QED BY <3>1
    <2>4. CASE Finish(v)
      <3>1. wk'[v] = Idle
        BY <2>4 DEF Finish, TypeInv, TypeOK
      <3> QED BY <3>1 DEF Idle
    <2> QED BY <1>2, <2>1, <2>2, <2>3, <2>4 DEF Work
  <1>3. ASSUME NEW w \in Workers, Interfere(w) PROVE wk'[v] = wk[v]
    <2>1. CASE DbError(w)
      BY <2>1, ThrowIsInside DEF DbError, Inside
    <2>2. CASE Crash(w)
      <3>1. wk'[w] = Idle /\ \A u \in Workers \ {w} : wk'[u] = wk[u]
        BY <2>2 DEF Crash, TypeInv, TypeOK
      <3> QED BY <3>1 DEF Idle
    <2>3. CASE LoseLock(w)
      BY <2>3 DEF LoseLock
    <2> QED BY <1>3, <2>1, <2>2, <2>3 DEF Interfere
  <1>4. (\E j \in JobIds : Recover(j)) \/ (\E r \in Rules : EditRule(r))
          \/ (\E q \in ReplayJobs : Replay(q)) \/ UNCHANGED vars => wk'[v] = wk[v]
    BY DEF Recover, EditRule, Replay, vars
  <1> QED BY <1>1, <1>2, <1>3, <1>4 DEF Next, Quiescent

LEMMA ResumeStep ==
  ASSUME TypeInv, NEW w \in Workers, NEW id, NEW doc, NEW acts, Resume(w, id, doc, acts)
  PROVE  /\ wk'[w].pc = "run" /\ wk'[w].job = wk[w].job /\ wk'[w].run = id
         /\ wk'[w].doc = [doc EXCEPT !.slots = Slots(doc, acts)]
  <1> DEFINE d == [doc EXCEPT !.slots = Slots(doc, acts)]
             record == [wk[w] EXCEPT !.pc = "run", !.run = id, !.doc = d,
                                     !.acts = acts, !.at = 0]
  <1>1. wk' = [wk EXCEPT ![w] = record]
    BY DEF Resume
  <1>2. wk[w] \in WorkerRecord
    BY DEF TypeInv, TypeOK
  <1> HIDE DEF d
  <1>3. record.pc = "run" /\ record.job = wk[w].job /\ record.run = id /\ record.doc = d
    BY <1>2 DEF WorkerRecord
  <1> HIDE DEF record
  <1>4. wk'[w] = record
    BY <1>1 DEF TypeInv, TypeOK
  <1> QED BY <1>3, <1>4 DEF d

\* A worker goes on with the copy it has,
KeepsDoc(v) ==
  /\ wk[v].pc \in {"run", "replayRules"}
  /\ wk'[v].job = wk[v].job /\ wk'[v].run = wk[v].run
  /\ wk'[v].doc.event = wk[v].doc.event /\ wk'[v].doc.ver = wk[v].doc.ver
  /\ UNCHANGED <<runs, req>>

\* has just read the row of a rule that fired for the event of its job,
ReadsRow(v) ==
  /\ wk'[v].job \in Events /\ wk'[v].doc.event = wk'[v].job
  /\ wk'[v].doc.ver = runs'[wk'[v].run].ver

\* or has just read the row it shall replay.
ReadsReplayed(v) ==
  /\ wk'[v].job \in ReplayJobs /\ wk'[v].run = req'[wk'[v].job].run

LEMMA AfterFindRun ==
  ASSUME TypeInv, TypeInv', LedgerInv, [Next]_vars, NEW v \in Workers,
         FindRun(v) \/ CreateRun(v), wk'[v].pc \in {"run", "replayRules"}
  PROVE  CopyOf(wk'[v].doc, runs'[wk'[v].run], effects') /\ ReadsRow(v)
  <1> wk[v] \in WorkerRecord
    BY DEF TypeInv, TypeOK
  <1>1. PICK id \in RunIds :
          /\ runs'[id] # None /\ runs'[id].event = wk[v].job
          /\ \E acts : Resume(v, id, runs'[id], acts)
    <2>1. CASE FindRun(v)
      <3>1. PICK r \in Rules :
              \/ \E id \in RowsFor(wk[v].job, r) :
                   Resume(v, id, runs[id], wk[v].snap[r].actions)
              \/ wk' = [wk EXCEPT ![v].pc = "create"]
        BY <2>1 DEF FindRun
      <3>2. ~(wk' = [wk EXCEPT ![v].pc = "create"])
        <4>1. SUFFICES ASSUME wk' = [wk EXCEPT ![v].pc = "create"]
                       PROVE  wk'[v].pc = "create"
          OBVIOUS
        <4> QED BY <4>1 DEF TypeInv, TypeOK, WorkerRecord
      <3> QED BY <2>1, <3>1, <3>2 DEF FindRun, RowsFor
    <2>2. CASE CreateRun(v)
      <3>1. PICK r \in Rules, id \in RunIds :
              /\ InsertRun(id, wk[v].job, r)
              /\ Resume(v, id, NewRun(wk[v].job, r), wk[v].snap[r].actions)
        BY <2>2 DEF CreateRun
      <3>2. wk[v].job \in Events
        BY <2>2 DEF CreateRun, TypeInv, Control, WorkerControl
      <3>3. runs'[id] = NewRun(wk[v].job, r)
        BY <3>1 DEF InsertRun, TypeInv, TypeOK, JobsTypeOK
      <3>4. runs'[id] # None /\ runs'[id].event = wk[v].job
        BY <3>2, <3>3, NewRunType, TypesAssumption DEF NewRun
      <3> QED BY <3>1, <3>3, <3>4
    <2> QED BY <2>1, <2>2
  <1>2. PICK acts : Resume(v, id, runs'[id], acts)
    BY <1>1
  <1>3. runs'[id] \in RunDoc
    BY <1>1 DEF TypeInv, TypeOK, JobsTypeOK
  <1>4. CopyOf(runs'[id], runs'[id], effects')
    BY <1>1, <1>3, RowsAdvance, RowIsItsCopy
  <1>5. /\ wk'[v].run = id /\ wk'[v].job = wk[v].job
        /\ wk'[v].doc = [runs'[id] EXCEPT !.slots = Slots(runs'[id], acts)]
    BY <1>2, ResumeStep
  <1>6. wk[v].job \in Events
    BY DEF FindRun, CreateRun, TypeInv, Control, WorkerControl
  <1>7. /\ CopyOf(wk'[v].doc, runs'[id], effects')
        /\ wk'[v].doc.event = runs'[id].event /\ wk'[v].doc.ver = runs'[id].ver
    BY <1>3, <1>4, <1>5, ResumedCopy
  <1> QED BY <1>1, <1>5, <1>6, <1>7 DEF ReadsRow

LEMMA AfterLoadRun ==
  ASSUME TypeInv, LedgerInv, NEW v \in Workers, LoadRun(v)
  PROVE  CopyOf(wk'[v].doc, runs'[wk'[v].run], effects') /\ ReadsReplayed(v)
  <1> DEFINE id     == req[wk[v].job].run
             record == [wk[v] EXCEPT !.pc = "replayRules", !.run = id, !.doc = runs[id]]
  <1>1. wk[v] \in WorkerRecord /\ wk[v].job \in ReplayJobs
    BY DEF LoadRun, TypeInv, TypeOK, Control, WorkerControl
  <1>2. id \in RunIds /\ runs[id] # None
    BY <1>1 DEF TypeInv, Control, WorkerControl, RequestControl, Past
  <1>3. runs[id] \in RunDoc /\ CopyOf(runs[id], runs[id], effects)
    BY <1>2, RowIsItsCopy DEF TypeInv, TypeOK, JobsTypeOK, LedgerInv
  <1>4. wk' = [wk EXCEPT ![v] = record] /\ UNCHANGED <<runs, req, effects>>
    BY DEF LoadRun
  <1> HIDE DEF id
  <1>5. record.job = wk[v].job /\ record.run = id /\ record.doc = runs[id]
    BY <1>1 DEF WorkerRecord
  <1> HIDE DEF record
  <1>6. wk'[v] = record
    BY <1>4 DEF TypeInv, TypeOK
  <1> QED BY <1>1, <1>3, <1>4, <1>5, <1>6 DEF ReadsReplayed, id

LEMMA AfterFindReplayRule ==
  ASSUME TypeInv, LedgerInv, NEW v \in Workers, FindReplayRule(v)
  PROVE  CopyOf(wk'[v].doc, runs'[wk'[v].run], effects') /\ KeepsDoc(v)
  <1>1. wk[v].pc = "replayRules" /\ UNCHANGED <<runs, req, effects>>
    BY DEF FindReplayRule
  <1>2. PICK acts : Resume(v, wk[v].run, wk[v].doc, acts)
    BY DEF FindReplayRule
  <1>3. wk[v].doc \in RunDoc /\ CopyOf(wk[v].doc, runs[wk[v].run], effects)
    BY <1>1, RowType DEF LedgerInv
  <1>4. /\ wk'[v].run = wk[v].run /\ wk'[v].job = wk[v].job
        /\ wk'[v].doc = [wk[v].doc EXCEPT !.slots = Slots(wk[v].doc, acts)]
    BY <1>2, ResumeStep
  <1>5. /\ CopyOf(wk'[v].doc, runs[wk[v].run], effects)
        /\ wk'[v].doc.event = wk[v].doc.event /\ wk'[v].doc.ver = wk[v].doc.ver
    BY <1>3, <1>4, ResumedCopy
  <1> QED BY <1>1, <1>4, <1>5 DEF KeepsDoc

LEMMA AfterRunAction ==
  ASSUME TypeInv, TypeInv', LedgerInv, NEW v \in Workers, RunAction(v)
  PROVE  CopyOf(wk'[v].doc, runs'[wk'[v].run], effects') /\ KeepsDoc(v)
  <1>1. PICK i \in DOMAIN wk[v].doc.slots, status \in ActionStatus :
          /\ wk[v].pc = "run" /\ wk[v].doc \in RunDoc
          /\ wk'[v].job = wk[v].job /\ wk'[v].run = wk[v].run
          /\ wk'[v].doc = WithOutcome(wk[v].doc, i, status)
    BY RunActionStep
  <1>2. wk'[v].doc.event = wk[v].doc.event /\ wk'[v].doc.ver = wk[v].doc.ver
    BY <1>1, OutcomeDoc
  <1>3. UNCHANGED <<runs, req>>
    BY DEF RunAction
  <1>4. effects' \in Effects
    BY DEF TypeInv, TypeOK, Effects, Places
  <1> QED BY <1>1, <1>2, <1>3, <1>4, RunActionCopy DEF KeepsDoc

LEMMA HasCopy ==
  ASSUME TypeInv, TypeInv', LedgerInv, [Next]_vars,
         NEW v \in Workers, wk'[v].pc \in {"run", "replayRules"}
  PROVE  /\ CopyOf(wk'[v].doc, runs'[wk'[v].run], effects')
         /\ wk'[v] = wk[v] \/ KeepsDoc(v) \/ ReadsRow(v) \/ ReadsReplayed(v)
  <1>1. CASE wk'[v] = wk[v]
    <2> DEFINE id  == wk[v].run
               doc == wk[v].doc
    <2>1. /\ id \in RunIds /\ runs[id] \in RunDoc /\ runs[id] # None /\ doc \in RunDoc
          /\ CopyOf(doc, runs[id], effects)
      BY <1>1, RowType DEF LedgerInv
    <2>2. runs'[id] # None /\ Advances(runs[id], runs'[id])
      BY <2>1, RowsAdvance
    <2>3. runs'[id] \in RunDoc /\ effects \in Effects /\ effects' \in Effects
      BY <2>1, <2>2, EffectsType DEF TypeInv, TypeOK, JobsTypeOK, Effects, Places
    <2> HIDE DEF id, doc
    <2>4. CopyOf(doc, runs'[id], effects')
      BY <2>1, <2>2, <2>3, EffectsGrow, CopyStays
    <2> QED BY <1>1, <2>4 DEF id, doc
  <1> QED BY <1>1, HowCopied, AfterFindRun, AfterLoadRun, AfterFindReplayRule, AfterRunAction

\* Only ReplayLoad gives a request a row, and it keeps that row.
LEMMA RequestSteps ==
  ASSUME TypeInv, [Next]_vars, NEW q \in ReplayJobs
  PROVE  /\ \/ req[q].pc = "unused"
            \/ req'[q].run = req[q].run
         /\ \/ req'[q] = req[q]
            \/ req'[q].pc \notin {"unused", "loaded"}
            \/ /\ req'[q].pc = "loaded"
               /\ \E id \in RunIds : ReplayLoad(q, id) /\ UNCHANGED <<wk, effects>>
  <1> req[q] \in Request
    BY DEF TypeInv, TypeOK, JobsTypeOK
  <1>1. CASE UNCHANGED req
    BY <1>1
  <1>2. ASSUME NEW p \in ReplayJobs, Replay(p), p # q PROVE req'[q] = req[q]
    BY <1>2 DEF Replay, ReplayLoad, ReplayRequest, ReplaySave, ReplayConflict, ReplayEnqueue,
                ReplayAbort, TypeInv, TypeOK, JobsTypeOK
  <1>3. CASE Replay(q)
    <2>1. ASSUME NEW id \in RunIds, ReplayLoad(q, id)
          PROVE  req[q].pc = "unused" /\ req'[q].pc = "loaded" /\ UNCHANGED <<wk, effects>>
      BY <1>3, <2>1 DEF ReplayLoad, Replay, TypeInv, TypeOK, JobsTypeOK
    <2>2. CASE ReplayRequest(q) \/ ReplayAbort(q)
      <3>1. /\ req'[q].run = req[q].run
            /\ req'[q].pc \in {"saved", "done", "failed", "lost"}
        BY <2>2 DEF ReplayRequest, ReplaySave, ReplayConflict, ReplayEnqueue, ReplayAbort,
                    Request, TypeInv, TypeOK, JobsTypeOK
      <3> QED BY <3>1
    <2> QED BY <1>3, <2>1, <2>2 DEF Replay
  <1>4. ASSUME NEW w \in Workers, Work(w) \/ Interfere(w) PROVE UNCHANGED req
    BY <1>4 DEF Work, TakeJob, MarkProcessing, FindRules, RuleEvalThrows, FindRun, CreateRun,
       MarkProcessed, LoadRun, FindReplayRule, RunAction, SaveRun, SaveConflict, Finish,
       Interfere, DbError, Crash, LoseLock
  <1>5. (\E j \in JobIds : Recover(j)) \/ (\E r \in Rules : EditRule(r)) \/ UNCHANGED vars
          => UNCHANGED req
    BY DEF Recover, EditRule, vars
  <1> QED BY <1>1, <1>2, <1>3, <1>4, <1>5 DEF Next, Quiescent

LEMMA RequestCopy ==
  ASSUME TypeInv, TypeInv', LedgerInv, [Next]_vars,
         NEW q \in ReplayJobs, req'[q].pc = "loaded"
  PROVE  CopyOf(req'[q].doc, runs'[req'[q].run], effects')
  <1>1. CASE req'[q] = req[q]
    <2> DEFINE id  == req[q].run
               doc == req[q].doc
    <2>1. /\ id \in RunIds /\ runs[id] \in RunDoc /\ runs[id] # None /\ doc \in RunDoc
          /\ CopyOf(doc, runs[id], effects)
      BY <1>1, LoadedRow DEF LedgerInv
    <2>2. runs'[id] # None /\ Advances(runs[id], runs'[id])
      BY <2>1, RowsAdvance
    <2>3. runs'[id] \in RunDoc /\ effects \in Effects /\ effects' \in Effects
      BY <2>1, <2>2, EffectsType DEF TypeInv, TypeOK, JobsTypeOK, Effects, Places
    <2> HIDE DEF id, doc
    <2>4. CopyOf(doc, runs'[id], effects')
      BY <2>1, <2>2, <2>3, EffectsGrow, CopyStays
    <2> QED BY <1>1, <2>4 DEF id, doc
  <1>2. ASSUME NEW id \in RunIds, ReplayLoad(q, id), UNCHANGED effects
        PROVE  CopyOf(req'[q].doc, runs'[req'[q].run], effects')
    <2>1. /\ runs[id] # None /\ UNCHANGED runs
          /\ req'[q].run = id /\ req'[q].doc = runs[id]
      BY <1>2 DEF ReplayLoad, TypeInv, TypeOK, JobsTypeOK
    <2>2. runs[id] \in RunDoc /\ Backed(runs[id], effects)
      BY <2>1 DEF TypeInv, TypeOK, JobsTypeOK, LedgerInv
    <2> QED BY <1>2, <2>1, <2>2, RowIsItsCopy
  <1> QED BY <1>1, <1>2, RequestSteps

LEMMA InitLedgerInv == Init => LedgerInv
  <1> SUFFICES ASSUME Init PROVE LedgerInv
    OBVIOUS
  <1>1. /\ \A id \in RunIds : runs[id] = None
        /\ \A w \in Workers : wk[w].pc = "idle"
        /\ \A q \in ReplayJobs : req[q].pc = "unused"
    BY DEF Init, JobsInit, Idle, NoRequest
  <1> QED BY <1>1 DEF LedgerInv

LEMMA NextLedgerInv == TypeInv /\ TypeInv' /\ LedgerInv /\ [Next]_vars => LedgerInv'
  <1> SUFFICES ASSUME TypeInv, TypeInv', LedgerInv, [Next]_vars PROVE LedgerInv'
    OBVIOUS
  <1>1. \A id \in RunIds : runs'[id] # None => Backed(runs'[id], effects')
    BY RowsAdvance
  <1>2. \A w \in Workers : wk'[w].pc \in {"run", "replayRules"}
          => CopyOf(wk'[w].doc, runs'[wk'[w].run], effects')
    BY HasCopy
  <1>3. \A q \in ReplayJobs : req'[q].pc = "loaded"
          => CopyOf(req'[q].doc, runs'[req'[q].run], effects')
    BY RequestCopy
  <1> QED BY <1>1, <1>2, <1>3 DEF LedgerInv

LEMMA InvariantLedger == Spec => [](TypeInv /\ LedgerInv)
  BY InitTypeInv, NextTypeInv, InitLedgerInv, NextLedgerInv, PTL DEF Spec

\* Whatever crashes, lost locks, lost replies, retries, replays and rule edits do, a
\* slot a row records as succeeded is for an action that took effect
\* (webhook.processor.ts:194-215).
THEOREM RecordedIsReal == Spec => []SuccessIsReal
  <1>1. LedgerInv => SuccessIsReal
    BY DEF LedgerInv, Backed, SuccessIsReal
  <1> QED BY <1>1, InvariantLedger, PTL

\* The status of a row agrees with its slots, though a save of the worker may write
\* only one of the two, and a save of the replay endpoint too (job-run.schema.ts:9-10).
THEOREM StatusAgrees == Spec => []StatusAgreesWithSlots
  <1>1. Init => StatusAgreesWithSlots
    BY DEF Init, JobsInit, StatusAgreesWithSlots
  <1>2. ASSUME TypeInv, TypeInv', LedgerInv, StatusAgreesWithSlots, [Next]_vars,
               NEW id \in RunIds, runs'[id] # None
        PROVE  /\ runs'[id].status = "completed" => AllSucceeded(runs'[id].slots)
               /\ runs'[id].status = "partial_failure" => ~AllSucceeded(runs'[id].slots)
    <2>1. CASE runs'[id] = runs[id]
      BY <1>2, <2>1 DEF StatusAgreesWithSlots
    <2>2. ASSUME NEW w \in Workers, SaveRun(w), wk[w].run = id
          PROVE  /\ runs'[id].slots = wk[w].doc.slots
                 /\ runs'[id].status \in {FinalStatus(wk[w].doc.slots), "queued"}
      BY <1>2, <2>2, SaveRunStep
    <2>3. ASSUME NEW q \in ReplayJobs, ReplaySave(q), req[q].run = id
          PROVE  /\ runs[id] # None
                 /\ \/ runs'[id].status = "queued"
                    \/ runs'[id].slots = runs[id].slots /\ runs'[id].status = runs[id].status
      BY <1>2, <2>3, ReplaySaveStep
    <2>4. (\E w \in Workers : SaveRun(w) /\ wk[w].run = id) =>
             /\ runs'[id].status = "completed" => AllSucceeded(runs'[id].slots)
             /\ runs'[id].status = "partial_failure" => ~AllSucceeded(runs'[id].slots)
      BY <2>2 DEF FinalStatus
    <2>5. (\E q \in ReplayJobs : ReplaySave(q) /\ req[q].run = id) =>
             /\ runs'[id].status = "completed" => AllSucceeded(runs'[id].slots)
             /\ runs'[id].status = "partial_failure" => ~AllSucceeded(runs'[id].slots)
      BY <1>2, <2>3 DEF StatusAgreesWithSlots
    <2> QED BY <1>2, <2>1, <2>4, <2>5, RowChanges
  <1>3. TypeInv /\ TypeInv' /\ LedgerInv /\ StatusAgreesWithSlots /\ [Next]_vars
          => StatusAgreesWithSlots'
    BY <1>2 DEF StatusAgreesWithSlots
  <1> QED BY <1>1, <1>3, InvariantLedger, PTL DEF Spec

\* No save, of a worker or of the replay endpoint, however old its copy of the row,
\* takes a success back: a copy with an old version is refused, one with the row's
\* version has the row's successes (jobs.service.ts:80-85, webhook.processor.ts:213-215).
THEOREM SuccessStays == Spec => SuccessIsFinal
  <1>1. TypeInv /\ TypeInv' /\ LedgerInv /\ [Next]_vars =>
          [\A id \in RunIds : runs[id] # None =>
             \A i \in DOMAIN runs[id].slots :
               ~Outstanding(runs[id].slots[i]) =>
                 i \in DOMAIN runs'[id].slots /\ runs'[id].slots[i] = runs[id].slots[i]]_vars
    BY RowsAdvance DEF Advances, Continues
  <1> QED BY <1>1, InvariantLedger, PTL DEF Spec, SuccessIsFinal

\* The actions a row is for are fixed by the first save, however the rule is edited
\* between attempts and replays (webhook.processor.ts:167-175).
THEOREM PlanStays == Spec => PlanIsFixed
  <1>1. TypeInv /\ TypeInv' /\ LedgerInv /\ [Next]_vars =>
          [\A id \in RunIds : runs[id] # None /\ DOMAIN runs[id].slots # {} =>
             /\ DOMAIN runs'[id].slots = DOMAIN runs[id].slots
             /\ \A i \in DOMAIN runs[id].slots :
                  runs'[id].slots[i].type = runs[id].slots[i].type]_vars
    BY RowsAdvance DEF Advances, Continues
  <1> QED BY <1>1, InvariantLedger, PTL DEF Spec, PlanIsFixed

-----------------------------------------------------------------------------
(* Who may run what: a row nobody asked to replay is run by the one worker *)
(* that holds the job of its event, and its copy is as new as the row.     *)

Shared(id) == used["lockLoss"] > 0 \/ \E q \in ReplayJobs : req[q].run = id

Owned(w) ==
  wk[w].pc \in {"run", "replayRules"} =>
    /\ wk[w].job \in Events => wk[w].doc.event = wk[w].job
    /\ wk[w].job \in ReplayJobs => req[wk[w].job].run = wk[w].run
    /\ ~Shared(wk[w].run) => wk[w].doc.ver = runs[wk[w].run].ver

OwnedInv == /\ \A w \in Workers : Owned(w)
            /\ \A q \in ReplayJobs : req[q].pc = "unused" => req[q].run = None

LEMMA SharedStays ==
  ASSUME TypeInv, TypeInv', OwnedInv, [Next]_vars, NEW id \in RunIds, Shared(id)
  PROVE  Shared(id)'
  <1>1. CASE used["lockLoss"] > 0
    <2>1. used["lockLoss"] \in Nat /\ used'["lockLoss"] \in Nat
      BY DEF TypeInv, TypeOK, Kinds
    <2>2. used'["lockLoss"] # 0
      BY <1>1, <2>1, LocksStayLost
    <2> QED BY <2>1, <2>2 DEF Shared
  <1>2. ASSUME NEW q \in ReplayJobs, req[q].run = id PROVE req'[q].run = id
    BY <1>2, RequestSteps, TypesAssumption DEF OwnedInv
  <1> QED BY <1>1, <1>2 DEF Shared

\* No other worker runs the row.
LEMMA OwnersAreAlone ==
  ASSUME TypeInv, LedgerInv, FiringInv, OwnedInv,
         NEW v \in Workers, NEW w \in Workers, ~Shared(wk[v].run),
         wk[v].pc \in {"run", "replayRules"}, wk[w].pc \in {"run", "replayRules"},
         wk[w].run = wk[v].run
  PROVE  v = w
  <1>1. wk[v].job \in JobIds /\ wk[w].job \in JobIds
    BY RowType
  <1>2. wk[v].job \in Events /\ wk[w].job \in Events
    BY <1>1 DEF OwnedInv, Owned, Shared, JobIds
  <1>3. wk[v].job = wk[w].job
    BY <1>2 DEF OwnedInv, Owned, LedgerInv, CopyOf
  <1>4. used["lockLoss"] = 0
    <2>1. used["lockLoss"] \in Nat
      BY DEF TypeInv, TypeOK, Kinds
    <2> QED BY <2>1 DEF Shared
  <1>5. HoldsLock(wk[v].job, v) /\ HoldsLock(wk[w].job, w)
    BY <1>4 DEF FiringInv, Locked
  <1> QED BY <1>3, <1>5 DEF HoldsLock

LEMMA OwnedStays ==
  ASSUME TypeInv, TypeInv', LedgerInv, FiringInv, OwnedInv, [Next]_vars,
         NEW v \in Workers, wk'[v] = wk[v]
  PROVE  Owned(v)'
  <1> SUFFICES ASSUME wk[v].pc \in {"run", "replayRules"}
               PROVE  /\ wk[v].job \in Events => wk[v].doc.event = wk[v].job
                      /\ wk[v].job \in ReplayJobs => req'[wk[v].job].run = wk[v].run
                      /\ ~Shared(wk[v].run)' => wk[v].doc.ver = runs'[wk[v].run].ver
    BY DEF Owned, Shared
  <1>1. Owned(v) /\ wk[v].run \in RunIds /\ runs[wk[v].run] # None
    BY RowType DEF OwnedInv
  <1>2. ASSUME wk[v].job \in ReplayJobs PROVE req'[wk[v].job].run = wk[v].run
    <2>1. Past(wk[v].job)
      BY <1>2 DEF TypeInv, Control, WorkerControl
    <2> QED BY <1>1, <1>2, <2>1, RequestSteps DEF Owned, Past
  <1>3. ASSUME ~Shared(wk[v].run)'
        PROVE  ~Shared(wk[v].run) /\ runs'[wk[v].run] = runs[wk[v].run]
    <2>1. ~Shared(wk[v].run)
      <3>1. Shared(wk[v].run) => (used'["lockLoss"] > 0
                                    \/ \E q \in ReplayJobs : req'[q].run = wk[v].run)
        BY <1>1, SharedStays DEF Shared
      <3> QED BY <1>3, <3>1 DEF Shared
    <2>2. ASSUME NEW w \in Workers, SaveRun(w), wk[w].run = wk[v].run PROVE FALSE
      <3>1. wk[w].pc = "run"
        BY <2>2 DEF SaveRun
      <3>2. v = w
        BY <2>1, <2>2, <3>1, OwnersAreAlone
      <3> QED BY <2>2, <3>1, <3>2, SaveRunStep
    <2>3. ASSUME NEW q \in ReplayJobs, req[q].run = wk[v].run PROVE FALSE
      BY <2>1, <2>3 DEF Shared
    <2> QED BY <1>1, <2>1, <2>2, <2>3, RowChanges
  <1> QED BY <1>1, <1>2, <1>3 DEF Owned

LEMMA NextOwnedInv ==
  TypeInv /\ TypeInv' /\ LedgerInv /\ FiringInv /\ OwnedInv /\ [Next]_vars => OwnedInv'
  <1> SUFFICES ASSUME TypeInv, TypeInv', LedgerInv, FiringInv, OwnedInv, [Next]_vars
               PROVE  OwnedInv'
    OBVIOUS
  <1>1. ASSUME NEW v \in Workers PROVE Owned(v)'
    <2>1. CASE wk'[v] = wk[v]
      BY <2>1, OwnedStays
    <2>2. CASE KeepsDoc(v)
      <3>1. Owned(v)
        BY DEF OwnedInv
      <3>2. used["lockLoss"] > 0 => used'["lockLoss"] > 0
        <4>1. used["lockLoss"] \in Nat /\ used'["lockLoss"] \in Nat
          BY DEF TypeInv, TypeOK, Kinds
        <4> QED BY <4>1, LocksStayLost
      <3> QED BY <2>2, <3>1, <3>2 DEF KeepsDoc, Owned, Shared
    <2>3. CASE ReadsRow(v)
      BY <2>3, TypesAssumption DEF ReadsRow, Owned
    <2>4. CASE ReadsReplayed(v)
      BY <2>4, TypesAssumption DEF ReadsReplayed, Owned, Shared
    <2> QED BY <2>1, <2>2, <2>3, <2>4, HasCopy DEF Owned
  <1>2. \A q \in ReplayJobs : req'[q].pc = "unused" => req'[q].run = None
    BY RequestSteps DEF OwnedInv
  <1> QED BY <1>1, <1>2 DEF OwnedInv

LEMMA InitOwnedInv == Init => OwnedInv
  <1> SUFFICES ASSUME Init PROVE OwnedInv
    OBVIOUS
  <1>1. /\ \A w \in Workers : wk[w].pc = "idle"
        /\ \A q \in ReplayJobs : req[q].run = None
    BY DEF Init, JobsInit, Idle, NoRequest
  <1> QED BY <1>1 DEF OwnedInv, Owned

-----------------------------------------------------------------------------
(* Every step is a step of the ledger, or changes nothing in it.           *)

LEMMA RecordedGrows ==
  ASSUME TypeInv, TypeInv', LedgerInv, [Next]_vars
  PROVE  Recorded \subseteq Recorded'
  <1> SUFFICES ASSUME NEW x \in Recorded PROVE x \in Recorded'
    OBVIOUS
  <1>1. PICK id \in RunIds :
          /\ runs[id] # None /\ runs[id].event = x[1] /\ runs[id].rule = x[2]
          /\ x[3] \in DOMAIN runs[id].slots /\ ~Outstanding(runs[id].slots[x[3]])
    BY DEF Recorded, RowsFor
  <1>2. runs'[id] # None /\ Advances(runs[id], runs'[id])
    BY <1>1, RowsAdvance
  <1>3. /\ runs'[id].event = x[1] /\ runs'[id].rule = x[2]
        /\ x[3] \in DOMAIN runs'[id].slots /\ ~Outstanding(runs'[id].slots[x[3]])
    BY <1>1, <1>2 DEF Advances, Continues
  <1> QED BY <1>2, <1>3 DEF Recorded, RowsFor

LEMMA ContestedGrows ==
  ASSUME TypeInv, TypeInv', LedgerInv, OwnedInv, [Next]_vars
  PROVE  Contested \subseteq Contested'
  <1> SUFFICES ASSUME NEW x \in Contested PROVE x \in Contested'
    OBVIOUS
  <1>1. CASE used["lockLoss"] > 0
    <2>1. used["lockLoss"] \in Nat /\ used'["lockLoss"] \in Nat
      BY DEF TypeInv, TypeOK, Kinds
    <2>2. used'["lockLoss"] > 0
      BY <1>1, <2>1, LocksStayLost
    <2> QED BY <2>2 DEF Contested
  <1>2. ASSUME NEW q \in ReplayJobs, req[q].run \in RowsFor(x[1], x[2])
        PROVE  x \in Contested'
    <2> DEFINE id == req[q].run
    <2>1. /\ id \in RunIds /\ runs[id] # None
          /\ runs[id].event = x[1] /\ runs[id].rule = x[2]
      BY <1>2 DEF RowsFor
    <2>2. runs'[id] # None /\ Advances(runs[id], runs'[id])
      BY <2>1, RowsAdvance
    <2>3. req'[q].run = id
      BY <2>1, RequestSteps, TypesAssumption DEF OwnedInv
    <2> HIDE DEF id
    <2>4. id \in RowsFor(x[1], x[2])'
      BY <2>1, <2>2 DEF RowsFor, Advances
    <2> QED BY <2>3, <2>4 DEF Contested
  <1> QED BY <1>1, <1>2 DEF Contested

\* An action whose success is on record is run again only by a copy that is older
\* than the row, and only a row that is shared has such copies.
LEMMA RepeatIsContested ==
  ASSUME TypeInv, LedgerInv, FiringInv, OwnedInv, NEW w \in Workers, wk[w].pc = "run",
         NEW i \in DOMAIN wk[w].doc.slots, Outstanding(wk[w].doc.slots[i]),
         <<wk[w].doc.event, wk[w].doc.rule, i>> \in Recorded
  PROVE  <<wk[w].doc.event, wk[w].doc.rule, i>> \in Contested
  <1> DEFINE e == wk[w].doc.event
             r == wk[w].doc.rule
             k == wk[w].run
  <1>1. /\ k \in RunIds /\ runs[k] # None
        /\ CopyOf(wk[w].doc, runs[k], effects)
    BY RowType DEF LedgerInv
  <1>2. PICK id \in RunIds :
          /\ runs[id] # None /\ runs[id].event = e /\ runs[id].rule = r
          /\ i \in DOMAIN runs[id].slots /\ ~Outstanding(runs[id].slots[i])
    BY DEF Recorded, RowsFor
  <1>3. <<e, r, i>> \in Places
    BY DEF Recorded
  <1>4. CASE used["lockLoss"] > 0
    BY <1>3, <1>4 DEF Contested
  <1>5. CASE \E q \in ReplayJobs : req[q].run = k
    <2>1. k \in RowsFor(e, r)
      BY <1>1 DEF RowsFor, CopyOf
    <2> QED BY <1>3, <1>5, <2>1 DEF Contested
  <1>6. CASE ~Shared(k)
    <2>1. used["lockLoss"] = 0
      <3>1. used["lockLoss"] \in Nat
        BY DEF TypeInv, TypeOK, Kinds
      <3> QED BY <1>6, <3>1 DEF Shared
    <2>2. id = k
      BY <1>1, <1>2, <2>1 DEF FiringInv, Unique, SameFiring, CopyOf
    <2>3. wk[w].doc.ver = runs[k].ver
      BY <1>6 DEF OwnedInv, Owned
    <2>4. wk[w].doc.slots[i] = runs[k].slots[i]
      BY <1>1, <1>2, <2>2, <2>3 DEF CopyOf, Continues
    <2> QED BY <1>2, <2>2, <2>4
  <1> QED BY <1>4, <1>5, <1>6 DEF Shared

LEMMA LedgerRunAction ==
  ASSUME TypeInv, LedgerInv, FiringInv, OwnedInv, NEW w \in Workers, RunAction(w)
  PROVE  [Ledger!Next]_(Ledger!ledger)
  <1>1. PICK i \in DOMAIN wk[w].doc.slots :
          /\ wk[w].pc = "run" /\ Outstanding(wk[w].doc.slots[i])
          /\ <<wk[w].doc.event, wk[w].doc.rule, i>> \in Places
          /\ effects' = effects \/ TakeEffect(w, i)
    BY RunActionStep
  <1> DEFINE x == <<wk[w].doc.event, wk[w].doc.rule, i>>
  <1>2. UNCHANGED <<runs, req>>
    BY DEF RunAction
  <1>3. used'["lockLoss"] = used["lockLoss"]
    <2>1. used' = used \/ Spend("lostReply") \/ Spend("downstream")
      BY DEF RunAction, Execute, Reject
    <2> QED BY <2>1 DEF Spend, TypeInv, TypeOK, Kinds
  <1>4. Recorded' = Recorded
    BY <1>2 DEF Recorded, RowsFor
  <1>5. Contested' = Contested
    BY <1>2, <1>3 DEF Contested, RowsFor
  <1>6. CASE effects' = effects
    BY <1>4, <1>5, <1>6 DEF Ledger!ledger
  <1>7. CASE TakeEffect(w, i)
    <2>1. x \in Places /\ (x \in Recorded => x \in Contested)
      BY <1>1, RepeatIsContested
    <2>2. effects' = [effects EXCEPT ![x] = @ + 1]
      BY <1>7 DEF TakeEffect
    <2> HIDE DEF x
    <2>3. Ledger!Take(x)
      BY <1>4, <1>5, <2>1, <2>2 DEF Ledger!Take
    <2> QED BY <2>1, <2>3 DEF Ledger!Next
  <1> QED BY <1>1, <1>6, <1>7

LEMMA LedgerStep ==
  ASSUME TypeInv, TypeInv', LedgerInv, LedgerInv', FiringInv, OwnedInv, [Next]_vars
  PROVE  [Ledger!Next]_(Ledger!ledger)
  <1>1. ASSUME NEW w \in Workers, RunAction(w) PROVE [Ledger!Next]_(Ledger!ledger)
    BY <1>1, LedgerRunAction
  <1>2. CASE UNCHANGED <<effects, Recorded>>
    BY <1>2, ContestedGrows DEF Ledger!Next, Ledger!Contest
  <1>3. CASE UNCHANGED <<effects, Contested>>
    <2>1. ASSUME NEW x \in Recorded' PROVE effects'[x] >= 1
      <3>1. PICK id \in RunIds :
              /\ runs'[id] # None /\ runs'[id].event = x[1] /\ runs'[id].rule = x[2]
              /\ x[3] \in DOMAIN runs'[id].slots /\ ~Outstanding(runs'[id].slots[x[3]])
        BY DEF Recorded, RowsFor
      <3>2. effects'[<<x[1], x[2], x[3]>>] >= 1
        BY <3>1 DEF LedgerInv, Backed
      <3>3. x = <<x[1], x[2], x[3]>>
        BY DEF Recorded, Places
      <3> QED BY <3>2, <3>3
    <2>2. Ledger!Record
      BY <1>3, <2>1, RecordedGrows DEF Ledger!Record
    <2> QED BY <2>2 DEF Ledger!Next
  <1>4. ASSUME \A w \in Workers : ~RunAction(w) PROVE UNCHANGED effects
    BY <1>4, OnlyRunActionActs
  <1>5. CASE UNCHANGED <<effects, runs>>
    <2>1. UNCHANGED Recorded
      BY <1>5 DEF Recorded, RowsFor
    <2> QED BY <1>2, <1>5, <2>1
  <1>6. ASSUME NEW w \in Workers, SaveRun(w), UNCHANGED effects
        PROVE  UNCHANGED <<effects, Contested>>
    <2>1. SameRows /\ UNCHANGED <<req, used>>
      BY <1>6, SaveRunRows DEF SaveRun
    <2> QED BY <1>6, <2>1 DEF Contested, RowsFor, SameRows
  <1>7. ASSUME NEW q \in ReplayJobs, ReplaySave(q), UNCHANGED effects
        PROVE  UNCHANGED <<effects, Contested>>
    <2>1. SameRows /\ UNCHANGED used
      BY <1>7, ReplaySaveRows DEF ReplaySave
    <2>2. \A p \in ReplayJobs : req'[p].run = req[p].run
      BY <1>7 DEF ReplaySave, TypeInv, TypeOK, JobsTypeOK, Request
    <2> QED BY <1>7, <2>1, <2>2 DEF Contested, RowsFor, SameRows
  <1>8. ASSUME NEW w \in Workers, CreateRun(w), UNCHANGED effects
        PROVE  UNCHANGED <<effects, Recorded>>
    <2>1. PICK r \in Rules, id \in RunIds :
            /\ runs[id] = None /\ runs'[id] = NewRun(wk[w].job, r)
            /\ \A i \in RunIds \ {id} : runs'[i] = runs[i]
      BY <1>8, CreateRunRow
    <2>2. DOMAIN runs'[id].slots = {}
      BY <2>1 DEF NewRun, NoActions
    <2>3. Recorded' \subseteq Recorded
      BY <2>1, <2>2 DEF Recorded, RowsFor
    <2> QED BY <1>8, <2>3, RecordedGrows
  <1>9. CASE \A id \in RunIds : runs'[id] = runs[id]
    <2>1. runs' = runs
      BY <1>9 DEF TypeInv, TypeOK, JobsTypeOK
    <2> QED BY <1>1, <1>4, <1>5, <2>1
  <1> QED BY <1>1, <1>2, <1>3, <1>4, <1>6, <1>7, <1>8, <1>9, RowChanges

LEMMA LedgerStart == Init => Ledger!Init
  <1> SUFFICES ASSUME Init PROVE Ledger!Init
    OBVIOUS
  <1>1. /\ \A id \in RunIds : runs[id] = None
        /\ \A q \in ReplayJobs : req[q].run = None
        /\ used["lockLoss"] = 0
        /\ effects = [x \in Places |-> 0]
    BY DEF Init, JobsInit, NoRequest, Unspent, Kinds, Places
  <1>2. Recorded = {} /\ Contested = {}
    BY <1>1, TypesAssumption DEF Recorded, Contested, RowsFor
  <1> QED BY <1>1, <1>2 DEF Ledger!Init

\* The worker, the queue, the rows, the replay endpoint, the rule edits and every
\* fault together implement the ledger: a success on record was earned and stays,
\* and an action is taken again after that only where a replay was asked for or a
\* live worker lost its lock (webhook.processor.ts:192-215, jobs.service.ts:28-95).
THEOREM ImplementsLedger == Spec => KeepsLedger
  <1>1. Spec => [](TypeInv /\ LedgerInv /\ FiringInv /\ OwnedInv)
    BY InitTypeInv, NextTypeInv, InitLedgerInv, NextLedgerInv, InitFiringInv, NextFiringInv,
       InitOwnedInv, NextOwnedInv, PTL DEF Spec
  <1>2. TypeInv /\ TypeInv' /\ LedgerInv /\ LedgerInv' /\ FiringInv /\ OwnedInv /\ [Next]_vars
          => [Ledger!Next]_(Ledger!ledger)
    BY LedgerStep
  <1> QED BY <1>1, <1>2, LedgerStart, PTL DEF Spec, KeepsLedger, Ledger!Spec

=============================================================================
