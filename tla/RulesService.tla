---------------------------- MODULE RulesService ----------------------------
(***************************************************************************)
(* rules.service.ts: the automation rules of one tenant, and the query the *)
(* worker makes over them.                                                 *)
(*                                                                         *)
(* A rule's trigger (source, eventType) and its conditions are abstracted  *)
(* to how the rule reads each event: it has another trigger, its           *)
(* conditions do not hold, they hold, or evaluating them throws.           *)
(***************************************************************************)
EXTENDS EngineTypes

CONSTANTS
  Readings,      \* the trigger and conditions a rule may hold
  InitialRules   \* the rules the tenant starts with

VARIABLE rules

Verdicts == {"otherTrigger", "skip", "match", "throw"}

\* "unborn": not inserted yet; "removed": deleted.
RuleStates == {"unborn", "enabled", "disabled", "removed"}

RuleDoc == [state : RuleStates, actions : ActionLists, reading : Readings]

ASSUME RulesAssumption ==
  /\ Readings \subseteq [Events -> Verdicts]
  /\ InitialRules \in [Rules -> RuleDoc]

RulesTypeOK == rules \in [Rules -> RuleDoc]

RulesInit == rules = InitialRules

-----------------------------------------------------------------------------

Stored(r) == rules[r].state \in {"enabled", "disabled"}

\* POST /rules. `enabled` defaults to true and the body may set it.
CreateRule(r) ==
  /\ Spend("edit")
  /\ IsFirst(r, {s \in Rules : rules[s].state = "unborn"})
  /\ \E doc \in RuleDoc :
       /\ doc.state \in {"enabled", "disabled"}
       /\ rules' = [rules EXCEPT ![r] = doc]

\* PATCH /rules/:id sets the fields of the body, any of them.
UpdateRule(r) ==
  /\ Spend("edit")
  /\ Stored(r)
  /\ \E doc \in RuleDoc :
       /\ doc.state \in {"enabled", "disabled"}
       /\ rules' = [rules EXCEPT ![r] = doc]

\* DELETE /rules/:id. Nothing else refers to the rule by more than its id.
RemoveRule(r) ==
  /\ Spend("edit")
  /\ Stored(r)
  /\ rules' = [rules EXCEPT ![r].state = "removed"]

\* Mutant of FindMatchingTriggers: the query leaves out `enabled: true`.
StoredTriggers(e) == {r \in Rules : Stored(r) /\ rules[r].reading[e] # "otherTrigger"}

\* The enabled rules with the event's source and eventType.
FindMatchingTriggers(e) ==
  {r \in Rules : /\ rules[r].state = "enabled"
                 /\ rules[r].reading[e] # "otherTrigger"}

=============================================================================
