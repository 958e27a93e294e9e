------------------------------ MODULE MCWorker ------------------------------
(***************************************************************************)
(* Instances of WebhookProcessor for TLC.                                  *)
(***************************************************************************)
EXTENDS WebhookProcessor, TLC

Notify == [type |-> "webhook_notify", config |-> "webhook_notify"]
Crm    == [type |-> "crm_update",     config |-> "crm_update"]
Typo   == [type |-> "crm_upsert",     config |-> "crm_update"]

MCRegistered  == {"webhook_notify", "crm_update"}
MCActionTypes == MCRegistered \cup {"crm_upsert"}

BothActions == <<Notify, Crm>>
OneAction   == <<Crm>>
MCActionLists == {BothActions, OneAction}

\* What an edit may leave: an action without a class, for a PATCH is not validated,
\* or no action at all.
EditedActionLists == {BothActions, <<Typo, Crm>>, <<>>}

TwoRules == 1..2
OneRule  == 1..1
TwoRuns  == 1..2
FourRuns == 1..4

Every(verdict) == [e \in Events |-> verdict]
MCReadings == {Every(v) : v \in Verdicts}

\* The rules of seed.ts: one with two actions, one with a single action.
SeedRule(r, state) == [state   |-> state,
                       actions |-> IF r = 1 THEN BothActions ELSE OneAction,
                       reading |-> Every("match")]

MCInitialRules == [r \in Rules |-> SeedRule(r, "enabled")]

\* The second rule is yet to be created.
FirstRuleOnly ==
  [r \in Rules |-> [SeedRule(1, "enabled") EXCEPT !.state = IF r = 1 THEN @ ELSE "unborn"]]

Bounded(crash, lockLoss, dbError, lostReply, downstream, edit) ==
  [crash |-> crash, lockLoss |-> lockLoss, dbError |-> dbError,
   lostReply |-> lostReply, downstream |-> downstream, edit |-> edit]

WorkerLimit    == Bounded(1, 1, 0, 1, 1, 0)
ReplayLimit    == Bounded(1, 1, 0, 0, 1, 0)
EditLimit      == Bounded(1, 0, 1, 0, 1, 2)
DownstreamOnly == Bounded(0, 0, 0, 0, 1, 0)
DeletionLimit  == Bounded(0, 0, 0, 0, 1, 1)
LockLossOnly   == Bounded(0, 1, 0, 0, 0, 0)

WorkersAlike == Permutations(Workers)
AllAlike     == WorkersAlike \cup Permutations(ReplayJobs)

=============================================================================
