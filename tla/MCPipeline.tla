----------------------------- MODULE MCPipeline -----------------------------
(***************************************************************************)
(* An instance of Pipeline for TLC: the first, second and fourth of the    *)
(* deliveries of send-sample-webhooks.js, and one rule with one action.    *)
(***************************************************************************)
EXTENDS Pipeline

Order(id, signature) ==
  [slug |-> "acme", source |-> "shopify", id |-> id, body |-> "order",
   signature |-> signature, parses |-> TRUE, typed |-> TRUE]

MCDeliveries == {"order", "forged"}
MCWebhook == [order |-> Order("evt-1001", "valid"), forged |-> Order("evt-bad-sig", "wrong")]
MCTenants == {"acme"}
MCSecrets == {<<"acme", "shopify">>}
MCSends   == [order |-> 2, forged |-> 1]
MCEvents  == {<<"order", 1>>, <<"order", 2>>, <<"forged", 1>>}

MCRules == 1..1
MCRuns  == 1..2
MCTypes == {"crm_update"}
MCLists == {<<[type |-> "crm_update", config |-> "crm_update"]>>}
MCReadings == {[e \in Events |-> "match"]}
MCInitialRules ==
  [r \in MCRules |-> [state |-> "enabled", actions |-> CHOOSE a \in MCLists : TRUE,
                      reading |-> [e \in Events |-> "match"]]]

MCLimit == [crash |-> 1, lockLoss |-> 0, dbError |-> 1, lostReply |-> 0,
            downstream |-> 1, edit |-> 0]

=============================================================================
