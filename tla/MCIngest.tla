------------------------------ MODULE MCIngest ------------------------------
(***************************************************************************)
(* Instances of WebhookIngest for TLC: the tenants of seed.ts, acme with a *)
(* secret for shopify and globex without one.                              *)
(***************************************************************************)
EXTENDS WebhookIngest

MCTenants == {"acme", "globex"}
MCSecrets == {<<"acme", "shopify">>}

Order(slug, source, id, signature) ==
  [slug |-> slug, source |-> source, id |-> id, body |-> "order",
   signature |-> signature, parses |-> TRUE, typed |-> TRUE]

\* One delivery id used by two tenants and two sources, once by somebody else,
\* and webhooks without an id that only the body tells apart.
MCWebhook ==
  [signed  |-> Order("acme", "shopify", "x", "valid"),
   forged  |-> Order("acme", "shopify", "x", "wrong"),
   crm     |-> Order("acme", "crm", "x", "missing"),
   globex  |-> Order("globex", "shopify", "x", "missing"),
   unnamed |-> Order("acme", "shopify", None, "valid"),
   refund  |-> [Order("acme", "shopify", None, "valid") EXCEPT !.body = "refund"],
   untyped |-> [Order("globex", "shopify", "y", "missing") EXCEPT !.typed = FALSE],
   nowhere |-> Order("initech", "shopify", "x", "valid")]

\* How often each sender tries.
SignedTwice == [d \in Deliveries |-> IF d = "signed" THEN 2 ELSE 1]

=============================================================================
