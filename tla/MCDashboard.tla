---------------------------- MODULE MCDashboard ----------------------------
(***************************************************************************)
(* An instance of Dashboard for TLC: two tenants of seed.ts, the first     *)
(* with a job and a rule, the second without either.                       *)
(***************************************************************************)
EXTENDS Dashboard

MCTenants == {"acme", "globex"}

MCOwner == [d \in Docs |-> "acme"]

MCTab   == [job |-> "jobs", rule |-> "rules"]
MCStore == [job |-> "partial_failure", rule |-> "enabled"]

=============================================================================
