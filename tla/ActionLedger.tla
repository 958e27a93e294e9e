---------------------------- MODULE ActionLedger ----------------------------
(***************************************************************************)
(* What the engine promises about actions, without workers, rows or jobs:  *)
(* a ledger of places, one for each position in the actions of a rule that *)
(* fired for an event.                                                     *)
(*                                                                         *)
(* The action at a place may have to be taken more than once before its    *)
(* success is on record; once on record it stays there, and it is taken    *)
(* again only where somebody asked for a replay of that firing or a worker *)
(* lost its lock.                                                          *)
(***************************************************************************)
EXTENDS Integers

CONSTANT Places

VARIABLES
  taken,     \* how often the action at a place took effect
  done,      \* the places whose success is on record
  contested  \* the places whose firing several may work on at once

ledger == <<taken, done, contested>>

Init ==
  /\ taken = [x \in Places |-> 0]
  /\ done = {}
  /\ contested = {}

Take(x) ==
  /\ x \in done => x \in contested
  /\ taken' = [taken EXCEPT ![x] = @ + 1]
  /\ UNCHANGED <<done, contested>>

\* A save puts on record what was taken, for all places of a firing at once.
Record ==
  /\ done \subseteq done'
  /\ \A x \in done' \ done : taken[x] >= 1
  /\ UNCHANGED <<taken, contested>>

Contest ==
  /\ contested \subseteq contested'
  /\ UNCHANGED <<taken, done>>

Next == (\E x \in Places : Take(x)) \/ Record \/ Contest

Spec == Init /\ [][Next]_ledger

=============================================================================
