----------------------------- MODULE Proposals -----------------------------
(***************************************************************************)
(* What the services of the leader have in common.  A handler reads        *)
(* storage, computes a command from what it read, proposes it and waits    *)
(* for it to be applied.  Handlers run concurrently, and openraft orders   *)
(* their commands in any way: what a handler read may be out of date when  *)
(* its command is applied.  The field clean of a command in flight records *)
(* that nothing was applied since it was computed; it is an observation,   *)
(* the code has no such field.                                             *)
(***************************************************************************)
EXTENDS Integers, FiniteSets

CONSTANT Absent   \* no record under a key

\* Handlers that wait at the same time.
CONSTANT MaxFlight

ASSUME FlightAssumption == MaxFlight \in Nat \ {0}

Propose(flight, c) == flight \cup {c}

\* The other commands in flight, once one of them is applied.
Overtake(flight, c) == {[d EXCEPT !.clean = FALSE] : d \in flight \ {c}}

=============================================================================
