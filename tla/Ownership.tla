------------------------------ MODULE Ownership ------------------------------
(***************************************************************************)
(* What a lifecycle ledger promises, without saying how: the contract of   *)
(* 02-process-lifecycle.md ("Clean shutdown invariant") and of             *)
(* 03-recovery-and-safety.md.  A managed process exists only under an      *)
(* attempt that owns it; an attempt gives its ownership up only when       *)
(* nothing it owned is alive any more; one attempt owns at a time.         *)
(*                                                                         *)
(* The child slot (Slot.tla) and the resident bootstrap (Supervisor.tla)   *)
(* both implement it.                                                      *)
(***************************************************************************)

CONSTANTS Attempt, Nobody

VARIABLES
  owner,   \* the attempt the durable ledger names, or Nobody
  alive    \* the attempts with a process that is not being killed

Acquire(a) ==
  /\ owner = Nobody
  /\ owner' = a
  /\ UNCHANGED alive

Start(a) ==
  /\ owner = a /\ alive = {}
  /\ alive' = {a}
  /\ UNCHANGED owner

Die ==
  /\ alive' = {}
  /\ UNCHANGED owner

Release ==
  /\ alive = {}
  /\ owner' = Nobody
  /\ UNCHANGED alive

Init == owner = Nobody /\ alive = {}

Next == (\E a \in Attempt : Acquire(a) \/ Start(a)) \/ Die \/ Release

Spec == Init /\ [][Next]_<<owner, alive>>
=============================================================================
