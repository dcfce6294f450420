----------------------------- MODULE Lifecycle -----------------------------
(***************************************************************************)
(* The lifecycle ledger of lifecycle.py: the durable, write-ahead record   *)
(* of who owns a process.  One ledger exists for the resident and one for  *)
(* every child slot; the two differ only in the name of the active state.  *)
(*                                                                         *)
(* A ledger document is a record.  The attempt id stands for the whole     *)
(* spawn identity (attempt_id, supervisor_incarnation, ownership_id): the  *)
(* three are drawn together in one spawn and the Job name is computed from *)
(* the other two.  state_sequence, pid and written_at are never read to    *)
(* take a decision and are left out.                                       *)
(*                                                                         *)
(* Every transition of the code reads the document, checks the state and   *)
(* the attempt (raising ContractError) and replaces it: May... is the      *)
(* check, and the second operator of each pair is the document written.    *)
(***************************************************************************)
EXTENDS Naturals

(* Attempt ids are positive; 0 is the null of a clean document.            *)
NoAttempt == 0

ActiveState == {"resident_active", "child_active"}

LifecycleState ==
  {"clean", "spawn_armed", "stopping", "uncertain"} \cup ActiveState

Ledger(Attempt, Revision) ==
  [state : LifecycleState, attempt : Attempt \cup {NoAttempt}, revision : Revision]

(* _clean_document: a clean ledger retains no identity.                    *)
CleanDocument == [state |-> "clean", attempt |-> NoAttempt, revision |-> 0]

RequiresRecovery(ledger) == ledger.state # "clean"

(* _require_attempt: the state is one the transition starts from and the   *)
(* document belongs to the attempt that asks.                              *)
RequireAttempt(ledger, attempt, allowed) ==
  /\ ledger.state \in allowed
  /\ ledger.attempt = attempt

MayArm(ledger) == ledger.state = "clean"

ArmAnonymously(attempt, revision) ==
  [state |-> "spawn_armed", attempt |-> NoAttempt, revision |-> revision]

Arm(attempt, revision) ==
  [state |-> "spawn_armed", attempt |-> attempt, revision |-> revision]

MayMarkActive(ledger, attempt) ==
  RequireAttempt(ledger, attempt, {"spawn_armed", "uncertain"})

MarkActiveUnnamed(ledger, active) == [ledger EXCEPT !.state = "active"]

MarkActive(ledger, active) == [ledger EXCEPT !.state = active]

MayMarkStopping(ledger, attempt) ==
  RequireAttempt(ledger, attempt, {"spawn_armed", "uncertain"} \cup ActiveState)

MarkStopping(ledger) == [ledger EXCEPT !.state = "stopping"]

MayMarkUncertain(ledger, attempt) ==
  RequireAttempt(ledger, attempt, {"spawn_armed", "stopping"} \cup ActiveState)

ForgetUncertain(ledger) == CleanDocument

MarkUncertain(ledger) == [ledger EXCEPT !.state = "uncertain"]

MayMarkClean(ledger, attempt) ==
  RequireAttempt(ledger, attempt, LifecycleState \ {"clean"})

MarkClean == CleanDocument
=============================================================================
