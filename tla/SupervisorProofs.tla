-------------------------- MODULE SupervisorProofs --------------------------
(***************************************************************************)
(* Theorems about Supervisor, for any number of commands and attempts, of  *)
(* revisions, crashes and faults, and whatever each process is asked to do. *)
(***************************************************************************)
EXTENDS Supervisor, TLAPS

(* Nobody's id is an attempt's or a command's, nor is an attempt a command. *)
LEMMA Identities ==
  /\ NoAttempt \notin Attempt /\ NoAttempt \notin Control
  /\ Attempt \cap Control = {}
BY SupervisorAssumption DEF Attempt, NoAttempt

-----------------------------------------------------------------------------
(* Types                                                                   *)

(* What is written is a ledger, a gate or a number of its kind.            *)
Written ==
  /\ CleanDocument \in Document
  /\ MarkStopping(ledger) \in Document /\ MarkStopping(child) \in Document
  /\ MarkUncertain(ledger) \in Document /\ MarkUncertain(child) \in Document
  /\ MarkActive(ledger, "resident_active") \in Document
  /\ MarkActive(child, "child_active") \in Document
  /\ ledger.attempt \in Attempt \cup {NoAttempt} /\ ledger.revision \in Revision
  /\ desired.revision \in Revision /\ 0 \in Revision
  /\ [state |-> "recovery_required", revision |-> desired.revision] \in Gate
  /\ [state |-> "recovery_required", revision |-> gate.revision] \in Gate
  /\ [gate EXCEPT !.state = "disabled"] \in Gate
  /\ MaxFaults \in Nat /\ MaxAttempts \in Nat

LEMMA WhatIsWritten == TypeOK => Written
<1>1. SUFFICES ASSUME TypeOK PROVE Written
  OBVIOUS
<1>2. /\ CleanDocument \in Document
      /\ ledger.attempt \in Attempt \cup {NoAttempt} /\ ledger.revision \in Revision
  BY <1>1, SupervisorAssumption
     DEF TypeOK, SupervisorAssumption, CleanDocument, Document, Ledger, LifecycleState, Revision
<1>3. /\ MarkStopping(ledger) \in Document /\ MarkStopping(child) \in Document
      /\ MarkUncertain(ledger) \in Document /\ MarkUncertain(child) \in Document
      /\ MarkActive(ledger, "resident_active") \in Document
      /\ MarkActive(child, "child_active") \in Document
  BY <1>1 DEF TypeOK, Document, Ledger, LifecycleState, ActiveState, MarkStopping,
              MarkUncertain, MarkActive
<1>4. /\ desired.revision \in Revision
      /\ [state |-> "recovery_required", revision |-> desired.revision] \in Gate
      /\ [state |-> "recovery_required", revision |-> gate.revision] \in Gate
      /\ [gate EXCEPT !.state = "disabled"] \in Gate
  BY <1>1 DEF TypeOK, Desired, Gate
<1>5. 0 \in Revision /\ MaxFaults \in Nat /\ MaxAttempts \in Nat
  BY SupervisorAssumption DEF SupervisorAssumption, Revision
<1> QED BY <1>2, <1>3, <1>4, <1>5 DEF Written

(* Arming a ledger, for an attempt, at a revision.                         *)
LEMMA Arms == ASSUME NEW a \in Attempt, NEW r \in Revision PROVE Arm(a, r) \in Document
BY DEF Arm, Document, Ledger, LifecycleState

(* A command that boots a resident knows which.                            *)
Bootstrapping == {"spawn", "confirm", "ready", "unready", "close", "abort", "stale"}

Named == \A c \in Control : cpc[c] \in Bootstrapping => target[c] \in Attempt

(* A resident, and the system for it.                                      *)
LEMMA ResidentKeepsTypes ==
  ASSUME TypeOK, Named, UNCHANGED setting, NEW a \in Attempt,
         Resident(a) \/ ResidentDies(a) \/ Kill(a) \/ ChildExits(a)
  PROVE  TypeOK' /\ Named'
<1>w. Written
  BY WhatIsWritten
<1>o. /\ rrev[a] \in Revision /\ Arm(a, rrev[a]) \in Document
      /\ [rrev EXCEPT ![a] = desired.revision] \in [Attempt -> Revision]
  BY <1>w, Arms DEF TypeOK, Written
<1>. USE <1>w, <1>o DEF Written, MarkClean, TypeOK, Named, Process, ResidentPlace, Gone, Fault,
       Unless, ResidentGoes, authority, os, residents, memory, locals
<1>1. CASE Attach(a) \/ AttachFails(a) \/ AcquireSingleton(a) \/ SingletonBusy(a)
  BY <1>1
     DEF Attach, AttachFails, ProcessEnds, AcquireSingleton, SingletonBusy
<1>2. CASE Activate(a) \/ ActivateFails(a) \/ Snapshot(a) \/ SnapshotFails(a)
  BY <1>2
     DEF Activate, ActivateFails, Snapshot, SnapshotFails
<1>3. CASE FinishChild(a) \/ ArmChild(a) \/ StartChild(a)
  BY <1>3
     DEF FinishChild, ArmChild, StartChild
<1>4. CASE StartChildFails(a) \/ NoChild(a) \/ SlotUnresolved(a)
  BY <1>4
     DEF StartChildFails, NoChild, SlotUnresolved
<1>5. CASE BeginShutdown(a) \/ BeginShutdownFails(a)
  BY <1>5
     DEF BeginShutdown, BeginShutdownFails
<1>6. CASE DrainChild(a) \/ FinishCleanShutdown(a)
  BY <1>6
     DEF DrainChild, FinishCleanShutdown
<1>7. CASE ForceStop(a) \/ SettleChild(a)
  BY <1>7
     DEF ForceStop, SettleChild
<1>8. CASE FailClosed(a)
  BY <1>8
     DEF FailClosed, Fence
<1>9. CASE Leave(a) \/ Exit(a) \/ ResidentDies(a) \/ Kill(a) \/ ChildExits(a)
  BY <1>9
     DEF Leave, ProcessEnds, Exit, ResidentDies, Kill, ChildExits, ChildGone
<1> QED
  BY <1>1, <1>2, <1>3, <1>4, <1>5, <1>6, <1>7, <1>8, <1>9
     DEF Resident, Bootstrap, Loop, Ending

(* A command that publishes a state.                                       *)
LEMMA PublishKeepsTypes ==
  ASSUME TypeOK, Named, UNCHANGED setting, NEW c \in Control, ApplyEnabled(c) \/ ApplyDisabled(c)
  PROVE  TypeOK' /\ Named'
<1>. USE DEF TypeOK, Named, Fault, os, residents, memory, locals
<1>1. MaxFaults \in Nat
  BY SupervisorAssumption DEF SupervisorAssumption
<1>2. CASE ApplyEnabled(c)
  <2>1. PICK revision \in 0 .. setting.revisions : ApplyEnabled(c)!(revision)
    BY <1>2 DEF ApplyEnabled
  <2>2. /\ [enabled |-> TRUE, revision |-> revision] \in Desired
        /\ [state |-> "enabled", revision |-> revision] \in Gate
    BY SupervisorAssumption DEF SupervisorAssumption, Revision, Desired, Gate
  <2>3. desired' \in Desired /\ gate' \in Gate
    BY <2>1, <2>2
  <2>4. request' \in Attempt \cup {NoAttempt} /\ faults' \in 0 .. MaxFaults
    BY <1>1, <2>1
  <2>5. UNCHANGED <<ledger, child, ready, os, residents, cpc, locals>>
    BY <2>1
  <2> QED BY <2>3, <2>4, <2>5
<1>3. CASE ApplyDisabled(c)
  <2>1. PICK revision \in 0 .. setting.revisions : ApplyDisabled(c)!(revision)
    BY <1>3 DEF ApplyDisabled
  <2>2. /\ [enabled |-> FALSE, revision |-> revision] \in Desired
        /\ [state |-> "disabled", revision |-> revision] \in Gate
    BY SupervisorAssumption DEF SupervisorAssumption, Revision, Desired, Gate
  <2>3. desired' \in Desired /\ gate' \in Gate
    BY <2>1, <2>2
  <2>4. request' \in Attempt \cup {NoAttempt} /\ faults' \in 0 .. MaxFaults
    BY <1>1, <2>1
  <2>5. UNCHANGED <<ledger, child, ready, os, residents, cpc, locals>>
    BY <2>1
  <2> QED BY <2>3, <2>4, <2>5
<1> QED BY <1>2, <1>3

(* A command that draws an attempt.                                        *)
LEMMA ArmKeepsTypes ==
  ASSUME TypeOK, Named, UNCHANGED setting, NEW c \in Control,
         ArmResident(c) \/ ArmResidentFails(c)
  PROVE  TypeOK' /\ Named'
<1>w. Written
  BY WhatIsWritten
<1>o. /\ crev[c] \in Revision /\ target[c] \in Attempt \cup {NoAttempt}
      /\ [state |-> "recovery_required", revision |-> crev[c]] \in Gate
  BY DEF TypeOK, Gate
<1>. USE <1>w, <1>o DEF Written, MarkClean, TypeOK, Named, Bootstrapping, Process, CommandPlace,
       Fault, Unless, FenceUnlessFault, Fence, CommandGoes, Returns, Forget, CloseAnchor, Doom,
       authority, os, residents, memory, locals
<1>1. used < setting.attempts => used + 1 \in Attempt /\ used + 1 \in 0 .. MaxAttempts
  BY SupervisorAssumption DEF SupervisorAssumption, Attempt
<1>2. used < setting.attempts => Arm(used + 1, desired.revision) \in Document
  BY <1>1, Arms
<1>3. CASE ArmResident(c)
  BY <1>1, <1>2, <1>3 DEF ArmResident
<1>4. CASE ArmResidentFails(c)
  BY <1>1, <1>2, <1>4 DEF ArmResidentFails
<1> QED BY <1>3, <1>4

(* The other steps of a command.                                           *)
LEMMA CommandKeepsTypes ==
  ASSUME TypeOK, Named, UNCHANGED setting, NEW c \in Control,
         Publish(c) \/ Invoke(c) \/ CommandStep(c) \/ CommandDies(c)
  PROVE  TypeOK' /\ Named'
<1>w. Written
  BY WhatIsWritten
<1>o. /\ crev[c] \in Revision /\ target[c] \in Attempt \cup {NoAttempt}
      /\ [state |-> "recovery_required", revision |-> crev[c]] \in Gate
  BY DEF TypeOK, Gate
<1>. USE <1>w, <1>o DEF Written, MarkClean, TypeOK, Named, Bootstrapping, Process, CommandPlace,
       Fault, Unless, FenceUnlessFault, Fence, CommandGoes, Returns, Forget, CloseAnchor, Doom,
       authority, os, residents, memory, locals
<1>1. CASE DisableGate(c) \/ EnsureRunning(c) \/ Shutdown(c) \/ Recover(c)
  BY <1>1
     DEF DisableGate, EnsureRunning, Shutdown, Recover
<1>2. CASE Probe(c) \/ ProbeDone(c) \/ ReadLedger(c) \/ LockAmbiguous(c)
  <2>1. CASE Probe(c)
    BY <2>1 DEF Probe
  <2>2. CASE ProbeDone(c)
    BY <2>2 DEF ProbeDone
  <2>3. CASE ReadLedger(c)
    BY <2>3 DEF ReadLedger
  <2>4. CASE LockAmbiguous(c)
    BY <2>4 DEF LockAmbiguous
  <2> QED BY <1>2, <2>1, <2>2, <2>3, <2>4
<1>3. CASE SpawnResident(c) \/ SpawnResidentFails(c)
  BY <1>3
     DEF SpawnResident, ResidentPlace, Gone, SpawnResidentFails
<1>4. CASE ConfirmResident(c) \/ ConfirmResidentFails(c)
  BY <1>4
     DEF ConfirmResident, ConfirmResidentFails
<1>5. CASE SettleBootstrap(c)
  BY <1>5
     DEF SettleBootstrap
<1>6. CASE WaitReady(c) \/ NotReady(c) \/ NotReadyFails(c)
  <2>1. CASE WaitReady(c)
    BY <2>1 DEF WaitReady
  <2>2. CASE NotReady(c)
    BY <2>2 DEF NotReady
  <2>3. CASE NotReadyFails(c)
    BY <2>3 DEF NotReadyFails
  <2> QED BY <1>6, <2>1, <2>2, <2>3
<1>7. CASE CloseUnready(c) \/ AwaitContained(c) \/ SettleUnready(c) \/ CloseStarted(c)
  <2>1. CASE CloseUnready(c)
    BY <2>1 DEF CloseUnready
  <2>2. CASE AwaitContained(c)
    BY <2>2 DEF AwaitContained
  <2>3. CASE SettleUnready(c)
    BY <2>3 DEF SettleUnready
  <2>4. CASE CloseStarted(c)
    BY <2>4 DEF CloseStarted
  <2> QED BY <1>7, <2>1, <2>2, <2>3, <2>4
<1>8. CASE ContainStale(c) \/ ContainStaleFails(c)
  BY <1>8
     DEF ContainStale, ContainStaleFails
<1>9. CASE StaleAbsent(c) \/ SettleStale(c) \/ UnlinkReady(c)
  <2>1. CASE StaleAbsent(c)
    BY <2>1 DEF StaleAbsent
  <2>2. CASE SettleStale(c)
    BY <2>2 DEF SettleStale
  <2>3. CASE UnlinkReady(c)
    BY <2>3 DEF UnlinkReady
  <2> QED BY <1>9, <2>1, <2>2, <2>3
<1>10. CASE AlreadyRunning(c) \/ EndedWithoutResident(c) \/ ExistingAmbiguous(c) \/
           FenceAttempt(c)
  <2>1. CASE AlreadyRunning(c)
    BY <2>1 DEF AlreadyRunning
  <2>2. CASE EndedWithoutResident(c)
    BY <2>2 DEF EndedWithoutResident
  <2>3. CASE ExistingAmbiguous(c)
    BY <2>3 DEF ExistingAmbiguous
  <2>4. CASE FenceAttempt(c)
    BY <2>4 DEF FenceAttempt
  <2> QED BY <1>10, <2>1, <2>2, <2>3, <2>4
<1>11. CASE RequestShutdown(c) \/ ShutdownRefused(c) \/ AwaitGraceful(c)
  <2>1. CASE RequestShutdown(c)
    BY <2>1 DEF RequestShutdown
  <2>2. CASE ShutdownRefused(c)
    BY <2>2 DEF ShutdownRefused
  <2>3. CASE AwaitGraceful(c)
    BY <2>3 DEF AwaitGraceful
  <2> QED BY <1>11, <2>1, <2>2, <2>3
<1>12. CASE RecoverClean(c) \/ TerminateRecorded(c) \/ RecoverRefused(c)
  <2>1. CASE RecoverClean(c)
    BY <2>1 DEF RecoverClean, CommitStopped
  <2>2. CASE TerminateRecorded(c)
    BY <2>2 DEF TerminateRecorded
  <2>3. CASE RecoverRefused(c)
    BY <2>3 DEF RecoverRefused
  <2> QED BY <1>12, <2>1, <2>2, <2>3
<1>13. CASE CommitRecovery(c) \/ RecoveryFails(c)
  <2>1. CASE CommitRecovery(c)
    BY <2>1 DEF CommitRecovery, CommitStopped, NoSnapshot
  <2>2. CASE RecoveryFails(c)
    BY <2>2 DEF RecoveryFails, NoSnapshot
  <2> QED BY <1>13, <2>1, <2>2
<1>14. CASE CommandDies(c)
  BY <1>14
     DEF CommandDies, NoSnapshot
<1>15. CASE AbortBootstrap(c)
  <2>1. answer' \in [Control -> BOOLEAN]
    BY <1>15 DEF AbortBootstrap, Members, Running
  <2>2. doomed' \subseteq Attempt /\ holders' \in [Attempt -> SUBSET Process]
    BY <1>15 DEF AbortBootstrap
  <2> QED BY <1>15, <2>1, <2>2 DEF AbortBootstrap
<1>16. CASE HardStop(c)
  BY <1>16 DEF HardStop, StillThere, AnchorExists, NoAttempt, Attempt
<1>17. CASE AwaitHard(c)
  <2>1. CASE StillThere(c)
    BY <1>17, <2>1 DEF AwaitHard
  <2>2. CASE ~StillThere(c)
    BY <1>17, <2>2 DEF AwaitHard
  <2> QED BY <2>1, <2>2
<1> QED
  BY <1>1, <1>2, <1>3, <1>4, <1>5, <1>6, <1>7, <1>8, <1>9, <1>10, <1>11, <1>12, <1>13, <1>14,
     <1>15, <1>16, <1>17, PublishKeepsTypes, ArmKeepsTypes
     DEF Publish, Invoke, CommandStep, EnsureStep, ShutdownStep, RecoverStep

LEMMA TypeInvariant == Spec => [](TypeOK /\ Named)
<1>1. Init => TypeOK /\ Named
  <2>1. CleanDocument \in Document /\ 0 \in Revision /\ MaxFaults \in 0 .. MaxFaults
    BY SupervisorAssumption
       DEF SupervisorAssumption, CleanDocument, Document, Ledger, LifecycleState, Revision
  <2>2. [enabled |-> FALSE, revision |-> 0] \in Desired
    BY <2>1 DEF Desired
  <2>3. [state |-> "disabled", revision |-> 0] \in Gate
    BY <2>1 DEF Gate
  <2>4. 0 \in 0 .. MaxAttempts
    BY SupervisorAssumption DEF SupervisorAssumption
  <2> QED
    BY <2>1, <2>2, <2>3, <2>4
       DEF Init, TypeOK, Named, Bootstrapping, ResidentPlace, CommandPlace, Gone
<1>2. TypeOK /\ Named /\ [Next]_vars => TypeOK' /\ Named'
  BY ResidentKeepsTypes, CommandKeepsTypes
     DEF Next, vars, authority, os, residents, memory, locals, TypeOK, Named
<1> QED BY <1>1, <1>2, PTL DEF Spec

(* Every reachable state has its types.                                    *)
THEOREM TypeCorrect == Spec => []TypeOK
BY TypeInvariant, PTL

-----------------------------------------------------------------------------
(* ready.json                                                              *)

(* The places of a resident that rewrites ready.json.                      *)
Serving == {"loop", "begin", "reconcile", "launch", "drain"}

(* An attempt is drawn once, so that a file of an earlier one can never    *)
(* speak for it; and a resident that serves is not armed any more.         *)
ReadyInv ==
  /\ ready <= used /\ ledger.attempt <= used
  /\ \A c \in Control : target[c] <= used
  /\ \A a \in Attempt : rpc[a] # "none" => a <= used
  /\ \A a \in Attempt :
       rpc[a] \in Serving => ~(ledger.state = "spawn_armed" /\ ledger.attempt = a)
  /\ ReadyNamesActivated

Numbers ==
  /\ used \in Nat /\ ready \in Nat /\ ledger.attempt \in Nat
  /\ \A c \in Control : target[c] \in Nat

(* What a mark changes, and what it leaves.                                *)
Marks ==
  /\ CleanDocument.attempt = NoAttempt /\ CleanDocument.state = "clean"
  /\ MarkStopping(ledger).attempt = ledger.attempt
  /\ MarkStopping(ledger).state = "stopping"
  /\ MarkUncertain(ledger).attempt = ledger.attempt
  /\ MarkUncertain(ledger).state = "uncertain"
  /\ MarkActive(ledger, "resident_active").attempt = ledger.attempt
  /\ MarkActive(ledger, "resident_active").state = "resident_active"

LEMMA TypesGive == TypeOK => Numbers /\ Marks
<1>1. TypeOK => Numbers
  BY SupervisorAssumption
     DEF SupervisorAssumption, Numbers, TypeOK, Document, Ledger, NoAttempt, Attempt
<1>2. TypeOK => Marks
  BY DEF Marks, CleanDocument, MarkStopping, MarkUncertain, MarkActive, Document, Ledger, TypeOK
<1> QED BY <1>1, <1>2

(* A resident speaks for itself, and only once it is activated.            *)
LEMMA ResidentKeepsReady ==
  ASSUME ReadyInv, TypeOK, TypeOK', NEW a \in Attempt,
         Resident(a) \/ ResidentDies(a) \/ Kill(a) \/ ChildExits(a)
  PROVE  ReadyInv'
<1>0. /\ Numbers /\ Numbers' /\ Marks
      /\ rpc \in [Attempt -> ResidentPlace]
      /\ target \in [Control -> Attempt \cup {NoAttempt}]
  <2>1. (TypeOK => Numbers)'
    BY TypesGive, PTL
  <2> QED BY TypesGive, <2>1 DEF TypeOK
<1>. USE <1>0 DEF ReadyInv, ReadyNamesActivated, Numbers, Marks, NoAttempt, Attempt, Serving,
       MarkClean, ResidentGoes, authority, os, residents, memory, locals
<1>1. CASE Attach(a) \/ AttachFails(a) \/ AcquireSingleton(a) \/ SingletonBusy(a)
  BY <1>1
     DEF Attach, AttachFails, ProcessEnds, AcquireSingleton, SingletonBusy
<1>2. CASE Activate(a) \/ ActivateFails(a) \/ Snapshot(a) \/ SnapshotFails(a)
  BY <1>2
     DEF Activate, ActivateFails, Snapshot, SnapshotFails
<1>3. CASE FinishChild(a) \/ ArmChild(a) \/ StartChild(a)
  BY <1>3
     DEF FinishChild, ArmChild, StartChild
<1>4. CASE StartChildFails(a) \/ NoChild(a) \/ SlotUnresolved(a)
  BY <1>4
     DEF StartChildFails, NoChild, SlotUnresolved
<1>5. CASE BeginShutdown(a) \/ BeginShutdownFails(a)
  BY <1>5
     DEF BeginShutdown, BeginShutdownFails
<1>6. CASE DrainChild(a) \/ FinishCleanShutdown(a)
  <2>1. CASE DrainChild(a)
    BY <2>1 DEF DrainChild
  <2>2. CASE FinishCleanShutdown(a)
    <3>1. rpc[a] = "drain" /\ ready' \in {ready, NoAttempt} /\ UNCHANGED <<ledger, locals>>
      BY <2>2 DEF FinishCleanShutdown
    <3>2. \E p \in {"leave", "fail"} : rpc' = [rpc EXCEPT ![a] = p]
      BY <2>2 DEF FinishCleanShutdown
    <3> QED BY <3>1, <3>2
  <2> QED BY <1>6, <2>1, <2>2
<1>7. CASE ForceStop(a) \/ SettleChild(a)
  BY <1>7
     DEF ForceStop, SettleChild
<1>8. CASE FailClosed(a)
  BY <1>8
     DEF FailClosed
<1>9. CASE Leave(a) \/ Exit(a) \/ ResidentDies(a) \/ Kill(a) \/ ChildExits(a)
  <2>1. CASE Leave(a)
    BY <2>1 DEF Leave, ProcessEnds
  <2>2. CASE Exit(a)
    BY <2>2 DEF Exit, ProcessEnds
  <2>3. CASE ResidentDies(a)
    BY <2>3 DEF ResidentDies, ProcessEnds, Running, Gone
  <2>4. CASE Kill(a)
    BY <2>4 DEF Kill, ChildGone, ProcessEnds, Running, Gone
  <2>5. CASE ChildExits(a)
    BY <2>5 DEF ChildExits, ChildGone
  <2> QED BY <1>9, <2>1, <2>2, <2>3, <2>4, <2>5
<1> QED
  BY <1>1, <1>2, <1>3, <1>4, <1>5, <1>6, <1>7, <1>8, <1>9
     DEF Resident, Bootstrap, Loop, Ending

(* A command arms an attempt nobody has heard of.                          *)
LEMMA CommandKeepsReady ==
  ASSUME ReadyInv, TypeOK, TypeOK', NEW c \in Control,
         Publish(c) \/ Invoke(c) \/ CommandStep(c) \/ CommandDies(c)
  PROVE  ReadyInv'
<1>0. /\ Numbers /\ Numbers' /\ Marks
      /\ rpc \in [Attempt -> ResidentPlace]
      /\ target \in [Control -> Attempt \cup {NoAttempt}]
  <2>1. (TypeOK => Numbers)'
    BY TypesGive, PTL
  <2> QED BY TypesGive, <2>1 DEF TypeOK
<1>. USE <1>0 DEF ReadyInv, ReadyNamesActivated, Numbers, Marks, NoAttempt, Attempt, Serving,
       MarkClean, CommandGoes, Returns, Forget, authority, os, residents, memory, locals
<1>1. CASE ApplyEnabled(c) \/ ApplyDisabled(c)
  BY <1>1
     DEF ApplyEnabled, ApplyDisabled
<1>2. CASE ArmResident(c)
  <2>1. CASE MayArm(ledger)
    <3>1. /\ used' = used + 1 /\ target' = [target EXCEPT ![c] = used']
          /\ ledger'.state = "spawn_armed" /\ ledger'.attempt = used'
          /\ UNCHANGED <<ready, rpc>>
      BY <1>2, <2>1 DEF ArmResident, Arm
    <3> QED BY <3>1
  <2>2. CASE ~MayArm(ledger)
    BY <1>2, <2>2 DEF ArmResident
  <2> QED BY <2>1, <2>2
<1>3. CASE ArmResidentFails(c)
  BY <1>3
     DEF ArmResidentFails, Arm
<1>4. CASE DisableGate(c) \/ EnsureRunning(c) \/ Shutdown(c) \/ Recover(c)
  BY <1>4
     DEF DisableGate, EnsureRunning, Shutdown, Recover
<1>5. CASE Probe(c) \/ ProbeDone(c) \/ ReadLedger(c) \/ LockAmbiguous(c)
  <2>1. CASE Probe(c)
    BY <2>1 DEF Probe
  <2>2. CASE ProbeDone(c)
    BY <2>2 DEF ProbeDone
  <2>3. CASE ReadLedger(c)
    BY <2>3 DEF ReadLedger
  <2>4. CASE LockAmbiguous(c)
    BY <2>4 DEF LockAmbiguous
  <2> QED BY <1>5, <2>1, <2>2, <2>3, <2>4
<1>6. CASE SpawnResident(c) \/ SpawnResidentFails(c)
  BY <1>6
     DEF SpawnResident, SpawnResidentFails
<1>7. CASE ConfirmResident(c) \/ ConfirmResidentFails(c)
  BY <1>7
     DEF ConfirmResident, ConfirmResidentFails
<1>8. CASE SettleBootstrap(c)
  BY <1>8
     DEF SettleBootstrap
<1>9. CASE WaitReady(c) \/ NotReady(c) \/ NotReadyFails(c)
  <2>1. CASE WaitReady(c)
    BY <2>1 DEF WaitReady
  <2>2. CASE NotReady(c)
    BY <2>2 DEF NotReady
  <2>3. CASE NotReadyFails(c)
    BY <2>3 DEF NotReadyFails
  <2> QED BY <1>9, <2>1, <2>2, <2>3
<1>10. CASE CloseUnready(c) \/ AwaitContained(c) \/ SettleUnready(c) \/ CloseStarted(c)
  <2>1. CASE CloseUnready(c)
    BY <2>1 DEF CloseUnready
  <2>2. CASE AwaitContained(c)
    BY <2>2 DEF AwaitContained
  <2>3. CASE SettleUnready(c)
    BY <2>3 DEF SettleUnready
  <2>4. CASE CloseStarted(c)
    BY <2>4 DEF CloseStarted
  <2> QED BY <1>10, <2>1, <2>2, <2>3, <2>4
<1>11. CASE ContainStale(c) \/ ContainStaleFails(c)
  BY <1>11
     DEF ContainStale, ContainStaleFails
<1>12. CASE StaleAbsent(c) \/ SettleStale(c) \/ UnlinkReady(c)
  <2>1. CASE StaleAbsent(c)
    BY <2>1 DEF StaleAbsent
  <2>2. CASE SettleStale(c)
    BY <2>2 DEF SettleStale
  <2>3. CASE UnlinkReady(c)
    BY <2>3 DEF UnlinkReady
  <2> QED BY <1>12, <2>1, <2>2, <2>3
<1>13. CASE AlreadyRunning(c) \/ EndedWithoutResident(c) \/ ExistingAmbiguous(c) \/
           FenceAttempt(c)
  <2>1. CASE AlreadyRunning(c)
    BY <2>1 DEF AlreadyRunning
  <2>2. CASE EndedWithoutResident(c)
    BY <2>2 DEF EndedWithoutResident
  <2>3. CASE ExistingAmbiguous(c)
    BY <2>3 DEF ExistingAmbiguous
  <2>4. CASE FenceAttempt(c)
    BY <2>4 DEF FenceAttempt
  <2> QED BY <1>13, <2>1, <2>2, <2>3, <2>4
<1>14. CASE RequestShutdown(c) \/ ShutdownRefused(c) \/ AwaitGraceful(c)
  <2>1. CASE RequestShutdown(c)
    BY <2>1 DEF RequestShutdown
  <2>2. CASE ShutdownRefused(c)
    BY <2>2 DEF ShutdownRefused
  <2>3. CASE AwaitGraceful(c)
    BY <2>3 DEF AwaitGraceful
  <2> QED BY <1>14, <2>1, <2>2, <2>3
<1>15. CASE RecoverClean(c) \/ TerminateRecorded(c) \/ RecoverRefused(c)
  <2>1. CASE RecoverClean(c)
    BY <2>1 DEF RecoverClean, CommitStopped
  <2>2. CASE TerminateRecorded(c)
    BY <2>2 DEF TerminateRecorded
  <2>3. CASE RecoverRefused(c)
    BY <2>3 DEF RecoverRefused
  <2> QED BY <1>15, <2>1, <2>2, <2>3
<1>16. CASE CommitRecovery(c) \/ RecoveryFails(c)
  <2>1. CASE CommitRecovery(c)
    BY <2>1 DEF CommitRecovery, CommitStopped
  <2>2. CASE RecoveryFails(c)
    BY <2>2 DEF RecoveryFails
  <2> QED BY <1>16, <2>1, <2>2
<1>17. CASE CommandDies(c)
  BY <1>17
     DEF CommandDies
<1>18. CASE AbortBootstrap(c)
  BY <1>18
     DEF AbortBootstrap
<1>19. CASE HardStop(c) \/ AwaitHard(c)
  <2>1. CASE HardStop(c)
    BY <2>1 DEF HardStop
  <2>2. CASE AwaitHard(c)
    BY <2>2 DEF AwaitHard
  <2> QED BY <1>19, <2>1, <2>2
<1> QED
  BY <1>1, <1>2, <1>3, <1>4, <1>5, <1>6, <1>7, <1>8, <1>9, <1>10, <1>11, <1>12, <1>13, <1>14,
     <1>15, <1>16, <1>17, <1>18, <1>19
     DEF Publish, Invoke, CommandStep, EnsureStep, ShutdownStep, RecoverStep

LEMMA ReadyInvariant == Spec => []ReadyInv
<1>1. Init => ReadyInv
  BY SupervisorAssumption
     DEF SupervisorAssumption, Init, ReadyInv, ReadyNamesActivated, Serving, CleanDocument,
         NoAttempt, Attempt
<1>2. TypeOK /\ TypeOK' /\ ReadyInv /\ [Next]_vars => ReadyInv'
  BY ResidentKeepsReady, CommandKeepsReady
     DEF Next, vars, authority, os, residents, memory, locals, ReadyInv, ReadyNamesActivated
<1> QED BY <1>1, <1>2, TypeCorrect, PTL DEF Spec

(* ready.json never speaks for a resident that is still being armed: a     *)
(* command that reads it was not answered by a file left behind by an      *)
(* earlier incarnation (resident.py:150-169, control.py:547-571).          *)
THEOREM ReadySpeaksTruly == Spec => []ReadyNamesActivated
<1>1. ReadyInv => ReadyNamesActivated
  BY DEF ReadyInv
<1> QED BY <1>1, ReadyInvariant, PTL

-----------------------------------------------------------------------------
(* The resident mutex                                                      *)

(* The places of a resident, and of a command, that has the mutex.         *)
Inside  == {"activate", "loop", "begin", "reconcile", "launch", "drain", "fail", "settle",
            "fence", "leave"}
Guarded == {"probing", "absence"}

MutexInv ==
  /\ rpc \in [Attempt -> ResidentPlace] /\ DOMAIN cpc = Control
  /\ \A a \in Attempt : rpc[a] \in Inside => mutex = a
  /\ \A c \in Control : cpc[c] \in Guarded => mutex = c

(* A step that leaves the mutex alone keeps this when nobody comes inside  *)
(* by it.                                                                  *)
LEMMA MutexStays ==
  ASSUME MutexInv, mutex' = mutex,
         \/ rpc' = rpc
         \/ \E a \in Attempt, p \in ResidentPlace :
              rpc' = [rpc EXCEPT ![a] = p] /\ (p \in Inside => rpc[a] \in Inside),
         \/ cpc' = cpc
         \/ \E c \in Control, p \in CommandPlace \ Guarded : cpc' = [cpc EXCEPT ![c] = p]
  PROVE  MutexInv'
BY DEF MutexInv

(* The end of a resident's process.                                        *)
LEMMA EndKeepsMutex ==
  ASSUME MutexInv, NEW a \in Attempt, ProcessEnds(a) PROVE MutexInv'
BY Identities DEF ProcessEnds, MutexInv, Inside, ResidentPlace, Gone

(* The resident: its singleton is entered with the mutex and left with it. *)
LEMMA ResidentKeepsMutex ==
  ASSUME MutexInv, NEW a \in Attempt, Resident(a) \/ ResidentDies(a) PROVE MutexInv'
<1>. USE DEF ResidentGoes, Gone, ResidentPlace, Inside
<1>1. CASE AttachFails(a) \/ SingletonBusy(a) \/ Exit(a) \/ ResidentDies(a)
  BY <1>1, EndKeepsMutex DEF AttachFails, SingletonBusy, Exit, ResidentDies
<1>2. CASE AcquireSingleton(a)
  BY <1>2, Identities DEF AcquireSingleton, MutexInv, Guarded
<1>3. CASE Leave(a)
  BY <1>3, Identities DEF Leave, MutexInv, Guarded
<1>4. CASE Attach(a) \/ Activate(a) \/ ActivateFails(a)
  BY <1>4, MutexStays DEF Attach, Activate, ActivateFails, os
<1>5. CASE Snapshot(a) \/ SnapshotFails(a)
  BY <1>5, MutexStays DEF Snapshot, SnapshotFails, os
<1>6. CASE FinishChild(a) \/ ArmChild(a) \/ StartChild(a) \/ StartChildFails(a)
  BY <1>6, MutexStays DEF FinishChild, ArmChild, StartChild, StartChildFails, os
<1>7. CASE NoChild(a) \/ SlotUnresolved(a) \/ BeginShutdown(a) \/ BeginShutdownFails(a)
  BY <1>7, MutexStays DEF NoChild, SlotUnresolved, BeginShutdown, BeginShutdownFails, os
<1>8. CASE DrainChild(a) \/ FinishCleanShutdown(a)
  BY <1>8, MutexStays DEF DrainChild, FinishCleanShutdown, os
<1>9. CASE ForceStop(a) \/ SettleChild(a) \/ FailClosed(a)
  BY <1>9, MutexStays DEF ForceStop, SettleChild, FailClosed, os
<1> QED
  BY <1>1, <1>2, <1>3, <1>4, <1>5, <1>6, <1>7, <1>8, <1>9
     DEF Resident, Bootstrap, Loop, Ending

(* ensure_running: only its probe has the mutex, for a moment.             *)
LEMMA EnsureKeepsMutex ==
  ASSUME MutexInv, NEW c \in Control, EnsureStep(c) PROVE MutexInv'
<1>. USE DEF CommandGoes, Returns, CommandPlace, Guarded
<1>1. CASE Probe(c)
  BY <1>1, Identities DEF Probe, MutexInv, Inside, residents
<1>2. CASE ProbeDone(c)
  BY <1>2, Identities DEF ProbeDone, MutexInv, Inside, residents
<1>3. CASE ReadLedger(c) \/ LockAmbiguous(c)
  BY <1>3, MutexStays DEF ReadLedger, LockAmbiguous, os, residents
<1>4. CASE ArmResident(c) \/ ArmResidentFails(c)
  BY <1>4, MutexStays DEF ArmResident, ArmResidentFails, os, residents
<1>5. CASE SpawnResident(c) \/ SpawnResidentFails(c)
  BY <1>5 DEF SpawnResident, SpawnResidentFails, MutexInv, Inside, ResidentPlace, Gone, os
<1>6. CASE ConfirmResident(c) \/ ConfirmResidentFails(c)
  BY <1>6, MutexStays DEF ConfirmResident, ConfirmResidentFails, os, residents
<1>7. CASE AbortBootstrap(c) \/ SettleBootstrap(c)
  BY <1>7, MutexStays DEF AbortBootstrap, SettleBootstrap, os, residents
<1>8. CASE WaitReady(c) \/ NotReady(c) \/ NotReadyFails(c) \/ CloseUnready(c)
  BY <1>8, MutexStays DEF WaitReady, NotReady, NotReadyFails, CloseUnready, os, residents
<1>9. CASE AwaitContained(c) \/ SettleUnready(c) \/ CloseStarted(c)
  BY <1>9, MutexStays DEF AwaitContained, SettleUnready, CloseStarted, os, residents
<1>10. CASE ContainStale(c) \/ ContainStaleFails(c) \/ StaleAbsent(c)
  BY <1>10, MutexStays DEF ContainStale, ContainStaleFails, StaleAbsent, os, residents
<1>11. CASE SettleStale(c) \/ UnlinkReady(c) \/ AlreadyRunning(c)
  BY <1>11, MutexStays DEF SettleStale, UnlinkReady, AlreadyRunning, os, residents
<1>12. CASE EndedWithoutResident(c) \/ ExistingAmbiguous(c) \/ FenceAttempt(c)
  BY <1>12, MutexStays DEF EndedWithoutResident, ExistingAmbiguous, FenceAttempt, os, residents
<1> QED
  BY <1>1, <1>2, <1>3, <1>4, <1>5, <1>6, <1>7, <1>8, <1>9, <1>10, <1>11, <1>12 DEF EnsureStep

(* The other commands: recovery takes the mutex when it is free, and keeps *)
(* it to the end.                                                          *)
LEMMA CommandKeepsMutex ==
  ASSUME MutexInv, NEW c \in Control,
         Publish(c) \/ Invoke(c) \/ ShutdownStep(c) \/ RecoverStep(c) \/ CommandDies(c)
  PROVE  MutexInv'
<1>. USE DEF CommandGoes, Returns, CommandPlace, Guarded
<1>1. CASE Publish(c)
  BY <1>1, MutexStays DEF Publish, ApplyEnabled, ApplyDisabled, DisableGate, os, residents
<1>2. CASE Invoke(c)
  BY <1>2, MutexStays DEF Invoke, EnsureRunning, Shutdown, Recover, os, residents
<1>3. CASE ShutdownStep(c)
  BY <1>3, MutexStays
     DEF ShutdownStep, RequestShutdown, ShutdownRefused, AwaitGraceful, HardStop, AwaitHard,
         os, residents
<1>4. CASE RecoverClean(c) \/ RecoverRefused(c)
  BY <1>4, MutexStays DEF RecoverClean, RecoverRefused, os, residents
<1>5. CASE TerminateRecorded(c)
  BY <1>5, Identities DEF TerminateRecorded, MutexInv, Inside, residents
<1>6. CASE CommitRecovery(c) \/ RecoveryFails(c)
  BY <1>6, Identities DEF CommitRecovery, RecoveryFails, MutexInv, Inside, residents
<1>7. CASE CommandDies(c)
  BY <1>7, Identities DEF CommandDies, MutexInv, Inside, residents
<1> QED BY <1>1, <1>2, <1>3, <1>4, <1>5, <1>6, <1>7 DEF RecoverStep

(* So every step keeps it.                                                 *)
LEMMA NextKeepsMutex == ASSUME MutexInv, [Next]_vars PROVE MutexInv'
<1>1. ASSUME NEW a \in Attempt, Resident(a) \/ ResidentDies(a) \/ Kill(a) \/ ChildExits(a)
      PROVE  MutexInv'
  <2>1. CASE ChildGone(a)
    BY <2>1, MutexStays DEF ChildGone, residents
  <2> QED BY <1>1, <2>1, ResidentKeepsMutex, EndKeepsMutex DEF Kill, ChildExits
<1>2. ASSUME NEW c \in Control, Publish(c) \/ Invoke(c) \/ CommandStep(c) \/ CommandDies(c)
      PROVE  MutexInv'
  BY <1>2, EnsureKeepsMutex, CommandKeepsMutex DEF CommandStep
<1>3. CASE UNCHANGED vars
  BY <1>3, MutexStays DEF vars, os, residents
<1> QED BY <1>1, <1>2, <1>3 DEF Next

LEMMA MutexInvariant == Spec => []MutexInv
<1>1. Init => MutexInv
  BY DEF Init, MutexInv, Inside, Guarded, ResidentPlace, Gone
<1>2. MutexInv /\ [Next]_vars => MutexInv'
  BY NextKeepsMutex
<1> QED BY <1>1, <1>2, PTL DEF Spec

(* Between the two sections of a recovery no resident goes round its loop, *)
(* and none that is starting gets through (recovery.py:63-105, 151-158;    *)
(* resident.py:90-98).                                                     *)
THEOREM RecoveryIsAlone == Spec => []RecoveryAlone
<1>1. MutexInv => RecoveryAlone
  BY Identities DEF MutexInv, RecoveryAlone, Inside, Guarded, ResidentPlace, Gone
<1> QED BY <1>1, MutexInvariant, PTL
=============================================================================
