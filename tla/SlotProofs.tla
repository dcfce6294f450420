----------------------------- MODULE SlotProofs -----------------------------
(***************************************************************************)
(* Proofs about Slot for every value of its constants.                     *)
(*                                                                         *)
(* WriteAhead is not inductive: that the ledger names whatever lives rests *)
(* on what each place in spawn and _finish has established before it.      *)
(* IInv adds that, place by place.                                         *)
(***************************************************************************)
EXTENDS Slot, TLAPS

InSpawn == {"arm", "start", "confirm", "readers", "abort", "unwind"}

(* An attempt id that was not drawn yet, or whose Job is still empty.      *)
Unborn(a) == procs[a] = {} /\ a \notin doomed

(* What spawn knows at each of its steps.                                  *)
SpawnInv ==
  /\ pc \in InSpawn => used \in Attempt
  /\ \A a \in Attempt : a > used => Unborn(a) /\ a \notin handles
  /\ pc \in {"arm", "start"} => Unborn(used)
  /\ pc \in InSpawn \ {"unwind"} => used \in handles
  /\ pc = "start" => RequiresRecovery(ledger) /\ ledger.attempt = used
  /\ pc = "unwind" => used \in doomed

(* What _finish knows, and how the fields of the slot hang together.       *)
FinishInv ==
  /\ active => attempt \in Attempt
  /\ job # NoAttempt => job = attempt
  /\ pc \in {"poll", "finish", "contain", "await"} => active
  /\ pc = "clean" => /\ ~active /\ job = NoAttempt
                     /\ attempt \in Attempt /\ procs[attempt] = {}

IInv == TypeOK /\ SpawnInv /\ FinishInv /\ Contained /\ WriteAhead

-----------------------------------------------------------------------------
(* Types                                                                   *)

(* Every document a transition writes is a ledger document.                *)
LEMMA MarkedDocument ==
  ASSUME NEW document \in Ledger(Attempt, Revision)
  PROVE  /\ MarkActive(document, "child_active") \in Ledger(Attempt, Revision)
         /\ MarkStopping(document) \in Ledger(Attempt, Revision)
         /\ MarkUncertain(document) \in Ledger(Attempt, Revision)
BY DEF Ledger, LifecycleState, ActiveState, MarkActive, MarkStopping,
       MarkUncertain

(* So is the document that arms an attempt.                                *)
LEMMA ArmedDocument ==
  ASSUME NEW a \in Attempt, NEW revision \in Revision
  PROVE  Arm(a, revision) \in Ledger(Attempt, Revision)
BY DEF Ledger, LifecycleState, Arm

(* And the clean document, which retains no identity.                      *)
LEMMA CleanedDocument == MarkClean \in Ledger(Attempt, Revision)
BY SlotAssumption
   DEF MarkClean, CleanDocument, Ledger, LifecycleState, NoAttempt, Revision

(* So is the document that confirms a spawn, current or stale.             *)
LEMMA ConfirmedDocument ==
  ASSUME ValuesOK, NEW current
  PROVE  Confirmed(current) \in Ledger(Attempt, Revision)
BY MarkedDocument DEF ValuesOK, Confirmed

(* request_stop leaves a document, whether its ledger write succeeds or not *)
(* (slot.py:218-224).                                                      *)
LEMMA RequestStopTyped ==
  ASSUME ValuesOK, RequestStop
  PROVE  ledger' \in Ledger(Attempt, Revision) /\ faults' \in 0 .. MaxFaults
BY SlotAssumption, MarkedDocument DEF ValuesOK, RequestStop, Fault

(* So does _mark_uncertain_if_current (slot.py:471-478).                   *)
LEMMA MarkedUncertainTyped ==
  ASSUME ValuesOK PROVE MarkedUncertain \in Ledger(Attempt, Revision)
BY MarkedDocument DEF ValuesOK, MarkedUncertain

(* Every step keeps the values of the variables that are not flags.        *)
LEMMA ValuesStep ==
  ASSUME ValuesOK, SpawnInv, FinishInv, Next
  PROVE  ValuesOK'
<1>. USE SlotAssumption DEF Location
<1>1. CASE Snapshot
  BY <1>1
     DEF Snapshot, GoTo, authority, os, object, runtime, restart, local,
         ValuesOK
<1>2. CASE BeginShutdown
  <2>1. CASE RequestStop /\ pc' = "tick"
    BY <2>1, <1>2, RequestStopTyped
       DEF BeginShutdown, authority, os, object, restart, local, ValuesOK
  <2>2. CASE UNCHANGED ledger /\ Fault /\ pc' = "fail"
    BY <2>2, <1>2
       DEF BeginShutdown, Fault, authority, os, object, restart, local, ValuesOK
  <2>. QED
    BY <1>2, <2>1, <2>2 DEF BeginShutdown
<1>3. CASE SnapshotFails
  BY <1>3
     DEF SnapshotFails, Fault, GoTo, authority, os, object, runtime, restart,
         local, ValuesOK
<1>4. CASE TickIdle
  BY <1>4
     DEF TickIdle, Continue, authority, os, object, runtime, restart, local,
         ValuesOK
<1>5. CASE Tick
  BY <1>5
     DEF Tick, TerminateExactJob, OwnsExactJob, Fault, FinishInv, GoTo,
         authority, object, restart, local, ValuesOK
<1>6. CASE Poll
  BY <1>6
     DEF Poll, Continue, authority, os, object, runtime, restart, local,
         ValuesOK
<1>7. CASE Drain
  <2>1. RequestStop \/ UNCHANGED <<ledger, faults>>
    BY <1>7 DEF Drain
  <2>2. ledger' \in Ledger(Attempt, Revision) /\ faults' \in 0 .. MaxFaults
    BY <2>1, RequestStopTyped DEF ValuesOK
  <2>. QED
    BY <1>7, <2>2
       DEF Drain, Target, authority, os, object, restart, local, ValuesOK
<1>8. CASE ReconcileActive
  <2>1. RequestStop \/ UNCHANGED <<ledger, faults>>
    BY <1>8 DEF ReconcileActive
  <2>2. ledger' \in Ledger(Attempt, Revision) /\ faults' \in 0 .. MaxFaults
    BY <2>1, RequestStopTyped DEF ValuesOK
  <2>. QED
    BY <1>8, <2>2
       DEF ReconcileActive, authority, os, object, restart, local, ValuesOK
<1>9. CASE ReconcileUndesired
  BY <1>9
     DEF ReconcileUndesired, Target, GoTo, authority, os, runtime, local,
         ValuesOK
<1>10. CASE ReconcileTarget
  BY <1>10
     DEF ReconcileTarget, ReplaceGroup, Targeted, Desired, authority, os,
         restart, local, ValuesOK
<1>11. CASE LaunchSkipped
  BY <1>11
     DEF LaunchSkipped, GoTo, authority, os, object, runtime, restart, local,
         ValuesOK
<1>12. CASE CreateJob
  BY <1>12
     DEF CreateJob, MayLaunch, Attempt, Location, GoTo, authority, object,
         restart, ValuesOK
<1>13. CASE CreateJobFails
  BY <1>13
     DEF CreateJobFails, RecordCrash, Fault, GoTo, authority, os, object,
         runtime, local, ValuesOK
<1>14. CASE ArmLedger
  BY <1>14, ArmedDocument
     DEF ArmLedger, CloseJob, SpawnInv, InSpawn, Desired, authority,
         object, runtime, restart, ValuesOK
<1>15. CASE ArmLedgerFails
  BY <1>15, ArmedDocument
     DEF ArmLedgerFails, Fault, SpawnInv, InSpawn, Desired, GoTo, authority,
         os, object, runtime, restart, local, ValuesOK
<1>16. CASE StartProcess
  BY <1>16
     DEF StartProcess, Member, GoTo, authority, object, runtime, restart,
         local, ValuesOK
<1>17. CASE StartProcessFails
  BY <1>17
     DEF StartProcessFails, Fault, Member, SpawnInv, InSpawn, GoTo, authority,
         object, runtime, restart, local, ValuesOK
<1>18. CASE ConfirmSpawn
  <2>1. ledger' \in Ledger(Attempt, Revision)
    BY <1>18, ConfirmedDocument DEF ConfirmSpawn
  <2>2. used \in Attempt
    BY <1>18 DEF ConfirmSpawn, GoTo, SpawnInv, InSpawn
  <2>. QED
    BY <1>18, <2>1, <2>2
       DEF ConfirmSpawn, TakeOver, GoTo, authority, os, object, restart, local, ValuesOK
<1>19. CASE ConfirmSpawnFails
  <2>1. ledger' \in Ledger(Attempt, Revision)
    BY <1>19, ConfirmedDocument DEF ConfirmSpawnFails, ValuesOK
  <2>. QED
    BY <1>19, <2>1
       DEF ConfirmSpawnFails, Fault, GoTo, authority, os, object, runtime,
           restart, local, ValuesOK
<1>20. CASE StartReaders
  BY <1>20
     DEF StartReaders, GoTo, authority, os, object, runtime, restart, local,
         ValuesOK
<1>21. CASE StartReadersFails
  BY <1>21
     DEF StartReadersFails, Fault, GoTo, authority, os, object, runtime,
         restart, local, ValuesOK
<1>22. CASE \E q \in BOOLEAN : Abort(q)
  BY <1>22
     DEF Abort, CloseJob, Quiescent, Fault, SpawnInv, InSpawn, Location,
         GoTo, authority, object, restart, ValuesOK
<1>23. CASE Unwind
  <2>1. ledger' \in Ledger(Attempt, Revision) /\ faults' \in 0 .. MaxFaults
    BY <1>23, MarkedDocument, CleanedDocument
       DEF Unwind, SpawnFailed, Fault, ValuesOK
  <2>2. crashes' \in 0 .. MaxCrashes /\ pc' \in Location
    BY <1>23 DEF Unwind, SpawnFailed, RecordCrash, restart, ValuesOK
  <2>. QED
    BY <1>23, <2>1, <2>2
       DEF Unwind, SpawnFailed, authority, os, object, runtime, ValuesOK
<1>24. CASE FinishTerminate
  BY <1>24
     DEF FinishTerminate, Quiescent, TerminateExactJob, OwnsExactJob,
         Fault, GoTo, authority, object, restart, local, ValuesOK
<1>25. CASE FinishQuiescent
  BY <1>25
     DEF FinishQuiescent, CloseJob, Quiescent, Fault, authority, object,
         restart, local, ValuesOK
<1>26. CASE FinishUncertain
  <2>1. ledger' \in Ledger(Attempt, Revision)
    BY <1>26, MarkedUncertainTyped DEF FinishUncertain, Quiescent, ValuesOK
  <2>. QED
    BY <1>26, <2>1
       DEF FinishUncertain, Quiescent, Fault, GoTo, authority, os, object,
           restart, local, ValuesOK
<1>27. CASE FinishJobLingers
  <2>1. ledger' \in Ledger(Attempt, Revision)
    BY <1>27, MarkedUncertainTyped DEF FinishJobLingers, ValuesOK
  <2>. QED
    BY <1>27, <2>1
       DEF FinishJobLingers, Fault, GoTo, authority, os, object, runtime,
           restart, local, ValuesOK
<1>28. CASE FinishClean
  BY <1>28, CleanedDocument
     DEF FinishClean, ClearRuntime, RecordCrash, Continue, Fault, authority, os,
         object, local, ValuesOK
<1>29. CASE FinishCleanFails
  BY <1>29, CleanedDocument
     DEF FinishCleanFails, Fault, GoTo, authority, os, object, runtime,
         restart, local, ValuesOK
<1>30. CASE ForceStop
  BY <1>30
     DEF ForceStop, TerminateExactJob, OwnsExactJob, Fault, FinishInv, GoTo,
         authority, object, restart, local, ValuesOK
<1>31. CASE NothingToStop
  BY <1>31
     DEF NothingToStop, GoTo, authority, os, object, runtime, restart, local,
         ValuesOK
<1>32. CASE AwaitForced
  BY <1>32
     DEF AwaitForced, authority, os, object, runtime, restart, local, ValuesOK
<1>33. CASE FenceGate
  BY <1>33
     DEF FenceGate, Fault, Gate, Desired, GoTo, os, object, runtime, restart,
         local, ValuesOK
<1>34. CASE Exit
  BY <1>34 DEF Exit, ForgetMemory, CloseAllHandles, Target, authority, ValuesOK
<1>35. CASE Activate
  BY <1>35
     DEF Activate, Location, GoTo, authority, os, object, runtime, restart,
         local, ValuesOK
<1>36. CASE ResidentDies
  BY <1>36
     DEF ResidentDies, Fault, ForgetMemory, CloseAllHandles, Target, authority,
         ValuesOK
<1>37. CASE DeadlinePasses
  BY <1>37
     DEF DeadlinePasses, authority, os, thread, object, restart, local,
         ValuesOK
<1>38. CASE WatchdogElapses
  BY <1>38
     DEF WatchdogElapses, authority, os, thread, object, restart, local,
         ValuesOK
<1>39. CASE BackoffElapses
  BY <1>39
     DEF BackoffElapses, authority, os, thread, object, runtime, local,
         ValuesOK
<1>40. CASE ApplyEnabled
  BY <1>40
     DEF ApplyEnabled, Fault, SafeReduction, Desired, Gate, Revision, os,
         thread, object, runtime, restart, local, ValuesOK
<1>41. CASE ApplyDisabled
  <2>1. PICK revision \in Revision, g \in Target :
          /\ gate' = [state |-> "disabled", revision |-> revision]
          /\ desired' \in {desired, [enabled |-> FALSE, revision |-> revision,
                                    generation |-> g]}
          /\ faults' \in {faults, faults - 1}
          /\ faults' = faults \/ faults > 0
          /\ UNCHANGED <<ledger, os, thread, object, runtime, restart, local>>
    BY <1>41 DEF ApplyDisabled, Fault
  <2>2. gate' \in Gate
    BY <2>1 DEF Gate
  <2>3. [enabled |-> FALSE, revision |-> revision, generation |-> g] \in Desired
    BY DEF Desired
  <2>4. desired' \in Desired
    BY <2>1, <2>3 DEF ValuesOK
  <2>. QED
    BY <2>1, <2>2, <2>4
       DEF os, thread, object, runtime, restart, local, ValuesOK
<1>42. CASE DisableGate
  BY <1>42
     DEF DisableGate, Gate, os, thread, object, runtime, restart, local,
         ValuesOK
<1>43. CASE Recover
  BY <1>43, CleanedDocument
     DEF Recover, Gate, os, thread, object, runtime, restart, local, ValuesOK
<1>44. CASE Fork
  BY <1>44
     DEF Fork, Member, authority, thread, object, runtime, restart, local,
         ValuesOK
<1>45. CASE MemberExits
  BY <1>45
     DEF MemberExits, authority, thread, object, runtime, restart, local,
         ValuesOK
<1>46. CASE \E a \in Attempt : Kill(a)
  BY <1>46
     DEF Kill, authority, thread, object, runtime, restart, local, ValuesOK
<1>47. CASE ReaderError
  BY <1>47
     DEF ReaderError, Fault, authority, os, thread, object, restart, local,
         ValuesOK
<1>. QED
  BY <1>1, <1>2, <1>3, <1>4, <1>5, <1>6, <1>7, <1>8, <1>9, <1>10, <1>11,
     <1>12, <1>13, <1>14, <1>15, <1>16, <1>17, <1>18, <1>19, <1>20, <1>21,
     <1>22, <1>23, <1>24, <1>25, <1>26, <1>27, <1>28, <1>29, <1>30, <1>31,
     <1>32, <1>33, <1>34, <1>35, <1>36, <1>37, <1>38, <1>39, <1>40, <1>41,
     <1>42, <1>43, <1>44, <1>45, <1>46, <1>47
     DEF Next, Resident, Loop, Spawn, Finish, FailClosed, Clock, Control,
         System

(* Every step keeps the flags Boolean.                                     *)
LEMMA FlagsStep ==
  ASSUME FlagsOK, Next
  PROVE  FlagsOK'
<1>1. CASE Snapshot
  BY <1>1, Zenon
     DEF Snapshot, GoTo, authority, os, object, runtime, restart, local,
         FlagsOK
<1>2. CASE BeginShutdown
  BY <1>2, Zenon
     DEF BeginShutdown, RequestStop, Fault, MustStop, GoTo, authority, os,
         object, restart, local, FlagsOK
<1>3. CASE SnapshotFails
  BY <1>3, Zenon
     DEF SnapshotFails, Fault, GoTo, authority, os, object, runtime, restart,
         local, FlagsOK
<1>4. CASE TickIdle
  BY <1>4, Zenon
     DEF TickIdle, Continue, authority, os, object, runtime, restart, local,
         FlagsOK
<1>5. CASE Tick
  BY <1>5, Zenon
     DEF Tick, TerminateExactJob, OwnsExactJob, Fault, GoTo, authority, object,
         restart, local, FlagsOK
<1>6. CASE Poll
  BY <1>6, Zenon
     DEF Poll, Continue, authority, os, object, runtime, restart, local,
         FlagsOK
<1>7. CASE Drain
  BY <1>7, Zenon
     DEF Drain, RequestStop, Fault, authority, os, object, restart, local,
         FlagsOK
<1>8. CASE ReconcileActive
  BY <1>8, Zenon
     DEF ReconcileActive, RequestStop, Fault, authority, os, object, restart,
         local, FlagsOK
<1>9. CASE ReconcileUndesired
  BY <1>9, Zenon
     DEF ReconcileUndesired, GoTo, authority, os, runtime, local, FlagsOK
<1>10. CASE ReconcileTarget
  BY <1>10, Zenon
     DEF ReconcileTarget, ReplaceGroup, Targeted, authority, os, restart,
         local, FlagsOK
<1>11. CASE LaunchSkipped
  BY <1>11, Zenon
     DEF LaunchSkipped, GoTo, authority, os, object, runtime, restart, local,
         FlagsOK
<1>12. CASE CreateJob
  BY <1>12, Zenon
     DEF CreateJob, MayLaunch, GoTo, authority, object, restart, FlagsOK
<1>13. CASE CreateJobFails
  BY <1>13, Zenon
     DEF CreateJobFails, RecordCrash, Fault, GoTo, authority, os, object,
         runtime, local, FlagsOK
<1>14. CASE ArmLedger
  BY <1>14, Zenon
     DEF ArmLedger, CloseJob, authority, object, runtime, restart, FlagsOK
<1>15. CASE ArmLedgerFails
  BY <1>15, Zenon
     DEF ArmLedgerFails, Fault, GoTo, authority, os, object, runtime, restart,
         local, FlagsOK
<1>16. CASE StartProcess
  BY <1>16, Zenon
     DEF StartProcess, GoTo, authority, object, runtime, restart, local,
         FlagsOK
<1>17. CASE StartProcessFails
  BY <1>17, Zenon
     DEF StartProcessFails, Fault, GoTo, authority, object, runtime, restart,
         local, FlagsOK
<1>18. CASE ConfirmSpawn
  BY <1>18, Zenon
     DEF ConfirmSpawn, TakeOver, GoTo, authority, os, object, restart, local, FlagsOK
<1>19. CASE ConfirmSpawnFails
  BY <1>19, Zenon
     DEF ConfirmSpawnFails, Fault, GoTo, authority, os, object, runtime,
         restart, local, FlagsOK
<1>20. CASE StartReaders
  BY <1>20, Zenon
     DEF StartReaders, GoTo, authority, os, object, runtime, restart, local,
         FlagsOK
<1>21. CASE StartReadersFails
  BY <1>21, Zenon
     DEF StartReadersFails, Fault, GoTo, authority, os, object, runtime,
         restart, local, FlagsOK
<1>22. CASE \E q \in BOOLEAN : Abort(q)
  BY <1>22, Zenon
     DEF Abort, CloseJob, Quiescent, Fault, GoTo, authority, object,
         restart, FlagsOK
<1>23. CASE Unwind
  BY <1>23, Zenon
     DEF Unwind, SpawnFailed, RecordCrash, Fault, authority, os, object,
         runtime, restart, FlagsOK
<1>24. CASE FinishTerminate
  BY <1>24, Zenon
     DEF FinishTerminate, Quiescent, TerminateExactJob, OwnsExactJob,
         Fault, GoTo, authority, object, restart, local, FlagsOK
<1>25. CASE FinishQuiescent
  BY <1>25, Zenon
     DEF FinishQuiescent, CloseJob, Quiescent, Fault, authority, object,
         restart, local, FlagsOK
<1>26. CASE FinishUncertain
  BY <1>26, Zenon
     DEF FinishUncertain, Quiescent, MarkedUncertain, Fault, GoTo,
         authority, os, object, restart, local, FlagsOK
<1>27. CASE FinishJobLingers
  BY <1>27, Zenon
     DEF FinishJobLingers, MarkedUncertain, Fault, GoTo, authority, os, object,
         runtime, restart, local, FlagsOK
<1>28. CASE FinishClean
  BY <1>28, Zenon
     DEF FinishClean, ClearRuntime, RecordCrash, Fault, Continue, authority, os,
         object, local, FlagsOK
<1>29. CASE FinishCleanFails
  BY <1>29, Zenon
     DEF FinishCleanFails, Fault, GoTo, authority, os, object, runtime,
         restart, local, FlagsOK
<1>30. CASE ForceStop
  BY <1>30, Zenon
     DEF ForceStop, TerminateExactJob, OwnsExactJob, Fault, GoTo, authority,
         object, restart, local, FlagsOK
<1>31. CASE NothingToStop
  BY <1>31, Zenon
     DEF NothingToStop, GoTo, authority, os, object, runtime, restart, local,
         FlagsOK
<1>32. CASE AwaitForced
  BY <1>32, Zenon
     DEF AwaitForced, authority, os, object, runtime, restart, local, FlagsOK
<1>33. CASE FenceGate
  BY <1>33, Zenon
     DEF FenceGate, Fault, GoTo, os, object, runtime, restart, local, FlagsOK
<1>34. CASE Exit
  BY <1>34, Zenon DEF Exit, ForgetMemory, CloseAllHandles, authority, FlagsOK
<1>35. CASE Activate
  BY <1>35, Zenon
     DEF Activate, GoTo, authority, os, object, runtime, restart, local,
         FlagsOK
<1>36. CASE ResidentDies
  BY <1>36, Zenon
     DEF ResidentDies, Fault, ForgetMemory, CloseAllHandles, authority, FlagsOK
<1>37. CASE DeadlinePasses
  BY <1>37, Zenon
     DEF DeadlinePasses, authority, os, thread, object, restart, local, FlagsOK
<1>38. CASE WatchdogElapses
  BY <1>38, Zenon
     DEF WatchdogElapses, authority, os, thread, object, restart, local,
         FlagsOK
<1>39. CASE BackoffElapses
  BY <1>39, Zenon
     DEF BackoffElapses, authority, os, thread, object, runtime, local, FlagsOK
<1>40. CASE ApplyEnabled
  BY <1>40, Zenon
     DEF ApplyEnabled, Fault, SafeReduction, os, thread, object, runtime,
         restart, local, FlagsOK
<1>41. CASE ApplyDisabled
  BY <1>41, Zenon
     DEF ApplyDisabled, Fault, os, thread, object, runtime, restart, local,
         FlagsOK
<1>42. CASE DisableGate
  BY <1>42, Zenon
     DEF DisableGate, os, thread, object, runtime, restart, local, FlagsOK
<1>43. CASE Recover
  BY <1>43, Zenon
     DEF Recover, os, thread, object, runtime, restart, local, FlagsOK
<1>44. CASE Fork
  BY <1>44, Zenon
     DEF Fork, authority, thread, object, runtime, restart, local, FlagsOK
<1>45. CASE MemberExits
  BY <1>45, Zenon
     DEF MemberExits, authority, thread, object, runtime, restart, local,
         FlagsOK
<1>46. CASE \E a \in Attempt : Kill(a)
  BY <1>46, Zenon
     DEF Kill, authority, thread, object, runtime, restart, local, FlagsOK
<1>47. CASE ReaderError
  BY <1>47, Zenon
     DEF ReaderError, Fault, authority, os, thread, object, restart, local,
         FlagsOK
<1>. QED
  BY <1>1, <1>2, <1>3, <1>4, <1>5, <1>6, <1>7, <1>8, <1>9, <1>10, <1>11,
     <1>12, <1>13, <1>14, <1>15, <1>16, <1>17, <1>18, <1>19, <1>20, <1>21,
     <1>22, <1>23, <1>24, <1>25, <1>26, <1>27, <1>28, <1>29, <1>30, <1>31,
     <1>32, <1>33, <1>34, <1>35, <1>36, <1>37, <1>38, <1>39, <1>40, <1>41,
     <1>42, <1>43, <1>44, <1>45, <1>46, <1>47
     DEF Next, Resident, Loop, Spawn, Finish, FailClosed, Clock, Control,
         System

-----------------------------------------------------------------------------
(* Ownership                                                               *)

(* The documents that keep their owner: a transition that marks the ledger *)
(* leaves the attempt it names, and the ledger unresolved.                 *)
KeepsOwner ==
  /\ RequiresRecovery(ledger) <=> RequiresRecovery(ledger')
  /\ ledger'.attempt = ledger.attempt

(* The marks of lifecycle.py write the state and nothing else that matters. *)
LEMMA MarkKeepsOwner ==
  ASSUME NEW document \in Ledger(Attempt, Revision), NEW running \in ActiveState
  PROVE  /\ MarkActive(document, running).attempt = document.attempt
         /\ MarkStopping(document).attempt = document.attempt
         /\ MarkUncertain(document).attempt = document.attempt
         /\ MarkActive(document, running).state = running
         /\ MarkStopping(document).state = "stopping"
         /\ MarkUncertain(document).state = "uncertain"
BY DEF Ledger, MarkActive, MarkStopping, MarkUncertain

(* request_stop never changes the owner.                                   *)
LEMMA RequestStopKeepsOwner ==
  ASSUME ValuesOK, RequestStop
  PROVE  KeepsOwner
BY MarkKeepsOwner
   DEF ValuesOK, RequestStop, KeepsOwner, RequiresRecovery, MayMarkStopping,
       RequireAttempt, ActiveState, Fault

(* Neither does giving up on a Job that does not become quiescent.         *)
LEMMA MarkedUncertainKeepsOwner ==
  ASSUME ValuesOK, ledger' \in {MarkedUncertain, ledger}
  PROVE  KeepsOwner
BY MarkKeepsOwner
   DEF ValuesOK, MarkedUncertain, KeepsOwner, RequiresRecovery,
       MayMarkUncertain, RequireAttempt, ActiveState

(* Nor the confirmation of a spawn, current or stale, nor one that fails.  *)
LEMMA ConfirmKeepsOwner ==
  ASSUME ValuesOK, ConfirmSpawn \/ ConfirmSpawnFails
  PROVE  KeepsOwner
<1>1. CASE UNCHANGED ledger
  BY <1>1 DEF KeepsOwner, RequiresRecovery
<1>2. ASSUME NEW current, MayConfirm(current), ledger' = Confirmed(current)
      PROVE  KeepsOwner
  BY <1>2, MarkKeepsOwner
     DEF ValuesOK, MayConfirm, Confirmed, KeepsOwner, RequiresRecovery,
         MayMarkActive, MayMarkStopping, RequireAttempt, ActiveState
<1>. QED
  BY <1>1, <1>2 DEF ConfirmSpawn, ConfirmSpawnFails

(* Every step establishes what the place in spawn or _finish it reaches    *)
(* relies on.                                                              *)
LEMMA PlaceStep ==
  ASSUME ValuesOK, SpawnInv, FinishInv, Next
  PROVE  SpawnInv' /\ FinishInv'
<1>. USE SlotAssumption DEF ValuesOK, SpawnInv, FinishInv, InSpawn, Unborn,
         active, Attempt, NoAttempt
<1>1. CASE Snapshot
  BY <1>1 DEF Snapshot, GoTo, authority, os, object, runtime, restart, local
<1>2. CASE BeginShutdown
  BY <1>2
     DEF BeginShutdown, RequestStop, Fault, MayMarkStopping, MarkStopping,
         RequireAttempt, GoTo, authority, os, object, restart, local
<1>3. CASE SnapshotFails
  BY <1>3
     DEF SnapshotFails, Fault, GoTo, authority, os, object, runtime, restart,
         local
<1>4. CASE TickIdle
  BY <1>4
     DEF TickIdle, Continue, authority, os, object, runtime, restart, local
<1>5. CASE Tick
  BY <1>5
     DEF Tick, TerminateExactJob, OwnsExactJob, Fault, GoTo, authority, object,
         restart, local
<1>6. CASE Poll
  BY <1>6 DEF Poll, Continue, authority, os, object, runtime, restart, local
<1>7. CASE Drain
  BY <1>7
     DEF Drain, RequestStop, Fault, MayMarkStopping, MarkStopping,
         RequireAttempt, authority, os, object, restart, local
<1>8. CASE ReconcileActive
  BY <1>8
     DEF ReconcileActive, RequestStop, Fault, MayMarkStopping, MarkStopping,
         RequireAttempt, authority, os, object, restart, local
<1>9. CASE ReconcileUndesired
  BY <1>9 DEF ReconcileUndesired, GoTo, authority, os, runtime, local
<1>10. CASE ReconcileTarget
  BY <1>10
     DEF ReconcileTarget, ReplaceGroup, RequiresRecovery, authority, os,
         restart, local
<1>11. CASE LaunchSkipped
  BY <1>11
     DEF LaunchSkipped, GoTo, authority, os, object, runtime, restart, local
<1>12. CASE CreateJob
  BY <1>12 DEF CreateJob, MayLaunch, GoTo, authority, object, restart
<1>13. CASE CreateJobFails
  BY <1>13
     DEF CreateJobFails, RecordCrash, Fault, GoTo, authority, os, object,
         runtime, local
<1>14. CASE ArmLedger
  <2>1. UNCHANGED <<procs, used, proc, job, attempt>> /\ pc = "arm"
    BY <1>14 DEF ArmLedger, CloseJob, runtime
  <2>2. CASE IsCurrent(generation, seen.revision)
    <3>1. /\ ledger'.attempt = used /\ ledger'.state # "clean"
          /\ UNCHANGED <<handles, doomed>> /\ pc' = "start"
      BY <1>14, <2>2 DEF ArmLedger, Arm
    <3>. QED
      BY <2>1, <3>1 DEF RequiresRecovery
  <2>3. CASE ~IsCurrent(generation, seen.revision)
    <3>1. /\ handles' = handles \ {used} /\ pc' = "top"
          /\ doomed' = doomed \cup (handles \cap {used})
      BY <1>14, <2>3 DEF ArmLedger, CloseJob
    <3>. QED
      BY <2>1, <3>1
  <2>. QED
    BY <2>2, <2>3
<1>15. CASE ArmLedgerFails
  BY <1>15
     DEF ArmLedgerFails, Arm, MayArm, Fault, GoTo, authority, os, object,
         runtime, restart, local
<1>16. CASE StartProcess
  BY <1>16 DEF StartProcess, GoTo, authority, object, runtime, restart, local
<1>17. CASE StartProcessFails
  BY <1>17
     DEF StartProcessFails, Fault, GoTo, authority, object, runtime, restart,
         local
<1>18. CASE ConfirmSpawn
  BY <1>18 DEF ConfirmSpawn, TakeOver, GoTo, authority, os, object, restart, local
<1>19. CASE ConfirmSpawnFails
  BY <1>19
     DEF ConfirmSpawnFails, Fault, GoTo, authority, os, object, runtime,
         restart, local
<1>20. CASE StartReaders
  BY <1>20
     DEF StartReaders, GoTo, authority, os, object, runtime, restart, local
<1>21. CASE StartReadersFails
  BY <1>21
     DEF StartReadersFails, Fault, GoTo, authority, os, object, runtime,
         restart, local
<1>22. CASE \E q \in BOOLEAN : Abort(q)
  BY <1>22
     DEF Abort, CloseJob, Quiescent, Fault, GoTo, authority, object,
         restart
<1>23. CASE Unwind
  BY <1>23
     DEF Unwind, SpawnFailed, MarkClean, CleanDocument, MayMarkClean,
         MayMarkUncertain, RequireAttempt, MarkUncertain, RequiresRecovery,
         RecordCrash, Fault, authority, os, object, runtime, restart
<1>24. CASE FinishTerminate
  BY <1>24
     DEF FinishTerminate, Quiescent, TerminateExactJob, OwnsExactJob,
         Fault, GoTo, authority, object, restart, local
<1>25. CASE FinishQuiescent
  BY <1>25
     DEF FinishQuiescent, CloseJob, Quiescent, Fault, authority, object,
         restart, local
<1>26. CASE FinishUncertain
  BY <1>26
     DEF FinishUncertain, Quiescent, MarkedUncertain, MayMarkUncertain,
         MarkUncertain, RequireAttempt, Fault, GoTo, authority, os, object,
         restart, local
<1>27. CASE FinishJobLingers
  BY <1>27
     DEF FinishJobLingers, MarkedUncertain, MayMarkUncertain, MarkUncertain,
         RequireAttempt, Fault, GoTo, authority, os, object, runtime, restart,
         local
<1>28. CASE FinishClean
  BY <1>28
     DEF FinishClean, MarkClean, CleanDocument, MayMarkClean, RequireAttempt,
         ClearRuntime, RecordCrash, Continue, Fault, authority, os, object, local
<1>29. CASE FinishCleanFails
  BY <1>29
     DEF FinishCleanFails, Fault, GoTo, authority, os, object, runtime,
         restart, local
<1>30. CASE ForceStop
  BY <1>30
     DEF ForceStop, TerminateExactJob, OwnsExactJob, Fault, GoTo, authority,
         object, restart, local
<1>31. CASE NothingToStop
  BY <1>31
     DEF NothingToStop, GoTo, authority, os, object, runtime, restart, local
<1>32. CASE AwaitForced
  BY <1>32 DEF AwaitForced, authority, os, object, runtime, restart, local
<1>33. CASE FenceGate
  BY <1>33 DEF FenceGate, Fault, GoTo, os, object, runtime, restart, local
<1>34. CASE Exit
  BY <1>34 DEF Exit, ForgetMemory, CloseAllHandles, authority
<1>35. CASE Activate
  BY <1>35 DEF Activate, GoTo, authority, os, object, runtime, restart, local
<1>36. CASE ResidentDies
  BY <1>36 DEF ResidentDies, Fault, ForgetMemory, CloseAllHandles, authority
<1>37. CASE DeadlinePasses
  BY <1>37 DEF DeadlinePasses, authority, os, thread, object, restart, local
<1>38. CASE WatchdogElapses
  BY <1>38 DEF WatchdogElapses, authority, os, thread, object, restart, local
<1>39. CASE BackoffElapses
  BY <1>39 DEF BackoffElapses, authority, os, thread, object, runtime, local
<1>40. CASE ApplyEnabled
  BY <1>40 DEF ApplyEnabled, Fault, os, thread, object, runtime, restart, local
<1>41. CASE ApplyDisabled
  BY <1>41
     DEF ApplyDisabled, Fault, os, thread, object, runtime, restart, local
<1>42. CASE DisableGate
  BY <1>42 DEF DisableGate, os, thread, object, runtime, restart, local
<1>43. CASE Recover
  BY <1>43
     DEF Recover, MarkClean, CleanDocument, RequiresRecovery, os, thread,
         object, runtime, restart, local
<1>44. CASE Fork
  BY <1>44 DEF Fork, authority, thread, object, runtime, restart, local
<1>45. CASE MemberExits
  BY <1>45 DEF MemberExits, authority, thread, object, runtime, restart, local
<1>46. CASE \E a \in Attempt : Kill(a)
  BY <1>46 DEF Kill, authority, thread, object, runtime, restart, local
<1>47. CASE ReaderError
  BY <1>47
     DEF ReaderError, Fault, authority, os, thread, object, restart, local
<1>. QED
  BY <1>1, <1>2, <1>3, <1>4, <1>5, <1>6, <1>7, <1>8, <1>9, <1>10, <1>11,
     <1>12, <1>13, <1>14, <1>15, <1>16, <1>17, <1>18, <1>19, <1>20, <1>21,
     <1>22, <1>23, <1>24, <1>25, <1>26, <1>27, <1>28, <1>29, <1>30, <1>31,
     <1>32, <1>33, <1>34, <1>35, <1>36, <1>37, <1>38, <1>39, <1>40, <1>41,
     <1>42, <1>43, <1>44, <1>45, <1>46, <1>47
     DEF Next, Resident, Loop, Spawn, Finish, FailClosed, Clock, Control,
         System

(* Every step keeps what is alive contained and named by the ledger.       *)
LEMMA OwnStep ==
  ASSUME ValuesOK, SpawnInv, FinishInv, Contained, WriteAhead, Next
  PROVE  Contained' /\ WriteAhead'
<1>. USE DEF ValuesOK, SpawnInv, FinishInv, Unborn, InSpawn, Contained,
         WriteAhead, Live, RequiresRecovery
<1>1. CASE Snapshot
  BY <1>1 DEF Snapshot, GoTo, authority, os, object, runtime, restart, local
<1>2. CASE BeginShutdown
  <2>1. KeepsOwner
    BY <1>2, RequestStopKeepsOwner DEF BeginShutdown, KeepsOwner
  <2>. QED
    BY <1>2, <2>1 DEF BeginShutdown, os, KeepsOwner
<1>3. CASE SnapshotFails
  BY <1>3
     DEF SnapshotFails, Fault, GoTo, authority, os, object, runtime, restart,
         local
<1>4. CASE TickIdle
  BY <1>4
     DEF TickIdle, Continue, authority, os, object, runtime, restart, local
<1>5. CASE Tick
  BY <1>5
     DEF Tick, TerminateExactJob, OwnsExactJob, Fault, GoTo, authority, object,
         restart, local
<1>6. CASE Poll
  BY <1>6 DEF Poll, Continue, authority, os, object, runtime, restart, local
<1>7. CASE Drain
  <2>1. KeepsOwner
    BY <1>7, RequestStopKeepsOwner DEF Drain, KeepsOwner
  <2>. QED
    BY <1>7, <2>1 DEF Drain, os, KeepsOwner
<1>8. CASE ReconcileActive
  <2>1. KeepsOwner
    BY <1>8, RequestStopKeepsOwner DEF ReconcileActive, KeepsOwner
  <2>. QED
    BY <1>8, <2>1 DEF ReconcileActive, os, KeepsOwner
<1>9. CASE ReconcileUndesired
  BY <1>9 DEF ReconcileUndesired, GoTo, authority, os, runtime, local
<1>10. CASE ReconcileTarget
  BY <1>10
     DEF ReconcileTarget, ReplaceGroup, RequiresRecovery, authority, os,
         restart, local
<1>11. CASE LaunchSkipped
  BY <1>11
     DEF LaunchSkipped, GoTo, authority, os, object, runtime, restart, local
<1>12. CASE CreateJob
  BY <1>12 DEF CreateJob, MayLaunch, GoTo, authority, object, restart
<1>13. CASE CreateJobFails
  BY <1>13
     DEF CreateJobFails, RecordCrash, Fault, GoTo, authority, os, object,
         runtime, local
<1>14. CASE ArmLedger
  <2>1. procs' = procs
    BY <1>14 DEF ArmLedger
  <2>2. CASE IsCurrent(generation, seen.revision)
    <3>1. ledger.state = "clean" /\ UNCHANGED <<handles, doomed>>
      BY <1>14, <2>2 DEF ArmLedger, MayArm
    <3>. QED
      BY <2>1, <3>1
  <2>3. CASE ~IsCurrent(generation, seen.revision)
    <3>1. /\ ledger' = ledger /\ handles' = handles \ {used} /\ pc = "arm"
          /\ doomed' = doomed \cup (handles \cap {used})
      BY <1>14, <2>3 DEF ArmLedger, CloseJob
    <3>. QED
      BY <2>1, <3>1
  <2>. QED
    BY <2>2, <2>3
<1>15. CASE ArmLedgerFails
  BY <1>15
     DEF ArmLedgerFails, Arm, MayArm, Fault, GoTo, authority, os, object,
         runtime, restart, local
<1>16. CASE StartProcess
  BY <1>16 DEF StartProcess, GoTo, authority, object, runtime, restart, local
<1>17. CASE StartProcessFails
  BY <1>17
     DEF StartProcessFails, Fault, GoTo, authority, object, runtime, restart,
         local
<1>18. CASE ConfirmSpawn
  <2>1. KeepsOwner
    BY <1>18, ConfirmKeepsOwner
  <2>. QED
    BY <1>18, <2>1 DEF ConfirmSpawn, os, KeepsOwner
<1>19. CASE ConfirmSpawnFails
  <2>1. KeepsOwner
    BY <1>19, ConfirmKeepsOwner
  <2>. QED
    BY <1>19, <2>1 DEF ConfirmSpawnFails, os, KeepsOwner
<1>20. CASE StartReaders
  BY <1>20
     DEF StartReaders, GoTo, authority, os, object, runtime, restart, local
<1>21. CASE StartReadersFails
  BY <1>21
     DEF StartReadersFails, Fault, GoTo, authority, os, object, runtime,
         restart, local
<1>22. CASE \E q \in BOOLEAN : Abort(q)
  BY <1>22
     DEF Abort, CloseJob, Quiescent, Fault, GoTo, authority, object,
         restart
<1>23. CASE Unwind
  BY <1>23
     DEF Unwind, SpawnFailed, MarkClean, CleanDocument, MayMarkClean,
         MayMarkUncertain, RequireAttempt, MarkUncertain, RequiresRecovery,
         RecordCrash, Fault, authority, os, object, runtime, restart
<1>24. CASE FinishTerminate
  BY <1>24
     DEF FinishTerminate, Quiescent, TerminateExactJob, OwnsExactJob,
         Fault, GoTo, authority, object, restart, local
<1>25. CASE FinishQuiescent
  BY <1>25
     DEF FinishQuiescent, CloseJob, Quiescent, Fault, Attempt, NoAttempt,
         authority, object, restart, local
<1>26. CASE FinishUncertain
  <2>1. KeepsOwner
    BY <1>26, MarkedUncertainKeepsOwner DEF FinishUncertain, Quiescent
  <2>. QED
    BY <1>26, <2>1 DEF FinishUncertain, Quiescent, os, KeepsOwner
<1>27. CASE FinishJobLingers
  <2>1. KeepsOwner
    BY <1>27, MarkedUncertainKeepsOwner DEF FinishJobLingers
  <2>. QED
    BY <1>27, <2>1 DEF FinishJobLingers, os, KeepsOwner
<1>28. CASE FinishClean
  BY <1>28
     DEF FinishClean, MarkClean, CleanDocument, MayMarkClean, RequireAttempt,
         ClearRuntime, RecordCrash, Continue, Fault, authority, os, object, local
<1>29. CASE FinishCleanFails
  BY <1>29
     DEF FinishCleanFails, MarkClean, CleanDocument, MayMarkClean,
         RequireAttempt, Fault, GoTo, authority, os, object, runtime, restart,
         local
<1>30. CASE ForceStop
  BY <1>30
     DEF ForceStop, TerminateExactJob, OwnsExactJob, Fault, GoTo, authority,
         object, restart, local
<1>31. CASE NothingToStop
  BY <1>31
     DEF NothingToStop, GoTo, authority, os, object, runtime, restart, local
<1>32. CASE AwaitForced
  BY <1>32 DEF AwaitForced, authority, os, object, runtime, restart, local
<1>33. CASE FenceGate
  BY <1>33 DEF FenceGate, Fault, GoTo, os, object, runtime, restart, local
<1>34. CASE Exit
  BY <1>34 DEF Exit, ForgetMemory, CloseAllHandles, authority
<1>35. CASE Activate
  BY <1>35 DEF Activate, GoTo, authority, os, object, runtime, restart, local
<1>36. CASE ResidentDies
  BY <1>36 DEF ResidentDies, Fault, ForgetMemory, CloseAllHandles, authority
<1>37. CASE DeadlinePasses
  BY <1>37 DEF DeadlinePasses, authority, os, thread, object, restart, local
<1>38. CASE WatchdogElapses
  BY <1>38 DEF WatchdogElapses, authority, os, thread, object, restart, local
<1>39. CASE BackoffElapses
  BY <1>39 DEF BackoffElapses, authority, os, thread, object, runtime, local
<1>40. CASE ApplyEnabled
  BY <1>40 DEF ApplyEnabled, Fault, os, thread, object, runtime, restart, local
<1>41. CASE ApplyDisabled
  BY <1>41
     DEF ApplyDisabled, Fault, os, thread, object, runtime, restart, local
<1>42. CASE DisableGate
  BY <1>42 DEF DisableGate, os, thread, object, runtime, restart, local
<1>43. CASE Recover
  BY <1>43
     DEF Recover, MarkClean, CleanDocument, RequiresRecovery, os, thread,
         object, runtime, restart, local
<1>44. CASE Fork
  BY <1>44 DEF Fork, authority, thread, object, runtime, restart, local
<1>45. CASE MemberExits
  BY <1>45 DEF MemberExits, authority, thread, object, runtime, restart, local
<1>46. CASE \E a \in Attempt : Kill(a)
  BY <1>46 DEF Kill, authority, thread, object, runtime, restart, local
<1>47. CASE ReaderError
  BY <1>47
     DEF ReaderError, Fault, authority, os, thread, object, restart, local
<1>. QED
  BY <1>1, <1>2, <1>3, <1>4, <1>5, <1>6, <1>7, <1>8, <1>9, <1>10, <1>11,
     <1>12, <1>13, <1>14, <1>15, <1>16, <1>17, <1>18, <1>19, <1>20, <1>21,
     <1>22, <1>23, <1>24, <1>25, <1>26, <1>27, <1>28, <1>29, <1>30, <1>31,
     <1>32, <1>33, <1>34, <1>35, <1>36, <1>37, <1>38, <1>39, <1>40, <1>41,
     <1>42, <1>43, <1>44, <1>45, <1>46, <1>47
     DEF Next, Resident, Loop, Spawn, Finish, FailClosed, Clock, Control,
         System

-----------------------------------------------------------------------------
(* Refinement of Ownership                                                 *)

(* The four things a step of the slot may be to its owner and live Jobs.   *)
Shrinks  == NamedOwner' = NamedOwner /\ LiveJobs' \subseteq LiveJobs
Takes(a) == NamedOwner = NoAttempt /\ NamedOwner' = a /\ LiveJobs' = LiveJobs
Runs(a)  == /\ NamedOwner = a /\ NamedOwner' = a
            /\ LiveJobs = {} /\ LiveJobs' = {a}
GivesUp  == NamedOwner' = NoAttempt /\ LiveJobs = {} /\ LiveJobs' = {}

StepKind == Shrinks \/ GivesUp \/ \E a \in Attempt : Takes(a) \/ Runs(a)

(* Every step is of one of these kinds.                                    *)
LEMMA KindStep ==
  ASSUME ValuesOK, SpawnInv, FinishInv, Contained, WriteAhead, Next
  PROVE  StepKind
<1>. USE DEF StepKind
<1>1. CASE Snapshot
  BY <1>1
     DEF Snapshot, GoTo, authority, os, object, runtime, restart, local,
         Shrinks, NamedOwner, LiveJobs, Live
<1>2. CASE BeginShutdown
  <2>1. KeepsOwner
    BY <1>2, RequestStopKeepsOwner DEF BeginShutdown, KeepsOwner
  <2>. QED
    BY <1>2, <2>1
       DEF BeginShutdown, os, KeepsOwner, Shrinks, NamedOwner, LiveJobs, Live
<1>3. CASE SnapshotFails
  BY <1>3
     DEF SnapshotFails, Fault, GoTo, authority, os, object, runtime, restart,
         local, Shrinks, NamedOwner, LiveJobs, Live
<1>4. CASE TickIdle
  BY <1>4
     DEF TickIdle, Continue, authority, os, object, runtime, restart, local,
         Shrinks, NamedOwner, LiveJobs, Live
<1>5. CASE Tick
  BY <1>5
     DEF Tick, TerminateExactJob, OwnsExactJob, Fault, GoTo, authority, object,
         restart, local, Shrinks, NamedOwner, LiveJobs, Live
<1>6. CASE Poll
  BY <1>6
     DEF Poll, Continue, authority, os, object, runtime, restart, local,
         Shrinks, NamedOwner, LiveJobs, Live
<1>7. CASE Drain
  <2>1. KeepsOwner
    BY <1>7, RequestStopKeepsOwner DEF Drain, KeepsOwner
  <2>. QED
    BY <1>7, <2>1
       DEF Drain, os, KeepsOwner, Shrinks, NamedOwner, LiveJobs, Live
<1>8. CASE ReconcileActive
  <2>1. KeepsOwner
    BY <1>8, RequestStopKeepsOwner DEF ReconcileActive, KeepsOwner
  <2>. QED
    BY <1>8, <2>1
       DEF ReconcileActive, os, KeepsOwner, Shrinks, NamedOwner, LiveJobs, Live
<1>9. CASE ReconcileUndesired
  BY <1>9
     DEF ReconcileUndesired, GoTo, authority, os, runtime, local, Shrinks,
         NamedOwner, LiveJobs, Live
<1>10. CASE ReconcileTarget
  BY <1>10
     DEF ReconcileTarget, ReplaceGroup, RequiresRecovery, authority, os,
         restart, local, Shrinks, NamedOwner, LiveJobs, Live
<1>11. CASE LaunchSkipped
  BY <1>11
     DEF LaunchSkipped, GoTo, authority, os, object, runtime, restart, local,
         Shrinks, NamedOwner, LiveJobs, Live
<1>12. CASE CreateJob
  BY <1>12
     DEF CreateJob, MayLaunch, GoTo, authority, object, restart, Shrinks,
         NamedOwner, LiveJobs, Live
<1>13. CASE CreateJobFails
  BY <1>13
     DEF CreateJobFails, RecordCrash, Fault, GoTo, authority, os, object,
         runtime, local, Shrinks, NamedOwner, LiveJobs, Live
<1>14. CASE ArmLedger
  <2>1. procs' = procs /\ used \in Attempt
    BY <1>14 DEF ArmLedger, SpawnInv, InSpawn
  <2>2. CASE IsCurrent(generation, seen.revision)
    <3>1. Takes(used)
      BY <1>14, <2>1, <2>2
         DEF ArmLedger, Arm, MayArm, Takes, NamedOwner, RequiresRecovery,
             LiveJobs, Live
    <3>. QED
      BY <2>1, <3>1
  <2>3. CASE ~IsCurrent(generation, seen.revision)
    BY <1>14, <2>1, <2>3
       DEF ArmLedger, CloseJob, Shrinks, NamedOwner, LiveJobs, Live
  <2>. QED
    BY <2>2, <2>3
<1>15. CASE ArmLedgerFails
  <2>1. UNCHANGED <<procs, doomed>> /\ used \in Attempt
    BY <1>15 DEF ArmLedgerFails, GoTo, os, SpawnInv, InSpawn
  <2>2. CASE ledger' = ledger
    BY <2>1, <2>2 DEF Shrinks, NamedOwner, LiveJobs, Live
  <2>3. CASE ledger' = Arm(used, seen.revision) /\ MayArm(ledger)
    <3>1. Takes(used)
      BY <2>1, <2>3
         DEF Arm, MayArm, Takes, NamedOwner, RequiresRecovery, LiveJobs, Live
    <3>. QED
      BY <2>1, <3>1
  <2>. QED
    BY <1>15, <2>2, <2>3 DEF ArmLedgerFails
<1>16. CASE StartProcess
  <2>1. Runs(used)
    BY <1>16
       DEF StartProcess, GoTo, ValuesOK, SpawnInv, InSpawn, Unborn, WriteAhead,
           Runs, NamedOwner, RequiresRecovery, LiveJobs, Live
  <2>. QED
    BY <1>16, <2>1 DEF StartProcess, GoTo, SpawnInv, InSpawn
<1>17. CASE StartProcessFails
  <2>1. LiveJobs' \subseteq LiveJobs /\ ledger' = ledger
    BY <1>17 DEF StartProcessFails, ValuesOK, LiveJobs, Live
  <2>. QED
    BY <2>1 DEF Shrinks, NamedOwner, RequiresRecovery
<1>18. CASE ConfirmSpawn
  <2>1. KeepsOwner
    BY <1>18, ConfirmKeepsOwner DEF ConfirmSpawn, KeepsOwner
  <2>. QED
    BY <1>18, <2>1
       DEF ConfirmSpawn, os, KeepsOwner, Shrinks, NamedOwner, LiveJobs, Live
<1>19. CASE ConfirmSpawnFails
  <2>1. KeepsOwner
    BY <1>19, ConfirmKeepsOwner
  <2>. QED
    BY <1>19, <2>1
       DEF ConfirmSpawnFails, os, KeepsOwner, Shrinks, NamedOwner, LiveJobs, Live
<1>20. CASE StartReaders
  BY <1>20
     DEF StartReaders, GoTo, authority, os, object, runtime, restart, local,
         Shrinks, NamedOwner, LiveJobs, Live
<1>21. CASE StartReadersFails
  BY <1>21
     DEF StartReadersFails, Fault, GoTo, authority, os, object, runtime,
         restart, local, Shrinks, NamedOwner, LiveJobs, Live
<1>22. CASE \E q \in BOOLEAN : Abort(q)
  BY <1>22
     DEF Abort, CloseJob, Quiescent, Fault, GoTo, authority, object,
         restart, Shrinks, NamedOwner, LiveJobs, Live
<1>23. CASE Unwind
  <2>1. UNCHANGED <<procs, doomed>> /\ used \in doomed
    BY <1>23 DEF Unwind, SpawnFailed, os, SpawnInv
  <2>2. CASE ledger' = MarkClean /\ ledger.attempt = used
    BY <2>1, <2>2
       DEF WriteAhead, GivesUp, NamedOwner, MarkClean, CleanDocument,
           RequiresRecovery, LiveJobs, Live
  <2>3. CASE ledger' = ledger
    BY <2>1, <2>3 DEF Shrinks, NamedOwner, LiveJobs, Live
  <2>4. CASE ledger' = MarkUncertain(ledger) /\ MayMarkUncertain(ledger, used)
    <3>1. KeepsOwner
      BY <2>4, MarkKeepsOwner
         DEF ValuesOK, KeepsOwner, RequiresRecovery, MayMarkUncertain,
             RequireAttempt, ActiveState
    <3>. QED
      BY <2>1, <3>1 DEF KeepsOwner, Shrinks, NamedOwner, LiveJobs, Live
  <2>. QED
    BY <1>23, <2>2, <2>3, <2>4 DEF Unwind, SpawnFailed
<1>24. CASE FinishTerminate
  BY <1>24
     DEF FinishTerminate, Quiescent, TerminateExactJob, OwnsExactJob,
         Fault, GoTo, authority, object, restart, local, Shrinks, NamedOwner,
         LiveJobs, Live
<1>25. CASE FinishQuiescent
  BY <1>25
     DEF FinishQuiescent, CloseJob, Quiescent, Fault, authority, object,
         restart, local, Shrinks, NamedOwner, LiveJobs, Live
<1>26. CASE FinishUncertain
  <2>1. KeepsOwner
    BY <1>26, MarkedUncertainKeepsOwner
       DEF FinishUncertain, Quiescent, KeepsOwner
  <2>. QED
    BY <1>26, <2>1
       DEF FinishUncertain, Quiescent, os, KeepsOwner, Shrinks, NamedOwner,
           LiveJobs, Live
<1>27. CASE FinishJobLingers
  <2>1. KeepsOwner
    BY <1>27, MarkedUncertainKeepsOwner DEF FinishJobLingers, KeepsOwner
  <2>. QED
    BY <1>27, <2>1
       DEF FinishJobLingers, os, KeepsOwner, Shrinks, NamedOwner, LiveJobs,
           Live
<1>28. CASE FinishClean
  <2>1. UNCHANGED <<procs, doomed>> /\ procs[attempt] = {}
    BY <1>28 DEF FinishClean, os, FinishInv
  <2>2. ledger' = MarkClean /\ ledger.attempt = attempt
    BY <1>28 DEF FinishClean, MayMarkClean, RequireAttempt
  <2>. QED
    BY <2>1, <2>2
       DEF WriteAhead, GivesUp, NamedOwner, MarkClean, CleanDocument,
           RequiresRecovery, LiveJobs, Live
<1>29. CASE FinishCleanFails
  <2>1. UNCHANGED <<procs, doomed>> /\ procs[attempt] = {}
    BY <1>29 DEF FinishCleanFails, GoTo, os, FinishInv
  <2>2. CASE UNCHANGED ledger
    BY <2>1, <2>2 DEF Shrinks, NamedOwner, LiveJobs, Live
  <2>3. CASE ledger' = MarkClean /\ ledger.attempt = attempt
    BY <2>1, <2>3
       DEF WriteAhead, GivesUp, NamedOwner, MarkClean, CleanDocument,
           RequiresRecovery, LiveJobs, Live
  <2>. QED
    BY <1>29, <2>2, <2>3 DEF FinishCleanFails, MayMarkClean, RequireAttempt
<1>30. CASE ForceStop
  BY <1>30
     DEF ForceStop, TerminateExactJob, OwnsExactJob, Fault, GoTo, authority,
         object, restart, local, Shrinks, NamedOwner, LiveJobs, Live
<1>31. CASE NothingToStop
  BY <1>31
     DEF NothingToStop, GoTo, authority, os, object, runtime, restart, local,
         Shrinks, NamedOwner, LiveJobs, Live
<1>32. CASE AwaitForced
  BY <1>32
     DEF AwaitForced, authority, os, object, runtime, restart, local, Shrinks,
         NamedOwner, LiveJobs, Live
<1>33. CASE FenceGate
  BY <1>33
     DEF FenceGate, Fault, GoTo, os, object, runtime, restart, local, Shrinks,
         NamedOwner, LiveJobs, Live
<1>34. CASE Exit
  BY <1>34
     DEF Exit, ForgetMemory, CloseAllHandles, authority, Shrinks, NamedOwner,
         LiveJobs, Live
<1>35. CASE Activate
  BY <1>35
     DEF Activate, GoTo, authority, os, object, runtime, restart, local,
         Shrinks, NamedOwner, LiveJobs, Live
<1>36. CASE ResidentDies
  BY <1>36
     DEF ResidentDies, Fault, ForgetMemory, CloseAllHandles, authority,
         Shrinks, NamedOwner, LiveJobs, Live
<1>37. CASE DeadlinePasses
  BY <1>37
     DEF DeadlinePasses, authority, os, thread, object, restart, local,
         Shrinks, NamedOwner, LiveJobs, Live
<1>38. CASE WatchdogElapses
  BY <1>38
     DEF WatchdogElapses, authority, os, thread, object, restart, local,
         Shrinks, NamedOwner, LiveJobs, Live
<1>39. CASE BackoffElapses
  BY <1>39
     DEF BackoffElapses, authority, os, thread, object, runtime, local,
         Shrinks, NamedOwner, LiveJobs, Live
<1>40. CASE ApplyEnabled
  BY <1>40
     DEF ApplyEnabled, Fault, os, thread, object, runtime, restart, local,
         Shrinks, NamedOwner, LiveJobs, Live
<1>41. CASE ApplyDisabled
  BY <1>41
     DEF ApplyDisabled, Fault, os, thread, object, runtime, restart, local,
         Shrinks, NamedOwner, LiveJobs, Live
<1>42. CASE DisableGate
  BY <1>42
     DEF DisableGate, os, thread, object, runtime, restart, local, Shrinks,
         NamedOwner, LiveJobs, Live
<1>43. CASE Recover
  <2>1. /\ UNCHANGED <<procs, doomed>>
        /\ handles = {} /\ ledger' \in {MarkClean, ledger}
    BY <1>43 DEF Recover, os
  <2>2. LiveJobs = {}
    BY <2>1 DEF Contained, LiveJobs
  <2>. QED
    BY <2>1, <2>2
       DEF GivesUp, Shrinks, NamedOwner, MarkClean, CleanDocument,
           RequiresRecovery, LiveJobs, Live
<1>44. CASE Fork
  BY <1>44
     DEF Fork, authority, thread, object, runtime, restart, local, Shrinks,
         NamedOwner, LiveJobs, Live
<1>45. CASE MemberExits
  BY <1>45
     DEF MemberExits, authority, thread, object, runtime, restart, local,
         Shrinks, NamedOwner, LiveJobs, Live
<1>46. CASE \E a \in Attempt : Kill(a)
  BY <1>46
     DEF Kill, authority, thread, object, runtime, restart, local, Shrinks,
         NamedOwner, LiveJobs, Live
<1>47. CASE ReaderError
  BY <1>47
     DEF ReaderError, Fault, authority, os, thread, object, restart, local,
         Shrinks, NamedOwner, LiveJobs, Live
<1>. QED
  BY <1>1, <1>2, <1>3, <1>4, <1>5, <1>6, <1>7, <1>8, <1>9, <1>10, <1>11,
     <1>12, <1>13, <1>14, <1>15, <1>16, <1>17, <1>18, <1>19, <1>20, <1>21,
     <1>22, <1>23, <1>24, <1>25, <1>26, <1>27, <1>28, <1>29, <1>30, <1>31,
     <1>32, <1>33, <1>34, <1>35, <1>36, <1>37, <1>38, <1>39, <1>40, <1>41,
     <1>42, <1>43, <1>44, <1>45, <1>46, <1>47
     DEF Next, Resident, Loop, Spawn, Finish, FailClosed, Clock, Control,
         System

-----------------------------------------------------------------------------
(* The theorems                                                            *)

(* The slot starts with nothing owned and nothing alive.                   *)
LEMMA InitIInv == Init => IInv
<1>. SUFFICES ASSUME Init PROVE IInv
  OBVIOUS
<1>1. desired \in Desired /\ gate \in Gate /\ generation \in Target
  BY SlotAssumption DEF Init, Desired, Gate, Target, Revision
<1>2. ValuesOK
  BY <1>1, SlotAssumption, CleanedDocument
     DEF Init, ValuesOK, Location, Attempt, MarkClean
<1>3. FlagsOK
  BY Zenon DEF Init, FlagsOK
<1>4. SpawnInv /\ FinishInv
  BY DEF Init, SpawnInv, FinishInv, InSpawn, Unborn, active
<1>5. Contained /\ WriteAhead
  BY DEF Init, Contained, WriteAhead, Live
<1>. QED
  BY <1>2, <1>3, <1>4, <1>5 DEF IInv, TypeOK

(* A stuttering step keeps the invariant.                                  *)
LEMMA StutterIInv == IInv /\ UNCHANGED vars => IInv'
<1>. SUFFICES ASSUME IInv, UNCHANGED vars PROVE IInv'
  OBVIOUS
<1>. USE DEF vars, authority, os, thread, object, runtime, restart, local
<1>1. ValuesOK'
  BY DEF IInv, TypeOK, ValuesOK
<1>2. FlagsOK'
  BY Zenon DEF IInv, TypeOK, FlagsOK
<1>3. SpawnInv' /\ FinishInv'
  BY DEF IInv, SpawnInv, FinishInv, Unborn, active, RequiresRecovery
<1>4. Contained' /\ WriteAhead'
  BY DEF IInv, Contained, WriteAhead, Live, RequiresRecovery
<1>. QED
  BY <1>1, <1>2, <1>3, <1>4 DEF IInv, TypeOK

(* The inductive invariant holds in every reachable state of the slot.     *)
THEOREM Invariance == Spec => []IInv
<1>1. IInv /\ [Next]_vars => IInv'
  <2>. SUFFICES ASSUME IInv, Next PROVE IInv'
    BY StutterIInv
  <2>. USE DEF IInv, TypeOK
  <2>1. ValuesOK' /\ FlagsOK'
    BY ValuesStep, FlagsStep
  <2>2. SpawnInv' /\ FinishInv'
    BY PlaceStep
  <2>3. Contained' /\ WriteAhead'
    BY OwnStep
  <2>. QED
    BY <2>1, <2>2, <2>3
<1>. QED
  BY InitIInv, <1>1, PTL DEF Spec

(* Every variable of the slot, of its resident and of the system keeps the *)
(* values its code can give it.                                            *)
THEOREM TypeCorrect == Spec => []TypeOK
BY Invariance, PTL DEF IInv

(* Whatever is alive and not being killed is named by the child ledger, at *)
(* every point a crash may strike (slot.py:132-205, 363-408).              *)
THEOREM WriteAheadHolds == Spec => []WriteAhead
BY Invariance, PTL DEF IInv

(* Whatever is alive is in a Job the resident still holds, so that it dies *)
(* with the resident (slot.py:186-208, 388-396).                           *)
THEOREM ContainedHolds == Spec => []Contained
BY Invariance, PTL DEF IInv

(* A step of such a kind is a step of Ownership, or changes neither the    *)
(* owner nor what is alive.                                                *)
LEMMA KindSimulates ==
  ASSUME WriteAhead, StepKind
  PROVE  Owner!Next \/ UNCHANGED <<NamedOwner, LiveJobs>>
<1>1. CASE Shrinks
  <2>1. LiveJobs \subseteq {NamedOwner}
    BY DEF WriteAhead, LiveJobs, NamedOwner
  <2>2. LiveJobs' = LiveJobs \/ LiveJobs' = {}
    BY <1>1, <2>1 DEF Shrinks
  <2>. QED
    BY <1>1, <2>2 DEF Shrinks, Owner!Next, Owner!Die
<1>2. CASE GivesUp
  BY <1>2 DEF GivesUp, Owner!Next, Owner!Release
<1>3. ASSUME NEW a \in Attempt, Takes(a)
      PROVE  Owner!Next
  BY <1>3 DEF Takes, Owner!Next, Owner!Acquire
<1>4. ASSUME NEW a \in Attempt, Runs(a)
      PROVE  Owner!Next
  BY <1>4 DEF Runs, Owner!Next, Owner!Start
<1>. QED
  BY <1>1, <1>2, <1>3, <1>4 DEF StepKind

(* The slot implements Ownership: a Job comes to life only under the       *)
(* attempt the ledger names, and the ledger is given up only when nothing  *)
(* of that attempt lives (slot.py:132-182, 363-408).                       *)
THEOREM Refinement == Spec => OwnsWhatLives
<1>1. Init => Owner!Init
  BY DEF Init, Owner!Init, NamedOwner, LiveJobs, Live, RequiresRecovery,
         CleanDocument
<1>2. IInv /\ [Next]_vars => [Owner!Next]_<<NamedOwner, LiveJobs>>
  <2>1. CASE Next
    BY <2>1, KindStep, KindSimulates DEF IInv, TypeOK
  <2>2. CASE UNCHANGED vars
    BY <2>2 DEF vars, os, NamedOwner, LiveJobs, Live, RequiresRecovery
  <2>. QED
    BY <2>1, <2>2
<1>. QED
  BY <1>1, <1>2, Invariance, PTL DEF Spec, OwnsWhatLives, Owner!Spec

-----------------------------------------------------------------------------
(* The handles                                                             *)

(* The handle the slot refers to, and must close one day.                  *)
Held == IF proc = "open" THEN {job} ELSE {}

(* Which handles the resident has at every place it comes by on its way    *)
(* back to the loop.  Once it fails closed it does not come back.          *)
HandleInv ==
  /\ pc \notin {"finish", "contain", "clean", "fail", "await", "fence", "exit"} => ~failing
  /\ pc = "await" => failing
  /\ pc \in {"down", "top", "tick", "poll", "drain", "reconcile", "launch", "readers", "unwind"}
       => handles = Held
  /\ pc \in {"arm", "start", "confirm", "abort"} => handles = {used}
  /\ pc \in {"down", "launch", "arm", "start", "confirm"} => proc = "none"
  /\ pc = "readers" => proc = "open" /\ job = used
  /\ pc \in {"finish", "contain"} /\ ~failing => proc = "open" /\ handles = {job}
  /\ pc = "clean" /\ ~failing => proc = "none" /\ handles = {}

LEMMA HandleStep ==
  ASSUME HandleInv, proc \in {"none", "open", "closed"}, pc = "poll" => active, Next
  PROVE  HandleInv'
<1>. USE DEF HandleInv, Held, active, GoTo, authority, os, thread, object, runtime, restart, local
<1>1. CASE Snapshot
  BY <1>1
     DEF Snapshot
<1>2. CASE BeginShutdown
  BY <1>2
     DEF BeginShutdown
<1>3. CASE SnapshotFails \/ TickIdle \/ Tick
  BY <1>3
     DEF SnapshotFails, TickIdle, Continue, Tick
<1>4. CASE Poll
  BY <1>4
     DEF Poll, Continue
<1>5. CASE Drain
  BY <1>5
     DEF Drain
<1>6. CASE ReconcileActive \/ ReconcileUndesired
  BY <1>6
     DEF ReconcileActive, ReconcileUndesired
<1>7. CASE ReconcileTarget
  BY <1>7
     DEF ReconcileTarget
<1>8. CASE LaunchSkipped \/ CreateJob \/ CreateJobFails
  BY <1>8
     DEF LaunchSkipped, CreateJob, CreateJobFails
<1>9. CASE ArmLedger \/ ArmLedgerFails
  BY <1>9
     DEF ArmLedger, CloseJob, ArmLedgerFails
<1>10. CASE StartProcess \/ StartProcessFails
  BY <1>10
     DEF StartProcess, StartProcessFails
<1>11. CASE ConfirmSpawn \/ ConfirmSpawnFails \/ StartReaders \/ StartReadersFails
  BY <1>11
     DEF ConfirmSpawn, TakeOver, ConfirmSpawnFails, StartReaders, StartReadersFails
<1>12. CASE Unwind
  BY <1>12
     DEF Unwind, SpawnFailed
<1>13. CASE FinishTerminate \/ FinishUncertain
  BY <1>13
     DEF FinishTerminate, FinishUncertain
<1>14. CASE FinishQuiescent
  BY <1>14
     DEF FinishQuiescent, CloseJob
<1>15. CASE FinishJobLingers \/ FinishClean \/ FinishCleanFails
  BY <1>15
     DEF FinishJobLingers, FinishClean, ClearRuntime, Continue, FinishCleanFails
<1>16. CASE ForceStop \/ NothingToStop \/ AwaitForced \/ FenceGate \/ Exit
  BY <1>16
     DEF ForceStop, NothingToStop, AwaitForced, FenceGate, Exit, ForgetMemory,
         CloseAllHandles
<1>17. CASE Activate \/ ResidentDies
  BY <1>17
     DEF Activate, ResidentDies, ForgetMemory, CloseAllHandles
<1>18. CASE \E q \in BOOLEAN : Abort(q)
  BY <1>18 DEF Abort, CloseJob
<1>19. CASE Clock \/ Control \/ System
  <2>1. UNCHANGED <<handles, pc, failing, proc, job, used>>
    BY <1>19
       DEF Clock, DeadlinePasses, WatchdogElapses, BackoffElapses, Control, ApplyEnabled,
           ApplyDisabled, DisableGate, Recover, System, Fork, MemberExits, Kill, ReaderError
  <2>. QED
    BY <2>1
<1>. QED
  BY <1>1, <1>2, <1>3, <1>4, <1>5, <1>6, <1>7, <1>8, <1>9,
     <1>10, <1>11, <1>12, <1>13, <1>14, <1>15, <1>16, <1>17, <1>18, <1>19
     DEF Next, Resident, Loop, Spawn, Finish, FailClosed

(* Between two iterations of the loop the resident holds the Job of the    *)
(* running process and no other (slot.py:139, 192, 206-208, 395).          *)
THEOREM NoHandleLeaks == Spec => []NoHandleLeak
<1>1. Init => HandleInv
  BY DEF Init, HandleInv, Held
<1>2. IInv /\ HandleInv /\ [Next]_vars => HandleInv'
  <2>1. CASE Next
    BY <2>1, HandleStep DEF IInv, FinishInv, TypeOK, ValuesOK
  <2>2. CASE UNCHANGED vars
    BY <2>2 DEF vars, os, thread, runtime, local, HandleInv, Held
  <2>. QED
    BY <2>1, <2>2
<1>3. HandleInv => NoHandleLeak
  BY DEF HandleInv, Held, NoHandleLeak
<1>. QED
  BY <1>1, <1>2, <1>3, Invariance, PTL DEF Spec

-----------------------------------------------------------------------------
(* What is cleaned                                                         *)

(* A spawn that calls its attempt quiescent has seen its Job empty, and    *)
(* nothing can be born into a Job whose handle is closed.                  *)
QuietInv == pc = "unwind" /\ quiet => procs[used] = {}

LEMMA QuietStep ==
  ASSUME QuietInv, ValuesOK, SpawnInv, Next
  PROVE  QuietInv'
<1>. USE DEF QuietInv, GoTo, local
<1>1. CASE Loop \/ Finish \/ FailClosed \/ Activate \/ ResidentDies
  <2>1. pc' # "unwind"
    <3>1. CASE Loop
      BY <3>1
         DEF Loop, Snapshot, BeginShutdown, SnapshotFails, TickIdle, Tick, Poll, Drain,
             ReconcileActive, ReconcileUndesired, ReconcileTarget, Continue
    <3>2. CASE Finish
      BY <3>2
         DEF Finish, FinishTerminate, FinishQuiescent, FinishUncertain, FinishJobLingers,
             FinishClean, FinishCleanFails, Continue
    <3>3. CASE FailClosed \/ Activate \/ ResidentDies
      BY <3>3
         DEF FailClosed, ForceStop, NothingToStop, AwaitForced, FenceGate, Exit, Activate,
             ResidentDies, ForgetMemory
    <3>. QED
      BY <1>1, <3>1, <3>2, <3>3
  <2>. QED
    BY <2>1
<1>2. CASE \E q \in BOOLEAN : Abort(q)
  <2>. PICK q \in BOOLEAN : Abort(q)
    BY <1>2
  <2>. QED
    BY DEF Abort, Quiescent
<1>3. CASE Spawn /\ ~\E q \in BOOLEAN : Abort(q)
  <2>1. pc' # "unwind"
    BY <1>3
       DEF Spawn, LaunchSkipped, CreateJob, CreateJobFails, ArmLedger, ArmLedgerFails,
           StartProcess, StartProcessFails, ConfirmSpawn, ConfirmSpawnFails, StartReaders,
           StartReadersFails, Unwind, SpawnFailed
  <2>. QED
    BY <2>1
<1>4. CASE Clock \/ Control \/ System
  <2>1. UNCHANGED <<pc, quiet, used>>
    BY <1>4
       DEF Clock, DeadlinePasses, WatchdogElapses, BackoffElapses, Control, ApplyEnabled,
           ApplyDisabled, DisableGate, Recover, System, Fork, MemberExits, Kill, ReaderError,
           thread
  <2>2. CASE Clock \/ Control \/ ReaderError
    <3>1. UNCHANGED procs
      BY <2>2
         DEF Clock, DeadlinePasses, WatchdogElapses, BackoffElapses, Control, ApplyEnabled,
             ApplyDisabled, DisableGate, Recover, ReaderError, os
    <3>. QED
      BY <2>1, <3>1
  <2>3. CASE Fork \/ MemberExits \/ \E a \in Attempt : Kill(a)
    <3>1. ASSUME procs[used] = {}, used \in Attempt
          PROVE  procs'[used] = {}
      BY <2>3, <3>1 DEF Fork, MemberExits, Kill, ValuesOK
    <3>2. pc = "unwind" => used \in Attempt
      BY DEF SpawnInv, InSpawn
    <3>. QED
      BY <2>1, <3>1, <3>2
  <2>. QED
    BY <1>4, <2>2, <2>3 DEF System
<1>. QED
  BY <1>1, <1>2, <1>3, <1>4 DEF Next, Resident

(* The steps that write the ledger, and what they make of it.              *)
LEMMA LedgerStep ==
  ASSUME ValuesOK, Next
  PROVE  \/ RequiresRecovery(ledger')
         \/ UNCHANGED ledger
         \/ Unwind \/ FinishClean \/ FinishCleanFails \/ Recover
<1>. USE DEF RequiresRecovery
<1>1. ledger \in [state : LifecycleState, attempt : Attempt \cup {NoAttempt},
                  revision : Revision]
  BY DEF ValuesOK, Ledger
<1>2. ASSUME RequestStop
      PROVE  UNCHANGED ledger \/ ledger'.state = "stopping"
  BY <1>1, <1>2 DEF RequestStop, MarkStopping
<1>3. MarkedUncertain = ledger \/ MarkedUncertain.state = "uncertain"
  BY <1>1 DEF MarkedUncertain, MarkUncertain
<1>4. CASE Loop
  BY <1>2, <1>4
     DEF Loop, Snapshot, BeginShutdown, SnapshotFails, TickIdle, Tick, Poll, Drain,
         ReconcileActive, ReconcileUndesired, ReconcileTarget
<1>5. CASE ConfirmSpawn \/ ConfirmSpawnFails
  BY <1>1, <1>5 DEF ConfirmSpawn, ConfirmSpawnFails, Confirmed, MarkActive, MarkStopping
<1>6. CASE ArmLedger \/ ArmLedgerFails
  BY <1>6 DEF ArmLedger, ArmLedgerFails, Arm
<1>10. CASE Spawn
  BY <1>5, <1>6, <1>10
     DEF Spawn, LaunchSkipped, CreateJob, CreateJobFails, StartProcess, StartProcessFails,
         StartReaders, StartReadersFails, Abort
<1>7. CASE Finish
  BY <1>3, <1>7
     DEF Finish, FinishTerminate, FinishQuiescent, FinishUncertain, FinishJobLingers,
         FinishQuiescent
<1>8. CASE FailClosed \/ Activate \/ ResidentDies
  BY <1>8
     DEF FailClosed, ForceStop, NothingToStop, AwaitForced, FenceGate, Exit, Activate,
         ResidentDies
<1>9. CASE Clock \/ Control \/ System
  BY <1>9
     DEF Clock, DeadlinePasses, WatchdogElapses, BackoffElapses, Control, ApplyEnabled,
         ApplyDisabled, DisableGate, System, Fork, MemberExits, Kill, ReaderError
<1>. QED
  BY <1>4, <1>7, <1>8, <1>9, <1>10 DEF Next, Resident

(* While the resident lives a ledger becomes clean only when the Job of    *)
(* the attempt it names is empty (slot.py:186-205, 363-408).               *)
THEOREM CleansWhatIsEmpty == Spec => CleanedOnlyWhenEmpty
<1>. DEFINE Cleaned == pc # "down" /\ RequiresRecovery(ledger) /\ ~RequiresRecovery(ledger')
                         => procs[ledger.attempt] = {}
<1>1. ASSUME IInv, QuietInv, Next
      PROVE  Cleaned
  <2>1. CASE FinishClean \/ FinishCleanFails
    BY <1>1, <2>1
       DEF FinishClean, FinishCleanFails, GoTo, MayMarkClean, RequireAttempt, IInv, FinishInv
  <2>2. CASE Unwind
    BY <1>1, <2>2
       DEF Unwind, QuietInv, MarkUncertain, RequiresRecovery, IInv, TypeOK, ValuesOK, Ledger
  <2>3. CASE Recover
    BY <2>3 DEF Recover
  <2>. QED
    BY <1>1, <2>1, <2>2, <2>3, LedgerStep DEF IInv, TypeOK, RequiresRecovery
<1>2. UNCHANGED vars => Cleaned
  BY DEF vars, RequiresRecovery
<1>3. Init => QuietInv
  BY DEF Init, QuietInv
<1>4. IInv /\ QuietInv /\ [Next]_vars => QuietInv'
  <2>1. CASE Next
    BY <2>1, QuietStep DEF IInv, TypeOK
  <2>2. CASE UNCHANGED vars
    BY <2>2 DEF vars, os, thread, local, QuietInv
  <2>. QED
    BY <2>1, <2>2
<1>. QED
  BY <1>1, <1>2, <1>3, <1>4, Invariance, PTL DEF Spec, CleanedOnlyWhenEmpty

-----------------------------------------------------------------------------
(* The stops                                                               *)

(* A resident that shuts down never again reaches the place where a slot   *)
(* is launched.                                                            *)
NoLaunchInShutdown == shutting => pc \notin {"reconcile", "launch"} \cup InSpawn

StopInv == NoLaunchInShutdown /\ StopsAreKept

(* What the slot and its ledger say of a stop agree.                       *)
StopsAgree ==
  active =>
    /\ ledger.state = "stopping" /\ ledger.attempt = attempt => stopping
    /\ stopping /\ ledger.state = "child_active" => err

(* request_stop keeps them in agreement, and leaves no active slot unasked. *)
LEMMA RequestStopKeeps ==
  ASSUME ValuesOK, StopsAgree, RequestStop, UNCHANGED <<proc, attempt>>
  PROVE  StopsAgree' /\ (active' => stopping')
<1>1. ledger \in [state : LifecycleState, attempt : Attempt \cup {NoAttempt},
                  revision : Revision]
  BY DEF ValuesOK, Ledger
<1>2. MarkStopping(ledger).state = "stopping"
  BY <1>1 DEF MarkStopping
<1>3. CASE ~active \/ stopping
  BY <1>3 DEF RequestStop, StopsAgree, active
<1>4. CASE active /\ ~stopping
  <2>1. stopping' = TRUE
    BY <1>4 DEF RequestStop
  <2>2. \/ ledger' = ledger /\ ledger.state \in {"stopping", "clean"}
        \/ ledger' = MarkStopping(ledger)
        \/ err' = TRUE
    BY <1>4 DEF RequestStop
  <2>. QED
    BY <1>2, <2>1, <2>2 DEF StopsAgree
<1>. QED
  BY <1>3, <1>4

(* Every step keeps the agreement and, where the loop of a shutdown passes, *)
(* finds the child asked.                                                  *)
LEMMA StopStep ==
  ASSUME StopInv, ValuesOK, FinishInv, HandleInv, Next
  PROVE  StopInv'
<1>. USE DEF StopInv, NoLaunchInShutdown, InSpawn, StopsAgree, StopsAreKept, GoTo,
         authority, os, thread, object, runtime, restart, local
<1>1. CASE Snapshot \/ SnapshotFails \/ TickIdle \/ Poll
  BY <1>1
     DEF Snapshot, SnapshotFails, TickIdle, Poll, Continue, active
<1>2. CASE BeginShutdown
  BY <1>2, RequestStopKeeps DEF BeginShutdown, active
<1>3. CASE Tick
  BY <1>3 DEF Tick, TerminateExactJob, active
<1>4. CASE Drain
  BY <1>4, RequestStopKeeps DEF Drain, active
<1>5. CASE ReconcileActive
  BY <1>5, RequestStopKeeps DEF ReconcileActive, active
<1>6. CASE ReconcileUndesired
  BY <1>6 DEF ReconcileUndesired, active
<1>7. CASE ReconcileTarget
  BY <1>7 DEF ReconcileTarget, active
<1>8. CASE LaunchSkipped \/ CreateJob \/ CreateJobFails
  BY <1>8 DEF LaunchSkipped, CreateJob, CreateJobFails, HandleInv, active
<1>9. CASE ArmLedger \/ ArmLedgerFails
  BY <1>9 DEF ArmLedger, ArmLedgerFails, HandleInv, active
<1>10. CASE StartProcess \/ StartProcessFails
  BY <1>10 DEF StartProcess, StartProcessFails, HandleInv, active
<1>11. CASE ConfirmSpawn
  <2>1. Confirmed(TRUE).state = "child_active" /\ Confirmed(FALSE).state = "stopping"
    BY DEF Confirmed, MarkActive, MarkStopping, ValuesOK, Ledger
  <2>2. CASE IsCurrent(generation, seen.revision)
    <3>1. stopping' = FALSE /\ ledger' = MarkActive(ledger, "child_active")
      BY <1>11, <2>2 DEF ConfirmSpawn, TakeOver, Confirmed
    <3>. QED
      BY <1>11, <2>1, <3>1 DEF ConfirmSpawn, Confirmed
  <2>3. CASE ~IsCurrent(generation, seen.revision)
    <3>1. stopping' = TRUE /\ ledger' = MarkStopping(ledger)
      BY <1>11, <2>3 DEF ConfirmSpawn, TakeOver, Confirmed
    <3>. QED
      BY <1>11, <2>1, <3>1 DEF ConfirmSpawn, Confirmed
  <2>. QED
    BY <2>2, <2>3
<1>12. CASE ConfirmSpawnFails
  BY <1>12 DEF ConfirmSpawnFails, HandleInv, active
<1>13. CASE StartReaders \/ StartReadersFails
  BY <1>13 DEF StartReaders, StartReadersFails, active
<1>14. CASE \E q \in BOOLEAN : Abort(q)
  BY <1>14 DEF Abort, active
<1>15. CASE Unwind
  <2>1. \/ ledger' = ledger \/ ledger'.state \in {"clean", "uncertain"}
    BY <1>15 DEF Unwind, MarkClean, CleanDocument, MarkUncertain, ValuesOK, Ledger
  <2>. QED
    BY <1>15, <2>1 DEF Unwind, SpawnFailed, active
<1>16. CASE FinishTerminate
  BY <1>16 DEF FinishTerminate, TerminateExactJob, active
<1>17. CASE FinishQuiescent \/ FinishUncertain
  BY <1>17 DEF FinishQuiescent, FinishUncertain, active
<1>18. CASE FinishJobLingers \/ FinishClean \/ FinishCleanFails
  <2>1. ~active
    BY <1>18 DEF FinishJobLingers, FinishClean, FinishCleanFails, FinishInv
  <2>. QED
    BY <1>18, <2>1
       DEF FinishJobLingers, FinishClean, FinishCleanFails, ClearRuntime, Continue, active
<1>19. CASE ForceStop
  BY <1>19 DEF ForceStop, TerminateExactJob, active
<1>20. CASE NothingToStop \/ AwaitForced \/ FenceGate
  BY <1>20 DEF NothingToStop, AwaitForced, FenceGate, active
<1>21. CASE Exit \/ ResidentDies
  BY <1>21 DEF Exit, ResidentDies, ForgetMemory, active
<1>22. CASE Activate
  BY <1>22 DEF Activate, HandleInv, active
<1>23. CASE Recover
  BY <1>23 DEF Recover, MarkClean, CleanDocument, active
<1>24. CASE ReaderError \/ Clock
  BY <1>24
     DEF ReaderError, Clock, DeadlinePasses, WatchdogElapses, BackoffElapses, active
<1>25. CASE (Control /\ ~Recover) \/ (System /\ ~ReaderError)
  BY <1>25
     DEF Control, ApplyEnabled, ApplyDisabled, DisableGate, System, Fork, MemberExits,
         Kill, active
<1>. QED
  BY <1>1, <1>2, <1>3, <1>4, <1>5, <1>6, <1>7, <1>8, <1>9, <1>10, <1>11, <1>12, <1>13,
     <1>14, <1>15, <1>16, <1>17, <1>18, <1>19, <1>20, <1>21, <1>22, <1>23, <1>24, <1>25
     DEF Next, Resident, Loop, Spawn, Finish, FailClosed, Control, System

(* No stop is lost: a child that was overtaken while it was created has    *)
(* its deadline, the ledger knows of every stop that could be written, and *)
(* a shutdown has asked every child (slot.py:160-183, 210-224,             *)
(* resident.py:107-111, 289-297).                                          *)
THEOREM KeepsItsStops == Spec => []StopsAreKept
<1>1. Init => HandleInv /\ StopInv
  BY DEF Init, HandleInv, Held, StopInv, NoLaunchInShutdown, StopsAreKept, active
<1>2. IInv /\ HandleInv /\ StopInv /\ [Next]_vars => HandleInv' /\ StopInv'
  <2>1. CASE Next
    <3>1. IInv /\ HandleInv => HandleInv'
      BY <2>1, HandleStep DEF IInv, FinishInv, TypeOK, ValuesOK
    <3>2. IInv /\ HandleInv /\ StopInv => StopInv'
      BY <2>1, StopStep DEF IInv, TypeOK
    <3>. QED
      BY <3>1, <3>2
  <2>2. CASE UNCHANGED vars
    BY <2>2
       DEF vars, os, thread, runtime, local, HandleInv, Held, StopInv, NoLaunchInShutdown,
           StopsAreKept, active
  <2>. QED
    BY <2>1, <2>2
<1>. QED
  BY <1>1, <1>2, Invariance, PTL DEF Spec, StopInv
=============================================================================
