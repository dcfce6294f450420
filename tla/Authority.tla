------------------------------ MODULE Authority ------------------------------
(***************************************************************************)
(* The durable authority of the supervisor, file by file: runtime_files.py *)
(* (RuntimeStore), recovery_authority.py (RecoveryAuthority) and the way   *)
(* recovery.py (RuntimeRecovery) uses them.                                *)
(*                                                                         *)
(* Slot.tla and Supervisor.tla take a document for one atomic cell.  Here  *)
(* every document is two files, its primary and its last-known-good        *)
(* backup, replaced one after the other; a writer may die in between, a    *)
(* file may be damaged, and recovery has to find out from what is left     *)
(* what may still be running, repair or salvage the rest, and may itself   *)
(* die at any file it writes or removes.                                   *)
(*                                                                         *)
(* A ledger's attempts are numbers.  The owner document is written before  *)
(* any other and never again: it is left out.  So are status, events,      *)
(* ready and shutdown, which name nothing.                                 *)
(***************************************************************************)
EXTENDS Naturals, Sequences

CONSTANTS
  MaxAttempts,  \* bound: attempts the ledgers are armed with
  MaxRevision,  \* bound: revisions of the desired state
  MaxDamage,    \* bound: files damaged from outside
  MaxTrouble,   \* bound: attempts, damaged files and faults together
  MaxFaults,    \* bound: writes that fail, processes that die writing
  LateInitialization  \* whether a command may be overtaken while it creates
                      \* a missing document (that part holds no lock)

ASSUME BoundsAssumption ==
  /\ MaxAttempts \in Nat /\ MaxRevision \in Nat /\ MaxDamage \in Nat
  /\ MaxTrouble \in Nat /\ MaxFaults \in Nat
  /\ LateInitialization \in BOOLEAN

VARIABLES
  file,     \* what is in each file
  stray,    \* a JSON file lies where no instance ledger may lie
  job,      \* the attempt whose Job Object exists, per ledger, or 0
  alive,    \* the ledgers with a process in that Job
  step,     \* how far the attempt of a ledger has come in its launcher
  resident, \* a resident holds the singleton mutex
  holder,   \* who holds the transition mutex
  writes,   \* the file replacements its holder still has to make
  fresh,    \* those of a command that creates a missing document, unlocked
  phase,    \* of the recovery
  found,    \* the lifecycle ownership recovery recorded first
  tampered, \* a file was damaged since recovery began
  tries,    \* attempts used
  damage,   \* files damaged
  faults    \* faults used

disk     == <<file, stray>>
system   == <<job, alive, step, resident>>
recovery == <<phase, found, tampered>>
budget   == <<tries, damage, faults>>
vars     == <<disk, system, holder, writes, fresh, recovery, budget>>

-----------------------------------------------------------------------------
(* Documents and copies.                                                   *)

Ledger   == {"resident", "child"}
Backed   == {"manifest", "gate", "desired"} \union Ledger
Doc      == Backed \union {"claim"}
Required == {"manifest", "gate", "resident"}
Copy     == ({"primary"} \X Doc) \union ({"backup"} \X Backed)

(* read_json and _document_state: nothing, something that does not parse   *)
(* or validate, a document of another installation, or a valid one.        *)
Unwritten(state) == [is |-> state, mode |-> "none", n |-> 0]
Missing  == Unwritten("missing")
Damaged  == {Unwritten("corrupt"), Unwritten("foreign")}
Document(mode, n) == [is |-> "valid", mode |-> mode, n |-> n]

Manifest == Document("identity", 0)
Disabled(n) == Document("disabled", n)
Clean    == Document("clean", 0)
ActiveModes == {"spawn_armed", "active", "uncertain"}

Primary(d) == file[<<"primary", d>>]
Backup(d)  == IF d \in Backed THEN file[<<"backup", d>>] ELSE Missing
Valid(doc) == doc.is = "valid"
Unresolved(doc) == doc.mode \in ActiveModes

(* write_json: the primary, then the backup of a backed document.          *)
Put(side, d, doc) == [at |-> <<side, d>>, doc |-> doc]
Write(d, doc) ==
  IF d \in Backed THEN <<Put("primary", d, doc), Put("backup", d, doc)>>
                  ELSE <<Put("primary", d, doc)>>

-----------------------------------------------------------------------------
(* What recovery reads: lifecycle_ownership_locked and _plan.              *)

(* A primary that validates speaks for its document, else the backup.      *)
Selected(d) == IF Valid(Primary(d)) THEN Primary(d) ELSE Backup(d)

IsForeign(d) == "foreign" \in {Primary(d).is, Backup(d).is}

(* Mutant: an unreadable ledger is passed over like a missing one.         *)
OwnershipForeignOnly == \E l \in Ledger : IsForeign(l)

(* A ledger that cannot be read is never taken for one that names nothing. *)
Unreadable(l) ==
  \/ IsForeign(l)
  \/ ~Valid(Selected(l)) /\ "corrupt" \in {Primary(l).is, Backup(l).is}

OwnershipUnreadable == \E l \in Ledger : Unreadable(l)

Ownership == [l \in Ledger |-> Selected(l)]

NoOwnership == [l \in Ledger |-> Missing]

(* Mutant: an armed ledger has not started anything yet.                   *)
UnresolvedStarted(own) ==
  {l \in Ledger : Valid(own[l]) /\ own[l].mode \in {"active", "uncertain"}}

UnresolvedIn(own) == {l \in Ledger : Valid(own[l]) /\ Unresolved(own[l])}

(* assert_recovery_gate_locked, and the plan of prepare_locked.            *)
PlanRefused ==
  \/ \E d \in Doc : IsForeign(d)
  \/ Valid(Selected("gate")) /\ Selected("gate").mode = "enabled"

ToRestore == {d \in Doc : ~Valid(Primary(d)) /\ Valid(Backup(d))}
ToRefresh == {d \in Backed : Valid(Primary(d)) /\ Backup(d) # Primary(d)}

Lost(d) ==
  /\ ~Valid(Primary(d)) /\ ~Valid(Backup(d))
  /\ d \in Required \/ Primary(d) # Missing \/ Backup(d) # Missing

(* Mutant: only a document that must exist is worth a salvage.             *)
MustSalvageRequired == stray \/ \E d \in Required : Lost(d)

MustSalvage == stray \/ \E d \in Doc : Lost(d)

(* The order in which _specs lists the documents.                          *)
InOrder(entry) ==
  LET of(d) == IF d \in DOMAIN entry THEN entry[d] ELSE <<>>
  IN  of("manifest") \o of("gate") \o of("desired")
        \o of("resident") \o of("child") \o of("claim")

Repairs ==
  InOrder([d \in ToRestore |-> Write(d, Backup(d))])
    \o InOrder([d \in ToRefresh |-> <<Put("backup", d, Primary(d))>>])

(* validate_current_locked *)
Normal ==
  /\ ~stray
  /\ \A d \in Doc :
       \/ Valid(Primary(d))
       \/ Primary(d) = Missing
            /\ d \notin Required /\ (d = "child" => Backup(d) = Missing)

-----------------------------------------------------------------------------
(* The files are replaced one at a time.                                   *)

Init ==
  /\ file = [c \in Copy |-> Missing]
  /\ stray = FALSE
  /\ job = [l \in Ledger |-> 0]
  /\ alive = {}
  /\ step = [l \in Ledger |-> "idle"]
  /\ resident = FALSE
  /\ holder = "nobody"
  /\ writes = <<>> /\ fresh = <<>>
  /\ phase = "idle"
  /\ found = NoOwnership /\ tampered = FALSE
  /\ tries = 0 /\ damage = 0 /\ faults = 0

(* A recovery that is over remembers nothing.                              *)
Forget == found' = NoOwnership /\ tampered' = FALSE

(* One more attempt, damaged file or fault, within the bound of all.       *)
Room == tries + damage + faults < MaxTrouble

(* Nobody overtakes a command that is creating a document, in the          *)
(* instances that rule it out.                                             *)
Settled == LateInitialization \/ fresh = <<>>

Locks(who) == holder = "nobody" /\ Settled /\ holder' = who

(* The lock holder's next replacement; the last one ends its section,      *)
(* except that recovery goes on in its own actions.                        *)
WriteNext ==
  /\ writes # <<>>
  /\ file' = [file EXCEPT ![Head(writes).at] = Head(writes).doc]
  /\ writes' = Tail(writes)
  /\ holder' = IF Len(writes) = 1 /\ holder # "recovery" THEN "nobody" ELSE holder
  /\ UNCHANGED <<stray, system, fresh, recovery, budget>>

(* A replacement fails before or after the file changed, or the writer     *)
(* dies: what follows is never written.  A launcher gives its attempt up.  *)
WriteFails ==
  /\ writes # <<>> /\ faults < MaxFaults /\ Room
  /\ file' \in {file, [file EXCEPT ![Head(writes).at] = Head(writes).doc]}
  /\ writes' = <<>> /\ holder' = "nobody"
  /\ step' = IF holder \in Ledger THEN [step EXCEPT ![holder] = "idle"] ELSE step
  /\ IF holder = "recovery" THEN phase' = "idle" /\ Forget
                            ELSE UNCHANGED <<phase, found, tampered>>
  /\ faults' = faults + 1
  /\ UNCHANGED <<stray, job, alive, resident, fresh, tries, damage>>

(* Damage from outside: a truncated file, or one of another installation.  *)
Damage(c) ==
  /\ damage < MaxDamage /\ Room
  /\ Valid(file[c])
  /\ \E doc \in Damaged :
       /\ doc.is = "foreign" => c[2] # "claim"
       /\ file' = [file EXCEPT ![c] = doc]
  /\ damage' = damage + 1 /\ tampered' = (phase # "idle")
  /\ UNCHANGED <<stray, system, holder, writes, fresh, phase, found,
                 tries, faults>>

StrayFile ==
  /\ damage < MaxDamage /\ Room
  /\ ~stray /\ stray' = TRUE
  /\ damage' = damage + 1 /\ tampered' = (phase # "idle")
  /\ UNCHANGED <<file, system, holder, writes, fresh, phase, found,
                 tries, faults>>

-----------------------------------------------------------------------------
(* Documents that do not exist yet.  Every command begins with             *)
(* RuntimeStore.initialize and LifecycleLedger.initialize_clean, and a     *)
(* slot with the latter alone; none of it is under the transition mutex.   *)

Blank(d) == CASE d = "manifest" -> Manifest
              [] d = "gate"     -> Disabled(0)
              [] d \in Ledger   -> Clean

Initialize(d) ==
  /\ fresh = <<>>
  /\ Primary(d) = Missing
  /\ d \in {"gate", "resident"} => Valid(Primary("manifest"))
  /\ d = "resident" => Valid(Primary("gate"))
  /\ d = "child" => resident
  /\ ~LateInitialization => holder = "nobody"
  /\ fresh' = Write(d, Blank(d))
  /\ UNCHANGED <<disk, system, holder, writes, recovery, budget>>

(* create_json_exclusive does nothing when another created the document;   *)
(* the gate is written with write_json.                                    *)
InitializeNext ==
  LET put == Head(fresh)
      taken == /\ put.at[1] = "primary" /\ put.at[2] # "gate"
               /\ file[put.at] # Missing
  IN  /\ fresh # <<>>
      /\ IF taken
           THEN fresh' = <<>> /\ UNCHANGED file
           ELSE fresh' = Tail(fresh) /\ file' = [file EXCEPT ![put.at] = put.doc]
      /\ UNCHANGED <<stray, system, holder, writes, recovery, budget>>

InitializeFails ==
  /\ fresh # <<>> /\ faults < MaxFaults /\ Room
  /\ fresh' = <<>>
  /\ faults' = faults + 1
  /\ UNCHANGED <<disk, system, holder, writes, recovery, tries, damage>>

-----------------------------------------------------------------------------
(* SupervisorControl: the desired state and the gate.                      *)

Readable(d) == Primary(d) = Missing \/ Valid(Primary(d))

(* apply_desired with enabled desired state.  While recovery is required   *)
(* only the same state again or a reduction is published, and the gate     *)
(* stays.                                                                  *)
ApplyEnabled(n) ==
  LET desired == Primary("desired")
      same    == desired = Document("enabled", n)
  IN  /\ Locks("control")
      /\ Valid(Primary("manifest")) /\ Valid(Primary("gate")) /\ Readable("desired")
      /\ n > desired.n \/ same
      /\ IF Primary("gate").mode = "recovery_required"
           THEN /\ desired.mode = "enabled"
                /\ writes' = Write("desired", Document("enabled", n))
           ELSE writes' = Write("desired", Document("enabled", n))
                            \o Write("gate", Document("enabled", n))
      /\ UNCHANGED <<disk, system, fresh, phase, found, tampered, budget>>

ApplyDisabled(n) ==
  LET desired == Primary("desired")
  IN  /\ Locks("control")
      /\ Valid(Primary("manifest")) /\ Valid(Primary("gate")) /\ Readable("desired")
      /\ n > desired.n \/ desired = Disabled(n)
      /\ writes' = Write("gate", Disabled(n)) \o Write("desired", Disabled(n))
      /\ UNCHANGED <<disk, system, fresh, phase, found, tampered, budget>>

(* disable_gate: the revision comes from the backup if need be.            *)
DisableGate ==
  /\ Locks("control")
  /\ Valid(Selected("gate"))
  /\ writes' = Write("gate", Disabled(Selected("gate").n))
  /\ UNCHANGED <<disk, system, fresh, recovery, budget>>

-----------------------------------------------------------------------------
(* A ledger and its Job: the bootstrap of the resident, or a slot's spawn. *)
(* A slot exists only in a resident.                                       *)

MayLaunch(l) ==
  /\ step[l] = "idle" /\ job[l] = 0
  /\ l = "child" => resident
  /\ LET gate == Primary("gate") IN
       /\ Valid(gate) /\ gate.mode = "enabled"
       /\ Valid(Primary("desired")) /\ Primary("desired") = gate
  /\ Primary(l) = Clean

(* The Job is created, then the ledger is armed with its name.             *)
Arm(l) ==
  /\ tries < MaxAttempts /\ Room
  /\ Locks(l)
  /\ MayLaunch(l)
  /\ tries' = tries + 1
  /\ job' = [job EXCEPT ![l] = tries']
  /\ writes' = Write(l, Document("spawn_armed", tries'))
  /\ step' = [step EXCEPT ![l] = "armed"]
  /\ UNCHANGED <<disk, alive, resident, fresh, recovery, damage, faults>>

(* The process starts in the Job, after the section that armed the ledger. *)
Start(l) ==
  /\ step[l] = "armed" /\ holder # l
  /\ job[l] # 0
  /\ alive' = alive \union {l}
  /\ step' = [step EXCEPT ![l] = "started"]
  /\ UNCHANGED <<disk, job, resident, holder, writes, fresh, recovery, budget>>

OwnAttempt(l) == Primary(l).n = job[l] /\ Unresolved(Primary(l))

(* mark_active, by the slot or by the resident itself.                     *)
Confirm(l) ==
  /\ step[l] = "started"
  /\ Locks(l)
  /\ Valid(Primary(l)) /\ OwnAttempt(l)
  /\ Primary(l).mode \in {"spawn_armed", "uncertain"}
  /\ writes' = Write(l, Document("active", job[l]))
  /\ step' = [step EXCEPT ![l] = "idle"]
  /\ UNCHANGED <<disk, job, alive, resident, fresh, recovery, budget>>

(* The launcher reads something else, and gives up.                        *)
Unconfirmed(l) ==
  /\ step[l] \in {"armed", "started"} /\ holder # l
  /\ ~(Valid(Primary(l)) /\ OwnAttempt(l))
  /\ step' = [step EXCEPT ![l] = "idle"]
  /\ UNCHANGED <<disk, job, alive, resident, holder, writes, fresh, recovery, budget>>

(* Mutant: without waiting for the Job.                                    *)
MarkCleanEarly(l) ==
  /\ step[l] = "idle"
  /\ l = "child" => resident
  /\ Locks(l)
  /\ Valid(Primary(l)) /\ Unresolved(Primary(l))
  /\ writes' = Write(l, Clean)
  /\ UNCHANGED <<disk, system, fresh, recovery, budget>>

(* The Job is seen to be absent: mark_clean.                               *)
MarkClean(l) ==
  /\ step[l] = "idle" /\ job[l] = 0
  /\ l = "child" => resident
  /\ Locks(l)
  /\ Valid(Primary(l)) /\ Unresolved(Primary(l))
  /\ writes' = Write(l, Clean)
  /\ UNCHANGED <<disk, system, fresh, recovery, budget>>

(* It is not: mark_uncertain, and the gate requires recovery.              *)
MarkUncertain(l) ==
  /\ step[l] = "idle" /\ job[l] # 0
  /\ l = "child" => resident
  /\ Locks(l)
  /\ Valid(Primary(l)) /\ OwnAttempt(l) /\ Primary(l).mode # "uncertain"
  /\ writes' = Write(l, Document("uncertain", job[l]))
                 \o Write("gate", Document("recovery_required", Primary(l).n))
  /\ UNCHANGED <<disk, system, fresh, recovery, budget>>

(* The bootstrapped process takes the singleton, unless recovery has it.   *)
ResidentStarts ==
  /\ "resident" \in alive /\ ~resident /\ phase = "idle"
  /\ resident' = TRUE
  /\ UNCHANGED <<disk, job, alive, step, holder, writes, fresh, recovery, budget>>

(* The Job of a ledger ends: its process exited or was killed and the last *)
(* handle is closed.  A resident that dies drops what it was writing.      *)
JobEnds(l) ==
  LET died == l = "resident" /\ resident
  IN  /\ job[l] # 0
      /\ job' = [job EXCEPT ![l] = 0]
      /\ alive' = alive \ {l}
      /\ resident' = IF died THEN FALSE ELSE resident
      /\ step' = IF died THEN [k \in Ledger |-> "idle"]
                         ELSE [step EXCEPT ![l] = "idle"]
      /\ IF holder = l \/ (died /\ holder = "child")
           THEN writes' = <<>> /\ holder' = "nobody"
           ELSE UNCHANGED <<writes, holder>>
      /\ fresh' = IF died /\ fresh # <<>> /\ fresh[1].at[2] = "child"
                    THEN <<>> ELSE fresh
      /\ UNCHANGED <<disk, recovery, budget>>

(* The durable claim of a scheduler minute, which has no backup.           *)
Claim ==
  /\ resident /\ Primary("claim") = Missing
  /\ file' = [file EXCEPT ![<<"primary", "claim">>] = Document("minute", 0)]
  /\ UNCHANGED <<stray, system, holder, writes, fresh, recovery, budget>>

-----------------------------------------------------------------------------
(* RuntimeRecovery.recover.  The recovery mutex and the resident mutex are *)
(* held from the first step to the last, the transition mutex is not held  *)
(* while the recorded Jobs are awaited.                                    *)

(* Mutant: a refusal that keeps the transition mutex.                      *)
ReturnHolding == phase' = "idle" /\ UNCHANGED holder /\ writes' = <<>> /\ Forget

Return == phase' = "idle" /\ holder' = "nobody" /\ writes' = <<>> /\ Forget

(* prepare_locked: repair from the backups, or salvage.                    *)
Prepare ==
  /\ holder' = "recovery"
  /\ IF MustSalvage
       THEN phase' = "clear" /\ writes' = <<>>
       ELSE phase' = "write" /\ writes' = Repairs

BeginRecovery ==
  /\ phase = "idle" /\ ~resident /\ holder = "nobody" /\ Settled
  /\ ~OwnershipUnreadable /\ ~PlanRefused
  /\ found' = Ownership
  /\ tampered' = FALSE
  /\ IF UnresolvedIn(found') = {}
       THEN Prepare
       ELSE phase' = "wait" /\ UNCHANGED <<holder, writes>>
  /\ UNCHANGED <<disk, system, fresh, budget>>

(* The recorded Jobs were terminated (JobEnds) and are absent; the same    *)
(* ownership is read again.                                                *)
JobsAbsent ==
  /\ phase = "wait" /\ holder = "nobody" /\ Settled
  /\ \A l \in UnresolvedIn(found) : job[l] # found[l].n
  /\ ~OwnershipUnreadable /\ ~PlanRefused
  /\ Ownership = found
  /\ Prepare
  /\ UNCHANGED <<disk, system, fresh, found, tampered, budget>>

WaitFails ==
  /\ phase = "wait" /\ holder = "nobody"
  /\ \/ \E l \in UnresolvedIn(found) : job[l] = found[l].n
     \/ OwnershipUnreadable \/ PlanRefused \/ Ownership # found
  /\ Return
  /\ UNCHANGED <<disk, system, fresh, budget>>

(* clear_authority_for_quiescent_salvage: the primaries one by one, the    *)
(* tree of instance ledgers, the tree of backups in no particular order,   *)
(* the tree of claims.                                                     *)
ClearOrder ==
  << {<<"primary", "manifest">>}, {<<"primary", "gate">>},
     {<<"primary", "desired">>}, {<<"primary", "resident">>},
     {<<"primary", "child">>}, {"backup"} \X Backed, {<<"primary", "claim">>} >>

Present(cs) == {c \in cs : file[c] # Missing}

ClearNext ==
  /\ phase = "clear"
  /\ \E i \in 1..Len(ClearOrder) :
       /\ \A j \in 1..(i - 1) : Present(ClearOrder[j]) = {}
       /\ i > 5 => ~stray
       /\ \E c \in Present(ClearOrder[i]) : file' = [file EXCEPT ![c] = Missing]
  /\ UNCHANGED <<stray, system, holder, writes, fresh, phase, found, tampered, budget>>

ClearStray ==
  /\ phase = "clear" /\ stray
  /\ \A j \in 1..4 : Present(ClearOrder[j]) = {}
  /\ stray' = FALSE
  /\ UNCHANGED <<file, system, holder, writes, fresh, recovery, budget>>

(* _create_clean_authority *)
CreateClean ==
  /\ phase = "clear" /\ ~stray /\ Present(Copy) = {}
  /\ phase' = "write"
  /\ writes' = InOrder([d \in Required |-> Write(d, Blank(d))])
  /\ UNCHANGED <<disk, system, holder, fresh, found, tampered, budget>>

(* The repaired authority is validated, and what it says is resolved.      *)
(* Nothing may be unresolved where nothing was found; the rest is absent.  *)
Resolved ==
  IF UnresolvedIn(found) = {}
    THEN \A l \in Ledger : ~Unresolved(Primary(l))
    ELSE \A l \in Ledger : Unresolved(Primary(l)) => job[l] # Primary(l).n

Repaired == Normal /\ Resolved /\ Primary("gate").mode # "enabled"

CommitRecovery ==
  /\ phase = "write" /\ writes = <<>>
  /\ Repaired
  /\ phase' = "commit"
  /\ writes' = InOrder([l \in {k \in Ledger : Unresolved(Primary(k))} |-> Write(l, Clean)])
                 \o Write("gate", Disabled(Primary("gate").n))
  /\ UNCHANGED <<disk, system, holder, fresh, found, tampered, budget>>

RepairFails ==
  /\ phase = "write" /\ writes = <<>>
  /\ ~Repaired
  /\ Return
  /\ UNCHANGED <<disk, system, fresh, budget>>

Recovered ==
  /\ phase = "commit" /\ writes = <<>>
  /\ Return
  /\ UNCHANGED <<disk, system, fresh, budget>>

(* The recovering process dies between two files.                          *)
RecoveryDies ==
  /\ phase \in {"wait", "clear"} /\ faults < MaxFaults /\ Room
  /\ phase' = "idle" /\ Forget
  /\ holder' = IF holder = "recovery" THEN "nobody" ELSE holder
  /\ faults' = faults + 1
  /\ UNCHANGED <<disk, system, writes, fresh, tries, damage>>

-----------------------------------------------------------------------------
Next ==
  \/ WriteNext \/ WriteFails
  \/ (\E c \in Copy : Damage(c)) \/ StrayFile
  \/ (\E d \in Required \union {"child"} : Initialize(d))
  \/ InitializeNext \/ InitializeFails
  \/ \E n \in 1..MaxRevision : ApplyEnabled(n) \/ ApplyDisabled(n)
  \/ DisableGate
  \/ \E l \in Ledger :
       \/ Arm(l) \/ Start(l) \/ Confirm(l) \/ Unconfirmed(l)
       \/ MarkClean(l) \/ MarkUncertain(l) \/ JobEnds(l)
  \/ ResidentStarts \/ Claim
  \/ BeginRecovery \/ JobsAbsent \/ WaitFails
  \/ ClearNext \/ ClearStray \/ CreateClean
  \/ CommitRecovery \/ RepairFails \/ Recovered \/ RecoveryDies

Spec == Init /\ [][Next]_vars

-----------------------------------------------------------------------------
Range_n == 0..(IF MaxAttempts > MaxRevision THEN MaxAttempts ELSE MaxRevision)
Content ==
  [is : {"valid"}, n : Range_n,
   mode : ActiveModes \union {"identity", "clean", "enabled", "disabled",
                              "recovery_required", "minute"}]
    \union Damaged \union {Missing}
Pending == [at : Copy, doc : Content]

(* The shape of the state; a lock is held while its holder has something   *)
(* to write, and recovery repairs only under both of its locks.            *)
TypeOK ==
  /\ file \in [Copy -> Content]
  /\ stray \in BOOLEAN /\ resident \in BOOLEAN /\ tampered \in BOOLEAN
  /\ job \in [Ledger -> 0..MaxAttempts]
  /\ alive \subseteq {l \in Ledger : job[l] # 0}
  /\ step \in [Ledger -> {"idle", "armed", "started"}]
  /\ holder \in {"nobody", "control", "recovery"} \union Ledger
  /\ \A i \in 1..Len(writes) : writes[i] \in Pending
  /\ \A i \in 1..Len(fresh) : fresh[i] \in Pending
  /\ writes # <<>> => holder # "nobody"
  /\ phase \in {"idle", "wait", "clear", "write", "commit"}
  /\ holder = "recovery" <=> phase \in {"clear", "write", "commit"}
  /\ found \in [Ledger -> Content]
  /\ tries \in 0..MaxAttempts /\ damage \in 0..MaxDamage /\ faults \in 0..MaxFaults

(* Wherever a writer dies and whatever files are damaged, a process that   *)
(* runs is named by the copy of its ledger recovery would go by, or that   *)
(* ledger is unreadable and recovery refuses to touch it                   *)
(* (recovery_authority.py:61-86, runtime_files.py:205-209).                *)
EvidenceKept ==
  \A l \in alive :
     \/ Valid(Selected(l)) /\ Unresolved(Selected(l)) /\ Selected(l).n = job[l]
     \/ Unreadable(l)

(* When recovery reports the runtime stopped nothing is running            *)
(* (recovery.py:105-146, recovery.py:166-170).                             *)
NothingLivesAfterRecovery ==
  [][phase = "commit" /\ phase' = "idle" /\ faults' = faults => (alive = {})]_vars

(* No process is started while the authority is being repaired, though the *)
(* launcher of a resident holds no lock when it starts it                  *)
(* (recovery.py:105-146, control.py:226-252).                              *)
NoStartUnderRepair ==
  [][holder = "recovery" => alive' \subseteq alive]_vars

(* Wherever an earlier recovery died, a recovery that nothing disturbs     *)
(* does not end up with authority it cannot validate, and finds no         *)
(* ownership it had not found before (recovery_authority.py:95-136,        *)
(* recovery.py:70-88).                                                     *)
RepairSuffices ==
  [][phase = "write" /\ phase' = "idle" /\ faults' = faults => tampered]_vars

=============================================================================
