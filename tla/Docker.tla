------------------------------- MODULE Docker -------------------------------
(***************************************************************************)
(* mcp_docker.py: spawn and prepare_state make one object in an engine that *)
(* belongs to somebody else, and DockerOwnedProcess gets rid of what spawn *)
(* has made.  Every word with the engine is a run of the Docker CLI; one   *)
(* that fails, is late or says too much may have had its effect, or may    *)
(* have it later.  Between two commands the engine behind the endpoint may *)
(* be another one, and other users may do anything to the object.          *)
(*                                                                         *)
(* An error is "backend": nothing was done, try again; "recovery": nobody  *)
(* may try again; or "raw": another exception than this module's own.      *)
(***************************************************************************)
EXTENDS Naturals

CONSTANTS
  Kinds,         \* what a behaviour may be about: "container" and "volume"
  MaxAttempts,   \* bound on the calls of spawn or prepare_state
  MaxFaults,     \* bound on commands and calls of the system that fail
  MaxSwitches,   \* bound on the engine's going away and coming back
  MaxMeddling    \* bound on what other users do to the object

ASSUME DockerAssumption ==
  /\ Kinds \subseteq {"container", "volume"}
  /\ {MaxAttempts, MaxFaults, MaxSwitches, MaxMeddling} \subseteq Nat

VARIABLES
  kind,          \* spawn and a container, or prepare_state and a volume, for ever
  \* the engine
  engine,        \* which one answers at the endpoint, or "down"
  object,        \* where it is, its status, whether it is as it was made
  inflight,      \* effects that were asked for and may come later
  \* the caller's thread
  pc,
  call,          \* "terminate" or "close", of the owned process
  result,        \* of the last call
  \* the attached CLI and DockerOwnedProcess
  cli,           \* "none", "running" or "ended"
  owned,         \* spawn has returned one
  containerStopped, localClosed, recovery,
  \* history
  attempts, faults, switches, meddling,
  made,          \* objects made
  stops,         \* stop commands issued
  revived        \* somebody else has started the container

world   == <<engine, object, inflight, made, revived>>
owner   == <<cli, owned, containerStopped, localClosed, recovery>>
counted == <<attempts, faults, switches, meddling, stops>>
vars    == <<kind, world, pc, call, result, owner, counted>>

Volume == kind = "volume"

Nothing == [at |-> "none", status |-> "none", intact |-> TRUE]
Made(e) == [at |-> e, status |-> "created", intact |-> TRUE]
Effect(what, e) == [what |-> what, at |-> e]

Status == {"none", "created", "running", "exited", "odd"}   \* odd: paused, dead, ...

Init ==
  /\ kind \in Kinds
  /\ engine = "frozen" /\ object = Nothing /\ inflight = {} /\ made = 0 /\ revived = FALSE
  /\ pc = "idle" /\ call = "none" /\ result = "none"
  /\ cli = "none" /\ owned = FALSE
  /\ containerStopped = FALSE /\ localClosed = FALSE /\ recovery = FALSE
  /\ attempts = 0 /\ faults = 0 /\ switches = 0 /\ meddling = 0 /\ stops = 0

Fault == faults < MaxFaults /\ faults' = faults + 1

-----------------------------------------------------------------------------
(* The engine and its other users.                                         *)

Done(effect, o) ==
  CASE effect.what = "create" /\ o.at = "none" -> Made(effect.at)
    [] effect.what = "start" /\ o.at = effect.at /\ o.status \in {"created", "exited"} ->
         [o EXCEPT !.status = "running"]
    [] effect.what = "stop" /\ o.at = effect.at /\ o.status = "running" ->
         [o EXCEPT !.status = "exited"]
    [] OTHER -> o

(* What was asked for comes after all, or never.                           *)
LateEffect ==
  \E effect \in inflight :
    /\ inflight' = inflight \ {effect}
    /\ \/ /\ object' = Done(effect, object)
          /\ made' = IF effect.what = "create" THEN made + 1 ELSE made
       \/ UNCHANGED <<object, made>>
    /\ UNCHANGED <<engine, revived, pc, call, result, owner, counted>>

Switch ==
  /\ switches < MaxSwitches /\ switches' = switches + 1
  /\ engine' \in {"frozen", "other", "down"} \ {engine}
  /\ UNCHANGED <<object, inflight, made, revived, pc, call, result, owner, attempts,
                 faults, meddling, stops>>

Exits ==
  /\ object.status = "running"
  /\ object' = [object EXCEPT !.status = "exited"]
  /\ UNCHANGED <<engine, inflight, made, revived, pc, call, result, owner, counted>>

Meddle ==
  /\ meddling < MaxMeddling /\ meddling' = meddling + 1
  /\ object.at # "none"
  /\ \/ /\ object' \in {Nothing, [object EXCEPT !.intact = FALSE]} /\ UNCHANGED revived
     \/ /\ ~Volume
        /\ \E s \in {"running", "exited", "odd"} \ {object.status} :
             /\ object' = [object EXCEPT !.status = s]
             /\ revived' = (revived \/ s = "running")
  /\ UNCHANGED <<engine, inflight, made, pc, call, result, owner, attempts, faults,
                 switches, stops>>

CliEnds ==
  /\ cli = "running" /\ cli' = "ended"
  /\ UNCHANGED <<world, pc, call, result, owned, containerStopped, localClosed, recovery,
                 counted>>

-----------------------------------------------------------------------------
(* spawn and prepare_state, up to the creation and after it.  The order of *)
(* the steps:                                                              *)

After(p) ==
  CASE p = "engine_1"  -> IF Volume THEN "absent" ELSE "image"
    [] p = "image"     -> "absent"
    [] p = "absent"    -> "engine_2"
    [] p = "engine_2"  -> "create"
    [] p = "create"    -> "engine_3"
    [] p = "engine_3"  -> "inspect_1"
    [] p = "inspect_1" -> IF Volume THEN "prepared" ELSE "engine_4"
    [] p = "engine_4"  -> "inspect_2"
    [] p = "inspect_2" -> "attach"
    [] p = "attach"    -> "engine_5"
    [] p = "engine_5"  -> "running"
    [] p = "own_engine_1" -> "own_inspect_1"
    [] p = "own_engine_2" -> "own_inspect_2"

Before == {"engine_1", "image", "absent", "engine_2"}
Making == {"create", "engine_3", "inspect_1", "engine_4", "inspect_2", "attach",
           "engine_5", "running"}
Owning == {"own_engine_1", "own_inspect_1", "stop", "own_engine_2", "own_inspect_2",
           "kill", "wait"}

(* A caller tries again as long as it is told that it may.                 *)
Call ==
  /\ pc = "idle" /\ result \in {"none", "backend"} /\ attempts < MaxAttempts
  /\ attempts' = attempts + 1
  /\ pc' = "engine_1" /\ result' = "none"
  /\ UNCHANGED <<world, call, owner, faults, switches, meddling, stops>>

(* Mutant: what has been attached stays.                                   *)
RaiseLeaving(error) ==
  /\ pc' = "idle" /\ result' = error
  /\ UNCHANGED <<cli, call, owned, containerStopped, localClosed, recovery>>

(* The end of spawn with an error.  What has been attached is taken down.  *)
Raise(error) ==
  /\ pc' = "idle" /\ result' = error
  /\ cli' = "none"
  /\ UNCHANGED <<call, owned, containerStopped, localClosed, recovery>>

(* Mutant: the error is raised and forgotten.                              *)
FailRecoveryForgotten ==
  /\ pc' = "idle" /\ result' = "recovery"
  /\ UNCHANGED owner /\ UNCHANGED call

(* _fail_recovery: the error is there to stay.  The Job is reduced, which  *)
(* may take longer than it is waited for, or not be found out.             *)
FailRecovery ==
  /\ pc' = "idle" /\ result' = "recovery"
  /\ recovery' = TRUE
  /\ \/ cli' = "ended" /\ localClosed' = TRUE
     \/ UNCHANGED <<cli, localClosed>>
  /\ UNCHANGED <<call, owned, containerStopped>>

(* Mutant: an error after the creation is like one before it.              *)
WrongUnwrapped ==
  IF pc \in Before \union {"engine_3", "inspect_1"} THEN Raise("backend")
  ELSE IF pc \in Making THEN Raise("recovery")
  ELSE FailRecovery

(* What an error of this module becomes where it is raised.                *)
Wrong ==
  IF pc \in Before THEN Raise("backend")
  ELSE IF pc \in Making THEN Raise("recovery")
  ELSE FailRecovery

Go(p) == pc' = p /\ UNCHANGED <<call, result, owner>>

(* A command that only asks.                                               *)
Ask(expected) ==
  \/ expected /\ engine # "down" /\ Go(After(pc)) /\ UNCHANGED faults
  \/ (~expected \/ engine = "down") /\ Wrong /\ UNCHANGED faults
  \/ Wrong /\ Fault

Present == object.at = engine

AssertEngine ==
  /\ pc \in {"engine_1", "engine_2", "engine_3", "engine_4", "engine_5", "own_engine_1",
             "own_engine_2"}
  /\ Ask(engine = "frozen")
  /\ UNCHANGED <<world, attempts, switches, meddling, stops>>

InspectImage ==
  /\ pc = "image" /\ Ask(TRUE)
  /\ UNCHANGED <<world, attempts, switches, meddling, stops>>

AssertAbsent ==
  /\ pc = "absent" /\ Ask(~Present)
  /\ UNCHANGED <<world, attempts, switches, meddling, stops>>

Inspect ==
  /\ pc \in {"inspect_1", "inspect_2"}
  /\ Ask(Present /\ object.intact /\ object.status = "created")
  /\ UNCHANGED <<world, attempts, switches, meddling, stops>>

(* The one creation.  A name that is taken is an error like any other; so  *)
(* is a volume that is not the one asked for.  What create_container       *)
(* prints is decoded outside of everything that translates errors.         *)
Create ==
  /\ pc = "create"
  /\ \/ /\ engine # "down" /\ ~Present
        /\ object' = Made(engine) /\ made' = made + 1
        /\ \/ Go(After(pc)) /\ UNCHANGED faults
           \/ Raise(IF Volume THEN "recovery" ELSE "raw") /\ Fault
        /\ UNCHANGED inflight
     \/ /\ engine # "down" /\ ~Present /\ Fault
        /\ inflight' = inflight \union {Effect("create", engine)}
        /\ Wrong /\ UNCHANGED <<object, made>>
     \/ /\ engine = "down" \/ Present
        /\ Wrong /\ UNCHANGED <<object, made, inflight, faults>>
  /\ UNCHANGED <<engine, revived, attempts, switches, meddling, stops>>

Prepared ==
  /\ pc = "prepared"
  /\ pc' = "idle" /\ result' = "ok"
  /\ UNCHANGED <<world, call, owner, counted>>

(* spawn_attach: the container is started by a CLI that stays.             *)
Attach ==
  /\ pc = "attach"
  /\ \/ /\ cli' = "running" /\ pc' = After(pc)
        /\ UNCHANGED <<call, result, owned, containerStopped, localClosed, recovery, faults>>
     \/ Wrong /\ Fault
  /\ inflight' = IF engine = "down" THEN inflight
                 ELSE inflight \union {Effect("start", engine)}
  /\ UNCHANGED <<engine, object, made, revived, attempts, switches, meddling, stops>>

(* _await_running.  The loop ends with its deadline; an error of poll is   *)
(* not one of this module's own.                                           *)
AwaitRunning ==
  /\ pc = "running"
  /\ \/ /\ engine # "down" /\ Present /\ object.intact /\ object.status = "running"
        /\ pc' = "idle" /\ result' = "ok" /\ owned' = TRUE
        /\ UNCHANGED <<call, cli, containerStopped, localClosed, recovery, faults>>
     \/ /\ engine # "down" /\ Present /\ object.intact /\ object.status = "created"
        /\ \/ cli = "running" /\ Go("engine_5") /\ UNCHANGED faults
           \/ cli = "ended" /\ Wrong /\ UNCHANGED faults
           \/ Raise("raw") /\ Fault
     \/ /\ engine = "down" \/ ~Present \/ ~object.intact \/ object.status \in {"exited", "odd"}
        /\ Wrong /\ UNCHANGED faults
     \/ Wrong /\ Fault
  /\ UNCHANGED <<world, attempts, switches, meddling, stops>>

Deadline ==
  /\ pc = "engine_5"
  /\ Wrong
  /\ UNCHANGED <<world, counted>>

-----------------------------------------------------------------------------
(* terminate_tree and close of the owned process.                          *)

(* Mutant: the container is left to the end of its CLI.                    *)
FirstStepLocal == "kill"

FirstStep == IF containerStopped THEN "kill" ELSE "own_engine_1"

Terminate(which) ==
  /\ pc = "idle" /\ owned /\ ~recovery /\ ~localClosed
  /\ call' = which
  /\ pc' = FirstStep
  /\ UNCHANGED <<world, result, owner, counted>>

(* A call of a process that is closed, or needs recovery, does nothing.    *)
Again ==
  /\ pc = "idle" /\ owned /\ (recovery \/ localClosed)
  /\ result' = IF recovery THEN "recovery" ELSE "ok"
  /\ UNCHANGED <<world, pc, call, owner, counted>>

Stopped ==
  /\ containerStopped' = TRUE /\ pc' = "kill"
  /\ UNCHANGED <<call, result, cli, owned, localClosed, recovery>>

(* A container that runs is stopped, once; one that has not stopped then   *)
(* has defied it.                                                          *)
InspectOwned ==
  /\ pc \in {"own_inspect_1", "own_inspect_2"}
  /\ \/ /\ engine # "down" /\ Present /\ object.intact
        /\ \/ object.status \in {"created", "exited"} /\ Stopped
           \/ object.status = "running" /\ pc = "own_inspect_1" /\ Go("stop")
           \/ object.status = "running" /\ pc = "own_inspect_2" /\ Wrong
           \/ object.status = "odd" /\ Wrong
        /\ UNCHANGED faults
     \/ (engine = "down" \/ ~Present \/ ~object.intact) /\ Wrong /\ UNCHANGED faults
     \/ Wrong /\ Fault
  /\ UNCHANGED <<world, attempts, switches, meddling, stops>>

Stop ==
  /\ pc = "stop"
  /\ stops' = stops + 1
  /\ \/ /\ engine # "down" /\ Present
        /\ object' = Done(Effect("stop", engine), object)
        /\ Go("own_engine_2") /\ UNCHANGED <<inflight, faults>>
     \/ /\ engine # "down" /\ Present /\ Fault
        /\ inflight' = inflight \union {Effect("stop", engine)}
        /\ Wrong /\ UNCHANGED object
     \/ /\ engine = "down" \/ ~Present
        /\ Wrong /\ UNCHANGED <<object, inflight, faults>>
  /\ UNCHANGED <<engine, made, revived, attempts, switches, meddling>>

(* The Job of the CLI is terminated; that is not the end of its process.   *)
Kill ==
  /\ pc = "kill"
  /\ \/ /\ \/ call = "terminate" /\ pc' = "idle" /\ result' = "ok"
           \/ call = "close" /\ pc' = "wait" /\ UNCHANGED result
        /\ UNCHANGED <<call, owner, faults>>
     \/ Wrong /\ Fault
  /\ UNCHANGED <<world, attempts, switches, meddling, stops>>

(* close, after terminate_tree.  It takes only errors of this module for a *)
(* reason to recover.                                                      *)
Wait ==
  /\ pc = "wait"
  /\ \/ /\ cli = "ended"
        /\ localClosed' = TRUE
        /\ pc' = "idle" /\ result' = "ok"
        /\ UNCHANGED <<call, cli, owned, containerStopped, recovery, faults>>
     \/ cli = "running" /\ Wrong /\ UNCHANGED faults
     \/ Wrong /\ Fault
     \/ /\ Fault
        /\ pc' = "idle" /\ result' = "raw"
        /\ UNCHANGED <<call, owner>>
  /\ UNCHANGED <<world, attempts, switches, meddling, stops>>

-----------------------------------------------------------------------------
Step ==
  \/ AssertEngine \/ InspectImage \/ AssertAbsent \/ Inspect \/ Create \/ Prepared
  \/ Attach \/ AwaitRunning \/ InspectOwned \/ Stop \/ Kill \/ Wait

Next ==
  /\ UNCHANGED kind
  /\ \/ LateEffect \/ Switch \/ Exits \/ Meddle \/ CliEnds
     \/ Call \/ Step \/ Deadline
     \/ (\E which \in {"terminate", "close"} : Terminate(which)) \/ Again

Spec == Init /\ [][Next]_vars

-----------------------------------------------------------------------------
(* The shape of the state; in particular there is no CLI that nobody       *)
(* answers for.                                                            *)
TypeOK ==
  /\ engine \in {"frozen", "other", "down"}
  /\ object \in [at : {"none", "frozen", "other"}, status : Status, intact : BOOLEAN]
  /\ (object.at = "none" <=> object.status = "none")
  /\ inflight \subseteq [what : {"create", "start", "stop"}, at : {"frozen", "other"}]
  /\ pc \in {"idle", "prepared"} \union Before \union Making \union Owning
  /\ result \in {"none", "ok", "backend", "recovery", "raw"}
  /\ cli \in {"none", "running", "ended"}
  /\ owned => cli # "none" /\ pc \notin Before \union Making
  /\ (cli # "none" => owned \/ pc \in {"engine_5", "running"})
  /\ (pc \in Owning => owned /\ ~localClosed /\ ~recovery)
  /\ localClosed => cli = "ended"

(* A caller that is told that it may try again finds nothing made, by this *)
(* attempt or an earlier one, and nothing on its way; so that trying again *)
(* never makes a second object (mcp_docker.py:457-573, 981-1088; "an       *)
(* ambiguous effect produces non-retryable DockerRecoveryRequired and is   *)
(* never auto-replayed").                                                  *)
RetryIsSafe ==
  /\ result = "backend" => made = 0 /\ inflight = {}
  /\ made <= 1

(* The local process goes only after the container: it is not touched, and *)
(* the owner not closed, while the container runs or may still be started, *)
(* unless the owner has given up on it, or somebody else has started it    *)
(* (mcp_docker.py:226-266; 07-owned-docker-runtime.md: "prove the original *)
(* container quiescent before reducing the CLI Job").                      *)
ContainerFirst ==
  pc \in {"kill", "wait"} \/ (localClosed /\ ~recovery) =>
    revived \/ (object.status # "running" /\ \A effect \in inflight : effect.what # "start")

(* However often it is told to, and whatever has become of the first time, *)
(* the owner sends the container one stop and never another                *)
(* (mcp_docker.py:226-247, 286-306).                                       *)
StopsOnce == stops <= 1
=============================================================================
