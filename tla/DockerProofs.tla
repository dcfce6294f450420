---------------------------- MODULE DockerProofs ----------------------------
(***************************************************************************)
(* Theorems about Docker, proved for every number of attempts, failing     *)
(* commands, changes of engine and interferences.                          *)
(*                                                                         *)
(* RetryIsSafe, ContainerFirst and StopsOnce rest on what each place has   *)
(* established before it; IInv says that place by place.                   *)
(***************************************************************************)
EXTENDS Docker, TLAPS

(* Places at which nothing has been asked for that could leave an object,  *)
(* places after the creation and before the start, and places of the owner *)
(* before the container is known to have stopped.                          *)
Starting  == Before \union {"create"}
Unstarted == {"engine_3", "inspect_1", "engine_4", "inspect_2", "attach"}
Stopping  == {"own_engine_1", "own_inspect_1", "stop", "own_engine_2", "own_inspect_2"}

Quiet == \A effect \in inflight : effect.what # "start"

(* What an attempt may have left: nothing while the caller may try again,  *)
(* one object at the most, and an uncertain creation only where no further *)
(* attempt can follow.                                                     *)
AttemptInv ==
  /\ made \in {0, 1}
  /\ made = 0 => object.at = "none"
  /\ result = "backend" => pc = "idle"
  /\ pc \in Starting \/ (pc = "idle" /\ result \in {"none", "backend"}) =>
       made = 0 /\ inflight = {} /\ ~owned
  /\ pc \in Making \union {"prepared"} => ~owned
  /\ \A effect \in inflight :
       effect.what = "create" => made = 0 /\ pc = "idle" /\ ~owned /\ inflight = {effect}

(* What the flags of the owner stand for.                                  *)
OwnerInv ==
  /\ containerStopped \/ localClosed => owned
  /\ pc \in {"engine_5", "running"} => cli # "none"
  /\ pc \in {"kill", "wait"} \/ (localClosed /\ ~recovery) => containerStopped
  /\ pc \in Stopping => ~containerStopped

(* Only the one start that was asked for, or another user, makes the       *)
(* container run; and it is over once the container has been seen to run.  *)
StartInv ==
  /\ pc \in Unstarted => Quiet /\ (revived \/ object.status # "running")
  /\ revived \/ object.status # "running" \/ Quiet
  /\ \A e, f \in inflight : e.what = "start" /\ f.what = "start" => e = f
  /\ owned => revived \/ Quiet
  /\ containerStopped => revived \/ object.status # "running"

(* A stop that was issued is seen to have worked, or the owner gives up.   *)
StopInv ==
  /\ stops \in {0, 1}
  /\ stops = 1 => \/ containerStopped \/ recovery
                  \/ pc \in {"own_engine_2", "own_inspect_2"}

IInv == TypeOK /\ AttemptInv /\ OwnerInv /\ StartInv /\ StopInv

EffectOf == [what : {"create", "start", "stop"}, at : {"frozen", "other"}]
ObjectOf == [at : {"none", "frozen", "other"}, status : Status, intact : BOOLEAN]

-----------------------------------------------------------------------------
(* What an effect does to an object: a creation makes one where there is   *)
(* none, and only a start makes one run.                                   *)
LEMMA DoneIs ==
  ASSUME NEW effect \in EffectOf, NEW o \in ObjectOf,
         o.at = "none" <=> o.status = "none"
  PROVE  /\ Done(effect, o) \in ObjectOf
         /\ Done(effect, o).at = "none" <=> Done(effect, o).status = "none"
         /\ effect.what = "create" /\ o.at = "none" =>
              Done(effect, o).at # "none" /\ Done(effect, o).status = "created"
         /\ effect.what # "create" => Done(effect, o).at = o.at
         /\ effect.what # "start" /\ Done(effect, o).status = "running" => o.status = "running"
<1>1. CASE effect.what = "create" /\ o.at = "none"
  BY <1>1 DEF Done, Made, EffectOf, ObjectOf, Status
<1>2. CASE effect.what = "start" /\ o.at = effect.at /\ o.status \in {"created", "exited"}
  BY <1>2 DEF Done, EffectOf, ObjectOf, Status
<1>3. CASE effect.what = "stop" /\ o.at = effect.at /\ o.status = "running"
  BY <1>3 DEF Done, EffectOf, ObjectOf, Status
<1>4. CASE /\ ~(effect.what = "create" /\ o.at = "none")
           /\ ~(effect.what = "start" /\ o.at = effect.at /\ o.status \in {"created", "exited"})
           /\ ~(effect.what = "stop" /\ o.at = effect.at /\ o.status = "running")
  <2>1. Done(effect, o) = o
    BY <1>4 DEF Done
  <2> QED BY <1>4, <2>1 DEF EffectOf, ObjectOf
<1> QED BY <1>1, <1>2, <1>3, <1>4

-----------------------------------------------------------------------------
(* The end of spawn or prepare_state with an error of this module: "try    *)
(* again" before the creation only (mcp_docker.py:457-573).                *)
LEMMA RaiseKeeps ==
  ASSUME IInv, pc \in Before \union Making, NEW error \in {"recovery", "backend", "raw"},
         error = "backend" => pc \in Before,
         Raise(error), UNCHANGED <<engine, object, inflight, made, revived, stops>>
  PROVE  IInv'
<1>. USE DEF IInv, world, owner, counted, Before, Making, Owning, Status
<1>1. TypeOK'
  BY DEF TypeOK, AttemptInv, OwnerInv, Starting, Raise
<1>2. AttemptInv'
  BY DEF AttemptInv, TypeOK, Starting, Raise
<1>3. OwnerInv'
  BY DEF OwnerInv, TypeOK, Stopping, Raise
<1>4. StartInv'
  BY DEF StartInv, AttemptInv, TypeOK, Unstarted, Starting, Quiet, Raise
<1>5. StopInv'
  BY DEF StopInv, TypeOK, OwnerInv, Stopping, Raise
<1> QED BY <1>1, <1>2, <1>3, <1>4, <1>5

(* _fail_recovery keeps everything the owner has to keep, also when a stop *)
(* that went wrong may come later (mcp_docker.py:213-224).                 *)
LEMMA FailRecoveryKeeps ==
  ASSUME IInv, pc \in Owning, FailRecovery,
         UNCHANGED <<engine, object, made, revived>>, stops' \in {0, 1},
         inflight' = inflight \/ \E e \in {"frozen", "other"} : inflight' = inflight \union {Effect("stop", e)}
  PROVE  IInv'
<1>. USE DEF IInv, world, owner, counted, Before, Making, Owning, Status
<1>1. TypeOK'
  BY DEF TypeOK, FailRecovery, Effect
<1>2. AttemptInv'
  BY DEF AttemptInv, TypeOK, Starting, FailRecovery, Effect
<1>3. OwnerInv'
  BY DEF OwnerInv, TypeOK, Stopping, FailRecovery, Effect
<1>4. StartInv'
  BY DEF StartInv, AttemptInv, TypeOK, Unstarted, Starting, Quiet, FailRecovery, Effect
<1>5. StopInv'
  BY DEF StopInv, TypeOK, OwnerInv, Stopping, FailRecovery, Effect
<1> QED BY <1>1, <1>2, <1>3, <1>4, <1>5

(* An error of this module is one of these two, by where it is raised.     *)
LEMMA WrongKeeps ==
  ASSUME IInv, pc \in Before \union Making \union Owning, Wrong,
         UNCHANGED <<engine, object, inflight, made, revived, stops>>
  PROVE  IInv'
<1>1. CASE pc \in Before
  BY <1>1, RaiseKeeps DEF Wrong
<1>2. CASE pc \in Making
  <2>1. pc \notin Before /\ Raise("recovery")
    BY <1>2 DEF Wrong, Before, Making
  <2> QED BY <1>2, <2>1, RaiseKeeps
<1>3. CASE pc \in Owning
  <2>1. pc \notin Before \union Making /\ FailRecovery
    BY <1>3 DEF Wrong, Before, Making, Owning
  <2>2. stops' \in {0, 1}
    BY DEF IInv, StopInv
  <2> QED BY <1>3, <2>1, <2>2, FailRecoveryKeeps
<1> QED BY <1>1, <1>2, <1>3

-----------------------------------------------------------------------------
(* The engine and its other users                                          *)

(* What was asked for and comes late is what StartInv and AttemptInv allow. *)
LEMMA LateEffectKeeps ==
  ASSUME IInv, NEW effect \in inflight, inflight' = inflight \ {effect},
         \/ /\ object' = Done(effect, object)
            /\ made' = IF effect.what = "create" THEN made + 1 ELSE made
         \/ UNCHANGED <<object, made>>,
         UNCHANGED <<engine, revived, pc, call, result, owner, counted>>
  PROVE  IInv'
<1>. USE DEF IInv, world, owner, counted, Before, Making, Owning, Status
<1>0. object \in ObjectOf /\ effect \in EffectOf /\ (object.at = "none" <=> object.status = "none")
  BY DEF TypeOK, ObjectOf, EffectOf
<1>a. /\ Done(effect, object) \in ObjectOf
      /\ Done(effect, object).at = "none" <=> Done(effect, object).status = "none"
      /\ effect.what = "create" => /\ object.at = "none" /\ made = 0 /\ inflight = {effect}
                                   /\ Done(effect, object).at # "none"
                                   /\ Done(effect, object).status = "created"
      /\ effect.what # "create" => Done(effect, object).at = object.at
      /\ effect.what # "start" /\ Done(effect, object).status = "running" => object.status = "running"
  BY <1>0, DoneIs DEF AttemptInv
<1>1. TypeOK'
  <2>1. object' \in ObjectOf /\ (object'.at = "none" <=> object'.status = "none")
    BY <1>0, <1>a
  <2> QED BY <2>1 DEF TypeOK, ObjectOf
<1>2. AttemptInv'
  BY <1>0, <1>a DEF AttemptInv, TypeOK, Starting
<1>3. OwnerInv'
  BY <1>0, <1>a DEF OwnerInv, TypeOK, Stopping
<1>4. StartInv'
  BY <1>0, <1>a DEF StartInv, AttemptInv, TypeOK, Unstarted, Starting, Quiet, OwnerInv
<1>5. StopInv'
  BY <1>0, <1>a DEF StopInv, TypeOK, OwnerInv, Stopping
<1> QED BY <1>1, <1>2, <1>3, <1>4, <1>5

(* Nothing that is known is about which engine answers.                    *)
LEMMA SwitchKeeps ==
  ASSUME IInv, Switch
  PROVE  IInv'
<1>. USE DEF IInv, world, owner, counted, Before, Making, Owning, Status
<1>1. TypeOK'
  BY DEF TypeOK, Switch
<1>2. AttemptInv'
  BY DEF AttemptInv, TypeOK, Starting, Switch
<1>3. OwnerInv'
  BY DEF OwnerInv, TypeOK, Stopping, Switch
<1>4. StartInv'
  BY DEF StartInv, AttemptInv, TypeOK, Unstarted, Starting, Quiet, Switch
<1>5. StopInv'
  BY DEF StopInv, TypeOK, OwnerInv, Stopping, Switch
<1> QED BY <1>1, <1>2, <1>3, <1>4, <1>5

(* A container that ends by itself only helps.                             *)
LEMMA ExitsKeeps ==
  ASSUME IInv, Exits
  PROVE  IInv'
<1>. USE DEF IInv, world, owner, counted, Before, Making, Owning, Status
<1>1. TypeOK'
  BY DEF TypeOK, Exits
<1>2. AttemptInv'
  BY DEF AttemptInv, TypeOK, Starting, Exits
<1>3. OwnerInv'
  BY DEF OwnerInv, TypeOK, Stopping, Exits
<1>4. StartInv'
  BY DEF StartInv, AttemptInv, TypeOK, Unstarted, Starting, Quiet, Exits
<1>5. StopInv'
  BY DEF StopInv, TypeOK, OwnerInv, Stopping, Exits
<1> QED BY <1>1, <1>2, <1>3, <1>4, <1>5

(* What another user does to the object is undone by nothing, and seen.    *)
LEMMA MeddleKeeps ==
  ASSUME IInv, Meddle
  PROVE  IInv'
<1>. USE DEF IInv, world, owner, counted, Before, Making, Owning, Status
<1>0. /\ object' \in ObjectOf /\ (object'.at = "none" <=> object'.status = "none")
      /\ object.at # "none"
      /\ object'.status = "running" => revived' \/ object.status = "running"
      /\ revived => revived'
      /\ UNCHANGED <<engine, inflight, made, pc, call, result, owner, stops>>
  <2>0. object \in ObjectOf /\ object.at # "none" /\ object.status # "none"
    BY DEF Meddle, TypeOK, ObjectOf
  <2>1. CASE object' = Nothing /\ UNCHANGED revived
    BY <2>0, <2>1 DEF Meddle, Nothing, ObjectOf
  <2>2. CASE object' = [object EXCEPT !.intact = FALSE] /\ UNCHANGED revived
    BY <2>0, <2>2 DEF Meddle, ObjectOf
  <2>3. CASE \E s \in {"running", "exited", "odd"} \ {object.status} :
               object' = [object EXCEPT !.status = s] /\ revived' = (revived \/ s = "running")
    BY <2>0, <2>3 DEF Meddle, ObjectOf
  <2> QED BY <2>1, <2>2, <2>3 DEF Meddle
<1>1. TypeOK'
  BY <1>0 DEF TypeOK, ObjectOf
<1>2. AttemptInv'
  BY <1>0 DEF AttemptInv, TypeOK, Starting, ObjectOf
<1>3. OwnerInv'
  BY <1>0 DEF OwnerInv, TypeOK, Stopping, ObjectOf
<1>4. StartInv'
  BY <1>0 DEF StartInv, AttemptInv, TypeOK, Unstarted, Starting, Quiet, ObjectOf
<1>5. StopInv'
  BY <1>0 DEF StopInv, TypeOK, OwnerInv, Stopping, ObjectOf
<1> QED BY <1>1, <1>2, <1>3, <1>4, <1>5

(* The CLI may end at any time.                                            *)
LEMMA CliEndsKeeps ==
  ASSUME IInv, CliEnds
  PROVE  IInv'
<1>. USE DEF IInv, world, owner, counted, Before, Making, Owning, Status
<1>1. TypeOK'
  BY DEF TypeOK, CliEnds
<1>2. AttemptInv'
  BY DEF AttemptInv, TypeOK, Starting, CliEnds
<1>3. OwnerInv'
  BY DEF OwnerInv, TypeOK, Stopping, CliEnds
<1>4. StartInv'
  BY DEF StartInv, AttemptInv, TypeOK, Unstarted, Starting, Quiet, CliEnds
<1>5. StopInv'
  BY DEF StopInv, TypeOK, OwnerInv, Stopping, CliEnds
<1> QED BY <1>1, <1>2, <1>3, <1>4, <1>5

-----------------------------------------------------------------------------
(* spawn and prepare_state                                                 *)

(* Another attempt starts where nothing is left of an earlier one.         *)
LEMMA CallKeeps ==
  ASSUME IInv, Call
  PROVE  IInv'
<1>. USE DEF IInv, world, owner, counted, Before, Making, Owning, Status
<1>1. TypeOK'
  BY DEF TypeOK, AttemptInv, OwnerInv, Starting, Call
<1>2. AttemptInv'
  BY DEF AttemptInv, TypeOK, Starting, Call
<1>3. OwnerInv'
  BY DEF OwnerInv, TypeOK, Stopping, Call
<1>4. StartInv'
  BY DEF StartInv, AttemptInv, TypeOK, Unstarted, Starting, Quiet, Call
<1>5. StopInv'
  BY DEF StopInv, TypeOK, OwnerInv, Stopping, Call
<1> QED BY <1>1, <1>2, <1>3, <1>4, <1>5

(* A command that only asks takes its caller to the next place or to an    *)
(* error.                                                                  *)
LEMMA AskKeeps ==
  ASSUME IInv, NEW expected \in BOOLEAN, Ask(expected), UNCHANGED <<world, stops>>,
         pc \in {"engine_1", "engine_2", "engine_3", "engine_4", "engine_5", "image", "absent",
                "inspect_1", "inspect_2", "own_engine_1", "own_engine_2"}
  PROVE  IInv'
<1>1. CASE Wrong
  BY <1>1, WrongKeeps DEF world, Before, Making, Owning
<1>2. CASE Go(After(pc))
  <2>. USE <1>2 DEF IInv, world, owner, Before, Making, Owning, Status, Go
  <2>0. /\ pc \in Before => After(pc) \in Before \union {"create"}
        /\ pc \in Making => After(pc) \in (Making \union {"prepared"}) \ {"create", "engine_5"}
        /\ pc \in Owning => After(pc) \in {"own_inspect_1", "own_inspect_2"}
        /\ pc = "engine_5" <=> After(pc) = "running"
    <3>1. CASE pc \in Before
      BY <3>1 DEF After, Volume
    <3>2. CASE pc \in Making
      BY <3>2 DEF After, Volume
    <3>3. CASE pc \in Owning
      BY <3>3 DEF After, Volume
    <3> QED BY <3>1, <3>2, <3>3
  <2>1. TypeOK'
    BY <2>0 DEF TypeOK
  <2>2. AttemptInv'
    BY DEF AttemptInv, TypeOK, Starting, After, Volume
  <2>3. OwnerInv'
    BY DEF OwnerInv, TypeOK, Stopping, After, Volume
  <2>4. StartInv'
    BY DEF StartInv, AttemptInv, TypeOK, Unstarted, Starting, Quiet, After, Volume
  <2>5. StopInv'
    BY DEF StopInv, TypeOK, OwnerInv, Stopping, After, Volume
  <2> QED BY <2>1, <2>2, <2>3, <2>4, <2>5
<1> QED BY <1>1, <1>2 DEF Ask

(* The four commands that ask are such commands.                           *)
LEMMA AsksKeep ==
  ASSUME IInv, AssertEngine \/ InspectImage \/ AssertAbsent \/ Inspect
  PROVE  IInv'
<1>1. CASE AssertEngine
  <2>1. (engine = "frozen") \in BOOLEAN
    OBVIOUS
  <2> QED BY <1>1, <2>1, AskKeeps DEF AssertEngine
<1>2. CASE InspectImage
  BY <1>2, AskKeeps DEF InspectImage
<1>3. CASE AssertAbsent
  <2>1. (~Present) \in BOOLEAN
    OBVIOUS
  <2> QED BY <1>3, <2>1, AskKeeps DEF AssertAbsent
<1>4. CASE Inspect
  <2>1. (Present /\ object.intact /\ object.status = "created") \in BOOLEAN
    OBVIOUS
  <2> QED BY <1>4, <2>1, AskKeeps DEF Inspect
<1> QED BY <1>1, <1>2, <1>3, <1>4

(* The creation: an object, or an error and perhaps an object to come.     *)
LEMMA CreateKeeps ==
  ASSUME IInv, Create
  PROVE  IInv'
<1>0. pc = "create" /\ made = 0 /\ object.at = "none" /\ inflight = {} /\ ~owned
  BY DEF Create, IInv, AttemptInv, Starting
<1>1. CASE object' = Made(engine) /\ made' = made + 1 /\ engine # "down" /\ UNCHANGED inflight
  <2>0. /\ UNCHANGED <<engine, revived, stops, owned, containerStopped, localClosed, recovery, call>>
        /\ \/ pc' = "engine_3" /\ UNCHANGED <<result, cli>>
           \/ pc' = "idle" /\ result' \in {"recovery", "raw"} /\ cli' = "none"
    BY <1>0, <1>1 DEF Create, Go, After, Raise, Wrong, Made, owner, Before, Making
  <2>. USE <1>1, <2>0 DEF IInv, Before, Making, Owning, Status, Made
  <2>1. TypeOK'
    BY <1>0 DEF TypeOK
  <2>2. AttemptInv'
    BY <1>0 DEF AttemptInv, TypeOK, Starting
  <2>3. OwnerInv'
    BY <1>0 DEF OwnerInv, TypeOK, Stopping
  <2>4. StartInv'
    BY <1>0 DEF StartInv, AttemptInv, TypeOK, Unstarted, Starting, Quiet, Stopping, OwnerInv
  <2>5. StopInv'
    BY <1>0 DEF StopInv, TypeOK, OwnerInv, Stopping
  <2> QED BY <2>1, <2>2, <2>3, <2>4, <2>5
<1>2. CASE /\ engine # "down" /\ inflight' = inflight \union {Effect("create", engine)}
           /\ Wrong /\ UNCHANGED <<object, made>>
  <2>0. /\ UNCHANGED <<engine, revived, stops, owned, containerStopped, localClosed, recovery, call>>
        /\ pc' = "idle" /\ result' = "recovery" /\ cli' = "none"
    BY <1>0, <1>2 DEF Create, Raise, Wrong, Before, Making
  <2>. USE <1>2, <2>0 DEF IInv, Before, Making, Owning, Status, Effect
  <2>1. TypeOK'
    BY <1>0 DEF TypeOK
  <2>2. AttemptInv'
    BY <1>0 DEF AttemptInv, TypeOK, Starting
  <2>3. OwnerInv'
    BY <1>0 DEF OwnerInv, TypeOK, Stopping
  <2>4. StartInv'
    BY <1>0 DEF StartInv, AttemptInv, TypeOK, Unstarted, Starting, Quiet, Stopping, OwnerInv
  <2>5. StopInv'
    BY <1>0 DEF StopInv, TypeOK, OwnerInv, Stopping
  <2> QED BY <2>1, <2>2, <2>3, <2>4, <2>5
<1>3. CASE Wrong /\ UNCHANGED <<object, made, inflight>>
  BY <1>0, <1>3, WrongKeeps DEF Create, Making
<1> QED BY <1>1, <1>2, <1>3 DEF Create


(* prepare_state has made its volume.                                      *)
LEMMA PreparedKeeps ==
  ASSUME IInv, Prepared
  PROVE  IInv'
<1>. USE DEF IInv, Prepared, world, owner, counted, Before, Making, Owning, Status
<1>1. TypeOK'
  BY DEF TypeOK
<1>2. AttemptInv'
  BY DEF AttemptInv, TypeOK, Starting
<1>3. OwnerInv'
  BY DEF OwnerInv, TypeOK, Stopping
<1>4. StartInv'
  BY DEF StartInv, AttemptInv, TypeOK, Unstarted, Starting, Quiet
<1>5. StopInv'
  BY DEF StopInv, TypeOK, OwnerInv, Stopping
<1> QED BY <1>1, <1>2, <1>3, <1>4, <1>5


(* The one start is asked for, which nobody has done before.               *)
LEMMA AttachKeeps ==
  ASSUME IInv, Attach
  PROVE  IInv'
<1>0. pc = "attach" /\ Quiet /\ (revived \/ object.status # "running") /\ ~owned
  BY DEF Attach, IInv, StartInv, Unstarted, AttemptInv, Making, Starting, TypeOK
<1>a. \A effect \in inflight : effect.what # "create"
  BY <1>0 DEF IInv, AttemptInv
<1>b. /\ UNCHANGED <<engine, object, made, revived, stops, owned, containerStopped, localClosed, recovery>>
      /\ inflight' = inflight \/ (engine # "down" /\ inflight' = inflight \union {Effect("start", engine)})
      /\ \/ pc' = "engine_5" /\ cli' = "running" /\ UNCHANGED result
         \/ pc' = "idle" /\ cli' = "none" /\ result' = "recovery"
  BY <1>0 DEF Attach, Wrong, Raise, After, Before, Making
<1>. USE <1>0, <1>b DEF IInv, Before, Making, Owning, Status, Effect
<1>1. TypeOK'
  BY <1>a DEF TypeOK
<1>2. AttemptInv'
  BY <1>a DEF AttemptInv, TypeOK, Starting
<1>3. OwnerInv'
  BY <1>a DEF OwnerInv, TypeOK, Stopping
<1>4. StartInv'
  BY <1>a DEF StartInv, AttemptInv, TypeOK, Unstarted, Starting, Quiet, OwnerInv, Effect
<1>5. StopInv'
  BY <1>a DEF StopInv, TypeOK, OwnerInv, Stopping
<1> QED BY <1>1, <1>2, <1>3, <1>4, <1>5


(* The container is owned once it has been seen to run, which the one start*)
(* has done, or another user.                                              *)
LEMMA AwaitRunningKeeps ==
  ASSUME IInv, AwaitRunning
  PROVE  IInv'
<1>1. CASE Wrong
  BY <1>1, WrongKeeps DEF AwaitRunning, world, Making
<1>2. CASE Raise("raw")
  BY <1>2, RaiseKeeps DEF AwaitRunning, world, Making
<1>3. CASE Go("engine_5")
  <2>. USE <1>3 DEF IInv, world, owner, counted, Before, Making, Owning, Status, AwaitRunning, Go
  <2>1. TypeOK'
    BY DEF TypeOK
  <2>2. AttemptInv'
    BY DEF AttemptInv, TypeOK, Starting
  <2>3. OwnerInv'
    BY DEF OwnerInv, TypeOK, Stopping
  <2>4. StartInv'
    BY DEF StartInv, AttemptInv, TypeOK, Unstarted, Starting, Quiet
  <2>5. StopInv'
    BY DEF StopInv, TypeOK, OwnerInv, Stopping
  <2> QED BY <2>1, <2>2, <2>3, <2>4, <2>5
<1>4. CASE /\ object.status = "running"
           /\ pc' = "idle" /\ result' = "ok" /\ owned' = TRUE
           /\ UNCHANGED <<call, cli, containerStopped, localClosed, recovery>>
  <2>0. /\ pc = "running" /\ ~owned /\ cli # "none" /\ UNCHANGED <<world, stops>>
    BY <1>4 DEF AwaitRunning, IInv, AttemptInv, OwnerInv, Making
  <2>. USE <1>4, <2>0 DEF IInv, world, owner, counted, Before, Making, Owning, Status
  <2>1. TypeOK'
    BY DEF TypeOK
  <2>2. AttemptInv'
    BY DEF AttemptInv, TypeOK, Starting, StartInv, Quiet
  <2>3. OwnerInv'
    BY DEF OwnerInv, TypeOK, Stopping
  <2>4. StartInv'
    BY DEF StartInv, AttemptInv, TypeOK, Unstarted, Starting, Quiet, OwnerInv
  <2>5. StopInv'
    BY DEF StopInv, TypeOK, OwnerInv, Stopping
  <2> QED BY <2>1, <2>2, <2>3, <2>4, <2>5
<1> QED BY <1>1, <1>2, <1>3, <1>4 DEF AwaitRunning


(* The deadline of _await_running is one of its errors.                    *)
LEMMA DeadlineKeeps ==
  ASSUME IInv, Deadline
  PROVE  IInv'
<1> QED BY WrongKeeps DEF Deadline, world, counted, Making


-----------------------------------------------------------------------------
(* The owned process                                                       *)

(* A call of the owner begins where the container is known to be.          *)
LEMMA TerminateKeeps ==
  ASSUME IInv, NEW which \in {"terminate", "close"}, Terminate(which)
  PROVE  IInv'
<1>. USE DEF IInv, world, owner, counted, Before, Making, Owning, Status, Terminate, FirstStep
<1>1. TypeOK'
  BY DEF TypeOK
<1>2. AttemptInv'
  BY DEF AttemptInv, TypeOK, Starting
<1>3. OwnerInv'
  BY DEF OwnerInv, TypeOK, Stopping
<1>4. StartInv'
  BY DEF StartInv, AttemptInv, TypeOK, Unstarted, Starting, Quiet
<1>5. StopInv'
  BY DEF StopInv, TypeOK, OwnerInv, Stopping
<1> QED BY <1>1, <1>2, <1>3, <1>4, <1>5


(* A call after the end changes only what is said of it.                   *)
LEMMA AgainKeeps ==
  ASSUME IInv, Again
  PROVE  IInv'
<1>. USE DEF IInv, world, owner, counted, Before, Making, Owning, Status, Again
<1>1. TypeOK'
  BY DEF TypeOK
<1>2. AttemptInv'
  BY DEF AttemptInv, TypeOK, Starting
<1>3. OwnerInv'
  BY DEF OwnerInv, TypeOK, Stopping
<1>4. StartInv'
  BY DEF StartInv, AttemptInv, TypeOK, Unstarted, Starting, Quiet
<1>5. StopInv'
  BY DEF StopInv, TypeOK, OwnerInv, Stopping
<1> QED BY <1>1, <1>2, <1>3, <1>4, <1>5


(* The owner takes a container for stopped that it has seen not to run.    *)
LEMMA InspectOwnedKeeps ==
  ASSUME IInv, InspectOwned
  PROVE  IInv'
<1>1. CASE Wrong
  BY <1>1, WrongKeeps DEF InspectOwned, world, Owning
<1>2. CASE object.status \in {"created", "exited"} /\ Stopped
  <2>. USE <1>2 DEF IInv, world, owner, counted, Before, Making, Owning, Status, InspectOwned, Stopped
  <2>1. TypeOK'
    BY DEF TypeOK
  <2>2. AttemptInv'
    BY DEF AttemptInv, TypeOK, Starting
  <2>3. OwnerInv'
    BY DEF OwnerInv, TypeOK, Stopping
  <2>4. StartInv'
    BY DEF StartInv, AttemptInv, TypeOK, Unstarted, Starting, Quiet
  <2>5. StopInv'
    BY DEF StopInv, TypeOK, OwnerInv, Stopping
  <2> QED BY <2>1, <2>2, <2>3, <2>4, <2>5
<1>3. CASE object.status = "running" /\ pc = "own_inspect_1" /\ Go("stop")
  <2>. USE <1>3 DEF IInv, world, owner, counted, Before, Making, Owning, Status, InspectOwned, Go
  <2>1. TypeOK'
    BY DEF TypeOK
  <2>2. AttemptInv'
    BY DEF AttemptInv, TypeOK, Starting
  <2>3. OwnerInv'
    BY DEF OwnerInv, TypeOK, Stopping
  <2>4. StartInv'
    BY DEF StartInv, AttemptInv, TypeOK, Unstarted, Starting, Quiet
  <2>5. StopInv'
    BY DEF StopInv, TypeOK, OwnerInv, Stopping
  <2> QED BY <2>1, <2>2, <2>3, <2>4, <2>5
<1> QED BY <1>1, <1>2, <1>3 DEF InspectOwned


(* It stops the container where no stop has been issued, or has given up.  *)
LEMMA StopKeeps ==
  ASSUME IInv, Stop
  PROVE  IInv'
<1>0. pc = "stop" /\ stops = 0 /\ owned /\ stops' = 1
  BY DEF Stop, IInv, StopInv, TypeOK, OwnerInv, Stopping, Owning
<1>1. CASE Wrong /\ object' = object
  <2>1. FailRecovery
    BY <1>0, <1>1 DEF Wrong, Before, Making
  <2>2. inflight' = inflight \/ \E e \in {"frozen", "other"} : inflight' = inflight \union {Effect("stop", e)}
    BY <1>1 DEF Stop, IInv, TypeOK
  <2> QED BY <1>0, <1>1, <2>1, <2>2, FailRecoveryKeeps DEF Stop, Owning
<1>2. CASE /\ engine # "down"
           /\ object' = Done(Effect("stop", engine), object) /\ Go("own_engine_2")
           /\ UNCHANGED inflight
  <2>0. /\ object' \in ObjectOf /\ (object'.at = "none" <=> object'.status = "none")
        /\ object'.at = object.at
        /\ object'.status = "running" => object.status = "running"
    <3>1. /\ Effect("stop", engine) \in EffectOf
          /\ Effect("stop", engine).what = "stop"
          /\ object \in ObjectOf /\ (object.at = "none" <=> object.status = "none")
      BY <1>2 DEF IInv, TypeOK, Effect, EffectOf, ObjectOf
    <3> QED BY <1>2, <3>1, DoneIs
  <2>a. /\ pc' = "own_engine_2"
        /\ UNCHANGED <<engine, made, revived, inflight, result, cli, owned, containerStopped, localClosed, recovery>>
    BY <1>2 DEF Stop, Go, owner
  <2>. USE <1>0, <2>0, <2>a DEF IInv, Before, Making, Owning
  <2>1. TypeOK'
    BY DEF TypeOK, ObjectOf
  <2>2. AttemptInv'
    BY DEF AttemptInv, TypeOK, Starting
  <2>3. OwnerInv'
    BY DEF OwnerInv, TypeOK, Stopping
  <2>4. StartInv'
    BY DEF StartInv, AttemptInv, TypeOK, Unstarted, Starting, Quiet
  <2>5. StopInv'
    BY DEF StopInv, TypeOK, OwnerInv, Stopping
  <2> QED BY <2>1, <2>2, <2>3, <2>4, <2>5
<1> QED BY <1>1, <1>2 DEF Stop


(* The Job goes when the container has gone.                               *)
LEMMA KillKeeps ==
  ASSUME IInv, Kill
  PROVE  IInv'
<1>1. CASE Wrong
  BY <1>1, WrongKeeps DEF Kill, world, Owning
<1>2. CASE UNCHANGED owner /\ ((pc' = "idle" /\ result' = "ok") \/ (pc' = "wait" /\ result' = result))
  <2>. USE <1>2 DEF IInv, world, owner, counted, Before, Making, Owning, Status, Kill
  <2>1. TypeOK'
    BY DEF TypeOK
  <2>2. AttemptInv'
    BY DEF AttemptInv, TypeOK, Starting
  <2>3. OwnerInv'
    BY DEF OwnerInv, TypeOK, Stopping
  <2>4. StartInv'
    BY DEF StartInv, AttemptInv, TypeOK, Unstarted, Starting, Quiet
  <2>5. StopInv'
    BY DEF StopInv, TypeOK, OwnerInv, Stopping
  <2> QED BY <2>1, <2>2, <2>3, <2>4, <2>5
<1> QED BY <1>1, <1>2 DEF Kill


(* close ends with the end of the CLI, or gives up, or leaves it all open. *)
LEMMA WaitKeeps ==
  ASSUME IInv, Wait
  PROVE  IInv'
<1>1. CASE Wrong
  BY <1>1, WrongKeeps DEF Wait, world, Owning
<1>2. CASE /\ cli = "ended" /\ localClosed' = TRUE /\ pc' = "idle" /\ result' = "ok"
           /\ UNCHANGED <<call, cli, owned, containerStopped, recovery>>
  <2>. USE <1>2 DEF IInv, world, owner, counted, Before, Making, Owning, Status, Wait
  <2>1. TypeOK'
    BY DEF TypeOK
  <2>2. AttemptInv'
    BY DEF AttemptInv, TypeOK, Starting
  <2>3. OwnerInv'
    BY DEF OwnerInv, TypeOK, Stopping
  <2>4. StartInv'
    BY DEF StartInv, AttemptInv, TypeOK, Unstarted, Starting, Quiet
  <2>5. StopInv'
    BY DEF StopInv, TypeOK, OwnerInv, Stopping
  <2> QED BY <2>1, <2>2, <2>3, <2>4, <2>5
<1>3. CASE pc' = "idle" /\ result' = "raw" /\ UNCHANGED <<call, owner>>
  <2>. USE <1>3 DEF IInv, world, owner, counted, Before, Making, Owning, Status, Wait
  <2>1. TypeOK'
    BY DEF TypeOK
  <2>2. AttemptInv'
    BY DEF AttemptInv, TypeOK, Starting
  <2>3. OwnerInv'
    BY DEF OwnerInv, TypeOK, Stopping
  <2>4. StartInv'
    BY DEF StartInv, AttemptInv, TypeOK, Unstarted, Starting, Quiet
  <2>5. StopInv'
    BY DEF StopInv, TypeOK, OwnerInv, Stopping
  <2> QED BY <2>1, <2>2, <2>3, <2>4, <2>5
<1> QED BY <1>1, <1>2, <1>3 DEF Wait


-----------------------------------------------------------------------------
(* IInv is inductive.                                                      *)
LEMMA InitIInv == ASSUME Init PROVE IInv
BY DEF Init, Nothing, IInv, TypeOK, AttemptInv, OwnerInv, StartInv, StopInv, Quiet, Status,
       Starting, Unstarted, Stopping, Before, Making, Owning

(* The steps of the caller's thread.                                       *)
LEMMA StepKeeps == ASSUME IInv, Step PROVE IInv'
BY AsksKeep, CreateKeeps, PreparedKeeps, AttachKeeps, AwaitRunningKeeps, InspectOwnedKeeps,
   StopKeeps, KillKeeps, WaitKeeps
   DEF Step

(* Every step keeps the invariant.                                         *)
LEMMA NextKeeps == ASSUME IInv, [Next]_vars PROVE IInv'
<1>1. CASE LateEffect
  BY <1>1, LateEffectKeeps DEF LateEffect
<1>2. CASE Switch \/ Exits \/ Meddle \/ CliEnds
  BY <1>2, SwitchKeeps, ExitsKeeps, MeddleKeeps, CliEndsKeeps
<1>3. CASE Call \/ Step \/ Deadline
  BY <1>3, CallKeeps, StepKeeps, DeadlineKeeps
<1>4. CASE (\E which \in {"terminate", "close"} : Terminate(which)) \/ Again
  BY <1>4, TerminateKeeps, AgainKeeps
<1>5. CASE UNCHANGED vars
  BY <1>5
     DEF vars, world, owner, counted, IInv, TypeOK, AttemptInv, OwnerInv, StartInv, StopInv,
         Quiet
<1> QED BY <1>1, <1>2, <1>3, <1>4, <1>5 DEF Next

(* So it always holds.                                                     *)
LEMMA Invariant == Spec => []IInv
<1>1. Init => IInv
  BY InitIInv
<1>2. IInv /\ [Next]_vars => IInv'
  BY NextKeeps
<1> QED BY <1>1, <1>2, PTL DEF Spec

(* The shape of the state: no CLI that nobody answers for, nothing done by *)
(* an owner that is closed or has given up (mcp_docker.py:124-573).        *)
THEOREM TypeCorrect == Spec => []TypeOK
<1>1. IInv => TypeOK
  BY DEF IInv
<1> QED BY <1>1, Invariant, PTL

(* Whoever is told to try again finds nothing made and nothing under way,  *)
(* however many attempts and faults there are (mcp_docker.py:457-573,      *)
(* 981-1088).                                                              *)
THEOREM RetrySafe == Spec => []RetryIsSafe
<1>1. IInv => RetryIsSafe
  BY DEF IInv, AttemptInv, RetryIsSafe
<1> QED BY <1>1, Invariant, PTL

(* The local process is left alone until the container has stopped and     *)
(* cannot be started any more (mcp_docker.py:226-266).                     *)
THEOREM ContainerGoesFirst == Spec => []ContainerFirst
<1>1. IInv => ContainerFirst
  BY DEF IInv, OwnerInv, StartInv, Quiet, ContainerFirst
<1> QED BY <1>1, Invariant, PTL

(* The container is never sent a second stop (mcp_docker.py:226-247,       *)
(* 286-306).                                                               *)
THEOREM StoppedOnce == Spec => []StopsOnce
<1>1. IInv => StopsOnce
  BY DEF IInv, StopInv, StopsOnce
<1> QED BY <1>1, Invariant, PTL
=============================================================================
