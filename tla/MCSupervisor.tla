---------------------------- MODULE MCSupervisor ----------------------------
(* Instances of Supervisor for TLC.                                        *)
EXTENDS Supervisor, TLC

CONSTANTS c1, c2

TwoControls == {c1, c2}

(* Control processes that are asked the same are interchangeable.          *)
Interchangeable == Permutations(TwoControls)

Setting(first, second, attempts, revisions) ==
  [asked |-> c1 :> first @@ c2 :> second,
   attempts |-> attempts, revisions |-> revisions]

Starting == {"apply", "ensure_running"}
All        == Command \ {"shutdown"}

(* Both bootstrap; both do everything but shut down.                       *)
Bootstrapping == {Setting(Starting, Starting, 2, 1)}
Recovering    == {Setting(All, All, 2, 1)}

(* One process is overtaken by another that applies and shuts down; one    *)
(* process does everything, with a second attempt.                         *)
Stopping ==
  {Setting({"apply", "shutdown"}, {"ensure_running"}, 1, 2),
   Setting(Command, {}, 2, 1)}
=============================================================================
