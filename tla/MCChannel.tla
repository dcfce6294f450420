----------------------------- MODULE MCChannel -----------------------------
(* Instances of Channel for TLC.                                           *)
EXTENDS Channel, TLC

CONSTANTS c1, c2

Callers == {c1, c2}

(* As calls of different threads exclude each other, one of them makes     *)
(* them all, and the same or the other one closes the channel.             *)
Alone(used) == (c1 :> used \union {"close"}) @@ (c2 :> {})
Both(used)  == (c1 :> used) @@ (c2 :> {"close"})

ChannelOf(class, used, n) ==
  [framed |-> class = "framed", operations |-> used, calls |-> n,
   helper |-> FALSE, noise |-> 0, floods |-> FALSE, faults |-> 0]

(* A child that answers and has a descendant, one that speaks unasked, and *)
(* one that floods; the streaming operations with each other.              *)
Channels ==
  { [ChannelOf("duplex", Both({"exchange"}), 1) EXCEPT !.helper = TRUE, !.faults = 1],
    ChannelOf("duplex", Alone({"exchange"}), 3),
    [ChannelOf("duplex", Alone({"exchange"}), 2) EXCEPT !.noise = 1],
    ChannelOf("framed", Alone({"write", "read", "assert_idle"}), 3),
    [ChannelOf("framed", Alone({"read", "assert_usable", "assert_idle"}), 2) EXCEPT !.noise = 3],
    [ChannelOf("framed", Alone({"write"}), 1) EXCEPT !.faults = 1, !.floods = TRUE],
    ChannelOf("framed", Both({"exchange", "write"}), 1) }
=============================================================================
