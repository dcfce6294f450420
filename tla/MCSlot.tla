------------------------------- MODULE MCSlot -------------------------------
(* Instances of Slot for TLC.  The generations are two versions of one     *)
(* group; an instance bounds how often anything may go wrong.              *)
EXTENDS Slot

CONSTANTS g1, g2

OneGeneration  == {g1}
TwoGenerations == {g1, g2}
=============================================================================
