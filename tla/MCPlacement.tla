---------------------------- MODULE MCPlacement -----------------------------
(***************************************************************************)
(* A hub with room of its own beside a member: the instance in which an    *)
(* environment the hub holds can be placed again.                          *)
(***************************************************************************)
EXTENDS Placement, TLC

ByName      == [hub |-> 1, m1 |-> 2]
BothRoom    == [hub |-> 2, m1 |-> 2]
NoPins      == "x" :> ""
=============================================================================
