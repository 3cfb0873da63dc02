------------------------------- MODULE Switch -------------------------------
(***************************************************************************)
(* What a deploy promises the traffic of an environment. One release is    *)
(* live at the edge and one is committed. A new release may go live only   *)
(* when the live one is the committed one, so that there is always exactly *)
(* one release to go back to; then it is either committed or taken back.   *)
(* Going back never commits anything, and a commit never moves traffic.    *)
(***************************************************************************)
CONSTANTS Releases, None

VARIABLES live, committed

Init == live = None /\ committed = None

Flip ==
    /\ live = committed
    /\ live' \in Releases
    /\ UNCHANGED committed

Promote ==
    /\ committed' = live
    /\ UNCHANGED live

TakeBack ==
    /\ live' = committed
    /\ UNCHANGED committed

Next == Flip \/ Promote \/ TakeBack

Spec == Init /\ [][Next]_<<live, committed>>
=============================================================================
