----------------------------- MODULE MCDeviceSync -----------------------------
(* DeviceSync with two tracks and two lists; the bounds are in the .cfg files. *)
EXTENDS DeviceSync, TLC

CONSTANTS t1, t2, c1, c2, x, y

\* One list, the list with a track put before it, the other list alone, both, the
\* first without tracks and the second in the other order, and nothing.
MCSelectable ==
    {(1 :> <<t1>>), (1 :> <<t2, t1>>), (2 :> <<t2>>), (1 :> <<>>) @@ (2 :> <<t1, t2>>),
     [l \in {} |-> <<>>]}

\* One list is ticked first; the tracks have their own contents and titles.
MCInit ==
    /\ Init
    /\ selection = (1 :> <<t1>>)
    /\ content = (t1 :> c1) @@ (t2 :> c2)
    /\ title = (t1 :> x) @@ (t2 :> y)

MCSpec == MCInit /\ [][Next]_vars
MCFairSpec == MCSpec /\ Fairness
=============================================================================
