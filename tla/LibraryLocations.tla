-------------------------- MODULE LibraryLocations --------------------------
(***************************************************************************)
(* What managed moves promise: every track has one place in the library,   *)
(* no two tracks share one, and a track changes place in a single step, to *)
(* a place that is free.  Neither a crash nor a power failure is a step.   *)
(***************************************************************************)
CONSTANTS Tracks, Paths

VARIABLE where   \* [Tracks -> Paths]

Injective(f) == \A t, u \in Tracks : f[t] = f[u] => t = u

Init == where \in {f \in [Tracks -> Paths] : Injective(f)}

Relocate(t, p) ==
    /\ \A u \in Tracks : where[u] # p
    /\ where' = [where EXCEPT ![t] = p]

Next == \E t \in Tracks, p \in Paths : Relocate(t, p)

Spec == Init /\ [][Next]_where
=============================================================================
