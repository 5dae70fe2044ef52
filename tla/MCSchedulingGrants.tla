------------------------ MODULE MCSchedulingGrants ------------------------
(* Small instance of SchedulingGrants: a chain of up to four grants. *)
EXTENDS SchedulingGrants, TLC

CONSTANTS g1, g2, g3, g4, k1

MCGrantIds == {g1, g2, g3, g4}

Body(acts, dacts, maximum, cap, expires) ==
    [acts |-> acts, dacts |-> dacts, maximum |-> maximum, cap |-> cap, expires |-> expires]

(* Bodies that differ in one dimension at a time, wide enough that a child *)
(* can be refused in each, and that reach a delegation chain of depth 3.   *)
MCBodies ==
    {Body(Acts, Acts, 3, None, None),
     Body(Acts, {"seal"}, 2, None, None),
     Body(Acts, Acts, 1, 1, None),
     Body(Acts, {}, 0, 1, 2),
     Body({"seal"}, {"seal"}, 2, None, 1),
     Body({"seal"}, {}, 0, None, None)}

Symmetry == Permutations(MCGrantIds)
=============================================================================
