----------------------------- MODULE WriteZones -----------------------------
(***************************************************************************)
(* What the claim ledger promises of the directories of a Run: executions  *)
(* take and give back write zones, one at a time, and a zone is taken only *)
(* while no other task's execution holds an overlapping one.               *)
(***************************************************************************)
EXTENDS Naturals, Sequences

CONSTANTS Claims, TaskIds, Zones

VARIABLE held    \* the zones in use: [claim, task, zone]

Holding == [claim : Claims, task : TaskIds, zone : Zones]

(* zones_overlap: the same directory, or one inside the other. *)
Inside(inner, outer) ==
    Len(outer) <= Len(inner) /\ SubSeq(inner, 1, Len(outer)) = outer
Overlap(a, b) == Inside(a, b) \/ Inside(b, a)

Init == held = {}

(* A claim is a new execution: its claim_id has not been used for a zone in use. *)
Acquire(h) ==
    /\ \A g \in held : g.claim # h.claim
    /\ \A g \in held : g.task # h.task => ~Overlap(g.zone, h.zone)
    /\ held' = held \union {h}

Release(h) ==
    /\ h \in held
    /\ held' = held \ {h}

Next == \E h \in Holding : Acquire(h) \/ Release(h)

Spec == Init /\ [][Next]_held
=============================================================================
