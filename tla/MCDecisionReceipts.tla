----------------------- MODULE MCDecisionReceipts -----------------------
(* Two payloads, against the first two revisions, two racing threads. *)
EXTENDS DecisionReceipts, TLC

CONSTANTS p1, p2, k1, k2, th1, th2

MCExpected == [p \in {p1, p2} |-> IF p = p2 THEN 1 ELSE 0]
=============================================================================
