--------------------------- MODULE MCPointsLedger ---------------------------
(* Small instances of PointsLedger. *)
EXTENDS PointsLedger, TLC

CONSTANTS c1, c2, p1, p2, r1, r2, r3, r4, k1, k2, k3, k4

\* p1 is worth 2 points, every other package 1.
MCPointsOf == [p \in Packages |-> IF p = p1 THEN 2 ELSE 1]

\* Requests and keys are interchangeable.
RequestAndKeySymmetry == Permutations(Requests) \cup Permutations(Keys)

MCAmounts == {-1, 2}
=============================================================================
