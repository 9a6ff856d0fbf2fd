--------------------------- MODULE MCOverlayRepair --------------------------
EXTENDS OverlayRepair, TLC

CONSTANTS b1, b2, r1, r2

Symm == Permutations(Slots)
Has == [r \in Roots |-> IF r = r1 THEN {b1} ELSE {b2}]
Local == [r \in Roots |-> IF r = r1 THEN {b2} ELSE {}]
=============================================================================
