---------------------------- MODULE MCBrickStream ---------------------------
EXTENDS BrickStream, TLC

CONSTANTS c, f1, f2, f3, f4

Symm == Permutations(AtlasSlots)

\* Two fine blocks share a seam.
SeamF1 == [b \in Blocks |-> IF b = f1 THEN {f2} ELSE {}]
NoSeam == [b \in Blocks |-> {}]

TwoViews == {{c, f1, f2}, {c, f1, f3}}
TwoViewsZero == {{c, f1, f2, f4}, {f1, f3}}
=============================================================================
