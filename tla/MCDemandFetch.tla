---------------------------- MODULE MCDemandFetch ---------------------------
EXTENDS DemandFetch

CONSTANTS b1, b2, t1, t2, v, w

\* Two volumes that are open on one directory, one cell.
Two == [t \in Samplers |-> IF t = t1 THEN v ELSE w]
OneCell == [x \in VolBricks |-> VolBricks]
=============================================================================
