----------------------------- MODULE MCPageTable ----------------------------
EXTENDS PageTable

CONSTANTS k1, k2, k3, k4

\* A cluster that wraps around the end of the table.
Homes == [k \in Keys |-> IF k \in {k1, k2} THEN Cap - 1 ELSE IF k = k3 THEN 0 ELSE 2]
Uninitialised == {[i \in Buckets |-> [key |-> k, val |-> Zero]] : k \in {k4}}
=============================================================================
