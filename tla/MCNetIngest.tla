----------------------------- MODULE MCNetIngest ----------------------------
EXTENDS NetIngest

CONSTANTS c1, c2, o1, k1, k2, k3, k4, b1, b2, b3, b4

\* Cell c1 has a chunk with data and one the server lacks, and a brick that
\* is zero; c2 and the overlay cell o1 have one chunk and one brick each.
ChunksIn == [c \in Cells |-> CASE c = c1 -> {k1, k2} [] c = c2 -> {k3} [] c = o1 -> {k4}]
BrickIn == [b \in Bricks |-> CASE b \in {b1, b2} -> c1 [] b = b3 -> c2 [] b = b4 -> o1]
Voxels == [b \in Bricks |-> CASE b = b1 -> {k1} [] b = b2 -> {} [] b = b3 -> {k3} [] b = b4 -> {k4}]
Sights == {{b1, b2}, {b2, b3}}
=============================================================================
