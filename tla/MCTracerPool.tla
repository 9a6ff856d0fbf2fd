---------------------------- MODULE MCTracerPool ----------------------------
EXTENDS TracerPool

\* Cells of a line that are two apart are clear of each other.
Line == {p \in Cells \X Cells : p[1] - p[2] \in -1..1}
=============================================================================
