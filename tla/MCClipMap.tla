------------------------------ MODULE MCClipMap -----------------------------
EXTENDS ClipMap
=============================================================================
