------------------------------ MODULE WarmTier ------------------------------
(***************************************************************************)
(* The warm tier of vk/vkbackend.c: an arena of compressed blobs with an   *)
(* offset-sorted first-fit free list.  The selection of a batch asks for   *)
(* blobs (warm_get) and may evict others; the batch is then decoded from   *)
(* these very bytes while frames go on, and the next selection begins when *)
(* it has ended.  Lengths are in granules of 64 bytes (warm_align).        *)
(***************************************************************************)
EXTENDS Integers, Sequences, SequencesExt, FiniteSets

CONSTANTS
  Chunks,    \* source chunks
  Len64,     \* Len64[c]: granules of the blob of chunk c
  Cap,       \* granules of the arena (warm_cap)
  MaxWarmFrames, \* bound: frames
  NoBlob         \* BR_INVALID, and the blob of the source mapping

WarmAssumption ==
  /\ Len64 \in [Chunks -> Nat \ {0}] /\ Cap \in Nat \ {0} /\ MaxWarmFrames \in Nat \ {0}
  /\ NoBlob \notin Chunks /\ NoBlob \notin 0..(Cap - 1)

VARIABLES
  wfree,     \* the free list: nodes [off, len]
  warmOff,   \* warm_off[c]: where the blob is, or NoBlob
  warmUse,   \* warm_use[c]: frame of its last use
  warmFrame, \* bs.frame
  arena,     \* arena[g]: chunk whose blob was copied to granule g last, or NoBlob
  warmWant,  \* the chunk warm_get is making room for, or NoBlob
  srcs,      \* blobs of the batch: pairs of a chunk and its offset (or NoBlob)
  decoding   \* the batch has been handed to the decoder

warmVars == <<wfree, warmOff, warmUse, warmFrame, arena, warmWant, srcs, decoding>>

Nodes == [off : 0..(Cap - 1), len : 1..Cap]
Span(off, len) == off..(off + len - 1)
Warm == {c \in Chunks : warmOff[c] # NoBlob}

WarmTypeOK ==
  /\ wfree \in Seq(Nodes)
  /\ warmOff \in [Chunks -> (0..(Cap - 1)) \cup {NoBlob}]
  /\ warmUse \in [Chunks -> 0..warmFrame] /\ warmFrame \in 1..MaxWarmFrames
  /\ arena \in [0..(Cap - 1) -> Chunks \cup {NoBlob}]
  /\ warmWant \in Chunks \cup {NoBlob}
  /\ srcs \subseteq Chunks \X ((0..(Cap - 1)) \cup {NoBlob})
  /\ decoding \in BOOLEAN

WarmInit ==
  /\ wfree = <<[off |-> 0, len |-> Cap]>>
  /\ warmOff = [c \in Chunks |-> NoBlob]
  /\ warmUse = [c \in Chunks |-> 0]
  /\ warmFrame = 1
  /\ arena = [g \in 0..(Cap - 1) |-> NoBlob]
  /\ warmWant = NoBlob /\ srcs = {} /\ decoding = FALSE

-----------------------------------------------------------------------------
(* The allocator.                                                          *)

\* warm_alloc: the nodes the first fit leaves.
Fits(len) == {i \in DOMAIN wfree : wfree[i].len >= len}
FirstFit(len) == {i \in Fits(len) : \A j \in Fits(len) : i <= j}

Taken(i, len) ==
  IF wfree[i].len = len
    THEN RemoveAt(wfree, i)
    ELSE [wfree EXCEPT ![i] = [off |-> @.off + len, len |-> @.len - len]]

\* warm_release: where the block goes, and which neighbours it joins.
Before(fl, off) == Cardinality({i \in DOMAIN fl : fl[i].off < off})
EndOf(node) == node.off + node.len

Released(fl, off, len) ==
  LET i == Before(fl, off)
      node == [off |-> off, len |-> len]
      next == i < Len(fl) /\ EndOf(node) = fl[i + 1].off
      grown == IF next THEN [node EXCEPT !.len = @ + fl[i + 1].len] ELSE node
      rest == IF next THEN RemoveAt(fl, i + 1) ELSE fl
  IN IF i > 0 /\ EndOf(fl[i]) = off
       THEN [rest EXCEPT ![i].len = @ + grown.len]
       ELSE InsertAt(rest, i + 1, grown)

-----------------------------------------------------------------------------
(* warm_get.                                                               *)

\* Mutant: entries of the current frame are as good as any.
OldOrNot(c) == c \in Warm

\* warm_evict_one: a least recently used entry that this frame has not used.
Old(c) == c \in Warm /\ warmUse[c] # warmFrame

Evictable == {c \in Chunks : Old(c) /\ \A d \in Chunks : Old(d) => warmUse[c] <= warmUse[d]}

WarmHit(c) ==
  /\ ~decoding /\ warmWant = NoBlob /\ c \in Warm
  /\ warmUse' = [warmUse EXCEPT ![c] = warmFrame]
  /\ srcs' = srcs \cup {<<c, warmOff[c]>>}
  /\ UNCHANGED <<wfree, warmOff, warmFrame, arena, warmWant, decoding>>

WarmMiss(c) ==
  /\ ~decoding /\ warmWant = NoBlob /\ c \notin Warm
  /\ IF Len64[c] > Cap
       THEN srcs' = srcs \cup {<<c, NoBlob>>} /\ UNCHANGED warmWant
       ELSE warmWant' = c /\ UNCHANGED srcs
  /\ UNCHANGED <<wfree, warmOff, warmUse, warmFrame, arena, decoding>>

\* Room is found: the blob is copied and listed.
Place ==
  /\ warmWant # NoBlob
  /\ \E i \in FirstFit(Len64[warmWant]) :
       LET c == warmWant
           off == wfree[i].off
       IN /\ wfree' = Taken(i, Len64[c])
          /\ arena' = [g \in DOMAIN arena |-> IF g \in Span(off, Len64[c]) THEN c ELSE arena[g]]
          /\ warmOff' = [warmOff EXCEPT ![c] = off]
          /\ warmUse' = [warmUse EXCEPT ![c] = warmFrame]
          /\ srcs' = srcs \cup {<<c, off>>}
  /\ warmWant' = NoBlob
  /\ UNCHANGED <<warmFrame, decoding>>

\* Room is found and given back, because warm_list cannot grow.
PlaceFails ==
  /\ warmWant # NoBlob
  /\ \E i \in FirstFit(Len64[warmWant]) :
       wfree' = Released(Taken(i, Len64[warmWant]), wfree[i].off, Len64[warmWant])
  /\ srcs' = srcs \cup {<<warmWant, NoBlob>>}
  /\ warmWant' = NoBlob
  /\ UNCHANGED <<warmOff, warmUse, warmFrame, arena, decoding>>

EvictBlob ==
  /\ warmWant # NoBlob /\ Fits(Len64[warmWant]) = {}
  /\ \/ \E c \in Evictable :
          /\ wfree' = Released(wfree, warmOff[c], Len64[c])
          /\ warmOff' = [warmOff EXCEPT ![c] = NoBlob]
          /\ UNCHANGED <<warmWant, srcs>>
     \/ /\ Evictable = {}
        /\ srcs' = srcs \cup {<<warmWant, NoBlob>>}
        /\ warmWant' = NoBlob
        /\ UNCHANGED <<wfree, warmOff>>
  /\ UNCHANGED <<warmUse, warmFrame, arena, decoding>>

-----------------------------------------------------------------------------
(* The frame loop around it.                                               *)

\* The selection ends and its batch is decoded.
BatchLaunched ==
  /\ ~decoding /\ warmWant = NoBlob /\ srcs # {}
  /\ decoding' = TRUE
  /\ UNCHANGED <<wfree, warmOff, warmUse, warmFrame, arena, warmWant, srcs>>

BatchDone ==
  /\ decoding
  /\ decoding' = FALSE /\ srcs' = {}
  /\ UNCHANGED <<wfree, warmOff, warmUse, warmFrame, arena, warmWant>>

\* A frame ends, with or without a batch in the decoder, but not within a
\* selection.
NextFrame ==
  /\ warmFrame < MaxWarmFrames /\ (decoding \/ srcs = {}) /\ warmWant = NoBlob
  /\ warmFrame' = warmFrame + 1
  /\ UNCHANGED <<wfree, warmOff, warmUse, arena, warmWant, srcs, decoding>>

WarmNext ==
  \/ \E c \in Chunks : WarmHit(c) \/ WarmMiss(c)
  \/ Place \/ PlaceFails \/ EvictBlob \/ BatchLaunched \/ BatchDone \/ NextFrame

WarmSpec == WarmInit /\ [][WarmNext]_warmVars

-----------------------------------------------------------------------------
(* Properties.                                                             *)

\* However often blobs of different lengths come and go, every granule is
\* either free or in one blob, and the free list is sorted with no two nodes
\* that touch: what is free together can be allocated together.
ArenaTiled ==
  /\ WarmTypeOK
  /\ \A i \in 1..(Len(wfree) - 1) : EndOf(wfree[i]) < wfree[i + 1].off
  /\ \A g \in 0..(Cap - 1) :
       LET free == {i \in DOMAIN wfree : g \in Span(wfree[i].off, wfree[i].len)}
           used == {c \in Warm : g \in Span(warmOff[c], Len64[c])}
       IN Cardinality(free) + Cardinality(used) = 1

\* The bytes a batch was given stay those of its chunks until it is decoded:
\* later selections of the same frame may evict, but not what it uses.
BatchKeepsItsBytes ==
  /\ ArenaTiled
  /\ \A s \in srcs : s[2] # NoBlob => \A g \in Span(s[2], Len64[s[1]]) : arena[g] = s[1]
=============================================================================
