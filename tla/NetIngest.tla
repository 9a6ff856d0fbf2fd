------------------------------ MODULE NetIngest -----------------------------
(***************************************************************************)
(* The fetchers of the renderer (bricks_net_request, ni_refresh_view and   *)
(* ni_worker of vk/vkbackend.c).  A cell is the unit that is fetched: its  *)
(* chunks are asked of a server, its bricks are written to files that      *)
(* outlive the session, and what is known of a brick is published in the   *)
(* presence map.  The render thread asks for the CT cells of its view and  *)
(* cancels the others; the decode worker asks for overlay cells.           *)
(*                                                                         *)
(* A step is a critical section of ni.mu, one answer of the server, one    *)
(* brick file written, or the look-up of a cell's files.  The in-flight    *)
(* list is the set of cells of the fetchers: it has room for as many as    *)
(* there may be fetchers.  Left out: sources that serve files in the       *)
(* renderer's own format, and the inference client.                        *)
(***************************************************************************)
EXTENDS Integers, FiniteSets, SequencesExt

CONSTANTS
  Workers,     \* fetchers
  Cells,       \* request identifiers
  Overlays,    \* the cells of overlay sources
  Chunks, ChunksOf, \* chunks of the sources, and those of a cell
  Bricks, CellOf,   \* brick files, and the cell of a brick
  Content,     \* Content[b]: the chunks with voxels of b that are not zero
  Absent,      \* chunks the server does not have: 404
  Later,       \* chunks it may accept as a job and deliver later: 202
  Views,       \* what a camera may show: sets of CT bricks
  QMax,        \* length of the queue, 256
  FailCap,     \* length of the back-off ring, 64
  MaxMoves, MaxFaults, \* bounds on moves, and on faults and restarts
  None

InCell(c) == {b \in Bricks : CellOf[b] = c}
CT == Cells \ Overlays

ASSUME IngestAssumption ==
  /\ Overlays \subseteq Cells /\ None \notin Cells \cup Bricks
  /\ ChunksOf \in [Cells -> SUBSET Chunks] /\ CellOf \in [Bricks -> Cells]
  /\ \A b \in Bricks : Content[b] \subseteq ChunksOf[CellOf[b]] \ Absent
  /\ \A c \in Cells : ChunksOf[c] # {} /\ InCell(c) # {}
  /\ Views \subseteq SUBSET {b \in Bricks : CellOf[b] \in CT}
  /\ {QMax, FailCap} \subseteq Nat \ {0} /\ {MaxMoves, MaxFaults} \subseteq Nat

VARIABLES
  file,      \* brick files: "none", "data", or "empty" for zeros (persistent)
  presence,  \* the presence map: "unknown", "disk" or "air"
  queue, qins, \* ni.queue, and where this pass inserts
  fail,      \* the back-off ring: "none", "hot" before its delay, "cold" after
  pc, cell, cancel, \* a fetcher's control state, its cell, transfer.cancel
  left,      \* what it still has to look up, fetch or write
  got,       \* chunks in its cell buffer
  bad,       \* netfail or pending
  cand,      \* the requests the render thread has yet to make in this pass
  view,      \* CT bricks in sight
  quit,      \* ni.quit
  moves, faults \* counters for the bounds

persistent == <<file, view, moves, faults>>
workerVars == <<pc, cell, cancel, left, got, bad>>
queueVars  == <<queue, qins, fail>>
vars == <<persistent, presence, queueVars, workerVars, cand, quit>>

\* Every field keeps its range; the queue keeps its length.
TypeOK ==
  /\ file \in [Bricks -> {"none", "data", "empty"}]
  /\ presence \in [Bricks -> {"unknown", "disk", "air"}]
  /\ queue \in Seq(Cells) /\ Len(queue) <= QMax /\ qins \in 0..Len(queue)
  /\ fail \in [Cells -> {"none", "hot", "cold"}]
  /\ Cardinality({c \in Cells : fail[c] # "none"}) <= FailCap
  /\ pc \in [Workers -> {"idle", "wait", "stat", "fetch", "write", "done", "exit"}]
  /\ cell \in [Workers -> Cells \cup {None}]
  /\ cancel \in [Workers -> BOOLEAN] /\ bad \in [Workers -> BOOLEAN]
  /\ left \in [Workers -> SUBSET (Bricks \cup Chunks)]
  /\ got \in [Workers -> SUBSET Chunks]
  /\ cand \subseteq Bricks
  /\ view \in Views /\ quit \in BOOLEAN
  /\ moves \in 0..MaxMoves /\ faults \in 0..MaxFaults

Each(v) == [w \in Workers |-> v]

Init ==
  /\ file = [b \in Bricks |-> "none"] /\ view \in Views
  /\ moves = 0 /\ faults = 0
  /\ pc = Each("idle") /\ cell = Each(None) /\ cancel = Each(FALSE) /\ bad = Each(FALSE)
  /\ left = Each({}) /\ got = Each({})
  /\ presence = [b \in Bricks |-> "unknown"]
  /\ queue = <<>> /\ qins = 0 /\ fail = [c \in Cells |-> "none"]
  /\ cand = {} /\ quit = FALSE

Queued   == {queue[i] : i \in 1..Len(queue)}
InFlight == {cell[w] : w \in Workers} \ {None}

-----------------------------------------------------------------------------
(* bricks_net_request. *)

\* pthread_cond_signal
Signal ==
  LET waiting == {w \in Workers : pc[w] = "wait"}
  IN IF waiting = {} THEN UNCHANGED pc ELSE \E w \in waiting : pc' = [pc EXCEPT ![w] = "idle"]

\* A new cell goes behind this pass's cells; a full queue drops its tail.
Insert(c) ==
  LET kept == SubSeq(queue, 1, IF Len(queue) >= QMax THEN QMax - 1 ELSE Len(queue))
      at == IF qins > Len(kept) THEN Len(kept) ELSE qins
  IN /\ queue' = InsertAt(kept, at + 1, c) /\ qins' = at + 1
     /\ Signal

\* A cell of an earlier pass joins this pass's cells.
Promote(c) ==
  LET i == CHOOSE i \in 1..Len(queue) : queue[i] = c
  IN IF i <= qins THEN UNCHANGED <<queue, qins>>
     ELSE queue' = InsertAt(RemoveAt(queue, i), qins + 1, c) /\ qins' = qins + 1

\* Mutants: what is in flight is not looked at; a cell that failed once is
\* never asked for again.
RequestAgain(c) ==
  IF fail[c] = "hot" THEN UNCHANGED <<queueVars, pc>>
  ELSE /\ fail' = [fail EXCEPT ![c] = "none"]
       /\ \/ c \in Queued /\ Promote(c) /\ UNCHANGED pc
          \/ c \notin Queued /\ Insert(c)
RequestOnce(c) ==
  /\ IF fail[c] = "none" /\ c \notin Queued \cup InFlight THEN Insert(c) ELSE UNCHANGED <<queue, qins, pc>>
  /\ UNCHANGED fail

Request(c) ==
  \/ fail[c] = "hot" /\ UNCHANGED <<queueVars, pc>>
  \/ /\ fail[c] # "hot" /\ fail' = [fail EXCEPT ![c] = "none"]
     /\ \/ c \in Queued /\ Promote(c) /\ UNCHANGED pc
        \/ c \in InFlight \ Queued /\ UNCHANGED <<queue, qins, pc>>
        \/ c \notin Queued \cup InFlight /\ Insert(c)

-----------------------------------------------------------------------------
(* The render thread and the decode worker. *)

RenderIdle == cand = {} /\ ~quit

\* Mutant: the source of a cell is not looked at.
UnwantedOfAnySource(wanted) == (Queued \cup InFlight) \ {CellOf[b] : b \in wanted}

Unwanted(wanted) == ((Queued \cup InFlight) \cap CT) \ {CellOf[b] : b \in wanted}

\* The positions of the cells that stay in the queue, in their order.
Staying(out) ==
  LET kept == {i \in 1..Len(queue) : queue[i] \notin out}
  IN {at \in Bijection(1..Cardinality(kept), kept) :
        \A i, j \in 1..Cardinality(kept) : i < j => at[i] < at[j]}

\* ni_refresh_view after a collect.  The candidates are the blocks in sight
\* that are not resident: all nobody knows of, and some being loaded.  What was
\* pending at the snapshot and is not any more needs no cancelling, and nobody
\* else queues CT cells, so the two critical sections are one step.
Refresh ==
  /\ RenderIdle
  /\ LET unknown == {b \in view : presence[b] = "unknown"}
     IN /\ \E loading \in SUBSET (view \ unknown) :
             LET out == Unwanted(unknown \cup loading)
             IN /\ \E at \in Staying(out) : queue' = [i \in DOMAIN at |-> queue[at[i]]]
                /\ qins' = 0
                /\ cancel' = [w \in Workers |-> cancel[w] \/ cell[w] \in out]
        /\ cand' = unknown
  /\ UNCHANGED <<persistent, presence, fail, pc, cell, left, got, bad, quit>>

\* r3d_bricks_stream_submit asks for what it finds unknown.  A block that has
\* become known is passed over, unless that came after the last look at it.
Ask ==
  /\ \E b \in cand :
       /\ cand' = cand \ {b}
       /\ \/ Request(CellOf[b])
          \/ presence[b] # "unknown" /\ UNCHANGED <<queueVars, pc>>
  /\ UNCHANGED <<persistent, presence, cell, cancel, left, got, bad, quit>>

\* The decode worker, or a collect pass, asks for an overlay it lacks.
AskOverlay ==
  /\ ~quit
  /\ \E b \in Bricks : CellOf[b] \in Overlays /\ presence[b] = "unknown" /\ Request(CellOf[b])
  /\ UNCHANGED <<persistent, presence, cell, cancel, left, got, bad, cand, quit>>

-----------------------------------------------------------------------------
(* ni_worker. *)

Take(w) ==
  /\ pc[w] = "idle"
  /\ \/ quit /\ pc' = [pc EXCEPT ![w] = "exit"] /\ UNCHANGED <<queue, qins, cell, cancel, left>>
     \/ /\ ~quit /\ queue = <<>> /\ pc' = [pc EXCEPT ![w] = "wait"]
        /\ UNCHANGED <<queue, qins, cell, cancel, left>>
     \/ /\ ~quit /\ queue # <<>>
        /\ pc' = [pc EXCEPT ![w] = "stat"]
        /\ cell' = [cell EXCEPT ![w] = Head(queue)]
        /\ cancel' = [cancel EXCEPT ![w] = FALSE]
        /\ left' = [left EXCEPT ![w] = InCell(Head(queue))]
        /\ queue' = Tail(queue) /\ qins' = IF qins = 0 THEN 0 ELSE qins - 1
  /\ UNCHANGED <<persistent, presence, fail, got, bad, cand, quit>>

Wakes(w) == pc[w] = "wait" /\ pc' = [pc EXCEPT ![w] = "idle"]
            /\ UNCHANGED <<persistent, presence, queueVars, cell, cancel, left, got, bad,
                           cand, quit>>

PresenceOf(f) == IF f = "data" THEN "disk" ELSE IF f = "empty" THEN "air" ELSE "unknown"

\* Files that are there are published up to the first that is missing; a cell
\* that has them all is done.
Stat(w) ==
  /\ pc[w] = "stat"
  /\ LET there == {b \in left[w] : file[b] # "none"}
         whole == there = left[w]
     IN \E found \in IF whole THEN {there} ELSE SUBSET there :
          /\ presence' = [b \in Bricks |-> IF b \in found THEN PresenceOf(file[b]) ELSE presence[b]]
          /\ pc' = [pc EXCEPT ![w] = IF whole THEN "done" ELSE "fetch"]
          /\ left' = [left EXCEPT ![w] = IF whole THEN {} ELSE ChunksOf[cell[w]]]
  /\ UNCHANGED <<persistent, queueVars, cell, cancel, got, bad, cand, quit>>

\* What the server may say about a chunk: its data, 404, 202, no answer or an
\* error code, a body that is not the chunk's.
Answers(k) == {IF k \in Absent THEN "absent" ELSE "data"}
              \cup (IF faults = MaxFaults THEN {} ELSE
                    {"error", "garbage"} \cup (IF k \in Later THEN {"later"} ELSE {}))

\* Mutant: a body that does not decode counts as air.
ReadsGarbage(a) == IF a = "garbage" THEN "absent" ELSE IF a \in {"later", "error"} THEN "bad" ELSE a

\* How the fetcher reads an answer (ni_chunk_decode checks the body).
Reads(a) == IF a \in {"later", "error", "garbage"} THEN "bad" ELSE a

Fetch(w) ==
  /\ pc[w] = "fetch"
  /\ \E k \in left[w] : \E a \in Answers(k) :
       LET r == Reads(a)
           stop == cancel[w] \/ quit \/ r \notin {"data", "absent"}
       IN /\ faults' = IF a \in {"data", "absent"} THEN faults ELSE faults + 1
          /\ bad' = [bad EXCEPT ![w] = ~cancel[w] /\ r \notin {"data", "absent"}]
          /\ got' = IF r = "data" /\ ~stop THEN [got EXCEPT ![w] = @ \cup {k}] ELSE got
          /\ IF stop THEN pc' = [pc EXCEPT ![w] = "done"] /\ left' = [left EXCEPT ![w] = {}]
             ELSE IF left[w] = {k}
               THEN pc' = [pc EXCEPT ![w] = "write"] /\ left' = [left EXCEPT ![w] = InCell(cell[w])]
               ELSE pc' = pc /\ left' = [left EXCEPT ![w] = @ \ {k}]
  /\ UNCHANGED <<file, view, moves, presence, queueVars, cell, cancel, cand, quit>>

\* The file a fetcher writes for b: an existing file stays.
Written(w, b) ==
  IF file[b] # "none" THEN file[b] ELSE IF Content[b] \cap got[w] = {} THEN "empty" ELSE "data"

\* A file is complete or not there (ni_write_file); writing it may fail.
Write(w) ==
  /\ pc[w] = "write"
  /\ \E b \in left[w], fails \in BOOLEAN :
       /\ fails => file[b] = "none" /\ faults < MaxFaults
       /\ faults' = IF fails THEN faults + 1 ELSE faults
       /\ file' = IF fails THEN file ELSE [file EXCEPT ![b] = Written(w, b)]
       /\ presence' = [presence EXCEPT ![b] = IF fails THEN "unknown" ELSE PresenceOf(Written(w, b))]
       /\ left' = [left EXCEPT ![w] = @ \ {b}]
       /\ pc' = IF left[w] = {b} THEN [pc EXCEPT ![w] = "done"] ELSE pc
  /\ UNCHANGED <<view, moves, queueVars, cell, cancel, got, bad, cand, quit>>

\* The ring takes a failed cell; a full ring forgets another one.
BackOff(c) ==
  LET ring == {x \in Cells : fail[x] # "none"}
      lost == IF c \notin ring /\ Cardinality(ring) >= FailCap THEN {{x} : x \in ring} ELSE {{}}
  IN \E l \in lost : fail' = [x \in Cells |-> IF x = c THEN "hot" ELSE IF x \in l THEN "none" ELSE fail[x]]

\* fetch_done
Done(w) ==
  /\ pc[w] = "done"
  /\ IF bad[w] /\ ~cancel[w] /\ ~quit THEN BackOff(cell[w]) ELSE UNCHANGED fail
  /\ pc' = [pc EXCEPT ![w] = "idle"] /\ cell' = [cell EXCEPT ![w] = None]
  /\ bad' = [bad EXCEPT ![w] = FALSE] /\ got' = [got EXCEPT ![w] = {}]
  /\ cancel' = [cancel EXCEPT ![w] = FALSE]
  /\ UNCHANGED <<persistent, presence, queue, qins, left, cand, quit>>

-----------------------------------------------------------------------------
(* Time, the camera, lost hints, teardown and restart. *)

Expire(c) ==
  /\ fail[c] = "hot" /\ fail' = [fail EXCEPT ![c] = "cold"]
  /\ UNCHANGED <<persistent, presence, queue, qins, workerVars, cand, quit>>

Move ==
  /\ RenderIdle /\ moves < MaxMoves
  /\ view' \in Views \ {view} /\ moves' = moves + 1
  /\ UNCHANGED <<file, faults, presence, queueVars, workerVars, cand, quit>>

\* The presence map is full and forgets a hint (ni_presence_set).
Forget(b) ==
  /\ presence[b] # "unknown" /\ faults < MaxFaults
  /\ presence' = [presence EXCEPT ![b] = "unknown"] /\ faults' = faults + 1
  /\ UNCHANGED <<file, view, moves, queueVars, workerVars, cand, quit>>

\* Mutant: the fetchers that sleep are not told.
QuitQuietly ==
  /\ RenderIdle /\ faults < MaxFaults
  /\ quit' = TRUE /\ faults' = faults + 1 /\ UNCHANGED pc
  /\ UNCHANGED <<file, view, moves, presence, queueVars, cell, cancel, left, got, bad, cand>>

\* bricks_teardown, which has joined the decode worker, wakes the fetchers.
Quit ==
  /\ RenderIdle /\ faults < MaxFaults
  /\ quit' = TRUE /\ faults' = faults + 1
  /\ pc' = [w \in Workers |-> IF pc[w] = "wait" THEN "idle" ELSE pc[w]]
  /\ UNCHANGED <<file, view, moves, presence, queueVars, cell, cancel, left, got, bad, cand>>

\* The next session begins after a teardown, or after the program stopped at
\* any point; only the files are left.
Restart ==
  /\ \/ quit /\ (\A w \in Workers : pc[w] = "exit") /\ UNCHANGED faults
     \/ ~quit /\ faults < MaxFaults /\ faults' = faults + 1
  /\ pc' = Each("idle") /\ cell' = Each(None) /\ cancel' = Each(FALSE) /\ bad' = Each(FALSE)
  /\ left' = Each({}) /\ got' = Each({})
  /\ presence' = [b \in Bricks |-> "unknown"]
  /\ queue' = <<>> /\ qins' = 0 /\ fail' = [c \in Cells |-> "none"]
  /\ cand' = {} /\ quit' = FALSE
  /\ UNCHANGED <<file, view, moves>>

-----------------------------------------------------------------------------
WorkerStep(w) == Take(w) \/ Stat(w) \/ Fetch(w) \/ Write(w) \/ Done(w)

Next ==
  \/ Refresh \/ Ask \/ AskOverlay \/ Move \/ Quit \/ Restart
  \/ \E w \in Workers : WorkerStep(w) \/ Wakes(w)
  \/ \E c \in Cells : Expire(c)
  \/ \E b \in Bricks : Forget(b)

Fairness ==
  /\ WF_vars(Refresh) /\ WF_vars(Ask)
  /\ \A w \in Workers : WF_vars(WorkerStep(w))
  /\ \A c \in Cells : WF_vars(Expire(c))

Spec == Init /\ [][Next]_vars /\ Fairness

-----------------------------------------------------------------------------
\* What the server has is never taken for air, in memory or on disk, in this
\* session or a later one, whatever the network and the disk did in between;
\* and the presence map only names files that are there.
NoFalseAir ==
  \A b \in Bricks :
    /\ file[b] = "empty" \/ presence[b] = "air" => Content[b] = {}
    /\ presence[b] = "disk" => file[b] = "data"

\* A cell is queued once, and never while it is being fetched, so that two
\* fetchers never write the files of one cell; and not at all while the delay
\* after its failure is running.
OneFetcher ==
  /\ TypeOK
  /\ \A i, j \in 1..Len(queue) : queue[i] = queue[j] => i = j
  /\ Queued \cap InFlight = {}
  /\ \A v, w \in Workers : cell[v] = cell[w] /\ cell[v] # None => v = w
  /\ \A c \in Cells : fail[c] = "hot" => c \notin Queued \cup InFlight

\* A camera movement never cancels an overlay cell.
OverlayNotCancelled ==
  \A w \in Workers : cancel[w] => cell[w] \in CT

\* Once the camera rests and the faults are over, everything in sight becomes
\* known: dropped, cancelled, failed and forgotten cells are asked for again.
WantedBecomeKnown ==
  <>[](quit \/ \A b \in view : presence[b] # "unknown")

\* A teardown does not wait for a fetcher for ever.
QuitDrains ==
  quit ~> (~quit \/ \A w \in Workers : pc[w] = "exit")

\* Brick by brick the presence map is what streaming relies on: every step lets a
\* brick arrive, as air exactly when the server has nothing of it, or forgets it,
\* and what two fetchers, or two sessions, say of it never differs.
TierOf == [unknown |-> "missing", disk |-> "local", air |-> "absent"]
Tier(b) == INSTANCE BlockTier WITH
  Keys <- {b}, Empty <- {x \in Bricks : Content[x] = {}},
  tier <- [k \in {b} |-> TierOf[presence[k]]]
TierStep == \A b \in Bricks : UNCHANGED TierOf[presence[b]] \/ Tier(b)!Next
PublishesTiers == [][TierStep]_vars
=============================================================================
