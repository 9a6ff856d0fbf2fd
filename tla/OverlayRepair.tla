---------------------------- MODULE OverlayRepair ---------------------------
(***************************************************************************)
(* One overlay tree over the brick atlas (vk/vkbackend.c): every slot that *)
(* holds a CT block also has voxels of the overlay.  Where no local tier   *)
(* has them yet the worker uploads zeros, flags the slot and asks the      *)
(* fetch pool; a fetch publishes the block's presence and then rings       *)
(* ni.fetched2, which makes the render thread post a repair job.  The      *)
(* overlay can be switched to another tree while all this goes on.         *)
(*                                                                         *)
(* Residency is reduced to the blocks slots hold (BrickStream models it),  *)
(* a job to one slot, and a chunk of the cache to one block.               *)
(***************************************************************************)
EXTENDS Integers, FiniteSets

CONSTANTS
  Blocks, Slots, Roots,
  HasOverlay, \* HasOverlay[r]: blocks the server of tree r can supply
  Shards,     \* Shards[r]: blocks in local shards of tree r
  MaxFails,   \* bound: fetches that fail or answer 202
  MaxBad,     \* bound: cache reads that fail (ni_load_brick)
  RepairMayFail, \* whether those of repair jobs may fail
  MaxTurns,   \* bound: blocks streamed in and switches of the tree
  None

ASSUME OverlayAssumption ==
  /\ HasOverlay \in [Roots -> SUBSET Blocks] /\ Shards \in [Roots -> SUBSET Blocks]
  /\ None \notin Blocks \cup Slots \cup Roots /\ None \notin Roots \X Blocks
  /\ {MaxFails, MaxBad, MaxTurns} \subseteq Nat /\ RepairMayFail \in BOOLEAN

VARIABLES
  root,       \* the overlay tree shown (ink_root), None before the first
  slotBrick,  \* bs.slot_brick
  miss,       \* bs.ink_missing: slots whose overlay is owed
  overlay,    \* overlay atlas: <<tree, block>> whose voxels a slot holds, or None for zeros
  ct,         \* CT atlas: the block whose voxels a slot holds, or None
  have,       \* ni.have2: "unknown", "disk" or "absent"
  disk,       \* disk[r]: blocks with a cache file of tree r
  news,       \* ni.fetched2 # bs.ink_fetch_seen
  newer,      \* ni.fetched2 moved since this r3d_bricks_stream_begin read it
  rung,       \* ni.fetched2 # 0
  queue,      \* ni.queue: blocks asked for
  flight,     \* ni.inflight: the <<tree, block>> a fetch worker has taken, or None
  fetch,      \* where that worker is: "idle", "run" or "done" (with the outcome in ring)
  ring,       \* what it will ring for: a "file" it found, a "chunk" it fetched, "none"
  cancel,     \* its transfer.cancel
  rpc,        \* the render thread: "begin", "scan", "submit", "drain", "retire", "open", "copy"
  scanned,    \* the slots its scan has looked at
  next,       \* the tree an open or a switch goes to
  state,      \* bs.job_state
  job,        \* the posted slot, and "stream" or "repair"
  step,       \* where the decode worker is
  raw,        \* bs.raw_host: what was decoded last, "ct" bytes or "ov" bytes
  fails, bad, turns \* bound counters

slotVars  == <<slotBrick, miss, overlay, ct>>
fetchVars == <<have, disk, queue, flight, fetch, ring, cancel>>
bellVars  == <<news, newer, rung>>
jobVars   == <<state, job, step, raw>>
viewVars  == <<root, rpc, scanned, next>>
bounds    == <<fails, bad, turns>>
vars == <<slotVars, fetchVars, bellVars, jobVars, viewVars, bounds>>

\* Every field keeps its range; a running job has a worker step and a fetch in
\* flight has a fetcher.
TypeOK ==
  /\ root \in Roots \cup {None} /\ next \in Roots \cup {None}
  /\ slotBrick \in [Slots -> Blocks \cup {None}]
  /\ miss \subseteq Slots
  /\ overlay \in [Slots -> (Roots \X Blocks) \cup {None}]
  /\ ct \in [Slots -> Blocks \cup {None}]
  /\ have \in [Blocks -> {"unknown", "disk", "absent"}]
  /\ disk \in [Roots -> SUBSET Blocks]
  /\ {news, newer, rung, cancel} \subseteq BOOLEAN
  /\ ring \in {"none", "file", "chunk"} /\ scanned \subseteq Slots
  /\ queue \subseteq Blocks /\ flight \in (Roots \X Blocks) \cup {None}
  /\ fetch \in {"idle", "run", "done"}
  /\ rpc \in {"begin", "scan", "submit", "drain", "retire", "open", "copy"}
  /\ state \in 0..3 /\ job \in [slot : Slots \cup {None}, kind : {"stream", "repair"}]
  /\ step \in {"idle", "ct", "upload", "overlay"} /\ raw \in {"ct", "ov"}
  /\ (step # "idle") = (state = 2) /\ (flight # None) = (fetch # "idle")
  /\ fails \in 0..MaxFails /\ bad \in 0..MaxBad /\ turns \in 0..MaxTurns

\* Cache files may be there from an earlier session.
InitWith(r) ==
  /\ root = r /\ next = r /\ rpc = "begin" /\ scanned = {}
  /\ slotBrick = [s \in Slots |-> None] /\ ct = slotBrick
  /\ overlay = [s \in Slots |-> None] /\ miss = {}
  /\ have = [b \in Blocks |-> "unknown"]
  /\ disk \in {d \in [Roots -> SUBSET Blocks] : \A t \in Roots : d[t] \in {{}, HasOverlay[t]}}
  /\ news = FALSE /\ newer = FALSE /\ rung = FALSE
  /\ queue = {} /\ flight = None /\ fetch = "idle" /\ ring = "none" /\ cancel = FALSE
  /\ state = 0 /\ job = [slot |-> None, kind |-> "stream"] /\ step = "idle" /\ raw = "ct"
  /\ fails = 0 /\ bad = 0 /\ turns = 0

-----------------------------------------------------------------------------
(* The render thread. *)

\* bricks_net_request for the blocks of bs: definitively absent ones are not
\* asked for again, queued and running ones are known.
Request(bs) ==
  queue' = queue \cup {b \in bs : have[b] # "absent" /\ <<root, b>> # flight}

\* r3d_bricks_stream_begin up to its read of ni.fetched2; a posted or running
\* job leaves the loop as it is.
Begin ==
  /\ rpc = "begin"
  /\ state \in {0, 3}
  /\ state' = 0
  /\ rpc' = IF root # None /\ news THEN "scan" ELSE "submit"
  /\ newer' = FALSE
  /\ UNCHANGED <<slotVars, fetchVars, news, rung, job, step, raw, root, scanned, next, bounds>>

\* Mutant: a slot nothing is known of is taken for answered.
AnsweredOrNot(s) == TRUE

\* bricks_ink_repair_post looks at one slot after the other: the flag of an
\* empty slot or of one whose overlay does not exist is dropped, the first
\* decodable one becomes a job.
Answered(s) == have[slotBrick[s]] # "unknown"
ScanSlot ==
  /\ rpc = "scan"
  /\ \E s \in Slots \ scanned :
       LET owed == s \in miss /\ slotBrick[s] # None
       IN \/ /\ owed => have[slotBrick[s]] # "disk"
             /\ miss' = IF owed /\ ~Answered(s) THEN miss ELSE miss \ {s}
             /\ scanned' = scanned \cup {s}
             /\ UNCHANGED <<rpc, state, job>>
          \/ /\ owed /\ have[slotBrick[s]] = "disk"
             /\ miss' = miss \ {s}
             /\ state' = 1 /\ job' = [slot |-> s, kind |-> "repair"]
             /\ scanned' = {} /\ rpc' = "begin"
  /\ UNCHANGED <<slotBrick, overlay, ct, fetchVars, bellVars, step, raw, root, next, bounds>>

\* Nothing to decode: bs.ink_fetch_seen becomes what Begin read.
ScanEnd ==
  /\ rpc = "scan" /\ scanned = Slots
  /\ news' = newer
  /\ scanned' = {} /\ rpc' = "submit"
  /\ UNCHANGED <<slotVars, fetchVars, newer, rung, jobVars, root, next, bounds>>

\* The collects ask again for every resident block whose overlay is owed
\* (bricks_candidate); then a new block may get a slot.
Submit ==
  /\ rpc = "submit"
  /\ IF root = None THEN UNCHANGED queue ELSE Request({slotBrick[s] : s \in miss} \ {None})
  /\ \/ UNCHANGED <<slotBrick, state, job, turns>>
     \/ /\ turns < MaxTurns /\ turns' = turns + 1
        /\ \E s \in Slots, b \in Blocks :
             /\ \A t \in Slots : slotBrick[t] # b
             /\ slotBrick' = [slotBrick EXCEPT ![s] = b]
             /\ job' = [slot |-> s, kind |-> "stream"]
        /\ state' = 1
  /\ rpc' = "begin"
  /\ UNCHANGED <<miss, overlay, ct, have, disk, flight, fetch, ring, cancel, bellVars,
                 step, raw, root, scanned, next, fails, bad>>

\* bricks_overlay_switch_ov: drain the decode job, retire the requests for the
\* old tree, wait out a running fetch, and open the new tree.  The first open
\* of a session's first tree takes the early return into bricks_overlay_open.
Switch ==
  /\ rpc = "begin" /\ turns < MaxTurns /\ turns' = turns + 1
  /\ next' \in Roots
  /\ rpc' = IF root = None THEN "open" ELSE "drain"
  /\ UNCHANGED <<slotVars, fetchVars, bellVars, jobVars, root, scanned, fails, bad>>

\* Mutant: the decode job is not waited for.
DrainAtOnce ==
  /\ rpc = "drain"
  /\ rpc' = "retire"
  /\ UNCHANGED <<slotVars, fetchVars, bellVars, jobVars, root, scanned, next, bounds>>

Drain ==
  /\ rpc = "drain" /\ state \notin {1, 2}
  /\ rpc' = "retire"
  /\ UNCHANGED <<slotVars, fetchVars, bellVars, jobVars, root, scanned, next, bounds>>

Retire ==
  /\ rpc = "retire"
  /\ queue' = {}
  /\ cancel' = (cancel \/ flight # None)
  /\ rpc' = IF flight = None THEN "open" ELSE "retire"
  /\ UNCHANGED <<slotVars, have, disk, flight, fetch, ring, bellVars, jobVars, root, scanned, next, bounds>>

\* Mutant: the atlas of the old tree is kept.
OpenKeepsAtlas ==
  /\ rpc = "open"
  /\ root' = next
  /\ raw' = "ov"
  /\ rpc' = "copy"
  /\ UNCHANGED <<slotVars, fetchVars, bellVars, state, job, step, scanned, next, bounds>>

\* bricks_overlay_open: a fresh atlas, the resident slots decoded from local
\* shards into raw_host, and then uploaded through the staging buffer.
Open ==
  /\ rpc = "open"
  /\ root' = next
  /\ overlay' = [s \in Slots |-> None]
  /\ raw' = "ov"
  /\ rpc' = "copy"
  /\ UNCHANGED <<slotBrick, miss, ct, fetchVars, bellVars, state, job, step, scanned, next, bounds>>

\* The end of bricks_overlay_open with ni_overlay_source: presence starts
\* afresh, and every resident slot is flagged.
Copy ==
  /\ rpc = "copy"
  /\ overlay' = [s \in Slots |-> IF slotBrick[s] \in Shards[root]
                                 THEN <<root, slotBrick[s]>> ELSE overlay[s]]
  /\ have' = [b \in Blocks |-> "unknown"]
  /\ miss' = {s \in Slots : slotBrick[s] # None}
  /\ news' = rung
  /\ rpc' = "begin"
  /\ UNCHANGED <<slotBrick, ct, disk, queue, flight, fetch, ring, cancel, newer, rung,
                 jobVars, root, scanned, next, bounds>>

-----------------------------------------------------------------------------
(* The decode worker. *)

Take ==
  /\ state = 1
  /\ state' = 2
  /\ step' = IF job.kind = "stream" THEN "ct" ELSE "overlay"
  /\ UNCHANGED <<slotVars, fetchVars, bellVars, job, raw, viewVars, bounds>>

\* bricks_decode_batch: CT bytes into raw_host, ...
DecodeCt ==
  /\ step = "ct"
  /\ raw' = "ct" /\ step' = "upload"
  /\ UNCHANGED <<slotVars, fetchVars, bellVars, state, job, viewVars, bounds>>

\* ... and from there to the staging buffer and the atlas.
UploadCt ==
  /\ step = "upload"
  /\ ct' = [ct EXCEPT ![job.slot] = IF raw = "ct" THEN slotBrick[job.slot] ELSE None]
  /\ step' = "overlay"
  /\ UNCHANGED <<slotBrick, miss, overlay, fetchVars, bellVars, state, job, raw, viewVars, bounds>>

\* The overlay half, and all of bricks_ink_repair_exec: voxels if a shard or
\* the cache file can be read, else zeros.  Only a streamed block is flagged
\* and asked for when it could not be read.
Readable(b) == b \in Shards[root] \/ b \in disk[root]
DecodeOverlay ==
  /\ step = "overlay"
  /\ IF root = None THEN UNCHANGED <<overlay, miss, queue, bad>>
     ELSE LET s == job.slot
              b == slotBrick[s]
          IN \/ /\ Readable(b)
                /\ overlay' = [overlay EXCEPT ![s] = <<root, b>>]
                /\ UNCHANGED <<miss, queue, bad>>
             \/ /\ \/ ~Readable(b) /\ UNCHANGED bad
                   \/ Readable(b) /\ bad < MaxBad /\ bad' = bad + 1
                      /\ (job.kind = "repair" => RepairMayFail)
                /\ overlay' = [overlay EXCEPT ![s] = None]
                /\ IF job.kind = "stream" THEN Request({b}) /\ miss' = miss \cup {s}
                                          ELSE UNCHANGED <<queue, miss>>
  /\ state' = 3 /\ step' = "idle"
  /\ raw' = IF job.kind = "repair" THEN "ov" ELSE raw
  /\ UNCHANGED <<slotBrick, ct, have, disk, flight, fetch, ring, cancel, bellVars, job, viewVars,
                 fails, turns>>

-----------------------------------------------------------------------------
(* A fetch worker (ni_worker), for the overlay source. *)

FetchTake ==
  /\ fetch = "idle" /\ queue # {}
  /\ \E b \in queue : flight' = <<root, b>> /\ queue' = queue \ {b}
  /\ fetch' = "run" /\ cancel' = FALSE /\ ring' = "none"
  /\ UNCHANGED <<slotVars, have, disk, bellVars, jobVars, viewVars, bounds>>

\* Presence first: a cache file of an earlier session, a downloaded chunk, or
\* a chunk the server does not have.  A failed, cancelled or pending fetch
\* publishes nothing and backs off.
FetchPublish ==
  /\ fetch = "run"
  /\ LET r == flight[1]
         b == flight[2]
     IN \/ /\ b \in disk[r]
           /\ have' = [have EXCEPT ![b] = "disk"] /\ ring' = "file"
           /\ UNCHANGED <<disk, fails>>
        \/ /\ b \in HasOverlay[r] \ disk[r] /\ ~cancel
           /\ disk' = [disk EXCEPT ![r] = @ \cup {b}]
           /\ have' = [have EXCEPT ![b] = "disk"] /\ ring' = "chunk"
           /\ UNCHANGED fails
        \/ /\ b \notin HasOverlay[r] \cup disk[r] /\ ~cancel
           /\ have' = [have EXCEPT ![b] = "absent"]
           /\ UNCHANGED <<disk, ring, fails>>
        \/ /\ b \notin disk[r]
           /\ \/ cancel /\ UNCHANGED fails
              \/ fails < MaxFails /\ fails' = fails + 1
           /\ UNCHANGED <<have, disk, ring>>
  /\ fetch' = "done"
  /\ UNCHANGED <<slotVars, queue, flight, cancel, bellVars, jobVars, viewVars, bad, turns>>

\* Mutant: no bell for a cache file of an earlier session.
RingsForChunks == ring = "chunk" /\ ~cancel

\* fetch_done: then the bell, unless a fetch was cancelled.
Rings == ring = "file" \/ (ring = "chunk" /\ ~cancel)
FetchDone ==
  /\ fetch = "done"
  /\ news' = (news \/ Rings) /\ newer' = (newer \/ Rings) /\ rung' = (rung \/ Rings)
  /\ flight' = None /\ fetch' = "idle"
  /\ UNCHANGED <<slotVars, have, disk, queue, ring, cancel, jobVars, viewVars, bounds>>

\* ni_presence_set makes room in a full presence map by forgetting a hint.
Forget ==
  /\ turns < MaxTurns /\ turns' = turns + 1
  /\ \E b \in Blocks : have[b] # "unknown" /\ have' = [have EXCEPT ![b] = "unknown"]
  /\ UNCHANGED <<slotVars, disk, queue, flight, fetch, ring, cancel, bellVars, jobVars, viewVars,
                 fails, bad>>

RenderLoop == Begin \/ ScanSlot \/ ScanEnd \/ Submit \/ Drain \/ Retire \/ Open \/ Copy
Worker == Take \/ DecodeCt \/ UploadCt \/ DecodeOverlay
Fetcher == FetchTake \/ FetchPublish \/ FetchDone
Next == RenderLoop \/ Worker \/ Fetcher \/ Switch \/ Forget

\* A tree opened with the volume, before anything streams (main.c:3174).
Init == \E r \in Roots : InitWith(r)
Spec == Init /\ [][Next]_vars

\* No overlay at the start: one is chosen while blocks stream (main.c:5188).
LateSpec == InitWith(None) /\ [][Next]_vars

\* Every thread gets to run; switches, streaming and failures are not owed.
FairSpec == Spec /\ WF_vars(RenderLoop) /\ WF_vars(Worker) /\ WF_vars(Fetcher)

-----------------------------------------------------------------------------
\* Zeros where the tree has voxels are owed: the slot is flagged for repair
\* or its repair is running (bricks_candidate: "Pending model jobs and
\* transient failures must retry without evicting the CT").
Repairing(s) == state \in {1, 2} /\ job.slot = s
ZerosAreOwed ==
  root # None /\ rpc # "copy" =>
    \A s \in Slots : \/ slotBrick[s] \notin HasOverlay[root]
                     \/ overlay[s] = <<root, slotBrick[s]>>
                     \/ s \in miss \/ Repairing(s)

\* What ni.have2 says is about the tree that is shown.
PresenceOfThisTree ==
  root # None /\ rpc # "copy" =>
    \A b \in Blocks : /\ have[b] = "disk" => b \in disk[root]
                      /\ have[b] = "absent" => b \notin HasOverlay[root]

\* Nothing of a tree that was switched away is left: a slot never shows overlay
\* voxels of another tree or of another block (the slot of a running stream
\* job is not mapped), and an answer that a fetcher of the old tree was
\* waiting for is not recorded for the new one (bricks_overlay_switch_ov).
Streaming(s) == state \in {1, 2} /\ job.slot = s /\ job.kind = "stream"
NoForeignOverlay ==
  /\ TypeOK
  /\ \A s \in Slots : Streaming(s) \/ overlay[s] \in {None, <<root, slotBrick[s]>>}
  /\ PresenceOfThisTree

\* CT voxels survive what the overlay code does with the shared buffers.
CtIntact == \A s \in Slots : Streaming(s) \/ ct[s] = slotBrick[s]

\* Every owed overlay is repaired in the end, however its fetch, its presence
\* and its notification interleave with the render thread.
Healed(s) == slotBrick[s] \in HasOverlay[root] => overlay[s] = <<root, slotBrick[s]>>
OverlayHeals == <>[](\A s \in Slots : Healed(s))
=============================================================================
