----------------------------- MODULE BrickStream ----------------------------
(***************************************************************************)
(* Residency of the brick atlas (vk/vkbackend.c, r->bs).  The render       *)
(* thread asks for the blocks a view needs, hands a batch of atlas slots   *)
(* to the decode worker, and publishes finished slots in a page table that *)
(* travels to the GPU with the frame that uses it.  The worker decodes     *)
(* into one staging buffer and queues its upload without waiting for it.   *)
(*                                                                         *)
(* The page table is the CPU shadow; a frame records the shadow as it is   *)
(* when page_flush runs, which is what the device table holds once the     *)
(* frame executes.  The GPU executes one in-order queue.                   *)
(***************************************************************************)
EXTENDS Integers, Sequences, FiniteSets, FiniteSetsExt, Functions

CONSTANTS
  Blocks,     \* 16^3 blocks of every level
  Coarse,     \* those of the coarsest level, resident from the start
  AtlasSlots, \* physical atlas slots
  Air,        \* blocks that decode below BR_NOISE_FLOOR
  SourceZero, \* blocks an open shard marks zero (bricks_source_zero)
  Late,       \* blocks that are not in a local tier at the start
  Gone,       \* late blocks the server turns out not to have
  Neighbor,   \* Neighbor[b]: blocks whose voxels deblocking b reads
  Views,      \* the sets of blocks a camera position asks for
  Budget,     \* blocks per batch
  MaxMoves,   \* bound: camera moves
  MaxFails,   \* bound: batches whose decode or upload fails, and blocks forgotten
  Invalid, Zero, NoId \* BR_INVALID, BR_PAGE_ZERO, BR_ID_INVALID

StreamAssumption ==
  /\ Coarse \subseteq Blocks /\ Air \subseteq Blocks /\ SourceZero \subseteq Blocks
  /\ Late \subseteq Blocks \ (Coarse \cup SourceZero) /\ Gone \subseteq Late \ Air
  /\ Neighbor \in [Blocks -> SUBSET Blocks]
  /\ \A b \in Coarse : Neighbor[b] \subseteq Coarse
  /\ Views \subseteq SUBSET Blocks /\ Views # {}
  /\ IsFiniteSet(Blocks) /\ IsFiniteSet(AtlasSlots)
  /\ Cardinality(Coarse \ Air) < Cardinality(AtlasSlots)
  /\ {Budget, MaxMoves, MaxFails} \subseteq Nat
  /\ Invalid # Zero /\ {Invalid, Zero, NoId} \cap (AtlasSlots \cup Blocks) = {}

VARIABLES
  slotBrick,  \* bs.slot_brick: the block a slot is given to, or NoId
  slotOf,     \* bs.state, low bits: the slot of a block, or NoId
  air,        \* bs.state, high bits: blocks whose known max hides them
  page,       \* page_map: Invalid, Zero or a slot for every block
  seam,       \* deblock_pending: slots filtered without a neighbour
  tier,       \* where a block is: "local" (a shard or the cache), "absent", "missing"
  state,      \* bs.job_state: 0 idle, 1 posted, 2 running, 3 done
  sel,        \* sel_slot and sel_b: the batch, a function from slots to blocks
  failed,     \* bs.job_rc # 0
  step,       \* where the worker is in a running job
  stage,      \* raw_stage: the batch whose bytes are in the staging buffer
  rpc,        \* where the render thread is in its loop
  gpuQ,       \* submitted work that has not executed, in queue order
  atlas,      \* atlas[s]: the block whose voxels slot s holds, NoId if bytes of none
  gpuPage,    \* the device page table
  view,       \* the blocks the camera asks for
  moves, fails \* bound counters

cpuVars    == <<slotBrick, slotOf, air, page, seam>>
workerVars == <<state, sel, failed, step, stage>>
gpuVars    == <<gpuQ, atlas, gpuPage>>
envVars    == <<tier, view, moves>>
streamVars == <<cpuVars, workerVars, rpc, gpuVars, envVars, fails>>

\* An upload copies the staging buffer to the slots of a batch; a frame
\* carries the page table recorded for it.
Upload(batch) == [op |-> "upload", batch |-> batch]
FrameOp(p)    == [op |-> "frame", page |-> p]
Pending(kind) == {i \in DOMAIN gpuQ : gpuQ[i].op = kind}

IsBatch(f) == DOMAIN f \subseteq AtlasSlots /\ Range(f) \subseteq Blocks
Pages == [Blocks -> AtlasSlots \cup {Invalid, Zero}]

\* Every table keeps its range, at most two frames are in flight and at most one
\* upload reads the staging buffer.
StreamTypeOK ==
  /\ slotBrick \in [AtlasSlots -> Blocks \cup {NoId}]
  /\ slotOf \in [Blocks -> AtlasSlots \cup {NoId}]
  /\ air \subseteq Blocks /\ seam \subseteq AtlasSlots
  /\ page \in Pages /\ gpuPage \in Pages
  /\ tier \in [Blocks -> {"local", "absent", "missing"}]
  /\ state \in 0..3
  /\ IsBatch(sel) /\ IsBatch(stage)
  /\ failed \in BOOLEAN
  /\ step \in {"idle", "decode", "stage", "finish"}
  /\ rpc \in {"begin", "open", "frame"}
  /\ Pending("frame") \cup Pending("upload") = DOMAIN gpuQ
  /\ \A i \in Pending("frame") : gpuQ[i].page \in Pages
  /\ \A i \in Pending("upload") : IsBatch(gpuQ[i].batch)
  /\ Cardinality(Pending("frame")) <= 2 /\ Cardinality(Pending("upload")) <= 1
  /\ atlas \in [AtlasSlots -> Blocks \cup {NoId}]
  /\ view \in Views /\ moves \in 0..MaxMoves /\ fails \in 0..MaxFails

\* r3d_bricks_begin has seeded the coarsest level: decoded, uploaded, mapped.
StreamInit ==
  /\ \E seed \in Injection(Coarse \ Air, AtlasSlots) :
       /\ slotOf = [b \in Blocks |-> IF b \in Coarse \ Air THEN seed[b] ELSE NoId]
       /\ page = [b \in Blocks |-> IF b \in Coarse \ Air THEN seed[b] ELSE Invalid]
       /\ slotBrick = [s \in AtlasSlots |-> IF s \in Range(seed)
                                            THEN CHOOSE b \in Coarse \ Air : seed[b] = s ELSE NoId]
  /\ atlas = slotBrick
  /\ gpuPage = [b \in Blocks |-> Invalid]
  /\ air = Coarse \cap Air /\ seam = {}
  /\ tier = [b \in Blocks |-> IF b \in Late THEN "missing" ELSE "local"]
  /\ state = 0 /\ sel = <<>> /\ failed = FALSE /\ step = "idle" /\ stage = <<>>
  /\ rpc = "begin" /\ gpuQ = <<>>
  /\ view \in Views /\ moves = 0 /\ fails = 0

-----------------------------------------------------------------------------
(* The render thread. *)

\* Mutant: the air of a batch is not published.
PublishedSlots ==
  [b \in Blocks |-> IF failed \/ b \notin Range(sel) \ Air THEN page[b]
                    ELSE CHOOSE s \in DOMAIN sel : sel[s] = b]

\* Mutant: the slots of a failed batch are published, too.
PublishedAnyway ==
  [b \in Blocks |-> IF b \notin Range(sel) THEN page[b]
                    ELSE IF b \in Air THEN Zero
                    ELSE CHOOSE s \in DOMAIN sel : sel[s] = b]

\* The page shadow with the entries of the finished batch.
Published ==
  [b \in Blocks |-> IF failed \/ b \notin Range(sel) THEN page[b]
                    ELSE IF b \in Air THEN Zero
                    ELSE CHOOSE s \in DOMAIN sel : sel[s] = b]

\* r3d_bricks_stream_begin: publish a finished batch, and open a collect
\* unless the worker owns the batch.
Begin ==
  /\ rpc = "begin"
  /\ \/ /\ state \in {1, 2}
        /\ rpc' = "frame"
        /\ UNCHANGED <<page, state>>
     \/ /\ state \in {0, 3}
        /\ page' = IF state = 3 THEN Published ELSE page
        /\ state' = 0
        /\ rpc' = "open"
  /\ UNCHANGED <<slotBrick, slotOf, air, seam, sel, failed, step, stage, gpuVars, envVars, fails>>

\* r3d_bricks_flush (benchmarks, shutdown) publishes the same way once the
\* worker is done and every submitted frame has executed.
Flush ==
  /\ rpc = "begin" /\ state = 3
  /\ Pending("frame") = {}
  /\ page' = Published
  /\ state' = 0
  /\ UNCHANGED <<slotBrick, slotOf, air, seam, sel, failed, step, stage, rpc, gpuVars, envVars,
                 fails>>

\* What the collects of a view make of its blocks (bricks_candidate), and what
\* the submit loop makes of the candidates.
Touched   == {slotOf[b] : b \in {c \in view \ air : slotOf[c] # NoId}}
Wanted    == {b \in view \ air : slotOf[b] = NoId}
KnownZero == {b \in Wanted : tier[b] = "absent" \/ b \in SourceZero}
Loadable  == {b \in Wanted : tier[b] = "local" /\ b \notin SourceZero}
Unfetched == {b \in Wanted : tier[b] = "missing"}

\* bricks_pick_slot: a free slot, or one of a finer level nothing asked for.
Victims == {s \in AtlasSlots : \/ slotBrick[s] = NoId
                               \/ slotBrick[s] \notin Coarse /\ s \notin Touched}

\* Blocks that find a slot, and the ways the clock can hand the slots out.
Room == Min({Budget, Cardinality(Loadable), Cardinality(Victims)})
Loads == UNION {Injection(S, Loadable) : S \in kSubset(Room, Victims)}

\* The candidate loop stops at the budget or when no slot is left, so zero
\* blocks behind that point wait for the next frame.
LoopStops == Room = Budget \/ Room < Cardinality(Loadable)
ZeroSets  == IF LoopStops THEN SUBSET KnownZero ELSE {KnownZero}

\* Slots whose seams are filtered again after the batch `load`, none before
\* the retry time: their decode repeats, without their old mapping.
Repairs(load) ==
  LET free == {s \in seam \ DOMAIN load : slotBrick[s] # NoId}
  IN {{}} \cup kSubset(Min({Budget - Cardinality(DOMAIN load), Cardinality(free)}), free)

\* Mutant: the victim's state still names its slot.
SlotOfLoaded(load) ==
  [b \in Blocks |-> IF b \in Range(load) THEN CHOOSE s \in DOMAIN load : load[s] = b ELSE slotOf[b]]

\* The state map after the slots of a batch were given away.
SlotOfAfter(load) ==
  [b \in Blocks |-> IF b \in Range(load) THEN CHOOSE s \in DOMAIN load : load[s] = b
                    ELSE IF b \in {slotBrick[s] : s \in DOMAIN load} THEN NoId ELSE slotOf[b]]

\* r3d_bricks_stream_submit.  A block of `raced` turns absent between the
\* loop's look at its presence and the one in bricks_net_request.
Submit ==
  /\ rpc = "open"
  /\ \E load \in Loads, zeros \in ZeroSets, raced \in SUBSET (Unfetched \cap Gone) :
     \E repair \in Repairs(load) :
       LET evicted == {slotBrick[s] : s \in DOMAIN load \cup repair}
           batch   == [s \in DOMAIN load \cup repair |->
                         IF s \in repair THEN slotBrick[s] ELSE load[s]]
       IN
       /\ slotBrick' = [s \in AtlasSlots |-> IF s \in DOMAIN load THEN load[s] ELSE slotBrick[s]]
       /\ slotOf' = SlotOfAfter(load)
       /\ page' = [b \in Blocks |-> IF b \in evicted THEN Invalid
                                    ELSE IF b \in zeros THEN Zero ELSE page[b]]
       /\ air' = air \cup zeros \cup raced
       /\ tier' = [b \in Blocks |-> IF b \in raced THEN "absent" ELSE tier[b]]
       /\ IF DOMAIN batch = {} THEN UNCHANGED <<state, sel, failed>>
          ELSE state' = 1 /\ sel' = batch /\ failed' = FALSE
  /\ rpc' = "frame"
  /\ UNCHANGED <<seam, step, stage, gpuVars, view, moves, fails>>

\* The wait for the frame before last.
Paced == Cardinality(Pending("frame")) < 2

\* r3d_frame_views: waits, records the page table (page_flush) and submits.
Frame ==
  /\ rpc = "frame"
  /\ Paced
  /\ gpuQ' = Append(gpuQ, FrameOp(page))
  /\ rpc' = "begin"
  /\ UNCHANGED <<cpuVars, workerVars, atlas, gpuPage, envVars, fails>>

\* The swapchain is out of date: nothing is recorded.
SkipFrame ==
  /\ rpc = "frame"
  /\ rpc' = "begin"
  /\ UNCHANGED <<cpuVars, workerVars, gpuVars, envVars, fails>>

\* r3d_bricks_refilter, called from the display-filter controls between two
\* frames: every resident fine block loses its slot, to stream in again.
Refilter ==
  /\ rpc = "begin" /\ state \in {0, 3}
  /\ LET fine == {b \in Blocks \ Coarse : slotOf[b] # NoId /\ slotBrick[slotOf[b]] = b}
     IN /\ page' = [b \in Blocks |-> IF b \in fine THEN Invalid ELSE page[b]]
        /\ slotOf' = [b \in Blocks |-> IF b \in fine THEN NoId ELSE slotOf[b]]
        /\ slotBrick' = [s \in AtlasSlots |-> IF slotBrick[s] \in fine THEN NoId ELSE slotBrick[s]]
  /\ UNCHANGED <<air, seam, workerVars, rpc, gpuVars, envVars, fails>>

-----------------------------------------------------------------------------
(* The decode worker (bricks_worker). *)

TakeJob ==
  /\ state = 1
  /\ state' = 2 /\ step' = "decode"
  /\ UNCHANGED <<cpuVars, sel, failed, stage, rpc, gpuVars, envVars, fails>>

\* Deblocking marks the slots it could not finish.
Seams(done) ==
  (seam \ done) \cup {s \in done : \E b \in Neighbor[sel[s]] : tier[b] = "missing"}

\* bricks_decode_batch up to the decoded bytes; one bad block fails the batch.
DecodeBatch ==
  /\ step = "decode"
  /\ \/ /\ seam' = Seams(DOMAIN sel)
        /\ step' = "stage"
        /\ UNCHANGED <<failed, fails>>
     \/ /\ fails < MaxFails
        /\ \E done \in SUBSET DOMAIN sel : done # DOMAIN sel /\ seam' = Seams(done)
        /\ step' = "finish" /\ failed' = TRUE /\ fails' = fails + 1
  /\ UNCHANGED <<slotBrick, slotOf, air, page, state, sel, stage, rpc, gpuVars, envVars>>

\* Mutant: the previous upload may still read the staging buffer.
StageAlwaysReady == TRUE

\* bricks_stage_ready: the previous upload has executed.
StageReady == Pending("upload") = {}

\* Then the bytes go to the staging buffer and their upload to the queue,
\* unless the submission fails.
StageBatch ==
  /\ step = "stage"
  /\ StageReady
  /\ stage' = sel
  /\ step' = "finish"
  /\ \/ /\ gpuQ' = Append(gpuQ, Upload(sel))
        /\ UNCHANGED <<failed, fails>>
     \/ /\ fails < MaxFails
        /\ failed' = TRUE /\ fails' = fails + 1
        /\ UNCHANGED gpuQ
  /\ UNCHANGED <<cpuVars, state, sel, rpc, atlas, gpuPage, envVars>>

\* Mutant: a failed batch keeps its slots.
FreedAir == {s \in DOMAIN sel : sel[s] \in Air}

\* A failed batch gives its slots back; so does a block that decoded as air.
Freed == IF failed THEN DOMAIN sel ELSE {s \in DOMAIN sel : sel[s] \in Air}

FinishBatch ==
  /\ step = "finish"
  /\ slotBrick' = [s \in AtlasSlots |-> IF s \in Freed THEN NoId ELSE slotBrick[s]]
  /\ slotOf' = [b \in Blocks |-> IF \E s \in Freed : sel[s] = b THEN NoId ELSE slotOf[b]]
  /\ air' = IF failed THEN air ELSE air \cup (Range(sel) \cap Air)
  /\ state' = 3 /\ step' = "idle"
  /\ UNCHANGED <<page, seam, sel, failed, stage, rpc, gpuVars, envVars, fails>>

-----------------------------------------------------------------------------
(* The GPU, the network cache and the user. *)

Execute ==
  /\ gpuQ # <<>>
  /\ LET h == Head(gpuQ)
     IN \/ /\ h.op = "upload"
           /\ atlas' = [s \in AtlasSlots |-> IF s \notin DOMAIN h.batch THEN atlas[s]
                                             ELSE IF stage = h.batch THEN stage[s] ELSE NoId]
           /\ UNCHANGED gpuPage
        \/ /\ h.op = "frame"
           /\ gpuPage' = h.page
           /\ UNCHANGED atlas
  /\ gpuQ' = Tail(gpuQ)
  /\ UNCHANGED <<cpuVars, workerVars, rpc, envVars, fails>>

Arrive(b) ==
  /\ tier[b] = "missing"
  /\ tier' = [tier EXCEPT ![b] = IF b \in Gone THEN "absent" ELSE "local"]
  /\ UNCHANGED <<cpuVars, workerVars, rpc, gpuVars, view, moves, fails>>

\* The presence map is full and forgets a block, or its file is gone or spoilt.
Forget(b) ==
  /\ b \in Late /\ tier[b] # "missing" /\ fails < MaxFails
  /\ tier' = [tier EXCEPT ![b] = "missing"]
  /\ fails' = fails + 1
  /\ UNCHANGED <<cpuVars, workerVars, rpc, gpuVars, view, moves>>

Move ==
  /\ moves < MaxMoves
  /\ view' \in Views \ {view}
  /\ moves' = moves + 1
  /\ UNCHANGED <<cpuVars, workerVars, rpc, gpuVars, tier, fails>>

RenderLoop == Begin \/ Submit \/ Frame
Worker     == TakeJob \/ DecodeBatch \/ StageBatch \/ FinishBatch
StreamNext ==
  \/ RenderLoop \/ Flush \/ SkipFrame \/ Worker \/ Execute \/ Move
  \/ \E b \in Blocks : Arrive(b) \/ Forget(b)

StreamSpec == StreamInit /\ [][StreamNext]_streamVars

\* With the display-filter controls in use.
FilterSpec == StreamInit /\ [][StreamNext \/ Refilter]_streamVars

\* The render loop keeps going and a swapchain is not out of date for ever;
\* the worker, the GPU and the fetch pool get to run.
FairSpec ==
  /\ StreamSpec
  /\ WF_streamVars(Begin \/ Submit) /\ SF_streamVars(Frame)
  /\ WF_streamVars(Worker) /\ WF_streamVars(Execute)
  /\ \A b \in Blocks : WF_streamVars(Arrive(b))

-----------------------------------------------------------------------------
\* A frame never follows a page entry into a slot that holds other voxels:
\* neither before the slot's upload nor after the slot was given away
\* (page_alloc's comment; the queue order of uploads and frames).
FrameSamplesItsBlocks ==
  gpuQ # <<>> /\ Head(gpuQ).op = "frame" =>
    \A b \in Blocks : Head(gpuQ).page[b] \in AtlasSlots => atlas[Head(gpuQ).page[b]] = b

\* The shadow page table maps a block only to the slot the residency tables
\* give it, also while a batch is in flight and after one failed.
MappedIsResident ==
  \A b \in Blocks : page[b] \in AtlasSlots => slotOf[b] = page[b] /\ slotBrick[page[b]] = b

\* The page shadow, slot_brick and the state map agree on who is in which slot:
\* the two tables are inverse to each other whenever the render thread owns them
\* (r3d_bricks_stream_submit, bricks_worker).
TablesAgree ==
  /\ StreamTypeOK /\ MappedIsResident
  /\ state \in {0, 3} => \A b \in Blocks, s \in AtlasSlots : slotOf[b] = s <=> slotBrick[s] = b

\* Every frame finds the coarsest level mapped (the seed's comment).
CoarseMapped ==
  \A b \in Coarse \ Air :
    /\ page[b] \in AtlasSlots
    /\ \A i \in Pending("frame") : gpuQ[i].page[b] \in AtlasSlots

\* A block remembered as air is never requested again, so its page entry must
\* show it as air, or the coarse fallback shines through for ever
\* (test_sparse_zero).
KnownAirShown ==
  state \in {0, 1} => \A b \in air \ Coarse : page[b] = Zero

\* The same without the blocks the server turned out not to have: what the
\* worker decoded as air, and what the shards mark zero.  And every frame finds
\* the coarsest level mapped, which is what shows where nothing else does.
DecodedAirShown ==
  /\ CoarseMapped
  /\ state \in {0, 1} => \A b \in air \ (Coarse \cup Gone) : page[b] = Zero

\* Streaming drives the page table only as the renderer may: block by block, every
\* step gives a slot, takes it away, shows it once it is filled, shows air or
\* records the table in a frame, and nothing else.  The newest frame is the last
\* in the queue, or else the one the device table came with.
Newest == IF Pending("frame") = {} THEN gpuPage ELSE gpuQ[Max(Pending("frame"))].page
Table(b) == INSTANCE PageMap WITH
  Keys <- {b}, Slots <- AtlasSlots, None <- NoId, slotOf <- [k \in {b} |-> slotOf[k]],
  page <- [k \in {b} |-> page[k]], shown <- [k \in {b} |-> Newest[k]]
PageMapStep ==
  \/ UNCHANGED <<slotOf, page, gpuQ, gpuPage>> \* and so the table of every block
  \/ \A b \in Blocks : UNCHANGED Table(b)!absVars \/ Table(b)!Next
UsesPageMap == [][PageMapStep]_streamVars

\* And it takes blocks for local, absent or missing only as BlockTier has it: the
\* steps of the world outside, and the second look of a submission, are its steps.
Where(b) == INSTANCE BlockTier WITH
  Keys <- {b}, Empty <- Gone, tier <- [k \in {b} |-> tier[k]]
TierStep == \A b \in Blocks : UNCHANGED tier[b] \/ Where(b)!Next
AssumesTiers == [][TierStep]_streamVars

\* Once the camera rests, the frames end up showing every block of the view
\* that can be had, whatever failed or arrived late before.
Shown(b) == gpuPage[b] \in AtlasSlots \cup {Zero}
ViewShown == \A b \in view \ (Gone \cup (Coarse \cap Air)) : Shown(b)
ViewSharpens == <>[]ViewShown
=============================================================================
