# render3d: TLA+ models of the streaming renderer

render3d is a C program that shows CT volumes larger than memory. A Vulkan
renderer keeps a bounded atlas of 16^3 blocks, streams the blocks a view needs
from compressed shards on disk or from an HTTP server, and overlays one or two
further volumes (ink predictions). This directory models the parts of it whose
correctness depends on the order of steps of several threads, of the GPU queue
and of the network, checks the models with TLC and proves some of their
properties with TLAPS. Paths below are relative to the repository; `vkbackend.c`
is `src/vk/vkbackend.c`, `cpuvol.c` is `src/core/cpuvol.c`.

## The system

Threads: one **render thread** (`main.c`), one **decode worker**
(`bricks_worker`), the **decode pool** (`dpool_thread`), 1 to 64 **fetchers**
(`ni_worker`), one **present thread** (`pres_thread`), sampler threads of the
CPU volume and its prefetcher, the **clip worker** (`clip_worker`), the
**segment worker** (`sgc_worker`), the **tracer pool** (`tr_pool_thread`), and
the GPU, which executes one in-order queue.

| Component | State | Operations | Interacts with | Correct when |
|---|---|---|---|---|
| Decode pool (`vkbackend.c` 3990-4186) | `g_dpool`: job pointer, generation, busy count; the job on its caller's stack | `brdec_run`, `dpool_thread`, `brdec_worker` | called by the decode worker and the render thread | no thread is left in a returned job; each item decoded once; calls return |
| Brick streaming (3400-3660, 4188-4330, 5800-6290, 7417-7544) | slot owners, state map, page shadow, job, staging memory | `stream_begin`, `stream_submit`, `frame_views`, `flush`, `refilter`, `bricks_worker` | presence map, decode pool, GPU queue | frames sample only what their page table names; a still view sharpens |
| Page table (545-740, `blockmap.h`) | open-addressing table, dirty words, state map | `page_set`, `page_flush`, `brick_state_set` | written by streaming, read by the shaders | GPU copy equals the shadow; lookups equal the last write; bounded |
| Network ingest (2800-3403) | queue, in-flight list, back-off ring, presence, brick files | `bricks_net_request`, `ni_refresh_view`, `ni_worker`, `ni_load_brick` | asked by the render thread and the decode worker; writes presence | nothing is air that the server has; wanted blocks become known |
| Overlay repair (4200-4240, 5090-5160, 5750-5800) | missing flags, fetch count, overlay atlas | `ink_repair_post/exec`, `overlay_switch_ov`, `overlay_open` | fetchers, decode worker, raw and staging memory | no foreign overlay; zeros are owed a repair; they heal |
| Decoded-block cache (`cpuvol.c` 60-190, 480-620, 1040-1180) | pools of slots, LRU list, pins, references, thread leases | `cv_brick`, `cv_cache_insert`, `cv_lease_take/drop`, close, thread exit | sampler threads, overlay bake, tools | leases keep their block; a pool is freed exactly once nobody needs it |
| Demand fetch (`cpuvol.c` 475-770, 1040-1185) | negative table, back-off, thread memo of air, brick files | `cv_brick`, `cv_net_fetch`, `cv_write_file` | server, block cache, other volumes on the directory | air is never a guess; what the server has is delivered in the end |
| Present thread (`vkbackend.c` 1600-1670, 7462-7491, 7908-7964) | pending, busy, need_resize, failed, quit | `pres_thread`, `pres_drain`, `pres_stop`, `r3d_resize` | render thread, swapchain | no present on a replaced swapchain; no lost present; frames and teardown end |
| Warm tier (3533-3634) | arena, free list, use stamps | `warm_get`, `warm_evict_one` | `stream_submit`, the running job | a running job's blobs stay what they are; the arena is tiled |
| Clip map (`vk/vkclip.c`, `core/clip.h`) | ring of slices per level, generation, job queue of 512, staging | update, `enqueue`, `clip_worker`, pump, params | its worker, frames in flight | a frame finds the slices of its window; a level fills |
| Tracer pool (`core/tracer.c` 5160-5420) | job, active cells, states of cells | `tr_pool_thread`, `tr_pool_run2` | the tracing thread | active discs are apart; each cell once; a phase returns |
| Segment cache (`main.c` 1100-1345) | states of segments, queue, LRU budget, activation, overlap pass | `sgc_worker`, `sgc_request`, pins, `sgc_activate`, reopening | interface thread | a traced grid stays; clicks and views are answered |
| Label volume (`core/labelvol.c`) | bricks, generations, brick files, manifest | paint, save, load | file system | the last complete save, or later edits, come back |
| CPU atlas (5429-5740), virtual slab (6293-7300) | mirrors and tiles | `atlas_cpu_*`, `vslab_*` | surface bake, host memory | a valid word is set after its tile |
| Ink inference (`core/inklive.c`, `core/surfpred.c`) | request ring, socket | request, poll, retry | inference process, fetchers | an answer is stored for its request |
| Segment store (`core/segstore.c`), shards (`codec/shard.c`, `shard/shardio.c`), annotations (`core/annot.c`) | index, footers | build, open, append | file system | an unfinished file is not read as a finished one |
| Registration (`core/regvol.c`), open-data list (`core/odbrowse.c`) | bricks; a listing worker | sample, list | server | a transient failure is retried |
| Tracing, boundary surfaces, flattening (`core/tracer.c`, `bsurf.c`, `flatten.c`) | meshes | numeric optimisation | block cache | numeric quality: outside these methods |
| Application (`main.c`, `viewui.c`, `annotui.c`), headless library, shaders, tools | views, panels | event loop | all of the above | its calls are actions of the models |

What makes this hard: slots are reused while frames in flight and an upload may
still read them; the residency tables, the page table and the GPU copy change
at different times; a batch can fail after its slots were given away; fetchers
publish answers while the render thread decides on them; the display filter and
the overlay tree are switched between any two frames; a lease outlives the
volume it came from; threads sleep until somebody else's cell, present or slice
is done; failures are remembered and must be forgotten in time. `PROJECT.json`
lists the hazards line by line with the properties that would catch them.

## Modules

| Module | Models | Its state and actions in the code |
|---|---|---|
| `BatchDecode` | what a caller of `brdec_run` may rely on | abstract: a call is open, its items are left, it failed |
| `DecodePool` | `g_dpool` | a step is one critical section of `g_dpool.mu`, one fetch-add of `next`, or one item; a condition wait is two steps, with spurious wake-ups |
| `DecodePoolProofs` | | the proofs about `DecodePool`, and that it implements `BatchDecode` |
| `BrickStream` | streaming into the atlas | render thread `Begin`, `Submit`, `Frame` (or `SkipFrame`), `Flush`, `Refilter`; worker `Take`, `DecodeBatch`, `StageBatch`, `FinishBatch`; GPU `Execute`; fetchers `Arrive`, `Forget`; camera `Move` |
| `BlockTier` | where a block can be had: what fetchers give and streaming relies on | abstract: a block is missing, local or absent; `Arrive`, `Forget` |
| `BrickStreamProofs` | | the proofs about `BrickStream`, that it drives `PageMap` as it may, and that it takes `BlockTier` for granted |
| `OverlayRepair` | one overlay tree over the same slots | the worker's overlay half, the repair scan slot by slot, `Submit`, the switch of trees (`Switch`, `Drain`, `Retire`, `Open`, `Copy`), a fetcher's `FetchTake`, `FetchPublish`, `FetchDone`, a forgotten hint |
| `PageMap` | what the renderer promises a shader about blocks | abstract: a map from blocks to slot, zero or invalid, and the map that frames read |
| `PageTable` | the hash table under `page_set`, its dirty words, the state map | `Load`, `Evict`, `Unmap`, `Publish`, `ShowAir` are the five uses of `page_set` and `brick_state_set`; a deletion is one step per bucket (`DeleteStep`), `Flush` is `page_flush` |
| `PageTableProofs` | | the proofs about `PageTable`, and that it implements `PageMap` |
| `NetIngest` | requests, fetchers, brick files | render thread `Refresh`, `Ask`; decode worker `AskOverlay`; fetcher `Take`, `Stat`, `Fetch`, `Write`, `Done`; `Quit` and `Restart` of the renderer or the process |
| `NetIngestProofs` | | the proofs about `NetIngest`, and that it keeps `BlockTier` |
| `OverlayRepairProofs` | | the proofs about `OverlayRepair` |
| `BlockCache` | `cv_cache` | `Read`, `Find`, `Decode`, `Publish`, `Insert`, `Release`, `Exit`, `Close`, `Unpin`, `DropRef`, `CloseRef`; the list operators are `cvc_unlink`, `cvc_append`, `cvc_unpin` |
| `BlockCacheProofs` | | the proofs about `BlockCache` |
| `Present` | presentation | render thread `Frame`, `Acquire`, `Submit`, `Queue` or `PresentInline`, `Resize`, `Quit`, `JoinThread`; `Take` and `Presented` of the present thread; the user's `Window` and `Stop` |
| `WarmTier` | the arena of compressed blobs | `WarmHit`, `WarmMiss`, `EvictBlob`, `Place` are the path through `warm_get`; `BatchLaunched` and `BatchDone` bracket the batch that reads the blobs |
| `ClipMap` | one level of the clip map | main thread `Update`, `Invalidate`, `Request`, `Pump`, `Copy`, `SubmitClip`, slot by slot; worker `ClaimSlice`, `FinishSlice`; GPU `FramesDone` |
| `TracerPool` | `tr_pool` | `CheckJob`, `ClaimCell`, `Finish` of a pool thread, `PostPhase`, `Collect`, `DrainPhase`, `Destroy`, `Join` of the tracing thread, `Cancel` |
| `SegCache` | `sgcache` | worker `LookForWork`, `Activated`, `Compared`, `Loaded`; interface `Draw`, `Traced`, `NextView`, `Activate`, `Apply`, `Refresh`, `CloseStore`, `ReopenStore` |
| `DemandFetch` | `cv_brick` on its way to the server | per thread `ReadBlock`, `FindBlock`, `LookUpNegative`, `StatFile`, the download and its files (`LockCell`, `Fetched`, `WriteOpen`, `WriteData`, `WriteRename`, `CellWritten`), `Expiry`, `OpenFile`, `DecodeFile`, `PublishBlock` |
| `LabelStore` | `r3d_labelvol` and its directory | `Paint`, `Save` with `SaveBrick` and `SaveManifest`, `Start` and `LoadAgain`, `Crash` |
| `WorkersProofs` | | the proofs about `Present`, `TracerPool`, `ClipMap` and `SegCache` |
| `StorageProofs` | | the proofs about `LabelStore`, `WarmTier` and `DemandFetch` |
| `MCWorkers`, `MCStorage` | suites | several components side by side, one per behaviour (below) |
| other `MC...` | | model values, symmetry and the small functions a configuration needs |

An operator introduced by a comment "Mutant" is a wrong variant of the next
definition. It is used by no specification; `PROJECT.json` names, for every
property, a mutant under which TLC finds the property violated.

### What the models abstract

* **DecodePool.** An item's bytes are abstracted to "decoded"; a failed item
  sets `rc` unless the job is an overlay's (`zero_on_fail`). `dpool_ensure` may
  get any subset of its threads, as `pthread_create` may fail.
* **BrickStream.** The page table is a function; the hash table under it, its
  eviction of air entries and its dirty words are in `PageTable`. A
  frame carries the page table as `page_flush` records it. A batch is a function
  from slots to blocks. The clock hand is a nondeterministic choice among the
  slots it may stop at. When the time throttle lets seams be repaired is
  nondeterministic. Deblocking reads the neighbours of a block; a block of the
  coarsest level has its neighbours there. Teardown is left out.
* **PageTable.** An entry stands for its three words; the dirty queue holds
  entries, so its bound is in entries. The eviction cursor may stand anywhere.
  The bytes between two near dirty words, which `page_flush` copies along, are
  equal on both sides. The dense table of a volume that fits is left out.
* **NetIngest.** Chunks are data or zeros for a brick. The look-up of a cell's
  files is one step, and so are the two critical sections of `ni_refresh_view`
  (only the render thread queues CT cells, so what it cancels is the same). A
  fetch is one answer; its four attempts and the sleeps between them are inside
  it. `ni_write_file` renames a complete file, so a file is there or not; power
  loss before the data reaches the disk is left out. An overlay is asked for
  while its presence is unknown. The batch budget, which ends a pass early, is
  left out.
* **OverlayRepair.** A batch has one slot. The second overlay runs the same code
  over its own tables. The scan of `bricks_ink_repair_post` visits slots one by
  one, so that fetchers interleave with it.
* **BlockCache.** Which slot holds a key is looked up with a set comprehension
  instead of the hash index. The bytes of a slot are those of its key, because
  `cvc_publish` writes both in one critical section. Closing a volume requires,
  as the header says, that no reader is inside it.
* **Present.** Both conditions of `pres` are broadcast under the mutex at every
  change of what is waited for, so that a wait is a guard. Images of one
  swapchain are not told apart: the fences that order them are the driver's.
* **WarmTier.** Sizes and offsets are in granules of 64 bytes. The list of
  blobs is a function from chunks to offsets; a blob is copied in one step,
  because the render thread owns the arena while it fills it.
* **ClipMap.** x and y are one coordinate, and one level has the queue and the
  pump's budget to itself. A slice is its number and the origin it was decoded
  with; a slice whose origin changed under the worker is `Mixed`.
* **TracerPool.** What is done to a cell is left out, so are the modes of work,
  which differ in the separation only, and the scan cursor.
* **SegCache.** Grids are their sizes. Which segments a plane meets is "all of
  them", in any order. The ticks in `last_use` are the relation `older` between
  a segment and the ready ones used before it; an eviction drops the smallest
  head of that order that makes the rest fit, at once: the loop of
  `sgc_evict_lru` runs under the mutex.
* **DemandFetch.** A brick file is missing, empty, whole or spoilt; bytes and
  codecs are left out. The cached blocks are a set, from which anything may be
  evicted; which block must stay is in `BlockCache`.
* **LabelStore.** A brick is one number. All of it runs on the interface
  thread, so nobody paints during a save. A rename that has returned is on the
  disk: power loss is left out.

## Runs

All bounds are constants of the configurations.

`MCWorkers` and `MCStorage` are suites: they declare the variables of several
components that do not interact, choose one component in the initial state, and
let only that one step; the others stay in one initial state. A property speaks
of the behaviours of its component. The modules that theorems speak about are
extended, so that a run checks the very definitions that are proved, with the
constants of the configuration. A second case of a module is a further instance
(a store that is opened again, a spoilt file) or a restriction of the steps. The
clip map: `clip` moves the camera in both directions, `jumps` keeps the focus and
moves the window further than the ring is deep. The block cache: `shared` reads
three blocks of one volume, `paired` two of one volume and one of another.

| Run | Question | Bounds and why they suffice |
|---|---|---|
| `workers` | what threads hand to each other stays whole, and every call, phase, frame, click and read ends (with fairness) | decode pool: one pool thread, two callers, batches of 2 (claimed singly) and 8 (two runs of 4); the theorems hold for every number. Brick streaming: two slots that two views compete for, a batch that fails and a camera move; or a camera at rest, a late block, and one failure, which is a batch that fails or a block that is forgotten. Tracer: two threads, three cells of which one is close to the others, two phases. Clip map: two layers, two origins with an undecodable slice, and one origin with jumps further than the ring is deep; a queue of 2. Present: four frames, three changes of the window, with and without the thread. Segments: three segments that do not all fit; and a store with an unreadable one that is opened again. Demand fetch: two readers of one block, one failing download |
| `storage` | a frame, thread or batch never reads what was given away under it; streaming changes the page table only as `PageMap` lets it; air and labels are not made up | brick streaming: 3 slots for 5 blocks, so that eviction, a full atlas, a failed batch, air, a block marked zero, a late block, a forgotten one and a seam all occur; one camera move, because the blocks of one view alone compete for the slots, and the theorems hold for every number of moves. Block cache: 2 threads and 2 volumes with 2 slots each, 3 blocks of one volume or 2 and 1 of both: leases move within a pool and between pools, and a pool can be all leased. Warm tier: 3 granules, blobs of 1, 1, 2 and 4 (which never fits), 3 frames. Labels: 2 bricks of 2 labels, 3 edits, 2 failing calls, 3 starts. Demand fetch: 2 threads, a cell of two bricks one of which is air, and a spoilt file |
| `overlay_repair` | foreign overlay, lost repairs, CT bytes, healing | 2 slots, 2 blocks, 2 trees (each with voxels for one block), one failed fetch, one unreadable file, four switches, loads or forgotten hints |
| `page_table` | lookups, device copy, limits, agreement with the state map; refinement of `PageMap` | 4 buckets, 1 slot, 4 blocks: three homes collide in a cluster that wraps around, the table is half full with two entries, the state map full with three; a dirty queue of 2 overflows |
| `net_ingest` | false air, double fetches, cancelled overlays, progress, teardown | 2 fetchers, 3 cells (one with two chunks and two bricks, one overlay), queue of 2 so that the tail drops, ring of 1 so that an entry is overwritten, one camera move, one fault or restart |

The symmetry of `storage` permutes three model values that serve as slots of the
atlas, as blocks of the cache and, two of them, as threads. It is sound because
no definition tells them apart: functions whose domain is the pair of threads
are identified only under permutations that keep the pair, and nothing else
names one of the three. Since the slots are as good as each other, the first
block is put into one fixed slot. No run with a liveness property uses symmetry.

Seven runs end in a violation. Each checks one sentence of the repository that
the code does not keep; `PROJECT.json` quotes it under "findings":

* `brick_stream_refilter`: `r3d_bricks_refilter` frees the slots of a batch that
  is finished but not published; the next `stream_begin` publishes it, and a
  frame follows a page entry into a slot of another block.
* `brick_stream_absent`: the submit loop reads a block's presence twice; when
  its absence is published in between, the block is remembered as air without a
  page entry for it.
* `overlay_repair_lost`: a repair job whose cache file cannot be read leaves
  zeros after its flag was cleared.
* `overlay_repair_race`: the first overlay of a session is opened without
  draining the decode job, which shares the raw and staging memory.
* `tracer_pool_discs`: a thread removes its cell from `act[]` by a slot number
  another removal has given to somebody else; a cell that is worked on drops out
  of the list, and a cell that is too close to it is claimed.
* `clip_map_edge`: near the edge of the volume the test for recentring stays
  true though the clamped origin cannot move, and every frame voids the level.
* `demand_fetch_two_volumes`: two volumes on one directory share the name of a
  temporary file; one truncates what the other renames, and a reader takes the
  empty file for air.

The passing runs keep these seven out by a named choice: `BrickStream!StreamSpec`
has no `Refilter`, `DecodedAirShown` leaves out blocks the server does not have,
`RepairMayFail` is FALSE, a tree is open from the start, `PhaseComplete` does not
speak of overlapping discs, the focus points of the clip map are such that the
window can be centred closely enough, and `DemandFetch` has one volume. Everything
else about those components is checked with them out of the way.

Met while modelling, without a sentence in the repository to hold against the
code, or outside the models:

* Without a present thread (`R3D_NO_PRESENT_THREAD`), `r3d_resize` answers 1 for
  a minimised window and the caller takes it for an error (`vkbackend.c` 7960):
  the program ends. `Present` has it.
* `now` is read before a download; a failure that takes longer than the delay
  is remembered until a time that has passed (`cpuvol.c` 653, 1068), so that a
  slow outage is not backed off.
* When the segments in view exceed the budget of the segment cache, each load
  evicts a grid the next frame asks for again; `ClicksAnswered` says that each is
  traced once.
* `labelvol.c` 248 calls a brick durable after `fclose`, which does not write to
  the disk; loading labels is not all or nothing; bricks that a save wrote before
  the first manifest come back with a later manifest.

## Fairness

* `DecodePool`: weak fairness on every step of a thread inside a call or job;
  none on calling again or on spurious wake-ups. `LockRun` needs no strong
  fairness because calls are bounded, so the mutex is in the end free for good.
* `BrickStream`: weak fairness on the loop, the worker, the GPU and arrivals.
  `Frame` has strong fairness: an out-of-date swapchain is recreated, it does
  not stay out of date for ever. Moves and failures are not owed and are
  bounded: the property speaks of the time after them.
* `NetIngest`: weak fairness on the render loop, the fetchers and the passing of
  a back-off delay. The server answers in the end because transfers have a
  connect and a low-speed timeout. Faults, moves and restarts are bounded and
  not owed.
* `OverlayRepair`: weak fairness on the render loop, the worker and the fetcher.
* `TracerPool`: weak fairness on each pool thread (the work on a cell ends) and
  on the tracing thread while it collects; posting, cancelling and destroying
  are not owed.
* `ClipMap`, `Present`, `SegCache`: weak fairness on each thread's steps, and on
  the GPU's for the clip map. Camera moves, changes of the window, clicks and
  reopenings are bounded and not owed.
* `DemandFetch`: weak fairness on each thread inside a read and on time; strong
  fairness on some thread asking for the block again, as a sampler does in every
  pass. Faults are bounded and not owed.

The suites restate these conditions for the component that runs.

## Proofs

`DecodePoolProofs` proves, for any set of pool threads and callers, any batch
sizes and any number of calls, the type invariant (`TypeCorrect`), that no pool
thread is left in a returned job (`JobOutlivesWorkers`), that no item is decoded
twice (`EachItemOnce`) and that none is missing at the return
(`CompleteAtReturn`), and that the pool implements `BatchDecode`
(`PoolImplementsBatchDecode`). The assumptions are `PoolAssumption`. The inductive
invariant `IInv` has three parts: the types; `Control`, which ties `job`,
`runMu`, `busy` and the control states together (`busy` is the number of threads
inside the job, and a job is posted exactly while its owner is between `Post`
and `Drain`); and `Items`, which says of the items below `next` that each is
decoded or in exactly one thread's claimed run. None of the properties is
inductive alone: `NoUseAfterReturn` needs that `busy` counts, and
`ReturnsComplete` needs to know who holds the items that are not decoded. For
the refinement a step that hides from the abstract state is told by `Hidden`
(no caller enters or leaves, no item and no result changes); the decode of an
item is abstract because `Ranges` says that it was not decoded before, a return
because of `ReturnsComplete`, and taking `g_dpool_run_mu`, which resets the
result, because nobody touches it before that (`Untouched`).

`BrickStreamProofs` proves, for any blocks, slots, views and neighbours
(`StreamAssumption`), that a frame samples its blocks (`SamplesRight`), that the
tables agree (`ResidencyAgrees`) and that decoded air is shown (`AirIsShown`).
The difficulty is the GPU queue: a frame was recorded with a page table, and
uploads before and after it write the slots it names. The invariant therefore
says what a slot will hold at each place of the queue: `Holds(s, b, i)` when
every upload before place `i` that writes slot `s` leaves the voxels of `b`, and
without such an upload the atlas has them already. `FramesHold` says so of the
frames in the queue, `PageHolds` of a frame that would be submitted now, and
`BatchHolds` of the slots of a batch that is staged. `Staged` says that all
uploads in the queue find their bytes in the one staging buffer, and
`BatchOwned` that the slots of a batch are its own and no page entry leads to
them before the render thread publishes it. The theorems are of `StreamSpec`,
without the display-filter switch.

Two further theorems say how streaming fits what is around it. Both look at one
block at a time: to a block, a batch that gives, takes and shows many slots is
one step of the abstract module. `StreamUsesPageMap` says that every step is one
`PageMap` allows, with the newest recorded frame as what is shown. That a block
gets a slot only when it has none, and is shown only when it has one, needs who
owns the slots of a batch (`BatchOwned`), that what shows as zero has no slot
(`ZeroIsAir`), and that air which a finished batch found is remembered before
the batch is published (`FinishedAir`). `PageTableImplementsMap` below says
that the hash table does what `PageMap` says: the two modules meet there.
`StreamAssumesTiers` says that streaming lets a block's tier change only as
`BlockTier` says; `FetchersPublishTiers` in `NetIngestProofs`, that the fetchers
change it only so. One is what streaming assumes, the other is the guarantee.

`PageTableProofs` proves the invariants of the run `page_table` for any
set of blocks and slots, any hash function (`Home`), any capacity of at least
four buckets a slot, and any length of the dirty queue (`TableAssumption`: the
code doubles `hash_cap` from 4 until it is four times the slots): the types
with the limits (`LimitsKept`: neither map reaches its own), that the device
copy follows the shadow (`DeviceFollowsShadow`), that a probe finds every entry
(`KeysFound`) and that remembered air is shown (`AirShown`). A bucket is *live*
when it holds a key and is not the hole of a running deletion. The invariant
says that live keys are unique (`Unique`), that no probe meets an empty bucket
before them (`Reached`), what a deletion has passed (`Deletion`: only occupied
buckets, and no live entry among them is reached through the hole), that `count`
is the number of occupied buckets (`Room`), and how entries, slots and remembered
air belong together (`Waiting`, `Values`, `Residency`, `AirIsEntered`).
`EveryKeyFound` speaks of tables at
rest and is not inductive: `Deletion` says what holds in between. The limit
rests on a counting argument (`FewResident`, `FullHasAir`): at most a quarter
of the buckets can hold slots, so a half-full table has air to evict.

It also proves `Spec => ImplementsPageMap` with the refinement mapping the run
checks (`PageTableImplementsMap`). That adds to the invariant what
a deletion leaves in its hole (`Stale`), from which a lookup is right at every
moment of a deletion (`LookupRight`). The abstract map changes when `page_set`
decides; `DeleteStep` and `InsertAfter` are invisible, `DeleteEnd` forgets the
evicted air, `Flush` records the whole map.

`NetIngestProofs` proves, for any fetchers, cells, chunks and bricks, any length
of the queue and the ring, and any number of faults, moves and restarts
(`IngestAssumption`), that nothing the server has is taken for air (`AirIsReal`),
that overlays are not cancelled (`OverlaysFinish`) and that a cell has one
fetcher and waits its delay (`OneFetcherPerCell`). `NoFalseAir` rests on
what a fetcher has collected (`Collected`): every chunk of its cell that the
server has is in the cell buffer or still to come, and all are in the buffer
before the first file is written; an answer that is neither data nor a 404 ends
the fetch. `OneFetcher` has an invariant of its own, `QInv`: the queue is without
duplicates and within its capacity (`QueueTypes`), so is the back-off ring
(`RingTypes`), queued cells and those in flight are apart (`Apart`), and a cell
in flight is one fetcher's (`Assigned`). It rests on lemmas about what inserting
into, removing from and cutting a sequence does to its elements.
`FetchersPublishTiers` needs besides that a file, once written, says what the
server has, and that known air has its empty file (`Kept`): a brick that was
forgotten comes back as what it was.

`BlockCacheProofs` proves, for any finite set of threads and any volumes, slots
and blocks (`CacheAssumption`), that a leased slot keeps its block in a pool that
is not freed (`LeaseKept`), that no step touches a freed pool
(`NoTouchOfFreed`), that a pool is freed exactly when nobody needs it
(`FreedExactly`) and that a block has one slot (`BlockOnce`). The invariant
counts: the pins of a slot are the leases on it (`Pins`), and the references of
a pool are its users and its volume (`Refs`), so that an unpinned slot has no
lessee and the last reference is the last user's. `Control` says who may be
where: only open volumes are read, one thread closes a volume, and a thread
takes a lease only when it has none on another pool. The list enters through
`WellLinked`, a local condition (its ends and all neighbours are unpinned slots
and agree on each other), which `cvc_unlink` and `cvc_append` keep; from it follows
that the head is unpinned, which is all the eviction needs. That the list runs
both ways through exactly the unpinned slots (`ListOrder`) would be an induction
along it; instead the invariant has a numbering of the slots (`Lists`, a
bijection from an interval), which appending extends and unlinking closes up.

`OverlayRepairProofs` proves, for any blocks, slots and trees, any presence of
local shards and cache files, and any number of switches, failed fetches and
forgotten hints (`OverlayAssumption`), that no slot shows a foreign overlay
(`NoForeign`), that the CT voxels stay (`CtStays`) and, when repairs can read
what was fetched, that zeros are owed (`ZerosOwed`, under `RepairMayFail =
FALSE`; the run `overlay_repair_lost` shows that the condition is needed). The
invariant adds `Control` (a slot is scanned or given away only when no job is
posted, a tree is replaced only when no job runs, nothing is asked for and no
fetch is in flight, and a fetch in flight is for the tree shown) and `Job` (a
running repair is of a block whose cache file is there, and `raw_host` holds CT
bytes when they are uploaded). The proofs are of `Spec`, whose tree is open from
the start.

`WorkersProofs` treats four components whose threads hand work to each other.

* `PresentsLive` (`PresentAssumption`): an image that is presented belongs to the
  swapchain that is there, and no present is lost. The invariant counts: what is
  drawn is what is shown, plus the one present handed over, plus the frame the
  render thread has in hand (`drawn = shown + HandedOver + InHand`), and a
  present that is outstanding is of the present swapchain.
* `PhasesComplete` (`TracerAssumption`): when the caller has collected a phase,
  no thread is at work and, unless the trace was cancelled, every cell has been
  handled. `done` is the number of threads that have left the phase
  (`LeftPhase`), and none leaves while a cell is pending.
* `FramesSeeTheirWindow` (`ClipAssumption`, and `[]NoWrap`: no invalidation wraps
  the generation counter, which has 32 bits; after 2^32 of them an old result
  could pass for a new one): a frame that was told the level is valid finds
  its window in the texture. `FrameSeesItsWindow` is not inductive: it needs that
  what a slot of the present generation calls resident is in its layer
  (`ResidentTrue`), for which what it calls staged must be in its region
  (`StagedTrue`), for which the worker must have seen the present origin when its
  job has the present generation (`JobTrue`). All three fail between the write
  of the origin and the new generation, so they are said of the other places
  only. `Past` (no generation is ahead) makes the new generation new to all.
* `GridsStayPinned` (`SegAssumption`): a grid that is traced stays cached, a
  segment waits once, the budget is exceeded only by a pin or a single grid, an
  activation is prepared and applied once. The invariant adds that what is being
  loaded has left the queue (`QueuedOnce`). What an eviction leaves is one lemma
  (`EvictKeeps`), in which the sum of the sizes is not looked into.

`StorageProofs` treats three components that keep data.

* `LabelsStay` (`LabelAssumption`): every brick loads as the last complete save
  or a later edit left it. What is in memory and on disk is owed (`OwedInMemory`,
  `OwedOnDisk`), a brick that is not dirty is on disk as it is in memory
  (`CleanIsSaved`), and a save that has not failed has left nothing dirty behind
  (`SaveSoFar`).
* `BytesKept` (`WarmAssumption`): a batch finds the bytes it was given. The free
  list is sorted and merged (`Sorted`), blobs hold their bytes and are not free
  (`BlobsPlaced`), each granule is free or a blob's (`NothingLost`), and what a
  batch uses was used in this frame or is being decoded (`SourcesKept`), which is
  why `warm_evict_one` passes over it.
* `AirNeverGuessed` (`DemandAssumption`, and `OneVolumeOpen`: one volume on the
  directory; the run `demand_fetch_two_volumes` shows that the condition is
  needed): air is never a guess. The file of a brick the server has is not empty
  (`FilesTrue`), because one thread downloads a cell (`OneLoader`) and renames
  what it has written (`Writing`); what is known for good is true (`Answers`).

Assumptions on constants are checked by TLC in every run. Only model-checked are
the liveness properties (`CallReturns`, `ViewSharpens`, `PhaseReturns`,
`LevelFills`, `FramesEnd`, `ClicksAnswered`, `Delivered`, `OverlayHeals`,
`WantedBecomeKnown`, `QuitDrains`), which are beyond the prover. Every other
invariant, action property and refinement that a passing run checks is stated by
a theorem. `AssumesTiers`, `PublishesTiers` and `OneSlotPerBlock` have a theorem
and no run. An induction along data is out of reach as well; where a proof seemed
to need one, a number does its work: a bijection for the order of a list, the
cardinality of a set for a counter, the least index for a search.

## Not modelled

`PROJECT.json` gives the reason for every component that is partly modelled or
not at all. What a next step would take up, in this order: the virtual slab's
tile table and prefetch threads; the ring of requests to the inference process;
one module in which streaming and the fetchers take their steps together, which
`BlockTier` now keeps apart. Out of reach are the numeric parts (tracing,
flattening, codecs, shaders), the driver's side of Vulkan, and what a file system
keeps over a power loss. Most lines under `src/` are vendored (Dear ImGui with
its C binding, 3ddct): the program calls them, their state is not its own.
