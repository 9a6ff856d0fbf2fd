------------------------------- MODULE SegCache -----------------------------
(***************************************************************************)
(* The segment cache of main.c (sgcache): a worker loads decimated grids   *)
(* into a cache with a byte budget, prepares the one segment that is to    *)
(* become the active surface and compares the others with it; the GUI      *)
(* thread requests, pins and traces cached grids, applies a prepared       *)
(* activation and reopens the store.                                       *)
(*                                                                         *)
(* Between finishing a job and looking for the next one the worker keeps   *)
(* the lock; letting the GUI in there only adds behaviours.                *)
(***************************************************************************)
EXTENDS Integers, Sequences, FiniteSets, Functions

CONSTANTS
  Segs,      \* segments of the store
  GridBytes, \* GridBytes[s]: what the grid of s takes
  SegBudget, \* bytes the cache may take
  Unread,    \* segments that cannot be loaded
  MaxActs,   \* bound: activations asked for
  MaxOpens,  \* bound: how often the store is reopened
  NoSeg      \* UINT32_MAX

SegAssumption ==
  /\ IsFiniteSet(Segs) /\ NoSeg \notin Segs /\ Unread \subseteq Segs
  /\ GridBytes \in [Segs -> Nat] /\ SegBudget \in Nat
  /\ MaxActs \in Nat /\ MaxOpens \in Nat

VARIABLES
  sgState,   \* ent[s].state
  older,     \* older[s]: the ready segments used before s (last_use)
  sgQueue,   \* queue[0 .. qn - 1]
  sgQuit,
  actReq, actBusy, actReady, \* the activation
  ovReq, ovActive,           \* the overlap pass
  wk, sgJob, \* the worker: what it does, and with which segment
  gui, seg,  \* the GUI thread, and the segment it traces
  sgTodo,    \* segments the present frame has still to draw
  active,    \* the segment the flattened view shows
  traced,    \* segments traced since the store was opened
  acts, opens \* bound counters

sgCache == <<sgState, older, sgQueue>>
activation == <<actReq, actBusy, actReady>>
overlap == <<ovReq, ovActive>>
sgWorker == <<wk, sgJob>>
screen == <<gui, seg, sgTodo, active, traced>>
segVars == <<sgCache, sgQuit, activation, overlap, sgWorker, screen, acts, opens>>

Ready == {s \in Segs : sgState[s] = "ready"}
BytesOf(S) == SumFunctionOnSet(GridBytes, S)
Waiting == {sgQueue[i] : i \in DOMAIN sgQueue}

\* Segments are used one after the other.
InOrderOfUse ==
  /\ \A s \in Segs : older[s] \subseteq Ready \ {s} /\ \A r \in older[s] : older[r] \subseteq older[s]
  /\ \A s, r \in Ready : s = r \/ s \in older[r] \/ r \in older[s]

SegTypeOK ==
  /\ sgState \in [Segs -> {"empty", "queued", "ready", "failed"}]
  /\ older \in [Segs -> SUBSET Segs] /\ InOrderOfUse /\ sgQueue \in Seq(Segs)
  /\ {actReq, actReady, ovReq, ovActive, sgJob, seg, active} \subseteq Segs \cup {NoSeg}
  /\ wk \in {"look", "wait", "activate", "overlap", "load", "gone"}
  /\ gui \in {"idle", "trace", "refresh", "join"}
  /\ sgTodo \subseteq Segs /\ actBusy \in BOOLEAN /\ sgQuit \in BOOLEAN

\* sgc_open; at start-up the overlap pass is asked for the shown segment.
SegInit ==
  /\ sgState = [s \in Segs |-> "empty"] /\ older = [s \in Segs |-> {}] /\ sgQueue = <<>>
  /\ sgQuit = FALSE
  /\ actBusy = FALSE /\ actReady = NoSeg /\ ovActive = NoSeg
  /\ wk = "look" /\ sgJob = NoSeg
  /\ gui = "idle" /\ seg = NoSeg /\ sgTodo = Segs /\ traced = {}
  /\ active \in Segs /\ ovReq = active /\ actReq = NoSeg
  /\ acts = 0 /\ opens = 0

-----------------------------------------------------------------------------
(* Eviction.                                                               *)

\* Mutant: pins are not counted.
PinnedNever == {}

Pinned == IF gui = "trace" THEN {seg} ELSE {}

\* s is used: a new tick in its last_use.
Used(s, ready) == [x \in Segs |-> IF x = s THEN ready \ {s} ELSE older[x] \ {s}]

\* sgc_evict_lru drops ready segments, the least recently used first and those
\* it spares excepted, until the rest fits or nothing is left to drop.
Evict(ready, last, spared) ==
  LET free  == ready \ spared
      heads == {d \in SUBSET free : \A s \in d : last[s] \cap free \subseteq d}
      fit   == {d \in heads : BytesOf(ready \ d) <= SegBudget} \cup {free}
  IN \E d \in fit :
       /\ \A e \in fit : d \subseteq e
       /\ sgState' = [s \in Segs |-> IF s \in d THEN "empty"
                                    ELSE IF s \in ready THEN "ready" ELSE sgState[s]]
       /\ older' = [s \in Segs |-> IF s \in d THEN {} ELSE last[s] \ d]

-----------------------------------------------------------------------------
(* The worker: sgc_worker.                                                 *)

LookForWork ==
  /\ wk = "look"
  /\ CASE sgQuit -> wk' = "gone" /\ UNCHANGED <<sgJob, sgQueue, activation, ovReq>>
       [] ~sgQuit /\ actReq # NoSeg /\ actReady = NoSeg ->
            /\ wk' = "activate" /\ sgJob' = actReq
            /\ actReq' = NoSeg /\ actBusy' = TRUE
            /\ UNCHANGED <<sgQueue, actReady, ovReq>>
       [] ~sgQuit /\ (actReq = NoSeg \/ actReady # NoSeg) /\ ovReq # NoSeg ->
            /\ wk' = "overlap" /\ sgJob' = ovReq /\ ovReq' = NoSeg
            /\ UNCHANGED <<sgQueue, activation>>
       [] OTHER ->
            /\ IF sgQueue = <<>>
                 THEN wk' = "wait" /\ UNCHANGED <<sgJob, sgQueue>>
                 ELSE /\ wk' = "load" /\ sgJob' = sgQueue[Len(sgQueue)]
                      /\ sgQueue' = SubSeq(sgQueue, 1, Len(sgQueue) - 1)
            /\ UNCHANGED <<activation, ovReq>>
  /\ UNCHANGED <<sgState, older, sgQuit, ovActive, screen, acts, opens>>

Activated ==
  /\ wk = "activate"
  /\ IF sgJob \in Unread
       THEN actBusy' = FALSE /\ UNCHANGED actReady
       ELSE actReady' = sgJob /\ UNCHANGED actBusy
  /\ wk' = "look" /\ sgJob' = NoSeg
  /\ UNCHANGED <<sgCache, sgQuit, actReq, overlap, screen, acts, opens>>

Compared ==
  /\ wk = "overlap"
  /\ ovActive' = sgJob
  /\ wk' = "look" /\ sgJob' = NoSeg
  /\ UNCHANGED <<sgCache, sgQuit, activation, ovReq, screen, acts, opens>>

Loaded ==
  /\ wk = "load"
  /\ IF sgJob \in Unread
       THEN sgState' = [sgState EXCEPT ![sgJob] = "failed"] /\ UNCHANGED older
       ELSE LET now == Ready \cup {sgJob} IN Evict(now, Used(sgJob, now), Pinned \cup {sgJob})
  /\ wk' = "look" /\ sgJob' = NoSeg
  /\ UNCHANGED <<sgQueue, sgQuit, activation, overlap, screen, acts, opens>>

-----------------------------------------------------------------------------
(* The GUI thread.                                                         *)

\* Mutant: only a load that is asked for in a frame wakes the worker.
SignalOfLoads == wk' = IF wk = "wait" /\ sgTodo # {} THEN "look" ELSE wk

\* pthread_cond_signal: the worker is the only one that waits.
Signal == wk' = IF wk = "wait" THEN "look" ELSE wk

\* A segment in view is requested, or pinned while its line is traced.
Draw(s) ==
  /\ gui = "idle" /\ s \in sgTodo
  /\ sgTodo' = sgTodo \ {s}
  /\ \/ /\ s # active /\ sgState[s] = "empty" /\ Len(sgQueue) < Cardinality(Segs)
        /\ sgState' = [sgState EXCEPT ![s] = "queued"]
        /\ sgQueue' = Append(sgQueue, s)
        /\ Signal
        /\ UNCHANGED <<older, gui, seg>>
     \/ /\ s # active /\ sgState[s] = "ready"
        /\ older' = Used(s, Ready)
        /\ gui' = "trace" /\ seg' = s
        /\ UNCHANGED <<sgState, sgQueue, wk>>
     \/ /\ \/ s = active \/ sgState[s] \in {"queued", "failed"}
           \/ sgState[s] = "empty" /\ Len(sgQueue) = Cardinality(Segs)
        /\ UNCHANGED <<sgCache, gui, seg, wk>>
  /\ UNCHANGED <<sgQuit, activation, overlap, sgJob, active, traced, acts, opens>>

Traced ==
  /\ gui = "trace"
  /\ gui' = "idle" /\ seg' = NoSeg
  /\ traced' = traced \cup {seg}
  /\ Evict(Ready, older, {})
  /\ UNCHANGED <<sgQueue, sgQuit, activation, overlap, sgWorker, sgTodo, active, acts, opens>>

FrameDrawn == gui = "idle" /\ sgTodo = {}

\* A click on another segment.
Activate(s) ==
  /\ FrameDrawn /\ acts < MaxActs /\ s # active
  /\ actReq = NoSeg /\ ~actBusy /\ actReady = NoSeg
  /\ actReq' = s /\ acts' = acts + 1
  /\ Signal
  /\ UNCHANGED <<sgCache, sgQuit, actBusy, actReady, overlap, sgJob, screen, opens>>

\* The prepared segment replaces the shown one, or its upload fails.
Apply ==
  /\ FrameDrawn /\ actReady # NoSeg
  /\ actReady' = NoSeg /\ actBusy' = FALSE
  /\ \/ active' = actReady /\ gui' = "refresh"
     \/ UNCHANGED <<active, gui>>
  /\ UNCHANGED <<sgCache, sgQuit, actReq, overlap, sgWorker, seg, sgTodo, traced, acts, opens>>

NextView ==
  /\ FrameDrawn /\ actReady = NoSeg
  /\ sgTodo' = Segs
  /\ UNCHANGED <<sgCache, sgQuit, activation, overlap, sgWorker, gui, seg, active, traced, acts,
                 opens>>

Refresh ==
  /\ gui = "refresh" /\ gui' = "idle"
  /\ ovReq' = active
  /\ Signal
  /\ UNCHANGED <<sgCache, sgQuit, activation, ovActive, sgJob, seg, sgTodo, active, traced, acts,
                 opens>>

\* A traced surface is added to the store: sgc_close ...
CloseStore ==
  /\ FrameDrawn /\ opens < MaxOpens
  /\ sgQuit' = TRUE /\ gui' = "join"
  /\ Signal
  /\ UNCHANGED <<sgCache, activation, overlap, sgJob, seg, sgTodo, active, traced, acts, opens>>

\* ... and sgc_open, with the new surface as the next activation.
ReopenStore ==
  /\ gui = "join" /\ wk = "gone"
  /\ sgState' = [s \in Segs |-> "empty"] /\ older' = [s \in Segs |-> {}] /\ sgQueue' = <<>>
  /\ sgQuit' = FALSE
  /\ actReq' \in Segs /\ actBusy' = FALSE /\ actReady' = NoSeg
  /\ ovReq' = NoSeg /\ ovActive' = NoSeg
  /\ wk' = "look" /\ sgJob' = NoSeg
  /\ gui' = "idle" /\ seg' = NoSeg /\ sgTodo' = Segs /\ traced' = {}
  /\ opens' = opens + 1
  /\ UNCHANGED <<active, acts>>

SegWorker == LookForWork \/ Activated \/ Compared \/ Loaded
InView == \E s \in Segs : Draw(s)
Gui == Traced \/ NextView \/ Apply \/ Refresh \/ ReopenStore

SegNext == SegWorker \/ InView \/ Gui \/ CloseStore \/ \E s \in Segs : Activate(s)

SegSpec == SegInit /\ [][SegNext]_segVars

\* The worker and the frame loop keep running.
SegFairness == WF_segVars(SegWorker) /\ WF_segVars(Gui) /\ WF_segVars(InView)

SegFairSpec == SegSpec /\ SegFairness

-----------------------------------------------------------------------------
(* Properties.                                                             *)

\* The GUI traces a grid without the lock: the grid stays cached meanwhile.
\* A segment waits in the queue once, or is being loaded, exactly when its
\* state says so, so that the queue never holds more than the store's
\* segments.  Above its budget the cache holds only what is pinned and one
\* grid more.  And an activation is prepared once and applied once: nothing is
\* prepared over one that waits to be applied, and act_busy covers that time.
GridStaysPinned ==
  /\ SegTypeOK
  /\ gui = "trace" => seg \in Ready
  /\ \A i, j \in DOMAIN sgQueue : sgQueue[i] = sgQueue[j] => i = j
  /\ {s \in Segs : sgState[s] = "queued"} = Waiting \cup (IF wk = "load" THEN {sgJob} ELSE {})
  /\ BytesOf(Ready) <= SegBudget \/ gui = "trace" \/ Cardinality(Ready) <= 1
  /\ actReady # NoSeg => wk # "activate"
  /\ actBusy <=> wk = "activate" \/ actReady # NoSeg

\* Every click is answered, a store that is taken down is opened again, the
\* overlaps shown are in the end those of the active segment, and every
\* segment in view has been traced, as long as they all fit into the cache.
AllAnswered ==
  /\ gui # "join" /\ actReq = NoSeg /\ ~actBusy
  /\ ovReq = NoSeg /\ ovActive \in {active, NoSeg}
  /\ Segs \subseteq traced \cup Unread \cup {active}
=============================================================================
