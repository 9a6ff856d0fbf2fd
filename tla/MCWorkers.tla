------------------------------ MODULE MCWorkers -----------------------------
(***************************************************************************)
(* The components whose threads wait for each other or for the outside,    *)
(* under fairness.  They do not interact, so a behaviour is one of a       *)
(* single component, chosen at the start; the others stay in one initial   *)
(* state.  The modules that are extended have the constants of the         *)
(* configuration; what else runs is an instance.  The model values m1 to   *)
(* m4 are threads, blocks or segments.                                     *)
(***************************************************************************)
EXTENDS DecodePool, TracerPool, Present, ClipMap, SegCache, TLC

CONSTANTS m1, m2, m3, m4, Invalid, Zero, None, Forever

VARIABLES
  component, \* the component that runs
  \* BrickStream
  slotBrick, slotOf, air, page, seam, tier, brState, sel, brFailed, step, brStage,
  rpc, gpuQ, atlas, gpuPage, view, brMoves, fails,
  \* DemandFetch
  dmFile, tmp, neg, cool, cached, dmPc, dmWant, strict, memo, absent, age, dmTodo, fd, got,
  dmFaults

poolAll == vars
brAll == <<slotBrick, slotOf, air, page, seam, tier, brState, sel, brFailed, step, brStage,
           rpc, gpuQ, atlas, gpuPage, view, brMoves, fails>>
trAll == tracerVars
clAll == clVars
prAll == presentVars
sgAll == segVars
dmAll == <<dmFile, tmp, neg, cool, cached, dmPc, dmWant, strict, memo, absent, age, dmTodo, fd,
           got, dmFaults>>

-----------------------------------------------------------------------------
(* The instances. *)

\* Block m1 is coarse and air; fine blocks compete for two slots, and m2 shares
\* a seam with m3.  Either m3 arrives late and may be forgotten, or a batch fails.
LateBricks == INSTANCE BrickStream WITH
  state <- brState, failed <- brFailed, stage <- brStage, moves <- brMoves,
  Blocks <- {m1, m2, m3}, Coarse <- {m1}, AtlasSlots <- {0, 1}, Air <- {m1},
  SourceZero <- {}, Late <- {m3}, Gone <- {},
  Neighbor <- (m1 :> {} @@ m2 :> {m3} @@ m3 :> {}),
  Views <- {{m1, m2}, {m1, m2, m3}},
  Budget <- 2, MaxMoves <- 0, MaxFails <- 1, NoId <- None
FailingBricks == INSTANCE BrickStream WITH
  state <- brState, failed <- brFailed, stage <- brStage, moves <- brMoves,
  Blocks <- {m1, m2, m3, m4}, Coarse <- {m1}, AtlasSlots <- {0, 1}, Air <- {m1, m4},
  SourceZero <- {}, Late <- {}, Gone <- {},
  Neighbor <- (m1 :> {} @@ m2 :> {m3} @@ m3 :> {} @@ m4 :> {}),
  Views <- {{m1, m2, m3}, {m1, m2, m4}},
  Budget <- 2, MaxMoves <- 1, MaxFails <- 1, NoId <- None

\* Of the tracer's cells the first is close to the others.
Around1 == {p \in Cells \X Cells : p[1] = p[2] \/ 1 \in {p[1], p[2]}}

\* Two segments of one unit, one of two, in a cache of three.  The store may
\* also be opened again, with a segment that cannot be read.
GridSizes == m1 :> 2 @@ m2 :> 1 @@ m3 :> 1
Reopened == INSTANCE SegCache WITH Unread <- {m3}, MaxOpens <- 1

\* Two threads and one block.
Fetch == INSTANCE DemandFetch WITH
  NoBrick <- None,
  Samplers <- {m1, m2}, Vols <- {m3}, VolOf <- [t \in {m1, m2} |-> m3],
  VolBricks <- {m4}, CellOf <- (m4 :> {m4}), FullBricks <- {m4}, CorruptBricks <- {},
  TTL <- 1, Soft <- 1, MaxFetchFaults <- 1

ASSUME Instances ==
  /\ LateBricks!StreamAssumption /\ FailingBricks!StreamAssumption /\ TracerAssumption
  /\ ClipAssumption /\ PresentAssumption /\ SegAssumption /\ Reopened!SegAssumption
  /\ Fetch!DemandAssumption

-----------------------------------------------------------------------------
Is(c) == component = c

SuiteInit ==
  /\ component \in {"pool", "late", "failing", "tracer", "clip", "jumps", "present",
                   "segments", "reopened", "fetch"}
  /\ Init
  /\ IF Is("late") THEN LateBricks!StreamInit ELSE FailingBricks!StreamInit
  /\ TracerInit /\ ClipInit /\ PresentInit /\ SegInit /\ Fetch!DemandInit
  \* Those that stand still have one initial state.
  /\ Is("late") \/ Is("failing") \/ view = {m1, m2, m3}
  /\ IF Is("clip") THEN z0 # 3 ELSE IF Is("jumps") THEN fx = 3 ELSE <<fx, z0>> = <<3, 0>>
  /\ Is("present") \/ presUp
  /\ Is("segments") \/ Is("reopened") \/ active = m1

PoolStep    == Is("pool") /\ Next
LateStep    == Is("late") /\ LateBricks!StreamNext
FailingStep == Is("failing") /\ FailingBricks!StreamNext
TracerStep  == Is("tracer") /\ TracerNext
\* The camera either moves in both directions, the window by one slice, or
\* stays in place, and the window jumps.
ClipStep    == Is("clip") /\ ClipNext /\ z0' # 3
JumpStep    == Is("jumps") /\ ClipNext /\ fx' = 3
PresentStep == Is("present") /\ PresentNext
SegStep     == Is("segments") /\ SegNext
ReopenStep  == Is("reopened") /\ Reopened!SegNext
FetchStep   == Is("fetch") /\ Fetch!DemandNext

SuiteNext ==
  /\ \/ PoolStep    /\ UNCHANGED <<brAll, trAll, clAll, prAll, sgAll, dmAll>>
     \/ LateStep    /\ UNCHANGED <<poolAll, trAll, clAll, prAll, sgAll, dmAll>>
     \/ FailingStep /\ UNCHANGED <<poolAll, trAll, clAll, prAll, sgAll, dmAll>>
     \/ TracerStep  /\ UNCHANGED <<poolAll, brAll, clAll, prAll, sgAll, dmAll>>
     \/ ClipStep    /\ UNCHANGED <<poolAll, brAll, trAll, prAll, sgAll, dmAll>>
     \/ JumpStep    /\ UNCHANGED <<poolAll, brAll, trAll, prAll, sgAll, dmAll>>
     \/ PresentStep /\ UNCHANGED <<poolAll, brAll, trAll, clAll, sgAll, dmAll>>
     \/ SegStep     /\ UNCHANGED <<poolAll, brAll, trAll, clAll, prAll, dmAll>>
     \/ ReopenStep  /\ UNCHANGED <<poolAll, brAll, trAll, clAll, prAll, dmAll>>
     \/ FetchStep   /\ UNCHANGED <<poolAll, brAll, trAll, clAll, prAll, sgAll>>
  /\ UNCHANGED component

suiteVars == <<component, poolAll, brAll, trAll, clAll, prAll, sgAll, dmAll>>

\* The fairness every component states, of the component that runs.
SuiteFairness ==
  /\ \A t \in Threads : WF_vars(Is("pool") /\ Runs(t))
  /\ WF_brAll(\/ Is("late")    /\ (LateBricks!Begin \/ LateBricks!Submit)
              \/ Is("failing") /\ (FailingBricks!Begin \/ FailingBricks!Submit))
  /\ SF_brAll(\/ Is("late")    /\ LateBricks!Frame
              \/ Is("failing") /\ FailingBricks!Frame)
  /\ WF_brAll(\/ Is("late")    /\ LateBricks!Worker
              \/ Is("failing") /\ FailingBricks!Worker)
  /\ WF_brAll(\/ Is("late")    /\ LateBricks!Execute
              \/ Is("failing") /\ FailingBricks!Execute)
  /\ WF_brAll(Is("late") /\ LateBricks!Arrive(m3))
  /\ \A t \in PoolThreads : WF_tracerVars(Is("tracer") /\ Step(t))
  /\ WF_tracerVars(Is("tracer") /\ (Collect \/ DrainPhase \/ Join))
  /\ WF_clVars((Is("clip") \/ Is("jumps")) /\ ClipFrame)
  /\ WF_clVars((Is("clip") \/ Is("jumps")) /\ ClipWorker)
  /\ WF_clVars((Is("clip") \/ Is("jumps")) /\ FramesDone)
  /\ WF_presentVars(Is("present") /\ Render) /\ WF_presentVars(Is("present") /\ Thread)
  /\ WF_segVars(\/ Is("segments") /\ SegWorker
                \/ Is("reopened") /\ Reopened!SegWorker)
  /\ WF_segVars((Is("segments") \/ Is("reopened")) /\ Gui)
  /\ WF_segVars((Is("segments") \/ Is("reopened")) /\ InView)
  /\ \A t \in {m1, m2} : WF_dmAll(Is("fetch") /\ Fetch!ReadStep(t))
  /\ WF_dmAll(Is("fetch") /\ Fetch!DemandTick) /\ SF_dmAll(Is("fetch") /\ Fetch!ReadSome(m4))

SuiteSpec == SuiteInit /\ [][SuiteNext]_suiteVars /\ SuiteFairness

-----------------------------------------------------------------------------
(* The properties of the components that are here as instances, said of    *)
(* the behaviours they run in; those of the others are said in their       *)
(* modules.                                                                *)

\* bricks: in the end the frames show every block of a view that rests, though
\* slots are contended, a block is late and a batch fails (bricks_candidate).
ViewSharpens == <>[](Is("late") \/ Is("failing") => LateBricks!ViewShown)

\* segments: a click, and every segment in view, is answered in the end, also
\* when the store is opened again (sgc_worker, sgc_activate).
ClicksAnswered ==
  <>[](IF Is("reopened") THEN Reopened!AllAnswered ELSE Is("segments") => AllAnswered)

\* fetch: what the server has is delivered again and again, though downloads
\* fail and failures are remembered (cv_brick).
Delivered == []<>(Is("fetch") => Fetch!Given(m4))
=============================================================================
