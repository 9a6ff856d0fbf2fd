------------------------------- MODULE ClipMap ------------------------------
(***************************************************************************)
(* One level of the clip map of vk/vkclip.c: the main thread requests the  *)
(* slices of its z window, a worker decodes them into staging regions, the *)
(* pump of a later frame copies finished regions into the layers of a      *)
(* texture ring.  A slice belongs to ring layer (slice % wzl); gen tells   *)
(* results for the present window and xy origin from older ones.           *)
(*                                                                         *)
(* x and y are one coordinate.  The levels differ in scale only, and share *)
(* the job queue and the pump's budget; one level has both to itself here. *)
(***************************************************************************)
EXTENDS Integers, Sequences, FiniteSets

CONSTANTS
  wzl,        \* layers of the ring, and slices of the window
  QCap,       \* QCAP: length of the job queue
  CopyBudget, \* copies per pump
  Extent,     \* nx: size of the volume in x
  Cov,        \* coverage of the level in x
  Focus,      \* focus points the camera visits
  Starts,     \* window starts the camera visits
  Corrupt,    \* slices whose data cannot be decoded
  Gens,       \* bound: generations before the counter wraps (2^32)
  MaxCamera,  \* bound: moves of the camera
  NoSlice     \* -1: no slice

ClipAssumption ==
  /\ {wzl, QCap, CopyBudget, Extent, Cov, Gens} \subseteq Nat \ {0}
  /\ Cov < Extent /\ Focus \subseteq 0..Extent /\ Starts \subseteq Nat
  /\ MaxCamera \in Nat
  /\ NoSlice \notin Nat /\ NoSlice \notin [ls : Nat, gen : Nat] \cup [ls : Nat, org : Nat]

VARIABLES
  fx, z0,        \* the camera: focus and window start
  ox,            \* lv->ox: origin of the level
  ls0,           \* st->ls0: window start of the last update
  clGen,         \* st->gen
  clSlot,        \* st->slot[k]
  clQueue,       \* job queue
  clJob, wox,    \* the worker's job, and the origin it sees (Mixed: it changed)
  clStage,       \* clStage[k]: what the staging region holds
  tex,           \* tex[k]: what the texture layer holds
  flying,        \* frames the GPU works on, with the window they were told of
  clAt, clK, clLeft, \* the main thread: place in the frame, slot, pump's budget
  clMoves        \* bound counter

clCamera == <<fx, z0, clMoves>>
clRing == <<clGen, clSlot>>
clWorker == <<clQueue, clJob, wox>>
clImages == <<clStage, tex, flying>>
clMain == <<clAt, clK, clLeft>>
clVars == <<clCamera, ox, ls0, clRing, clWorker, clImages, clMain>>

Slots == 0..(wzl - 1)
Slices == UNION {z..(z + wzl - 1) : z \in Starts}
Layer(ls) == ls % wzl
Mixed == Extent + 1  \* an origin that changed under the reader
Images == [ls : Slices, org : 0..Mixed] \* a slice seen from an origin
Empty == [state |-> "free", req |-> NoSlice, reqGen |-> 0, done |-> NoSlice,
          doneGen |-> 0, gpu |-> NoSlice, gpuGen |-> 0]

\* A region in production is the worker's, one being consumed the pump's.
ClipTypeOK ==
  /\ fx \in Focus /\ {z0, ls0} \subseteq Starts /\ ox \in 0..(Extent - Cov)
  /\ clGen \in 0..(Gens - 1)
  /\ clSlot \in [Slots -> [state : {"free", "queued", "producing", "ready", "consuming"},
                         req : Slices \cup {NoSlice}, reqGen : 0..(Gens - 1),
                         done : Slices \cup {NoSlice}, doneGen : 0..(Gens - 1),
                         gpu : Slices \cup {NoSlice}, gpuGen : 0..(Gens - 1)]]
  /\ Len(clQueue) <= QCap
  /\ \A j \in Slots : clSlot[j].state = "producing" <=> clJob # NoSlice /\ Layer(clJob.ls) = j
  /\ \A j \in Slots : clSlot[j].state = "consuming" <=> clAt = "copy" /\ j = clK
  /\ {clStage, tex} \subseteq [Slots -> Images \cup {NoSlice}]
  /\ clAt \in {"update", "invalidate", "request", "pump", "copy", "submit", "failed"}

-----------------------------------------------------------------------------
(* core/clip.h.                                                            *)

Abs(d) == IF d < 0 THEN -d ELSE d

\* The origin centred on the focus, clamped into the volume.
Recentred(f) ==
  LET o == f - Cov \div 2 IN
  IF o < 0 THEN 0 ELSE IF o + Cov > Extent THEN Extent - Cov ELSE o

NeedRecenter == Abs(fx - (ox + Cov \div 2)) > Cov \div 4

ClipInit ==
  /\ fx \in Focus /\ z0 \in Starts
  /\ ox = Recentred(fx) /\ ls0 = z0 /\ clGen = 0
  /\ clSlot = [j \in Slots |-> Empty]
  /\ clQueue = <<>> /\ clJob = NoSlice /\ wox = 0
  /\ clStage = [j \in Slots |-> NoSlice] /\ tex = [j \in Slots |-> NoSlice]
  /\ flying = {}
  /\ clAt = "update" /\ clK = 0 /\ clLeft = CopyBudget /\ clMoves = 0

-----------------------------------------------------------------------------
(* The worker.                                                             *)

\* It drops a job whose slot no longer waits for it.
Wanted(j) == LET s == clSlot[Layer(j.ls)] IN
  /\ clGen = j.gen /\ s.state = "queued" /\ s.req = j.ls /\ s.reqGen = j.gen

ClaimSlice ==
  /\ clJob = NoSlice /\ clQueue # <<>>
  /\ clQueue' = Tail(clQueue)
  /\ LET j == Head(clQueue) IN
       IF Wanted(j)
         THEN /\ clJob' = j /\ wox' = ox
              /\ clSlot' = [clSlot EXCEPT ![Layer(j.ls)].state = "producing"]
              /\ clStage' = [clStage EXCEPT ![Layer(j.ls)] = NoSlice] \* being written
         ELSE UNCHANGED <<clJob, wox, clSlot, clStage>>
  /\ UNCHANGED <<clCamera, ox, ls0, clGen, tex, flying, clMain>>

\* Mutant: a result of an older generation is handed over all the same.
ProducedLate(s, j) ==
  IF j.ls \in Corrupt
    THEN [s EXCEPT !.state = "free", !.done = NoSlice]
    ELSE [s EXCEPT !.state = "ready", !.done = j.ls, !.doneGen = clGen]

\* Mutant: a failed decode leaves the region with the worker.
ProducedOwned(s, j) ==
  IF clGen # j.gen \/ j.ls \in Corrupt
    THEN [s EXCEPT !.done = NoSlice]
    ELSE [s EXCEPT !.state = "ready", !.done = j.ls, !.doneGen = j.gen]

\* What becomes of the slot when its slice is decoded, or cannot be.
Produced(s, j) ==
  IF clGen = j.gen
    THEN IF j.ls \in Corrupt
           THEN [s EXCEPT !.state = "free", !.done = NoSlice]
           ELSE [s EXCEPT !.state = "ready", !.done = j.ls, !.doneGen = j.gen]
    ELSE [s EXCEPT !.state = "free", !.req = NoSlice, !.done = NoSlice]

FinishSlice ==
  /\ clJob # NoSlice
  /\ clSlot' = [clSlot EXCEPT ![Layer(clJob.ls)] = Produced(@, clJob)]
  /\ clStage' = [clStage EXCEPT ![Layer(clJob.ls)] =
                 IF clJob.ls \in Corrupt THEN NoSlice ELSE [ls |-> clJob.ls, org |-> wox]]
  /\ clJob' = NoSlice
  /\ UNCHANGED <<clCamera, ox, ls0, clGen, clQueue, wox, tex, flying, clMain>>

-----------------------------------------------------------------------------
(* The main thread: one frame.                                             *)

Move ==
  /\ clAt = "update" /\ clMoves < MaxCamera
  /\ fx' \in Focus /\ z0' \in Starts /\ <<fx', z0'>> # <<fx, z0>>
  /\ clMoves' = clMoves + 1
  /\ UNCHANGED <<ox, ls0, clRing, clWorker, clImages, clMain>>

\* r3d_vkclip_update up to the new generation: the origin is written without
\* the lock, under the eyes of a worker that is decoding.
Update ==
  /\ clAt = "update"
  /\ ox' = IF NeedRecenter THEN Recentred(fx) ELSE ox
  /\ ls0' = z0
  /\ wox' = IF clJob # NoSlice /\ ox' # ox THEN Mixed ELSE wox
  /\ clAt' = IF NeedRecenter \/ Abs(z0 - ls0) >= wzl THEN "invalidate" ELSE "request"
  /\ clK' = 0
  /\ UNCHANGED <<clCamera, clRing, clQueue, clJob, clImages, clLeft>>

\* Slots that are queued or ready are freed; owned ones keep their owner.
Invalidated(s, g) ==
  IF s.state \in {"queued", "ready"}
    THEN [s EXCEPT !.req = NoSlice, !.gpu = NoSlice, !.gpuGen = g, !.state = "free", !.done = NoSlice]
    ELSE [s EXCEPT !.req = NoSlice, !.gpu = NoSlice, !.gpuGen = g]

Invalidate ==
  /\ clAt = "invalidate"
  /\ clGen' = (clGen + 1) % Gens
  /\ clSlot' = [j \in Slots |-> Invalidated(clSlot[j], clGen')]
  /\ clAt' = "request"
  /\ UNCHANGED <<clCamera, ox, ls0, clWorker, clImages, clK, clLeft>>

Owned(s) == s.state \in {"producing", "consuming"}
Resident(s, ls) == s.gpu = ls /\ s.gpuGen = clGen

\* The slot is busy with this very slice, has it staged, or has failed to
\* decode it since the last new generation.
Attended(s, ls) ==
  \/ s.state \in {"queued", "free"} /\ s.req = ls /\ s.reqGen = clGen
  \/ s.state = "ready" /\ s.done = ls /\ s.doneGen = clGen

\* enqueue of one slice of the window.
Request ==
  /\ clAt = "request"
  /\ LET ls == z0 + clK
         j == Layer(ls)
         s == clSlot[j]
         freed == [s EXCEPT !.req = NoSlice, !.done = NoSlice, !.state = "free"]
     IN IF Owned(s) \/ Attended(s, ls)
          THEN UNCHANGED <<clSlot, clQueue>>
          ELSE IF Resident(s, ls) \/ Len(clQueue) = QCap
            THEN /\ clSlot' = [clSlot EXCEPT ![j] = freed]
                 /\ UNCHANGED clQueue
            ELSE /\ clSlot' = [clSlot EXCEPT ![j] = [freed EXCEPT
                               !.req = ls, !.reqGen = clGen, !.state = "queued"]]
                 /\ clQueue' = Append(clQueue, [ls |-> ls, gen |-> clGen])
  /\ IF clK = wzl - 1
       THEN clAt' = "pump" /\ clK' = 0 /\ clLeft' = CopyBudget
       ELSE clK' = clK + 1 /\ UNCHANGED <<clAt, clLeft>>
  /\ UNCHANGED <<clCamera, ox, ls0, clGen, clJob, wox, clImages>>

NextSlot(n) == IF clK = wzl - 1 \/ n = 0 THEN clAt' = "submit" /\ clK' = 0
                                        ELSE clAt' = "pump" /\ clK' = clK + 1

\* The pump looks at slot k: a stale completion is dropped, a ready one taken.
Pump ==
  /\ clAt = "pump"
  /\ LET s == clSlot[clK] IN
       IF s.state = "ready" /\ s.doneGen = clGen
         THEN /\ clSlot' = [clSlot EXCEPT ![clK].state = "consuming"]
              /\ clAt' = "copy" /\ UNCHANGED clK
         ELSE /\ clSlot' = IF s.state = "ready"
                           THEN [clSlot EXCEPT ![clK] = [s EXCEPT !.done = NoSlice, !.req = NoSlice, !.state = "free"]]
                           ELSE clSlot
              /\ NextSlot(clLeft)
  /\ UNCHANGED <<clCamera, ox, ls0, clGen, clWorker, clImages, clLeft>>

\* It waits for the frames in flight, copies the region and gives it back.
Quiet == flying = {}

Copy ==
  /\ clAt = "copy" /\ Quiet
  /\ tex' = [tex EXCEPT ![clK] = clStage[clK]]
  /\ clSlot' = [clSlot EXCEPT ![clK] = [Empty EXCEPT !.reqGen = clSlot[clK].reqGen,
                 !.doneGen = clSlot[clK].doneGen, !.gpu = clSlot[clK].done, !.gpuGen = clGen]]
  /\ clLeft' = clLeft - 1
  /\ NextSlot(clLeft - 1)
  /\ UNCHANGED <<clCamera, ox, ls0, clGen, clWorker, clStage, flying>>

\* The copy fails: the payload stays, the layer is lost, the program ends.
CopyFails ==
  /\ clAt = "copy" /\ Quiet
  /\ tex' = [tex EXCEPT ![clK] = NoSlice]
  /\ clSlot' = [clSlot EXCEPT ![clK].state = "ready"]
  /\ clAt' = "failed"
  /\ UNCHANGED <<clCamera, ox, ls0, clGen, clWorker, clStage, flying, clK, clLeft>>

\* r3d_vkclip_params: the frame may sample the level when every slice of the
\* window is in the texture.
Valid == \A i \in Slots : Resident(clSlot[Layer(z0 + i)], z0 + i)

SubmitClip ==
  /\ clAt = "submit"
  /\ flying' = IF Valid THEN flying \cup {[start |-> z0, org |-> ox]} ELSE flying
  /\ clAt' = "update"
  /\ UNCHANGED <<clCamera, ox, ls0, clRing, clWorker, clStage, tex, clK, clLeft>>

\* The GPU finishes every frame submitted so far.
FramesDone ==
  /\ flying # {} /\ flying' = {}
  /\ UNCHANGED <<clCamera, ox, ls0, clRing, clWorker, clStage, tex, clMain>>

ClipFrame == Update \/ Invalidate \/ Request \/ Pump \/ Copy \/ SubmitClip
ClipWorker == ClaimSlice \/ FinishSlice

ClipNext == ClipFrame \/ ClipWorker \/ Move \/ CopyFails \/ FramesDone

ClipSpec == ClipInit /\ [][ClipNext]_clVars

\* Frames keep coming, the worker keeps decoding and the GPU finishes.
ClipFairness == WF_clVars(ClipFrame) /\ WF_clVars(ClipWorker) /\ WF_clVars(FramesDone)

ClipFairSpec == ClipSpec /\ ClipFairness

-----------------------------------------------------------------------------
(* Properties.                                                             *)

\* A frame that was told the level is valid finds in every layer of its
\* window the slice it expects, decoded for the origin it was given, whatever
\* the camera does while the worker decodes and until the GPU is done.
FrameSeesItsWindow ==
  /\ ClipTypeOK
  /\ \A f \in flying : \A i \in Slots :
       tex[Layer(f.start + i)] = [ls |-> f.start + i, org |-> f.org]

\* When the camera rests, every frame soon has the whole level, the slices
\* that cannot be decoded excepted.
LevelFills ==
  <>[](clAt = "submit" =>
         \A i \in Slots : z0 + i \in Corrupt \/ Resident(clSlot[Layer(z0 + i)], z0 + i))
=============================================================================
