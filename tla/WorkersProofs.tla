---------------------------- MODULE WorkersProofs ---------------------------
(***************************************************************************)
(* The hand-over between a thread and the threads that work for it, for    *)
(* any number of frames, threads, cells and phases.  The present thread    *)
(* never reads a swapchain that was replaced and presents every frame      *)
(* before the renderer is gone; the tracer's candidate pool handles every  *)
(* cell of a phase once before tr_pool_run2 returns; a frame that samples  *)
(* the clip map sees the window it was told of; and the segment cache      *)
(* keeps what the GUI thread traces.                                       *)
(***************************************************************************)
EXTENDS TracerPool, Present, ClipMap, SegCache, FiniteSetTheorems, SequenceTheorems, TLAPS

-----------------------------------------------------------------------------
(* The present thread. *)

\* A frame that is drawn and not yet presented is with the render thread, or it
\* is the one present that is outstanding.
InHand == IF frameAt = "queue" THEN 1 ELSE 0
HandedOver == IF pending \/ presBusy THEN 1 ELSE 0

Flags ==
  /\ pending \in BOOLEAN /\ presBusy \in BOOLEAN /\ needResize \in BOOLEAN
  /\ failed \in BOOLEAN /\ presQuit \in BOOLEAN

PresentInv ==
  /\ PresentTypeOK
  /\ frameAt \in {"acquire", "submit"} => drawn < MaxFrames
  /\ ~(pending /\ presBusy)
  /\ pending \/ presBusy => img = swap /\ presUp
  /\ thread # "gone" => presUp
  /\ frameAt \in {"submit", "queue"} => image = swap
  /\ frameAt \in {"join", "end"} => ~pending /\ ~presBusy
  /\ drawn = shown + HandedOver + InHand

LEMMA PresentInitInv ==
  ASSUME PresentAssumption
  PROVE  PresentInit => PresentInv
<1> SUFFICES ASSUME PresentInit
             PROVE  PresentInv
  OBVIOUS
<1>1. Flags /\ presUp \in BOOLEAN
  BY DEF PresentInit, Flags
<1>2. size \in [change : 0..MaxEvents, minimised : BOOLEAN]
  BY DEF PresentInit, PresentAssumption
<1>3. PresentTypeOK
  BY <1>1, <1>2 DEF PresentAssumption, PresentInit, PresentTypeOK, Flags
<1>4. HandedOver = 0 /\ InHand = 0
  BY DEF PresentInit, HandedOver, InHand
<1>5. drawn = shown + HandedOver + InHand
  BY <1>4 DEF PresentInit
<1> QED
  BY <1>3, <1>5 DEF PresentInit, PresentInv

\* The numbers of the present thread, without its flags.
LEMMA Numbers ==
  ASSUME PresentAssumption, PresentInv
  PROVE  /\ MaxFrames \in Nat /\ MaxEvents \in Nat /\ swap \in Nat
         /\ drawn \in 0..MaxFrames /\ shown \in 0..drawn
         /\ size.change \in 0..MaxEvents
         /\ drawn = shown + HandedOver + InHand
<1>1. /\ swap \in Nat /\ drawn \in 0..MaxFrames /\ shown \in 0..drawn
      /\ size \in [change : 0..MaxEvents, minimised : BOOLEAN]
  BY DEF PresentInv, PresentTypeOK
<1>2. size.change \in 0..MaxEvents
  BY <1>1
<1> QED
  BY <1>1, <1>2 DEF PresentInv, PresentAssumption

LEMMA PresentStepInv ==
  ASSUME PresentAssumption, PresentInv, [PresentNext]_presentVars
  PROVE  PresentInv'
<1> USE DEF PresentAssumption, PresentInv, PresentTypeOK, HandedOver, InHand, window, pres
<1>1. CASE Frame
  BY <1>1 DEF Frame
<1>2. CASE Acquire
  BY <1>2 DEF Acquire
<1>3. CASE Submit
  BY <1>3 DEF Submit
<1>4. CASE Queue
  BY <1>4 DEF Queue
<1>5. CASE PresentInline
  <2>1. PICK pr \in Answers : frameAt' = CASE pr = "ok"       -> "frame"
                                           [] pr = "failed"   -> "stop"
                                           [] pr = "outdated" -> "resize inline"
    BY <1>5 DEF PresentInline
  <2>2. frameAt' \in {"frame", "stop", "resize inline"}
    BY <2>1 DEF Answers
  <2>3. /\ frameAt = "queue" /\ ~presUp /\ shown' = shown + 1
        /\ UNCHANGED <<presUp, window, image, pres, thread, drawn>>
    BY <1>5 DEF PresentInline
  <2>4. ~pending /\ ~presBusy /\ thread = "gone"
    BY <2>3
  <2>5. /\ HandedOver = 0 /\ InHand = 1 /\ HandedOver' = 0 /\ InHand' = 0
    BY <2>2, <2>3, <2>4
  <2>6. drawn' = shown' + HandedOver' + InHand' /\ shown' \in 0..drawn'
    <3> HIDE DEF PresentInv, PresentTypeOK, HandedOver, InHand
    <3> QED
      BY <2>3, <2>5, Numbers
  <2>7. PresentTypeOK'
    BY <2>2, <2>3, <2>4, <2>6
  <2> HIDE DEF PresentTypeOK
  <2> QED
    BY <2>2, <2>3, <2>4, <2>6, <2>7
<1>6. CASE Resize
  <2>1. CASE size.minimised
    BY <1>6, <2>1 DEF Resize, Drained
  <2>2. CASE ~size.minimised
    <3>1. /\ swap' = swap + 1 /\ fits' = size.change /\ frameAt' = "frame"
          /\ frameAt \in {"resize", "resize inline"} /\ ~pending /\ ~presBusy
          /\ UNCHANGED <<presUp, size, image, pres, thread, drawn, shown>>
      BY <1>6, <2>2 DEF Resize, Drained
    <3>2. swap' \in Nat /\ fits' \in 0..MaxEvents
      <4> HIDE DEF PresentInv, PresentTypeOK, HandedOver, InHand
      <4>1. swap' = swap + 1 /\ fits' = size.change
        BY <3>1
      <4>2. swap \in Nat /\ size.change \in 0..MaxEvents
        BY Numbers
      <4> QED
        BY <4>1, <4>2
    <3>3. HandedOver' = HandedOver /\ InHand' = InHand
      BY <3>1
    <3>4. PresentTypeOK'
      BY <3>1, <3>2
    <3> HIDE DEF PresentTypeOK
    <3> QED
      BY <3>1, <3>3, <3>4
  <2> QED
    BY <2>1, <2>2
<1>7. CASE Quit
  BY <1>7 DEF Quit, Drained
<1>8. CASE JoinThread
  BY <1>8 DEF JoinThread
<1>9. CASE Take
  BY <1>9 DEF Take
<1>10. CASE Presented
  <2>1. PICK pr \in Answers : needResize' = (needResize \/ pr = "outdated")
                              /\ failed' = (failed \/ pr = "failed")
    BY <1>10 DEF Presented
  <2>2. /\ thread = "present" /\ shown' = shown + 1 /\ presBusy' = FALSE /\ thread' = "wait"
        /\ UNCHANGED <<presUp, window, frameAt, image, pending, img, presQuit, drawn>>
    BY <1>10 DEF Presented
  <2>3. needResize' \in BOOLEAN /\ failed' \in BOOLEAN
    BY <2>1
  <2>4. presBusy /\ ~pending
    BY <2>2
  <2>5. /\ HandedOver = 1 /\ HandedOver' = 0 /\ InHand' = InHand /\ InHand \in {0, 1}
    BY <2>2, <2>4
  <2>6. drawn' = shown' + HandedOver' + InHand' /\ shown' \in 0..drawn'
    <3> HIDE DEF PresentInv, PresentTypeOK, HandedOver, InHand
    <3> QED
      BY <2>2, <2>5, Numbers
  <2>7. PresentTypeOK'
    BY <2>2, <2>3, <2>4, <2>6
  <2> HIDE DEF PresentTypeOK
  <2> QED
    BY <2>2, <2>4, <2>6, <2>7
<1>11. CASE Window
  <2>1. PICK m \in BOOLEAN : size' = [change |-> size.change + 1, minimised |-> m]
    BY <1>11 DEF Window
  <2>2. size' \in [change : 0..MaxEvents, minimised : BOOLEAN]
    <3>1. size.change + 1 \in 0..MaxEvents
      <4>1. size.change < MaxEvents
        BY <1>11 DEF Window
      <4> HIDE DEF PresentInv, PresentTypeOK, HandedOver, InHand
      <4> QED
        BY <4>1, Numbers
    <3> QED
      BY <2>1, <3>1
  <2> QED
    BY <1>11, <2>2 DEF Window
<1>12. CASE Stop
  BY <1>12 DEF Stop
<1>13. CASE UNCHANGED presentVars
  BY <1>13, ZenonT(40) DEF presentVars
<1> QED
  BY <1>1, <1>2, <1>3, <1>4, <1>5, <1>6, <1>7, <1>8, <1>9, <1>10, <1>11, <1>12, <1>13
     DEF PresentNext, Render, Thread

\* While a present is queued or in flight its swapchain is not replaced, and
\* nothing that was drawn is lost when the renderer is taken down.
THEOREM PresentsLive == ASSUME PresentAssumption PROVE PresentSpec => []PresentsLiveImages
<1>1. PresentInit => PresentInv
  BY PresentInitInv
<1>2. PresentInv /\ [PresentNext]_presentVars => PresentInv'
  BY PresentStepInv
<1>3. PresentInv => PresentsLiveImages
  <2> SUFFICES ASSUME PresentInv
               PROVE  PresentsLiveImages
    OBVIOUS
  <2>1. shown <= drawn
    BY Numbers
  <2>2. frameAt = "end" => HandedOver = 0 /\ InHand = 0
    BY DEF PresentInv, HandedOver, InHand
  <2>3. frameAt = "end" => shown = drawn
    BY <2>2, Numbers
  <2> QED
    BY <2>1, <2>3 DEF PresentInv, PresentsLiveImages
<1> QED
  BY <1>1, <1>2, <1>3, PTL DEF PresentSpec

-----------------------------------------------------------------------------
(* The candidate pool. *)

States == {"check", "park", "claim", "wait", "work", "exit"}

\* The threads that are inside the posted phase, and those that have left it.
Busy(x) == x \in {"claim", "wait", "work"}
LeftPhase == {t \in PoolThreads : trSeen[t] = trJob /\ ~Busy(trAt[t])}

\* While the caller waits, done counts the threads that have left; none leaves a
\* pending cell behind.  When it does not wait, all have left.
TracerInv ==
  /\ TracerTypeOK
  /\ \A t \in Working : cell[t] \in st
  /\ \A t, u \in Working : t # u => cell[t] # cell[u]
  /\ \A t \in PoolThreads : Busy(trAt[t]) => trSeen[t] = trJob
  /\ main \in {"sleep", "wait"} => done = Cardinality(LeftPhase)
  /\ main \notin {"sleep", "wait"} => LeftPhase = PoolThreads
  /\ LeftPhase # {} /\ ~stop => st = items

\* Sets of pool threads can be counted.
LEMMA ThreadCount ==
  ASSUME TracerAssumption, NEW S \in SUBSET PoolThreads
  PROVE  /\ IsFiniteSet(S) /\ Cardinality(S) \in Nat /\ nth \in Nat /\ nth > 0
         /\ Cardinality(S) <= nth /\ (Cardinality(S) = nth => S = PoolThreads)
         /\ \A t \in S : Cardinality(S \ {t}) = Cardinality(S) - 1
         /\ \A t \in PoolThreads \ S : /\ Cardinality(S \cup {t}) = Cardinality(S) + 1
                                       /\ Cardinality(S) < nth
<1>1. IsFiniteSet(PoolThreads) /\ PoolThreads # {}
  BY DEF TracerAssumption
<1>2. IsFiniteSet(S)
  BY <1>1, FS_Subset
<1>3. Cardinality(S) \in Nat /\ nth \in Nat
  BY <1>1, <1>2, FS_CardinalityType DEF nth
<1>4. nth # 0
  BY <1>1, FS_EmptySet DEF nth
<1>5. Cardinality(S) <= nth /\ (Cardinality(S) = nth => S = PoolThreads)
  BY <1>1, FS_Subset DEF nth
<1>6. \A t \in S : Cardinality(S \ {t}) = Cardinality(S) - 1
  BY <1>2, FS_RemoveElement
<1>7. \A t \in PoolThreads \ S : Cardinality(S \cup {t}) = Cardinality(S) + 1
  BY <1>2, FS_AddElement
<1>8. ASSUME NEW t \in PoolThreads \ S
      PROVE  Cardinality(S) < nth
  <2>1. S # PoolThreads
    OBVIOUS
  <2> QED
    BY <1>3, <1>5, <2>1
<1> QED
  BY <1>2, <1>3, <1>4, <1>5, <1>6, <1>7, <1>8

\* The claim loop, whoever enters it and however: from the signal of a new
\* phase, from a wait, or from a cell that is done.
LEMMA LookInv ==
  ASSUME TracerAssumption, TracerInv, NEW t \in PoolThreads,
         NEW f \in [PoolThreads -> States],
         NEW a \in [0..(nth - 1) -> Cells \cup {NoCell}],
         NEW k, k = Cardinality(Working \ {t}),
         \A u \in PoolThreads : /\ f[u] = "work" <=> trAt[u] = "work"
                                /\ Busy(f[u]) <=> Busy(trAt[u]),
         t \notin LeftPhase, main \in {"sleep", "wait"},
         trSeen' = [trSeen EXCEPT ![t] = trJob],
         UNCHANGED <<trJob, items, stop, trQuit>>,
         Look(t, f, a, k, st)
  PROVE  TracerInv'
<1> DEFINE others == Working \ {t}
<1>1. /\ trAt \in [PoolThreads -> States] /\ cell \in [PoolThreads -> Cells \cup {NoCell}]
      /\ slot \in [PoolThreads -> 0..(nth - 1)]
      /\ trSeen \in [PoolThreads -> 0..trJob] /\ trJob \in 0..MaxJobs
      /\ st \subseteq items /\ items \subseteq Cells
      /\ main \in {"sleep", "wait"} /\ stop \in BOOLEAN /\ trQuit \in BOOLEAN
  BY DEF TracerInv, TracerTypeOK, States
<1>2. k \in Nat /\ k < nth /\ others \in SUBSET PoolThreads
  <2>1. others \in SUBSET PoolThreads /\ t \in PoolThreads \ others
    BY DEF Working
  <2> HIDE DEF others
  <2>2. k = Cardinality(others)
    BY DEF others
  <2> QED
    BY <2>1, <2>2, ThreadCount
<1>3. k \in 0..(nth - 1) /\ nth \in Nat /\ k + 1 \in Nat
  BY <1>2, ThreadCount
<1>4. LeftPhase \in SUBSET PoolThreads
  BY DEF LeftPhase
<1>5. done = Cardinality(LeftPhase)
  BY DEF TracerInv
<1>6. trSeen' \in [PoolThreads -> 0..trJob] /\ trSeen'[t] = trJob
      /\ \A u \in PoolThreads \ {t} : trSeen'[u] = trSeen[u]
  <2>1. trJob \in 0..trJob
    BY <1>1
  <2> QED
    BY <1>1, <2>1
<1>7. CASE ~stop /\ \E pick \in Clear(a, k, st) : cell' = [cell EXCEPT ![t] = pick]
                                               /\ st' = st \cup {pick}
                                               /\ act' = [a EXCEPT ![k] = pick]
                                               /\ slot' = [slot EXCEPT ![t] = k]
                                               /\ nact' = k + 1
                                               /\ trAt' = [f EXCEPT ![t] = "work"]
                                               /\ UNCHANGED <<done, main>>
  <2>1. PICK pick \in Clear(a, k, st) : /\ cell' = [cell EXCEPT ![t] = pick]
                                        /\ st' = st \cup {pick}
                                        /\ act' = [a EXCEPT ![k] = pick]
    BY <1>7
  <2>2. /\ slot' = [slot EXCEPT ![t] = k] /\ nact' = k + 1
        /\ trAt' = [f EXCEPT ![t] = "work"] /\ UNCHANGED <<done, main>>
    BY <1>7
  <2>3. pick \in items /\ pick \notin st /\ pick \in Cells
    BY <1>1, <2>1 DEF Clear
  <2>4. Working' = others \cup {t}
    BY <2>2 DEF Working
  <2>5. nact' = Cardinality(Working')
    <3> HIDE DEF others
    <3>1. t \in PoolThreads \ others /\ k = Cardinality(others)
      BY DEF others
    <3>2. Cardinality(others \cup {t}) = k + 1
      BY <1>2, <3>1, ThreadCount
    <3> QED
      BY <2>2, <2>4, <3>2
  <2>6. LeftPhase' = LeftPhase
    BY <1>6, <2>2 DEF LeftPhase, Busy
  <2>7. TracerTypeOK'
    <3>1. done' \in 0..nth
      BY <1>3, <1>4, <1>5, <2>2, ThreadCount
    <3>2. trAt' \in [PoolThreads -> States] /\ cell' \in [PoolThreads -> Cells \cup {NoCell}]
      BY <1>1, <2>1, <2>2, <2>3 DEF States
    <3>3. /\ slot' \in [PoolThreads -> 0..(nth - 1)]
          /\ act' \in [0..(nth - 1) -> Cells \cup {NoCell}]
          /\ st' \subseteq items' /\ items' \subseteq Cells
      BY <1>1, <1>3, <2>1, <2>2, <2>3
    <3>4. main' \in {"idle", "wait", "sleep", "drain", "join", "end"}
          /\ stop' \in BOOLEAN /\ trQuit' \in BOOLEAN
          /\ trSeen' \in [PoolThreads -> 0..trJob'] /\ trJob' \in 0..MaxJobs
      BY <1>1, <1>6, <2>2
    <3> QED
      BY <2>5, <3>1, <3>2, <3>3, <3>4 DEF TracerTypeOK, States, nth
  <2>8. \A u \in Working' : cell'[u] \in st' /\ (u # t => u \in Working /\ cell'[u] = cell[u]
                                                         /\ cell[u] \in st)
    BY <1>1, <2>1, <2>4 DEF TracerInv, Working
  <2>9. cell'[t] = pick
    BY <1>1, <2>1
  <2>10. \A u, v \in Working' : u # v => cell'[u] # cell'[v]
    BY <2>3, <2>8, <2>9 DEF TracerInv
  <2>11. \A u \in PoolThreads : Busy(trAt'[u]) => trSeen'[u] = trJob'
    BY <1>6, <2>2 DEF TracerInv
  <2>12. LeftPhase = {}
    BY <1>7, <2>3 DEF TracerInv
  <2> QED
    BY <1>1, <1>5, <2>2, <2>6, <2>7, <2>8, <2>10, <2>11, <2>12 DEF TracerInv
<1>8. ASSUME NEW x \in {"wait", "park"},
             stop \/ Clear(a, k, st) = {},
             cell' = [cell EXCEPT ![t] = NoCell], st' = st, act' = a, nact' = k,
             slot' = slot, trAt' = [f EXCEPT ![t] = x]
      PROVE  /\ Working' = others /\ nact' = Cardinality(Working')
             /\ \A u \in Working' : u \in Working /\ u # t /\ cell'[u] = cell[u]
             /\ trAt' \in [PoolThreads -> States] /\ cell' \in [PoolThreads -> Cells \cup {NoCell}]
             /\ slot' \in [PoolThreads -> 0..(nth - 1)]
             /\ act' \in [0..(nth - 1) -> Cells \cup {NoCell}]
             /\ \A u \in PoolThreads : Busy(trAt'[u]) => trSeen'[u] = trJob'
             /\ x = "wait" => LeftPhase' = LeftPhase
             /\ x = "park" => LeftPhase' = LeftPhase \cup {t}
  <2>1. Working' = others
    BY <1>8 DEF Working
  <2>2. \A u \in Working' : u \in Working /\ u # t /\ cell'[u] = cell[u]
    BY <1>1, <1>8, <2>1 DEF Working
  <2>3. trAt' \in [PoolThreads -> States] /\ cell' \in [PoolThreads -> Cells \cup {NoCell}]
    BY <1>1, <1>8 DEF States
  <2>4. \A u \in PoolThreads : Busy(trAt'[u]) => trSeen'[u] = trJob'
    BY <1>6, <1>8 DEF TracerInv
  <2>5. x = "wait" => LeftPhase' = LeftPhase
    BY <1>6, <1>8 DEF LeftPhase, Busy
  <2>6. x = "park" => LeftPhase' = LeftPhase \cup {t}
    BY <1>6, <1>8 DEF LeftPhase, Busy
  <2> QED
    BY <1>1, <1>8, <2>1, <2>2, <2>3, <2>4, <2>5, <2>6
<1>9. CASE /\ stop \/ Clear(a, k, st) = {}
           /\ cell' = [cell EXCEPT ![t] = NoCell] /\ st' = st /\ act' = a /\ nact' = k
           /\ slot' = slot /\ trAt' = [f EXCEPT ![t] = "wait"]
           /\ UNCHANGED <<done, main>>
  <2>1. /\ nact' = Cardinality(Working') /\ LeftPhase' = LeftPhase
        /\ \A u \in Working' : u \in Working /\ cell'[u] = cell[u]
        /\ trAt' \in [PoolThreads -> States] /\ cell' \in [PoolThreads -> Cells \cup {NoCell}]
        /\ slot' \in [PoolThreads -> 0..(nth - 1)]
        /\ act' \in [0..(nth - 1) -> Cells \cup {NoCell}]
        /\ \A u \in PoolThreads : Busy(trAt'[u]) => trSeen'[u] = trJob'
    BY <1>8, <1>9
  <2>2. done' \in 0..nth
    BY <1>3, <1>4, <1>5, <1>9, ThreadCount
  <2>3. TracerTypeOK'
    BY <1>1, <1>6, <1>9, <2>1, <2>2 DEF TracerTypeOK, States, nth
  <2> QED
    BY <1>1, <1>5, <1>9, <2>1, <2>3 DEF TracerInv
<1>10. CASE /\ stop \/ Clear(a, k, st) = {}
            /\ cell' = [cell EXCEPT ![t] = NoCell] /\ st' = st /\ act' = a /\ nact' = k
            /\ slot' = slot /\ trAt' = [f EXCEPT ![t] = "park"]
            /\ stop \/ items = st \/ ~(k > 0)
            /\ done' = done + 1
            /\ main' = IF main = "sleep" THEN "wait" ELSE main
  <2>1. /\ nact' = Cardinality(Working') /\ LeftPhase' = LeftPhase \cup {t}
        /\ \A u \in Working' : u \in Working /\ cell'[u] = cell[u]
        /\ trAt' \in [PoolThreads -> States] /\ cell' \in [PoolThreads -> Cells \cup {NoCell}]
        /\ slot' \in [PoolThreads -> 0..(nth - 1)]
        /\ act' \in [0..(nth - 1) -> Cells \cup {NoCell}]
        /\ \A u \in PoolThreads : Busy(trAt'[u]) => trSeen'[u] = trJob'
    BY <1>8, <1>10
  <2>2. done' = Cardinality(LeftPhase') /\ done' \in 0..nth
    <3>1. t \in PoolThreads \ LeftPhase
      OBVIOUS
    <3>2. Cardinality(LeftPhase \cup {t}) = Cardinality(LeftPhase) + 1
          /\ Cardinality(LeftPhase) < nth /\ Cardinality(LeftPhase) \in Nat
      BY <1>4, <3>1, ThreadCount
    <3>3. done' = Cardinality(LeftPhase')
      BY <1>5, <1>10, <2>1, <3>2
    <3>4. done \in Nat /\ done < nth /\ done' = done + 1
      BY <1>5, <1>10, <3>2
    <3>5. done' \in 0..nth
      BY <1>3, <3>4
    <3> QED
      BY <3>3, <3>5
  <2>3. main' = "wait"
    BY <1>1, <1>10
  <2>4. ~stop => st = items
    <3>1. ASSUME ~(k > 0), Clear(a, k, st) = {}
          PROVE  items \subseteq st
      <4>1. 0..(k - 1) = {}
        BY <1>2, <3>1
      <4> QED
        BY <3>1, <4>1 DEF Clear
    <3> QED
      BY <1>1, <1>10, <3>1
  <2>5. TracerTypeOK'
    BY <1>1, <1>6, <1>10, <2>1, <2>2, <2>3 DEF TracerTypeOK, States, nth
  <2> QED
    BY <1>1, <1>10, <2>1, <2>2, <2>3, <2>4, <2>5 DEF TracerInv
<1> QED
  BY <1>7, <1>9, <1>10 DEF Look

LEMMA CheckJobKeeps ==
  ASSUME TracerAssumption, TracerInv, NEW t \in PoolThreads, CheckJob(t)
  PROVE  TracerInv'
<1>1. /\ trAt \in [PoolThreads -> States] /\ trSeen \in [PoolThreads -> 0..trJob]
      /\ act \in [0..(nth - 1) -> Cells \cup {NoCell}] /\ nact = Cardinality(Working)
      /\ trAt[t] = "check" /\ UNCHANGED <<trJob, items, stop, trQuit>>
  BY DEF TracerInv, TracerTypeOK, States, CheckJob
<1>2. CASE /\ trJob # trSeen[t] /\ trSeen' = [trSeen EXCEPT ![t] = trJob]
           /\ Look(t, trAt, act, nact, st)
  <2>1. nact = Cardinality(Working \ {t})
    <3>1. Working \ {t} = Working
      BY <1>1 DEF Working
    <3> QED
      BY <1>1, <3>1
  <2>2. t \notin LeftPhase
    BY <1>2 DEF LeftPhase
  <2>3. main \in {"sleep", "wait"}
    BY <2>2 DEF TracerInv
  <2> QED
    BY <1>1, <1>2, <2>1, <2>2, <2>3, LookInv
<1>3. CASE /\ trAt' = [trAt EXCEPT ![t] = IF trQuit THEN "exit" ELSE "park"]
           /\ UNCHANGED <<cell, slot, trSeen, nact, done, act, st, main>>
  <2>1. Working' = Working
    BY <1>1, <1>3 DEF Working
  <2>2. LeftPhase' = LeftPhase
    BY <1>1, <1>3 DEF LeftPhase, Busy
  <2>3. TracerTypeOK'
    BY <1>1, <1>3, <2>1 DEF TracerInv, TracerTypeOK, States, nth
  <2>4. \A u \in PoolThreads : Busy(trAt'[u]) => Busy(trAt[u])
    BY <1>1, <1>3 DEF Busy
  <2> QED
    BY <1>1, <1>3, <2>1, <2>2, <2>3, <2>4 DEF TracerInv
<1> QED
  BY <1>2, <1>3 DEF CheckJob

\* A thread that is inside the phase has looked at its number.
LEMMA SeenStays ==
  ASSUME TracerInv, NEW t \in PoolThreads, Busy(trAt[t]), UNCHANGED trSeen
  PROVE  /\ t \notin LeftPhase /\ main \in {"sleep", "wait"}
         /\ trSeen' = [trSeen EXCEPT ![t] = trJob]
<1>1. t \notin LeftPhase
  BY DEF LeftPhase
<1>2. main \in {"sleep", "wait"}
  BY <1>1 DEF TracerInv
<1>3. trSeen[t] = trJob /\ trSeen \in [PoolThreads -> 0..trJob]
  BY DEF TracerInv, TracerTypeOK
<1> QED
  BY <1>1, <1>2, <1>3

LEMMA ClaimCellKeeps ==
  ASSUME TracerAssumption, TracerInv, NEW t \in PoolThreads, ClaimCell(t)
  PROVE  TracerInv'
<1>1. /\ trAt \in [PoolThreads -> States]
      /\ act \in [0..(nth - 1) -> Cells \cup {NoCell}] /\ nact = Cardinality(Working)
      /\ trAt[t] = "claim" /\ UNCHANGED <<trJob, items, stop, trQuit>> /\ UNCHANGED trSeen
      /\ Look(t, trAt, act, nact, st)
  BY DEF TracerInv, TracerTypeOK, States, ClaimCell
<1>2. nact = Cardinality(Working \ {t})
  <2>1. Working \ {t} = Working
    BY <1>1 DEF Working
  <2> QED
    BY <1>1, <2>1
<1>3. Busy(trAt[t])
  BY <1>1 DEF Busy
<1>4. /\ t \notin LeftPhase /\ main \in {"sleep", "wait"}
      /\ trSeen' = [trSeen EXCEPT ![t] = trJob]
  BY <1>1, <1>3, SeenStays
<1> QED
  BY <1>1, <1>2, <1>4, LookInv

LEMMA Wakes ==
  ASSUME trAt \in [PoolThreads -> States]
  PROVE  /\ WokenThreads(trAt) \in [PoolThreads -> States]
         /\ \A u \in PoolThreads : /\ WokenThreads(trAt)[u] = "work" <=> trAt[u] = "work"
                                   /\ Busy(WokenThreads(trAt)[u]) <=> Busy(trAt[u])
<1>1. ASSUME NEW u \in PoolThreads
      PROVE  /\ WokenThreads(trAt)[u] \in States
             /\ WokenThreads(trAt)[u] = "work" <=> trAt[u] = "work"
             /\ Busy(WokenThreads(trAt)[u]) <=> Busy(trAt[u])
  <2>1. WokenThreads(trAt)[u] = CASE trAt[u] = "park" -> "check"
                                  [] trAt[u] = "wait" -> "claim"
                                  [] OTHER            -> trAt[u]
    BY DEF WokenThreads
  <2>2. trAt[u] \in States
    OBVIOUS
  <2>3. CASE trAt[u] = "park"
    BY <2>1, <2>3 DEF States, Busy
  <2>4. CASE trAt[u] = "wait"
    BY <2>1, <2>4 DEF States, Busy
  <2>5. CASE trAt[u] \notin {"park", "wait"}
    BY <2>1, <2>2, <2>5
  <2> QED
    BY <2>3, <2>4, <2>5
<1>2. WokenThreads(trAt) = [u \in PoolThreads |-> WokenThreads(trAt)[u]]
  BY DEF WokenThreads
<1> QED
  BY <1>1, <1>2

LEMMA FinishKeeps ==
  ASSUME TracerAssumption, TracerInv, NEW t \in PoolThreads, Finish(t)
  PROVE  TracerInv'
<1>1. /\ trAt \in [PoolThreads -> States]
      /\ act \in [0..(nth - 1) -> Cells \cup {NoCell}] /\ nact = Cardinality(Working)
      /\ slot \in [PoolThreads -> 0..(nth - 1)]
      /\ trAt[t] = "work" /\ UNCHANGED <<trJob, items, stop, trQuit>> /\ UNCHANGED trSeen
      /\ Look(t, WokenThreads(trAt), Removed(t), nact - 1, st)
  BY DEF TracerInv, TracerTypeOK, States, Finish
<1>2. nact - 1 = Cardinality(Working \ {t}) /\ nact - 1 \in 0..(nth - 1)
  <2>1. Working \in SUBSET PoolThreads /\ t \in Working
    BY <1>1 DEF Working
  <2>2. /\ Cardinality(Working \ {t}) = nact - 1 /\ nact \in Nat /\ nact <= nth /\ nth \in Nat
    BY <1>1, <2>1, ThreadCount
  <2>3. Working \ {t} \in SUBSET PoolThreads
    BY <2>1
  <2>4. Cardinality(Working \ {t}) \in Nat
    BY <2>3, ThreadCount
  <2> QED
    BY <2>2, <2>4
<1>3. Removed(t) \in [0..(nth - 1) -> Cells \cup {NoCell}]
  BY <1>1, <1>2 DEF Removed
<1>4. Busy(trAt[t])
  BY <1>1 DEF Busy
<1>5. /\ t \notin LeftPhase /\ main \in {"sleep", "wait"}
      /\ trSeen' = [trSeen EXCEPT ![t] = trJob]
  BY <1>1, <1>4, SeenStays
<1>6. PICK f \in [PoolThreads -> States] :
        /\ f = WokenThreads(trAt)
        /\ \A u \in PoolThreads : /\ f[u] = "work" <=> trAt[u] = "work"
                                  /\ Busy(f[u]) <=> Busy(trAt[u])
  BY <1>1, Wakes
<1> QED
  BY <1>1, <1>2, <1>3, <1>5, <1>6, LookInv

\* Steps that wake threads but let none in.
LEMMA WakeKeeps ==
  ASSUME TracerInv, trAt' \in [PoolThreads -> States],
         \A u \in PoolThreads : /\ trAt'[u] = "work" <=> trAt[u] = "work"
                                /\ Busy(trAt'[u]) <=> Busy(trAt[u]),
         UNCHANGED <<cell, slot, trSeen, trPoolVars>>,
         main' \in {"idle", "wait", "sleep", "drain", "join", "end"},
         main' \in {"sleep", "wait"} <=> main \in {"sleep", "wait"},
         stop' \in BOOLEAN, trQuit' \in BOOLEAN, stop => stop'
  PROVE  TracerInv'
<1>1. Working' = Working
  BY DEF Working
<1>2. LeftPhase' = LeftPhase
  BY DEF LeftPhase, trPoolVars
<1>3. TracerTypeOK'
  BY <1>1 DEF TracerInv, TracerTypeOK, States, nth, trPoolVars
<1> QED
  BY <1>1, <1>2, <1>3 DEF TracerInv, trPoolVars

LEMMA PostPhaseKeeps ==
  ASSUME TracerAssumption, TracerInv, NEW phase \in SUBSET Cells, PostPhase(phase)
  PROVE  TracerInv'
<1>1. /\ trAt \in [PoolThreads -> States] /\ trSeen \in [PoolThreads -> 0..trJob]
      /\ trJob \in 0..MaxJobs /\ LeftPhase = PoolThreads
  BY DEF PostPhase, TracerInv, TracerTypeOK, States
<1>2. \A u \in PoolThreads : ~Busy(trAt[u])
  BY <1>1 DEF LeftPhase
<1>3. /\ items' = phase /\ st' = {} /\ nact' = 0 /\ done' = 0 /\ trJob' = trJob + 1
      /\ trAt' = WokenThreads(trAt) /\ main' = "sleep" /\ trJob < MaxJobs /\ ~stop
      /\ UNCHANGED <<cell, slot, trSeen, act, stop, trQuit>>
  BY DEF PostPhase
<1>4. trAt' \in [PoolThreads -> States] /\ \A u \in PoolThreads : ~Busy(trAt'[u])
  BY <1>1, <1>2, <1>3, Wakes
<1>5. Working' = {}
  BY <1>4 DEF Working, Busy
<1>6. /\ trJob' \in 0..MaxJobs
      /\ \A u \in PoolThreads : trSeen'[u] # trJob' /\ trSeen'[u] \in 0..trJob'
  BY <1>1, <1>3 DEF TracerAssumption
<1>7. LeftPhase' = {}
  BY <1>6 DEF LeftPhase
<1>8. Cardinality(Working') = 0 /\ Cardinality(LeftPhase') = 0
  BY <1>5, <1>7, FS_EmptySet
<1>9. trSeen' \in [PoolThreads -> 0..trJob']
  BY <1>1, <1>3, <1>6
<1>10. 0 \in 0..nth
  BY ThreadCount
<1>11. TracerTypeOK'
  BY <1>3, <1>4, <1>6, <1>8, <1>9, <1>10 DEF TracerInv, TracerTypeOK, States, nth
<1> QED
  BY <1>3, <1>4, <1>5, <1>7, <1>8, <1>11 DEF TracerInv

LEMMA TracerInitInv ==
  ASSUME TracerAssumption
  PROVE  TracerInit => TracerInv
<1> SUFFICES ASSUME TracerInit
             PROVE  TracerInv
  OBVIOUS
<1>1. nth \in Nat /\ nth > 0
  BY ThreadCount
<1>2. Working = {} /\ LeftPhase = PoolThreads
  BY DEF TracerInit, Working, LeftPhase, Busy
<1>3. nact = Cardinality(Working)
  BY <1>2, FS_EmptySet DEF TracerInit
<1>4. 0 \in 0..(nth - 1) /\ 0 \in 0..nth /\ 0 \in 0..MaxJobs /\ 0 \in 0..0
  BY <1>1 DEF TracerAssumption
<1>5. /\ trAt \in [PoolThreads -> States] /\ slot \in [PoolThreads -> 0..(nth - 1)]
      /\ trSeen \in [PoolThreads -> 0..trJob]
  BY <1>4 DEF TracerInit, States
<1>6. TracerTypeOK
  BY <1>3, <1>4, <1>5 DEF TracerInit, TracerTypeOK, States
<1> QED
  BY <1>2, <1>6 DEF TracerInit, TracerInv, Busy

LEMMA TracerStepInv ==
  ASSUME TracerAssumption, TracerInv, [TracerNext]_tracerVars
  PROVE  TracerInv'
<1>1. /\ trAt \in [PoolThreads -> States] /\ stop \in BOOLEAN /\ trQuit \in BOOLEAN
      /\ main \in {"idle", "wait", "sleep", "drain", "join", "end"}
      /\ done \in 0..nth /\ LeftPhase \in SUBSET PoolThreads
  BY DEF TracerInv, TracerTypeOK, States, LeftPhase
<1>2. ASSUME NEW t \in PoolThreads, Step(t)
      PROVE  TracerInv'
  BY <1>2, CheckJobKeeps, ClaimCellKeeps, FinishKeeps DEF Step
<1>3. ASSUME NEW phase \in SUBSET Cells \ {{}}, PostPhase(phase)
      PROVE  TracerInv'
  BY <1>3, PostPhaseKeeps
<1>4. CASE Collect
  <2>1. CASE done < nth
    BY <1>1, <1>4, <2>1, WakeKeeps DEF Collect, threadVars
  <2>2. CASE ~(done < nth)
    <3>1. done = nth
      BY <1>1, <2>2, ThreadCount
    <3>2. LeftPhase = PoolThreads
      BY <1>1, <1>4, <3>1, ThreadCount DEF Collect, TracerInv
    <3>3. main' = "drain" /\ UNCHANGED <<threadVars, trPoolVars, stop, trQuit>>
      BY <1>4, <2>2 DEF Collect
    <3>4. Working' = Working /\ LeftPhase' = LeftPhase
      BY <3>3 DEF threadVars, trPoolVars, Working, LeftPhase
    <3>5. TracerTypeOK'
      BY <3>3, <3>4 DEF TracerInv, TracerTypeOK, threadVars, trPoolVars, nth
    <3> QED
      BY <3>2, <3>3, <3>4, <3>5 DEF TracerInv, threadVars, trPoolVars
  <2> QED
    BY <2>1, <2>2
<1>5. CASE DrainPhase
  <2>1. /\ LeftPhase = PoolThreads /\ items' = {} /\ st' = {} /\ main' = "idle"
        /\ UNCHANGED <<threadVars, trJob, nact, done, act, stop, trQuit>>
    BY <1>5 DEF DrainPhase, TracerInv
  <2>2. Working' = Working /\ LeftPhase' = LeftPhase /\ Working = {}
    BY <2>1 DEF threadVars, Working, LeftPhase, Busy
  <2>3. TracerTypeOK'
    BY <2>1, <2>2 DEF TracerInv, TracerTypeOK, threadVars, nth
  <2> QED
    BY <2>1, <2>2, <2>3 DEF TracerInv, threadVars
<1>6. CASE Cancel
  BY <1>1, <1>6, WakeKeeps DEF Cancel, threadVars
<1>7. CASE Destroy
  <2>1. /\ trAt' \in [PoolThreads -> States]
        /\ \A u \in PoolThreads : /\ trAt'[u] = "work" <=> trAt[u] = "work"
                                  /\ Busy(trAt'[u]) <=> Busy(trAt[u])
    BY <1>1, <1>7, Wakes DEF Destroy
  <2> QED
    BY <1>1, <1>7, <2>1, WakeKeeps DEF Destroy
<1>8. CASE Join
  BY <1>1, <1>8, WakeKeeps DEF Join, threadVars
<1>9. CASE SpuriousWake
  <2>1. /\ trAt' \in [PoolThreads -> States]
        /\ \A u \in PoolThreads : /\ trAt'[u] = "work" <=> trAt[u] = "work"
                                  /\ Busy(trAt'[u]) <=> Busy(trAt[u])
    BY <1>1, <1>9 DEF SpuriousWake, States, Busy
  <2>2. /\ UNCHANGED <<cell, slot, trSeen, trPoolVars, stop, trQuit>>
        /\ main' = main \/ (main = "sleep" /\ main' = "wait")
    BY <1>9 DEF SpuriousWake
  <2> QED
    BY <1>1, <2>1, <2>2, WakeKeeps
<1>10. CASE UNCHANGED tracerVars
  BY <1>1, <1>10, WakeKeeps DEF tracerVars, threadVars
<1> QED
  BY <1>2, <1>3, <1>4, <1>5, <1>6, <1>7, <1>8, <1>9, <1>10 DEF TracerNext

\* The counters of the pool agree with its threads, no two threads work on one
\* cell, and the caller goes on when every cell is handled and nobody is inside.
THEOREM PhasesComplete == ASSUME TracerAssumption PROVE TracerSpec => []PhaseComplete
<1>1. TracerInit => TracerInv
  BY TracerInitInv
<1>2. TracerInv /\ [TracerNext]_tracerVars => TracerInv'
  BY TracerStepInv
<1>3. TracerInv => PhaseComplete
  <2> SUFFICES ASSUME TracerInv
               PROVE  PhaseComplete
    OBVIOUS
  <2>1. main \notin {"sleep", "wait"} => Working = {}
    BY DEF TracerInv, LeftPhase, Busy, Working
  <2>2. PoolThreads # {}
    BY DEF TracerAssumption
  <2> QED
    BY <2>1, <2>2 DEF TracerInv, PhaseComplete
<1> QED
  BY <1>1, <1>2, <1>3, PTL DEF TracerSpec

-----------------------------------------------------------------------------
(* One level of the clip map. *)

\* What the rows of the ring and the jobs hold.
SlotType == [state : {"free", "queued", "producing", "ready", "consuming"},
             req : Slices \cup {NoSlice}, reqGen : 0..(Gens - 1),
             done : Slices \cup {NoSlice}, doneGen : 0..(Gens - 1),
             gpu : Slices \cup {NoSlice}, gpuGen : 0..(Gens - 1)]
Jobs == [ls : Slices, gen : 0..(Gens - 1)]

ClipTypes ==
  /\ fx \in Focus /\ z0 \in Starts /\ ls0 \in Starts /\ ox \in 0..(Extent - Cov)
  /\ clGen \in 0..(Gens - 1)
  /\ clSlot \in [Slots -> SlotType]
  /\ clQueue \in Seq(Jobs) /\ Len(clQueue) <= QCap
  /\ clJob \in Jobs \cup {NoSlice} /\ wox \in 0..Mixed
  /\ clStage \in [Slots -> Images \cup {NoSlice}] /\ tex \in [Slots -> Images \cup {NoSlice}]
  /\ clK \in Slots
  /\ clAt \in {"update", "invalidate", "request", "pump", "copy", "submit", "failed"}

\* A region in production is the worker's, one being consumed the pump's.
Owners ==
  /\ \A j \in Slots : clSlot[j].state = "producing" <=> clJob # NoSlice /\ Layer(clJob.ls) = j
  /\ \A j \in Slots : clSlot[j].state = "consuming" <=> clAt = "copy" /\ j = clK

\* No generation is ahead of the present one.
Past ==
  /\ \A j \in Slots : clSlot[j].doneGen <= clGen
  /\ \A i \in DOMAIN clQueue : clQueue[i].gen <= clGen
  /\ clJob # NoSlice => clJob.gen <= clGen

\* A job of the present generation sees the present origin, a slot of it has
\* its slice staged, and what it calls resident is in the texture.
JobTrue ==
  clAt # "invalidate" /\ clJob # NoSlice /\ clJob.gen = clGen => wox = ox
StagedTrue(j) ==
  clAt # "invalidate" /\ clSlot[j].state \in {"ready", "consuming"} /\ clSlot[j].doneGen = clGen
    => /\ clSlot[j].done \in Slices 
       /\ clStage[j] = [ls |-> clSlot[j].done, org |-> ox]
ResidentTrue(j) ==
  clAt \notin {"invalidate", "failed"} /\ clSlot[j].gpu # NoSlice /\ clSlot[j].gpuGen = clGen
    => tex[j] = [ls |-> clSlot[j].gpu, org |-> ox]
Fresh == clAt = "copy" => clSlot[clK].doneGen = clGen
Told == \A f \in flying : \A i \in Slots :
          tex[Layer(f.start + i)] = [ls |-> f.start + i, org |-> f.org]

ClipInv ==
  /\ ClipTypes /\ Owners /\ Past /\ JobTrue /\ Fresh /\ Told
  /\ \A j \in Slots : StagedTrue(j) /\ ResidentTrue(j)

NoWrap == clAt = "invalidate" => clGen + 1 < Gens

\* Windows, layers, and what stands for no slice.
LEMMA RingFacts ==
  ASSUME ClipAssumption
  PROVE  /\ Slots \subseteq Nat /\ 0 \in Slots /\ Slices \subseteq Nat /\ Starts \subseteq Nat
         /\ \A z \in Starts, k \in Slots : z + k \in Slices
         /\ \A ls \in Slices : Layer(ls) \in Slots
         /\ NoSlice \notin Slices /\ NoSlice \notin Jobs /\ NoSlice \notin Images
         /\ \A n \in Nat : NoSlice # n
         /\ Gens \in Nat /\ 0 \in 0..(Gens - 1) /\ 0 \in 0..Mixed /\ Mixed \in 0..Mixed
         /\ 0..(Extent - Cov) \subseteq 0..Mixed
<1>1. /\ wzl \in Nat \ {0} /\ Extent \in Nat /\ Cov \in Nat /\ Gens \in Nat \ {0}
      /\ Starts \subseteq Nat /\ NoSlice \notin Nat
  BY DEF ClipAssumption
<1>2. Slots \subseteq Nat /\ 0 \in Slots
  BY <1>1 DEF Slots
<1>3. Slices \subseteq Nat
  BY <1>1 DEF Slices
<1>4. ASSUME NEW z \in Starts, NEW k \in Slots
      PROVE  z + k \in Slices
  <2>1. z + k \in z..(z + wzl - 1)
    BY <1>1 DEF Slots
  <2> QED
    BY <2>1 DEF Slices
<1>5. ASSUME NEW ls \in Slices
      PROVE  Layer(ls) \in Slots
  <2>1. ls \in Nat
    BY <1>3
  <2> QED
    BY <1>1, <2>1 DEF Layer, Slots
<1>6. NoSlice \notin Slices
  BY <1>1, <1>3
<1>7. 0 \in 0..(Gens - 1) /\ 0 \in 0..Mixed /\ Mixed \in 0..Mixed
      /\ 0..(Extent - Cov) \subseteq 0..Mixed
  BY <1>1 DEF Mixed
<1>8. 0..(Gens - 1) \subseteq Nat /\ 0..Mixed \subseteq Nat
  OBVIOUS
<1>9. NoSlice \notin Jobs
  <2>1. Jobs \subseteq [ls : Nat, gen : Nat]
    BY <1>3, <1>8 DEF Jobs
  <2> QED
    BY <2>1 DEF ClipAssumption
<1>10. NoSlice \notin Images
  <2>1. Images \subseteq [ls : Nat, org : Nat]
    BY <1>3, <1>8 DEF Images
  <2> QED
    BY <2>1 DEF ClipAssumption
<1> QED
  BY <1>1, <1>2, <1>3, <1>4, <1>5, <1>6, <1>7, <1>9, <1>10

\* The origin stays inside the volume.
LEMMA Centred ==
  ASSUME ClipAssumption, NEW f \in Focus
  PROVE  Recentred(f) \in 0..(Extent - Cov)
<1>1. Extent \in Nat /\ Cov \in Nat /\ Cov < Extent /\ f \in 0..Extent
  BY DEF ClipAssumption
<1>2. Cov \div 2 \in 0..Cov
  BY <1>1
<1> QED
  BY <1>1, <1>2 DEF Recentred

LEMMA ClipInitInv ==
  ASSUME ClipAssumption
  PROVE  ClipInit => ClipInv
<1> SUFFICES ASSUME ClipInit
             PROVE  ClipInv
  OBVIOUS
<1> USE RingFacts
<1>1. Empty \in SlotType
  BY DEF Empty, SlotType
<1>2. \A j \in Slots : clSlot[j] = Empty
  BY DEF ClipInit
<1>3. ClipTypes
  <2>1. clQueue \in Seq(Jobs) /\ Len(clQueue) = 0 /\ 0 <= QCap
    BY DEF ClipInit, ClipAssumption
  <2>2. ox \in 0..(Extent - Cov)
    BY Centred DEF ClipInit
  <2> QED
    BY <1>1, <2>1, <2>2 DEF ClipInit, ClipTypes
<1>4. Owners /\ Past /\ JobTrue /\ Fresh /\ Told
  BY <1>2 DEF ClipInit, Owners, Past, JobTrue, Fresh, Told, Empty
<1>5. \A j \in Slots : StagedTrue(j) /\ ResidentTrue(j)
  BY <1>2 DEF StagedTrue, ResidentTrue, Empty
<1> QED
  BY <1>3, <1>4, <1>5 DEF ClipInv

\* The worker takes a job: the region is its own until it is done.
LEMMA ClaimSliceKeeps ==
  ASSUME ClipAssumption, ClipInv, ClaimSlice
  PROVE  ClipInv'
<1> USE RingFacts
<1> DEFINE j == Head(clQueue)
<1>1. /\ clJob = NoSlice /\ clQueue # <<>> /\ clQueue' = Tail(clQueue)
      /\ UNCHANGED <<fx, z0, ox, ls0, clGen, tex, flying, clAt, clK>>
  BY DEF ClaimSlice, clCamera, clMain
<1>2. /\ j \in Jobs /\ clQueue' \in Seq(Jobs) /\ Len(clQueue') <= QCap
      /\ j.gen <= clGen /\ \A i \in DOMAIN clQueue' : clQueue'[i].gen <= clGen
  <2>1. clQueue \in Seq(Jobs) /\ Len(clQueue) <= QCap /\ QCap \in Nat
    BY DEF ClipInv, ClipTypes, ClipAssumption
  <2>2. /\ j \in Jobs /\ Tail(clQueue) \in Seq(Jobs) /\ Len(Tail(clQueue)) = Len(clQueue) - 1
        /\ \A i \in 1..Len(Tail(clQueue)) : Tail(clQueue)[i] = clQueue[i + 1]
    BY <1>1, <2>1, HeadTailProperties
  <2>3. DOMAIN clQueue = 1..Len(clQueue) /\ Len(clQueue) \in Nat \ {0} /\ j = clQueue[1]
    BY <1>1, <2>1
  <2>4. Len(clQueue') <= QCap /\ DOMAIN clQueue' = 1..(Len(clQueue) - 1)
    BY <1>1, <2>1, <2>2, <2>3
  <2>5. ASSUME NEW i \in DOMAIN clQueue'
        PROVE  clQueue'[i].gen <= clGen
    <3>1. i + 1 \in DOMAIN clQueue /\ clQueue'[i] = clQueue[i + 1]
      BY <1>1, <2>2, <2>3, <2>4
    <3> QED
      BY <3>1 DEF ClipInv, Past
  <2>6. j.gen <= clGen
    BY <2>3 DEF ClipInv, Past
  <2> QED
    BY <1>1, <2>2, <2>4, <2>5, <2>6
<1>3. CASE ~Wanted(j)
  <2>1. UNCHANGED <<clJob, wox, clSlot, clStage>>
    BY <1>3 DEF ClaimSlice
  <2>2. ClipTypes'
    BY <1>1, <1>2, <2>1 DEF ClipInv, ClipTypes
  <2>3. Past'
    BY <1>1, <1>2, <2>1 DEF ClipInv, Past
  <2> QED
    BY <1>1, <2>1, <2>2, <2>3
    DEF ClipInv, Owners, JobTrue, Fresh, Told, StagedTrue, ResidentTrue
<1>4. CASE Wanted(j)
  <2> PICK k : k = Layer(j.ls)
    OBVIOUS
  <2>1. /\ clJob' = j /\ wox' = ox
        /\ clSlot' = [clSlot EXCEPT ![k].state = "producing"]
        /\ clStage' = [clStage EXCEPT ![k] = NoSlice]
    BY <1>4 DEF ClaimSlice
  <2>2. j.ls \in Slices /\ k \in Slots /\ clSlot[k].state = "queued" /\ j # NoSlice
    BY <1>2, <1>4 DEF Jobs, Wanted
  <2> HIDE DEF j
  <2>3. /\ \A i \in Slots : i # k => clSlot'[i] = clSlot[i] /\ clStage'[i] = clStage[i]
        /\ clSlot'[k] = [clSlot[k] EXCEPT !.state = "producing"]
        /\ clSlot[k] \in SlotType
    BY <2>1, <2>2 DEF ClipInv, ClipTypes
  <2>4. /\ clSlot'[k].state = "producing" /\ clSlot'[k].gpu = clSlot[k].gpu
        /\ clSlot'[k].gpuGen = clSlot[k].gpuGen /\ clSlot'[k].doneGen = clSlot[k].doneGen
        /\ clSlot'[k] \in SlotType
    BY <2>3 DEF SlotType
  <2>5. ClipTypes'
    <3>1. clSlot' \in [Slots -> SlotType]
      BY <2>1, <2>3, <2>4 DEF ClipInv, ClipTypes
    <3>2. clStage' \in [Slots -> Images \cup {NoSlice}] /\ wox' \in 0..Mixed
      BY <2>1 DEF ClipInv, ClipTypes
    <3> QED
      BY <1>1, <1>2, <2>1, <3>1, <3>2 DEF ClipInv, ClipTypes
  <2>6. Owners'
    <3>1. \A i \in Slots : clSlot[i].state # "producing"
      BY <1>1 DEF ClipInv, Owners
    <3>2. Layer(clJob'.ls) = k
      BY <2>1
    <3>3. ~(clAt = "copy" /\ k = clK)
      BY <2>2 DEF ClipInv, Owners
    <3> QED
      BY <1>1, <2>1, <2>2, <2>3, <2>4, <3>1, <3>2, <3>3 DEF ClipInv, Owners
  <2>7. Past' /\ JobTrue' /\ Fresh' /\ Told'
    BY <1>1, <1>2, <2>1, <2>3, <2>4 DEF ClipInv, Past, JobTrue, Fresh, Told
  <2>8. ASSUME NEW i \in Slots
        PROVE  StagedTrue(i)' /\ ResidentTrue(i)'
    <3>1. StagedTrue(i) /\ ResidentTrue(i)
      BY DEF ClipInv
    <3>2. CASE i = k
      BY <1>1, <2>4, <3>1, <3>2 DEF StagedTrue, ResidentTrue
    <3>3. CASE i # k
      <4>1. clSlot'[i] = clSlot[i] /\ clStage'[i] = clStage[i]
        BY <2>3, <3>3
      <4> QED
        BY <1>1, <3>1, <4>1 DEF StagedTrue, ResidentTrue
    <3> QED
      BY <3>2, <3>3
  <2> QED
    BY <2>5, <2>6, <2>7, <2>8 DEF ClipInv
<1> QED
  BY <1>3, <1>4

\* The worker is done: what it hands over was decoded for the present origin.
LEMMA FinishSliceKeeps ==
  ASSUME ClipAssumption, ClipInv, FinishSlice
  PROVE  ClipInv'
<1> USE RingFacts
<1> PICK k : k = Layer(clJob.ls)
  OBVIOUS
<1>1. /\ clJob # NoSlice /\ clJob' = NoSlice
      /\ clSlot' = [clSlot EXCEPT ![k] = Produced(@, clJob)]
      /\ clStage' = [clStage EXCEPT ![k] =
                     IF clJob.ls \in Corrupt THEN NoSlice ELSE [ls |-> clJob.ls, org |-> wox]]
      /\ UNCHANGED <<fx, z0, ox, ls0, clGen, clQueue, wox, tex, flying, clAt, clK>>
  BY DEF FinishSlice, clCamera, clMain
<1>2. /\ clJob \in Jobs /\ clJob.ls \in Slices /\ clJob.gen \in 0..(Gens - 1)
      /\ k \in Slots /\ clSlot[k].state = "producing" /\ clSlot[k] \in SlotType
      /\ wox \in 0..Mixed
  BY <1>1 DEF ClipInv, ClipTypes, Owners, Jobs
<1>3. /\ \A i \in Slots : i # k => clSlot'[i] = clSlot[i] /\ clStage'[i] = clStage[i]
      /\ clSlot'[k] = Produced(clSlot[k], clJob)
      /\ clStage'[k] = IF clJob.ls \in Corrupt THEN NoSlice ELSE [ls |-> clJob.ls, org |-> wox]
  BY <1>1, <1>2 DEF ClipInv, ClipTypes
<1>4. /\ clSlot'[k] \in SlotType /\ clSlot'[k].state \in {"free", "ready"}
      /\ clSlot'[k].gpu = clSlot[k].gpu /\ clSlot'[k].gpuGen = clSlot[k].gpuGen
      /\ clSlot'[k].doneGen = clSlot[k].doneGen \/ clSlot'[k].doneGen = clJob.gen
      /\ clSlot'[k].state = "ready" => /\ clJob.gen = clGen /\ clJob.ls \notin Corrupt
                                       /\ clSlot'[k].done = clJob.ls
                                       /\ clSlot'[k].doneGen = clGen
  <2>1. CASE clGen # clJob.gen
    <3>1. clSlot'[k] = [clSlot[k] EXCEPT !.state = "free", !.req = NoSlice, !.done = NoSlice]
      BY <1>3, <2>1 DEF Produced
    <3> QED
      BY <1>2, <3>1 DEF SlotType
  <2>2. CASE clGen = clJob.gen /\ clJob.ls \in Corrupt
    <3>1. clSlot'[k] = [clSlot[k] EXCEPT !.state = "free", !.done = NoSlice]
      BY <1>3, <2>2 DEF Produced
    <3> QED
      BY <1>2, <3>1 DEF SlotType
  <2>3. CASE clGen = clJob.gen /\ clJob.ls \notin Corrupt
    <3>1. clSlot'[k] = [clSlot[k] EXCEPT !.state = "ready", !.done = clJob.ls,
                                          !.doneGen = clJob.gen]
      BY <1>3, <2>3 DEF Produced
    <3> QED
      BY <1>2, <2>3, <3>1 DEF SlotType
  <2> QED
    BY <2>1, <2>2, <2>3
<1>5. clStage'[k] \in Images \cup {NoSlice}
  BY <1>2, <1>3 DEF Images
<1>6. ClipTypes'
  <2>1. clSlot' \in [Slots -> SlotType]
    BY <1>1, <1>3, <1>4 DEF ClipInv, ClipTypes
  <2>2. clStage' \in [Slots -> Images \cup {NoSlice}]
    BY <1>1, <1>3, <1>5 DEF ClipInv, ClipTypes
  <2> QED
    BY <1>1, <2>1, <2>2 DEF ClipInv, ClipTypes
<1>7. Owners'
  <2>1. \A i \in Slots : i # k => clSlot[i].state # "producing"
    BY DEF ClipInv, Owners
  <2>2. ~(clAt = "copy" /\ k = clK)
    BY <1>2 DEF ClipInv, Owners
  <2> QED
    BY <1>1, <1>2, <1>3, <1>4, <2>1, <2>2 DEF ClipInv, Owners
<1>8. Past'
  BY <1>1, <1>2, <1>3, <1>4 DEF ClipInv, Past
<1>9. JobTrue' /\ Fresh' /\ Told'
  <2>1. ~(clAt = "copy" /\ k = clK)
    BY <1>2 DEF ClipInv, Owners
  <2>2. Fresh'
    BY <1>1, <1>3, <2>1 DEF ClipInv, ClipTypes, Fresh
  <2> QED
    BY <1>1, <2>2 DEF ClipInv, JobTrue, Told
<1>10. \A i \in Slots : StagedTrue(i)' /\ ResidentTrue(i)'
  <2>1. StagedTrue(k)'
    <3> SUFFICES ASSUME clAt # "invalidate", clSlot'[k].state = "ready"
                 PROVE  /\ clSlot'[k].done \in Slices
                        /\ clStage'[k] = [ls |-> clSlot'[k].done, org |-> ox]
      BY <1>1, <1>4 DEF StagedTrue
    <3>1. wox = ox
      BY <1>1, <1>4 DEF ClipInv, JobTrue
    <3> QED
      BY <1>2, <1>3, <1>4, <3>1
  <2>2. ResidentTrue(k)'
    BY <1>1, <1>2, <1>4 DEF ClipInv, ResidentTrue
  <2> QED
    BY <1>1, <1>3, <2>1, <2>2 DEF ClipInv, StagedTrue, ResidentTrue
<1> QED
  BY <1>6, <1>7, <1>8, <1>9, <1>10 DEF ClipInv

\* The origin moves, and the worker may see that happen: the generation ends.
LEMMA UpdateKeeps ==
  ASSUME ClipAssumption, ClipInv, Update
  PROVE  ClipInv'
<1> USE RingFacts
<1>1. /\ clAt = "update" /\ clAt' \in {"invalidate", "request"} /\ clK' = 0 /\ ls0' = z0
      /\ UNCHANGED <<fx, z0, clGen, clSlot, clQueue, clJob, clStage, tex, flying>>
  BY DEF Update, clCamera, clRing, clImages
<1>2. clAt' = "request" => ox' = ox
  BY DEF Update
<1>3. ox' \in 0..(Extent - Cov)
  BY Centred DEF Update, ClipInv, ClipTypes
<1>4. wox' \in 0..Mixed /\ (clJob # NoSlice /\ ox' = ox => wox' = wox)
  BY DEF Update, ClipInv, ClipTypes
<1>5. ClipTypes'
  BY <1>1, <1>3, <1>4 DEF ClipInv, ClipTypes
<1>6. Owners' /\ Past' /\ Fresh' /\ Told'
  BY <1>1 DEF ClipInv, Owners, Past, Fresh, Told
<1>7. JobTrue' /\ \A j \in Slots : StagedTrue(j)' /\ ResidentTrue(j)'
  <2>1. CASE clAt' = "invalidate"
    BY <2>1 DEF JobTrue, StagedTrue, ResidentTrue
  <2>2. CASE clAt' = "request"
    BY <1>1, <1>2, <1>4, <2>2 DEF ClipInv, JobTrue, StagedTrue, ResidentTrue
  <2> QED
    BY <1>1, <2>1, <2>2
<1> QED
  BY <1>5, <1>6, <1>7 DEF ClipInv

\* With the new generation nothing is resident, and what is staged or on its
\* way belongs to an older one.
LEMMA InvalidateKeeps ==
  ASSUME ClipAssumption, ClipInv, NoWrap, Invalidate
  PROVE  ClipInv'
<1> USE RingFacts
<1>1. /\ clAt = "invalidate" /\ clAt' = "request"
      /\ clSlot' = [j \in Slots |-> Invalidated(clSlot[j], clGen')]
      /\ UNCHANGED <<fx, z0, ox, ls0, clQueue, clJob, wox, clStage, tex, flying, clK>>
  BY DEF Invalidate, clCamera, clWorker, clImages
<1>2. clGen \in 0..(Gens - 1) /\ clGen + 1 < Gens
  BY <1>1 DEF ClipInv, ClipTypes, NoWrap
<1>3. clGen' = clGen + 1 /\ clGen' \in 0..(Gens - 1)
  BY <1>2 DEF Invalidate
<1>4. ASSUME NEW j \in Slots
      PROVE  /\ clSlot'[j] \in SlotType /\ clSlot'[j].gpu = NoSlice
             /\ clSlot'[j].doneGen = clSlot[j].doneGen
             /\ clSlot'[j].state \notin {"ready", "consuming"}
             /\ clSlot'[j].state = "producing" <=> clSlot[j].state = "producing"
  <2>1. clSlot[j] \in SlotType /\ clSlot[j].state # "consuming"
    BY <1>1 DEF ClipInv, ClipTypes, Owners
  <2>2. clSlot'[j] = Invalidated(clSlot[j], clGen')
    BY <1>1
  <2>3. CASE clSlot[j].state \in {"queued", "ready"}
    BY <1>3, <2>1, <2>2, <2>3, ZenonT(60) DEF Invalidated, SlotType
  <2>4. CASE clSlot[j].state \notin {"queued", "ready"}
    BY <1>3, <2>1, <2>2, <2>4, ZenonT(60) DEF Invalidated, SlotType
  <2> QED
    BY <2>3, <2>4
<1>5. clSlot' \in [Slots -> SlotType]
  BY <1>1, <1>4
<1>6. ClipTypes'
  BY <1>1, <1>3, <1>5 DEF ClipInv, ClipTypes
<1>7. Owners' /\ Fresh' /\ Told'
  BY <1>1, <1>4 DEF ClipInv, Owners, Fresh, Told
<1>8. Past'
  <2>1. ASSUME NEW j \in Slots
        PROVE  clSlot[j].doneGen \in 0..(Gens - 1)
    <3>1. clSlot[j] \in SlotType
      BY DEF ClipInv, ClipTypes
    <3> QED
      BY <3>1 DEF SlotType
  <2>2. ASSUME NEW i \in DOMAIN clQueue
        PROVE  clQueue[i].gen \in 0..(Gens - 1)
    <3>1. clQueue \in Seq(Jobs)
      BY DEF ClipInv, ClipTypes
    <3>2. clQueue[i] \in Jobs
      BY <3>1, ElementOfSeq
    <3> QED
      BY <3>2 DEF Jobs
  <2>3. clJob # NoSlice => clJob.gen \in 0..(Gens - 1)
    BY DEF ClipInv, ClipTypes, Jobs
  <2>4. \A j \in Slots : clSlot'[j].doneGen <= clGen'
    BY <1>2, <1>3, <1>4, <2>1 DEF ClipInv, Past
  <2>5. \A i \in DOMAIN clQueue : clQueue[i].gen <= clGen'
    BY <1>2, <1>3, <2>2 DEF ClipInv, Past
  <2>6. clJob # NoSlice => clJob.gen <= clGen'
    BY <1>2, <1>3, <2>3 DEF ClipInv, Past
  <2> QED
    BY <1>1, <2>4, <2>5, <2>6 DEF Past
<1>9. JobTrue'
  <2>1. clJob # NoSlice => clJob.gen \in 0..(Gens - 1) /\ clJob.gen <= clGen
    BY DEF ClipInv, ClipTypes, Jobs, Past
  <2>2. clJob # NoSlice => clJob.gen # clGen'
    BY <1>2, <1>3, <2>1
  <2> QED
    BY <1>1, <2>2 DEF JobTrue
<1>10. \A j \in Slots : StagedTrue(j)' /\ ResidentTrue(j)'
  BY <1>4 DEF StagedTrue, ResidentTrue
<1> QED
  BY <1>6, <1>7, <1>8, <1>9, <1>10 DEF ClipInv

\* The queue holds jobs of this generation and of older ones.
JobsPast(queue) ==
  /\ queue \in Seq(Jobs) /\ Len(queue) <= QCap
  /\ \A i \in DOMAIN queue : queue[i].gen <= clGen

\* The main thread goes on and leaves the slots alone ...
LEMMA SlotsKept ==
  ASSUME ClipAssumption, ClipInv,
         clAt \in {"request", "pump", "submit"}, clAt' \in {"update", "request", "pump", "submit"},
         clK' \in Slots, JobsPast(clQueue'),
         flying' \subseteq flying \/ Told',
         UNCHANGED <<fx, z0, ox, ls0, clGen, clSlot, clJob, wox, clStage, tex>>
  PROVE  ClipInv'
<1>1. ClipTypes'
  BY DEF ClipInv, ClipTypes, JobsPast
<1>2. Owners' /\ Past' /\ JobTrue' /\ Fresh'
  BY DEF ClipInv, Owners, Past, JobsPast, JobTrue, Fresh
<1>3. Told'
  BY DEF ClipInv, Told
<1>4. \A i \in Slots : StagedTrue(i)' /\ ResidentTrue(i)'
  BY DEF ClipInv, StagedTrue, ResidentTrue
<1> QED
  BY <1>1, <1>2, <1>3, <1>4 DEF ClipInv

\* ... or gives one that nobody owns a new purpose.
LEMMA SlotGivenUp ==
  ASSUME ClipAssumption, ClipInv, NEW j \in Slots, NEW new \in SlotType,
         ~Owned(clSlot[j]), new.state \in {"free", "queued"}, new.doneGen = clSlot[j].doneGen,
         new.gpu = clSlot[j].gpu, new.gpuGen = clSlot[j].gpuGen,
         clSlot' = [clSlot EXCEPT ![j] = new],
         clAt \in {"request", "pump"}, clAt' \in {"request", "pump", "submit"},
         clK' \in Slots, JobsPast(clQueue'),
         UNCHANGED <<fx, z0, ox, ls0, clGen, clJob, wox, clStage, tex, flying>>
  PROVE  ClipInv'
<1>1. /\ clSlot' \in [Slots -> SlotType] /\ clSlot'[j] = new
      /\ \A i \in Slots : i # j => clSlot'[i] = clSlot[i]
  BY DEF ClipInv, ClipTypes
<1>2. ClipTypes'
  BY <1>1 DEF ClipInv, ClipTypes, JobsPast
<1>3. Owners'
  <2>1. clSlot[j].state \notin {"producing", "consuming"}
    BY DEF Owned
  <2> QED
    BY <1>1, <2>1 DEF ClipInv, Owners
<1>4. Past' /\ JobTrue' /\ Fresh' /\ Told'
  BY <1>1 DEF ClipInv, Past, JobsPast, JobTrue, Fresh, Told
<1>5. ASSUME NEW i \in Slots
      PROVE  StagedTrue(i)' /\ ResidentTrue(i)'
  <2>1. StagedTrue(i) /\ ResidentTrue(i)
    BY DEF ClipInv
  <2>2. CASE i = j
    BY <1>1, <2>1, <2>2 DEF StagedTrue, ResidentTrue
  <2>3. CASE i # j
    <3>1. clSlot'[i] = clSlot[i]
      BY <1>1, <2>3
    <3> QED
      BY <2>1, <3>1 DEF StagedTrue, ResidentTrue
  <2> QED
    BY <2>2, <2>3
<1> QED
  BY <1>2, <1>3, <1>4, <1>5 DEF ClipInv

\* The main thread asks for the next slice of its window.
LEMMA RequestKeeps ==
  ASSUME ClipAssumption, ClipInv, Request
  PROVE  ClipInv'
<1> USE RingFacts
<1> PICK ls, j : ls = z0 + clK /\ j = Layer(ls)
  OBVIOUS
<1> DEFINE s == clSlot[j]
           freed == [s EXCEPT !.req = NoSlice, !.done = NoSlice, !.state = "free"]
           asked == [freed EXCEPT !.req = ls, !.reqGen = clGen, !.state = "queued"]
<1>1. /\ clAt = "request" /\ clAt' \in {"request", "pump"} /\ clK' \in Slots
      /\ UNCHANGED <<fx, z0, ox, ls0, clGen, clJob, wox, clStage, tex, flying>>
  <2>1. wzl \in Nat /\ clK \in 0..(wzl - 1)
    BY DEF ClipAssumption, ClipInv, ClipTypes, Slots
  <2>2. clK' \in Slots
    BY <2>1 DEF Request, Slots
  <2> QED
    BY <2>2 DEF Request, clCamera, clImages
<1>2. ls \in Slices /\ j \in Slots /\ s \in SlotType /\ clGen \in 0..(Gens - 1)
  BY DEF ClipInv, ClipTypes
<1>3. \/ UNCHANGED <<clSlot, clQueue>>
      \/ /\ ~Owned(s) /\ clSlot' = [clSlot EXCEPT ![j] = freed] /\ UNCHANGED clQueue
      \/ /\ ~Owned(s) /\ Len(clQueue) # QCap /\ clSlot' = [clSlot EXCEPT ![j] = asked]
         /\ clQueue' = Append(clQueue, [ls |-> ls, gen |-> clGen])
  BY DEF Request
<1>4. ASSUME NEW new \in {freed, asked}
      PROVE  /\ new \in SlotType /\ new.state \in {"free", "queued"}
             /\ new.doneGen = s.doneGen /\ new.gpu = s.gpu /\ new.gpuGen = s.gpuGen
  <2>1. CASE new = freed
    BY <1>2, <2>1 DEF SlotType
  <2>2. CASE new = asked
    <3>1. new = [s EXCEPT !.req = ls, !.reqGen = clGen, !.done = NoSlice, !.state = "queued"]
      BY <1>2, <2>2 DEF SlotType
    <3> HIDE DEF asked, freed
    <3> QED
      BY <1>2, <3>1 DEF SlotType
  <2> QED
    BY <2>1, <2>2
<1>5. JobsPast(clQueue')
  <2>1. JobsPast(clQueue)
    BY DEF ClipInv, ClipTypes, Past, JobsPast
  <2>2. CASE Len(clQueue) # QCap /\ clQueue' = Append(clQueue, [ls |-> ls, gen |-> clGen])
    <3> DEFINE job == [ls |-> ls, gen |-> clGen]
    <3>1. job \in Jobs /\ job.gen = clGen
      BY <1>2 DEF Jobs
    <3> HIDE DEF job
    <3>2. /\ clQueue' = Append(clQueue, job) /\ clQueue \in Seq(Jobs)
          /\ Len(clQueue) <= QCap /\ Len(clQueue) # QCap /\ QCap \in Nat
      BY <2>1, <2>2 DEF JobsPast, ClipAssumption, job
    <3>3. clQueue' \in Seq(Jobs) /\ Len(clQueue') <= QCap
      BY <3>1, <3>2
    <3>4. ASSUME NEW i \in DOMAIN clQueue'
          PROVE  clQueue'[i].gen <= clGen
      <4>1. (i \in DOMAIN clQueue /\ clQueue'[i] = clQueue[i]) \/ clQueue'[i] = job
        BY <3>1, <3>2
      <4>2. CASE i \in DOMAIN clQueue /\ clQueue'[i] = clQueue[i]
        BY <2>1, <4>2 DEF JobsPast
      <4>3. CASE clQueue'[i] = job
        BY <1>2, <3>1, <4>3
      <4> QED
        BY <4>1, <4>2, <4>3
    <3> QED
      BY <1>1, <3>3, <3>4 DEF JobsPast
  <2>3. CASE UNCHANGED clQueue
    BY <1>1, <2>1, <2>3 DEF JobsPast
  <2> QED
    BY <1>3, <2>2, <2>3
<1> HIDE DEF asked, freed
<1>6. CASE UNCHANGED clSlot
  BY <1>1, <1>5, <1>6, SlotsKept
<1>7. CASE ~Owned(s) /\ clSlot' = [clSlot EXCEPT ![j] = freed]
  BY <1>1, <1>2, <1>4, <1>5, <1>7, SlotGivenUp
<1>8. CASE ~Owned(s) /\ clSlot' = [clSlot EXCEPT ![j] = asked]
  BY <1>1, <1>2, <1>4, <1>5, <1>8, SlotGivenUp
<1> QED
  BY <1>3, <1>6, <1>7, <1>8

\* The pump drops what is stale and takes what is ready.
LEMMA PumpKeeps ==
  ASSUME ClipAssumption, ClipInv, Pump
  PROVE  ClipInv'
<1> USE RingFacts
<1> PICK k : k = clK
  OBVIOUS
<1> DEFINE s == clSlot[k]
           dropped == [s EXCEPT !.done = NoSlice, !.req = NoSlice, !.state = "free"]
<1>1. /\ clAt = "pump"
      /\ UNCHANGED <<fx, z0, ox, ls0, clGen, clQueue, clJob, wox, clStage, tex, flying>>
  BY DEF Pump, clCamera, clWorker, clImages
<1>2. k \in Slots /\ s \in SlotType
  BY DEF ClipInv, ClipTypes
<1>3. JobsPast(clQueue')
  BY <1>1 DEF ClipInv, ClipTypes, Past, JobsPast
<1>4. CASE s.state = "ready" /\ s.doneGen = clGen
  <2>1. clSlot' = [clSlot EXCEPT ![k].state = "consuming"] /\ clAt' = "copy" /\ clK' = k
    BY <1>4 DEF Pump
  <2>2. /\ \A i \in Slots : i # k => clSlot'[i] = clSlot[i]
        /\ clSlot'[k] = [s EXCEPT !.state = "consuming"]
    BY <1>2, <2>1 DEF ClipInv, ClipTypes
  <2> HIDE DEF s
  <2>3. /\ clSlot'[k] \in SlotType /\ clSlot'[k].state = "consuming"
        /\ clSlot'[k].done = s.done /\ clSlot'[k].doneGen = s.doneGen
        /\ clSlot'[k].gpu = s.gpu /\ clSlot'[k].gpuGen = s.gpuGen
    BY <1>2, <2>2 DEF SlotType
  <2>4. s = clSlot[k]
    BY DEF s
  <2>5. ClipTypes'
    <3>1. clSlot' \in [Slots -> SlotType]
      BY <2>1, <2>2, <2>3 DEF ClipInv, ClipTypes
    <3> QED
      BY <1>1, <1>2, <2>1, <3>1 DEF ClipInv, ClipTypes
  <2>6. Owners'
    BY <1>1, <1>2, <1>4, <2>1, <2>2, <2>3, <2>4 DEF ClipInv, Owners
  <2>7. Past' /\ JobTrue' /\ Fresh' /\ Told'
    <3>1. Past'
      BY <1>1, <2>2, <2>3, <2>4 DEF ClipInv, Past
    <3>2. Fresh'
      BY <1>1, <1>4, <2>1, <2>3 DEF Fresh
    <3> QED
      BY <1>1, <2>1, <3>1, <3>2 DEF ClipInv, JobTrue, Told
  <2>8. ASSUME NEW i \in Slots
        PROVE  StagedTrue(i)' /\ ResidentTrue(i)'
    <3>1. StagedTrue(i) /\ ResidentTrue(i)
      BY DEF ClipInv
    <3>2. CASE i = k
      BY <1>1, <1>4, <2>3, <2>4, <3>1, <3>2 DEF StagedTrue, ResidentTrue
    <3>3. CASE i # k
      <4>1. clSlot'[i] = clSlot[i]
        BY <2>2, <3>3
      <4> QED
        BY <1>1, <2>1, <3>1, <4>1 DEF StagedTrue, ResidentTrue
    <3> QED
      BY <3>2, <3>3
  <2> QED
    BY <2>5, <2>6, <2>7, <2>8 DEF ClipInv
<1>5. CASE ~(s.state = "ready" /\ s.doneGen = clGen)
  <2>1. clAt' \in {"pump", "submit"} /\ clK' \in Slots
    <3>1. wzl \in Nat /\ clK \in 0..(wzl - 1)
      BY DEF ClipAssumption, ClipInv, ClipTypes, Slots
    <3>2. NextSlot(clLeft)
      BY <1>5 DEF Pump
    <3> QED
      BY <3>1, <3>2 DEF NextSlot, Slots
  <2>2. CASE s.state = "ready"
    <3>1. clSlot' = [clSlot EXCEPT ![k] = dropped]
      BY <1>5, <2>2 DEF Pump
    <3>2. /\ dropped \in SlotType /\ dropped.state \in {"free", "queued"}
          /\ dropped.doneGen = s.doneGen /\ dropped.gpu = s.gpu /\ dropped.gpuGen = s.gpuGen
      BY <1>2 DEF SlotType
    <3>3. ~Owned(s)
      BY <2>2 DEF Owned
    <3> HIDE DEF dropped
    <3> QED
      BY <1>1, <1>2, <1>3, <2>1, <3>1, <3>2, <3>3, SlotGivenUp
  <2>3. CASE s.state # "ready"
    <3>1. UNCHANGED clSlot
      BY <1>5, <2>3 DEF Pump
    <3> QED
      BY <1>1, <1>3, <2>1, <3>1, SlotsKept
  <2> QED
    BY <2>2, <2>3
<1> QED
  BY <1>4, <1>5

\* No frame reads the layer while it is replaced.
LEMMA CopyKeeps ==
  ASSUME ClipAssumption, ClipInv, Copy \/ CopyFails
  PROVE  ClipInv'
<1> USE RingFacts
<1> PICK k : k = clK
  OBVIOUS
<1>1. /\ clAt = "copy" /\ clAt' \in {"pump", "submit", "failed"} /\ clK' \in Slots
      /\ flying = {} /\ flying' = {}
      /\ UNCHANGED <<fx, z0, ox, ls0, clGen, clQueue, clJob, wox, clStage>>
  <2>1. wzl \in Nat /\ clK \in 0..(wzl - 1)
    BY DEF ClipAssumption, ClipInv, ClipTypes, Slots
  <2>2. clAt' \in {"pump", "submit", "failed"} /\ clK' \in Slots
    BY <2>1 DEF Copy, CopyFails, NextSlot, Slots
  <2> QED
    BY <2>2 DEF Copy, CopyFails, Quiet, clCamera, clWorker
<1>2. /\ k \in Slots /\ clSlot[k] \in SlotType /\ clSlot[k].state = "consuming"
      /\ clSlot[k].doneGen = clGen /\ StagedTrue(k) /\ clGen \in 0..(Gens - 1)
  BY <1>1 DEF ClipInv, ClipTypes, Owners, Fresh
<1>3. /\ clSlot[k].done \in Slices
      /\ clStage[k] = [ls |-> clSlot[k].done, org |-> ox]
  BY <1>1, <1>2 DEF StagedTrue
<1>4. clStage[k] \in Images \cup {NoSlice}
  BY <1>2 DEF ClipInv, ClipTypes
<1>5. PICK new, copied :
           /\ clSlot' = [clSlot EXCEPT ![k] = new] /\ tex' = [tex EXCEPT ![k] = copied]
           /\ new \in SlotType /\ copied \in Images \cup {NoSlice}
           /\ new.state \in {"free", "ready"} /\ new.doneGen = clGen
           /\ clAt' # "failed" => /\ new.state = "free" /\ copied = clStage[k]
                                  /\ new.gpu = clSlot[k].done
           /\ new.state = "ready" => new.done = clSlot[k].done
  <2>1. CASE Copy
    <3> DEFINE freed == [Empty EXCEPT !.reqGen = clSlot[k].reqGen, !.doneGen = clSlot[k].doneGen,
                                      !.gpu = clSlot[k].done, !.gpuGen = clGen]
    <3>1. clSlot' = [clSlot EXCEPT ![k] = freed] /\ tex' = [tex EXCEPT ![k] = clStage[k]]
      BY <2>1 DEF Copy
    <3>2. /\ freed \in SlotType /\ freed.state = "free" /\ freed.doneGen = clGen
          /\ freed.gpu = clSlot[k].done
      BY <1>2, <1>3 DEF SlotType, Empty
    <3> HIDE DEF freed
    <3> QED
      BY <1>4, <3>1, <3>2
  <2>2. CASE CopyFails
    <3> DEFINE kept == [clSlot[k] EXCEPT !.state = "ready"]
    <3>1. /\ clSlot' = [clSlot EXCEPT ![k] = kept] /\ tex' = [tex EXCEPT ![k] = NoSlice]
          /\ clAt' = "failed"
      BY <2>2 DEF CopyFails
    <3>2. /\ kept \in SlotType /\ kept.state = "ready" /\ kept.doneGen = clGen
          /\ kept.done = clSlot[k].done
      BY <1>2 DEF SlotType
    <3> HIDE DEF kept
    <3> QED
      BY <3>1, <3>2
  <2> QED
    BY <2>1, <2>2
<1>6. /\ clSlot'[k] = new /\ tex'[k] = copied /\ clSlot' \in [Slots -> SlotType]
      /\ \A i \in Slots : i # k => clSlot'[i] = clSlot[i] /\ tex'[i] = tex[i]
      /\ tex' \in [Slots -> Images \cup {NoSlice}]
  BY <1>2, <1>5 DEF ClipInv, ClipTypes
<1>7. ClipTypes'
  BY <1>1, <1>6 DEF ClipInv, ClipTypes
<1>8. Owners'
  <2>1. \A i \in Slots : i # k => clSlot[i].state # "consuming"
    BY DEF ClipInv, Owners
  <2> QED
    BY <1>1, <1>2, <1>5, <1>6, <2>1 DEF ClipInv, Owners
<1>9. Past' /\ JobTrue' /\ Fresh' /\ Told'
  <2>1. Past'
    BY <1>1, <1>2, <1>5, <1>6 DEF ClipInv, Past
  <2> QED
    BY <1>1, <2>1 DEF ClipInv, JobTrue, Fresh, Told
<1>10. ASSUME NEW i \in Slots
       PROVE  StagedTrue(i)' /\ ResidentTrue(i)'
  <2>1. StagedTrue(i) /\ ResidentTrue(i)
    BY DEF ClipInv
  <2>2. CASE i = k
    <3>1. StagedTrue(k)'
      BY <1>1, <1>3, <1>5, <1>6 DEF StagedTrue
    <3>2. ResidentTrue(k)'
      BY <1>1, <1>3, <1>5, <1>6 DEF ResidentTrue
    <3> QED
      BY <2>2, <3>1, <3>2
  <2>3. CASE i # k
    <3>1. clSlot'[i] = clSlot[i] /\ tex'[i] = tex[i]
      BY <1>6, <2>3
    <3> QED
      BY <1>1, <2>1, <3>1 DEF StagedTrue, ResidentTrue
  <2> QED
    BY <2>2, <2>3
<1> QED
  BY <1>7, <1>8, <1>9, <1>10 DEF ClipInv

\* A frame is told of a window whose slices are all resident.
LEMMA SubmitKeeps ==
  ASSUME ClipAssumption, ClipInv, SubmitClip
  PROVE  ClipInv'
<1> USE RingFacts
<1>1. /\ clAt = "submit" /\ clAt' = "update"
      /\ flying' = IF Valid THEN flying \cup {[start |-> z0, org |-> ox]} ELSE flying
      /\ UNCHANGED <<fx, z0, ox, ls0, clGen, clSlot, clQueue, clJob, wox, clStage, tex, clK>>
  BY DEF SubmitClip, clCamera, clRing, clWorker
<1>2. Told'
  <2> SUFFICES ASSUME NEW f \in flying', NEW i \in Slots
               PROVE  tex[Layer(f.start + i)] = [ls |-> f.start + i, org |-> f.org]
    BY <1>1 DEF Told
  <2>1. CASE f \in flying
    BY <2>1 DEF ClipInv, Told
  <2>2. CASE f \notin flying
    <3>1. Valid /\ f = [start |-> z0, org |-> ox]
      BY <1>1, <2>2
    <3>2. f.start = z0 /\ f.org = ox
      BY <3>1
    <3> PICK ls, j : ls = z0 + i /\ j = Layer(ls)
      OBVIOUS
    <3>3. ls \in Slices /\ j \in Slots
      BY DEF ClipInv, ClipTypes
    <3>4. clSlot[j].gpu = ls /\ clSlot[j].gpuGen = clGen
      BY <3>1 DEF Valid, Resident
    <3>5. tex[j] = [ls |-> ls, org |-> ox]
      BY <1>1, <3>3, <3>4 DEF ClipInv, ResidentTrue
    <3> QED
      BY <3>2, <3>5
  <2> QED
    BY <2>1, <2>2
<1>3. JobsPast(clQueue') /\ clK' \in Slots
  BY <1>1 DEF ClipInv, ClipTypes, Past, JobsPast
<1> QED
  BY <1>1, <1>2, <1>3, SlotsKept

LEMMA ClipStepInv ==
  ASSUME ClipAssumption, ClipInv, NoWrap, [ClipNext]_clVars
  PROVE  ClipInv'
<1>1. CASE ClipWorker
  BY <1>1, ClaimSliceKeeps, FinishSliceKeeps DEF ClipWorker
<1>2. CASE ClipFrame
  BY <1>2, UpdateKeeps, InvalidateKeeps, RequestKeeps, PumpKeeps, CopyKeeps, SubmitKeeps
  DEF ClipFrame
<1>3. CASE CopyFails
  BY <1>3, CopyKeeps
<1>4. CASE Move
  <2>1. /\ fx' \in Focus /\ z0' \in Starts
        /\ UNCHANGED <<ox, ls0, clGen, clSlot, clQueue, clJob, wox, clStage, tex, flying, clAt,
                       clK>>
    BY <1>4 DEF Move, clRing, clWorker, clImages, clMain
  <2>2. ClipTypes'
    BY <2>1 DEF ClipInv, ClipTypes
  <2> QED
    BY <2>1, <2>2
    DEF ClipInv, Owners, Past, JobTrue, Fresh, Told, StagedTrue, ResidentTrue
<1>5. CASE FramesDone
  <2>1. /\ flying' = {}
        /\ UNCHANGED <<fx, z0, ox, ls0, clGen, clSlot, clQueue, clJob, wox, clStage, tex, clAt,
                       clK>>
    BY <1>5 DEF FramesDone, clCamera, clRing, clWorker, clMain
  <2>2. ClipTypes'
    BY <2>1 DEF ClipInv, ClipTypes
  <2> QED
    BY <2>1, <2>2
    DEF ClipInv, Owners, Past, JobTrue, Fresh, Told, StagedTrue, ResidentTrue
<1>6. CASE UNCHANGED clVars
  <2>1. UNCHANGED <<fx, z0, ox, ls0, clGen, clSlot, clQueue, clJob, wox, clStage, tex, flying,
                    clAt, clK>>
    BY <1>6 DEF clVars, clCamera, clRing, clWorker, clImages, clMain
  <2>2. ClipTypes'
    BY <2>1 DEF ClipInv, ClipTypes
  <2> QED
    BY <2>1, <2>2
    DEF ClipInv, Owners, Past, JobTrue, Fresh, Told, StagedTrue, ResidentTrue
<1> QED
  BY <1>1, <1>2, <1>3, <1>4, <1>5, <1>6 DEF ClipNext

\* As long as the generation counter does not wrap, a frame that was told the
\* level is valid finds the slices of its window, of the origin it was given,
\* in the texture until the GPU is done with it, for every ring, window, queue
\* and camera (r3d_vkclip_update, the worker, the pump, r3d_vkclip_params).
THEOREM FramesSeeTheirWindow ==
  ASSUME ClipAssumption
  PROVE  ClipSpec /\ []NoWrap => []FrameSeesItsWindow
<1>1. ClipInit => ClipInv
  BY ClipInitInv
<1>2. ClipInv /\ NoWrap /\ [ClipNext]_clVars => ClipInv'
  BY ClipStepInv
<1>3. ClipInv => FrameSeesItsWindow
  <2> SUFFICES ASSUME ClipInv
               PROVE  FrameSeesItsWindow
    OBVIOUS
  <2>1. ClipTypeOK
    BY DEF ClipInv, ClipTypes, Owners, ClipTypeOK, SlotType
  <2> QED
    BY <2>1 DEF ClipInv, Told, FrameSeesItsWindow
<1> QED
  BY <1>1, <1>2, <1>3, PTL DEF ClipSpec

-----------------------------------------------------------------------------
(* The segment cache. *)

\* The ready segments are used one after the other; last[s] are those before s.
Ordered(ready, last) ==
  /\ \A s \in Segs : last[s] \subseteq ready \ {s} /\ \A r \in last[s] : last[r] \subseteq last[s]
  /\ \A s, r \in ready : s = r \/ s \in last[r] \/ r \in last[s]

\* Above the budget there is nothing left that could be dropped.
Fits == BytesOf(Ready) <= SegBudget \/ gui = "trace" \/ Cardinality(Ready) <= 1

\* A segment waits once, or is the one being loaded.
QueuedOnce ==
  /\ \A i, j \in DOMAIN sgQueue : sgQueue[i] = sgQueue[j] => i = j
  /\ \A s \in Segs : sgState[s] = "queued" <=> s \in Waiting \/ (wk = "load" /\ s = sgJob)
  /\ wk = "load" => sgJob \in Segs /\ sgJob \notin Waiting

CacheInv ==
  /\ sgState \in [Segs -> {"empty", "queued", "ready", "failed"}]
  /\ older \in [Segs -> SUBSET Segs] /\ sgQueue \in Seq(Segs)
  /\ Ordered(Ready, older) /\ QueuedOnce /\ Fits
  /\ gui = "trace" => seg \in Ready

ActInv ==
  /\ {actReq, actReady, ovReq, ovActive, sgJob, seg, active} \subseteq Segs \cup {NoSeg}
  /\ wk \in {"look", "wait", "activate", "overlap", "load", "gone"}
  /\ gui \in {"idle", "trace", "refresh", "join"}
  /\ sgTodo \subseteq Segs /\ actBusy \in BOOLEAN /\ sgQuit \in BOOLEAN
  /\ wk \in {"activate", "overlap", "load"} => sgJob \in Segs
  /\ actReady # NoSeg => wk # "activate"
  /\ actBusy <=> wk = "activate" \/ actReady # NoSeg

SegInv == CacheInv /\ ActInv

\* To use a segment keeps the order.
LEMMA UsedOrdered ==
  ASSUME NEW s \in Segs, older \in [Segs -> SUBSET Segs], Ordered(Ready, older),
         NEW ready, ready = Ready \cup {s}
  PROVE  Used(s, ready) \in [Segs -> SUBSET Segs] /\ Ordered(ready, Used(s, ready))
<1> DEFINE last == Used(s, ready)
<1>1. ready \subseteq Segs
  BY DEF Ready
<1>2. /\ last \in [Segs -> SUBSET Segs] /\ last[s] = ready \ {s}
      /\ \A x \in Segs : x # s => last[x] = older[x] \ {s}
  BY <1>1 DEF Used
<1> HIDE DEF last
<1>3. ASSUME NEW x \in Segs
      PROVE  last[x] \subseteq ready \ {x} /\ \A r \in last[x] : last[r] \subseteq last[x]
  <2>1. CASE x = s
    BY <1>1, <1>2, <2>1 DEF Ordered
  <2>2. CASE x # s
    <3>1. last[x] = older[x] \ {s} /\ older[x] \subseteq Ready \ {x}
      BY <1>2, <2>2 DEF Ordered
    <3>2. ASSUME NEW r \in last[x]
          PROVE  last[r] \subseteq last[x]
      <4>1. r \in older[x] /\ r # s /\ r \in Segs
        BY <1>2, <3>1
      <4> QED
        BY <1>2, <3>1, <4>1 DEF Ordered
    <3> QED
      BY <3>1, <3>2
  <2> QED
    BY <2>1, <2>2
<1>4. ASSUME NEW x \in ready, NEW r \in ready
      PROVE  x = r \/ x \in last[r] \/ r \in last[x]
  <2>1. CASE x = s \/ r = s
    BY <1>2, <2>1
  <2>2. CASE x # s /\ r # s
    BY <1>1, <1>2, <2>2 DEF Ordered
  <2> QED
    BY <2>1, <2>2
<1> QED
  BY <1>2, <1>3, <1>4 DEF Ordered, last

\* What is left after an eviction is still in order, all that is spared is
\* left, and only that when the budget is exceeded.
LEMMA EvictKeeps ==
  ASSUME sgState \in [Segs -> {"empty", "queued", "ready", "failed"}],
         NEW ready \in SUBSET Segs, NEW last \in [Segs -> SUBSET Segs], NEW spared,
         Ready \subseteq ready, Ordered(ready, last), Evict(ready, last, spared)
  PROVE  /\ sgState' \in [Segs -> {"empty", "queued", "ready", "failed"}]
         /\ older' \in [Segs -> SUBSET Segs]
         /\ Ordered(Ready', older') /\ Ready' \subseteq ready /\ ready \cap spared \subseteq Ready'
         /\ \A s \in Segs \ ready : sgState'[s] = sgState[s]
         /\ \A s \in ready : sgState'[s] \in {"empty", "ready"}
         /\ BytesOf(Ready') <= SegBudget \/ Ready' \subseteq spared
<1>1. PICK d : /\ d \subseteq ready \ spared
               /\ BytesOf(ready \ d) <= SegBudget \/ d = ready \ spared
               /\ sgState' = [s \in Segs |-> IF s \in d THEN "empty"
                                              ELSE IF s \in ready THEN "ready" ELSE sgState[s]]
               /\ older' = [s \in Segs |-> IF s \in d THEN {} ELSE last[s] \ d]
  BY DEF Evict
<1>2. /\ sgState' \in [Segs -> {"empty", "queued", "ready", "failed"}]
      /\ \A s \in Segs \ ready : sgState'[s] = sgState[s]
      /\ \A s \in ready : sgState'[s] \in {"empty", "ready"}
  BY <1>1
<1>3. Ready' = ready \ d
  BY <1>1 DEF Ready
<1>4. older' \in [Segs -> SUBSET Segs]
  BY <1>1
<1>5. Ordered(ready \ d, older')
  <2>1. ASSUME NEW s \in Segs
        PROVE  /\ older'[s] \subseteq (ready \ d) \ {s}
               /\ \A r \in older'[s] : older'[r] \subseteq older'[s]
    <3>1. last[s] \subseteq ready \ {s} /\ \A r \in last[s] : last[r] \subseteq last[s]
      BY DEF Ordered
    <3>2. CASE s \in d
      BY <1>1, <3>2
    <3>3. CASE s \notin d
      <4>1. older'[s] = last[s] \ d
        BY <1>1, <3>3
      <4>2. ASSUME NEW r \in older'[s]
            PROVE  older'[r] \subseteq older'[s]
        <5>1. r \in Segs /\ r \in last[s] /\ r \notin d
          BY <4>1
        <5>2. older'[r] = last[r] \ d
          BY <1>1, <5>1
        <5> QED
          BY <3>1, <4>1, <5>1, <5>2
      <4> QED
        BY <3>1, <4>1, <4>2
    <3> QED
      BY <3>2, <3>3
  <2>2. ASSUME NEW s \in ready \ d, NEW r \in ready \ d
        PROVE  s = r \/ s \in older'[r] \/ r \in older'[s]
    BY <1>1 DEF Ordered
  <2> QED
    BY <2>1, <2>2 DEF Ordered
<1> QED
  BY <1>1, <1>2, <1>3, <1>4, <1>5

LEMMA SegInitInv ==
  ASSUME SegAssumption
  PROVE  SegInit => SegInv
<1> SUFFICES ASSUME SegInit
             PROVE  SegInv
  OBVIOUS
<1>1. Ready = {} /\ Waiting = {}
  BY DEF SegInit, Ready, Waiting
<1>2. Cardinality(Ready) = 0
  BY <1>1, FS_EmptySet
<1>3. Fits
  BY <1>2 DEF Fits
<1>4. Ordered(Ready, older) /\ QueuedOnce
  BY <1>1 DEF SegInit, Ordered, QueuedOnce
<1>5. CacheInv
  BY <1>3, <1>4 DEF SegInit, CacheInv
<1>6. ActInv
  BY DEF SegInit, ActInv, SegAssumption
<1> QED
  BY <1>5, <1>6 DEF SegInv

\* Who leaves the cache, the pin and the load alone keeps their invariant.
LEMMA CacheKept ==
  ASSUME CacheInv, UNCHANGED <<sgState, older, sgQueue>>,
         wk' = "load" <=> wk = "load", wk = "load" => sgJob' = sgJob,
         gui' = "trace" <=> gui = "trace", gui = "trace" => seg' = seg
  PROVE  CacheInv'
<1>1. UNCHANGED <<Ready, Waiting>>
  BY DEF Ready, Waiting
<1>2. QueuedOnce'
  BY <1>1 DEF CacheInv, QueuedOnce
<1>3. Fits'
  BY <1>1 DEF CacheInv, Fits
<1>4. Ordered(Ready, older)
  BY DEF CacheInv
<1>5. Ordered(Ready', older')
  BY <1>1, <1>4
<1> QED
  BY <1>1, <1>2, <1>3, <1>5 DEF CacheInv

\* The worker takes the segment that was asked for last.
LEMMA LookKeeps ==
  ASSUME SegAssumption, SegInv, LookForWork
  PROVE  SegInv'
<1>1. /\ wk = "look"
      /\ UNCHANGED <<sgState, older, sgQuit, ovActive, gui, seg, sgTodo, active>>
  BY DEF LookForWork, screen
<1>2. ASSUME sgQueue # <<>>, wk' = "load", sgJob' = sgQueue[Len(sgQueue)],
             sgQueue' = SubSeq(sgQueue, 1, Len(sgQueue) - 1)
      PROVE  CacheInv' /\ sgJob' \in Segs
  <2>1. sgQueue \in Seq(Segs) /\ Len(sgQueue) \in Nat \ {0}
    BY <1>2 DEF SegInv, CacheInv
  <2>2. /\ sgQueue' \in Seq(Segs) /\ DOMAIN sgQueue = 1..Len(sgQueue)
        /\ DOMAIN sgQueue' = 1..(Len(sgQueue) - 1)
        /\ \A i \in DOMAIN sgQueue' : sgQueue'[i] = sgQueue[i]
    BY <1>2, <2>1
  <2>3. /\ \A i \in DOMAIN sgQueue' : i \in DOMAIN sgQueue /\ i # Len(sgQueue)
        /\ Len(sgQueue) \in DOMAIN sgQueue
        /\ \A i \in DOMAIN sgQueue : i = Len(sgQueue) \/ i \in DOMAIN sgQueue'
    BY <2>1, <2>2
  <2> PICK last : last = Len(sgQueue)
    OBVIOUS
  <2>4. sgJob' \in Segs
    BY <1>2, <2>1, <2>3
  <2>5. Waiting = Waiting' \cup {sgJob'} /\ sgJob' \notin Waiting'
    <3>1. sgJob' \notin Waiting'
      BY <1>2, <2>2, <2>3 DEF SegInv, CacheInv, QueuedOnce, Waiting
    <3>2. Waiting = Waiting' \cup {sgJob'}
      BY <1>2, <2>2, <2>3 DEF Waiting
    <3> QED
      BY <3>1, <3>2
  <2>6. QueuedOnce'
    <3>1. \A i, j \in DOMAIN sgQueue' : sgQueue'[i] = sgQueue'[j] => i = j
      BY <2>2, <2>3 DEF SegInv, CacheInv, QueuedOnce
    <3>2. \A s \in Segs : sgState[s] = "queued" <=> s \in Waiting
      BY <1>1 DEF SegInv, CacheInv, QueuedOnce
    <3> QED
      BY <1>1, <1>2, <2>4, <2>5, <3>1, <3>2 DEF QueuedOnce
  <2>7. UNCHANGED Ready
    BY <1>1 DEF Ready
  <2>8. Fits'
    BY <1>1, <2>7 DEF SegInv, CacheInv, Fits
  <2>9. Ordered(Ready', older')
    <3>1. Ordered(Ready, older)
      BY DEF SegInv, CacheInv
    <3> QED
      BY <1>1, <2>7, <3>1
  <2> QED
    BY <1>1, <2>2, <2>4, <2>6, <2>7, <2>8, <2>9 DEF SegInv, CacheInv
<1>3. CASE sgQuit
  <2>1. wk' = "gone" /\ UNCHANGED <<sgJob, sgQueue, actReq, actBusy, actReady, ovReq>>
    BY <1>3 DEF LookForWork, activation
  <2>2. CacheInv'
    BY <1>1, <2>1, CacheKept DEF SegInv
  <2> QED
    BY <1>1, <2>1, <2>2 DEF SegInv, ActInv
<1>4. CASE ~sgQuit /\ actReq # NoSeg /\ actReady = NoSeg
  <2>1. /\ wk' = "activate" /\ sgJob' = actReq /\ actReq' = NoSeg /\ actBusy' = TRUE
        /\ UNCHANGED <<sgQueue, actReady, ovReq>>
    BY <1>4 DEF LookForWork
  <2>2. CacheInv'
    BY <1>1, <2>1, CacheKept DEF SegInv
  <2> QED
    BY <1>1, <1>4, <2>1, <2>2 DEF SegInv, ActInv
<1>5. CASE ~sgQuit /\ (actReq = NoSeg \/ actReady # NoSeg) /\ ovReq # NoSeg
  <2>1. /\ wk' = "overlap" /\ sgJob' = ovReq /\ ovReq' = NoSeg
        /\ UNCHANGED <<sgQueue, actReq, actBusy, actReady>>
    BY <1>5 DEF LookForWork, activation
  <2>2. CacheInv'
    BY <1>1, <2>1, CacheKept DEF SegInv
  <2> QED
    BY <1>1, <1>5, <2>1, <2>2 DEF SegInv, ActInv
<1>6. CASE ~sgQuit /\ (actReq = NoSeg \/ actReady # NoSeg) /\ ovReq = NoSeg
  <2>1. UNCHANGED <<actReq, actBusy, actReady, ovReq>>
    BY <1>6 DEF LookForWork, activation
  <2>2. CASE sgQueue = <<>>
    <3>1. wk' = "wait" /\ UNCHANGED <<sgJob, sgQueue>>
      BY <1>6, <2>2 DEF LookForWork
    <3>2. CacheInv'
      BY <1>1, <3>1, CacheKept DEF SegInv
    <3> QED
      BY <1>1, <2>1, <3>1, <3>2 DEF SegInv, ActInv
  <2>3. CASE sgQueue # <<>>
    <3>1. /\ wk' = "load" /\ sgJob' = sgQueue[Len(sgQueue)]
          /\ sgQueue' = SubSeq(sgQueue, 1, Len(sgQueue) - 1)
      BY <1>6, <2>3 DEF LookForWork
    <3>2. CacheInv' /\ sgJob' \in Segs
      BY <1>2, <2>3, <3>1
    <3> QED
      BY <1>1, <2>1, <3>1, <3>2 DEF SegInv, ActInv
  <2> QED
    BY <2>2, <2>3
<1>7. sgQuit \in BOOLEAN
  BY DEF SegInv, ActInv
<1> QED
  BY <1>3, <1>4, <1>5, <1>6, <1>7

\* A grid arrives: what it pushes out is neither pinned nor the grid itself.
LEMMA LoadedKeeps ==
  ASSUME SegAssumption, SegInv, Loaded
  PROVE  SegInv'
<1> PICK s : s = sgJob
  OBVIOUS
<1>1. /\ wk = "load" /\ wk' = "look" /\ sgJob' = NoSeg
      /\ UNCHANGED <<sgQueue, sgQuit, actReq, actBusy, actReady, ovReq, ovActive,
                     gui, seg, sgTodo, active>>
  BY DEF Loaded, activation, overlap, screen
<1>2. s \in Segs /\ sgState[s] = "queued" /\ s \notin Waiting /\ s \notin Ready
  BY <1>1 DEF SegInv, CacheInv, QueuedOnce, Ready
<1>3. ActInv'
  BY <1>1 DEF SegInv, ActInv
<1>4. UNCHANGED Waiting
  BY <1>1 DEF Waiting
<1>5. CASE s \in Unread
  <2>1. sgState' = [sgState EXCEPT ![s] = "failed"] /\ UNCHANGED older
    BY <1>5 DEF Loaded
  <2>2. UNCHANGED Ready
    BY <1>2, <2>1 DEF SegInv, CacheInv, Ready
  <2>3. QueuedOnce'
    BY <1>1, <1>2, <1>4, <2>1 DEF SegInv, CacheInv, QueuedOnce
  <2>4. Fits'
    BY <1>1, <2>2 DEF SegInv, CacheInv, Fits
  <2>5. Ordered(Ready', older')
    <3>1. Ordered(Ready, older)
      BY DEF SegInv, CacheInv
    <3> QED
      BY <2>1, <2>2, <3>1
  <2>6. CacheInv'
    BY <1>1, <2>1, <2>2, <2>3, <2>4, <2>5 DEF SegInv, CacheInv
  <2> QED
    BY <1>3, <2>6 DEF SegInv
<1>6. CASE s \notin Unread
  <2>1. PICK now, last, spared : /\ now = Ready \cup {s} /\ spared = Pinned \cup {s}
                                 /\ last = Used(s, now)
                                 /\ Evict(now, last, spared)
    BY <1>6 DEF Loaded
  <2>2. last \in [Segs -> SUBSET Segs] /\ Ordered(now, last)
    BY <1>2, <2>1, UsedOrdered DEF SegInv, CacheInv
  <2>3. now \in SUBSET Segs /\ Ready \subseteq now
    BY <1>2, <2>1 DEF Ready
  <2>4. /\ sgState' \in [Segs -> {"empty", "queued", "ready", "failed"}]
        /\ older' \in [Segs -> SUBSET Segs]
        /\ Ordered(Ready', older') /\ Ready' \subseteq now /\ now \cap spared \subseteq Ready'
        /\ \A x \in Segs \ now : sgState'[x] = sgState[x]
        /\ \A x \in now : sgState'[x] \in {"empty", "ready"}
        /\ BytesOf(Ready') <= SegBudget \/ Ready' \subseteq spared
    <3>1. sgState \in [Segs -> {"empty", "queued", "ready", "failed"}]
      BY DEF SegInv, CacheInv
    <3>2. Evict(now, last, spared)
      BY <2>1
    <3> QED
      BY <2>2, <2>3, <3>1, <3>2, EvictKeeps
  <2>5. QueuedOnce'
    <3>1. ASSUME NEW x \in Segs
          PROVE  sgState'[x] = "queued" <=> x \in Waiting
      <4>1. CASE x \in now
        BY <1>2, <2>1, <2>4, <4>1 DEF SegInv, CacheInv, QueuedOnce, Ready
      <4>2. CASE x \notin now
        BY <1>1, <2>1, <2>4, <4>2 DEF SegInv, CacheInv, QueuedOnce
      <4> QED
        BY <4>1, <4>2
    <3> QED
      BY <1>1, <1>4, <3>1 DEF SegInv, CacheInv, QueuedOnce
  <2>6. Fits'
    <3> SUFFICES ASSUME gui # "trace", Ready' \subseteq spared
                 PROVE  Cardinality(Ready') <= 1
      BY <1>1, <2>4 DEF Fits
    <3>1. Ready' \subseteq {s}
      BY <2>1 DEF Pinned
    <3>2. Cardinality({s}) = 1 /\ IsFiniteSet({s})
      BY FS_Singleton
    <3> QED
      BY <3>1, <3>2, FS_Subset
  <2>7. gui = "trace" => seg \in Ready'
    BY <2>1, <2>4 DEF SegInv, CacheInv, Pinned
  <2>8. CacheInv'
    BY <1>1, <2>4, <2>5, <2>6, <2>7 DEF SegInv, CacheInv
  <2> QED
    BY <1>3, <2>8 DEF SegInv
<1> QED
  BY <1>5, <1>6

\* A segment in view joins the queue, is pinned, or is left as it is.
LEMMA DrawKeeps ==
  ASSUME SegAssumption, SegInv, NEW s \in Segs, Draw(s)
  PROVE  SegInv'
<1>1. /\ gui = "idle" /\ sgTodo' = sgTodo \ {s}
      /\ UNCHANGED <<sgQuit, actReq, actBusy, actReady, ovReq, ovActive, sgJob, active>>
  BY DEF Draw, activation, overlap
<1>2. CASE /\ sgState[s] = "empty" /\ sgState' = [sgState EXCEPT ![s] = "queued"]
           /\ sgQueue' = Append(sgQueue, s) /\ Signal /\ UNCHANGED <<older, gui, seg>>
  <2>1. wk' = wk \/ (wk = "wait" /\ wk' = "look")
    BY <1>2 DEF Signal
  <2>2. /\ sgQueue \in Seq(Segs) /\ Len(sgQueue) \in Nat /\ DOMAIN sgQueue = 1..Len(sgQueue)
        /\ sgQueue' \in Seq(Segs) /\ DOMAIN sgQueue' = 1..(Len(sgQueue) + 1)
        /\ sgQueue'[Len(sgQueue) + 1] = s
        /\ \A i \in 1..Len(sgQueue) : sgQueue'[i] = sgQueue[i]
    BY <1>2 DEF SegInv, CacheInv
  <2>3. Waiting' = Waiting \cup {s} /\ s \notin Waiting /\ ~(wk = "load" /\ s = sgJob)
    <3>1. Waiting' = Waiting \cup {s}
      BY <2>2 DEF Waiting
    <3> QED
      BY <1>2, <3>1 DEF SegInv, CacheInv, QueuedOnce
  <2>4. \A i, j \in DOMAIN sgQueue' : sgQueue'[i] = sgQueue'[j] => i = j
    <3>1. \A i \in 1..Len(sgQueue) : sgQueue[i] # s
      BY <2>2, <2>3 DEF Waiting
    <3>2. \A i, j \in 1..Len(sgQueue) : sgQueue[i] = sgQueue[j] => i = j
      BY <2>2 DEF SegInv, CacheInv, QueuedOnce
    <3>3. \A i \in DOMAIN sgQueue' : i \in 1..Len(sgQueue) \/ i = Len(sgQueue) + 1
      BY <2>2
    <3> QED
      BY <2>2, <3>1, <3>2, <3>3
  <2>5. QueuedOnce'
    <3>1. wk' = "load" <=> wk = "load"
      BY <2>1
    <3>2. \A x \in Segs : sgState'[x] = IF x = s THEN "queued" ELSE sgState[x]
      BY <1>2 DEF SegInv, CacheInv
    <3> QED
      BY <1>1, <2>3, <2>4, <3>1, <3>2 DEF SegInv, CacheInv, QueuedOnce
  <2>6. UNCHANGED Ready
    BY <1>2 DEF SegInv, CacheInv, Ready
  <2>7. Fits'
    BY <1>2, <2>6 DEF SegInv, CacheInv, Fits
  <2>8. Ordered(Ready', older')
    <3>1. Ordered(Ready, older)
      BY DEF SegInv, CacheInv
    <3> QED
      BY <1>2, <2>6, <3>1
  <2>9. CacheInv'
    BY <1>1, <1>2, <2>2, <2>5, <2>6, <2>7, <2>8 DEF SegInv, CacheInv
  <2>10. ActInv'
    BY <1>1, <1>2, <2>1 DEF SegInv, ActInv
  <2> QED
    BY <2>9, <2>10 DEF SegInv
<1>3. CASE /\ sgState[s] = "ready" /\ older' = Used(s, Ready) /\ gui' = "trace" /\ seg' = s
           /\ UNCHANGED <<sgState, sgQueue, wk>>
  <2>1. UNCHANGED <<Ready, Waiting>> /\ s \in Ready /\ Ready = Ready \cup {s}
    BY <1>3 DEF Ready, Waiting
  <2>2. older' \in [Segs -> SUBSET Segs] /\ Ordered(Ready, older')
    <3>1. older \in [Segs -> SUBSET Segs] /\ Ordered(Ready, older)
      BY DEF SegInv, CacheInv
    <3> QED
      BY <1>3, <2>1, <3>1, UsedOrdered
  <2>3. QueuedOnce' /\ Fits'
    BY <1>1, <1>3, <2>1 DEF SegInv, CacheInv, QueuedOnce, Fits
  <2>4. Ordered(Ready', older')
    BY <2>1, <2>2
  <2>5. CacheInv'
    BY <1>3, <2>1, <2>2, <2>3, <2>4 DEF SegInv, CacheInv
  <2>6. ActInv'
    BY <1>1, <1>3 DEF SegInv, ActInv
  <2> QED
    BY <2>5, <2>6 DEF SegInv
<1>4. CASE UNCHANGED <<sgState, older, sgQueue, gui, seg, wk>>
  <2>1. CacheInv'
    BY <1>1, <1>4, CacheKept DEF SegInv
  <2>2. ActInv'
    BY <1>1, <1>4 DEF SegInv, ActInv
  <2> QED
    BY <2>1, <2>2 DEF SegInv
<1> QED
  BY <1>2, <1>3, <1>4 DEF Draw, sgCache

\* The pin is given back, and what was too much while it lasted is dropped.
LEMMA TracedKeeps ==
  ASSUME SegAssumption, SegInv, Traced
  PROVE  SegInv'
<1>1. /\ gui' = "idle" /\ seg' = NoSeg /\ Evict(Ready, older, {})
      /\ UNCHANGED <<sgQueue, sgQuit, actReq, actBusy, actReady, ovReq, ovActive, wk, sgJob,
                     sgTodo, active>>
  BY DEF Traced, activation, overlap, sgWorker
<1>2. PICK ready, last, spared : ready = Ready /\ last = older /\ spared = {}
  OBVIOUS
<1>3. /\ sgState \in [Segs -> {"empty", "queued", "ready", "failed"}]
      /\ last \in [Segs -> SUBSET Segs] /\ Ordered(ready, last) /\ ready \in SUBSET Segs
      /\ Ready \subseteq ready /\ Evict(ready, last, spared)
  BY <1>1, <1>2 DEF SegInv, CacheInv, Ready
<1>4. /\ sgState' \in [Segs -> {"empty", "queued", "ready", "failed"}]
      /\ older' \in [Segs -> SUBSET Segs] /\ Ordered(Ready', older')
      /\ \A x \in Segs \ ready : sgState'[x] = sgState[x]
      /\ \A x \in ready : sgState'[x] \in {"empty", "ready"}
      /\ BytesOf(Ready') <= SegBudget \/ Ready' \subseteq spared
  BY <1>3, EvictKeeps
<1>5. QueuedOnce'
  <2>1. UNCHANGED Waiting
    BY <1>1 DEF Waiting
  <2>2. \A x \in Segs : sgState'[x] = "queued" <=> sgState[x] = "queued"
    <3>1. \A x \in ready : sgState[x] = "ready"
      BY <1>2 DEF Ready
    <3> QED
      BY <1>4, <3>1
  <2> QED
    BY <1>1, <2>1, <2>2 DEF SegInv, CacheInv, QueuedOnce
<1>6. Fits'
  <2>1. CASE Ready' \subseteq {}
    BY <2>1, FS_EmptySet DEF Fits
  <2>2. CASE BytesOf(Ready') <= SegBudget
    BY <2>2 DEF Fits
  <2> QED
    BY <1>2, <1>4, <2>1, <2>2
<1>7. CacheInv'
  BY <1>1, <1>4, <1>5, <1>6 DEF SegInv, CacheInv
<1>8. ActInv'
  BY <1>1 DEF SegInv, ActInv
<1> QED
  BY <1>7, <1>8 DEF SegInv

\* A new store starts with an empty cache and one activation.
LEMMA ReopenKeeps ==
  ASSUME SegAssumption, SegInv, ReopenStore
  PROVE  SegInv'
<1>1. /\ sgState' = [s \in Segs |-> "empty"] /\ older' = [s \in Segs |-> {}] /\ sgQueue' = <<>>
      /\ sgQuit' = FALSE /\ actReq' \in Segs /\ actBusy' = FALSE /\ actReady' = NoSeg
      /\ ovReq' = NoSeg /\ ovActive' = NoSeg /\ wk' = "look" /\ sgJob' = NoSeg
      /\ gui' = "idle" /\ seg' = NoSeg /\ sgTodo' = Segs /\ active' = active
  BY DEF ReopenStore
<1>2. Ready' = {} /\ Waiting' = {}
  BY <1>1 DEF Ready, Waiting
<1>3. Cardinality(Ready') = 0
  BY <1>2, FS_EmptySet
<1>4. Fits'
  BY <1>3 DEF Fits
<1>5. Ordered(Ready', older') /\ QueuedOnce'
  BY <1>1, <1>2 DEF Ordered, QueuedOnce
<1>6. CacheInv'
  BY <1>1, <1>4, <1>5 DEF CacheInv
<1>7. ActInv'
  BY <1>1 DEF SegInv, ActInv
<1> QED
  BY <1>6, <1>7 DEF SegInv

LEMMA SegStepInv ==
  ASSUME SegAssumption, SegInv, [SegNext]_segVars
  PROVE  SegInv'
<1> USE DEF SegInv, ActInv, sgCache, activation, overlap, sgWorker, screen
<1>1. CASE SegWorker
  <2>1. CASE Activated
    <3>1. CacheInv'
      BY <2>1, CacheKept DEF Activated
    <3>2. wk = "activate" /\ actReady = NoSeg /\ actBusy = TRUE /\ sgJob \in Segs
      BY <2>1 DEF Activated
    <3>3. CASE sgJob \in Unread
      BY <2>1, <3>1, <3>2, <3>3 DEF Activated
    <3>4. CASE sgJob \notin Unread
      BY <2>1, <3>1, <3>2, <3>4 DEF Activated, SegAssumption
    <3> QED
      BY <3>3, <3>4
  <2>2. CASE Compared
    <3>1. CacheInv'
      BY <2>2, CacheKept DEF Compared
    <3> QED
      BY <2>2, <3>1 DEF Compared
  <2> QED
    BY <1>1, <2>1, <2>2, LookKeeps, LoadedKeeps DEF SegWorker
<1>2. CASE InView
  BY <1>2, DrawKeeps DEF InView
<1>3. CASE Gui
  <2>1. CASE NextView
    <3>1. CacheInv'
      BY <2>1, CacheKept DEF NextView
    <3> QED
      BY <2>1, <3>1 DEF NextView
  <2>2. CASE Apply
    <3>1. CacheInv'
      BY <2>2, CacheKept DEF Apply, FrameDrawn
    <3> QED
      BY <2>2, <3>1 DEF Apply
  <2>3. CASE Refresh
    <3>1. CacheInv'
      BY <2>3, CacheKept DEF Refresh, Signal
    <3> QED
      BY <2>3, <3>1 DEF Refresh, Signal
  <2> QED
    BY <1>3, <2>1, <2>2, <2>3, TracedKeeps, ReopenKeeps DEF Gui
<1>4. CASE CloseStore
  <2>1. CacheInv'
    BY <1>4, CacheKept DEF CloseStore, FrameDrawn, Signal
  <2> QED
    BY <1>4, <2>1 DEF CloseStore, Signal
<1>5. CASE \E s \in Segs : Activate(s)
  <2> PICK s \in Segs : Activate(s)
    BY <1>5
  <2>1. CacheInv'
    BY CacheKept DEF Activate, Signal
  <2> QED
    BY <2>1 DEF Activate, Signal
<1>6. CASE UNCHANGED segVars
  <2>1. CacheInv'
    BY <1>6, CacheKept DEF segVars
  <2> QED
    BY <1>6, <2>1 DEF segVars
<1> QED
  BY <1>1, <1>2, <1>3, <1>4, <1>5, <1>6 DEF SegNext

\* A grid that is traced stays cached, a segment is asked for once, and only
\* pins and one grid more exceed the budget, for any store and any budget; an
\* activation is prepared and applied once (sgc_worker, sgc_evict_lru).
THEOREM GridsStayPinned ==
  ASSUME SegAssumption
  PROVE  SegSpec => []GridStaysPinned
<1>1. SegInit => SegInv
  BY SegInitInv
<1>2. SegInv /\ [SegNext]_segVars => SegInv'
  BY SegStepInv
<1>3. SegInv => GridStaysPinned
  <2> SUFFICES ASSUME SegInv
               PROVE  GridStaysPinned
    OBVIOUS
  <2>1. InOrderOfUse
    BY DEF SegInv, CacheInv, Ordered, InOrderOfUse
  <2>2. SegTypeOK
    BY <2>1 DEF SegInv, CacheInv, ActInv, SegTypeOK
  <2>3. {s \in Segs : sgState[s] = "queued"} = Waiting \cup (IF wk = "load" THEN {sgJob} ELSE {})
    <3>1. Waiting \subseteq Segs
      BY DEF SegInv, CacheInv, Waiting
    <3> QED
      BY <3>1 DEF SegInv, CacheInv, QueuedOnce
  <2> QED
    BY <2>2, <2>3 DEF SegInv, CacheInv, ActInv, QueuedOnce, Fits, GridStaysPinned
<1> QED
  BY <1>1, <1>2, <1>3, PTL DEF SegSpec
=============================================================================
