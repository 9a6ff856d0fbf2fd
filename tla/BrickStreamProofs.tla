-------------------------- MODULE BrickStreamProofs -------------------------
(***************************************************************************)
(* For any blocks, slots, views, seams and budget, any late, absent or air *)
(* blocks, and any number of moves and failed batches: a frame samples     *)
(* only slots that hold the blocks its page table names, the residency     *)
(* tables agree, the coarsest level is mapped and what decoded as air is   *)
(* shown as air.  The display filter (Refilter) is not used: the run with  *)
(* it ends in a violation.                                                 *)
(***************************************************************************)
EXTENDS BrickStream, FiniteSetTheorems, SequenceTheorems, TLAPS

-----------------------------------------------------------------------------
(* The inductive invariant.                                                *)

Batches == UNION {[S -> Blocks] : S \in SUBSET AtlasSlots}
Ops == [op : {"upload"}, batch : Batches] \cup [op : {"frame"}, page : Pages]

TableTypes ==
  /\ slotBrick \in [AtlasSlots -> Blocks \cup {NoId}]
  /\ slotOf \in [Blocks -> AtlasSlots \cup {NoId}]
  /\ air \subseteq Blocks /\ seam \subseteq AtlasSlots
  /\ page \in Pages
JobTypes ==
  /\ state \in 0..3
  /\ sel \in Batches /\ stage \in Batches
  /\ failed \in BOOLEAN
  /\ step \in {"idle", "decode", "stage", "finish"}
  /\ rpc \in {"begin", "open", "frame"}
QueueTypes ==
  /\ gpuQ \in Seq(Ops)
  /\ Cardinality(Pending("frame")) <= 2 /\ Cardinality(Pending("upload")) <= 1
  /\ atlas \in [AtlasSlots -> Blocks \cup {NoId}]
  /\ gpuPage \in Pages
EnvTypes ==
  /\ tier \in [Blocks -> {"local", "absent", "missing"}]
  /\ view \in Views /\ moves \in 0..MaxMoves /\ fails \in 0..MaxFails

\* Who is at work: the worker is inside a job exactly while it runs, and the
\* render thread collects only when it owns the batch.
Control ==
  /\ state = 2 <=> step # "idle"
  /\ rpc = "open" => state = 0

\* slot_brick and the state map are inverse to each other in every state.
Agree == \A b \in Blocks, s \in AtlasSlots : slotOf[b] = s <=> slotBrick[s] = b

\* The slots of a batch are its own, and no page entry leads to them, until the
\* render thread publishes it.
BatchOwned ==
  /\ state # 0 => \A b \in Blocks : page[b] \notin DOMAIN sel
  /\ state \in {1, 2} => \A s \in DOMAIN sel : slotBrick[s] = sel[s] /\ sel[s] \notin Coarse
  /\ state = 3 /\ ~failed => \A s \in DOMAIN sel : sel[s] \in Air \/ slotBrick[s] = sel[s]

\* No slot of the coarsest level is filtered again or given away.
CoarseStays ==
  /\ Coarse \cap Air \subseteq air
  /\ \A s \in seam : slotBrick[s] \notin Coarse
  /\ \A b \in Coarse \ Air : page[b] \in AtlasSlots

\* Air has no slot, and is shown as air or about to be.
AirKnown ==
  \A b \in air :
    /\ slotOf[b] = NoId
    /\ \/ b \in Coarse \cup Gone \/ page[b] = Zero
       \/ state = 3 /\ ~failed /\ b \in Range(sel) \cap Air

\* The uploads that will have executed before position i of the queue and write
\* slot s, and what they leave in it: the voxels of b.
Writers(s, i) == {u \in Pending("upload") : u < i /\ s \in DOMAIN gpuQ[u].batch}
Holds(s, b, i) ==
  /\ Writers(s, i) = {} => atlas[s] = b
  /\ \A u \in Writers(s, i) : gpuQ[u].batch[s] = b

\* Uploads find their bytes in the staging buffer.
Staged == \A u \in Pending("upload") : gpuQ[u].batch = stage

\* Every frame in the queue finds the coarsest level mapped, and the voxels its
\* page table promises; so would a frame submitted now.
FramesHold ==
  \A i \in Pending("frame") :
    /\ \A b \in Coarse \ Air : gpuQ[i].page[b] \in AtlasSlots
    /\ \A b \in Blocks : gpuQ[i].page[b] \in AtlasSlots => Holds(gpuQ[i].page[b], b, i)
PageHolds ==
  \A b \in Blocks : page[b] \in AtlasSlots => Holds(page[b], b, Len(gpuQ) + 1)

\* So do the slots of a batch that was staged.
BatchHolds ==
  (state = 3 \/ step = "finish") /\ ~failed =>
    \A s \in DOMAIN sel : Holds(s, sel[s], Len(gpuQ) + 1)

Types  == TableTypes /\ JobTypes /\ QueueTypes /\ EnvTypes
Tables == Agree /\ MappedIsResident /\ BatchOwned /\ CoarseStays /\ AirKnown
Queue  == Staged /\ FramesHold /\ PageHolds /\ BatchHolds
IInv   == Types /\ Control /\ Tables /\ Queue

-----------------------------------------------------------------------------
(* The queue of the GPU.                                                   *)

\* Something is submitted: it is the last, and all else keeps its place.
LEMMA AppendQueue ==
  ASSUME gpuQ \in Seq(Ops), NEW x \in Ops, gpuQ' = Append(gpuQ, x)
  PROVE  /\ gpuQ' \in Seq(Ops)
         /\ Len(gpuQ) \in Nat /\ Len(gpuQ') = Len(gpuQ) + 1
         /\ DOMAIN gpuQ = 1..Len(gpuQ) /\ DOMAIN gpuQ' = 1..Len(gpuQ) + 1
         /\ \A i \in 1..Len(gpuQ) : gpuQ'[i] = gpuQ[i]
         /\ gpuQ'[Len(gpuQ) + 1] = x
BY LenProperties

\* The first has executed: all else moves up.
LEMMA TailQueue ==
  ASSUME gpuQ \in Seq(Ops), gpuQ # <<>>, gpuQ' = Tail(gpuQ)
  PROVE  /\ gpuQ' \in Seq(Ops)
         /\ Len(gpuQ) \in Nat \ {0} /\ Len(gpuQ') = Len(gpuQ) - 1
         /\ DOMAIN gpuQ = 1..Len(gpuQ) /\ DOMAIN gpuQ' = 1..Len(gpuQ) - 1
         /\ \A i \in 1..Len(gpuQ) - 1 : gpuQ'[i] = gpuQ[i + 1]
         /\ Head(gpuQ) = gpuQ[1]
<1>1. Len(gpuQ) \in Nat \ {0} /\ DOMAIN gpuQ = 1..Len(gpuQ)
  BY EmptySeq, LenProperties
<1>2. gpuQ' \in Seq(Ops) /\ Len(gpuQ') = Len(gpuQ) - 1
      /\ \A i \in 1..Len(gpuQ) - 1 : gpuQ'[i] = gpuQ[i + 1]
  BY <1>1, HeadTailProperties
<1>3. DOMAIN gpuQ' = 1..Len(gpuQ) - 1
  BY <1>2, LenProperties
<1> QED
  BY <1>1, <1>2, <1>3

LEMMA PendingFinite ==
  ASSUME gpuQ \in Seq(Ops), NEW k
  PROVE  IsFiniteSet(Pending(k)) /\ Cardinality(Pending(k)) \in Nat
<1>1. Len(gpuQ) \in Nat /\ DOMAIN gpuQ = 1..Len(gpuQ)
  BY LenProperties
<1>2. IsFiniteSet(1..Len(gpuQ))
  BY <1>1, FS_Interval
<1>3. Pending(k) \in SUBSET (1..Len(gpuQ))
  BY <1>1 DEF Pending
<1>4. IsFiniteSet(Pending(k))
  BY <1>2, <1>3, FS_Subset
<1> QED
  BY <1>4, FS_CardinalityType

\* What is pending after a submission and after an execution.
LEMMA PendingAppend ==
  ASSUME gpuQ \in Seq(Ops), NEW x \in Ops, gpuQ' = Append(gpuQ, x), NEW k
  PROVE  Pending(k)' = IF x.op = k THEN Pending(k) \cup {Len(gpuQ) + 1} ELSE Pending(k)
<1>1. /\ Len(gpuQ) \in Nat
      /\ DOMAIN gpuQ = 1..Len(gpuQ) /\ DOMAIN gpuQ' = 1..Len(gpuQ) + 1
      /\ \A i \in 1..Len(gpuQ) : gpuQ'[i] = gpuQ[i]
      /\ gpuQ'[Len(gpuQ) + 1] = x
  BY AppendQueue
<1> HIDE DEF Ops
<1>2. 1..Len(gpuQ) + 1 = 1..Len(gpuQ) \cup {Len(gpuQ) + 1}
  BY <1>1
<1> QED
  BY <1>1, <1>2 DEF Pending

LEMMA PendingAppendCount ==
  ASSUME gpuQ \in Seq(Ops), NEW x \in Ops, gpuQ' = Append(gpuQ, x), NEW k
  PROVE  /\ Cardinality(Pending(k)) \in Nat /\ Cardinality(Pending(k)') \in Nat
         /\ Cardinality(Pending(k)') <= Cardinality(Pending(k)) + (IF x.op = k THEN 1 ELSE 0)
<1>1. IsFiniteSet(Pending(k)) /\ Cardinality(Pending(k)) \in Nat
  BY PendingFinite
<1>2. CASE x.op = k
  <2>1. Pending(k)' = Pending(k) \cup {Len(gpuQ) + 1}
    BY <1>2, PendingAppend
  <2>2. Cardinality(Pending(k) \cup {Len(gpuQ) + 1}) \in
          {Cardinality(Pending(k)), Cardinality(Pending(k)) + 1}
    BY <1>1, FS_AddElement
  <2> QED
    BY <1>1, <1>2, <2>1, <2>2
<1>3. CASE x.op # k
  BY <1>1, <1>3, PendingAppend
<1> QED
  BY <1>2, <1>3

LEMMA PendingTail ==
  ASSUME gpuQ \in Seq(Ops), gpuQ # <<>>, gpuQ' = Tail(gpuQ), NEW k, NEW i
  PROVE  i \in Pending(k)' <=> i \in 1..Len(gpuQ) - 1 /\ i + 1 \in Pending(k)
<1>1. /\ Len(gpuQ) \in Nat \ {0}
      /\ DOMAIN gpuQ = 1..Len(gpuQ) /\ DOMAIN gpuQ' = 1..Len(gpuQ) - 1
      /\ \A j \in 1..Len(gpuQ) - 1 : gpuQ'[j] = gpuQ[j + 1]
  BY TailQueue
<1>2. ASSUME i \in 1..Len(gpuQ) - 1
      PROVE  i + 1 \in 1..Len(gpuQ)
  BY <1>1, <1>2
<1> QED
  BY <1>1, <1>2 DEF Pending

LEMMA PendingTailCount ==
  ASSUME gpuQ \in Seq(Ops), gpuQ # <<>>, gpuQ' = Tail(gpuQ), NEW k
  PROVE  /\ Cardinality(Pending(k)) \in Nat /\ Cardinality(Pending(k)') \in Nat
         /\ Cardinality(Pending(k)') <= Cardinality(Pending(k))
<1>1. IsFiniteSet(Pending(k)) /\ Cardinality(Pending(k)) \in Nat /\ Len(gpuQ) \in Nat \ {0}
  BY PendingFinite, TailQueue
<1>2. PICK P : P = Pending(k)'
  OBVIOUS
<1>3. \A i \in P : i \in 1..Len(gpuQ) - 1 /\ i + 1 \in Pending(k)
  BY <1>2, PendingTail
<1>4. [i \in P |-> i + 1] \in [P -> Pending(k)]
  BY <1>3
<1>5. ASSUME NEW i \in P, NEW j \in P, i + 1 = j + 1
      PROVE  i = j
  <2>1. i \in Int /\ j \in Int
    BY <1>1, <1>3
  <2> QED
    BY <1>5, <2>1
<1>6. [i \in P |-> i + 1] \in Injection(P, Pending(k))
  BY <1>4, <1>5 DEF Injection, IsInjective
<1>7. IsFiniteSet(P) /\ Cardinality(P) <= Cardinality(Pending(k))
  BY <1>1, <1>6, FS_Injection
<1>8. Cardinality(P) \in Nat
  BY <1>7, FS_CardinalityType
<1> QED
  BY <1>1, <1>2, <1>7, <1>8

\* A submission changes nothing for the work before it.
LEMMA HoldsBefore ==
  ASSUME gpuQ \in Seq(Ops), NEW x \in Ops, gpuQ' = Append(gpuQ, x), atlas' = atlas,
         NEW s, NEW b, NEW i \in 1..Len(gpuQ) + 1, Holds(s, b, i)
  PROVE  Holds(s, b, i)'
<1>1. Len(gpuQ) \in Nat /\ \A j \in 1..Len(gpuQ) : gpuQ'[j] = gpuQ[j]
  BY AppendQueue
<1>2. Pending("upload")' \subseteq Pending("upload") \cup {Len(gpuQ) + 1}
      /\ Pending("upload") \subseteq Pending("upload")'
  BY PendingAppend
<1>3. Pending("upload") \subseteq 1..Len(gpuQ)
  BY LenProperties DEF Pending
<1>4. ~(Len(gpuQ) + 1 < i)
  BY <1>1
<1>5. Writers(s, i)' = Writers(s, i)
  BY <1>1, <1>2, <1>3, <1>4 DEF Writers
<1>6. \A u \in Writers(s, i) : gpuQ'[u] = gpuQ[u]
  BY <1>1, <1>3 DEF Writers
<1> QED
  BY <1>5, <1>6 DEF Holds

\* After it, a slot holds what it would have held, unless the submission is an
\* upload of the slot; then it holds what that brings.
LEMMA HoldsAfter ==
  ASSUME gpuQ \in Seq(Ops), NEW x \in Ops, gpuQ' = Append(gpuQ, x), atlas' = atlas,
         NEW s, NEW b,
         \/ /\ Holds(s, b, Len(gpuQ) + 1)
            /\ x.op = "upload" => s \notin DOMAIN x.batch
         \/ /\ x.op = "upload" /\ s \in DOMAIN x.batch /\ x.batch[s] = b
            /\ Pending("upload") = {}
  PROVE  Holds(s, b, Len(gpuQ) + 1)'
<1>1. Len(gpuQ) \in Nat /\ Len(gpuQ') = Len(gpuQ) + 1
      /\ (\A j \in 1..Len(gpuQ) : gpuQ'[j] = gpuQ[j])
      /\ gpuQ'[Len(gpuQ) + 1] = x
  BY AppendQueue
<1>2. Pending("upload")' = IF x.op = "upload" THEN Pending("upload") \cup {Len(gpuQ) + 1}
                                              ELSE Pending("upload")
  BY PendingAppend
<1>3. Pending("upload") \subseteq 1..Len(gpuQ)
  BY LenProperties DEF Pending
<1>4. PICK n : n = Len(gpuQ)
  OBVIOUS
<1>5. n + 1 < n + 2 /\ Len(gpuQ') + 1 = n + 2 /\ (\A j \in 1..n : j < n + 2 /\ j < n + 1)
  BY <1>1, <1>4
<1>6. CASE Holds(s, b, Len(gpuQ) + 1) /\ (x.op = "upload" => s \notin DOMAIN x.batch)
  <2>1. Writers(s, n + 2)' = Writers(s, n + 1)
    BY <1>1, <1>2, <1>3, <1>4, <1>5, <1>6 DEF Writers
  <2>2. \A u \in Writers(s, n + 1) : gpuQ'[u] = gpuQ[u]
    BY <1>1, <1>3, <1>4 DEF Writers
  <2>3. Holds(s, b, n + 2)'
    BY <1>4, <1>6, <2>1, <2>2 DEF Holds
  <2> QED
    BY <1>5, <2>3
<1>7. CASE /\ x.op = "upload" /\ s \in DOMAIN x.batch /\ x.batch[s] = b
           /\ Pending("upload") = {}
  <2>1. Writers(s, n + 2)' = {n + 1}
    BY <1>1, <1>2, <1>4, <1>5, <1>7 DEF Writers
  <2>2. Holds(s, b, n + 2)'
    BY <1>1, <1>4, <1>7, <2>1 DEF Holds
  <2> QED
    BY <1>5, <2>2
<1> QED
  BY <1>6, <1>7

\* An execution moves the promise of every later place one place up: what the
\* executed upload brought is now in the atlas.
LEMMA HoldsExecute ==
  ASSUME gpuQ \in Seq(Ops), Staged, Execute,
         NEW s \in AtlasSlots, NEW b, NEW i \in 2..Len(gpuQ) + 1, Holds(s, b, i)
  PROVE  Holds(s, b, i - 1)'
<1>1. gpuQ # <<>> /\ gpuQ' = Tail(gpuQ)
  BY DEF Execute
<1>2. /\ Len(gpuQ) \in Nat \ {0} /\ Head(gpuQ) = gpuQ[1] /\ DOMAIN gpuQ = 1..Len(gpuQ)
      /\ \A j \in 1..Len(gpuQ) - 1 : gpuQ'[j] = gpuQ[j + 1]
  BY <1>1, TailQueue
<1>3. ASSUME NEW u \in Writers(s, i - 1)'
      PROVE  u + 1 \in Writers(s, i) /\ gpuQ'[u] = gpuQ[u + 1] /\ u \in 1..Len(gpuQ) - 1
  <2>1. u \in Pending("upload")' /\ u < i - 1 /\ s \in DOMAIN gpuQ'[u].batch
    BY <1>3 DEF Writers
  <2>2. u \in 1..Len(gpuQ) - 1 /\ u + 1 \in Pending("upload")
    BY <1>1, <2>1, PendingTail
  <2>3. gpuQ'[u] = gpuQ[u + 1] /\ u + 1 < i
    BY <1>2, <2>1, <2>2
  <2> QED
    BY <2>1, <2>2, <2>3 DEF Writers
<1>4. ASSUME NEW u \in Writers(s, i), u # 1
      PROVE  u - 1 \in Writers(s, i - 1)'
  <2>1. u \in Pending("upload") /\ u < i /\ s \in DOMAIN gpuQ[u].batch
    BY <1>4 DEF Writers
  <2>2. u \in 2..Len(gpuQ)
    BY <1>2, <1>4, <2>1 DEF Pending
  <2>3. u - 1 \in 1..Len(gpuQ) - 1 /\ (u - 1) + 1 = u /\ u - 1 < i - 1
    BY <1>2, <2>1, <2>2
  <2>4. u - 1 \in Pending("upload")' /\ gpuQ'[u - 1] = gpuQ[u]
    BY <1>1, <1>2, <2>1, <2>3, PendingTail
  <2> QED
    BY <2>1, <2>3, <2>4 DEF Writers
<1>5. ASSUME Writers(s, i - 1)' = {}
      PROVE  atlas'[s] = b
  <2>1. \A u \in Writers(s, i) : u = 1
    BY <1>4, <1>5
  <2>2. CASE 1 \in Writers(s, i)
    <3>1. gpuQ[1].op = "upload" /\ gpuQ[1].batch = stage /\ s \in DOMAIN gpuQ[1].batch
          /\ gpuQ[1].batch[s] = b
      BY <2>2 DEF Writers, Pending, Staged, Holds
    <3> QED
      BY <1>2, <3>1 DEF Execute
  <2>3. CASE 1 \notin Writers(s, i)
    <3>1. atlas[s] = b
      BY <2>1, <2>3 DEF Holds
    <3>2. 1 \in DOMAIN gpuQ /\ 1 < i
      BY <1>2
    <3>3. gpuQ[1].op = "upload" => s \notin DOMAIN gpuQ[1].batch
      BY <2>3, <3>2 DEF Writers, Pending
    <3> QED
      BY <1>2, <3>1, <3>3 DEF Execute
  <2> QED
    BY <2>2, <2>3
<1>6. \A u \in Writers(s, i - 1)' : gpuQ'[u].batch[s] = b
  BY <1>3 DEF Holds
<1>7. (Writers(s, i - 1)' = {} => atlas'[s] = b)
      /\ (\A u \in Writers(s, i - 1)' : gpuQ'[u].batch[s] = b)
  BY <1>5, <1>6
<1> QED
  BY <1>7 DEF Holds

-----------------------------------------------------------------------------
(* Types.                                                                  *)

LEMMA BatchShape ==
  ASSUME NEW f \in Batches
  PROVE  /\ IsBatch(f)
         /\ \A s \in DOMAIN f : s \in AtlasSlots /\ f[s] \in Blocks
BY DEF Batches, IsBatch, Range

LEMMA OpShape ==
  ASSUME NEW x \in Ops
  PROVE  \/ x.op = "upload" /\ x.batch \in Batches
         \/ x.op = "frame" /\ x.page \in Pages
BY DEF Ops

LEMMA TypesTypeOK == ASSUME Types PROVE StreamTypeOK
<1>1. \A i \in DOMAIN gpuQ : gpuQ[i] \in Ops
  BY LenProperties, ElementOfSeq DEF Types, QueueTypes
<1>2. Pending("frame") \cup Pending("upload") = DOMAIN gpuQ
  BY <1>1, OpShape DEF Pending
<1>3. \A i \in Pending("frame") : gpuQ[i].page \in Pages
  BY <1>1, OpShape DEF Pending
<1>4. \A i \in Pending("upload") : IsBatch(gpuQ[i].batch)
  BY <1>1, OpShape, BatchShape DEF Pending
<1>5. IsBatch(sel) /\ IsBatch(stage)
  BY BatchShape DEF Types, JobTypes
<1> QED
  BY <1>2, <1>3, <1>4, <1>5
  DEF Types, TableTypes, JobTypes, QueueTypes, EnvTypes, StreamTypeOK

-----------------------------------------------------------------------------
(* The start.                                                              *)

LEMMA NoBatch == <<>> \in Batches
<1>1. <<>> \in Seq(Blocks) /\ Len(<<>>) = 0
  BY EmptySeq
<1>2. <<>> \in [1..0 -> Blocks]
  BY <1>1, LenProperties
<1>3. 1..0 \in SUBSET AtlasSlots
  OBVIOUS
<1> QED
  BY <1>2, <1>3 DEF Batches

LEMMA InitInv == ASSUME StreamAssumption, StreamInit PROVE IInv
<1>1. PICK seed \in Injection(Coarse \ Air, AtlasSlots) :
        /\ slotOf = [b \in Blocks |-> IF b \in Coarse \ Air THEN seed[b] ELSE NoId]
        /\ page = [b \in Blocks |-> IF b \in Coarse \ Air THEN seed[b] ELSE Invalid]
        /\ slotBrick = [s \in AtlasSlots |-> IF s \in Range(seed)
                                        THEN CHOOSE b \in Coarse \ Air : seed[b] = s ELSE NoId]
  BY DEF StreamInit
<1>2. /\ atlas = slotBrick /\ gpuPage = [b \in Blocks |-> Invalid]
      /\ air = Coarse \cap Air /\ seam = {}
      /\ tier = [b \in Blocks |-> IF b \in Late THEN "missing" ELSE "local"]
      /\ state = 0 /\ sel = <<>> /\ failed = FALSE /\ step = "idle" /\ stage = <<>>
      /\ rpc = "begin" /\ gpuQ = <<>>
      /\ view \in Views /\ moves = 0 /\ fails = 0
  BY DEF StreamInit
<1>3. /\ seed \in [Coarse \ Air -> AtlasSlots]
      /\ \A a, b \in Coarse \ Air : seed[a] = seed[b] => a = b
  BY <1>1 DEF Injection, IsInjective
<1>4. /\ Coarse \subseteq Blocks /\ {Invalid, Zero, NoId} \cap (AtlasSlots \cup Blocks) = {}
      /\ {MaxMoves, MaxFails} \subseteq Nat
  BY DEF StreamAssumption
<1>5. ASSUME NEW s \in AtlasSlots, NEW b \in Coarse \ Air, seed[b] = s
      PROVE  slotBrick[s] = b
  <2>1. s \in Range(seed)
    BY <1>3, <1>5 DEF Range
  <2> QED
    BY <1>1, <1>3, <1>5, <2>1
<1>6. ASSUME NEW s \in AtlasSlots, slotBrick[s] # NoId
      PROVE  slotBrick[s] \in Coarse \ Air /\ seed[slotBrick[s]] = s
  <2>1. s \in Range(seed)
    BY <1>1, <1>6
  <2>2. \E b \in Coarse \ Air : seed[b] = s
    BY <1>3, <2>1 DEF Range
  <2> QED
    BY <1>1, <2>1, <2>2
<1>7. TableTypes
  <2>1. slotBrick \in [AtlasSlots -> Blocks \cup {NoId}]
    BY <1>1, <1>4, <1>6
  <2>2. slotOf \in [Blocks -> AtlasSlots \cup {NoId}] /\ page \in Pages
    BY <1>1, <1>3 DEF Pages
  <2> QED
    BY <1>2, <1>4, <2>1, <2>2 DEF TableTypes
<1>8. JobTypes
  <2>1. sel \in Batches /\ stage \in Batches
    BY <1>2, NoBatch
  <2>2. state \in 0..3
    BY <1>2
  <2>3. failed \in BOOLEAN
    BY <1>2
  <2>4. step = "idle" /\ rpc = "begin"
    BY <1>2
  <2> QED
    BY <2>1, <2>2, <2>3, <2>4 DEF JobTypes
<1>9. QueueTypes
  <2>1. gpuQ \in Seq(Ops) /\ DOMAIN gpuQ = {}
    BY <1>2, EmptySeq, LenProperties
  <2>2. Pending("frame") = {} /\ Pending("upload") = {}
    BY <2>1 DEF Pending
  <2>3. Cardinality({}) = 0
    BY FS_EmptySet
  <2>4. Cardinality(Pending("frame")) <= 2 /\ Cardinality(Pending("upload")) <= 1
    BY <2>2, <2>3
  <2>5. atlas \in [AtlasSlots -> Blocks \cup {NoId}]
    BY <1>2, <1>7 DEF TableTypes
  <2>6. gpuPage \in Pages
    BY <1>2 DEF Pages
  <2> QED
    BY <2>1, <2>4, <2>5, <2>6 DEF QueueTypes
<1>10. EnvTypes
  BY <1>2, <1>4 DEF EnvTypes
<1>11. Control
  BY <1>2 DEF Control
<1>12. ASSUME NEW b \in Blocks, NEW s \in AtlasSlots
       PROVE  slotOf[b] = s <=> slotBrick[s] = b
  <2>1. slotOf[b] = s => b \in Coarse \ Air /\ seed[b] = s
    BY <1>1, <1>4
  <2>2. slotBrick[s] = b => b \in Coarse \ Air /\ seed[b] = s
    BY <1>4, <1>6
  <2>3. b \in Coarse \ Air /\ seed[b] = s => slotOf[b] = s
    BY <1>1
  <2> QED
    BY <1>5, <2>1, <2>2, <2>3
<1>13. ASSUME NEW b \in Blocks, page[b] \in AtlasSlots
       PROVE  slotOf[b] = page[b] /\ slotBrick[page[b]] = b /\ atlas[page[b]] = b
  BY <1>1, <1>2, <1>4, <1>5, <1>13
<1>14. BatchOwned
  BY <1>2 DEF BatchOwned
<1>15. CoarseStays
  BY <1>1, <1>2, <1>3, <1>4 DEF CoarseStays
<1>16. AirKnown
  BY <1>1, <1>2, <1>4 DEF AirKnown
<1>17. Tables
  BY <1>12, <1>13, <1>14, <1>15, <1>16 DEF Tables, Agree, MappedIsResident
<1>18. Queue
  <2>1. \A k : Pending(k) = {}
    BY <1>2, EmptySeq, LenProperties DEF Pending
  <2>2. \A s, i : Writers(s, i) = {}
    BY <2>1 DEF Writers
  <2>3. PageHolds
    BY <1>13, <2>2 DEF PageHolds, Holds
  <2> QED
    BY <1>2, <2>1, <2>3 DEF Queue, Staged, FramesHold, BatchHolds
<1> QED
  BY <1>7, <1>8, <1>9, <1>10, <1>11, <1>17, <1>18 DEF IInv, Types

-----------------------------------------------------------------------------
(* Steps that leave the tables and the queue alone.                        *)

LEMMA SameTables ==
  ASSUME Tables, UNCHANGED <<slotBrick, slotOf, air, page, seam, sel, failed>>,
         state' = 3 <=> state = 3, state' \in {1, 2} => state \in {1, 2}, state = 0 => state' = 0
  PROVE  Tables'
<1>1. Agree' /\ MappedIsResident' /\ CoarseStays'
  BY DEF Tables, Agree, MappedIsResident, CoarseStays
<1>2. BatchOwned'
  BY DEF Tables, BatchOwned
<1>3. AirKnown'
  BY DEF Tables, AirKnown
<1> QED
  BY <1>1, <1>2, <1>3 DEF Tables

LEMMA SameQueue ==
  ASSUME Queue, UNCHANGED <<gpuQ, atlas, stage, page>>,
         BatchHolds'
  PROVE  Queue'
<1>1. Staged' /\ FramesHold' /\ PageHolds'
  BY DEF Queue, Staged, FramesHold, PageHolds, Holds, Writers, Pending
<1> QED
  BY <1>1 DEF Queue

LEMMA SameBatch ==
  ASSUME Queue, UNCHANGED <<gpuQ, atlas, sel, failed>>,
         (state' = 3 \/ step' = "finish") => (state = 3 \/ step = "finish")
  PROVE  BatchHolds'
BY DEF Queue, BatchHolds, Holds, Writers, Pending

LEMMA SameQueueTypes ==
  ASSUME QueueTypes, UNCHANGED gpuVars
  PROVE  QueueTypes'
BY DEF QueueTypes, gpuVars, Pending

\* A step of the environment, or of a thread that only changes who works.
LEMMA QuietStep ==
  ASSUME IInv, UNCHANGED <<cpuVars, sel, failed, stage, gpuVars>>,
         state' = 3 <=> state = 3, state' \in {1, 2} => state \in {1, 2}, state = 0 => state' = 0,
         step' = "finish" => step = "finish",
         JobTypes', EnvTypes', Control'
  PROVE  IInv'
<1>1. TableTypes' /\ QueueTypes'
  <2>1. QueueTypes'
    BY SameQueueTypes DEF IInv, Types
  <2> QED
    BY <2>1 DEF IInv, Types, TableTypes, cpuVars
<1>2. Tables'
  BY SameTables DEF IInv, cpuVars
<1>3. Queue'
  BY SameQueue, SameBatch DEF IInv, cpuVars, gpuVars
<1> QED
  BY <1>1, <1>2, <1>3 DEF IInv, Types

LEMMA TakeStep == ASSUME IInv, TakeJob PROVE IInv'
<1>1. /\ state = 1 /\ state' = 2 /\ step' = "decode"
      /\ UNCHANGED <<cpuVars, sel, failed, stage, rpc, gpuVars, envVars, fails>>
  BY DEF TakeJob
<1>2. JobTypes' /\ Control' /\ EnvTypes'
  <2>1. JobTypes'
    BY <1>1 DEF IInv, Types, JobTypes
  <2>2. Control'
    BY <1>1 DEF IInv, Control
  <2>3. EnvTypes'
    BY <1>1 DEF IInv, Types, EnvTypes, envVars
  <2> QED
    BY <2>1, <2>2, <2>3
<1> QED
  BY <1>1, <1>2, QuietStep

LEMMA SkipFrameStep == ASSUME IInv, SkipFrame PROVE IInv'
<1>1. /\ rpc' = "begin" /\ UNCHANGED <<cpuVars, workerVars, gpuVars, envVars, fails>>
  BY DEF SkipFrame
<1>2. JobTypes' /\ Control'
  BY <1>1 DEF IInv, Types, JobTypes, Control, workerVars
<1>3. EnvTypes'
  BY <1>1 DEF IInv, Types, EnvTypes, envVars
<1> QED
  BY <1>1, <1>2, <1>3, QuietStep DEF workerVars

LEMMA ArriveStep == ASSUME IInv, NEW b \in Blocks, Arrive(b) PROVE IInv'
<1>1. /\ tier' = [tier EXCEPT ![b] = IF b \in Gone THEN "absent" ELSE "local"]
      /\ UNCHANGED <<cpuVars, workerVars, rpc, gpuVars, view, moves, fails>>
  BY DEF Arrive
<1>2. JobTypes' /\ Control'
  BY <1>1 DEF IInv, Types, JobTypes, Control, workerVars
<1>3. EnvTypes'
  BY <1>1 DEF IInv, Types, EnvTypes
<1> QED
  BY <1>1, <1>2, <1>3, QuietStep DEF workerVars

LEMMA ForgetStep == ASSUME StreamAssumption, IInv, NEW b \in Blocks, Forget(b) PROVE IInv'
<1>1. /\ fails < MaxFails /\ fails' = fails + 1
      /\ tier' = [tier EXCEPT ![b] = "missing"]
      /\ UNCHANGED <<cpuVars, workerVars, rpc, gpuVars, view, moves>>
  BY DEF Forget
<1>2. JobTypes' /\ Control'
  BY <1>1 DEF IInv, Types, JobTypes, Control, workerVars
<1>3. EnvTypes'
  BY <1>1 DEF IInv, Types, EnvTypes, StreamAssumption
<1> QED
  BY <1>1, <1>2, <1>3, QuietStep DEF workerVars

LEMMA MoveStep == ASSUME StreamAssumption, IInv, Move PROVE IInv'
<1>1. /\ moves < MaxMoves /\ moves' = moves + 1 /\ view' \in Views
      /\ UNCHANGED <<cpuVars, workerVars, rpc, gpuVars, tier, fails>>
  BY DEF Move
<1>2. JobTypes' /\ Control'
  BY <1>1 DEF IInv, Types, JobTypes, Control, workerVars
<1>3. EnvTypes'
  BY <1>1 DEF IInv, Types, EnvTypes, StreamAssumption
<1> QED
  BY <1>1, <1>2, <1>3, QuietStep DEF workerVars

LEMMA StutterStep == ASSUME IInv, UNCHANGED streamVars PROVE IInv'
<1>1. UNCHANGED <<cpuVars, workerVars, rpc, gpuVars, envVars, fails>>
  BY DEF streamVars
<1>2. JobTypes' /\ Control'
  BY <1>1 DEF IInv, Types, JobTypes, Control, workerVars
<1>3. EnvTypes'
  BY <1>1 DEF IInv, Types, EnvTypes, envVars
<1> QED
  BY <1>1, <1>2, <1>3, QuietStep DEF workerVars

-----------------------------------------------------------------------------
(* The worker.                                                             *)

\* What a batch in work owns.
LEMMA RunningBatch ==
  ASSUME IInv, step # "idle"
  PROVE  /\ state = 2 /\ sel \in Batches
         /\ \A s \in DOMAIN sel : /\ s \in AtlasSlots /\ sel[s] \in Blocks
                                  /\ slotBrick[s] = sel[s] /\ sel[s] \notin Coarse
         /\ \A b \in Blocks : page[b] \notin DOMAIN sel
<1>1. state = 2 /\ sel \in Batches
  BY DEF IInv, Control, Types, JobTypes
<1>2. \A s \in DOMAIN sel : s \in AtlasSlots /\ sel[s] \in Blocks
  BY <1>1, BatchShape
<1> QED
  BY <1>1, <1>2 DEF IInv, Tables, BatchOwned

LEMMA DecodeBatchStep == ASSUME StreamAssumption, IInv, DecodeBatch PROVE IInv'
<1>1. /\ step = "decode"
      /\ UNCHANGED <<slotBrick, slotOf, air, page, state, sel, stage, rpc, gpuVars, envVars>>
  BY DEF DecodeBatch
<1>2. /\ state = 2
      /\ \A s \in DOMAIN sel : s \in AtlasSlots /\ slotBrick[s] = sel[s] /\ sel[s] \notin Coarse
  BY <1>1, RunningBatch
<1>3. PICK done \in SUBSET DOMAIN sel : seam' = Seams(done)
  BY DEF DecodeBatch
<1>4. \/ step' = "stage" /\ UNCHANGED <<failed, fails>>
      \/ step' = "finish" /\ failed' = TRUE /\ fails < MaxFails /\ fails' = fails + 1
  BY DEF DecodeBatch
<1>5. seam' \subseteq seam \cup DOMAIN sel
  BY <1>3 DEF Seams
<1>6. TableTypes'
  BY <1>1, <1>2, <1>5 DEF IInv, Types, TableTypes
<1>7. JobTypes'
  BY <1>1, <1>4 DEF IInv, Types, JobTypes
<1>8. QueueTypes'
  BY <1>1, SameQueueTypes DEF IInv, Types
<1>9. EnvTypes'
  BY <1>1, <1>4 DEF IInv, Types, EnvTypes, envVars, StreamAssumption
<1>10. Control'
  BY <1>1, <1>2, <1>4 DEF IInv, Control
<1>11. Tables'
  <2>1. Agree' /\ MappedIsResident'
    BY <1>1 DEF IInv, Tables, Agree, MappedIsResident
  <2>2. BatchOwned'
    BY <1>1, <1>2 DEF IInv, Tables, BatchOwned
  <2>3. CoarseStays'
    BY <1>1, <1>2, <1>5 DEF IInv, Tables, CoarseStays
  <2>4. AirKnown'
    BY <1>1, <1>2 DEF IInv, Tables, AirKnown
  <2> QED
    BY <2>1, <2>2, <2>3, <2>4 DEF Tables
<1>12. BatchHolds'
  BY <1>1, <1>2, <1>4 DEF BatchHolds
<1>13. Queue'
  BY <1>1, <1>12, SameQueue DEF IInv, gpuVars
<1> QED
  BY <1>6, <1>7, <1>8, <1>9, <1>10, <1>11, <1>13 DEF IInv, Types

\* Frames already submitted keep their promise when something follows them, and
\* a frame that follows promises what holds at the end of the queue.
LEMMA FramesAfter ==
  ASSUME gpuQ \in Seq(Ops), FramesHold, NEW x \in Ops, gpuQ' = Append(gpuQ, x), atlas' = atlas,
         x.op = "frame" => /\ \A b \in Coarse \ Air : x.page[b] \in AtlasSlots
                           /\ \A b \in Blocks : x.page[b] \in AtlasSlots =>
                                Holds(x.page[b], b, Len(gpuQ) + 1)
  PROVE  FramesHold'
<1>1. /\ Len(gpuQ) \in Nat /\ DOMAIN gpuQ = 1..Len(gpuQ)
      /\ \A j \in 1..Len(gpuQ) : gpuQ'[j] = gpuQ[j]
      /\ gpuQ'[Len(gpuQ) + 1] = x
  BY AppendQueue
<1>2. Pending("frame")' = IF x.op = "frame" THEN Pending("frame") \cup {Len(gpuQ) + 1}
                                            ELSE Pending("frame")
  BY PendingAppend
<1>3. ASSUME NEW i \in Pending("frame")'
      PROVE  /\ i \in 1..Len(gpuQ) + 1
             /\ \A b \in Coarse \ Air : gpuQ'[i].page[b] \in AtlasSlots
             /\ \A b \in Blocks : gpuQ'[i].page[b] \in AtlasSlots => Holds(gpuQ'[i].page[b], b, i)
  <2>1. CASE i \in Pending("frame")
    <3>1. i \in 1..Len(gpuQ)
      BY <1>1, <2>1 DEF Pending
    <3>2. gpuQ'[i] = gpuQ[i] /\ i \in 1..Len(gpuQ) + 1
      BY <1>1, <3>1
    <3> QED
      BY <2>1, <3>2 DEF FramesHold
  <2>2. CASE x.op = "frame" /\ i = Len(gpuQ) + 1
    <3>1. gpuQ'[i] = x /\ i \in 1..Len(gpuQ) + 1
      BY <1>1, <2>2
    <3> QED
      BY <2>2, <3>1
  <2> QED
    BY <1>2, <1>3, <2>1, <2>2
<1>4. ASSUME NEW i \in Pending("frame")', NEW b \in Blocks, gpuQ'[i].page[b] \in AtlasSlots
      PROVE  Holds(gpuQ[i].page[b], b, i)'
  <2>1. PICK s : s = gpuQ'[i].page[b]
    OBVIOUS
  <2>2. Holds(s, b, i) /\ i \in 1..Len(gpuQ) + 1
    BY <1>3, <1>4, <2>1
  <2>3. Holds(s, b, i)'
    BY <2>2, HoldsBefore
  <2> QED
    BY <2>1, <2>3
<1> QED
  BY <1>3, <1>4 DEF FramesHold

LEMMA StageBatchStep == ASSUME StreamAssumption, IInv, StageBatch PROVE IInv'
<1>1. /\ step = "stage" /\ Pending("upload") = {} /\ stage' = sel /\ step' = "finish"
      /\ UNCHANGED <<cpuVars, state, sel, rpc, atlas, gpuPage, envVars>>
  BY DEF StageBatch, StageReady
<1>2. \/ gpuQ' = Append(gpuQ, Upload(sel)) /\ UNCHANGED <<failed, fails>>
      \/ failed' = TRUE /\ fails < MaxFails /\ fails' = fails + 1 /\ UNCHANGED gpuQ
  BY DEF StageBatch
<1>3. state = 2 /\ sel \in Batches /\ \A b \in Blocks : page[b] \notin DOMAIN sel
  BY <1>1, RunningBatch
<1>4. TableTypes'
  BY <1>1 DEF IInv, Types, TableTypes, cpuVars
<1>5. JobTypes'
  BY <1>1, <1>2, <1>3 DEF IInv, Types, JobTypes
<1>6. EnvTypes'
  BY <1>1, <1>2 DEF IInv, Types, EnvTypes, envVars, StreamAssumption
<1>7. Control'
  BY <1>1, <1>3 DEF IInv, Control
<1>8. Tables'
  <2>1. Agree' /\ MappedIsResident' /\ CoarseStays'
    BY <1>1 DEF IInv, Tables, Agree, MappedIsResident, CoarseStays, cpuVars
  <2>2. BatchOwned'
    BY <1>1, <1>3 DEF IInv, Tables, BatchOwned, cpuVars
  <2>3. AirKnown'
    BY <1>1, <1>3 DEF IInv, Tables, AirKnown, cpuVars
  <2> QED
    BY <2>1, <2>2, <2>3 DEF Tables
<1>9. CASE failed' = TRUE /\ UNCHANGED gpuQ
  <2>1. QueueTypes'
    BY <1>1, <1>9, SameQueueTypes DEF IInv, Types, gpuVars
  <2>2. Staged' /\ BatchHolds'
    BY <1>1, <1>9 DEF Staged, BatchHolds, Pending
  <2>3. FramesHold' /\ PageHolds'
    BY <1>1, <1>9
    DEF IInv, Queue, FramesHold, PageHolds, Holds, Writers, Pending, cpuVars
  <2> QED
    BY <1>4, <1>5, <1>6, <1>7, <1>8, <2>1, <2>2, <2>3 DEF IInv, Types, Queue
<1>10. CASE gpuQ' = Append(gpuQ, Upload(sel))
  <2>1. PICK x \in Ops : /\ x = [op |-> "upload", batch |-> sel]
                         /\ gpuQ' = Append(gpuQ, x)
    BY <1>3, <1>10 DEF Upload, Ops
  <2>2. x.op = "upload" /\ x.batch = sel
    BY <2>1
  <2>3. gpuQ \in Seq(Ops)
    BY DEF IInv, Types, QueueTypes
  <2>4. QueueTypes'
    <3>1. gpuQ' \in Seq(Ops)
      BY <2>1, <2>3, AppendQueue
    <3>2. Cardinality(Pending("frame")') <= 2
      BY <2>1, <2>2, <2>3, PendingAppend DEF IInv, Types, QueueTypes
    <3>3. Cardinality(Pending("upload")') <= 1
      <4>1. Cardinality(Pending("upload")) = 0
        BY <1>1, FS_EmptySet
      <4>2. Cardinality(Pending("upload")') <= Cardinality(Pending("upload")) + 1
        BY <2>1, <2>2, <2>3, PendingAppendCount
      <4> QED
        BY <4>1, <4>2
    <3> QED
      BY <1>1, <3>1, <3>2, <3>3 DEF IInv, Types, QueueTypes
  <2>5. Staged'
    <3>1. Pending("upload")' = {Len(gpuQ) + 1} /\ gpuQ'[Len(gpuQ) + 1] = x
      BY <1>1, <2>1, <2>2, <2>3, PendingAppend, AppendQueue
    <3> QED
      BY <1>1, <2>2, <3>1 DEF Staged
  <2>6. FramesHold'
    BY <1>1, <2>1, <2>2, <2>3, FramesAfter DEF IInv, Queue
  <2>7. ASSUME NEW b \in Blocks, page'[b] \in AtlasSlots
        PROVE  Holds(page[b], b, Len(gpuQ) + 1)'
    <3>1. PICK s : s = page[b]
      OBVIOUS
    <3>2. page' = page /\ s \notin DOMAIN sel /\ Holds(s, b, Len(gpuQ) + 1)
      BY <1>1, <1>3, <2>7, <3>1 DEF IInv, Queue, PageHolds, cpuVars
    <3>3. Holds(s, b, Len(gpuQ) + 1)'
      BY <1>1, <2>1, <2>2, <2>3, <3>2, HoldsAfter
    <3> QED
      BY <3>1, <3>2, <3>3
  <2>8. ASSUME NEW s \in DOMAIN sel
        PROVE  Holds(s, sel[s], Len(gpuQ) + 1)'
    <3>1. PICK b : b = sel[s]
      OBVIOUS
    <3>2. Holds(s, b, Len(gpuQ) + 1)'
      BY <1>1, <2>1, <2>2, <2>3, <2>8, <3>1, HoldsAfter
    <3> QED
      BY <1>1, <3>1, <3>2
  <2>9. Queue'
    BY <1>1, <2>5, <2>6, <2>7, <2>8 DEF Queue, PageHolds, BatchHolds
  <2> QED
    BY <1>4, <1>5, <1>6, <1>7, <1>8, <2>4, <2>9 DEF IInv, Types
<1> QED
  BY <1>2, <1>9, <1>10

\* The slots of a failed batch, and those of blocks that are air, become free;
\* so do their blocks.
LEMMA FinishBatchStep == ASSUME StreamAssumption, IInv, FinishBatch PROVE IInv'
<1>1. /\ step = "finish"
      /\ slotBrick' = [s \in AtlasSlots |-> IF s \in Freed THEN NoId ELSE slotBrick[s]]
      /\ slotOf' = [b \in Blocks |-> IF \E s \in Freed : sel[s] = b THEN NoId ELSE slotOf[b]]
      /\ air' = IF failed THEN air ELSE air \cup (Range(sel) \cap Air)
      /\ state' = 3 /\ step' = "idle"
      /\ UNCHANGED <<page, seam, sel, failed, stage, rpc, gpuVars, envVars, fails>>
  BY DEF FinishBatch
<1>2. /\ state = 2 /\ sel \in Batches
      /\ \A s \in DOMAIN sel : /\ s \in AtlasSlots /\ sel[s] \in Blocks
                               /\ slotBrick[s] = sel[s] /\ sel[s] \notin Coarse
      /\ \A b \in Blocks : page[b] \notin DOMAIN sel
  BY <1>1, RunningBatch
<1>3. Freed \subseteq DOMAIN sel
  BY DEF Freed
<1>4. NoId \notin AtlasSlots \cup Blocks
  BY DEF StreamAssumption
<1>5. TableTypes'
  <2>1. slotBrick' \in [AtlasSlots -> Blocks \cup {NoId}] /\ slotOf' \in [Blocks -> AtlasSlots \cup {NoId}]
    BY <1>1 DEF IInv, Types, TableTypes
  <2>2. air' \subseteq Blocks
    BY <1>1, <1>2 DEF IInv, Types, TableTypes, Range
  <2> QED
    BY <1>1, <2>1, <2>2 DEF IInv, Types, TableTypes
<1>6. JobTypes'
  BY <1>1 DEF IInv, Types, JobTypes
<1>7. QueueTypes'
  BY <1>1, SameQueueTypes DEF IInv, Types
<1>8. EnvTypes'
  BY <1>1 DEF IInv, Types, EnvTypes, envVars
<1>9. Control'
  BY <1>1, <1>2 DEF IInv, Control
<1>10. ASSUME NEW b \in Blocks, NEW s \in AtlasSlots
       PROVE  slotOf'[b] = s <=> slotBrick'[s] = b
  <2>1. slotOf[b] = s <=> slotBrick[s] = b
    BY DEF IInv, Tables, Agree
  <2>2. CASE s \in Freed
    <3>1. slotBrick'[s] = NoId /\ slotBrick[s] = sel[s]
      BY <1>1, <1>2, <1>3, <2>2
    <3>2. slotOf'[b] # s
      BY <1>1, <1>4, <2>1, <2>2, <3>1
    <3> QED
      BY <1>4, <3>1, <3>2
  <2>3. CASE s \notin Freed
    <3>1. slotBrick'[s] = slotBrick[s]
      BY <1>1, <2>3
    <3>2. CASE \E t \in Freed : sel[t] = b
      <4>1. PICK t \in Freed : sel[t] = b
        BY <3>2
      <4>2. slotBrick[t] = b /\ t \in AtlasSlots
        BY <1>2, <1>3, <4>1
      <4>3. slotOf[b] = t
        BY <4>2 DEF IInv, Tables, Agree
      <4> QED
        BY <1>1, <1>4, <2>1, <2>3, <3>1, <3>2, <4>3
    <3>3. CASE ~(\E t \in Freed : sel[t] = b)
      BY <1>1, <2>1, <3>1, <3>3
    <3> QED
      BY <3>2, <3>3
  <2> QED
    BY <2>2, <2>3
<1>11. MappedIsResident'
  <2> SUFFICES ASSUME NEW b \in Blocks, page[b] \in AtlasSlots
               PROVE  slotOf'[b] = page[b] /\ slotBrick'[page[b]] = b
    BY <1>1 DEF MappedIsResident
  <2>1. slotBrick[page[b]] = b /\ page[b] \notin Freed
    BY <1>2, <1>3 DEF IInv, Tables, MappedIsResident
  <2> QED
    BY <1>1, <1>10, <2>1
<1>12. BatchOwned'
  BY <1>1, <1>2 DEF BatchOwned, Freed
<1>13. CoarseStays'
  <2>1. \A s \in seam : slotBrick'[s] \notin Coarse
    BY <1>1, <1>4 DEF IInv, Types, TableTypes, Tables, CoarseStays, StreamAssumption
  <2>2. Coarse \cap Air \subseteq air'
    BY <1>1 DEF IInv, Tables, CoarseStays
  <2> QED
    BY <1>1, <2>1, <2>2 DEF IInv, Tables, CoarseStays
<1>14. ASSUME NEW b \in air'
       PROVE  /\ slotOf'[b] = NoId
              /\ \/ b \in Coarse \cup Gone \/ page[b] = Zero
                 \/ ~failed /\ b \in Range(sel) \cap Air
  <2>1. b \in Blocks
    BY <1>5 DEF TableTypes
  <2>2. CASE b \in air
    BY <1>1, <1>2, <2>1, <2>2 DEF IInv, Tables, AirKnown
  <2>3. CASE ~failed /\ b \in Range(sel) \cap Air
    <3>1. PICK s \in DOMAIN sel : sel[s] = b
      BY <2>3 DEF Range
    <3>2. s \in Freed
      BY <2>3, <3>1 DEF Freed
    <3> QED
      BY <1>1, <2>1, <2>3, <3>1, <3>2
  <2> QED
    BY <1>1, <2>2, <2>3
<1>15. AirKnown'
  BY <1>1, <1>14 DEF AirKnown
<1>16. Tables'
  BY <1>10, <1>11, <1>12, <1>13, <1>15 DEF Tables, Agree
<1>17. Queue'
  BY <1>1, SameQueue, SameBatch DEF IInv, gpuVars
<1> QED
  BY <1>5, <1>6, <1>7, <1>8, <1>9, <1>16, <1>17 DEF IInv, Types

-----------------------------------------------------------------------------
(* The render thread and the GPU.                                          *)

LEMMA FrameStep == ASSUME IInv, Frame PROVE IInv'
<1>1. /\ rpc = "frame" /\ rpc' = "begin" /\ Cardinality(Pending("frame")) < 2
      /\ gpuQ' = Append(gpuQ, FrameOp(page))
      /\ UNCHANGED <<cpuVars, workerVars, atlas, gpuPage, envVars, fails>>
  BY DEF Frame, Paced
<1>2. page \in Pages /\ gpuQ \in Seq(Ops)
  BY DEF IInv, Types, TableTypes, QueueTypes
<1>3. PICK x \in Ops : x = [op |-> "frame", page |-> page] /\ gpuQ' = Append(gpuQ, x)
  BY <1>1, <1>2 DEF FrameOp, Ops
<1>4. x.op = "frame" /\ x.page = page
  BY <1>3
<1>5. TableTypes' /\ EnvTypes'
  BY <1>1 DEF IInv, Types, TableTypes, EnvTypes, cpuVars, envVars
<1>6. JobTypes' /\ Control'
  BY <1>1 DEF IInv, Types, JobTypes, Control, workerVars
<1>7. QueueTypes'
  <2>1. gpuQ' \in Seq(Ops)
    BY <1>2, <1>3, AppendQueue
  <2>2. Cardinality(Pending("upload")') <= 1
    BY <1>2, <1>3, <1>4, PendingAppend DEF IInv, Types, QueueTypes
  <2>3. Cardinality(Pending("frame")') <= 2
    <3>1. /\ Cardinality(Pending("frame")) \in Nat /\ Cardinality(Pending("frame")') \in Nat
          /\ Cardinality(Pending("frame")') <= Cardinality(Pending("frame")) + 1
      BY <1>2, <1>3, <1>4, PendingAppendCount
    <3> QED
      BY <1>1, <3>1
  <2> QED
    BY <1>1, <2>1, <2>2, <2>3 DEF IInv, Types, QueueTypes
<1>8. Tables'
  BY <1>1, SameTables DEF IInv, cpuVars, workerVars
<1>9. Staged'
  <2>1. Pending("upload")' = Pending("upload") /\ stage' = stage
    BY <1>1, <1>2, <1>3, <1>4, PendingAppend DEF workerVars
  <2>2. \A i \in Pending("upload") : gpuQ'[i] = gpuQ[i]
    BY <1>2, <1>3, AppendQueue DEF Pending
  <2> QED
    BY <2>1, <2>2 DEF IInv, Queue, Staged
<1>10. FramesHold'
  BY <1>1, <1>2, <1>3, <1>4, FramesAfter
  DEF IInv, Queue, PageHolds, Tables, CoarseStays
<1>11. ASSUME NEW s, NEW b, Holds(s, b, Len(gpuQ) + 1)
       PROVE  Holds(s, b, Len(gpuQ) + 1)'
  BY <1>1, <1>2, <1>3, <1>4, <1>11, HoldsAfter
<1>12. ASSUME NEW b \in Blocks, page'[b] \in AtlasSlots
       PROVE  Holds(page[b], b, Len(gpuQ) + 1)'
  <2>1. PICK s : s = page[b]
    OBVIOUS
  <2>2. page' = page /\ Holds(s, b, Len(gpuQ) + 1)
    BY <1>1, <1>12, <2>1 DEF IInv, Queue, PageHolds, cpuVars
  <2>3. Holds(s, b, Len(gpuQ) + 1)'
    BY <1>11, <2>2
  <2> QED
    BY <2>1, <2>2, <2>3
<1>13. ASSUME NEW s \in DOMAIN sel, state = 3 \/ step = "finish", ~failed
       PROVE  Holds(s, sel[s], Len(gpuQ) + 1)'
  <2>1. PICK b : b = sel[s]
    OBVIOUS
  <2>2. sel' = sel /\ Holds(s, b, Len(gpuQ) + 1)
    BY <1>1, <1>13, <2>1 DEF IInv, Queue, BatchHolds, workerVars
  <2>3. Holds(s, b, Len(gpuQ) + 1)'
    BY <1>11, <2>2
  <2> QED
    BY <2>1, <2>2, <2>3
<1>14. PageHolds' /\ BatchHolds'
  BY <1>1, <1>12, <1>13 DEF PageHolds, BatchHolds, workerVars
<1> QED
  BY <1>5, <1>6, <1>7, <1>8, <1>9, <1>10, <1>14 DEF IInv, Types, Queue

LEMMA ExecuteStep == ASSUME IInv, Execute PROVE IInv'
<1>1. /\ gpuQ # <<>> /\ gpuQ' = Tail(gpuQ)
      /\ UNCHANGED <<cpuVars, workerVars, rpc, envVars, fails>>
  BY DEF Execute
<1>2. gpuQ \in Seq(Ops)
  BY SMTT(30) DEF IInv, Types, QueueTypes
<1>3. PICK n \in Nat \ {0} : n = Len(gpuQ)
  BY <1>1, <1>2, TailQueue
<1>4. /\ Len(gpuQ') = n - 1 /\ gpuQ' \in Seq(Ops) /\ Head(gpuQ) = gpuQ[1] /\ DOMAIN gpuQ = 1..n
      /\ \A j \in 1..n - 1 : gpuQ'[j] = gpuQ[j + 1]
  BY <1>1, <1>2, <1>3, TailQueue
<1>5. Head(gpuQ) \in Ops
  BY <1>1, <1>2, HeadTailProperties
<1>6. TableTypes' /\ EnvTypes'
  BY <1>1 DEF IInv, Types, TableTypes, EnvTypes, cpuVars, envVars
<1>7. JobTypes' /\ Control'
  BY <1>1 DEF IInv, Types, JobTypes, Control, workerVars
<1>8. QueueTypes'
  <2>1. \A k : /\ Cardinality(Pending(k)') <= Cardinality(Pending(k))
               /\ Cardinality(Pending(k)) \in Nat /\ Cardinality(Pending(k)') \in Nat
    BY <1>1, <1>2, PendingTailCount
  <2>2. Cardinality(Pending("frame")') <= 2 /\ Cardinality(Pending("upload")') <= 1
    BY <2>1 DEF IInv, Types, QueueTypes
  <2>3. atlas' \in [AtlasSlots -> Blocks \cup {NoId}] /\ gpuPage' \in Pages
    <3>1. CASE Head(gpuQ).op = "upload"
      <4>1. Head(gpuQ).batch \in Batches
        BY <1>5, <3>1, OpShape
      <4>2. \A s \in DOMAIN Head(gpuQ).batch : Head(gpuQ).batch[s] \in Blocks
        BY <4>1, BatchShape
      <4>3. gpuPage' = gpuPage
            /\ atlas' = [s \in AtlasSlots |-> IF s \notin DOMAIN Head(gpuQ).batch THEN atlas[s]
                           ELSE IF stage = Head(gpuQ).batch THEN stage[s] ELSE NoId]
        BY <3>1 DEF Execute
      <4> QED
        BY <4>2, <4>3 DEF IInv, Types, QueueTypes
    <3>2. CASE Head(gpuQ).op = "frame"
      BY <1>5, <3>2, OpShape DEF Execute, IInv, Types, QueueTypes
    <3> QED
      BY <1>5, <3>1, <3>2, OpShape
  <2> QED
    BY <1>4, <2>2, <2>3 DEF QueueTypes
<1>9. Tables'
  BY <1>1, SameTables DEF IInv, cpuVars, workerVars
<1>10. Staged
  BY DEF IInv, Queue
<1>11. ASSUME NEW i \in Pending("upload")'
       PROVE  gpuQ'[i].batch = stage'
  <2>1. i \in 1..n - 1 /\ i + 1 \in Pending("upload")
    BY <1>1, <1>2, <1>3, <1>11, PendingTail
  <2> QED
    BY <1>1, <1>4, <1>10, <2>1 DEF Staged, workerVars
<1>12. ASSUME NEW s \in AtlasSlots, NEW b, Holds(s, b, Len(gpuQ) + 1)
       PROVE  Holds(s, b, Len(gpuQ) + 1)'
  <2>1. Holds(s, b, n + 1) /\ n + 1 \in 2..Len(gpuQ) + 1
    BY <1>3, <1>12
  <2>2. Holds(s, b, (n + 1) - 1)'
    BY <1>2, <1>10, <2>1, HoldsExecute
  <2>3. (n + 1) - 1 = Len(gpuQ') + 1
    BY <1>3, <1>4
  <2> QED
    BY <2>2, <2>3
<1>13. ASSUME NEW i \in Pending("frame")'
       PROVE  /\ i \in 1..n - 1 /\ i + 1 \in Pending("frame") /\ gpuQ'[i] = gpuQ[i + 1]
              /\ \A b \in Coarse \ Air : gpuQ'[i].page[b] \in AtlasSlots
  <2>1. i \in 1..n - 1 /\ i + 1 \in Pending("frame")
    BY <1>1, <1>2, <1>3, <1>13, PendingTail
  <2>2. gpuQ'[i] = gpuQ[i + 1]
    BY <1>4, <2>1
  <2> QED
    BY <2>1, <2>2 DEF IInv, Queue, FramesHold
<1>14. ASSUME NEW i \in Pending("frame")', NEW b \in Blocks, gpuQ'[i].page[b] \in AtlasSlots
       PROVE  Holds(gpuQ[i].page[b], b, i)'
  <2>1. PICK s \in AtlasSlots : s = gpuQ'[i].page[b]
    BY <1>14
  <2>2. Holds(s, b, i + 1) /\ i + 1 \in 2..Len(gpuQ) + 1 /\ (i + 1) - 1 = i
    <3>1. i \in 1..n - 1 /\ i + 1 \in Pending("frame") /\ gpuQ'[i] = gpuQ[i + 1]
      BY <1>13, <1>14
    <3>2. Holds(s, b, i + 1)
      BY <2>1, <3>1 DEF IInv, Queue, FramesHold
    <3> QED
      BY <1>3, <3>1, <3>2
  <2>3. Holds(s, b, (i + 1) - 1)'
    BY <1>2, <1>10, <2>2, HoldsExecute
  <2>4. Holds(s, b, i)'
    BY <2>2, <2>3
  <2> QED
    BY <2>1, <2>4
<1>15. ASSUME NEW b \in Blocks, page'[b] \in AtlasSlots
       PROVE  Holds(page[b], b, Len(gpuQ) + 1)'
  <2>1. PICK s \in AtlasSlots : s = page'[b]
    BY <1>15
  <2>2. page' = page /\ Holds(s, b, Len(gpuQ) + 1)
    BY <1>1, <2>1 DEF IInv, Queue, PageHolds, cpuVars
  <2>3. Holds(s, b, Len(gpuQ) + 1)'
    BY <1>12, <2>2
  <2> QED
    BY <2>1, <2>3
<1>16. ASSUME NEW s \in DOMAIN sel, state = 3 \/ step = "finish", ~failed
       PROVE  Holds(s, sel[s], Len(gpuQ) + 1)'
  <2>1. PICK b : b = sel[s]
    OBVIOUS
  <2>2. sel' = sel /\ Holds(s, b, Len(gpuQ) + 1) /\ s \in AtlasSlots
    BY <1>1, <1>16, <2>1, BatchShape
    DEF IInv, Queue, BatchHolds, workerVars, Types, JobTypes
  <2>3. Holds(s, b, Len(gpuQ) + 1)'
    BY <1>12, <2>2
  <2> QED
    BY <2>1, <2>2, <2>3
<1>17. Queue'
  <2>1. Staged' /\ FramesHold'
    BY <1>11, <1>13, <1>14 DEF Staged, FramesHold
  <2>2. PageHolds' /\ BatchHolds'
    BY <1>1, <1>15, <1>16 DEF PageHolds, BatchHolds, workerVars
  <2> QED
    BY <2>1, <2>2 DEF Queue
<1> QED
  BY <1>6, <1>7, <1>8, <1>9, <1>17 DEF IInv, Types

\* What a page entry becomes when a finished batch is published.
LEMMA PublishedEntry ==
  ASSUME IInv, NEW b \in Blocks
  PROVE  \/ Published[b] = page[b] /\ (failed \/ b \notin Range(sel))
         \/ ~failed /\ b \in Range(sel) \cap Air /\ Published[b] = Zero
         \/ /\ ~failed /\ b \notin Air
            /\ Published[b] \in DOMAIN sel /\ sel[Published[b]] = b
<1>1. CASE ~failed /\ b \in Range(sel) /\ b \notin Air
  <2>1. \E s \in DOMAIN sel : sel[s] = b
    BY <1>1 DEF Range
  <2>2. Published[b] = CHOOSE s \in DOMAIN sel : sel[s] = b
    BY <1>1 DEF Published
  <2> QED
    BY <1>1, <2>1, <2>2
<1>2. CASE ~(~failed /\ b \in Range(sel) /\ b \notin Air)
  BY <1>2 DEF Published
<1> QED
  BY <1>1, <1>2

\* Publishing a finished batch, in the loop or in r3d_bricks_flush.
LEMMA PublishStep ==
  ASSUME StreamAssumption, IInv, state = 3, page' = Published, state' = 0,
         rpc' \in {"open", rpc},
         UNCHANGED <<slotBrick, slotOf, air, seam, sel, failed, step, stage, gpuVars, envVars, fails>>
  PROVE  IInv'
<1>1. sel \in Batches /\ rpc \in {"begin", "open", "frame"} /\ page \in Pages
  BY DEF IInv, Types, JobTypes, TableTypes
<1>2. \A s \in DOMAIN sel : s \in AtlasSlots /\ sel[s] \in Blocks
  BY <1>1, BatchShape
<1>3. Zero \notin AtlasSlots /\ NoId \notin AtlasSlots \cup Blocks /\ Coarse \subseteq Blocks
  BY DEF StreamAssumption
<1>4. ASSUME NEW b \in Blocks
      PROVE  \/ page'[b] = page[b] /\ (failed \/ b \notin Range(sel))
             \/ ~failed /\ b \in Air /\ page'[b] = Zero
             \/ ~failed /\ b \notin Air /\ page'[b] \in DOMAIN sel /\ sel[page'[b]] = b
  BY <1>4, PublishedEntry
<1>5. ASSUME NEW b \in Blocks, ~failed, b \notin Air, page'[b] \in DOMAIN sel, sel[page'[b]] = b
      PROVE  slotBrick[page'[b]] = b /\ slotOf[b] = page'[b] /\ page'[b] \in AtlasSlots
  <2>1. slotBrick[page'[b]] = b /\ page'[b] \in AtlasSlots
    BY <1>2, <1>5 DEF IInv, Tables, BatchOwned
  <2> QED
    BY <2>1 DEF IInv, Tables, Agree
<1>6. TableTypes'
  <2>1. DOMAIN page' = Blocks /\ page' = [b \in Blocks |-> page'[b]]
    BY DEF Published
  <2>2. \A b \in Blocks : page'[b] \in AtlasSlots \cup {Invalid, Zero}
    BY <1>1, <1>2, <1>4 DEF Pages
  <2>3. page' \in Pages
    BY <2>1, <2>2 DEF Pages
  <2> QED
    BY <2>3 DEF IInv, Types, TableTypes
<1>7. JobTypes'
  BY <1>1 DEF IInv, Types, JobTypes
<1>8. QueueTypes' /\ EnvTypes'
  BY SameQueueTypes DEF IInv, Types, EnvTypes, envVars
<1>9. Control'
  BY DEF IInv, Control
<1>10. Agree'
  BY DEF IInv, Tables, Agree
<1>11. MappedIsResident'
  BY <1>3, <1>4, <1>5 DEF IInv, Tables, MappedIsResident
<1>12. BatchOwned'
  BY DEF BatchOwned
<1>13. CoarseStays'
  <2>1. ASSUME NEW b \in Coarse \ Air
        PROVE  page'[b] \in AtlasSlots
    BY <1>2, <1>3, <1>4, <2>1 DEF IInv, Tables, CoarseStays
  <2> QED
    BY <2>1 DEF IInv, Tables, CoarseStays
<1>14. ASSUME NEW b \in air
       PROVE  slotOf[b] = NoId /\ (b \in Coarse \cup Gone \/ page'[b] = Zero)
  <2>1. b \in Blocks
    BY DEF IInv, Types, TableTypes
  <2>2. slotOf[b] = NoId
    BY DEF IInv, Tables, AirKnown
  <2>3. ASSUME ~failed, b \notin Air, page'[b] \in DOMAIN sel, sel[page'[b]] = b
        PROVE  FALSE
    <3>1. slotOf[b] = page'[b] /\ page'[b] \in AtlasSlots
      BY <1>5, <2>1, <2>3
    <3> QED
      BY <1>3, <2>2, <3>1
  <2>4. page'[b] = Zero \/ (page'[b] = page[b] /\ (failed \/ b \notin Range(sel)))
    BY <1>4, <2>1, <2>3
  <2> QED
    BY <2>2, <2>4 DEF IInv, Tables, AirKnown
<1>15. AirKnown'
  BY <1>14 DEF AirKnown
<1>16. ASSUME NEW b \in Blocks, page'[b] \in AtlasSlots
       PROVE  Holds(page'[b], b, Len(gpuQ) + 1)
  <2>1. CASE page'[b] = page[b]
    BY <1>16, <2>1 DEF IInv, Queue, PageHolds
  <2>2. CASE ~failed /\ page'[b] \in DOMAIN sel /\ sel[page'[b]] = b
    BY <2>2 DEF IInv, Queue, BatchHolds
  <2> QED
    BY <1>3, <1>4, <1>16, <2>1, <2>2
<1>17. Queue'
  <2>1. Staged' /\ FramesHold'
    BY DEF IInv, Queue, Staged, FramesHold, Holds, Writers, Pending, gpuVars
  <2>2. PageHolds'
    BY <1>16 DEF PageHolds, Holds, Writers, Pending, gpuVars
  <2>3. step # "finish"
    BY DEF IInv, Control
  <2>4. BatchHolds'
    BY <2>3 DEF BatchHolds
  <2> QED
    BY <2>1, <2>2, <2>4 DEF Queue
<1> QED
  BY <1>6, <1>7, <1>8, <1>9, <1>10, <1>11, <1>12, <1>13, <1>15, <1>17 DEF IInv, Types, Tables

LEMMA FlushStep == ASSUME StreamAssumption, IInv, Flush PROVE IInv'
BY PublishStep DEF Flush

LEMMA BeginStep == ASSUME StreamAssumption, IInv, Begin PROVE IInv'
<1>1. UNCHANGED <<slotBrick, slotOf, air, seam, sel, failed, step, stage, gpuVars, envVars, fails>>
  BY DEF Begin
<1>2. CASE state = 3 /\ page' = Published /\ state' = 0 /\ rpc' = "open"
  BY <1>1, <1>2, PublishStep
<1>3. CASE page' = page /\ state' = state /\ (rpc' = "frame" \/ (rpc' = "open" /\ state = 0))
  <2>1. JobTypes' /\ Control'
    BY <1>1, <1>3 DEF IInv, Types, JobTypes, Control
  <2>2. EnvTypes'
    BY <1>1 DEF IInv, Types, EnvTypes, envVars
  <2> QED
    BY <1>1, <1>3, <2>1, <2>2, QuietStep DEF cpuVars
<1>4. \/ state \in {1, 2} /\ rpc' = "frame" /\ page' = page /\ state' = state
      \/ state = 0 /\ rpc' = "open" /\ page' = page /\ state' = 0
      \/ state = 3 /\ rpc' = "open" /\ page' = Published /\ state' = 0
  BY DEF Begin
<1>5. CASE state \in {1, 2} /\ rpc' = "frame" /\ page' = page /\ state' = state
  BY <1>3, <1>5
<1>6. CASE state = 0 /\ rpc' = "open" /\ page' = page /\ state' = 0
  BY <1>3, <1>6
<1> QED
  BY <1>2, <1>4, <1>5, <1>6

\* The batch of a submission: fresh slots for blocks without one, none of them of
\* the coarsest level, and slots whose seams are filtered again.
LEMMA SubmitBatch ==
  ASSUME StreamAssumption, IInv, NEW load \in Loads, NEW repair \in Repairs(load)
  PROVE  /\ DOMAIN load \subseteq AtlasSlots
         /\ \A s \in DOMAIN load : /\ load[s] \in Blocks \ (Coarse \cup air)
                                   /\ slotOf[load[s]] = NoId
                                   /\ slotBrick[s] \notin Coarse
         /\ \A s, t \in DOMAIN load : load[s] = load[t] => s = t
         /\ repair \subseteq AtlasSlots \ DOMAIN load
         /\ \A s \in repair : slotBrick[s] \in Blocks \ Coarse
<1>1. PICK S \in kSubset(Room, Victims) : load \in Injection(S, Loadable)
  BY DEF Loads
<1>2. S \subseteq Victims /\ load \in [S -> Loadable]
      /\ \A s, t \in S : load[s] = load[t] => s = t
  BY <1>1 DEF kSubset, Injection, IsInjective
<1>3. /\ Coarse \subseteq Blocks /\ NoId \notin AtlasSlots \cup Blocks
      /\ \A v \in Views : v \subseteq Blocks
  BY DEF StreamAssumption
<1>4. view \subseteq Blocks
  BY <1>3 DEF IInv, Types, EnvTypes
<1>5. ASSUME NEW b \in Loadable
      PROVE  b \in Blocks \ (Coarse \cup air) /\ slotOf[b] = NoId
  <2>1. b \in Blocks \ air /\ slotOf[b] = NoId
    BY <1>4 DEF Loadable, Wanted
  <2>2. b \notin Coarse
    <3>1. CASE b \in Coarse \cap Air
      BY <2>1, <3>1 DEF IInv, Tables, CoarseStays
    <3>2. CASE b \in Coarse \ Air
      <4>1. page[b] \in AtlasSlots
        BY <3>2 DEF IInv, Tables, CoarseStays
      <4>2. slotOf[b] = page[b]
        BY <2>1, <4>1 DEF IInv, Tables, MappedIsResident
      <4> QED
        BY <1>3, <2>1, <4>1, <4>2
    <3> QED
      BY <3>1, <3>2
  <2> QED
    BY <2>1, <2>2
<1>6. \A s \in Victims : s \in AtlasSlots /\ slotBrick[s] \notin Coarse
  BY <1>3 DEF Victims
<1>7. PICK free : /\ free = {s \in seam \ DOMAIN load : slotBrick[s] # NoId}
                  /\ repair \subseteq free
  BY DEF Repairs, kSubset
<1>8. \A s \in repair : /\ s \in AtlasSlots \ DOMAIN load
                        /\ slotBrick[s] \in Blocks \ Coarse
  BY <1>7 DEF IInv, Types, TableTypes, Tables, CoarseStays
<1> QED
  BY <1>2, <1>5, <1>6, <1>8

LEMMA SubmitStep == ASSUME StreamAssumption, IInv, Submit PROVE IInv'
<1>1. PICK load \in Loads, zeros \in ZeroSets, raced \in SUBSET (Unfetched \cap Gone) :
        \E repair \in Repairs(load) :
          LET evicted == {slotBrick[s] : s \in DOMAIN load \cup repair}
              batch   == [s \in DOMAIN load \cup repair |->
                            IF s \in repair THEN slotBrick[s] ELSE load[s]]
          IN
          /\ slotBrick' = [s \in AtlasSlots |-> IF s \in DOMAIN load THEN load[s] ELSE slotBrick[s]]
          /\ slotOf' = SlotOfAfter(load)
          /\ page' = [b \in Blocks |-> IF b \in evicted THEN Invalid
                                       ELSE IF b \in zeros THEN Zero ELSE page[b]]
          /\ air' = air \cup zeros \cup raced
          /\ tier' = [b \in Blocks |-> IF b \in raced THEN "absent" ELSE tier[b]]
          /\ IF DOMAIN batch = {} THEN UNCHANGED <<state, sel, failed>>
             ELSE state' = 1 /\ sel' = batch /\ failed' = FALSE
  BY DEF Submit
<1> PICK repair \in Repairs(load) :
          LET evicted == {slotBrick[s] : s \in DOMAIN load \cup repair}
              batch   == [s \in DOMAIN load \cup repair |->
                            IF s \in repair THEN slotBrick[s] ELSE load[s]]
          IN
          /\ slotBrick' = [s \in AtlasSlots |-> IF s \in DOMAIN load THEN load[s] ELSE slotBrick[s]]
          /\ slotOf' = SlotOfAfter(load)
          /\ page' = [b \in Blocks |-> IF b \in evicted THEN Invalid
                                       ELSE IF b \in zeros THEN Zero ELSE page[b]]
          /\ air' = air \cup zeros \cup raced
          /\ tier' = [b \in Blocks |-> IF b \in raced THEN "absent" ELSE tier[b]]
          /\ IF DOMAIN batch = {} THEN UNCHANGED <<state, sel, failed>>
             ELSE state' = 1 /\ sel' = batch /\ failed' = FALSE
  BY <1>1
<1> DEFINE evicted == {slotBrick[s] : s \in DOMAIN load \cup repair}
           batch   == [s \in DOMAIN load \cup repair |->
                         IF s \in repair THEN slotBrick[s] ELSE load[s]]
<1>2. /\ slotBrick' = [s \in AtlasSlots |-> IF s \in DOMAIN load THEN load[s] ELSE slotBrick[s]]
      /\ slotOf' = SlotOfAfter(load)
      /\ page' = [b \in Blocks |-> IF b \in evicted THEN Invalid
                                   ELSE IF b \in zeros THEN Zero ELSE page[b]]
      /\ air' = air \cup zeros \cup raced
      /\ tier' = [b \in Blocks |-> IF b \in raced THEN "absent" ELSE tier[b]]
      /\ IF DOMAIN batch = {} THEN UNCHANGED <<state, sel, failed>>
         ELSE state' = 1 /\ sel' = batch /\ failed' = FALSE
  OBVIOUS
<1>3. /\ rpc = "open" /\ rpc' = "frame"
      /\ UNCHANGED <<seam, step, stage, gpuVars, view, moves, fails>>
  BY DEF Submit
<1>4. /\ DOMAIN load \subseteq AtlasSlots
      /\ \A s \in DOMAIN load : /\ load[s] \in Blocks \ (Coarse \cup air)
                                /\ slotOf[load[s]] = NoId
                                /\ slotBrick[s] \notin Coarse
      /\ \A s, t \in DOMAIN load : load[s] = load[t] => s = t
      /\ repair \subseteq AtlasSlots \ DOMAIN load
      /\ \A s \in repair : slotBrick[s] \in Blocks \ Coarse
  BY SubmitBatch
<1>5. /\ Coarse \subseteq Blocks
      /\ Invalid # Zero /\ {Invalid, Zero, NoId} \cap (AtlasSlots \cup Blocks) = {}
      /\ \A v \in Views : v \subseteq Blocks
  BY DEF StreamAssumption
<1>6. state = 0 /\ step = "idle"
  BY <1>3 DEF IInv, Control, Types, JobTypes
<1>7. ASSUME NEW b \in zeros \cup raced
      PROVE  b \in Blocks /\ slotOf[b] = NoId /\ (b \in zeros \/ b \in Gone)
  <2>1. zeros \subseteq KnownZero
    BY DEF ZeroSets
  <2>2. b \in Wanted
    BY <2>1 DEF KnownZero, Unfetched
  <2> QED
    BY <1>5, <2>2 DEF Wanted, IInv, Types, EnvTypes
<1>8. /\ \A s \in AtlasSlots : slotBrick'[s] = IF s \in DOMAIN load THEN load[s] ELSE slotBrick[s]
      /\ \A b \in Blocks : page'[b] = IF b \in evicted THEN Invalid
                                      ELSE IF b \in zeros THEN Zero ELSE page[b]
  BY <1>2
<1>9. ASSUME NEW b \in Blocks
      PROVE  \/ b \in Range(load) /\ slotOf'[b] \in DOMAIN load /\ load[slotOf'[b]] = b
             \/ b \notin Range(load) /\ b \in {slotBrick[s] : s \in DOMAIN load} /\ slotOf'[b] = NoId
             \/ /\ b \notin Range(load) /\ b \notin {slotBrick[s] : s \in DOMAIN load}
                /\ slotOf'[b] = slotOf[b]
  <2>1. CASE b \in Range(load)
    <3>1. \E s \in DOMAIN load : load[s] = b
      BY <2>1 DEF Range
    <3>2. slotOf'[b] = CHOOSE s \in DOMAIN load : load[s] = b
      BY <1>2, <2>1 DEF SlotOfAfter
    <3> QED
      BY <2>1, <3>1, <3>2
  <2>2. CASE b \notin Range(load)
    BY <1>2, <2>2 DEF SlotOfAfter
  <2> QED
    BY <2>1, <2>2
<1>10. ASSUME NEW b \in Blocks, page'[b] \in AtlasSlots
       PROVE  page'[b] = page[b] /\ b \notin evicted
  BY <1>5, <1>8, <1>10
<1>11. \A s \in DOMAIN batch : s \in AtlasSlots /\ batch[s] \in Blocks \ Coarse
  BY <1>2, <1>4
<1>12. \A s \in DOMAIN batch : slotBrick'[s] = batch[s]
  BY <1>2, <1>4, <1>8
<1>13. TableTypes'
  <2>1. slotBrick' \in [AtlasSlots -> Blocks \cup {NoId}]
    BY <1>2, <1>4 DEF IInv, Types, TableTypes
  <2>2. slotOf' \in [Blocks -> AtlasSlots \cup {NoId}]
    <3>1. \A b \in Blocks : slotOf'[b] \in AtlasSlots \cup {NoId}
      BY <1>4, <1>9 DEF IInv, Types, TableTypes
    <3>2. slotOf' = [b \in Blocks |-> slotOf'[b]]
      BY <1>2 DEF SlotOfAfter
    <3> QED
      BY <3>1, <3>2
  <2>3. page' \in Pages
    BY <1>2 DEF IInv, Types, TableTypes, Pages
  <2>4. air' \subseteq Blocks
    BY <1>2, <1>7 DEF IInv, Types, TableTypes
  <2> QED
    BY <1>3, <2>1, <2>2, <2>3, <2>4 DEF IInv, Types, TableTypes
<1>14. JobTypes'
  <2>1. batch \in Batches
    <3>1. DOMAIN batch \in SUBSET AtlasSlots /\ batch \in [DOMAIN batch -> Blocks]
      BY <1>2, <1>11
    <3> QED
      BY <3>1 DEF Batches
  <2>2. \/ UNCHANGED <<state, sel, failed>>
        \/ state' = 1 /\ sel' = batch /\ failed' = FALSE
    BY <1>2
  <2> HIDE DEF batch
  <2>3. sel' \in Batches /\ state' \in 0..3
    BY <2>1, <2>2 DEF IInv, Types, JobTypes
  <2>4. failed' \in BOOLEAN
    BY <2>2 DEF IInv, Types, JobTypes
  <2> QED
    BY <1>3, <2>3, <2>4 DEF IInv, Types, JobTypes
<1>15. QueueTypes'
  BY <1>3, SameQueueTypes DEF IInv, Types
<1>16. EnvTypes'
  BY <1>2, <1>3 DEF IInv, Types, EnvTypes
<1>17. Control'
  BY <1>2, <1>3, <1>6 DEF Control
<1>18. ASSUME NEW b \in Blocks, NEW s \in AtlasSlots
       PROVE  slotOf'[b] = s <=> slotBrick'[s] = b
  <2>1. /\ \A t \in AtlasSlots : slotOf[b] = t <=> slotBrick[t] = b
        /\ \A c \in Blocks : slotOf[c] = s <=> slotBrick[s] = c
    BY DEF IInv, Tables, Agree
  <2>2. CASE s \in DOMAIN load
    <3>1. slotBrick'[s] = load[s]
      BY <1>8, <2>2
    <3>2. load[s] = b => slotOf'[b] = s
      <4>1. load[s] = b => b \in Range(load)
        BY <2>2 DEF Range
      <4> QED
        BY <1>4, <1>9, <2>2, <4>1
    <3>3. slotOf'[b] = s => load[s] = b
      BY <1>5, <1>9, <2>1, <2>2
    <3> QED
      BY <3>1, <3>2, <3>3
  <2>3. CASE s \notin DOMAIN load
    <3>1. slotBrick'[s] = slotBrick[s]
      BY <1>8, <2>3
    <3>2. slotOf'[b] = s => slotOf[b] = s
      BY <1>5, <1>9, <2>3
    <3>3. slotBrick[s] = b => slotOf'[b] = s
      <4>1. SUFFICES ASSUME slotBrick[s] = b
                     PROVE  slotOf'[b] = s
        OBVIOUS
      <4>2. slotOf[b] = s
        BY <2>1, <4>1
      <4>3. b \notin Range(load)
        BY <1>4, <1>5, <4>2 DEF Range
      <4>4. b \notin {slotBrick[t] : t \in DOMAIN load}
        BY <1>4, <2>1, <2>3, <4>2
      <4> QED
        BY <1>9, <4>2, <4>3, <4>4
    <3> QED
      BY <2>1, <3>1, <3>2, <3>3
  <2> QED
    BY <2>2, <2>3
<1>19. ASSUME NEW b \in Blocks, page'[b] \in AtlasSlots
       PROVE  slotOf'[b] = page'[b] /\ slotBrick'[page'[b]] = b /\ page'[b] \notin DOMAIN batch
  <2>1. page'[b] = page[b] /\ b \notin evicted
    BY <1>10, <1>19
  <2>2. slotBrick[page[b]] = b
    BY <1>19, <2>1 DEF IInv, Tables, MappedIsResident
  <2>3. page[b] \notin DOMAIN load \cup repair
    BY <1>2, <2>1, <2>2
  <2>4. slotBrick'[page'[b]] = b
    BY <1>8, <1>19, <2>1, <2>2, <2>3
  <2> QED
    BY <1>2, <1>18, <1>19, <2>1, <2>3, <2>4
<1>20. MappedIsResident' /\ Agree'
  BY <1>18, <1>19 DEF MappedIsResident, Agree
<1>21. BatchOwned'
  <2>1. CASE state' = 0
    BY <2>1 DEF BatchOwned
  <2>2. CASE state' = 1 /\ sel' = batch
    <3>1. \A b \in Blocks : page'[b] \notin DOMAIN batch
      BY <1>11, <1>19
    <3> QED
      BY <1>11, <1>12, <2>2, <3>1 DEF BatchOwned
  <2> QED
    BY <1>2, <1>6, <2>1, <2>2
<1>22. CoarseStays'
  <2>1. \A s \in seam : slotBrick'[s] \notin Coarse
    BY <1>4, <1>8 DEF IInv, Types, TableTypes, Tables, CoarseStays
  <2>2. ASSUME NEW b \in Coarse \ Air
        PROVE  page'[b] \in AtlasSlots
    <3>1. page[b] \in AtlasSlots /\ b \in Blocks
      BY <1>5 DEF IInv, Tables, CoarseStays
    <3>2. b \notin evicted
      BY <1>2, <1>4
    <3>3. b \notin zeros
      BY <1>5, <1>7, <3>1 DEF IInv, Tables, MappedIsResident
    <3> QED
      BY <1>8, <3>1, <3>2, <3>3
  <2>3. Coarse \cap Air \subseteq air'
    BY <1>2 DEF IInv, Tables, CoarseStays
  <2> QED
    BY <1>3, <2>1, <2>2, <2>3 DEF CoarseStays
<1>23. ASSUME NEW b \in air'
       PROVE  slotOf'[b] = NoId /\ (b \in Coarse \cup Gone \/ page'[b] = Zero)
  <2>1. b \in Blocks /\ slotOf[b] = NoId /\ (b \in zeros \/ b \in Gone \/ b \in air)
    BY <1>2, <1>7 DEF IInv, Types, TableTypes, Tables, AirKnown
  <2>2. b \notin evicted
    <3>1. \A s \in AtlasSlots : slotBrick[s] # b
      BY <1>5, <2>1 DEF IInv, Tables, Agree
    <3> QED
      BY <1>2, <1>4, <3>1
  <2>3. b \notin Range(load)
    <3>1. CASE b \in air
      BY <1>4, <3>1 DEF Range
    <3>2. CASE b \in zeros \cup raced
      <4>1. ASSUME NEW s \in DOMAIN load, load[s] = b
            PROVE  FALSE
        <5>1. b \in Loadable
          BY <1>4, <4>1 DEF Loads, Injection, kSubset
        <5>2. b \in KnownZero \cup Unfetched
          BY <3>2 DEF ZeroSets
        <5> QED
          BY <5>1, <5>2 DEF Loadable, KnownZero, Unfetched
      <4> QED
        BY <4>1 DEF Range
    <3> QED
      BY <1>2, <3>1, <3>2
  <2>4. slotOf'[b] = NoId
    BY <1>9, <2>1, <2>3
  <2>5. page'[b] = IF b \in zeros THEN Zero ELSE page[b]
    BY <1>8, <2>1, <2>2
  <2> QED
    BY <1>6, <2>1, <2>4, <2>5 DEF IInv, Tables, AirKnown
<1>24. AirKnown'
  BY <1>23 DEF AirKnown
<1>25. ASSUME NEW b \in Blocks, page'[b] \in AtlasSlots
       PROVE  Holds(page'[b], b, Len(gpuQ) + 1)
  BY <1>10, <1>25 DEF IInv, Queue, PageHolds
<1>26. Queue'
  <2>1. Staged' /\ FramesHold'
    BY <1>3 DEF IInv, Queue, Staged, FramesHold, Holds, Writers, Pending, gpuVars
  <2>2. PageHolds'
    BY <1>3, <1>25 DEF PageHolds, Holds, Writers, Pending, gpuVars
  <2>3. BatchHolds'
    BY <1>2, <1>3, <1>6 DEF BatchHolds
  <2> QED
    BY <2>1, <2>2, <2>3 DEF Queue
<1> QED
  BY <1>13, <1>14, <1>15, <1>16, <1>17, <1>20, <1>21, <1>22, <1>24, <1>26 DEF IInv, Types, Tables

-----------------------------------------------------------------------------
(* The theorems.                                                           *)

\* Every step of the render thread, of the worker, of the GPU and of the world
\* outside keeps the invariant.
THEOREM StepInv == ASSUME StreamAssumption, IInv, [StreamNext]_streamVars PROVE IInv'
BY BeginStep, SubmitStep, FrameStep, FlushStep, SkipFrameStep, TakeStep, DecodeBatchStep,
   StageBatchStep, FinishBatchStep, ExecuteStep, MoveStep, ArriveStep, ForgetStep, StutterStep
DEF StreamNext, RenderLoop, Worker

LEMMA InvHolds == ASSUME StreamAssumption PROVE StreamSpec => []IInv
<1>1. StreamInit => IInv
  BY InitInv
<1>2. IInv /\ [StreamNext]_streamVars => IInv'
  BY StepInv
<1> QED
  BY <1>1, <1>2, PTL DEF StreamSpec

\* What the invariant says of the frame the GPU is about to execute: no upload
\* comes before it, so that its slots hold their blocks now.
LEMMA HeadHolds == ASSUME IInv PROVE FrameSamplesItsBlocks
<1> SUFFICES ASSUME gpuQ # <<>>, Head(gpuQ).op = "frame",
                    NEW b \in Blocks, Head(gpuQ).page[b] \in AtlasSlots
             PROVE  atlas[Head(gpuQ).page[b]] = b
  BY DEF FrameSamplesItsBlocks
<1>1. gpuQ \in Seq(Ops)
  BY DEF IInv, Types, QueueTypes
<1>2. Len(gpuQ) \in Nat \ {0} /\ DOMAIN gpuQ = 1..Len(gpuQ)
  BY <1>1, EmptySeq, LenProperties
<1>3. Head(gpuQ) = gpuQ[1] /\ 1 \in DOMAIN gpuQ
  BY <1>2
<1>4. Holds(gpuQ[1].page[b], b, 1)
  BY <1>3 DEF IInv, Queue, FramesHold, Pending
<1>5. Writers(gpuQ[1].page[b], 1) = {}
  BY <1>2 DEF Writers, Pending
<1> QED
  BY <1>3, <1>4, <1>5 DEF Holds

\* A frame never follows a page entry into a slot that holds other voxels.
THEOREM SamplesRight == ASSUME StreamAssumption PROVE StreamSpec => []FrameSamplesItsBlocks
<1>1. IInv => FrameSamplesItsBlocks
  BY HeadHolds
<1> QED
  BY <1>1, InvHolds, PTL

\* The page shadow, slot_brick and the state map agree on who is in which slot,
\* and every table keeps its type.
THEOREM ResidencyAgrees == ASSUME StreamAssumption PROVE StreamSpec => []TablesAgree
<1>1. IInv => StreamTypeOK
  BY TypesTypeOK DEF IInv
<1>2. IInv => TablesAgree
  BY <1>1 DEF IInv, Tables, Agree, TablesAgree
<1> QED
  BY <1>2, InvHolds, PTL

\* The shadow and every frame in the queue map the coarsest level; what decoded
\* as air, or is marked zero, is shown as air.
THEOREM AirIsShown == ASSUME StreamAssumption PROVE StreamSpec => []DecodedAirShown
<1>1. IInv => CoarseMapped
  BY DEF IInv, Tables, CoarseStays, Queue, FramesHold, CoarseMapped
<1>2. IInv => DecodedAirShown
  BY <1>1 DEF IInv, Tables, AirKnown, DecodedAirShown
<1> QED
  BY <1>2, InvHolds, PTL

-----------------------------------------------------------------------------
(* Streaming uses the page table as PageMap lets it.                       *)

\* What the mapping of the steps needs beyond IInv: zero entries are known air,
\* what a finished batch decoded as air is known, and of the frames in the queue
\* one is the last.
ZeroIsAir   == \A b \in Blocks : page[b] = Zero => b \in air
FinishedAir == state = 3 /\ ~failed => Range(sel) \cap Air \subseteq air
NewestKnown ==
  Pending("frame") # {} => \E m \in Pending("frame") : \A i \in Pending("frame") : m >= i
MapInv == IInv /\ ZeroIsAir /\ FinishedAir /\ NewestKnown

\* A step as one block sees it.
Untouched(b) == slotOf'[b] = slotOf[b] /\ page'[b] = page[b]
Loaded(b)    == slotOf[b] = NoId /\ slotOf'[b] \in AtlasSlots /\ page'[b] = page[b]
Evicted(b)   == slotOf[b] # NoId /\ slotOf'[b] = NoId /\ page'[b] = Invalid
Unmapped(b)  == slotOf[b] # NoId /\ slotOf'[b] = slotOf[b] /\ page'[b] = Invalid
Shows(b)     == slotOf[b] # NoId /\ slotOf'[b] = slotOf[b] /\ page'[b] = slotOf[b]
ShowsAir(b)  == slotOf'[b] = NoId /\ page'[b] = Zero

\* Any of these is an action of PageMap, and so is recording the table.
LEMMA EntryStep ==
  ASSUME NEW b \in Blocks, Newest' = Newest,
         \/ Untouched(b) \/ Loaded(b) \/ Evicted(b) \/ Unmapped(b) \/ Shows(b) \/ ShowsAir(b)
  PROVE  UNCHANGED Table(b)!absVars \/ Table(b)!Next
<1>1. CASE Untouched(b)
  <2>1. UNCHANGED Table(b)!absVars
    BY <1>1 DEF Untouched, Table!absVars
  <2> QED
    BY <2>1
<1>2. CASE Loaded(b)
  <2>1. PICK s \in AtlasSlots : slotOf'[b] = s
    BY <1>2 DEF Loaded
  <2>2. Table(b)!Load(b, s)
    BY <1>2, <2>1 DEF Loaded, Table!Load, Table!Give
  <2> QED
    BY <2>2 DEF Table!Next
<1>3. CASE Evicted(b)
  <2>1. Table(b)!Evict(b)
    BY <1>3 DEF Evicted, Table!Evict, Table!Give
  <2> QED
    BY <2>1 DEF Table!Next
<1>4. CASE Unmapped(b)
  <2>1. Table(b)!Unmap(b)
    BY <1>4 DEF Unmapped, Table!Unmap, Table!Give
  <2> QED
    BY <2>1 DEF Table!Next
<1>5. CASE Shows(b)
  <2>1. Table(b)!Publish(b)
    BY <1>5 DEF Shows, Table!Publish, Table!Give
  <2> QED
    BY <2>1 DEF Table!Next
<1>6. CASE ShowsAir(b)
  <2>1. Table(b)!ShowAir(b)
    BY <1>6 DEF ShowsAir, Table!ShowAir, Table!Give
  <2> QED
    BY <2>1 DEF Table!Next
<1> QED
  BY <1>1, <1>2, <1>3, <1>4, <1>5, <1>6

LEMMA RecordStep ==
  ASSUME NEW b \in Blocks, Untouched(b), Newest'[b] = page[b]
  PROVE  Table(b)!Next
<1>1. Table(b)!Record
  BY DEF Untouched, Table!Record
<1> QED
  BY <1>1 DEF Table!Next

-----------------------------------------------------------------------------
(* The newest frame.                                                       *)

LEMMA MaxIs ==
  ASSUME NEW S \in SUBSET Nat, NEW m \in S, \A i \in S : m >= i
  PROVE  Max(S) = m
<1>1. \E x \in S : \A y \in S : x >= y
  OBVIOUS
<1>2. Max(S) \in S /\ \A y \in S : Max(S) >= y
  BY <1>1 DEF Max
<1>3. Max(S) >= m /\ m >= Max(S) /\ m \in Nat /\ Max(S) \in Nat
  BY <1>2
<1> QED
  BY <1>3

LEMMA NewestIs ==
  ASSUME gpuQ \in Seq(Ops)
  PROVE  /\ Pending("frame") = {} => Newest = gpuPage
         /\ \A m \in Pending("frame") :
              (\A i \in Pending("frame") : m >= i) => Newest = gpuQ[m].page
<1>1. Pending("frame") \in SUBSET Nat
  BY LenProperties DEF Pending
<1>2. ASSUME NEW m \in Pending("frame"), \A i \in Pending("frame") : m >= i
      PROVE  Newest = gpuQ[m].page
  <2>1. Max(Pending("frame")) = m
    BY <1>1, <1>2, MaxIs
  <2> QED
    BY <2>1 DEF Newest
<1> QED
  BY <1>2 DEF Newest

\* What is not a frame leaves the newest frame as it is.
LEMMA SameNewest ==
  ASSUME UNCHANGED <<gpuQ, gpuPage>>
  PROVE  Newest' = Newest /\ Pending("frame")' = Pending("frame")
BY DEF Newest, Pending

\* A frame that is submitted is the newest.
LEMMA NewestOfFrame ==
  ASSUME IInv, Frame
  PROVE  Newest' = page /\ NewestKnown'
<1>1. gpuQ' = Append(gpuQ, FrameOp(page)) /\ page \in Pages /\ gpuQ \in Seq(Ops)
  BY DEF Frame, IInv, Types, TableTypes, QueueTypes
<1>2. PICK x \in Ops : x = [op |-> "frame", page |-> page] /\ gpuQ' = Append(gpuQ, x)
  BY <1>1 DEF FrameOp, Ops
<1>3. PICK n \in Nat : n = Len(gpuQ)
  BY <1>1, LenProperties
<1>4. gpuQ'[n + 1] = x /\ DOMAIN gpuQ = 1..n /\ DOMAIN gpuQ' = 1..n + 1
  BY <1>1, <1>2, <1>3, AppendQueue
<1>5. n + 1 \in Pending("frame")' /\ \A i \in Pending("frame")' : n + 1 >= i
  BY <1>2, <1>4 DEF Pending
<1>6. Pending("frame")' \in SUBSET Nat
  BY <1>4 DEF Pending
<1>7. Max(Pending("frame")') = n + 1
  BY <1>5, <1>6, MaxIs
<1> QED
  BY <1>2, <1>4, <1>5, <1>7 DEF Newest, NewestKnown

\* An upload that is submitted leaves the newest frame where it is in the queue.
LEMMA NewestOfUpload ==
  ASSUME IInv, NewestKnown, StageBatch
  PROVE  Newest' = Newest /\ NewestKnown'
<1>1. gpuPage' = gpuPage /\ gpuQ \in Seq(Ops) /\ sel \in Batches
  BY DEF StageBatch, IInv, Types, JobTypes, QueueTypes
<1>2. CASE UNCHANGED gpuQ
  BY <1>1, <1>2, SameNewest DEF NewestKnown
<1>3. CASE gpuQ' = Append(gpuQ, Upload(sel))
  <2>1. PICK x \in Ops : x = [op |-> "upload", batch |-> sel] /\ gpuQ' = Append(gpuQ, x)
    BY <1>1, <1>3 DEF Upload, Ops
  <2>2. /\ DOMAIN gpuQ = 1..Len(gpuQ)
        /\ \A i \in 1..Len(gpuQ) : gpuQ'[i] = gpuQ[i]
    BY <1>1, <2>1, AppendQueue
  <2>3. Pending("frame")' = Pending("frame")
    BY <1>1, <2>1, PendingAppend
  <2>4. CASE Pending("frame") = {}
    BY <1>1, <2>3, <2>4 DEF Newest, NewestKnown
  <2>5. CASE Pending("frame") # {}
    <3>1. PICK m \in Pending("frame") : \A i \in Pending("frame") : m >= i
      BY <2>5 DEF NewestKnown
    <3>2. Max(Pending("frame")) = m
      BY <1>1, <2>2, <3>1, MaxIs DEF Pending
    <3>3. gpuQ'[m] = gpuQ[m]
      BY <2>2, <3>1 DEF Pending
    <3> QED
      BY <2>3, <2>5, <3>1, <3>2, <3>3 DEF Newest, NewestKnown
  <2> QED
    BY <2>4, <2>5
<1> QED
  BY <1>2, <1>3 DEF StageBatch

\* When the newest frame has executed, the device has its table.
LEMMA NewestOfExecute ==
  ASSUME IInv, NewestKnown, Execute
  PROVE  Newest' = Newest /\ NewestKnown'
<1>1. gpuQ # <<>> /\ gpuQ' = Tail(gpuQ)
  BY DEF Execute
<1> gpuQ \in Seq(Ops)
  BY SMTT(30) DEF IInv, Types, QueueTypes
<1>2. PICK n \in Nat \ {0} : n = Len(gpuQ)
  BY <1>1, TailQueue
<1>3. /\ Head(gpuQ) = gpuQ[1] /\ DOMAIN gpuQ = 1..n /\ DOMAIN gpuQ' = 1..n - 1
      /\ \A i \in 1..n - 1 : gpuQ'[i] = gpuQ[i + 1]
  BY <1>1, <1>2, TailQueue
<1>4. /\ Head(gpuQ).op = "frame" => gpuPage' = Head(gpuQ).page
      /\ Head(gpuQ).op # "frame" => gpuPage' = gpuPage
  BY DEF Execute
<1>5. \A i : i \in Pending("frame")' <=> i \in 1..n - 1 /\ i + 1 \in Pending("frame")
  BY <1>1, <1>2, PendingTail
<1>6. CASE Pending("frame") = {}
  <2>1. Pending("frame")' = {}
    BY <1>5, <1>6
  <2>2. Head(gpuQ).op # "frame"
    BY <1>3, <1>6 DEF Pending
  <2> QED
    BY <1>4, <1>6, <2>1, <2>2 DEF Newest, NewestKnown
<1>7. CASE Pending("frame") # {}
  <2>1. PICK m \in Pending("frame") : \A i \in Pending("frame") : m >= i
    BY <1>7 DEF NewestKnown
  <2>2. m \in 1..n /\ gpuQ[m].op = "frame"
    BY <1>3, <2>1 DEF Pending
  <2>3. Newest = gpuQ[m].page
    BY <1>1, <2>1, NewestIs
  <2>4. CASE m = 1
    <3>1. Pending("frame")' = {}
      BY <1>2, <1>5, <2>1, <2>4
    <3>2. Newest' = gpuPage'
      BY <3>1 DEF Newest
    <3> QED
      BY <1>3, <1>4, <2>2, <2>3, <2>4, <3>1, <3>2 DEF NewestKnown
  <2>5. CASE m # 1
    <3>1. m - 1 \in 1..n - 1 /\ (m - 1) + 1 = m
      BY <2>2, <2>5
    <3>2. m - 1 \in Pending("frame")'
      BY <1>5, <2>1, <3>1
    <3>3. \A i \in Pending("frame")' : i \in Nat /\ m - 1 >= i
      BY <1>5, <2>1, <2>2
    <3>4. Max(Pending("frame")') = m - 1
      BY <3>2, <3>3, MaxIs
    <3>5. gpuQ'[m - 1] = gpuQ[m]
      BY <1>3, <3>1
    <3>6. Newest' = gpuQ[m].page
      BY <3>2, <3>4, <3>5 DEF Newest
    <3> QED
      BY <2>3, <3>2, <3>3, <3>6 DEF NewestKnown
  <2> QED
    BY <2>4, <2>5
<1> QED
  BY <1>6, <1>7

-----------------------------------------------------------------------------
(* The steps that write the tables.                                        *)

\* Publishing maps a block to the slot it has, or shows it as air, which has
\* none.
LEMMA PublishUses ==
  ASSUME StreamAssumption, MapInv, state = 3, page' = Published, slotOf' = slotOf, air' = air,
         NEW b \in Blocks
  PROVE  /\ Untouched(b) \/ Shows(b) \/ ShowsAir(b)
         /\ page'[b] = Zero => b \in air'
<1>1. \/ Published[b] = page[b]
      \/ ~failed /\ b \in Range(sel) \cap Air /\ Published[b] = Zero
      \/ /\ ~failed /\ b \notin Air
         /\ Published[b] \in DOMAIN sel /\ sel[Published[b]] = b
  BY PublishedEntry DEF MapInv
<1>2. Invalid # Zero /\ NoId \notin AtlasSlots \cup Blocks /\ Zero \notin AtlasSlots
  BY DEF StreamAssumption
<1>3. CASE Published[b] = page[b]
  BY <1>3 DEF Untouched, MapInv, ZeroIsAir
<1>4. CASE ~failed /\ b \in Range(sel) \cap Air /\ Published[b] = Zero
  <2>1. b \in air
    BY <1>4 DEF MapInv, FinishedAir
  <2>2. slotOf[b] = NoId
    BY <2>1 DEF MapInv, IInv, Tables, AirKnown
  <2> QED
    BY <1>4, <2>1, <2>2 DEF ShowsAir
<1>5. CASE ~failed /\ b \notin Air /\ Published[b] \in DOMAIN sel /\ sel[Published[b]] = b
  <2>1. PICK s \in DOMAIN sel : s = Published[b] /\ sel[s] = b
    BY <1>5
  <2>2. s \in AtlasSlots
    <3>1. sel \in Batches
      BY DEF MapInv, IInv, Types, JobTypes
    <3> QED
      BY <2>1, <3>1, BatchShape
  <2>3. slotBrick[s] = b
    BY <1>5, <2>1 DEF MapInv, IInv, Tables, BatchOwned
  <2>4. slotOf[b] = s
    BY <2>2, <2>3 DEF MapInv, IInv, Tables, Agree
  <2> QED
    BY <1>2, <2>1, <2>2, <2>4 DEF Shows
<1> QED
  BY <1>1, <1>3, <1>4, <1>5

\* A submission loads a block that has no slot, takes one away, unmaps a block
\* whose seam is filtered again, shows air, or leaves the block alone.
LEMMA SubmitUses ==
  ASSUME StreamAssumption, MapInv, Submit, NEW b \in Blocks
  PROVE  /\ Untouched(b) \/ Loaded(b) \/ Evicted(b) \/ Unmapped(b) \/ ShowsAir(b)
         /\ page'[b] = Zero => b \in air'
<1>1. PICK load \in Loads, zeros \in ZeroSets, raced \in SUBSET (Unfetched \cap Gone) :
        \E repair \in Repairs(load) :
          LET evicted == {slotBrick[s] : s \in DOMAIN load \cup repair}
          IN
          /\ slotOf' = SlotOfAfter(load)
          /\ page' = [c \in Blocks |-> IF c \in evicted THEN Invalid
                                       ELSE IF c \in zeros THEN Zero ELSE page[c]]
          /\ air' = air \cup zeros \cup raced
  BY DEF Submit
<1>2. PICK repair \in Repairs(load) :
          LET evicted == {slotBrick[s] : s \in DOMAIN load \cup repair}
          IN
          /\ slotOf' = SlotOfAfter(load)
          /\ page' = [c \in Blocks |-> IF c \in evicted THEN Invalid
                                       ELSE IF c \in zeros THEN Zero ELSE page[c]]
          /\ air' = air \cup zeros \cup raced
  BY <1>1
<1> DEFINE given   == {slotBrick[s] : s \in DOMAIN load}
           evicted == {slotBrick[s] : s \in DOMAIN load \cup repair}
<1>3. /\ slotOf'[b] = IF b \in Range(load) THEN CHOOSE s \in DOMAIN load : load[s] = b
                      ELSE IF b \in given THEN NoId ELSE slotOf[b]
      /\ page'[b] = IF b \in evicted THEN Invalid ELSE IF b \in zeros THEN Zero ELSE page[b]
      /\ air \cup zeros \subseteq air'
  BY <1>2 DEF SlotOfAfter
<1>4. IInv
  BY DEF MapInv
<1>5. /\ DOMAIN load \subseteq AtlasSlots
      /\ \A s \in DOMAIN load : slotOf[load[s]] = NoId
      /\ repair \subseteq AtlasSlots
  BY <1>4, SubmitBatch
<1>6. Invalid # Zero /\ NoId \notin AtlasSlots \cup Blocks
  BY DEF StreamAssumption
<1>7. b \in evicted => slotOf[b] # NoId
  BY <1>4, <1>5, <1>6 DEF IInv, Tables, Agree
<1>8. b \in zeros => slotOf[b] = NoId
  BY DEF ZeroSets, KnownZero, Wanted
<1>9. page[b] = Zero => b \in air
  BY DEF MapInv, ZeroIsAir
<1>10. page'[b] = Zero => b \in air'
  BY <1>3, <1>6, <1>9
<1>11. CASE b \in Range(load)
  <2>1. \E s \in DOMAIN load : load[s] = b
    BY <1>11 DEF Range
  <2>2. slotOf[b] = NoId /\ slotOf'[b] \in AtlasSlots
    BY <1>3, <1>5, <1>11, <2>1
  <2>3. b \notin zeros
    <3>1. b \in Loadable
      BY <2>1 DEF Loads, Injection, kSubset
    <3> QED
      BY <3>1 DEF Loadable, ZeroSets, KnownZero
  <2>4. page'[b] = page[b]
    BY <1>3, <1>7, <2>2, <2>3
  <2> QED
    BY <1>10, <2>2, <2>4 DEF Loaded
<1>12. CASE b \notin Range(load) /\ b \in given
  <2>1. b \in evicted /\ slotOf'[b] = NoId
    BY <1>3, <1>12
  <2> QED
    BY <1>3, <1>7, <1>10, <2>1 DEF Evicted
<1>13. CASE b \notin Range(load) /\ b \notin given
  <2>1. slotOf'[b] = slotOf[b]
    BY <1>3, <1>13
  <2> QED
    BY <1>3, <1>7, <1>8, <1>10, <2>1 DEF Unmapped, ShowsAir, Untouched
<1> QED
  BY <1>11, <1>12, <1>13

\* The end of a batch takes away only slots of blocks that are not mapped.
LEMMA FinishUses ==
  ASSUME StreamAssumption, MapInv, FinishBatch, NEW b \in Blocks
  PROVE  Untouched(b) \/ Evicted(b)
<1>1. /\ step = "finish" /\ page' = page
      /\ slotOf'[b] = IF \E s \in Freed : sel[s] = b THEN NoId ELSE slotOf[b]
  BY DEF FinishBatch
<1>2. CASE \E s \in Freed : sel[s] = b
  <2>1. PICK s \in DOMAIN sel : sel[s] = b
    BY <1>2 DEF Freed
  <2>2. s \in AtlasSlots /\ slotBrick[s] = b /\ page[b] \notin DOMAIN sel
    BY <1>1, <2>1, RunningBatch DEF MapInv
  <2>3. slotOf[b] = s /\ s # NoId
    BY <2>2 DEF MapInv, IInv, Tables, Agree, StreamAssumption
  <2>4. page[b] \notin AtlasSlots
    BY <2>1, <2>2, <2>3 DEF MapInv, IInv, Tables, MappedIsResident
  <2>5. page[b] # Zero
    BY <2>3 DEF MapInv, ZeroIsAir, IInv, Tables, AirKnown
  <2>6. page[b] = Invalid
    BY <2>4, <2>5 DEF MapInv, IInv, Types, TableTypes, Pages
  <2> QED
    BY <1>1, <1>2, <2>3, <2>6 DEF Evicted
<1>3. CASE ~\E s \in Freed : sel[s] = b
  BY <1>1, <1>3 DEF Untouched
<1> QED
  BY <1>2, <1>3

-----------------------------------------------------------------------------
(* The invariant and the theorem.                                          *)

LEMMA MapInit == ASSUME StreamAssumption, StreamInit PROVE MapInv
<1>1. IInv
  BY InitInv
<1>2. Pending("frame") = {}
  BY EmptySeq, LenProperties DEF StreamInit, Pending
<1>3. PICK seed \in Injection(Coarse \ Air, AtlasSlots) :
        page = [b \in Blocks |-> IF b \in Coarse \ Air THEN seed[b] ELSE Invalid]
  BY DEF StreamInit
<1>4. seed \in [Coarse \ Air -> AtlasSlots]
  BY DEF Injection
<1>5. Zero \notin AtlasSlots \cup {Invalid}
  BY DEF StreamAssumption
<1>6. ZeroIsAir
  BY <1>3, <1>4, <1>5 DEF ZeroIsAir
<1> QED
  BY <1>1, <1>2, <1>6 DEF MapInv, FinishedAir, NewestKnown, StreamInit

\* Every step keeps the invariant, and is one of PageMap for each block.
LEMMA MapStep ==
  ASSUME StreamAssumption, MapInv, StreamNext
  PROVE  PageMapStep /\ MapInv'
<1>1. IInv'
  BY StepInv DEF MapInv
<1>2. ASSUME page' = Published, state = 3, state' = 0,
             UNCHANGED <<slotOf, air, gpuQ, gpuPage>>
      PROVE  PageMapStep /\ MapInv'
  <2>1. Newest' = Newest /\ NewestKnown'
    BY <1>2, SameNewest DEF MapInv, NewestKnown
  <2>2. ASSUME NEW b \in Blocks
        PROVE  Untouched(b) \/ Shows(b) \/ ShowsAir(b)
    BY <1>2, PublishUses
  <2>3. PageMapStep
    BY <2>1, <2>2, EntryStep DEF PageMapStep
  <2>4. ZeroIsAir' /\ FinishedAir'
    BY <1>2, PublishUses DEF ZeroIsAir, FinishedAir
  <2> QED
    BY <1>1, <2>1, <2>3, <2>4 DEF MapInv
<1>3. ASSUME UNCHANGED <<slotOf, page, air, sel, failed>>, state' = 3 => state = 3,
             Newest' = Newest, NewestKnown'
      PROVE  PageMapStep /\ MapInv'
  <2>1. PageMapStep
    BY <1>3, EntryStep DEF PageMapStep, Untouched
  <2>2. ZeroIsAir' /\ FinishedAir'
    BY <1>3 DEF MapInv, ZeroIsAir, FinishedAir
  <2> QED
    BY <1>1, <1>3, <2>1, <2>2 DEF MapInv
<1>4. ASSUME UNCHANGED <<gpuQ, gpuPage>>
      PROVE  Newest' = Newest /\ NewestKnown'
  BY <1>4, SameNewest DEF MapInv, NewestKnown
<1>5. CASE Begin
  <2>1. UNCHANGED <<slotOf, air, sel, failed, gpuQ, gpuPage>>
    BY <1>5 DEF Begin, gpuVars
  <2>2. CASE state = 3
    BY <1>2, <1>5, <2>1, <2>2 DEF Begin
  <2>3. CASE state # 3
    <3>1. page' = page /\ state' # 3
      BY <1>5, <2>3 DEF Begin
    <3> QED
      BY <1>3, <1>4, <2>1, <3>1
  <2> QED
    BY <2>2, <2>3
<1>6. CASE Flush
  <2>1. page' = Published /\ state = 3 /\ state' = 0 /\ UNCHANGED <<slotOf, air, gpuQ, gpuPage>>
    BY <1>6 DEF Flush, gpuVars
  <2> QED
    BY <1>2, <2>1
<1>7. CASE Submit
  <2>1. Newest' = Newest /\ NewestKnown'
    BY <1>4, <1>7 DEF Submit, gpuVars
  <2>2. PageMapStep
    BY <1>7, <2>1, SubmitUses, EntryStep DEF PageMapStep
  <2>3. ZeroIsAir'
    BY <1>7, SubmitUses DEF ZeroIsAir
  <2>4. state' # 3
    <3>1. state = 0
      BY <1>7 DEF Submit, MapInv, IInv, Control
    <3> QED
      BY <1>7, <3>1 DEF Submit
  <2> QED
    BY <1>1, <2>1, <2>2, <2>3, <2>4 DEF MapInv, FinishedAir
<1>8. CASE FinishBatch
  <2>1. Newest' = Newest /\ NewestKnown'
    BY <1>4, <1>8 DEF FinishBatch, gpuVars
  <2>2. PageMapStep
    BY <1>8, <2>1, FinishUses, EntryStep DEF PageMapStep
  <2>3. ZeroIsAir' /\ FinishedAir'
    BY <1>8 DEF FinishBatch, MapInv, ZeroIsAir, FinishedAir
  <2> QED
    BY <1>1, <2>1, <2>2, <2>3 DEF MapInv
<1>9. CASE Frame
  <2>1. Newest' = page /\ NewestKnown'
    BY <1>9, NewestOfFrame DEF MapInv
  <2>2. UNCHANGED <<slotOf, page, air, state, sel, failed>>
    BY <1>9 DEF Frame, cpuVars, workerVars
  <2>3. PageMapStep
    BY <2>1, <2>2, RecordStep DEF PageMapStep, Untouched
  <2>4. ZeroIsAir' /\ FinishedAir'
    BY <2>2 DEF MapInv, ZeroIsAir, FinishedAir
  <2> QED
    BY <1>1, <2>1, <2>3, <2>4 DEF MapInv
<1>10. CASE StageBatch
  <2>1. Newest' = Newest /\ NewestKnown'
    BY <1>10, NewestOfUpload DEF MapInv
  <2>2. UNCHANGED <<slotOf, page, air, state, sel>>
    BY <1>10 DEF StageBatch, cpuVars
  <2>3. state # 3
    BY <1>10 DEF StageBatch, MapInv, IInv, Control
  <2>4. PageMapStep
    BY <2>1, <2>2, EntryStep DEF PageMapStep, Untouched
  <2>5. ZeroIsAir' /\ FinishedAir'
    BY <2>2, <2>3 DEF MapInv, ZeroIsAir, FinishedAir
  <2> QED
    BY <1>1, <2>1, <2>4, <2>5 DEF MapInv
<1>11. CASE DecodeBatch
  <2>1. /\ step = "decode" /\ state = 2
        /\ UNCHANGED <<slotOf, page, air, state, sel, gpuQ, gpuPage>>
    BY <1>11 DEF DecodeBatch, gpuVars, MapInv, IInv, Control
  <2>2. PageMapStep
    BY <1>4, <2>1, EntryStep DEF PageMapStep, Untouched
  <2>3. ZeroIsAir' /\ FinishedAir'
    BY <2>1 DEF MapInv, ZeroIsAir, FinishedAir
  <2> QED
    BY <1>1, <1>4, <2>1, <2>2, <2>3 DEF MapInv
<1>12. CASE Execute
  <2>1. Newest' = Newest /\ NewestKnown'
    BY <1>12, NewestOfExecute DEF MapInv
  <2>2. UNCHANGED <<slotOf, page, air, state, sel, failed>>
    BY <1>12 DEF Execute, cpuVars, workerVars
  <2> QED
    BY <1>3, <2>1, <2>2
<1>13. CASE SkipFrame \/ Move \/ \E b \in Blocks : Arrive(b) \/ Forget(b)
  <2>1. UNCHANGED <<slotOf, page, air, state, sel, failed, gpuQ, gpuPage>>
    BY <1>13 DEF SkipFrame, Move, Arrive, Forget, cpuVars, workerVars, gpuVars
  <2> QED
    BY <1>3, <1>4, <2>1
<1>14. CASE TakeJob
  <2>1. UNCHANGED <<slotOf, page, air, sel, failed, gpuQ, gpuPage>> /\ state' = 2
    BY <1>14 DEF TakeJob, cpuVars, gpuVars
  <2> QED
    BY <1>3, <1>4, <2>1
<1> QED
  BY <1>5, <1>6, <1>7, <1>8, <1>9, <1>10, <1>11, <1>12, <1>13, <1>14
  DEF StreamNext, RenderLoop, Worker

LEMMA MapStutter == ASSUME MapInv, UNCHANGED streamVars PROVE MapInv'
<1>1. IInv'
  BY StutterStep DEF MapInv
<1>2. UNCHANGED <<page, air, state, sel, failed, gpuQ>>
  BY DEF streamVars, cpuVars, workerVars, gpuVars
<1> QED
  BY <1>1, <1>2 DEF MapInv, ZeroIsAir, FinishedAir, NewestKnown, Pending

\* Block by block, streaming does to the page table what PageMap allows and
\* nothing else.
THEOREM StreamUsesPageMap == ASSUME StreamAssumption PROVE StreamSpec => UsesPageMap
<1>1. StreamInit => MapInv
  BY MapInit
<1>2. MapInv /\ [StreamNext]_streamVars => MapInv'
  BY MapStep, MapStutter
<1>3. MapInv /\ [StreamNext]_streamVars => [PageMapStep]_streamVars
  BY MapStep
<1> QED
  BY <1>1, <1>2, <1>3, PTL DEF StreamSpec, UsesPageMap

-----------------------------------------------------------------------------
(* Streaming relies on the fetchers as BlockTier has them.                 *)

LEMMA TierSteps == ASSUME StreamAssumption, IInv, StreamNext PROVE TierStep
<1> SUFFICES ASSUME NEW b \in Blocks
             PROVE  UNCHANGED tier[b] \/ Where(b)!Next
  BY DEF TierStep
<1>1. tier \in [Blocks -> {"local", "absent", "missing"}]
  BY DEF IInv, Types, EnvTypes
<1>2. ASSUME tier[b] = "missing", tier'[b] = IF b \in Gone THEN "absent" ELSE "local"
      PROVE  Where(b)!Next
  <2>1. Where(b)!Arrive(b)
    BY <1>2 DEF Where!Arrive
  <2> QED
    BY <2>1 DEF Where!Next
<1>3. ASSUME tier[b] # "missing", tier'[b] = "missing"
      PROVE  Where(b)!Next
  <2>1. Where(b)!Forget(b)
    BY <1>3 DEF Where!Forget
  <2> QED
    BY <2>1 DEF Where!Next
<1>4. CASE Submit
  <2>1. PICK raced \in SUBSET (Unfetched \cap Gone) :
          tier' = [c \in Blocks |-> IF c \in raced THEN "absent" ELSE tier[c]]
    BY <1>4 DEF Submit
  <2>2. b \in raced => b \in Gone /\ tier[b] = "missing"
    BY DEF Unfetched
  <2> QED
    BY <1>2, <2>1, <2>2
<1>5. ASSUME NEW c \in Blocks, Arrive(c)
      PROVE  UNCHANGED tier[b] \/ Where(b)!Next
  BY <1>1, <1>2, <1>5 DEF Arrive
<1>6. ASSUME NEW c \in Blocks, Forget(c)
      PROVE  UNCHANGED tier[b] \/ Where(b)!Next
  BY <1>1, <1>3, <1>6 DEF Forget
<1>7. CASE Begin \/ Flush \/ Frame \/ SkipFrame \/ Worker \/ Execute \/ Move
  BY <1>7 DEF Begin, Flush, Frame, SkipFrame, Worker, TakeJob, DecodeBatch, StageBatch,
              FinishBatch, Execute, Move, envVars
<1> QED
  BY <1>4, <1>5, <1>6, <1>7 DEF StreamNext, RenderLoop

\* No step of streaming, and none it expects of the world outside, is one the
\* fetchers do not promise.
THEOREM StreamAssumesTiers == ASSUME StreamAssumption PROVE StreamSpec => AssumesTiers
<1>1. StreamInit => IInv
  BY InitInv
<1>2. IInv /\ [StreamNext]_streamVars => IInv'
  BY StepInv
<1>3. IInv /\ [StreamNext]_streamVars => [TierStep]_streamVars
  BY TierSteps
<1> QED
  BY <1>1, <1>2, <1>3, PTL DEF StreamSpec, AssumesTiers
=============================================================================
