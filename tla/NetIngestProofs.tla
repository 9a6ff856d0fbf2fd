--------------------------- MODULE NetIngestProofs --------------------------
(***************************************************************************)
(* Whatever the network, the disk, teardowns and crashes do, no fetcher    *)
(* takes for air what the server has, and no camera movement cancels an    *)
(* overlay; and no cell is queued twice or given to two fetchers: for any  *)
(* fetchers, cells, chunks and bricks, any queue and ring length, and any  *)
(* number of faults.                                                       *)
(***************************************************************************)
EXTENDS NetIngest, FiniteSetTheorems, SequenceTheorems, TLAPS

\* The fields the two properties rest on are functions of their index.
Fields ==
  /\ file \in [Bricks -> {"none", "data", "empty"}]
  /\ presence \in [Bricks -> {"unknown", "disk", "air"}]
  /\ pc \in [Workers -> {"idle", "wait", "stat", "fetch", "write", "done", "exit"}]
  /\ cancel \in [Workers -> BOOLEAN]
  /\ cell = [w \in Workers |-> cell[w]]
  /\ left = [w \in Workers |-> left[w]]
  /\ got = [w \in Workers |-> got[w]]

\* What a fetcher has collected: the chunks the server has are in its cell
\* buffer or still to come, and all of them are there before a file is written.
Collected ==
  \A w \in Workers :
    /\ pc[w] = "stat" => left[w] = InCell(cell[w])
    /\ pc[w] = "fetch" => ChunksOf[cell[w]] \ Absent \subseteq got[w] \cup left[w]
    /\ pc[w] = "write" => /\ left[w] \subseteq InCell(cell[w])
                          /\ ChunksOf[cell[w]] \ Absent \subseteq got[w]

IInv == Fields /\ Collected /\ NoFalseAir /\ OverlayNotCancelled

-----------------------------------------------------------------------------
\* A session begins with nothing known; the files are of earlier ones.
LEMMA FreshSession ==
  ASSUME file' \in [Bricks -> {"none", "data", "empty"}],
         \A b \in Bricks : file'[b] = "empty" => Content[b] = {},
         presence' = [b \in Bricks |-> "unknown"],
         pc' = Each("idle"), cell' = Each(None), cancel' = Each(FALSE),
         left' = Each({}), got' = Each({})
  PROVE  IInv'
BY DEF IInv, Fields, Collected, NoFalseAir, OverlayNotCancelled, Each

LEMMA InitInv == Init => IInv
BY DEF Init, IInv, Fields, Collected, NoFalseAir, OverlayNotCancelled, Each

\* A step that lets fetchers sleep or wake, and leaves the rest alone.
LEMMA SleepWake ==
  ASSUME IInv, UNCHANGED <<file, presence, cell, cancel, left, got>>,
         pc' \in [Workers -> {"idle", "wait", "stat", "fetch", "write", "done", "exit"}],
         \A w \in Workers : pc'[w] = pc[w] \/ pc'[w] \in {"idle", "wait", "exit"}
  PROVE  IInv'
BY DEF IInv, Fields, Collected, NoFalseAir, OverlayNotCancelled, InCell

\* A request only wakes a fetcher.
LEMMA RequestWakes ==
  ASSUME Fields, NEW c, Request(c) \/ UNCHANGED pc
  PROVE  /\ pc' \in [Workers -> {"idle", "wait", "stat", "fetch", "write", "done", "exit"}]
         /\ \A w \in Workers : pc'[w] = pc[w] \/ pc'[w] \in {"idle", "wait", "exit"}
<1>1. UNCHANGED pc \/ Signal
  BY DEF Request, Insert
<1> QED
  BY <1>1 DEF Signal, Fields

LEMMA AskStep == ASSUME IInv, Ask PROVE IInv'
<1>1. PICK c : Request(c) \/ UNCHANGED pc
  BY DEF Ask
<1>2. UNCHANGED <<file, presence, cell, cancel, left, got>>
  BY DEF Ask, persistent
<1> QED
  BY <1>1, <1>2, RequestWakes, SleepWake DEF IInv

LEMMA AskOverlayStep == ASSUME IInv, AskOverlay PROVE IInv'
<1>1. PICK c : Request(c) \/ UNCHANGED pc
  BY DEF AskOverlay
<1>2. UNCHANGED <<file, presence, cell, cancel, left, got>>
  BY DEF AskOverlay, persistent
<1> QED
  BY <1>1, <1>2, RequestWakes, SleepWake DEF IInv

\* What ni_refresh_view cancels are cells of the CT.
LEMMA RefreshStep == ASSUME IInv, Refresh PROVE IInv'
<1>1. PICK out : /\ out \subseteq CT
                 /\ cancel' = [w \in Workers |-> cancel[w] \/ cell[w] \in out]
  BY DEF Refresh, Unwanted
<1>2. UNCHANGED <<file, presence, pc, cell, left, got>>
  BY DEF Refresh, persistent
<1> QED
  BY <1>1, <1>2 DEF IInv, Fields, Collected, NoFalseAir, OverlayNotCancelled, InCell

LEMMA TakeStep == ASSUME IInv, NEW w \in Workers, Take(w) PROVE IInv'
<1>1. UNCHANGED <<file, presence, got>>
  BY DEF Take, persistent
<1>2. CASE UNCHANGED <<cell, cancel, left>> /\ (\/ pc' = [pc EXCEPT ![w] = "exit"]
                                               \/ pc' = [pc EXCEPT ![w] = "wait"])
  BY <1>1, <1>2, SleepWake DEF IInv, Fields
<1>3. CASE /\ pc' = [pc EXCEPT ![w] = "stat"]
           /\ cell' = [cell EXCEPT ![w] = Head(queue)]
           /\ cancel' = [cancel EXCEPT ![w] = FALSE]
           /\ left' = [left EXCEPT ![w] = InCell(Head(queue))]
  BY <1>1, <1>3, ZenonT(40)
  DEF IInv, Fields, Collected, NoFalseAir, OverlayNotCancelled, InCell
<1> QED
  BY <1>2, <1>3 DEF Take

\* Files that are there are published as what they hold.
LEMMA StatStep == ASSUME IInv, NEW w \in Workers, Stat(w) PROVE IInv'
<1>1. /\ pc[w] = "stat" /\ left[w] = InCell(cell[w])
      /\ UNCHANGED <<file, cell, cancel, got>>
  BY DEF Stat, persistent, IInv, Collected
<1>2. PICK found : /\ found \subseteq {b \in left[w] : file[b] # "none"}
                   /\ presence' = [b \in Bricks |-> IF b \in found THEN PresenceOf(file[b])
                                                                    ELSE presence[b]]
                   /\ \/ /\ pc' = [pc EXCEPT ![w] = "done"]
                         /\ left' = [left EXCEPT ![w] = {}]
                      \/ /\ pc' = [pc EXCEPT ![w] = "fetch"]
                         /\ left' = [left EXCEPT ![w] = ChunksOf[cell[w]]]
  BY DEF Stat
<1>3. Fields'
  BY <1>1, <1>2 DEF IInv, Fields, PresenceOf
<1>4. Collected'
  BY <1>1, <1>2 DEF IInv, Fields, Collected, InCell
<1>5. NoFalseAir'
  BY <1>1, <1>2 DEF IInv, Fields, NoFalseAir, PresenceOf
<1> QED
  BY <1>1, <1>3, <1>4, <1>5 DEF IInv, OverlayNotCancelled

\* A chunk leaves the list of those to come when its voxels are in the buffer,
\* or when the server does not have it; any other answer ends the fetch.
LEMMA FetchStep == ASSUME IInv, NEW w \in Workers, Fetch(w) PROVE IInv'
<1>1. /\ pc[w] = "fetch" /\ ChunksOf[cell[w]] \ Absent \subseteq got[w] \cup left[w]
      /\ UNCHANGED <<file, presence, cell, cancel>>
  BY DEF Fetch, IInv, Collected
<1>2. PICK k, a :
        /\ k \in left[w] /\ a \in Answers(k)
        /\ LET r == Reads(a)
               stop == cancel[w] \/ quit \/ r \notin {"data", "absent"}
           IN /\ got' = IF r = "data" /\ ~stop THEN [got EXCEPT ![w] = @ \cup {k}] ELSE got
              /\ IF stop THEN pc' = [pc EXCEPT ![w] = "done"] /\ left' = [left EXCEPT ![w] = {}]
                 ELSE IF left[w] = {k}
                   THEN /\ pc' = [pc EXCEPT ![w] = "write"]
                        /\ left' = [left EXCEPT ![w] = InCell(cell[w])]
                   ELSE pc' = pc /\ left' = [left EXCEPT ![w] = @ \ {k}]
  BY DEF Fetch
<1>3. Reads(a) = "absent" => k \in Absent
  BY <1>2 DEF Answers, Reads
<1>4. CASE pc' = [pc EXCEPT ![w] = "done"] /\ left' = [left EXCEPT ![w] = {}] /\ got' = got
  <2>1. Fields'
    BY <1>1, <1>4 DEF IInv, Fields
  <2>2. \A v \in Workers : v # w => /\ pc'[v] = pc[v] /\ got'[v] = got[v]
                                    /\ left'[v] = left[v]
    BY <1>1, <1>4 DEF IInv, Fields
  <2>3. pc'[w] = "done"
    BY <1>4 DEF IInv, Fields
  <2>4. Collected'
    BY <1>1, <1>4, <2>2, <2>3 DEF IInv, Collected, InCell
  <2> QED
    BY <1>1, <2>1, <2>4 DEF IInv, NoFalseAir, OverlayNotCancelled
<1>5. CASE /\ got' = [got EXCEPT ![w] = @ \cup {k}] \/ (got' = got /\ k \in Absent)
           /\ \/ /\ left[w] = {k}
                 /\ pc' = [pc EXCEPT ![w] = "write"]
                 /\ left' = [left EXCEPT ![w] = InCell(cell[w])]
              \/ pc' = pc /\ left' = [left EXCEPT ![w] = @ \ {k}]
  <2>1. Fields'
    BY <1>1, <1>5 DEF IInv, Fields
  <2>2. /\ \A v \in Workers : v # w => /\ pc'[v] = pc[v] /\ got'[v] = got[v]
                                       /\ left'[v] = left[v]
        /\ got[w] \subseteq got'[w] /\ (k \in got'[w] \/ k \in Absent)
        /\ \/ left[w] = {k} /\ pc'[w] = "write" /\ left'[w] = InCell(cell[w])
           \/ pc'[w] = "fetch" /\ left'[w] = left[w] \ {k}
    BY <1>1, <1>5 DEF IInv, Fields
  <2>3. Collected'
    BY <1>1, <2>2 DEF IInv, Collected, InCell
  <2> QED
    BY <1>1, <2>1, <2>3 DEF IInv, NoFalseAir, OverlayNotCancelled
<1> QED
  BY <1>2, <1>3, <1>4, <1>5

\* A brick without voxels in the buffer has none at the server: the buffer holds
\* every chunk of the cell that the server has.
LEMMA WriteStep == ASSUME IInv, NEW w \in Workers, Write(w) PROVE IInv'
<1>1. /\ pc[w] = "write" /\ left[w] \subseteq InCell(cell[w])
      /\ ChunksOf[cell[w]] \ Absent \subseteq got[w]
      /\ UNCHANGED <<cell, cancel, got>>
  BY DEF Write, IInv, Collected
<1>2. PICK b, fails :
        /\ b \in left[w] /\ fails \in BOOLEAN
        /\ file' = IF fails THEN file ELSE [file EXCEPT ![b] = Written(w, b)]
        /\ presence' = [presence EXCEPT ![b] = IF fails THEN "unknown" ELSE PresenceOf(Written(w, b))]
        /\ left' = [left EXCEPT ![w] = @ \ {b}]
        /\ pc' = IF left[w] = {b} THEN [pc EXCEPT ![w] = "done"] ELSE pc
  BY DEF Write
<1>3. b \in Bricks /\ CellOf[b] = cell[w]
  BY <1>1, <1>2 DEF InCell
<1>4. Content[b] \subseteq got[w]
  BY <1>1, <1>3, IngestAssumption
<1>5. /\ Written(w, b) \in {"data", "empty"}
      /\ Written(w, b) = "empty" => Content[b] = {}
  BY <1>3, <1>4 DEF Written, IInv, Fields, NoFalseAir
<1>6. Fields'
  BY <1>1, <1>2, <1>3, <1>5 DEF IInv, Fields, PresenceOf
<1>7. Collected'
  BY <1>1, <1>2 DEF IInv, Fields, Collected, InCell
<1>8. NoFalseAir'
  <2>1. CASE fails
    BY <1>2, <1>3, <2>1 DEF IInv, Fields, NoFalseAir
  <2>2. CASE ~fails
    BY <1>2, <1>3, <1>5, <2>2 DEF IInv, Fields, NoFalseAir, PresenceOf
  <2> QED
    BY <1>2, <2>1, <2>2
<1> QED
  BY <1>1, <1>6, <1>7, <1>8 DEF IInv, OverlayNotCancelled

LEMMA DoneStep == ASSUME IInv, NEW w \in Workers, Done(w) PROVE IInv'
<1>1. /\ pc' = [pc EXCEPT ![w] = "idle"] /\ cell' = [cell EXCEPT ![w] = None]
      /\ got' = [got EXCEPT ![w] = {}] /\ cancel' = [cancel EXCEPT ![w] = FALSE]
      /\ UNCHANGED <<file, presence, left>>
  BY DEF Done, persistent
<1> QED
  BY <1>1 DEF IInv, Fields, Collected, NoFalseAir, OverlayNotCancelled, InCell

LEMMA ForgetStep == ASSUME IInv, NEW b \in Bricks, Forget(b) PROVE IInv'
<1>1. /\ presence' = [presence EXCEPT ![b] = "unknown"]
      /\ UNCHANGED <<file, pc, cell, cancel, left, got>>
  BY DEF Forget, workerVars
<1> QED
  BY <1>1 DEF IInv, Fields, Collected, NoFalseAir, OverlayNotCancelled, InCell

LEMMA RestartStep == ASSUME IInv, Restart PROVE IInv'
BY FreshSession DEF Restart, IInv, Fields, NoFalseAir

\* Every step of the renderer, of a fetcher and of the world outside keeps the
\* invariant.
THEOREM StepInv == ASSUME IInv, [Next]_vars PROVE IInv'
<1>1. CASE Quit
  BY <1>1, SleepWake DEF Quit, IInv, Fields
<1>2. ASSUME NEW w \in Workers, Wakes(w)
      PROVE  IInv'
  BY <1>2, SleepWake DEF Wakes, IInv, Fields, persistent
<1>3. CASE Move
  BY <1>3, SleepWake DEF Move, IInv, Fields, workerVars
<1>4. ASSUME NEW c \in Cells, Expire(c)
      PROVE  IInv'
  BY <1>4, SleepWake DEF Expire, IInv, Fields, workerVars, persistent
<1>5. CASE UNCHANGED vars
  BY <1>5, SleepWake DEF vars, IInv, Fields, workerVars, persistent
<1>6. ASSUME NEW w \in Workers, WorkerStep(w)
      PROVE  IInv'
  BY <1>6, TakeStep, StatStep, FetchStep, WriteStep, DoneStep DEF WorkerStep
<1>7. ASSUME NEW b \in Bricks, Forget(b)
      PROVE  IInv'
  BY <1>7, ForgetStep
<1> QED
  BY <1>1, <1>2, <1>3, <1>4, <1>5, <1>6, <1>7, RefreshStep, AskStep, AskOverlayStep, RestartStep
  DEF Next

-----------------------------------------------------------------------------
LEMMA InvHolds == Spec => []IInv
<1>1. Init => IInv
  BY InitInv
<1>2. IInv /\ [Next]_vars => IInv'
  BY StepInv
<1> QED
  BY <1>1, <1>2, PTL DEF Spec

\* What the server has is never taken for air, in the presence map or in a file.
THEOREM AirIsReal == Spec => []NoFalseAir
<1>1. IInv => NoFalseAir
  BY DEF IInv
<1> QED
  BY <1>1, InvHolds, PTL

\* A camera movement never cancels an overlay cell.
THEOREM OverlaysFinish == Spec => []OverlayNotCancelled
<1>1. IInv => OverlayNotCancelled
  BY DEF IInv
<1> QED
  BY <1>1, InvHolds, PTL

-----------------------------------------------------------------------------
(* What the fetchers publish of a brick.                                   *)

\* Files say what the server has, and what is known to be air has its file.
Kept ==
  \A b \in Bricks : /\ file[b] = "data" => Content[b] # {}
                    /\ presence[b] = "air" => file[b] = "empty"
TierInv == IInv /\ Kept

\* A step as one brick sees it: a file never changes once it is there, and what
\* becomes known of a brick is what its file says.
FileStays(b) ==
  \/ file'[b] = file[b]
  \/ file[b] = "none" /\ (file'[b] = "data" => Content[b] # {})
Learns(b) ==
  \/ presence'[b] \in {presence[b], "unknown"}
  \/ file'[b] \in {"data", "empty"} /\ presence'[b] = PresenceOf(file'[b])

LEMMA BrickStep ==
  ASSUME IInv, [Next]_vars, NEW b \in Bricks
  PROVE  FileStays(b) /\ Learns(b)
<1>1. ASSUME UNCHANGED <<file, presence>>
      PROVE  FileStays(b) /\ Learns(b)
  BY <1>1 DEF FileStays, Learns
<1>2. CASE Refresh \/ Ask \/ AskOverlay \/ Move \/ Quit \/ UNCHANGED vars
  BY <1>1, <1>2 DEF Refresh, Ask, AskOverlay, Move, Quit, vars, persistent
<1>3. ASSUME NEW w \in Workers, Take(w) \/ Fetch(w) \/ Done(w) \/ Wakes(w)
      PROVE  FileStays(b) /\ Learns(b)
  BY <1>1, <1>3 DEF Take, Fetch, Done, Wakes, persistent
<1>4. ASSUME NEW c \in Cells, Expire(c)
      PROVE  FileStays(b) /\ Learns(b)
  BY <1>1, <1>4 DEF Expire, persistent
<1>5. ASSUME NEW w \in Workers, Stat(w)
      PROVE  FileStays(b) /\ Learns(b)
  <2>1. file' = file /\ file[b] \in {"none", "data", "empty"}
    BY <1>5 DEF Stat, persistent, IInv, Fields
  <2>2. PICK found : /\ found \subseteq {x \in left[w] : file[x] # "none"}
                     /\ presence' = [x \in Bricks |-> IF x \in found THEN PresenceOf(file[x])
                                                                      ELSE presence[x]]
    BY <1>5 DEF Stat
  <2> QED
    BY <2>1, <2>2 DEF FileStays, Learns
<1>6. ASSUME NEW w \in Workers, Write(w)
      PROVE  FileStays(b) /\ Learns(b)
  <2>1. PICK c, fails :
          /\ file' = IF fails THEN file ELSE [file EXCEPT ![c] = Written(w, c)]
          /\ presence' = [presence EXCEPT ![c] = IF fails THEN "unknown"
                                                          ELSE PresenceOf(Written(w, c))]
    BY <1>6 DEF Write
  <2>2. CASE fails \/ c # b
    BY <2>1, <2>2 DEF IInv, Fields, FileStays, Learns
  <2>3. CASE ~fails /\ c = b
    <3>1. file'[b] = Written(w, b) /\ presence'[b] = PresenceOf(Written(w, b))
      BY <2>1, <2>3 DEF IInv, Fields
    <3>2. /\ file[b] # "none" => Written(w, b) = file[b]
          /\ file[b] = "none" => /\ Written(w, b) \in {"data", "empty"}
                                 /\ Written(w, b) = "data" => Content[b] # {}
      BY DEF Written
    <3>3. Written(w, b) \in {"data", "empty"}
      BY <3>2 DEF IInv, Fields
    <3> QED
      BY <3>1, <3>2, <3>3 DEF FileStays, Learns
  <2> QED
    BY <2>2, <2>3
<1>7. ASSUME NEW x \in Bricks, Forget(x)
      PROVE  FileStays(b) /\ Learns(b)
  BY <1>7 DEF Forget, IInv, Fields, FileStays, Learns
<1>8. CASE Restart
  BY <1>8 DEF Restart, FileStays, Learns
<1> QED
  BY <1>2, <1>3, <1>4, <1>5, <1>6, <1>7, <1>8 DEF Next, WorkerStep

LEMMA KeptStep == ASSUME TierInv, [Next]_vars PROVE TierInv'
<1>1. IInv'
  BY StepInv DEF TierInv
<1>2. ASSUME NEW b \in Bricks
      PROVE  /\ file'[b] = "data" => Content[b] # {}
             /\ presence'[b] = "air" => file'[b] = "empty"
  <2>1. FileStays(b) /\ Learns(b)
    BY BrickStep DEF TierInv
  <2> QED
    BY <2>1 DEF TierInv, Kept, FileStays, Learns, PresenceOf
<1> QED
  BY <1>1, <1>2 DEF TierInv, Kept

\* What is known of a brick is forgotten or stays as it is; what becomes known of
\* it agrees with the server.
LEMMA TierSteps == ASSUME TierInv, [Next]_vars PROVE TierStep
<1> SUFFICES ASSUME NEW b \in Bricks
             PROVE  UNCHANGED TierOf[presence[b]] \/ Tier(b)!Next
  BY DEF TierStep
<1>1. FileStays(b) /\ Learns(b)
  BY BrickStep DEF TierInv
<1>2. /\ presence[b] = "disk" => file[b] = "data"
      /\ presence[b] = "air" => file[b] = "empty"
      /\ presence[b] \in {"unknown", "disk", "air"}
  BY DEF TierInv, Kept, IInv, NoFalseAir, Fields
<1>3. TierInv'
  BY KeptStep
<1>4. /\ file'[b] = "data" => Content[b] # {}
      /\ file'[b] = "empty" => Content[b] = {}
  BY <1>3 DEF TierInv, Kept, IInv, NoFalseAir
<1>5. CASE presence'[b] = presence[b]
  BY <1>5
<1>6. CASE presence'[b] = "unknown" /\ presence[b] # "unknown"
  <2>1. Tier(b)!Forget(b)
    BY <1>2, <1>6 DEF Tier!Forget, TierOf
  <2> QED
    BY <2>1 DEF Tier!Next
<1>7. CASE /\ presence'[b] # presence[b] /\ presence'[b] = PresenceOf(file'[b])
           /\ file'[b] \in {"data", "empty"}
  <2>1. presence[b] = "unknown"
    BY <1>1, <1>2, <1>7 DEF FileStays, PresenceOf
  <2>2. presence'[b] = IF Content[b] = {} THEN "air" ELSE "disk"
    BY <1>4, <1>7 DEF PresenceOf
  <2>3. Tier(b)!Arrive(b)
    BY <2>1, <2>2 DEF Tier!Arrive, TierOf
  <2> QED
    BY <2>3 DEF Tier!Next
<1> QED
  BY <1>1, <1>5, <1>6, <1>7 DEF Learns

\* To streaming, the fetchers are what BlockTier says, in one session and from
\* one to the next.
THEOREM FetchersPublishTiers == Spec => PublishesTiers
<1>1. Init => TierInv
  BY InitInv DEF Init, TierInv, Kept
<1>2. TierInv /\ [Next]_vars => TierInv'
  BY KeptStep
<1>3. TierInv /\ [Next]_vars => [TierStep]_vars
  BY TierSteps
<1> QED
  BY <1>1, <1>2, <1>3, PTL DEF Spec, PublishesTiers

-----------------------------------------------------------------------------
(* Queues.                                                                 *)

Elements(s) == {s[i] : i \in 1..Len(s)}
Distinct(s) == \A i, j \in 1..Len(s) : s[i] = s[j] => i = j

\* What InsertAt and RemoveAt do to a sequence, place by place.
LEMMA Inserted ==
  ASSUME NEW S, NEW s \in Seq(S), NEW e \in S, NEW i \in 1..Len(s) + 1
  PROVE  /\ InsertAt(s, i, e) \in Seq(S) /\ Len(InsertAt(s, i, e)) = Len(s) + 1
         /\ \A j \in 1..Len(s) + 1 :
              InsertAt(s, i, e)[j] = IF j < i THEN s[j] ELSE IF j = i THEN e ELSE s[j - 1]
<1>1. PICK n \in Nat : n = Len(s) /\ i \in 1..n + 1 /\ i \in Int
  BY LenProperties
<1>2. PICK a : a = SubSeq(s, 1, i - 1)
  OBVIOUS
<1>3. PICK c : c = SubSeq(s, i, Len(s))
  OBVIOUS
<1>4. \A j \in 1..n : s[j] \in S
  BY <1>1, ElementOfSeq
<1>5. a \in Seq(S) /\ Len(a) = i - 1 /\ \A j \in 1..i - 1 : a[j] = s[j]
  <2>1. \A j \in 1..i - 1 : s[j] \in S
    BY <1>1, <1>4
  <2>2. /\ a \in Seq(S) /\ Len(a) = (IF 1 <= i - 1 THEN (i - 1) - 1 + 1 ELSE 0)
        /\ \A j \in 1..(i - 1) - 1 + 1 : a[j] = s[1 + j - 1]
    BY <1>1, <1>2, <2>1, SubSeqProperties
  <2> QED
    BY <1>1, <2>2
<1>6. c \in Seq(S) /\ Len(c) = n - i + 1 /\ \A j \in 1..n - i + 1 : c[j] = s[i + j - 1]
  <2>1. \A j \in i..n : s[j] \in S
    BY <1>1, <1>4
  <2>2. /\ c \in Seq(S) /\ Len(c) = (IF i <= n THEN n - i + 1 ELSE 0)
        /\ \A j \in 1..n - i + 1 : c[j] = s[i + j - 1]
    BY <1>1, <1>3, <2>1, SubSeqProperties
  <2> QED
    BY <1>1, <2>2, SMTT(30)
<1>7. PICK d : d = <<e>>
  OBVIOUS
<1>8. d \in Seq(S) /\ Len(d) = 1 /\ d[1] = e
  BY <1>7
<1>9. PICK ad : ad = a \o d
  OBVIOUS
<1>10. /\ ad \in Seq(S) /\ Len(ad) = i
       /\ \A j \in 1..i : ad[j] = IF j < i THEN s[j] ELSE e
  <2>1. /\ ad \in Seq(S) /\ Len(ad) = Len(a) + Len(d)
        /\ \A j \in 1..Len(a) + Len(d) : ad[j] = IF j <= Len(a) THEN a[j] ELSE d[j - Len(a)]
    BY <1>5, <1>8, <1>9, ConcatProperties
  <2>2. Len(ad) = i
    BY <1>1, <1>5, <1>8, <2>1
  <2>3. ASSUME NEW j \in 1..i
        PROVE  ad[j] = IF j < i THEN s[j] ELSE e
    <3>1. CASE j < i
      BY <1>1, <1>5, <1>8, <2>1, <3>1
    <3>2. CASE j = i
      <4>1. j - Len(a) = 1 /\ ~(j <= Len(a)) /\ j \in 1..Len(a) + Len(d)
        BY <1>1, <1>5, <1>8, <3>2
      <4> QED
        BY <1>8, <2>1, <3>2, <4>1
    <3> QED
      BY <1>1, <3>1, <3>2
  <2> QED
    BY <2>1, <2>2, <2>3
<1>11. PICK t : t = ad \o c
  OBVIOUS
<1>12. /\ t \in Seq(S) /\ Len(t) = n + 1
       /\ \A j \in 1..n + 1 : t[j] = IF j < i THEN s[j] ELSE IF j = i THEN e ELSE s[j - 1]
  <2>1. /\ t \in Seq(S) /\ Len(t) = Len(ad) + Len(c)
        /\ \A j \in 1..Len(ad) + Len(c) : t[j] = IF j <= Len(ad) THEN ad[j] ELSE c[j - Len(ad)]
    BY <1>6, <1>10, <1>11, ConcatProperties
  <2>2. Len(t) = n + 1
    BY <1>1, <1>6, <1>10, <2>1
  <2>3. ASSUME NEW j \in 1..n + 1
        PROVE  t[j] = IF j < i THEN s[j] ELSE IF j = i THEN e ELSE s[j - 1]
    <3>1. CASE j <= i
      BY <1>1, <1>6, <1>10, <2>1, <3>1
    <3>2. CASE ~(j <= i)
      <4>1. j - i \in 1..n - i + 1 /\ i + (j - i) - 1 = j - 1 /\ ~(j < i) /\ j # i
        BY <1>1, <3>2
      <4>2. t[j] = c[j - i]
        BY <1>1, <1>6, <1>10, <2>1, <3>2
      <4> QED
        BY <1>6, <4>1, <4>2
    <3> QED
      BY <3>1, <3>2
  <2> QED
    BY <2>1, <2>2, <2>3
<1>13. InsertAt(s, i, e) = t
  BY <1>2, <1>3, <1>7, <1>9, <1>11 DEF InsertAt
<1> QED
  BY <1>1, <1>12, <1>13

LEMMA Removed ==
  ASSUME NEW S, NEW s \in Seq(S), NEW i \in 1..Len(s)
  PROVE  /\ RemoveAt(s, i) \in Seq(S) /\ Len(RemoveAt(s, i)) = Len(s) - 1
         /\ \A j \in 1..Len(s) - 1 : RemoveAt(s, i)[j] = IF j < i THEN s[j] ELSE s[j + 1]
<1>1. PICK n \in Nat : n = Len(s) /\ i \in 1..n /\ i \in Int
  BY LenProperties
<1>2. PICK a : a = SubSeq(s, 1, i - 1)
  OBVIOUS
<1>3. PICK c : c = SubSeq(s, i + 1, Len(s))
  OBVIOUS
<1>4. \A j \in 1..n : s[j] \in S
  BY <1>1, ElementOfSeq
<1>5. a \in Seq(S) /\ Len(a) = i - 1 /\ \A j \in 1..i - 1 : a[j] = s[j]
  <2>1. \A j \in 1..i - 1 : s[j] \in S
    BY <1>1, <1>4
  <2>2. /\ a \in Seq(S) /\ Len(a) = (IF 1 <= i - 1 THEN (i - 1) - 1 + 1 ELSE 0)
        /\ \A j \in 1..(i - 1) - 1 + 1 : a[j] = s[1 + j - 1]
    BY <1>1, <1>2, <2>1, SubSeqProperties
  <2> QED
    BY <1>1, <2>2
<1>6. c \in Seq(S) /\ Len(c) = n - i /\ \A j \in 1..n - i : c[j] = s[i + j]
  <2>1. \A j \in i + 1..n : s[j] \in S
    BY <1>1, <1>4
  <2>2. /\ c \in Seq(S) /\ Len(c) = (IF i + 1 <= n THEN n - (i + 1) + 1 ELSE 0)
        /\ \A j \in 1..n - (i + 1) + 1 : c[j] = s[i + 1 + j - 1]
    BY <1>1, <1>3, <2>1, SubSeqProperties
  <2> QED
    BY <1>1, <2>2
<1>7. PICK t : t = a \o c
  OBVIOUS
<1>8. /\ t \in Seq(S) /\ Len(t) = n - 1
      /\ \A j \in 1..n - 1 : t[j] = IF j < i THEN s[j] ELSE s[j + 1]
  <2>1. /\ t \in Seq(S) /\ Len(t) = Len(a) + Len(c)
        /\ \A j \in 1..Len(a) + Len(c) : t[j] = IF j <= Len(a) THEN a[j] ELSE c[j - Len(a)]
    BY <1>5, <1>6, <1>7, ConcatProperties
  <2>2. Len(t) = n - 1
    BY <1>1, <1>5, <1>6, <2>1
  <2>3. ASSUME NEW j \in 1..n - 1
        PROVE  t[j] = IF j < i THEN s[j] ELSE s[j + 1]
    <3>1. CASE j < i
      <4>1. j <= Len(a) /\ j \in 1..Len(a) + Len(c) /\ j \in 1..i - 1
        BY <1>1, <1>5, <1>6, <3>1
      <4> QED
        BY <1>5, <2>1, <3>1, <4>1
    <3>2. CASE ~(j < i)
      <4>1. j - Len(a) \in 1..n - i /\ i + (j - Len(a)) = j + 1 /\ ~(j <= Len(a))
            /\ j \in 1..Len(a) + Len(c)
        BY <1>1, <1>5, <1>6, <3>2
      <4> QED
        BY <1>6, <2>1, <3>2, <4>1
    <3> QED
      BY <3>1, <3>2
  <2> QED
    BY <2>1, <2>2, <2>3
<1>9. RemoveAt(s, i) = t
  BY <1>2, <1>3, <1>7 DEF RemoveAt
<1> QED
  BY <1>1, <1>8, <1>9

\* A queue of distinct cells stays one: with a new cell, without one of its cells,
\* shortened, or thinned out.
LEMMA InsertedDistinct ==
  ASSUME NEW S, NEW s \in Seq(S), NEW e \in S, NEW i \in 1..Len(s) + 1,
         Distinct(s), e \notin Elements(s)
  PROVE  /\ InsertAt(s, i, e) \in Seq(S) /\ Len(InsertAt(s, i, e)) = Len(s) + 1
         /\ Distinct(InsertAt(s, i, e))
         /\ Elements(InsertAt(s, i, e)) \subseteq Elements(s) \cup {e}
<1>1. PICK n \in Nat : n = Len(s) /\ i \in 1..n + 1 /\ i \in Int
  BY LenProperties
<1>2. PICK t : t = InsertAt(s, i, e)
  OBVIOUS
<1>3. /\ t \in Seq(S) /\ Len(t) = n + 1
      /\ \A j \in 1..n + 1 : t[j] = IF j < i THEN s[j] ELSE IF j = i THEN e ELSE s[j - 1]
  BY <1>1, <1>2, Inserted, SMTT(30)
<1>4. ASSUME NEW j \in 1..n + 1
      PROVE  \/ j = i /\ t[j] = e
             \/ j < i /\ j \in 1..n /\ t[j] = s[j]
             \/ j > i /\ j - 1 \in 1..n /\ t[j] = s[j - 1]
  BY <1>1, <1>3
<1>5. Elements(t) \subseteq Elements(s) \cup {e}
  BY <1>1, <1>3, <1>4 DEF Elements
<1>6. \A p \in 1..n : s[p] # e /\ \A q \in 1..n : s[p] = s[q] => p = q
  BY <1>1 DEF Elements, Distinct
<1>7. ASSUME NEW j \in 1..n + 1, NEW k \in 1..n + 1, t[j] = t[k]
      PROVE  j = k
  <2>1. j \in Int /\ k \in Int
    BY <1>1
  <2> QED
    BY <1>1, <1>4, <1>6, <1>7, <2>1
<1> QED
  BY <1>1, <1>2, <1>3, <1>5, <1>7 DEF Distinct

LEMMA RemovedDistinct ==
  ASSUME NEW S, NEW s \in Seq(S), NEW i \in 1..Len(s), Distinct(s)
  PROVE  /\ RemoveAt(s, i) \in Seq(S) /\ Len(RemoveAt(s, i)) = Len(s) - 1
         /\ Distinct(RemoveAt(s, i))
         /\ Elements(RemoveAt(s, i)) \subseteq Elements(s) \ {s[i]}
<1>1. PICK n \in Nat : n = Len(s) /\ i \in 1..n /\ i \in Int
  BY LenProperties
<1>2. PICK t : t = RemoveAt(s, i)
  OBVIOUS
<1>3. /\ t \in Seq(S) /\ Len(t) = n - 1
      /\ \A j \in 1..n - 1 : t[j] = IF j < i THEN s[j] ELSE s[j + 1]
  BY <1>1, <1>2, Removed
<1>4. ASSUME NEW j \in 1..n - 1
      PROVE  \/ j < i /\ j \in 1..n /\ t[j] = s[j]
             \/ j >= i /\ j + 1 \in 1..n /\ j + 1 # i /\ t[j] = s[j + 1]
  BY <1>1, <1>3
<1>5. \A p, q \in 1..n : s[p] = s[q] => p = q
  BY <1>1 DEF Distinct
<1>6. ASSUME NEW j \in 1..n - 1
      PROVE  t[j] \in {s[p] : p \in 1..n} /\ t[j] # s[i]
  <2>1. j \in Int
    BY <1>1
  <2> QED
    BY <1>1, <1>4, <1>5, <2>1
<1>7. ASSUME NEW j \in 1..n - 1, NEW k \in 1..n - 1, t[j] = t[k]
      PROVE  j = k
  <2>1. j \in Int /\ k \in Int
    BY <1>1
  <2> QED
    BY <1>1, <1>4, <1>5, <1>7, <2>1
<1> QED
  BY <1>1, <1>2, <1>3, <1>6, <1>7 DEF Distinct, Elements

LEMMA PrefixDistinct ==
  ASSUME NEW S, NEW s \in Seq(S), NEW m \in 0..Len(s), Distinct(s)
  PROVE  /\ SubSeq(s, 1, m) \in Seq(S) /\ Len(SubSeq(s, 1, m)) = m
         /\ Distinct(SubSeq(s, 1, m))
         /\ Elements(SubSeq(s, 1, m)) \subseteq Elements(s)
<1>1. PICK n \in Nat : n = Len(s) /\ m \in 0..n /\ m \in Int
  BY LenProperties
<1>2. PICK a : a = SubSeq(s, 1, m)
  OBVIOUS
<1>3. \A j \in 1..m : s[j] \in S
  BY <1>1, ElementOfSeq
<1>4. /\ a \in Seq(S) /\ Len(a) = (IF 1 <= m THEN m - 1 + 1 ELSE 0)
      /\ \A j \in 1..m - 1 + 1 : a[j] = s[1 + j - 1]
  BY <1>1, <1>2, <1>3, SubSeqProperties
<1>5. Len(a) = m /\ (\A j \in 1..m : a[j] = s[j]) /\ \A j \in 1..m : j \in 1..n
  BY <1>1, <1>4
<1>6. Distinct(a)
  BY <1>1, <1>5 DEF Distinct
<1>7. Elements(a) \subseteq Elements(s)
  BY <1>1, <1>5 DEF Elements
<1> QED
  BY <1>2, <1>4, <1>5, <1>6, <1>7

LEMMA TailDistinct ==
  ASSUME NEW S, NEW s \in Seq(S), s # <<>>, Distinct(s)
  PROVE  /\ Head(s) \in S /\ Head(s) \in Elements(s)
         /\ Tail(s) \in Seq(S) /\ Len(Tail(s)) = Len(s) - 1 /\ Len(s) \in Nat \ {0}
         /\ Distinct(Tail(s))
         /\ Elements(Tail(s)) \subseteq Elements(s) \ {Head(s)}
<1>1. PICK n \in Nat : n = Len(s) /\ n # 0
  BY LenProperties, EmptySeq
<1>2. PICK t : t = Tail(s)
  OBVIOUS
<1>3. /\ Head(s) \in S /\ Head(s) = s[1] /\ t \in Seq(S) /\ Len(t) = n - 1
      /\ \A j \in 1..n - 1 : t[j] = s[j + 1]
  BY <1>1, <1>2, HeadTailProperties
<1>4. ASSUME NEW j \in 1..n - 1
      PROVE  j \in Int /\ j + 1 \in 1..n /\ j + 1 # 1 /\ t[j] = s[j + 1]
  BY <1>1, <1>3
<1>5. 1 \in 1..n /\ \A p, q \in 1..n : s[p] = s[q] => p = q
  BY <1>1 DEF Distinct
<1>6. ASSUME NEW j \in 1..n - 1, NEW k \in 1..n - 1, t[j] = t[k]
      PROVE  j = k
  <2>1. j + 1 = k + 1
    BY <1>4, <1>5, <1>6
  <2> QED
    BY <1>4, <2>1
<1>7. Distinct(t)
  BY <1>1, <1>3, <1>6 DEF Distinct
<1>8. Elements(t) \subseteq Elements(s) \ {Head(s)}
  BY <1>1, <1>3, <1>4, <1>5 DEF Elements
<1>9. Head(s) \in Elements(s)
  BY <1>1, <1>3, <1>5 DEF Elements
<1> QED
  BY <1>1, <1>2, <1>3, <1>7, <1>8, <1>9

LEMMA StayingDistinct ==
  ASSUME queue \in Seq(Cells), Distinct(queue), NEW out, NEW at \in Staying(out),
         NEW q, q = [i \in DOMAIN at |-> queue[at[i]]]
  PROVE  /\ q \in Seq(Cells) /\ Len(q) <= Len(queue) /\ Len(q) \in Nat
         /\ Distinct(q) /\ Elements(q) \subseteq Elements(queue)
<1>1. PICK n \in Nat : n = Len(queue)
  BY LenProperties
<1>2. PICK kept : kept = {i \in 1..n : queue[i] \notin out}
  OBVIOUS
<1>3. IsFiniteSet(kept) /\ Cardinality(kept) \in Nat /\ Cardinality(kept) <= n
  <2>1. IsFiniteSet(1..n) /\ Cardinality(1..n) = n
    <3>1. IsFiniteSet(1..n) /\ Cardinality(1..n) = (IF 1 > n THEN 0 ELSE n - 1 + 1)
      BY FS_Interval
    <3> QED
      BY <3>1
  <2>2. kept \subseteq 1..n
    BY <1>2
  <2> QED
    BY <2>1, <2>2, FS_Subset, FS_CardinalityType
<1>4. PICK m \in Nat : m = Cardinality(kept) /\ m <= n
  BY <1>3
<1>5. at \in Bijection(1..m, kept)
  BY <1>1, <1>2, <1>4 DEF Staying
<1>6. /\ at \in [1..m -> kept]
      /\ \A i, j \in 1..m : at[i] = at[j] => i = j
  BY <1>5 DEF Bijection, Injection, IsInjective
<1>7. \A i \in 1..m : at[i] \in 1..n /\ q[i] = queue[at[i]] /\ q[i] \in Cells
  <2>1. \A i \in 1..n : queue[i] \in Cells
    BY <1>1, ElementOfSeq
  <2> QED
    BY <1>2, <1>6, <2>1
<1>8. q \in [1..m -> Cells]
  BY <1>6, <1>7
<1>9. q \in Seq(Cells) /\ Len(q) = m
  BY <1>4, <1>8, SeqDef, LenProperties
<1>10. Distinct(q)
  <2>1. \A i, j \in 1..m : q[i] = q[j] => at[i] = at[j]
    BY <1>1, <1>7, ZenonT(40) DEF Distinct
  <2> QED
    BY <1>6, <1>9, <2>1 DEF Distinct
<1>11. Elements(q) \subseteq Elements(queue)
  BY <1>1, <1>7, <1>9 DEF Elements
<1> QED
  BY <1>1, <1>4, <1>9, <1>10, <1>11

-----------------------------------------------------------------------------
(* One fetcher for a cell.                                                 *)

Ring == {c \in Cells : fail[c] # "none"}

WorkTypes ==
  /\ pc \in [Workers -> {"idle", "wait", "stat", "fetch", "write", "done", "exit"}]
  /\ cell \in [Workers -> Cells \cup {None}]
  /\ cancel \in [Workers -> BOOLEAN] /\ bad \in [Workers -> BOOLEAN]
  /\ left \in [Workers -> SUBSET (Bricks \cup Chunks)]
  /\ got \in [Workers -> SUBSET Chunks]
  /\ cand \subseteq Bricks
  /\ view \in Views /\ quit \in BOOLEAN
  /\ moves \in 0..MaxMoves /\ faults \in 0..MaxFaults

DiskTypes ==
  /\ file \in [Bricks -> {"none", "data", "empty"}]
  /\ presence \in [Bricks -> {"unknown", "disk", "air"}]

QueueTypes ==
  /\ queue \in Seq(Cells) /\ Len(queue) <= QMax /\ qins \in 0..Len(queue)
  /\ Distinct(queue)

RingTypes ==
  /\ fail \in [Cells -> {"none", "hot", "cold"}]
  /\ IsFiniteSet(Ring) /\ Cardinality(Ring) <= FailCap

\* A cell is in one place.
Apart ==
  /\ Elements(queue) \cap InFlight = {}
  /\ \A v, w \in Workers : cell[v] = cell[w] /\ cell[v] # None => v = w
  /\ \A c \in Cells : fail[c] = "hot" => c \notin Elements(queue) \cup InFlight

\* A fetcher at work has a cell, and what is left to do is of its kind.
Assigned ==
  \A w \in Workers :
    /\ pc[w] \in {"stat", "fetch", "write", "done"} => cell[w] \in Cells
    /\ pc[w] = "fetch" => left[w] \subseteq Chunks

QInv == WorkTypes /\ DiskTypes /\ QueueTypes /\ RingTypes /\ Apart /\ Assigned

LEMMA QInvImplies == ASSUME QInv PROVE OneFetcher
<1>1. TypeOK
  BY DEF QInv, WorkTypes, DiskTypes, QueueTypes, RingTypes, Ring, TypeOK
<1>2. Elements(queue) = Queued
  BY DEF Elements, Queued
<1> QED
  BY <1>1, <1>2 DEF QInv, QueueTypes, Apart, Distinct, OneFetcher

LEMMA EmptyQueue ==
  ASSUME NEW q, q = <<>>
  PROVE  q \in Seq(Cells) /\ Len(q) = 0 /\ Distinct(q) /\ Elements(q) = {}
BY EmptySeq DEF Distinct, Elements

\* What a session begins with.
LEMMA FreshQueue ==
  ASSUME NEW q, q = <<>>, NEW n, n = 0, NEW f, f = [c \in Cells |-> "none"],
         NEW r, r = {c \in Cells : f[c] # "none"}
  PROVE  /\ q \in Seq(Cells) /\ Len(q) <= QMax /\ n \in 0..Len(q) /\ Distinct(q)
         /\ f \in [Cells -> {"none", "hot", "cold"}]
         /\ IsFiniteSet(r) /\ Cardinality(r) <= FailCap
<1>1. QMax \in Nat /\ FailCap \in Nat
  BY IngestAssumption
<1>2. r = {} /\ f \in [Cells -> {"none", "hot", "cold"}]
  OBVIOUS
<1>3. IsFiniteSet(r) /\ Cardinality(r) = 0
  BY <1>2, FS_EmptySet
<1>4. q \in Seq(Cells) /\ Len(q) = 0 /\ Distinct(q)
  BY EmptyQueue
<1>5. Cardinality(r) <= FailCap
  BY <1>1, <1>3
<1>6. Len(q) <= QMax /\ n \in 0..Len(q)
  BY <1>1, <1>4
<1> QED
  BY <1>2, <1>3, <1>4, <1>5, <1>6

LEMMA InitQInv == ASSUME Init PROVE QInv
<1>1. WorkTypes /\ DiskTypes
  <2>1. 0 \in 0..MaxMoves /\ 0 \in 0..MaxFaults
    BY IngestAssumption
  <2> QED
    BY <2>1 DEF Init, Each, WorkTypes, DiskTypes
<1>2. QueueTypes /\ RingTypes
  BY FreshQueue DEF Init, QueueTypes, RingTypes, Ring
<1>3. Apart
  BY EmptyQueue DEF Init, Each, Apart, InFlight
<1>4. Assigned
  BY DEF Init, Each, Assigned
<1> QED
  BY <1>1, <1>2, <1>3, <1>4 DEF QInv

LEMMA RestartQInv == ASSUME QInv, Restart PROVE QInv'
<1>1. /\ pc' = Each("idle") /\ cell' = Each(None) /\ cancel' = Each(FALSE) /\ bad' = Each(FALSE)
      /\ left' = Each({}) /\ got' = Each({})
      /\ presence' = [b \in Bricks |-> "unknown"]
      /\ queue' = <<>> /\ qins' = 0 /\ fail' = [c \in Cells |-> "none"]
      /\ cand' = {} /\ quit' = FALSE
      /\ UNCHANGED <<file, view, moves>>
      /\ faults' = faults \/ (faults < MaxFaults /\ faults' = faults + 1)
  BY DEF Restart
<1>2. WorkTypes'
  <2>1. faults' \in 0..MaxFaults
    BY <1>1, IngestAssumption DEF QInv, WorkTypes
  <2> QED
    BY <1>1, <2>1 DEF QInv, WorkTypes, Each
<1>3. DiskTypes'
  BY <1>1 DEF QInv, DiskTypes
<1>4. QueueTypes' /\ RingTypes'
  BY <1>1, FreshQueue DEF QueueTypes, RingTypes, Ring
<1>5. Apart'
  BY <1>1, EmptyQueue DEF Each, Apart, InFlight
<1>6. Assigned'
  BY <1>1 DEF Each, Assigned
<1> QED
  BY <1>2, <1>3, <1>4, <1>5, <1>6 DEF QInv

\* A step that leaves the queue, the ring and the cells of the fetchers alone.
LEMMA QueueSame ==
  ASSUME QInv, UNCHANGED <<queueVars, cell>>
  PROVE  QueueTypes' /\ RingTypes' /\ Apart'
BY DEF QInv, queueVars, QueueTypes, RingTypes, Ring, Apart, InFlight

LEMMA RefreshQInv == ASSUME QInv, Refresh PROVE QInv'
<1>1. /\ UNCHANGED <<file, view, moves, faults, presence, fail, pc, cell, left, got, bad, quit>>
      /\ cand' = {b \in view : presence[b] = "unknown"} /\ qins' = 0
  BY DEF Refresh, persistent
<1>2. PICK out : /\ \E at \in Staying(out) : queue' = [i \in DOMAIN at |-> queue[at[i]]]
                 /\ cancel' = [w \in Workers |-> cancel[w] \/ cell[w] \in out]
  BY DEF Refresh
<1>3. WorkTypes' /\ DiskTypes'
  <2>1. cancel' \in [Workers -> BOOLEAN]
    BY <1>2
  <2>2. cand' \subseteq Bricks
    BY <1>1, IngestAssumption DEF QInv, WorkTypes
  <2> QED
    BY <1>1, <2>1, <2>2 DEF QInv, WorkTypes, DiskTypes
<1>4. /\ queue' \in Seq(Cells) /\ Len(queue') <= Len(queue) /\ Len(queue') \in Nat
      /\ Distinct(queue') /\ Elements(queue') \subseteq Elements(queue)
  BY <1>2, StayingDistinct DEF QInv, QueueTypes
<1>5. QueueTypes'
  BY <1>1, <1>4, LenProperties, IngestAssumption DEF QInv, QueueTypes
<1>6. RingTypes'
  BY <1>1 DEF QInv, RingTypes, Ring
<1>7. Apart'
  BY <1>1, <1>4 DEF QInv, Apart, InFlight
<1>8. Assigned'
  BY <1>1 DEF QInv, Assigned
<1> QED
  BY <1>3, <1>5, <1>6, <1>7, <1>8 DEF QInv

\* What a request leaves: a queue of distinct cells, to which at most the cell
\* was added that was neither waiting nor in flight.
Enqueued(c) ==
  /\ queue' \in Seq(Cells) /\ Len(queue') <= QMax /\ qins' \in 0..Len(queue')
  /\ Distinct(queue')
  /\ \/ Elements(queue') \subseteq Elements(queue)
     \/ c \notin InFlight /\ Elements(queue') \subseteq Elements(queue) \cup {c}

LEMMA InsertQueue ==
  ASSUME QInv, NEW c \in Cells, Insert(c), c \notin Queued, c \notin InFlight
  PROVE  Enqueued(c)
<1>1. PICK n \in Nat : n = Len(queue) /\ n <= QMax /\ qins \in 0..n /\ queue \in Seq(Cells)
  BY LenProperties DEF QInv, QueueTypes
<1>2. QMax \in Nat /\ QMax >= 1
  BY IngestAssumption
<1>3. PICK m : m = IF n >= QMax THEN QMax - 1 ELSE n
  OBVIOUS
<1>4. m \in 0..n /\ m + 1 <= QMax /\ m \in Nat
  BY <1>1, <1>2, <1>3
<1>5. PICK kept : kept = SubSeq(queue, 1, m)
  OBVIOUS
<1>6. /\ kept \in Seq(Cells) /\ Len(kept) = m /\ Distinct(kept)
      /\ Elements(kept) \subseteq Elements(queue)
  BY <1>1, <1>4, <1>5, PrefixDistinct DEF QInv, QueueTypes
<1>7. PICK at : at = IF qins > Len(kept) THEN Len(kept) ELSE qins
  OBVIOUS
<1>8. at \in 0..m /\ at + 1 \in 1..Len(kept) + 1 /\ at + 1 \in 0..m + 1
  BY <1>1, <1>4, <1>6, <1>7
<1>9. queue' = InsertAt(kept, at + 1, c) /\ qins' = at + 1
  BY <1>1, <1>3, <1>5, <1>7 DEF Insert
<1>10. c \notin Elements(kept)
  BY <1>6 DEF Elements, Queued
<1>11. /\ queue' \in Seq(Cells) /\ Len(queue') = Len(kept) + 1 /\ Distinct(queue')
       /\ Elements(queue') \subseteq Elements(kept) \cup {c}
  BY <1>6, <1>8, <1>9, <1>10, InsertedDistinct
<1>12. Len(queue') <= QMax /\ qins' \in 0..Len(queue')
  BY <1>4, <1>6, <1>8, <1>9, <1>11
<1> QED
  BY <1>6, <1>11, <1>12 DEF Enqueued

LEMMA PromoteQueue ==
  ASSUME QInv, NEW c \in Cells, Promote(c), c \in Queued
  PROVE  Enqueued(c)
<1>1. PICK n \in Nat : /\ n = Len(queue) /\ n <= QMax /\ qins \in 0..n /\ queue \in Seq(Cells)
                       /\ Distinct(queue)
  BY LenProperties DEF QInv, QueueTypes
<1>2. PICK i : i = CHOOSE k \in 1..Len(queue) : queue[k] = c
  OBVIOUS
<1>3. i \in 1..n /\ queue[i] = c
  BY <1>1, <1>2 DEF Queued
<1>4. CASE UNCHANGED <<queue, qins>>
  BY <1>4 DEF Enqueued, QInv, QueueTypes
<1>5. CASE ~(i <= qins) /\ queue' = InsertAt(RemoveAt(queue, i), qins + 1, c) /\ qins' = qins + 1
  <2>1. PICK less : less = RemoveAt(queue, i)
    OBVIOUS
  <2>2. /\ less \in Seq(Cells) /\ Len(less) = n - 1 /\ Distinct(less)
        /\ Elements(less) \subseteq Elements(queue) \ {c}
    BY <1>1, <1>3, <2>1, RemovedDistinct
  <2>3. qins + 1 \in 1..Len(less) + 1 /\ qins + 1 \in 0..n
    BY <1>1, <1>3, <1>5, <2>2
  <2>4. /\ queue' \in Seq(Cells) /\ Len(queue') = Len(less) + 1 /\ Distinct(queue')
        /\ Elements(queue') \subseteq Elements(less) \cup {c}
    BY <1>5, <2>1, <2>2, <2>3, InsertedDistinct
  <2>5. Len(queue') = n
    BY <1>1, <2>2, <2>4
  <2>6. Elements(queue') \subseteq Elements(queue)
    BY <2>2, <2>4 DEF Elements, Queued
  <2> QED
    BY <1>1, <1>5, <2>3, <2>4, <2>5, <2>6 DEF Enqueued
<1> QED
  BY <1>2, <1>4, <1>5 DEF Promote

LEMMA RequestQueue ==
  ASSUME QInv, NEW c \in Cells, Request(c), UNCHANGED cell
  PROVE  QueueTypes' /\ RingTypes' /\ Apart'
<1>1. CASE UNCHANGED queueVars
  BY <1>1, QueueSame
<1>2. CASE /\ fail[c] # "hot" /\ fail' = [fail EXCEPT ![c] = "none"]
           /\ Enqueued(c)
  <2>1. QueueTypes'
    BY <1>2 DEF Enqueued, QueueTypes
  <2>2. fail' \in [Cells -> {"none", "hot", "cold"}]
    BY <1>2 DEF QInv, RingTypes
  <2>3. Ring' \subseteq Ring
    BY <1>2 DEF QInv, RingTypes, Ring
  <2>4. RingTypes'
    <3>1. PICK r : r = Ring'
      OBVIOUS
    <3>2. IsFiniteSet(r) /\ Cardinality(r) <= Cardinality(Ring) /\ r \subseteq Ring
      BY <2>3, <3>1, FS_Subset DEF QInv, RingTypes
    <3>3. Cardinality(r) \in Nat /\ Cardinality(Ring) \in Nat /\ FailCap \in Nat
      BY <3>2, FS_CardinalityType, IngestAssumption DEF QInv, RingTypes
    <3>4. Cardinality(r) <= FailCap
      BY <3>2, <3>3 DEF QInv, RingTypes
    <3> QED
      BY <2>2, <3>1, <3>2, <3>4 DEF RingTypes
  <2>5. InFlight' = InFlight
    BY DEF InFlight
  <2>6. \A d \in Cells : fail'[d] = "hot" => fail[d] = "hot" /\ d # c
    BY <1>2 DEF QInv, RingTypes
  <2>7. Apart'
    BY <1>2, <2>5, <2>6 DEF QInv, Apart, Enqueued
  <2> QED
    BY <2>1, <2>4, <2>7
<1>3. ASSUME c \in InFlight \ Queued, UNCHANGED <<queue, qins>>
      PROVE  Enqueued(c)
  BY <1>3 DEF Enqueued, QInv, QueueTypes
<1> QED
  BY <1>1, <1>2, <1>3, InsertQueue, PromoteQueue DEF Request

\* A request wakes at most a fetcher that sleeps.
LEMMA RequestWork ==
  ASSUME QInv, NEW c, Request(c) \/ UNCHANGED pc
  PROVE  /\ pc' \in [Workers -> {"idle", "wait", "stat", "fetch", "write", "done", "exit"}]
         /\ \A w \in Workers : pc'[w] \in {"stat", "fetch", "write", "done"} => pc'[w] = pc[w]
<1>1. UNCHANGED pc \/ Signal
  BY DEF Request, Insert
<1> QED
  BY <1>1 DEF Signal, QInv, WorkTypes

LEMMA AskQInv == ASSUME QInv, Ask PROVE QInv'
<1>1. /\ UNCHANGED <<file, view, moves, faults, presence, cell, cancel, left, got, bad, quit>>
      /\ cand' \subseteq cand
  BY DEF Ask, persistent
<1>2. PICK b \in cand : Request(CellOf[b]) \/ UNCHANGED <<queueVars, pc>>
  BY DEF Ask
<1>3. CellOf[b] \in Cells
  BY <1>2, IngestAssumption DEF QInv, WorkTypes
<1>4. QueueTypes' /\ RingTypes' /\ Apart'
  BY <1>1, <1>2, <1>3, RequestQueue, QueueSame
<1>5. WorkTypes' /\ DiskTypes' /\ Assigned'
  BY <1>1, <1>2, RequestWork DEF QInv, WorkTypes, DiskTypes, Assigned
<1> QED
  BY <1>4, <1>5 DEF QInv

LEMMA AskOverlayQInv == ASSUME QInv, AskOverlay PROVE QInv'
<1>1. UNCHANGED <<file, view, moves, faults, presence, cell, cancel, left, got, bad, cand, quit>>
  BY DEF AskOverlay, persistent
<1>2. PICK b \in Bricks : Request(CellOf[b])
  BY DEF AskOverlay
<1>3. CellOf[b] \in Cells
  BY IngestAssumption
<1>4. QueueTypes' /\ RingTypes' /\ Apart'
  BY <1>1, <1>2, <1>3, RequestQueue
<1>5. WorkTypes' /\ DiskTypes' /\ Assigned'
  BY <1>1, <1>2, RequestWork DEF QInv, WorkTypes, DiskTypes, Assigned
<1> QED
  BY <1>4, <1>5 DEF QInv

LEMMA TakeQInv == ASSUME QInv, NEW w \in Workers, Take(w) PROVE QInv'
<1>1. UNCHANGED <<file, view, moves, faults, presence, fail, got, bad, cand, quit>>
  BY DEF Take, persistent
<1>2. CASE UNCHANGED <<queue, qins, cell, cancel, left>> /\ (\/ pc' = [pc EXCEPT ![w] = "exit"]
                                                            \/ pc' = [pc EXCEPT ![w] = "wait"])
  <2>1. WorkTypes' /\ DiskTypes' /\ Assigned'
    BY <1>1, <1>2 DEF QInv, WorkTypes, DiskTypes, Assigned
  <2> QED
    BY <1>1, <1>2, <2>1, QueueSame DEF QInv, queueVars
<1>3. CASE /\ queue # <<>>
           /\ pc' = [pc EXCEPT ![w] = "stat"]
           /\ cell' = [cell EXCEPT ![w] = Head(queue)]
           /\ cancel' = [cancel EXCEPT ![w] = FALSE]
           /\ left' = [left EXCEPT ![w] = InCell(Head(queue))]
           /\ queue' = Tail(queue) /\ qins' = IF qins = 0 THEN 0 ELSE qins - 1
  <2>1. PICK c : c = Head(queue)
    OBVIOUS
  <2>2. /\ c \in Cells /\ c \in Elements(queue)
        /\ queue' \in Seq(Cells) /\ Len(queue') = Len(queue) - 1 /\ Len(queue) \in Nat \ {0}
        /\ Distinct(queue') /\ Elements(queue') \subseteq Elements(queue) \ {c}
    BY <1>3, <2>1, TailDistinct DEF QInv, QueueTypes
  <2>3. QueueTypes'
    <3>1. qins \in 0..Len(queue) /\ Len(queue) <= QMax /\ QMax \in Nat
      BY IngestAssumption DEF QInv, QueueTypes
    <3>2. Len(queue') <= QMax /\ qins' \in 0..Len(queue')
      BY <1>3, <2>2, <3>1
    <3> QED
      BY <2>2, <3>2 DEF QueueTypes
  <2>4. RingTypes'
    BY <1>1 DEF QInv, RingTypes, Ring
  <2>5. /\ cell \in [Workers -> Cells \cup {None}] /\ cell' = [cell EXCEPT ![w] = c]
        /\ c # None /\ \A v \in Workers : cell[v] # c
    <3>1. cell \in [Workers -> Cells \cup {None}] /\ cell' = [cell EXCEPT ![w] = c]
      BY <1>3, <2>1 DEF QInv, WorkTypes
    <3>2. c # None
      BY <2>2, IngestAssumption
    <3>3. \A v \in Workers : cell[v] # c
      BY <2>2, <3>2 DEF QInv, Apart, InFlight
    <3> QED
      BY <3>1, <3>2, <3>3
  <2>6. Apart'
    <3>1. InFlight' \subseteq InFlight \cup {c}
      BY <2>5 DEF InFlight
    <3>2. \A u, v \in Workers : cell'[u] = cell'[v] /\ cell'[u] # None => u = v
      BY <2>5 DEF QInv, Apart
    <3> QED
      BY <1>1, <2>2, <3>1, <3>2 DEF QInv, Apart
  <2>7. InCell(c) \subseteq Bricks
    BY DEF InCell
  <2>8. WorkTypes' /\ DiskTypes'
    BY <1>1, <1>3, <2>1, <2>2, <2>5, <2>7 DEF QInv, WorkTypes, DiskTypes
  <2>9. Assigned'
    BY <1>3, <2>1, <2>2, <2>5 DEF QInv, WorkTypes, Assigned
  <2> QED
    BY <2>3, <2>4, <2>6, <2>8, <2>9 DEF QInv
<1> QED
  BY <1>2, <1>3 DEF Take

LEMMA StatQInv == ASSUME QInv, NEW w \in Workers, Stat(w) PROVE QInv'
<1>1. /\ pc[w] = "stat" /\ cell[w] \in Cells
      /\ UNCHANGED <<file, view, moves, faults, queueVars, cell, cancel, got, bad, cand, quit>>
  BY DEF Stat, persistent, QInv, Assigned
<1>2. PICK found : /\ presence' = [b \in Bricks |-> IF b \in found THEN PresenceOf(file[b])
                                                                    ELSE presence[b]]
                   /\ \/ /\ pc' = [pc EXCEPT ![w] = "done"]
                         /\ left' = [left EXCEPT ![w] = {}]
                      \/ /\ pc' = [pc EXCEPT ![w] = "fetch"]
                         /\ left' = [left EXCEPT ![w] = ChunksOf[cell[w]]]
  BY DEF Stat
<1>3. ChunksOf[cell[w]] \subseteq Chunks
  BY <1>1, IngestAssumption
<1>4. WorkTypes' /\ Assigned'
  BY <1>1, <1>2, <1>3 DEF QInv, WorkTypes, Assigned
<1>5. DiskTypes'
  BY <1>1, <1>2 DEF QInv, DiskTypes, PresenceOf
<1> QED
  BY <1>1, <1>4, <1>5, QueueSame DEF QInv

LEMMA FetchQInv == ASSUME QInv, NEW w \in Workers, Fetch(w) PROVE QInv'
<1>1. /\ pc[w] = "fetch" /\ cell[w] \in Cells /\ left[w] \subseteq Chunks
      /\ UNCHANGED <<file, view, moves, presence, queueVars, cell, cancel, cand, quit>>
  BY DEF Fetch, QInv, Assigned
<1>2. PICK k, a :
        /\ k \in left[w] /\ a \in Answers(k)
        /\ LET r == Reads(a)
               stop == cancel[w] \/ quit \/ r \notin {"data", "absent"}
           IN /\ faults' = IF a \in {"data", "absent"} THEN faults ELSE faults + 1
              /\ bad' = [bad EXCEPT ![w] = ~cancel[w] /\ r \notin {"data", "absent"}]
              /\ got' = IF r = "data" /\ ~stop THEN [got EXCEPT ![w] = @ \cup {k}] ELSE got
              /\ IF stop THEN pc' = [pc EXCEPT ![w] = "done"] /\ left' = [left EXCEPT ![w] = {}]
                 ELSE IF left[w] = {k}
                   THEN /\ pc' = [pc EXCEPT ![w] = "write"]
                        /\ left' = [left EXCEPT ![w] = InCell(cell[w])]
                   ELSE pc' = pc /\ left' = [left EXCEPT ![w] = @ \ {k}]
  BY DEF Fetch
<1>3. faults' \in 0..MaxFaults
  <2>1. a \notin {"data", "absent"} => faults # MaxFaults
    BY <1>2 DEF Answers
  <2>2. faults \in 0..MaxFaults /\ (faults' = faults \/ (faults # MaxFaults /\ faults' = faults + 1))
    BY <1>2, <2>1 DEF QInv, WorkTypes
  <2> QED
    BY <2>2, IngestAssumption
<1>4. bad' \in [Workers -> BOOLEAN]
  BY <1>2 DEF QInv, WorkTypes
<1>5. got' \in [Workers -> SUBSET Chunks]
  BY <1>1, <1>2 DEF QInv, WorkTypes
<1>6. /\ pc' \in [Workers -> {"idle", "wait", "stat", "fetch", "write", "done", "exit"}]
      /\ left' \in [Workers -> SUBSET (Bricks \cup Chunks)]
  <2>1. InCell(cell[w]) \subseteq Bricks
    BY DEF InCell
  <2> QED
    BY <1>1, <1>2, <2>1 DEF QInv, WorkTypes
<1>7. WorkTypes' /\ DiskTypes'
  BY <1>1, <1>3, <1>4, <1>5, <1>6 DEF QInv, WorkTypes, DiskTypes
<1>8. Assigned'
  <2>1. \A v \in Workers : v # w => pc'[v] = pc[v] /\ left'[v] = left[v]
    BY <1>2 DEF QInv, WorkTypes
  <2>2. pc'[w] = "fetch" => left'[w] \subseteq Chunks
    BY <1>1, <1>2 DEF QInv, WorkTypes
  <2> QED
    BY <1>1, <2>1, <2>2 DEF QInv, Assigned
<1> QED
  BY <1>1, <1>7, <1>8, QueueSame DEF QInv

LEMMA WriteQInv == ASSUME IInv, QInv, NEW w \in Workers, Write(w) PROVE QInv'
<1>1. /\ pc[w] = "write" /\ cell[w] \in Cells /\ left[w] \subseteq Bricks
      /\ UNCHANGED <<view, moves, queueVars, cell, cancel, got, bad, cand, quit>>
  BY DEF Write, QInv, Assigned, IInv, Collected, InCell
<1>2. PICK b, fails :
        /\ b \in left[w] /\ fails \in BOOLEAN
        /\ fails => faults < MaxFaults
        /\ faults' = IF fails THEN faults + 1 ELSE faults
        /\ file' = IF fails THEN file ELSE [file EXCEPT ![b] = Written(w, b)]
        /\ presence' = [presence EXCEPT ![b] = IF fails THEN "unknown" ELSE PresenceOf(Written(w, b))]
        /\ left' = [left EXCEPT ![w] = @ \ {b}]
        /\ pc' = IF left[w] = {b} THEN [pc EXCEPT ![w] = "done"] ELSE pc
  BY DEF Write
<1>3. faults' \in 0..MaxFaults
  BY <1>2, IngestAssumption DEF QInv, WorkTypes
<1>4. WorkTypes'
  BY <1>1, <1>2, <1>3 DEF QInv, WorkTypes
<1>5. DiskTypes'
  BY <1>1, <1>2 DEF QInv, DiskTypes, Written, PresenceOf
<1>6. Assigned'
  BY <1>1, <1>2 DEF QInv, WorkTypes, Assigned
<1> QED
  BY <1>1, <1>4, <1>5, <1>6, QueueSame DEF QInv

\* The ring takes the cell that failed and, when it is full, loses another one.
LEMMA BackOffRing ==
  ASSUME RingTypes, NEW c \in Cells, BackOff(c)
  PROVE  RingTypes' /\ \A x \in Cells : fail'[x] = "hot" => x = c \/ fail[x] = "hot"
<1>1. PICK l : /\ l \in IF c \notin Ring /\ Cardinality(Ring) >= FailCap
                        THEN {{x} : x \in Ring} ELSE {{}}
               /\ fail' = [x \in Cells |-> IF x = c THEN "hot" ELSE IF x \in l THEN "none" ELSE fail[x]]
  BY DEF BackOff, Ring
<1>2. fail' \in [Cells -> {"none", "hot", "cold"}]
  BY <1>1 DEF RingTypes
<1>3. \A x \in Cells : fail'[x] = "hot" => x = c \/ fail[x] = "hot"
  BY <1>1 DEF RingTypes
<1>4. PICK r : r = Ring'
  OBVIOUS
<1>5. r = (Ring \ (l \ {c})) \cup {c}
  BY <1>1, <1>4 DEF Ring
<1>6. IsFiniteSet(Ring) /\ Cardinality(Ring) \in Nat /\ Cardinality(Ring) <= FailCap /\ FailCap \in Nat \ {0}
  BY FS_CardinalityType, IngestAssumption DEF RingTypes
<1>7. CASE c \in Ring
  <2>1. r = Ring
    BY <1>1, <1>5, <1>7
  <2> QED
    BY <1>2, <1>3, <1>4, <1>6, <2>1 DEF RingTypes
<1>8. CASE c \notin Ring /\ ~(Cardinality(Ring) >= FailCap)
  <2>1. r = Ring \cup {c}
    BY <1>1, <1>5, <1>8
  <2>2. IsFiniteSet(r) /\ Cardinality(r) = Cardinality(Ring) + 1
    BY <1>6, <1>8, <2>1, FS_AddElement
  <2>3. Cardinality(r) <= FailCap
    BY <1>6, <1>8, <2>2
  <2> QED
    BY <1>2, <1>3, <1>4, <2>2, <2>3 DEF RingTypes
<1>9. CASE c \notin Ring /\ Cardinality(Ring) >= FailCap
  <2>1. PICK x \in Ring : l = {x}
    BY <1>1, <1>9
  <2>2. x # c /\ r = (Ring \ {x}) \cup {c} /\ c \notin Ring \ {x}
    BY <1>5, <1>9, <2>1
  <2>3. IsFiniteSet(Ring \ {x}) /\ Cardinality(Ring \ {x}) = Cardinality(Ring) - 1
    BY <1>6, <2>1, FS_RemoveElement
  <2>4. IsFiniteSet(r) /\ Cardinality(r) = Cardinality(Ring \ {x}) + 1
    BY <2>2, <2>3, FS_AddElement
  <2>5. Cardinality(r) <= FailCap
    BY <1>6, <2>3, <2>4
  <2> QED
    BY <1>2, <1>3, <1>4, <2>4, <2>5 DEF RingTypes
<1> QED
  BY <1>7, <1>8, <1>9

LEMMA DoneQInv == ASSUME QInv, NEW w \in Workers, Done(w) PROVE QInv'
<1>1. /\ pc' = [pc EXCEPT ![w] = "idle"] /\ cell' = [cell EXCEPT ![w] = None]
      /\ bad' = [bad EXCEPT ![w] = FALSE] /\ got' = [got EXCEPT ![w] = {}]
      /\ cancel' = [cancel EXCEPT ![w] = FALSE]
      /\ UNCHANGED <<file, view, moves, faults, presence, queue, qins, left, cand, quit>>
      /\ cell[w] \in Cells
      /\ BackOff(cell[w]) \/ UNCHANGED fail
  BY DEF Done, persistent, QInv, Assigned
<1>2. WorkTypes' /\ DiskTypes' /\ Assigned'
  BY <1>1 DEF QInv, WorkTypes, DiskTypes, Assigned
<1>3. QueueTypes'
  BY <1>1 DEF QInv, QueueTypes
<1>4. RingTypes' /\ \A x \in Cells : fail'[x] = "hot" => x = cell[w] \/ fail[x] = "hot"
  BY <1>1, BackOffRing DEF QInv, RingTypes, Ring
<1>5. cell[w] # None
  BY <1>1, IngestAssumption
<1>6. cell' \in [Workers -> Cells \cup {None}] /\ cell \in [Workers -> Cells \cup {None}]
  BY <1>2 DEF QInv, WorkTypes
<1>7. InFlight' \subseteq InFlight \ {cell[w]} /\ cell[w] \notin Elements(queue)
  BY <1>1, <1>5, <1>6 DEF QInv, Apart, InFlight
<1>8. \A u, v \in Workers : cell'[u] = cell'[v] /\ cell'[u] # None => u = v
  BY <1>1, <1>6 DEF QInv, Apart
<1>9. Apart'
  BY <1>1, <1>4, <1>7, <1>8 DEF QInv, Apart
<1> QED
  BY <1>2, <1>3, <1>4, <1>9 DEF QInv

\* The delay after a failure ends.
LEMMA ExpireQInv == ASSUME QInv, NEW c \in Cells, Expire(c) PROVE QInv'
<1>1. /\ fail[c] = "hot" /\ fail' = [fail EXCEPT ![c] = "cold"]
      /\ UNCHANGED <<file, view, moves, faults, presence, queue, qins, pc, cell, cancel, left, got, bad,
                     cand, quit>>
  BY DEF Expire, persistent, workerVars
<1>2. WorkTypes' /\ DiskTypes' /\ Assigned' /\ QueueTypes'
  BY <1>1 DEF QInv, WorkTypes, DiskTypes, Assigned, QueueTypes
<1>3. Ring' = Ring /\ fail' \in [Cells -> {"none", "hot", "cold"}]
  BY <1>1 DEF QInv, RingTypes, Ring
<1>4. RingTypes'
  BY <1>3 DEF QInv, RingTypes
<1>5. Apart'
  BY <1>1 DEF QInv, RingTypes, Apart, InFlight
<1> QED
  BY <1>2, <1>4, <1>5 DEF QInv

LEMMA ForgetQInv == ASSUME QInv, NEW b \in Bricks, Forget(b) PROVE QInv'
<1>1. /\ presence' = [presence EXCEPT ![b] = "unknown"] /\ faults < MaxFaults /\ faults' = faults + 1
      /\ UNCHANGED <<file, view, moves, queueVars, pc, cell, cancel, left, got, bad, cand, quit>>
  BY DEF Forget, workerVars
<1>2. faults' \in 0..MaxFaults
  BY <1>1, IngestAssumption DEF QInv, WorkTypes
<1>3. WorkTypes' /\ DiskTypes' /\ Assigned'
  BY <1>1, <1>2 DEF QInv, WorkTypes, DiskTypes, Assigned
<1> QED
  BY <1>1, <1>3, QueueSame DEF QInv

LEMMA MoveQInv == ASSUME QInv, Move PROVE QInv'
<1>1. /\ view' \in Views /\ moves < MaxMoves /\ moves' = moves + 1
      /\ UNCHANGED <<file, faults, presence, queueVars, pc, cell, cancel, left, got, bad, cand, quit>>
  BY DEF Move, workerVars
<1>2. moves' \in 0..MaxMoves
  BY <1>1, IngestAssumption DEF QInv, WorkTypes
<1>3. WorkTypes' /\ DiskTypes' /\ Assigned'
  BY <1>1, <1>2 DEF QInv, WorkTypes, DiskTypes, Assigned
<1> QED
  BY <1>1, <1>3, QueueSame DEF QInv

LEMMA QuitQInv == ASSUME QInv, Quit PROVE QInv'
<1>1. /\ faults < MaxFaults /\ quit' = TRUE /\ faults' = faults + 1
      /\ pc' = [w \in Workers |-> IF pc[w] = "wait" THEN "idle" ELSE pc[w]]
      /\ UNCHANGED <<file, view, moves, presence, queueVars, cell, cancel, left, got, bad, cand>>
  BY DEF Quit
<1>2. faults' \in 0..MaxFaults
  BY <1>1, IngestAssumption DEF QInv, WorkTypes
<1>3. WorkTypes' /\ DiskTypes' /\ Assigned'
  BY <1>1, <1>2 DEF QInv, WorkTypes, DiskTypes, Assigned
<1> QED
  BY <1>1, <1>3, QueueSame DEF QInv

THEOREM StepQInv == ASSUME IInv, QInv, [Next]_vars PROVE QInv'
<1>1. ASSUME NEW w \in Workers, Wakes(w)
      PROVE  QInv'
  <2>1. WorkTypes' /\ DiskTypes' /\ Assigned'
    BY <1>1 DEF Wakes, persistent, QInv, WorkTypes, DiskTypes, Assigned
  <2> QED
    BY <1>1, <2>1, QueueSame DEF Wakes, QInv
<1>2. CASE UNCHANGED vars
  <2>1. WorkTypes' /\ DiskTypes' /\ Assigned'
    BY <1>2 DEF vars, persistent, workerVars, QInv, WorkTypes, DiskTypes, Assigned
  <2> QED
    BY <1>2, <2>1, QueueSame DEF vars, workerVars, QInv
<1>3. ASSUME NEW w \in Workers, WorkerStep(w)
      PROVE  QInv'
  BY <1>3, TakeQInv, StatQInv, FetchQInv, WriteQInv, DoneQInv DEF WorkerStep
<1>4. ASSUME NEW c \in Cells, Expire(c)
      PROVE  QInv'
  BY <1>4, ExpireQInv
<1>5. ASSUME NEW b \in Bricks, Forget(b)
      PROVE  QInv'
  BY <1>5, ForgetQInv
<1> QED
  BY <1>1, <1>2, <1>3, <1>4, <1>5, RefreshQInv, AskQInv, AskOverlayQInv, MoveQInv, QuitQInv,
     RestartQInv
  DEF Next

\* A cell is queued once and never while it is being fetched, nor while the delay
\* after its failure is running.
THEOREM OneFetcherPerCell == Spec => []OneFetcher
<1>1. Init => IInv /\ QInv
  BY InitInv, InitQInv
<1>2. IInv /\ QInv /\ [Next]_vars => (IInv /\ QInv)'
  BY StepInv, StepQInv
<1>3. QInv => OneFetcher
  BY QInvImplies
<1> QED
  BY <1>1, <1>2, <1>3, PTL DEF Spec
=============================================================================
