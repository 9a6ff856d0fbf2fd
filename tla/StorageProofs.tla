---------------------------- MODULE StorageProofs ----------------------------
(***************************************************************************)
(* What is on disk and what stands between it and a reader, for any        *)
(* constants.  Labels come back: whatever calls fail and wherever the      *)
(* program crashes, the directory holds of every brick what the last       *)
(* complete save had of it, or a later edit.  The batch the GPU decodes    *)
(* finds the bytes it was given.  And air is never a guess.                *)
(***************************************************************************)
EXTENDS LabelStore, WarmTier, DemandFetch, FiniteSetTheorems, SequenceTheorems, TLAPS

(***************************************************************************)
(* The label store.                                                        *)
(***************************************************************************)

\* What is on disk is owed, and so is what the program has in memory.
OwedOnDisk == \A b \in Bricks : file[b] \in owed[b]
OwedInMemory == at # "down" => \A b \in known : mem[b] \in owed[b]

\* A brick that does not count as dirty is on disk as it is in memory.
CleanIsSaved == at # "down" => \A b \in known \ dirty : file[b] = mem[b]

\* A save without a failure so far has left nothing dirty behind it.
SaveSoFar == at = "bricks" /\ rc = 0 => dirty \subseteq todo

LabelInv == LabelTypeOK /\ OwedOnDisk /\ OwedInMemory /\ CleanIsSaved /\ SaveSoFar

LEMMA LabelInitInv == ASSUME LabelAssumption, LabelInit PROVE LabelInv
<1>1. LabelTypeOK
  BY DEF LabelAssumption, LabelInit, LabelTypeOK
<1> QED
  BY <1>1 DEF LabelInit, LabelInv, OwedOnDisk, OwedInMemory, CleanIsSaved, SaveSoFar

\* What a load brings in is what the files hold.
LEMMA LoadKeepsOwed ==
  ASSUME LabelInv, NEW m \in [Bricks -> Labels], NEW d, NEW k, d \subseteq k, k \subseteq Bricks,
         \A b \in k : m[b] \in owed[b], \A b \in k \ d : file[b] = m[b],
         Load(m, d, k)
  PROVE  /\ mem' \in [Bricks -> Labels] /\ dirty' \subseteq known' /\ known' \subseteq Bricks
         /\ \A b \in known' : mem'[b] \in owed[b]
         /\ \A b \in known' \ dirty' : file[b] = mem'[b]
<1>1. PICK good : /\ good \subseteq {b \in Bricks : file[b] # 0}
                  /\ mem' = [b \in Bricks |-> IF b \in good THEN file[b] ELSE m[b]]
                  /\ dirty' = d \ good /\ known' = k \cup good
  BY DEF Load
<1> QED
  BY <1>1 DEF LabelInv, LabelTypeOK, OwedOnDisk

\* A program that starts has what the files hold; a directory without a manifest is
\* as good as empty.
LEMMA StartKeeps == ASSUME LabelAssumption, LabelInv, Start PROVE LabelInv'
<1>1. at' = "idle" /\ UNCHANGED <<file, manifest, todo, rc, closing, owed>>
  BY DEF Start, disk
<1>2. PICK none : none = [b \in Bricks |-> 0]
  OBVIOUS
<1>3. none \in [Bricks -> Labels]
  BY <1>2 DEF LabelAssumption
<1>4. /\ mem' \in [Bricks -> Labels] /\ dirty' \subseteq known' /\ known' \subseteq Bricks
      /\ \A b \in known' : mem'[b] \in owed[b]
      /\ \A b \in known' \ dirty' : file[b] = mem'[b]
  <2>1. CASE Load(none, {}, {})
    BY <1>3, <2>1, LoadKeepsOwed
  <2>2. CASE mem' = none /\ dirty' = {} /\ known' = {}
    BY <1>3, <2>2
  <2> QED
    BY <1>2, <2>1, <2>2 DEF Start
<1> QED
  BY <1>1, <1>4 DEF LabelInv, LabelTypeOK, OwedOnDisk, OwedInMemory, CleanIsSaved, SaveSoFar

LEMMA LoadAgainKeeps == ASSUME LabelInv, LoadAgain PROVE LabelInv'
<1>1. /\ at = "idle" /\ Load(mem, dirty, known)
      /\ UNCHANGED <<file, manifest, at, todo, rc, closing, owed>>
  BY DEF LoadAgain, disk, save
<1>2. /\ mem' \in [Bricks -> Labels] /\ dirty' \subseteq known' /\ known' \subseteq Bricks
      /\ \A b \in known' : mem'[b] \in owed[b]
      /\ \A b \in known' \ dirty' : file[b] = mem'[b]
  BY <1>1, LoadKeepsOwed DEF LabelInv, LabelTypeOK, OwedInMemory, CleanIsSaved
<1> QED
  BY <1>1, <1>2 DEF LabelInv, LabelTypeOK, OwedOnDisk, OwedInMemory, CleanIsSaved, SaveSoFar

LEMMA PaintKeeps == ASSUME LabelInv, NEW b \in Bricks, Paint(b) PROVE LabelInv'
<1>1. PICK l \in Labels : /\ mem' = [mem EXCEPT ![b] = l]
                          /\ owed' = [owed EXCEPT ![b] = @ \cup {l}]
  BY DEF Paint
<1>2. /\ at = "idle" /\ dirty' = dirty \cup {b} /\ known' = known \cup {b}
      /\ UNCHANGED <<file, manifest, at, todo, rc, closing>>
  BY DEF Paint, disk, save
<1>3. LabelTypeOK'
  BY <1>1, <1>2 DEF LabelInv, LabelTypeOK
<1>4. OwedOnDisk' /\ OwedInMemory'
  BY <1>1, <1>2 DEF LabelInv, LabelTypeOK, OwedOnDisk, OwedInMemory
<1>5. CleanIsSaved' /\ SaveSoFar'
  BY <1>1, <1>2 DEF LabelInv, LabelTypeOK, CleanIsSaved, SaveSoFar
<1> QED
  BY <1>3, <1>4, <1>5 DEF LabelInv

LEMMA SaveKeeps == ASSUME LabelInv, Save PROVE LabelInv'
<1>1. /\ at = "idle" /\ closing' \in BOOLEAN
      /\ UNCHANGED <<mem, dirty, known, file, manifest, owed>>
      /\ \/ at' = "bricks" /\ todo' = Bricks /\ rc' = 0
         \/ at' \in {"idle", "down"} /\ UNCHANGED <<todo, rc>>
  BY DEF Save, Ends, volume, disk
<1> QED
  BY <1>1 DEF LabelInv, LabelTypeOK, OwedOnDisk, OwedInMemory, CleanIsSaved, SaveSoFar

\* Every brick that is dirty is known, so that what is written is owed; a call that
\* fails leaves its brick dirty, and the save incomplete.
LEMMA SaveBrickKeeps == ASSUME LabelInv, NEW b \in Bricks, SaveBrick(b) PROVE LabelInv'
<1>1. /\ at = "bricks" /\ todo' = todo \ {b}
      /\ UNCHANGED <<mem, known, manifest, at, closing, owed>>
  BY DEF SaveBrick
<1>2. \/ b \notin dirty /\ UNCHANGED <<file, dirty, rc>>
      \/ b \in dirty /\ file' = [file EXCEPT ![b] = mem[b]] /\ dirty' = dirty \ {b} /\ UNCHANGED rc
      \/ rc' = 1 /\ UNCHANGED <<file, dirty>>
  BY DEF SaveBrick, Failed
<1>3. LabelTypeOK'
  BY <1>1, <1>2 DEF LabelInv, LabelTypeOK
<1>4. OwedOnDisk' /\ OwedInMemory'
  BY <1>1, <1>2 DEF LabelInv, LabelTypeOK, OwedOnDisk, OwedInMemory
<1>5. CleanIsSaved'
  BY <1>1, <1>2 DEF LabelInv, LabelTypeOK, CleanIsSaved
<1>6. SaveSoFar'
  BY <1>1, <1>2 DEF LabelInv, SaveSoFar
<1> QED
  BY <1>3, <1>4, <1>5, <1>6 DEF LabelInv

\* When a save is complete nothing is dirty, so that every file is as its brick in
\* memory, and nothing older is owed.
LEMMA SaveManifestKeeps == ASSUME LabelInv, SaveManifest PROVE LabelInv'
<1>1. /\ at = "bricks" /\ todo = {} /\ rc' = 0 /\ closing' = FALSE
      /\ at' \in {"idle", "down"} /\ manifest' \in BOOLEAN
      /\ UNCHANGED <<mem, dirty, known, file, todo>>
  BY DEF SaveManifest, Ends, volume, LabelInv, LabelTypeOK
<1>2. \/ UNCHANGED owed
      \/ /\ rc = 0
         /\ owed' = [b \in Bricks |-> IF b \in known THEN {mem[b]} ELSE owed[b]]
  BY DEF SaveManifest
<1>3. LabelTypeOK'
  <2>1. owed' \in [Bricks -> SUBSET Labels]
    BY <1>2 DEF LabelInv, LabelTypeOK
  <2>2. closing' \in BOOLEAN /\ rc' \in {0, 1} /\ at' \in {"down", "idle", "bricks"}
    BY <1>1
  <2> QED
    BY <1>1, <2>1, <2>2 DEF LabelInv, LabelTypeOK
<1>4. OwedOnDisk' /\ OwedInMemory'
  <2>1. CASE UNCHANGED owed
    BY <1>1, <2>1 DEF LabelInv, OwedOnDisk, OwedInMemory
  <2>2. CASE /\ rc = 0
             /\ owed' = [b \in Bricks |-> IF b \in known THEN {mem[b]} ELSE owed[b]]
    <3>1. dirty = {}
      BY <1>1, <2>2 DEF LabelInv, SaveSoFar
    <3>2. \A b \in known : file[b] = mem[b]
      BY <1>1, <3>1 DEF LabelInv, CleanIsSaved
    <3> QED
      BY <1>1, <2>2, <3>2 DEF LabelInv, LabelTypeOK, OwedOnDisk, OwedInMemory
  <2> QED
    BY <1>2, <2>1, <2>2
<1>5. CleanIsSaved' /\ SaveSoFar'
  BY <1>1 DEF LabelInv, CleanIsSaved, SaveSoFar
<1> QED
  BY <1>3, <1>4, <1>5 DEF LabelInv

LEMMA CrashKeeps == ASSUME LabelInv, Crash PROVE LabelInv'
<1>1. /\ at' = "down" /\ todo' = {} /\ rc' = 0 /\ closing' = FALSE
      /\ UNCHANGED <<mem, dirty, known, file, manifest, owed>>
  BY DEF Crash, volume, disk
<1> QED
  BY <1>1 DEF LabelInv, LabelTypeOK, OwedOnDisk, OwedInMemory, CleanIsSaved, SaveSoFar

\* Every step of the interface, of a save and of a start, and every crash, keeps the
\* invariant.
THEOREM LabelStep == ASSUME LabelAssumption, LabelInv, [LabelNext]_labelVars PROVE LabelInv'
<1>1. CASE UNCHANGED labelVars
  BY <1>1 DEF labelVars, volume, disk, save, LabelInv, LabelTypeOK, OwedOnDisk, OwedInMemory,
              CleanIsSaved, SaveSoFar
<1> QED
  BY <1>1, StartKeeps, LoadAgainKeeps, PaintKeeps, SaveKeeps, SaveBrickKeeps, SaveManifestKeeps,
     CrashKeeps
  DEF LabelNext

\* The directory has of every brick what the last complete save had, or a later
\* edit, however saves fail and the program ends.
THEOREM LabelsStay == ASSUME LabelAssumption PROVE LabelSpec => []LabelsComeBack
<1>1. LabelInit => LabelInv
  BY LabelInitInv
<1>2. LabelInv /\ [LabelNext]_labelVars => LabelInv'
  BY LabelStep
<1>3. LabelInv => LabelsComeBack
  BY DEF LabelInv, OwedOnDisk, CleanIsSaved, LabelsComeBack
<1> QED
  BY <1>1, <1>2, <1>3, PTL DEF LabelSpec

-----------------------------------------------------------------------------
(***************************************************************************)
(* The warm tier: the list of free spans.                                  *)
(***************************************************************************)

LEMMA RemoveAtIs ==
  ASSUME NEW S, NEW s \in Seq(S), NEW i \in 1..Len(s)
  PROVE  /\ RemoveAt(s, i) \in Seq(S) /\ Len(RemoveAt(s, i)) = Len(s) - 1
         /\ \A j \in 1..(Len(s) - 1) :
              RemoveAt(s, i)[j] = IF j < i THEN s[j] ELSE s[j + 1]
<1> DEFINE a == SubSeq(s, 1, i - 1)
           b == SubSeq(s, i + 1, Len(s))
<1>1. a \in Seq(S) /\ Len(a) = i - 1 /\ \A j \in 1..(i - 1) : a[j] = s[j]
  OBVIOUS
<1>2. b \in Seq(S) /\ Len(b) = Len(s) - i /\ \A j \in 1..(Len(s) - i) : b[j] = s[i + j]
  OBVIOUS
<1>3. RemoveAt(s, i) = a \o b
  BY DEF RemoveAt
<1> HIDE DEF a, b
<1>4. /\ a \o b \in Seq(S) /\ Len(a \o b) = Len(s) - 1
      /\ \A j \in 1..(Len(s) - 1) : (a \o b)[j] = IF j <= Len(a) THEN a[j] ELSE b[j - Len(a)]
  <2>1. Len(a) + Len(b) = Len(s) - 1
    BY <1>1, <1>2
  <2>2. /\ a \o b \in Seq(S) /\ Len(a \o b) = Len(a) + Len(b)
        /\ \A j \in 1..(Len(a) + Len(b)) : (a \o b)[j] = IF j <= Len(a) THEN a[j] ELSE b[j - Len(a)]
    BY <1>1, <1>2, ConcatProperties
  <2> QED
    BY <2>1, <2>2
<1>5. ASSUME NEW j \in 1..(Len(s) - 1) PROVE RemoveAt(s, i)[j] = IF j < i THEN s[j] ELSE s[j + 1]
  <2>1. CASE j < i
    BY <2>1, <1>1, <1>3, <1>4
  <2>2. CASE j >= i
    <3>1. j - (i - 1) \in 1..(Len(s) - i)
      BY <2>2
    <3>2. b[j - (i - 1)] = s[i + (j - (i - 1))]
      BY <3>1, <1>2
    <3>3. i + (j - (i - 1)) = j + 1
      OBVIOUS
    <3> QED
      BY <2>2, <3>2, <3>3, <1>1, <1>3, <1>4
  <2> QED
    BY <2>1, <2>2
<1> QED
  BY <1>3, <1>4, <1>5

LEMMA InsertAtIs ==
  ASSUME NEW S, NEW s \in Seq(S), NEW i \in 1..(Len(s) + 1), NEW e \in S
  PROVE  /\ InsertAt(s, i, e) \in Seq(S) /\ Len(InsertAt(s, i, e)) = Len(s) + 1
         /\ \A j \in 1..(i - 1) : InsertAt(s, i, e)[j] = s[j]
         /\ InsertAt(s, i, e)[i] = e
         /\ \A j \in (i + 1)..(Len(s) + 1) : InsertAt(s, i, e)[j] = s[j - 1]
<1> DEFINE a == SubSeq(s, 1, i - 1)
           b == SubSeq(s, i, Len(s))
           c == a \o <<e>>
<1>1. a \in Seq(S) /\ Len(a) = i - 1 /\ \A j \in 1..(i - 1) : a[j] = s[j]
  OBVIOUS
<1>2. b \in Seq(S) /\ Len(b) = Len(s) - i + 1 /\ \A j \in 1..(Len(s) - i + 1) : b[j] = s[i + j - 1]
  OBVIOUS
<1>3. InsertAt(s, i, e) = c \o b
  BY DEF InsertAt
<1> HIDE DEF a, b
<1>4. c \in Seq(S) /\ Len(c) = i /\ c[i] = e /\ \A j \in 1..(i - 1) : c[j] = s[j]
  BY <1>1
<1> HIDE DEF c
<1>5. /\ c \o b \in Seq(S) /\ Len(c \o b) = Len(s) + 1
      /\ \A j \in 1..(Len(s) + 1) : (c \o b)[j] = IF j <= Len(c) THEN c[j] ELSE b[j - Len(c)]
  <2>1. Len(c) + Len(b) = Len(s) + 1
    BY <1>2, <1>4
  <2>2. /\ c \o b \in Seq(S) /\ Len(c \o b) = Len(c) + Len(b)
        /\ \A j \in 1..(Len(c) + Len(b)) : (c \o b)[j] = IF j <= Len(c) THEN c[j] ELSE b[j - Len(c)]
    BY <1>2, <1>4, ConcatProperties
  <2> QED
    BY <2>1, <2>2
<1>6. ASSUME NEW j \in 1..i PROVE InsertAt(s, i, e)[j] = c[j]
  BY <1>3, <1>4, <1>5
<1>7. ASSUME NEW j \in (i + 1)..(Len(s) + 1) PROVE InsertAt(s, i, e)[j] = s[j - 1]
  <2>1. j - i \in 1..(Len(s) - i + 1) /\ j \in 1..(Len(s) + 1) /\ ~(j <= i)
    OBVIOUS
  <2>2. b[j - i] = s[i + (j - i) - 1]
    BY <2>1, <1>2
  <2>3. i + (j - i) - 1 = j - 1
    OBVIOUS
  <2>4. (c \o b)[j] = b[j - i]
    BY <1>4, <1>5, <2>1
  <2> QED
    BY <1>3, <2>2, <2>3, <2>4
<1>8. i \in 1..i /\ \A j \in 1..(i - 1) : j \in 1..i
  OBVIOUS
<1> QED
  BY <1>3, <1>4, <1>5, <1>6, <1>7, <1>8

\* A free list is sorted, its nodes do not touch and stay inside the arena.
Sorted(fl) ==
  /\ fl \in Seq(Nodes)
  /\ \A i \in 1..Len(fl) : EndOf(fl[i]) <= Cap
  /\ \A i, j \in 1..Len(fl) : i < j => EndOf(fl[i]) < fl[j].off

Covers(fl, g) == \E i \in 1..Len(fl) : fl[i].off <= g /\ g < EndOf(fl[i])

LEMMA InSpan ==
  ASSUME NEW off \in Nat, NEW len \in Nat
  PROVE  \A g \in Int : g \in Span(off, len) <=> off <= g /\ g < off + len
BY DEF Span

\* warm_alloc takes the front of a node that is long enough.
LEMMA TakenKeeps ==
  ASSUME WarmAssumption, Sorted(wfree), NEW len \in Nat \ {0}, NEW i \in Fits(len)
  PROVE  /\ Sorted(Taken(i, len))
         /\ wfree[i].off \in 0..(Cap - 1) /\ wfree[i].off + len <= Cap
         /\ \A g \in Nat : Covers(Taken(i, len), g) <=>
              Covers(wfree, g) /\ ~(wfree[i].off <= g /\ g < wfree[i].off + len)
         /\ \A g \in Nat : wfree[i].off <= g /\ g < wfree[i].off + len => Covers(wfree, g)
<1> DEFINE n == Len(wfree)
           t == Taken(i, len)
           o == [k \in 1..n |-> wfree[k].off]
           l == [k \in 1..n |-> wfree[k].len]
<1>0. Cap \in Nat /\ n \in Nat /\ Len(wfree) = n /\ wfree \in Seq(Nodes)
  BY DEF WarmAssumption, Sorted
<1>1. i \in 1..n /\ wfree[i].len >= len
  BY DEF Fits, Sorted
<1>2. \A k \in 1..n : /\ wfree[k] \in Nodes /\ o[k] = wfree[k].off /\ l[k] = wfree[k].len
                      /\ o[k] \in 0..(Cap - 1) /\ l[k] \in 1..Cap
                      /\ EndOf(wfree[k]) = o[k] + l[k] /\ o[k] + l[k] <= Cap
  <2> TAKE k \in 1..n
  <2>1. wfree[k] \in Nodes /\ EndOf(wfree[k]) <= Cap
    BY DEF Sorted
  <2>2. wfree[k].off \in 0..(Cap - 1) /\ wfree[k].len \in 1..Cap
    BY <2>1 DEF Nodes
  <2>3. o[k] = wfree[k].off /\ l[k] = wfree[k].len
    OBVIOUS
  <2> QED
    BY <2>1, <2>2, <2>3 DEF EndOf
<1>3. \A j, k \in 1..n : j < k => o[j] + l[j] < o[k]
  BY <1>2 DEF Sorted
<1> HIDE DEF n, o, l
<1>4. CASE wfree[i].len = len
  <2>1. t = RemoveAt(wfree, i)
    BY <1>4 DEF Taken
  <2>2. /\ t \in Seq(Nodes) /\ Len(t) = n - 1
        /\ \A j \in 1..(n - 1) : t[j] = IF j < i THEN wfree[j] ELSE wfree[j + 1]
    BY <1>0, <1>1, <2>1, RemoveAtIs
  <2> DEFINE s(j) == IF j < i THEN j ELSE j + 1
  <2>3. \A j \in 1..(n - 1) : s(j) \in 1..n /\ s(j) # i /\ t[j] = wfree[s(j)]
    BY <1>0, <1>1, <2>2
  <2>4. \A j, k \in 1..(n - 1) : j < k => s(j) < s(k)
    BY <1>0, <1>1
  <2>5. \A k \in 1..n : k # i => \E j \in 1..(n - 1) : s(j) = k
    <3> TAKE k \in 1..n
    <3>1. CASE k < i
      BY <1>0, <1>1, <3>1
    <3>2. CASE k > i
      <4>1. k - 1 \in 1..(n - 1) /\ s(k - 1) = k
        BY <1>0, <1>1, <3>2
      <4> QED
        BY <4>1
    <3> QED
      BY <1>1, <3>1, <3>2
  <2> HIDE DEF s, t
  <2>6. Sorted(t)
    <3>1. \A j \in 1..Len(t) : EndOf(t[j]) <= Cap
      BY <1>2, <2>2, <2>3
    <3>2. \A j, k \in 1..Len(t) : j < k => EndOf(t[j]) < t[k].off
      BY <1>2, <1>3, <2>2, <2>3, <2>4
    <3> QED
      BY <2>2, <3>1, <3>2 DEF Sorted
  <2>7. ASSUME NEW g \in Nat
        PROVE  Covers(t, g) <=> Covers(wfree, g) /\ ~(o[i] <= g /\ g < o[i] + len)
    <3>0. \A j \in 1..(n - 1) : t[j].off = o[s(j)] /\ EndOf(t[j]) = o[s(j)] + l[s(j)]
      BY <1>2, <2>3
    <3>1. Covers(t, g) <=> \E j \in 1..(n - 1) : o[s(j)] <= g /\ g < o[s(j)] + l[s(j)]
      BY <2>2, <3>0 DEF Covers
    <3>2. Covers(wfree, g) <=> \E k \in 1..n : o[k] <= g /\ g < o[k] + l[k]
      BY <1>0, <1>2 DEF Covers
    <3>3. ASSUME Covers(t, g) PROVE Covers(wfree, g) /\ ~(o[i] <= g /\ g < o[i] + len)
      <4>1. PICK j \in 1..(n - 1) : o[s(j)] <= g /\ g < o[s(j)] + l[s(j)]
        BY <3>1, <3>3
      <4>2. PICK k : k = s(j)
        OBVIOUS
      <4>3. k \in 1..n /\ k # i /\ o[k] <= g /\ g < o[k] + l[k]
        BY <2>3, <4>1, <4>2
      <4>4. k < i \/ i < k
        BY <1>1, <4>3
      <4>5. o[i] \in Nat /\ l[i] = len /\ o[k] \in Nat /\ l[k] \in Nat
        BY <1>1, <1>2, <1>4, <4>3
      <4>6. (k < i => o[k] + l[k] < o[i]) /\ (i < k => o[i] + l[i] < o[k])
        BY <1>1, <1>3, <4>3
      <4> QED
        BY <3>2, <4>3, <4>4, <4>5, <4>6
    <3>4. ASSUME Covers(wfree, g), ~(o[i] <= g /\ g < o[i] + len) PROVE Covers(t, g)
      <4>1. PICK k \in 1..n : o[k] <= g /\ g < o[k] + l[k]
        BY <3>2, <3>4
      <4>2. k # i
        BY <1>1, <1>2, <1>4, <3>4, <4>1
      <4>3. PICK j \in 1..(n - 1) : s(j) = k
        BY <2>5, <4>2
      <4> QED
        BY <3>1, <4>1, <4>3
    <3> QED
      BY <3>3, <3>4
  <2> QED
    <3>1. \A g \in Nat : o[i] <= g /\ g < o[i] + len => Covers(wfree, g)
      BY <1>0, <1>1, <1>2, <1>4 DEF Covers
    <3> QED
      BY <1>0, <1>1, <1>2, <1>4, <2>6, <2>7, <3>1 DEF t
<1>5. CASE wfree[i].len # len
  <2>1. t = [wfree EXCEPT ![i] = [off |-> o[i] + len, len |-> l[i] - len]]
    BY <1>1, <1>2, <1>5 DEF Taken
  <2>2. [off |-> o[i] + len, len |-> l[i] - len] \in Nodes
    <3>1. o[i] \in Nat /\ l[i] \in Nat /\ l[i] > len /\ o[i] + l[i] <= Cap
      BY <1>1, <1>2, <1>5
    <3> QED
      BY <1>0, <3>1 DEF Nodes
  <2>3. t \in Seq(Nodes) /\ Len(t) = n
    BY <1>0, <1>1, <2>1, <2>2
  <2>4. \A k \in 1..n : t[k] = IF k = i THEN [off |-> o[i] + len, len |-> l[i] - len] ELSE wfree[k]
    BY <1>0, <1>1, <2>1
  <2> HIDE DEF t
  <2> DEFINE p(k) == IF k = i THEN o[i] + len ELSE o[k]
  <2>5. \A k \in 1..n : t[k].off = p(k) /\ EndOf(t[k]) = o[k] + l[k]
    BY <1>1, <1>2, <2>4 DEF EndOf
  <2>6. \A k \in 1..n : o[k] <= p(k) /\ p(k) \in Nat
    BY <1>1, <1>2
  <2>7. Sorted(t)
    <3>1. \A j \in 1..Len(t) : EndOf(t[j]) <= Cap
      BY <1>2, <2>3, <2>5
    <3>2. ASSUME NEW j \in 1..n, NEW k \in 1..n, j < k PROVE EndOf(t[j]) < t[k].off
      <4>1. o[j] + l[j] < o[k]
        BY <1>3, <3>2
      <4> QED
        BY <1>2, <2>5, <2>6, <4>1
    <3> QED
      BY <2>3, <3>1, <3>2 DEF Sorted
  <2>8. ASSUME NEW g \in Nat
        PROVE  Covers(t, g) <=> Covers(wfree, g) /\ ~(o[i] <= g /\ g < o[i] + len)
    <3>1. Covers(t, g) <=> \E k \in 1..n : p(k) <= g /\ g < o[k] + l[k]
      BY <2>3, <2>5 DEF Covers
    <3>2. Covers(wfree, g) <=> \E k \in 1..n : o[k] <= g /\ g < o[k] + l[k]
      BY <1>0, <1>2 DEF Covers
    <3>3. ASSUME Covers(t, g) PROVE Covers(wfree, g) /\ ~(o[i] <= g /\ g < o[i] + len)
      <4>1. PICK k \in 1..n : p(k) <= g /\ g < o[k] + l[k]
        BY <3>1, <3>3
      <4>2. o[k] <= g
        BY <1>2, <2>6, <4>1
      <4>3. k < i \/ i < k \/ k = i
        BY <1>1
      <4>5. /\ o[i] \in Nat /\ l[i] \in Nat /\ l[i] >= len /\ o[k] \in Nat /\ l[k] \in Nat
        BY <1>1, <1>2
      <4>6. (k < i => o[k] + l[k] < o[i]) /\ (i < k => o[i] + l[i] < o[k])
        BY <1>1, <1>3
      <4>7. ~(o[i] <= g /\ g < o[i] + len)
        <5>1. CASE k = i
          BY <4>1, <4>5, <5>1
        <5>2. CASE k < i
          BY <4>1, <4>5, <4>6, <5>2
        <5>3. CASE i < k
          BY <4>2, <4>5, <4>6, <5>3
        <5> QED
          BY <4>3, <5>1, <5>2, <5>3
      <4> QED
        BY <3>2, <4>1, <4>2, <4>7
    <3>4. ASSUME Covers(wfree, g), ~(o[i] <= g /\ g < o[i] + len) PROVE Covers(t, g)
      <4>1. PICK k \in 1..n : o[k] <= g /\ g < o[k] + l[k]
        BY <3>2, <3>4
      <4>2. p(k) <= g
        BY <1>1, <1>2, <3>4, <4>1
      <4> QED
        BY <3>1, <4>1, <4>2
    <3> QED
      BY <3>3, <3>4
  <2>9. \A g \in Nat : o[i] <= g /\ g < o[i] + len => Covers(wfree, g)
    <3> SUFFICES ASSUME NEW g \in Nat, o[i] <= g, g < o[i] + len
                 PROVE  wfree[i].off <= g /\ g < EndOf(wfree[i])
      BY <1>0, <1>1 DEF Covers
    <3>1. /\ o[i] = wfree[i].off /\ l[i] = wfree[i].len
          /\ o[i] \in Nat /\ l[i] \in Nat /\ EndOf(wfree[i]) = o[i] + l[i]
      BY <1>0, <1>1, <1>2
    <3>2. g < o[i] + l[i]
      BY <1>1, <3>1
    <3> QED
      BY <3>1, <3>2
  <2>10. wfree[i].off = o[i] /\ o[i] \in 0..(Cap - 1) /\ o[i] + len <= Cap
    <3>1. i \in 1..n /\ wfree[i].len >= len
      BY <1>1
    <3>2. /\ o[i] = wfree[i].off /\ l[i] = wfree[i].len
          /\ o[i] \in 0..(Cap - 1) /\ l[i] \in 1..Cap /\ o[i] + l[i] <= Cap
      BY <1>2, <3>1
    <3>3. l[i] >= len
      BY <3>1, <3>2
    <3>4. o[i] + len <= Cap
      BY <1>0, <3>2, <3>3
    <3> QED
      BY <3>2, <3>4
  <2> QED
    BY <2>7, <2>8, <2>9, <2>10 DEF t
<1> QED
  BY <1>4, <1>5

\* A set of numbers that is closed downwards is an interval.
LEMMA Downwards ==
  ASSUME NEW n \in Nat, NEW S \in SUBSET (1..n),
         \A i \in S : \A j \in 1..n : j <= i => j \in S
  PROVE  Cardinality(S) \in 0..n /\ S = 1..Cardinality(S)
<1>1. IsFiniteSet(1..n) /\ Cardinality(1..n) = n
  <2>1. Cardinality(1..n) = IF 1 <= n THEN n - 1 + 1 ELSE 0
    BY FS_Interval
  <2> QED
    BY <2>1, FS_Interval
<1>2. IsFiniteSet(S) /\ Cardinality(S) <= n /\ Cardinality(S) \in Nat
  BY <1>1, FS_Subset, FS_CardinalityType
<1>3. PICK c \in 0..n : c = Cardinality(S)
  BY <1>2
<1>4. IsFiniteSet(1..c) /\ Cardinality(1..c) = c
  <2>1. Cardinality(1..c) = IF 1 <= c THEN c - 1 + 1 ELSE 0
    BY FS_Interval
  <2> QED
    BY <2>1, FS_Interval
<1>5. S \subseteq 1..c
  <2> SUFFICES ASSUME NEW i \in S PROVE i <= c
    OBVIOUS
  <2>1. i \in 1..n /\ 1..i \subseteq S
    OBVIOUS
  <2>2. Cardinality(1..i) = i
    <3>1. Cardinality(1..i) = IF 1 <= i THEN i - 1 + 1 ELSE 0
      BY <2>1, FS_Interval
    <3> QED
      BY <2>1, <3>1
  <2>3. Cardinality(1..i) <= Cardinality(S)
    BY <1>2, <2>1, FS_Subset
  <2> QED
    BY <1>3, <2>2, <2>3
<1>6. S = 1..c
  BY <1>3, <1>4, <1>5, FS_Subset
<1> QED
  BY <1>3, <1>6

\* Where warm_release stops in the list.
LEMMA BeforeSplits ==
  ASSUME Cap \in Nat, NEW fl, Sorted(fl), NEW off \in Nat
  PROVE  /\ Before(fl, off) \in 0..Len(fl)
         /\ \A i \in 1..Len(fl) : i <= Before(fl, off) <=> fl[i].off < off
<1> DEFINE n == Len(fl)
           S == {i \in DOMAIN fl : fl[i].off < off}
<1>1. n \in Nat /\ DOMAIN fl = 1..n
  BY DEF Sorted
<1>2. \A i \in 1..n : fl[i].off \in Nat /\ fl[i].len \in Nat
  <2> TAKE i \in 1..n
  <2>1. fl[i] \in Nodes
    BY DEF Sorted
  <2> QED
    BY <2>1 DEF Nodes
<1>3. \A i, j \in 1..n : j < i => fl[j].off < fl[i].off
  <2> TAKE i, j \in 1..n
  <2> HAVE j < i
  <2>1. fl[j].off + fl[j].len < fl[i].off
    BY DEF Sorted, EndOf
  <2> QED
    BY <1>2, <2>1
<1>4. S \in SUBSET (1..n) /\ \A i \in S : \A j \in 1..n : j <= i => j \in S
  BY <1>1, <1>2, <1>3
<1> HIDE DEF n, S
<1>5. Cardinality(S) \in 0..n /\ S = 1..Cardinality(S)
  BY <1>1, <1>4, Downwards
<1>6. \A i \in 1..n : i \in S <=> i <= Cardinality(S)
  BY <1>1, <1>5
<1> QED
  BY <1>1, <1>5, <1>6 DEF n, S, Before

\* warm_release gives back a block that is not free and joins it to its
\* neighbours.
LEMMA ReleasedKeeps ==
  ASSUME WarmAssumption, NEW fl, Sorted(fl),
         NEW off \in Nat, NEW len \in Nat \ {0}, off + len <= Cap,
         \A g \in Nat : off <= g /\ g < off + len => ~Covers(fl, g)
  PROVE  /\ Sorted(Released(fl, off, len))
         /\ \A g \in Nat : Covers(Released(fl, off, len), g) <=>
              Covers(fl, g) \/ (off <= g /\ g < off + len)
<1> DEFINE n == Len(fl)
           b == Before(fl, off)
           o == [k \in 1..n |-> fl[k].off]
           e == [k \in 1..n |-> fl[k].off + fl[k].len]
           r == Released(fl, off, len)
           node == [off |-> off, len |-> len]
<1>0. Cap \in Nat /\ n \in Nat /\ Len(fl) = n /\ fl \in Seq(Nodes)
  BY DEF WarmAssumption, Sorted
<1>1. \A k \in 1..n : /\ fl[k] \in Nodes /\ o[k] = fl[k].off /\ EndOf(fl[k]) = e[k]
                      /\ o[k] \in 0..(Cap - 1) /\ e[k] \in 1..Cap /\ o[k] < e[k]
                      /\ fl[k] = [off |-> o[k], len |-> e[k] - o[k]]
  <2> TAKE k \in 1..n
  <2>1. fl[k] \in Nodes /\ EndOf(fl[k]) <= Cap
    BY DEF Sorted
  <2>2. /\ fl[k].off \in 0..(Cap - 1) /\ fl[k].len \in 1..Cap
        /\ fl[k] = [off |-> fl[k].off, len |-> fl[k].len]
    BY <2>1 DEF Nodes
  <2>3. o[k] = fl[k].off /\ e[k] = fl[k].off + fl[k].len
    OBVIOUS
  <2>4. e[k] - o[k] = fl[k].len
    BY <2>2, <2>3
  <2> QED
    BY <1>0, <2>1, <2>2, <2>3, <2>4 DEF EndOf
<1>2. \A j, k \in 1..n : j < k => e[j] < o[k]
  BY <1>1 DEF Sorted
<1>3. b \in 0..n /\ \A k \in 1..n : k <= b <=> o[k] < off
  BY <1>0, <1>1, BeforeSplits
<1>4. \A g \in Nat : Covers(fl, g) <=> \E k \in 1..n : o[k] <= g /\ g < e[k]
  BY <1>0, <1>1 DEF Covers
<1> HIDE DEF n, o, e, b
<1>n. \A k \in 1..n : o[k] \in Nat /\ e[k] \in Nat /\ o[k] < e[k] /\ e[k] <= Cap
  BY <1>0, <1>1
<1>b. b \in 0..n
  BY <1>3
<1>5. \A k \in 1..n : (k <= b => e[k] <= off) /\ (b < k => off + len <= o[k])
  <2> TAKE k \in 1..n
  <2>0. o[k] \in Nat /\ e[k] \in Nat /\ o[k] < e[k] /\ b \in Nat
    BY <1>n, <1>3
  <2>1. ASSUME k <= b PROVE e[k] <= off
    <3>1. o[k] < off
      BY <1>3, <2>1
    <3>2. ~(o[k] <= off /\ off < e[k])
      BY <1>4
    <3> QED
      BY <2>0, <3>1, <3>2
  <2>2. ASSUME b < k PROVE off + len <= o[k]
    <3>1. off <= o[k]
      BY <1>3, <2>0, <2>2
    <3>2. ~(off <= o[k] /\ o[k] < off + len)
      BY <1>4, <2>0
    <3> QED
      BY <2>0, <3>1, <3>2
  <2> QED
    BY <2>1, <2>2
<1> DEFINE next == b < n /\ off + len = o[b + 1]
           prev == b > 0 /\ e[b] = off
           grown == IF next THEN [off |-> off, len |-> len + (e[b + 1] - o[b + 1])] ELSE node
           rest == IF next THEN RemoveAt(fl, b + 1) ELSE fl
<1>6. r = IF prev THEN [rest EXCEPT ![b].len = @ + grown.len] ELSE InsertAt(rest, b + 1, grown)
  <2>1. (b < Len(fl) /\ EndOf(node) = fl[b + 1].off) <=> next
    BY <1>0, <1>1, <1>3 DEF EndOf
  <2>2. (b > 0 /\ EndOf(fl[b]) = off) <=> prev
    BY <1>0, <1>1, <1>3
  <2>3. next => fl[b + 1].len = e[b + 1] - o[b + 1]
    BY <1>0, <1>1, <1>3
  <2>4. grown = IF next THEN [node EXCEPT !.len = @ + fl[b + 1].len] ELSE node
    BY <2>3
  <2> QED
    BY <2>1, <2>2, <2>4 DEF Released, b
<1> HIDE DEF r
<1>7. CASE next /\ prev
  <2> DEFINE s(j) == IF j <= b THEN j ELSE j + 1
  <2>0. b \in 1..(n - 1) /\ b + 1 \in 1..n /\ b \in 1..n
    BY <1>0, <1>3, <1>7
  <2>1. /\ rest \in Seq(Nodes) /\ Len(rest) = n - 1
        /\ \A j \in 1..(n - 1) : rest[j] = IF j < b + 1 THEN fl[j] ELSE fl[j + 1]
    BY <1>0, <1>7, <2>0, RemoveAtIs, ZenonT(40)
  <2> HIDE DEF rest
  <2>2. rest[b] = [off |-> o[b], len |-> e[b] - o[b]]
    BY <1>1, <1>0, <2>0, <2>1
  <2>3. [rest[b] EXCEPT !.len = @ + grown.len] = [off |-> o[b], len |-> e[b + 1] - o[b]]
    <3>1. grown.len = len + (e[b + 1] - o[b + 1])
      BY <1>7
    <3>2. e[b] - o[b] + (len + (e[b + 1] - o[b + 1])) = e[b + 1] - o[b]
      BY <1>n, <1>7, <2>0
    <3> QED
      BY <2>2, <3>1, <3>2
  <2>4. [off |-> o[b], len |-> e[b + 1] - o[b]] \in Nodes
    <3>0. e[b] < o[b + 1]
      BY <1>2, <2>0
    <3>1. o[b] \in 0..(Cap - 1) /\ e[b + 1] \in 1..Cap /\ o[b] < e[b + 1]
      BY <1>0, <1>n, <2>0, <3>0
    <3> QED
      BY <1>0, <3>1 DEF Nodes
  <2>5. r = [rest EXCEPT ![b] = [off |-> o[b], len |-> e[b + 1] - o[b]]]
    BY <1>6, <1>7, <2>3
  <2>6. /\ r \in Seq(Nodes) /\ Len(r) = n - 1
        /\ \A j \in 1..(n - 1) : r[j] = IF j = b THEN [off |-> o[b], len |-> e[b + 1] - o[b]]
                                                 ELSE rest[j]
    BY <2>0, <2>1, <2>4, <2>5
  <2>7. \A j \in 1..(n - 1) : /\ s(j) \in 1..n
                              /\ r[j].off = o[s(j)]
                              /\ EndOf(r[j]) = IF j = b THEN e[b + 1] ELSE e[s(j)]
    <3> TAKE j \in 1..(n - 1)
    <3>1. CASE j = b
      <4>1. r[j] = [off |-> o[b], len |-> e[b + 1] - o[b]]
        BY <2>6, <3>1
      <4>2. o[b] + (e[b + 1] - o[b]) = e[b + 1]
        BY <1>n, <2>0
      <4>3. s(j) = b
        BY <2>0, <3>1
      <4> QED
        BY <2>0, <3>1, <4>1, <4>2, <4>3 DEF EndOf
    <3>2. CASE j # b
      <4>1. r[j] = fl[s(j)] /\ s(j) \in 1..n
        BY <1>0, <1>3, <2>0, <2>1, <2>6, <3>2
      <4> QED
        BY <1>1, <3>2, <4>1
    <3> QED
      BY <3>1, <3>2
  <2>8. \A j, k \in 1..(n - 1) : j < k => s(j) < s(k) /\ (j = b => b + 1 < s(k))
    BY <1>0, <1>3
  <2>9. \A k \in 1..n : k # b + 1 => \E j \in 1..(n - 1) : s(j) = k
    <3> TAKE k \in 1..n
    <3>1. CASE k <= b
      BY <1>0, <2>0, <3>1
    <3>2. CASE k > b + 1
      <4>1. k - 1 \in 1..(n - 1) /\ s(k - 1) = k
        BY <1>0, <2>0, <3>2
      <4> QED
        BY <4>1
    <3> QED
      BY <2>0, <3>1, <3>2
  <2>10. s(b) = b
    BY <2>0
  <2> HIDE DEF s
  <2>11. Sorted(r)
    <3>1. ASSUME NEW j \in 1..(n - 1) PROVE EndOf(r[j]) <= Cap
      BY <1>n, <2>0, <2>7
    <3>2. ASSUME NEW j \in 1..(n - 1), NEW k \in 1..(n - 1), j < k PROVE EndOf(r[j]) < r[k].off
      <4>1. CASE j = b
        BY <1>2, <2>0, <2>7, <2>8, <3>2, <4>1
      <4>2. CASE j # b
        BY <1>2, <2>7, <2>8, <3>2, <4>2
      <4> QED
        BY <4>1, <4>2
    <3> QED
      BY <2>6, <3>1, <3>2 DEF Sorted
  <2>12. ASSUME NEW g \in Nat
         PROVE  Covers(r, g) <=> Covers(fl, g) \/ (off <= g /\ g < off + len)
    <3>1. Covers(r, g) <=> \E j \in 1..(n - 1) : r[j].off <= g /\ g < EndOf(r[j])
      BY <2>6 DEF Covers
    <3>2. ASSUME Covers(r, g) PROVE Covers(fl, g) \/ (off <= g /\ g < off + len)
      <4>1. PICK j \in 1..(n - 1) : r[j].off <= g /\ g < EndOf(r[j])
        BY <3>1, <3>2
      <4>2. CASE j # b
        BY <1>4, <2>7, <4>1, <4>2
      <4>3. CASE j = b
        <5>1. o[b] <= g /\ g < e[b + 1]
          BY <2>7, <2>10, <4>1, <4>3
        <5>2. /\ o[b] \in Nat /\ e[b] \in Nat /\ o[b + 1] \in Nat /\ e[b + 1] \in Nat
              /\ e[b] = off /\ o[b + 1] = off + len
          BY <1>n, <1>7, <2>0
        <5>3. g < e[b] \/ (off <= g /\ g < off + len) \/ o[b + 1] <= g
          BY <5>1, <5>2
        <5> QED
          BY <1>4, <2>0, <5>1, <5>3
      <4> QED
        BY <4>2, <4>3
    <3>3. ASSUME Covers(fl, g) PROVE Covers(r, g)
      <4>1. PICK k \in 1..n : o[k] <= g /\ g < e[k]
        BY <1>4, <3>3
      <4>2. CASE k = b + 1
        <5>1. o[b] <= g /\ g < e[b + 1]
          <6>1. o[b] < o[b + 1] /\ o[b] \in Nat /\ o[b + 1] \in Nat
            BY <1>n, <1>2, <2>0
          <6> QED
            BY <4>1, <4>2, <6>1
        <5> QED
          BY <2>0, <2>7, <2>10, <3>1, <5>1
      <4>3. CASE k # b + 1
        <5>1. PICK j \in 1..(n - 1) : s(j) = k
          BY <2>9, <4>3
        <5>2. CASE j # b
          BY <2>7, <3>1, <4>1, <5>1, <5>2
        <5>3. CASE j = b
          <6>1. e[b] < e[b + 1] /\ e[b] \in Nat /\ e[b + 1] \in Nat /\ k = b
            BY <1>n, <1>2, <2>0, <2>10, <5>1, <5>3
          <6>2. o[b] <= g /\ g < e[b + 1]
            BY <4>1, <6>1
          <6> QED
            BY <2>0, <2>7, <2>10, <3>1, <6>2
        <5> QED
          BY <5>2, <5>3
      <4> QED
        BY <4>2, <4>3
    <3>4. ASSUME off <= g, g < off + len PROVE Covers(r, g)
      <4>1. o[b] <= g /\ g < e[b + 1]
        <5>1. o[b] \in Nat /\ o[b] < off /\ o[b + 1] = off + len /\ o[b + 1] < e[b + 1] /\ e[b + 1] \in Nat
          BY <1>n, <1>3, <1>7, <2>0
        <5> QED
          BY <3>4, <5>1
      <4> QED
        BY <2>0, <2>7, <2>10, <3>1, <4>1
    <3> QED
      BY <3>2, <3>3, <3>4
  <2> QED
    BY <2>11, <2>12 DEF r
<1>8. CASE next /\ ~prev
  <2>0. b \in 0..(n - 1) /\ b + 1 \in 1..n
    BY <1>0, <1>3, <1>8
  <2> DEFINE new == [off |-> off, len |-> e[b + 1] - off]
  <2>1. grown = new /\ new \in Nodes
    <3>1. /\ o[b + 1] = off + len /\ o[b + 1] \in Nat /\ e[b + 1] \in 1..Cap /\ o[b + 1] < e[b + 1]
      BY <1>n, <1>8, <2>0
    <3>2. len + (e[b + 1] - o[b + 1]) = e[b + 1] - off /\ off \in 0..(Cap - 1)
      BY <1>0, <3>1
    <3> QED
      BY <1>0, <1>8, <3>1, <3>2, SMTT(30) DEF Nodes
  <2>2. /\ rest \in Seq(Nodes) /\ Len(rest) = n - 1
        /\ \A j \in 1..(n - 1) : rest[j] = IF j < b + 1 THEN fl[j] ELSE fl[j + 1]
    BY <1>0, <1>8, <2>0, RemoveAtIs
  <2>3. r = InsertAt(rest, b + 1, new)
    BY <1>6, <1>8, <2>1
  <2> HIDE DEF rest, grown, new
  <2>4. /\ r \in Seq(Nodes) /\ Len(r) = n
        /\ \A j \in 1..n : r[j] = IF j < b + 1 THEN rest[j] ELSE IF j = b + 1 THEN new ELSE rest[j - 1]
    <3>1. b + 1 \in 1..(Len(rest) + 1) /\ Len(rest) + 1 = n
      BY <1>0, <2>0, <2>2
    <3>2. /\ InsertAt(rest, b + 1, new) \in Seq(Nodes)
          /\ Len(InsertAt(rest, b + 1, new)) = Len(rest) + 1
          /\ \A j \in 1..(Len(rest) + 1) :
               InsertAt(rest, b + 1, new)[j] =
                 IF j < b + 1 THEN rest[j] ELSE IF j = b + 1 THEN new ELSE rest[j - 1]
      <4>1. rest \in Seq(Nodes) /\ new \in Nodes
        BY <2>1, <2>2
      <4>2. PICK i \in 1..(Len(rest) + 1) : i = b + 1
        BY <3>1
      <4>3. InsertAt(rest, i, new) \in Seq(Nodes)
        BY <4>1, InsertAtIs
      <4>4. Len(InsertAt(rest, i, new)) = Len(rest) + 1
        BY <4>1, InsertAtIs
      <4>5. /\ \A j \in 1..(i - 1) : InsertAt(rest, i, new)[j] = rest[j]
            /\ InsertAt(rest, i, new)[i] = new
            /\ \A j \in (i + 1)..(Len(rest) + 1) : InsertAt(rest, i, new)[j] = rest[j - 1]
        BY <4>1, InsertAtIs
      <4> QED
        BY <4>2, <4>3, <4>4, <4>5
    <3> QED
      BY <2>3, <3>1, <3>2
  <2>5. \A j \in 1..n : j # b + 1 => r[j] = fl[j]
    <3> TAKE j \in 1..n
    <3>1. CASE j < b + 1
      <4>1. j \in 1..(n - 1)
        BY <1>0, <2>0, <3>1
      <4>2. rest[j] = fl[j]
        BY <2>2, <3>1, <4>1
      <4> QED
        BY <2>4, <3>1, <4>2
    <3>2. CASE j > b + 1
      <4>1. j - 1 \in 1..(n - 1) /\ ~(j - 1 < b + 1) /\ j - 1 + 1 = j
        BY <1>0, <2>0, <3>2
      <4>2. rest[j - 1] = fl[j]
        BY <2>2, <4>1
      <4> QED
        BY <2>0, <2>4, <3>2, <4>2
    <3> QED
      BY <2>0, <3>1, <3>2
  <2>6. \A j \in 1..n : /\ r[j].off = IF j = b + 1 THEN off ELSE o[j]
                        /\ EndOf(r[j]) = e[j]
    <3> TAKE j \in 1..n
    <3>1. CASE j = b + 1
      <4>1. r[j] = new
        BY <1>0, <2>0, <2>4, <3>1
      <4>2. off + (e[b + 1] - off) = e[b + 1]
        BY <1>n, <2>0
      <4> QED
        BY <3>1, <4>1, <4>2 DEF EndOf, new
    <3>2. CASE j # b + 1
      BY <1>1, <2>5, <3>2
    <3> QED
      BY <3>1, <3>2
  <2>7. Sorted(r)
    <3>1. ASSUME NEW j \in 1..n PROVE EndOf(r[j]) <= Cap
      BY <1>n, <2>6
    <3>2. ASSUME NEW j \in 1..n, NEW k \in 1..n, j < k PROVE EndOf(r[j]) < r[k].off
      <4>1. CASE k = b + 1
        <5>1. j <= b /\ e[j] <= off /\ e[j] \in Nat
          BY <1>n, <1>5, <2>0, <3>2, <4>1
        <5>2. e[j] # off
          <6>1. CASE j = b
            BY <1>8, <6>1, <1>3
          <6>2. CASE j # b
            <7>1. j < b /\ b \in 1..n /\ e[j] < o[b] /\ o[b] < off /\ o[b] \in Nat
              BY <1>0, <1>n, <1>2, <1>3, <2>0, <5>1, <6>2
            <7> QED
              BY <5>1, <7>1
          <6> QED
            BY <6>1, <6>2
        <5> QED
          BY <2>6, <4>1, <5>1, <5>2
      <4>2. CASE k # b + 1
        BY <1>2, <2>6, <3>2, <4>2
      <4> QED
        BY <4>1, <4>2
    <3> QED
      BY <2>4, <3>1, <3>2 DEF Sorted
  <2>8. ASSUME NEW g \in Nat
        PROVE  Covers(r, g) <=> Covers(fl, g) \/ (off <= g /\ g < off + len)
    <3>0. /\ o[b + 1] = off + len /\ o[b + 1] \in Nat /\ e[b + 1] \in Nat /\ o[b + 1] < e[b + 1]
      BY <1>n, <1>8, <2>0
    <3>1. Covers(r, g) <=> \E j \in 1..n : (IF j = b + 1 THEN off ELSE o[j]) <= g /\ g < e[j]
      BY <2>4, <2>6 DEF Covers
    <3>2. ASSUME Covers(r, g) PROVE Covers(fl, g) \/ (off <= g /\ g < off + len)
      <4>1. PICK j \in 1..n : (IF j = b + 1 THEN off ELSE o[j]) <= g /\ g < e[j]
        BY <3>1, <3>2
      <4>2. CASE j # b + 1
        BY <1>4, <4>1, <4>2
      <4>3. CASE j = b + 1
        <5>1. off <= g /\ g < e[b + 1]
          BY <4>1, <4>3
        <5>2. g < off + len \/ o[b + 1] <= g
          BY <3>0, <5>1
        <5> QED
          BY <1>4, <2>0, <5>1, <5>2
      <4> QED
        BY <4>2, <4>3
    <3>3. ASSUME Covers(fl, g) PROVE Covers(r, g)
      <4>1. PICK k \in 1..n : o[k] <= g /\ g < e[k]
        BY <1>4, <3>3
      <4>2. (IF k = b + 1 THEN off ELSE o[k]) <= g
        <5>1. CASE k = b + 1
          BY <3>0, <4>1, <5>1
        <5>2. CASE k # b + 1
          BY <4>1, <5>2
        <5> QED
          BY <5>1, <5>2
      <4> QED
        BY <3>1, <4>1, <4>2
    <3>4. ASSUME off <= g, g < off + len PROVE Covers(r, g)
      <4>1. g < e[b + 1]
        BY <3>0, <3>4
      <4> QED
        BY <2>0, <3>1, <3>4, <4>1
    <3> QED
      BY <3>2, <3>3, <3>4
  <2> QED
    BY <2>7, <2>8 DEF r
<1>9. CASE ~next /\ prev
  <2>0. b \in 1..n
    BY <1>0, <1>3, <1>9
  <2> DEFINE new == [off |-> o[b], len |-> off + len - o[b]]
  <2>1. new \in Nodes /\ [fl[b] EXCEPT !.len = @ + len] = new
    <3>1. o[b] \in 0..(Cap - 1) /\ o[b] < off /\ e[b] = off /\ fl[b] = [off |-> o[b], len |-> off - o[b]]
      BY <1>1, <1>3, <1>9, <2>0
    <3>2. off - o[b] + len = off + len - o[b] /\ off + len - o[b] \in 1..Cap
      BY <1>0, <3>1
    <3> QED
      BY <3>1, <3>2 DEF Nodes
  <2>2. r = [fl EXCEPT ![b] = new]
    BY <1>6, <1>9, <2>1
  <2> HIDE DEF new
  <2>3. /\ r \in Seq(Nodes) /\ Len(r) = n
        /\ \A j \in 1..n : r[j] = IF j = b THEN new ELSE fl[j]
    BY <1>0, <2>0, <2>1, <2>2
  <2>4. \A j \in 1..n : /\ r[j].off = o[j]
                        /\ EndOf(r[j]) = IF j = b THEN off + len ELSE e[j]
    <3> TAKE j \in 1..n
    <3>1. CASE j = b
      <4>1. o[b] + (off + len - o[b]) = off + len
        BY <1>n, <2>0
      <4> QED
        BY <2>3, <3>1, <4>1 DEF new, EndOf
    <3>2. CASE j # b
      BY <1>1, <2>3, <3>2
    <3> QED
      BY <3>1, <3>2
  <2>5. Sorted(r)
    <3>1. ASSUME NEW j \in 1..n PROVE EndOf(r[j]) <= Cap
      BY <1>n, <2>4
    <3>2. ASSUME NEW j \in 1..n, NEW k \in 1..n, j < k PROVE EndOf(r[j]) < r[k].off
      <4>1. CASE j = b
        <5>1. b < k /\ off + len <= o[k] /\ o[k] \in Nat
          BY <1>n, <1>5, <3>2, <4>1
        <5>2. off + len # o[k]
          <6>1. CASE k = b + 1
            BY <1>9, <1>0, <2>0, <6>1
          <6>2. CASE k # b + 1
            <7>1. b + 1 \in 1..n /\ b + 1 < k
              BY <1>0, <2>0, <5>1, <6>2
            <7>2. off + len <= o[b + 1] /\ e[b + 1] < o[k] /\ o[b + 1] < e[b + 1] /\ o[b + 1] \in Nat /\ e[b + 1] \in Nat
              BY <1>n, <1>2, <1>5, <2>0, <7>1
            <7> QED
              BY <5>1, <7>2
          <6> QED
            BY <6>1, <6>2
        <5> QED
          BY <2>4, <4>1, <5>1, <5>2
      <4>2. CASE j # b
        BY <1>2, <2>4, <3>2, <4>2
      <4> QED
        BY <4>1, <4>2
    <3> QED
      BY <2>3, <3>1, <3>2 DEF Sorted
  <2>6. ASSUME NEW g \in Nat
        PROVE  Covers(r, g) <=> Covers(fl, g) \/ (off <= g /\ g < off + len)
    <3>0. /\ o[b] \in Nat /\ e[b] = off /\ o[b] < off
      BY <1>n, <1>3, <1>9, <2>0
    <3>1. Covers(r, g) <=> \E j \in 1..n : o[j] <= g /\ g < IF j = b THEN off + len ELSE e[j]
      BY <2>3, <2>4 DEF Covers
    <3>2. ASSUME Covers(r, g) PROVE Covers(fl, g) \/ (off <= g /\ g < off + len)
      <4>1. PICK j \in 1..n : o[j] <= g /\ g < IF j = b THEN off + len ELSE e[j]
        BY <3>1, <3>2
      <4>2. CASE j # b
        BY <1>4, <4>1, <4>2
      <4>3. CASE j = b
        <5>1. o[b] <= g /\ g < off + len
          BY <4>1, <4>3
        <5>2. g < e[b] \/ off <= g
          BY <3>0
        <5> QED
          BY <1>4, <2>0, <5>1, <5>2
      <4> QED
        BY <4>2, <4>3
    <3>3. ASSUME Covers(fl, g) PROVE Covers(r, g)
      <4>1. PICK k \in 1..n : o[k] <= g /\ g < e[k]
        BY <1>4, <3>3
      <4>2. g < IF k = b THEN off + len ELSE e[k]
        <5>1. CASE k = b
          BY <3>0, <4>1, <5>1
        <5>2. CASE k # b
          BY <4>1, <5>2
        <5> QED
          BY <5>1, <5>2
      <4> QED
        BY <3>1, <4>1, <4>2
    <3>4. ASSUME off <= g, g < off + len PROVE Covers(r, g)
      <4>1. o[b] <= g
        BY <3>0, <3>4
      <4> QED
        BY <2>0, <3>1, <3>4, <4>1
    <3> QED
      BY <3>2, <3>3, <3>4
  <2> QED
    BY <2>5, <2>6 DEF r
<1>10. CASE ~next /\ ~prev
  <2>1. r = InsertAt(fl, b + 1, node) /\ node \in Nodes
    BY <1>0, <1>6, <1>10 DEF Nodes
  <2> HIDE DEF node
  <2>2. /\ r \in Seq(Nodes) /\ Len(r) = n + 1
        /\ \A j \in 1..(n + 1) :
             r[j] = IF j < b + 1 THEN fl[j] ELSE IF j = b + 1 THEN node ELSE fl[j - 1]
    <3>1. b + 1 \in 1..(Len(fl) + 1)
      BY <1>0, <1>3
    <3>2. /\ InsertAt(fl, b + 1, node) \in Seq(Nodes)
          /\ Len(InsertAt(fl, b + 1, node)) = Len(fl) + 1
          /\ \A j \in 1..(Len(fl) + 1) :
               InsertAt(fl, b + 1, node)[j] =
                 IF j < b + 1 THEN fl[j] ELSE IF j = b + 1 THEN node ELSE fl[j - 1]
      <4>1. fl \in Seq(Nodes) /\ node \in Nodes
        BY <1>0, <2>1
      <4>2. PICK i \in 1..(Len(fl) + 1) : i = b + 1
        BY <3>1
      <4>3. InsertAt(fl, i, node) \in Seq(Nodes)
        BY <4>1, InsertAtIs
      <4>4. Len(InsertAt(fl, i, node)) = Len(fl) + 1
        BY <4>1, InsertAtIs
      <4>5. /\ \A j \in 1..(i - 1) : InsertAt(fl, i, node)[j] = fl[j]
            /\ InsertAt(fl, i, node)[i] = node
            /\ \A j \in (i + 1)..(Len(fl) + 1) : InsertAt(fl, i, node)[j] = fl[j - 1]
        BY <4>1, InsertAtIs
      <4> QED
        BY <4>2, <4>3, <4>4, <4>5
    <3> QED
      BY <1>0, <2>1, <3>2
  <2> DEFINE s(j) == IF j <= b THEN j ELSE j - 1
  <2>3. \A j \in 1..(n + 1) : j # b + 1 => /\ s(j) \in 1..n /\ r[j] = fl[s(j)]
                                           /\ r[j].off = o[s(j)] /\ EndOf(r[j]) = e[s(j)]
    <3> TAKE j \in 1..(n + 1)
    <3> HAVE j # b + 1
    <3>1. s(j) \in 1..n /\ r[j] = fl[s(j)]
      BY <1>0, <1>3, <2>2
    <3> QED
      BY <1>1, <3>1
  <2>4. b + 1 \in 1..(n + 1) /\ r[b + 1].off = off /\ EndOf(r[b + 1]) = off + len
    <3>1. b + 1 \in 1..(n + 1)
      BY <1>0, <1>3
    <3>2. r[b + 1] = node
      BY <1>3, <2>2, <3>1
    <3> QED
      BY <3>1, <3>2 DEF node, EndOf
  <2>5. \A j, k \in 1..(n + 1) : j < k /\ j # b + 1 /\ k # b + 1 => s(j) < s(k)
    BY <1>0, <1>3
  <2>6. \A k \in 1..n : \E j \in 1..(n + 1) : j # b + 1 /\ s(j) = k
    <3> TAKE k \in 1..n
    <3>1. CASE k <= b
      <4>1. k \in 1..(n + 1) /\ k # b + 1 /\ s(k) = k
        BY <1>0, <1>3, <3>1
      <4> QED
        BY <4>1
    <3>2. CASE k > b
      <4>1. k + 1 \in 1..(n + 1) /\ k + 1 # b + 1 /\ s(k + 1) = k
        BY <1>0, <1>3, <3>2
      <4> QED
        BY <4>1
    <3> QED
      BY <1>3, <3>1, <3>2
  <2>7. \A j \in 1..(n + 1) : (j < b + 1 => s(j) = j) /\ (j > b + 1 => s(j) > b)
    BY <1>0, <1>3
  <2> HIDE DEF s
  <2>8. \A k \in 1..n : (k <= b => e[k] < off) /\ (b < k => off + len < o[k])
    <3> TAKE k \in 1..n
    <3>1. ASSUME k <= b PROVE e[k] < off
      <4>1. CASE k = b
        BY <1>n, <1>5, <1>10, <3>1, <4>1, <1>b
      <4>2. CASE k # b
        <5>1. k < b /\ b \in 1..n
          BY <1>0, <1>3, <3>1, <4>2
        <5>2. e[k] < o[b] /\ o[b] < off /\ o[b] \in Nat /\ e[k] \in Nat
          BY <1>n, <1>2, <1>3, <5>1
        <5> QED
          BY <5>2
      <4> QED
        BY <4>1, <4>2
    <3>2. ASSUME b < k PROVE off + len < o[k]
      <4>1. CASE k = b + 1
        <5>1. off + len <= o[k] /\ o[k] \in Nat /\ b < n
          BY <1>0, <1>n, <1>3, <1>5, <3>2, <4>1
        <5>2. off + len # o[k]
          BY <1>10, <4>1, <5>1
        <5> QED
          BY <5>1, <5>2
      <4>2. CASE k # b + 1
        <5>1. b + 1 \in 1..n /\ b + 1 < k /\ b < b + 1
          BY <1>0, <1>3, <3>2, <4>2
        <5>2. off + len <= o[b + 1] /\ o[b + 1] < e[b + 1] /\ e[b + 1] < o[k]
          BY <1>n, <1>2, <1>5, <5>1
        <5>3. o[b + 1] \in Nat /\ e[b + 1] \in Nat /\ o[k] \in Nat
          BY <1>n, <5>1
        <5> QED
          BY <5>2, <5>3
      <4> QED
        BY <4>1, <4>2
    <3> QED
      BY <3>1, <3>2
  <2>9. Sorted(r)
    <3>1. ASSUME NEW j \in 1..(n + 1) PROVE EndOf(r[j]) <= Cap
      <4>1. CASE j = b + 1
        BY <2>4, <4>1
      <4>2. CASE j # b + 1
        BY <1>n, <2>3, <4>2
      <4> QED
        BY <4>1, <4>2
    <3>2. ASSUME NEW j \in 1..(n + 1), NEW k \in 1..(n + 1), j < k PROVE EndOf(r[j]) < r[k].off
      <4>1. CASE j = b + 1
        <5>1. k > b + 1 /\ k # b + 1
          BY <1>3, <3>2, <4>1
        <5>2. s(k) \in 1..n /\ s(k) > b
          BY <2>3, <2>7, <5>1
        <5> QED
          BY <1>3, <2>3, <2>4, <2>8, <4>1, <5>1, <5>2
      <4>2. CASE k = b + 1
        <5>1. j < b + 1 /\ j # b + 1
          BY <1>3, <3>2, <4>2
        <5>2. s(j) \in 1..n /\ s(j) <= b
          BY <1>3, <2>3, <2>7, <5>1
        <5> QED
          BY <2>3, <2>4, <2>8, <4>2, <5>1, <5>2
      <4>3. CASE j # b + 1 /\ k # b + 1
        BY <1>2, <2>3, <2>5, <3>2, <4>3
      <4> QED
        BY <4>1, <4>2, <4>3
    <3> QED
      BY <2>2, <3>1, <3>2 DEF Sorted
  <2>10. ASSUME NEW g \in Nat
         PROVE  Covers(r, g) <=> Covers(fl, g) \/ (off <= g /\ g < off + len)
    <3>1. Covers(r, g) <=> \E j \in 1..(n + 1) : r[j].off <= g /\ g < EndOf(r[j])
      BY <2>2 DEF Covers
    <3>2. ASSUME Covers(r, g) PROVE Covers(fl, g) \/ (off <= g /\ g < off + len)
      <4>1. PICK j \in 1..(n + 1) : r[j].off <= g /\ g < EndOf(r[j])
        BY <3>1, <3>2
      <4>2. CASE j # b + 1
        BY <1>4, <2>3, <4>1, <4>2
      <4>3. CASE j = b + 1
        BY <2>4, <4>1, <4>3
      <4> QED
        BY <4>2, <4>3
    <3>3. ASSUME Covers(fl, g) PROVE Covers(r, g)
      <4>1. PICK k \in 1..n : o[k] <= g /\ g < e[k]
        BY <1>4, <3>3
      <4>2. PICK j \in 1..(n + 1) : j # b + 1 /\ s(j) = k
        BY <2>6
      <4> QED
        BY <2>3, <3>1, <4>1, <4>2
    <3>4. ASSUME off <= g, g < off + len PROVE Covers(r, g)
      BY <2>4, <3>1, <3>4
    <3> QED
      BY <3>2, <3>3, <3>4
  <2> QED
    BY <2>9, <2>10 DEF r
<1> QED
  BY <1>7, <1>8, <1>9, <1>10

(***************************************************************************)
(* The invariant.                                                          *)
(***************************************************************************)

InBlob(c, g) == warmOff[c] <= g /\ g < warmOff[c] + Len64[c]

\* A blob lies inside the arena, holds its chunk and is not free.
BlobsPlaced ==
  \A c \in Chunks : warmOff[c] # NoBlob =>
    /\ warmOff[c] + Len64[c] <= Cap
    /\ \A g \in Nat : InBlob(c, g) => arena[g] = c /\ ~Covers(wfree, g)

\* No granule is lost.
NothingLost ==
  \A g \in 0..(Cap - 1) :
    Covers(wfree, g) \/ \E c \in Chunks : warmOff[c] # NoBlob /\ InBlob(c, g)

Memory == Sorted(wfree) /\ BlobsPlaced /\ NothingLost

\* What the batch uses is where it was, and of this frame while it is selected.
SourcesKept ==
  \A s \in srcs : s[2] # NoBlob =>
    warmOff[s[1]] = s[2] /\ (decoding \/ warmUse[s[1]] = warmFrame)

Selecting ==
  warmWant # NoBlob => ~decoding /\ warmOff[warmWant] = NoBlob

WarmInv == WarmTypeOK /\ Memory /\ SourcesKept /\ Selecting

LEMMA WarmInitInv == ASSUME WarmAssumption, WarmInit PROVE WarmInv
<1> DEFINE node == [off |-> 0, len |-> Cap]
<1>0. Cap \in Nat \ {0} /\ MaxWarmFrames \in Nat \ {0} /\ NoBlob \notin Chunks
  BY DEF WarmAssumption
<1>1. wfree = <<node>> /\ node \in Nodes
  BY <1>0 DEF WarmInit, Nodes
<1>2. wfree \in Seq(Nodes) /\ Len(wfree) = 1 /\ wfree[1] = node
  BY <1>1
<1>3. wfree[1].off = 0 /\ EndOf(wfree[1]) = Cap
  BY <1>0, <1>2 DEF EndOf
<1>4. \A c \in Chunks : warmOff[c] = NoBlob
  BY DEF WarmInit
<1>5. WarmTypeOK
  <2>1. 0 \in 0..1 /\ 1 \in 1..MaxWarmFrames
    BY <1>0
  <2> QED
    BY <1>0, <1>2, <2>1 DEF WarmInit, WarmTypeOK
<1>6. Sorted(wfree)
  <2>1. \A k \in 1..Len(wfree) : k = 1
    BY <1>2
  <2>2. \A k \in 1..Len(wfree) : EndOf(wfree[k]) <= Cap
    BY <1>0, <1>3, <2>1
  <2>3. \A j, k \in 1..Len(wfree) : ~(j < k)
    BY <2>1
  <2> QED
    BY <1>2, <2>2, <2>3 DEF Sorted
<1>7. NothingLost
  <2> SUFFICES ASSUME NEW g \in 0..(Cap - 1) PROVE Covers(wfree, g)
    BY DEF NothingLost
  <2>1. 1 \in 1..Len(wfree) /\ wfree[1].off <= g /\ g < EndOf(wfree[1])
    BY <1>0, <1>2, <1>3
  <2> QED
    BY <2>1 DEF Covers
<1> QED
  BY <1>4, <1>5, <1>6, <1>7 DEF WarmInit, WarmInv, Memory, BlobsPlaced, SourcesKept, Selecting

LEMMA MemoryStays ==
  ASSUME Memory, UNCHANGED <<wfree, warmOff, arena>> PROVE Memory'
BY DEF Memory, Sorted, BlobsPlaced, NothingLost, InBlob, Covers

LEMMA HitKeeps == ASSUME WarmAssumption, WarmInv, NEW c \in Chunks, WarmHit(c) PROVE WarmInv'
<1>0. /\ ~decoding /\ warmWant = NoBlob /\ c \in Chunks /\ warmOff[c] # NoBlob
      /\ warmUse' = [warmUse EXCEPT ![c] = warmFrame]
      /\ srcs' = srcs \cup {<<c, warmOff[c]>>}
      /\ UNCHANGED <<wfree, warmOff, warmFrame, arena, warmWant, decoding>>
  BY DEF WarmHit, Warm
<1>1. WarmTypeOK'
  <2>1. warmFrame \in 1..MaxWarmFrames /\ MaxWarmFrames \in Nat
    BY DEF WarmInv, WarmTypeOK, WarmAssumption
  <2>2. warmFrame \in 0..warmFrame
    BY <2>1
  <2>3. warmUse' \in [Chunks -> 0..warmFrame]
    BY <1>0, <2>2 DEF WarmInv, WarmTypeOK
  <2>4. warmOff[c] \in (0..(Cap - 1)) \cup {NoBlob}
    BY DEF WarmInv, WarmTypeOK
  <2> QED
    BY <1>0, <2>3, <2>4 DEF WarmInv, WarmTypeOK
<1>2. Memory'
  BY <1>0, MemoryStays DEF WarmInv
<1>3. SourcesKept'
  <2> SUFFICES ASSUME NEW s \in srcs', s[2] # NoBlob
               PROVE  warmOff[s[1]] = s[2] /\ warmUse'[s[1]] = warmFrame
    BY <1>0 DEF SourcesKept
  <2>1. CASE s = <<c, warmOff[c]>>
    BY <1>0, <2>1 DEF WarmInv, WarmTypeOK
  <2>2. CASE s \in srcs
    <3>1. s[1] \in Chunks /\ warmOff[s[1]] = s[2] /\ warmUse[s[1]] = warmFrame
      BY <1>0, <2>2 DEF WarmInv, WarmTypeOK, SourcesKept
    <3> QED
      BY <1>0, <3>1 DEF WarmInv, WarmTypeOK
  <2> QED
    BY <1>0, <2>1, <2>2
<1>4. Selecting'
  BY <1>0 DEF Selecting
<1> QED
  BY <1>1, <1>2, <1>3, <1>4 DEF WarmInv

LEMMA MissKeeps == ASSUME WarmAssumption, WarmInv, NEW c \in Chunks, WarmMiss(c) PROVE WarmInv'
<1>0. /\ ~decoding /\ warmWant = NoBlob /\ c \in Chunks /\ warmOff[c] = NoBlob
      /\ \/ srcs' = srcs \cup {<<c, NoBlob>>} /\ UNCHANGED warmWant
         \/ warmWant' = c /\ UNCHANGED srcs
      /\ UNCHANGED <<wfree, warmOff, warmUse, warmFrame, arena, decoding>>
  BY DEF WarmMiss, Warm
<1>1. WarmTypeOK'
  BY <1>0 DEF WarmInv, WarmTypeOK
<1>2. Memory'
  BY <1>0, MemoryStays DEF WarmInv
<1>3. SourcesKept'
  BY <1>0 DEF WarmInv, SourcesKept
<1>4. Selecting'
  BY <1>0 DEF WarmInv, Selecting
<1> QED
  BY <1>1, <1>2, <1>3, <1>4 DEF WarmInv

\* The first fit is a node that is long enough, and the blob in its front is
\* inside the arena.
LEMMA Chosen ==
  ASSUME WarmAssumption, WarmInv, warmWant # NoBlob, NEW i \in FirstFit(Len64[warmWant])
  PROVE  /\ warmWant \in Chunks /\ Len64[warmWant] \in Nat \ {0}
         /\ ~decoding /\ warmOff[warmWant] = NoBlob
         /\ wfree[i].off \in 0..(Cap - 1) /\ wfree[i].off + Len64[warmWant] <= Cap
         /\ Sorted(Taken(i, Len64[warmWant]))
         /\ \A g \in Nat : Covers(Taken(i, Len64[warmWant]), g) <=>
              Covers(wfree, g) /\ ~(wfree[i].off <= g /\ g < wfree[i].off + Len64[warmWant])
         /\ \A g \in Nat :
              wfree[i].off <= g /\ g < wfree[i].off + Len64[warmWant] => Covers(wfree, g)
<1>1. warmWant \in Chunks /\ ~decoding /\ warmOff[warmWant] = NoBlob
  BY DEF WarmInv, WarmTypeOK, Selecting
<1>2. Len64[warmWant] \in Nat \ {0}
  BY <1>1 DEF WarmAssumption
<1>3. i \in Fits(Len64[warmWant]) /\ Sorted(wfree)
  BY DEF FirstFit, WarmInv, Memory
<1> QED
  BY <1>1, <1>2, <1>3, TakenKeeps

LEMMA PlaceKeeps == ASSUME WarmAssumption, WarmInv, Place PROVE WarmInv'
<1>a. PICK i \in FirstFit(Len64[warmWant]) :
        /\ wfree' = Taken(i, Len64[warmWant])
        /\ arena' = [g \in DOMAIN arena |->
                       IF g \in Span(wfree[i].off, Len64[warmWant]) THEN warmWant ELSE arena[g]]
        /\ warmOff' = [warmOff EXCEPT ![warmWant] = wfree[i].off]
        /\ warmUse' = [warmUse EXCEPT ![warmWant] = warmFrame]
        /\ srcs' = srcs \cup {<<warmWant, wfree[i].off>>}
  BY DEF Place
<1>b. warmWant # NoBlob /\ warmWant' = NoBlob /\ UNCHANGED <<warmFrame, decoding>>
  BY DEF Place
<1>c. PICK c, off, len : c = warmWant /\ off = wfree[i].off /\ len = Len64[warmWant]
  OBVIOUS
<1>0. /\ c \in Chunks /\ len = Len64[c] /\ len \in Nat \ {0} /\ ~decoding /\ warmOff[c] = NoBlob
      /\ off \in 0..(Cap - 1) /\ off + len <= Cap
      /\ Sorted(wfree')
      /\ \A g \in Nat : Covers(wfree', g) <=> Covers(wfree, g) /\ ~(off <= g /\ g < off + len)
      /\ \A g \in Nat : off <= g /\ g < off + len => Covers(wfree, g)
  BY <1>a, <1>b, <1>c, Chosen
<1>1. /\ Cap \in Nat /\ NoBlob \notin 0..(Cap - 1) /\ Len64 \in [Chunks -> Nat \ {0}]
      /\ arena \in [0..(Cap - 1) -> Chunks \cup {NoBlob}]
      /\ warmOff \in [Chunks -> (0..(Cap - 1)) \cup {NoBlob}]
      /\ warmUse \in [Chunks -> 0..warmFrame] /\ warmFrame \in 0..warmFrame
      /\ srcs \subseteq Chunks \X ((0..(Cap - 1)) \cup {NoBlob})
  <2>1. warmFrame \in 1..MaxWarmFrames /\ MaxWarmFrames \in Nat
    BY DEF WarmInv, WarmTypeOK, WarmAssumption
  <2>2. warmFrame \in 0..warmFrame
    BY <2>1
  <2> QED
    BY <2>2 DEF WarmInv, WarmTypeOK, WarmAssumption
<1>2. /\ arena' \in [0..(Cap - 1) -> Chunks \cup {NoBlob}]
      /\ \A g \in 0..(Cap - 1) : arena'[g] = IF off <= g /\ g < off + len THEN c ELSE arena[g]
  <2>0. off \in Nat /\ len \in Nat
    BY <1>0, <1>1
  <2>1. \A g \in Int : g \in Span(off, len) <=> off <= g /\ g < off + len
    BY <2>0, InSpan
  <2>2. arena' = [g \in 0..(Cap - 1) |-> IF g \in Span(off, len) THEN c ELSE arena[g]]
    BY <1>a, <1>c, <1>1
  <2>3. \A g \in 0..(Cap - 1) : arena'[g] = IF g \in Span(off, len) THEN c ELSE arena[g]
    BY <2>2
  <2>4. \A g \in 0..(Cap - 1) : g \in Int
    BY <1>1
  <2>5. arena' \in [0..(Cap - 1) -> Chunks \cup {NoBlob}]
    BY <1>0, <1>1, <2>2
  <2>6. \A g \in 0..(Cap - 1) : g \in Span(off, len) <=> off <= g /\ g < off + len
    BY <2>1, <2>4
  <2> QED
    BY <2>3, <2>5, <2>6
<1>3. /\ warmOff' \in [Chunks -> (0..(Cap - 1)) \cup {NoBlob}]
      /\ \A d \in Chunks : warmOff'[d] = IF d = c THEN off ELSE warmOff[d]
  BY <1>a, <1>c, <1>0, <1>1
<1>4. /\ warmUse' \in [Chunks -> 0..warmFrame]
      /\ \A d \in Chunks : warmUse'[d] = IF d = c THEN warmFrame ELSE warmUse[d]
  BY <1>a, <1>c, <1>0, <1>1
<1>5. srcs' = srcs \cup {<<c, off>>}
  BY <1>a, <1>c
<1>6. WarmTypeOK'
  <2>1. wfree' \in Seq(Nodes)
    BY <1>0 DEF Sorted
  <2>2. srcs' \subseteq Chunks \X ((0..(Cap - 1)) \cup {NoBlob})
    BY <1>0, <1>1, <1>5
  <2> QED
    BY <1>b, <1>2, <1>3, <1>4, <2>1, <2>2 DEF WarmInv, WarmTypeOK
<1>7. BlobsPlaced'
  <2> SUFFICES ASSUME NEW d \in Chunks, warmOff'[d] # NoBlob
               PROVE  /\ warmOff'[d] + Len64[d] <= Cap
                      /\ \A g \in Nat : warmOff'[d] <= g /\ g < warmOff'[d] + Len64[d] =>
                           arena'[g] = d /\ ~Covers(wfree', g)
    BY DEF BlobsPlaced, InBlob, Covers
  <2>1. CASE d = c
    <3>1. warmOff'[d] = off /\ Len64[d] = len
      BY <1>0, <1>3, <2>1
    <3>2. ASSUME NEW g \in Nat, off <= g, g < off + len PROVE arena'[g] = d /\ ~Covers(wfree', g)
      <4>1. g \in 0..(Cap - 1)
        BY <1>0, <1>1, <3>2
      <4> QED
        BY <1>0, <1>2, <2>1, <3>2, <4>1
    <3> QED
      BY <1>0, <3>1, <3>2
  <2>2. CASE d # c
    <3>1. warmOff'[d] = warmOff[d] /\ warmOff[d] # NoBlob
      BY <1>3, <2>2
    <3>2. warmOff[d] \in 0..(Cap - 1) /\ Len64[d] \in Nat
      BY <1>1, <3>1
    <3>3. /\ warmOff[d] + Len64[d] <= Cap
          /\ \A g \in Nat : warmOff[d] <= g /\ g < warmOff[d] + Len64[d] =>
               arena[g] = d /\ ~Covers(wfree, g)
      BY <3>1 DEF WarmInv, Memory, BlobsPlaced, InBlob
    <3>4. ASSUME NEW g \in Nat, warmOff[d] <= g, g < warmOff[d] + Len64[d]
          PROVE  arena'[g] = d /\ ~Covers(wfree', g)
      <4>1. g \in 0..(Cap - 1)
        BY <1>1, <3>2, <3>3, <3>4
      <4>2. ~Covers(wfree, g) /\ arena[g] = d
        BY <3>3, <3>4
      <4>3. ~(off <= g /\ g < off + len)
        BY <1>0, <4>2
      <4> QED
        BY <1>0, <1>2, <4>1, <4>2, <4>3
    <3> QED
      BY <3>1, <3>3, <3>4
  <2> QED
    BY <2>1, <2>2
<1>8. NothingLost'
  <2> SUFFICES ASSUME NEW g \in 0..(Cap - 1)
               PROVE  \/ Covers(wfree', g)
                      \/ \E d \in Chunks : /\ warmOff'[d] # NoBlob
                                           /\ warmOff'[d] <= g /\ g < warmOff'[d] + Len64[d]
    BY DEF NothingLost, InBlob, Covers
  <2>0. g \in Nat
    BY <1>1
  <2>1. CASE off <= g /\ g < off + len
    <3>1. warmOff'[c] = off /\ off # NoBlob /\ c \in Chunks /\ Len64[c] = len
      BY <1>0, <1>1, <1>3
    <3> QED
      BY <2>1, <3>1
  <2>2. CASE ~(off <= g /\ g < off + len)
    <3>1. CASE Covers(wfree, g)
      BY <1>0, <2>0, <2>2, <3>1
    <3>2. CASE ~Covers(wfree, g)
      <4>1. PICK d \in Chunks : warmOff[d] # NoBlob /\ warmOff[d] <= g /\ g < warmOff[d] + Len64[d]
        BY <3>2 DEF WarmInv, Memory, NothingLost, InBlob
      <4>2. warmOff'[d] = warmOff[d]
        BY <1>0, <1>3, <4>1
      <4> QED
        BY <4>1, <4>2
    <3> QED
      BY <3>1, <3>2
  <2> QED
    BY <2>1, <2>2
<1>9. SourcesKept'
  <2> SUFFICES ASSUME NEW s \in srcs', s[2] # NoBlob
               PROVE  warmOff'[s[1]] = s[2] /\ warmUse'[s[1]] = warmFrame
    BY <1>b DEF SourcesKept
  <2>1. CASE s = <<c, off>>
    BY <1>0, <1>3, <1>4, <2>1
  <2>2. CASE s \in srcs
    <3>1. s[1] \in Chunks /\ warmOff[s[1]] = s[2] /\ warmUse[s[1]] = warmFrame
      BY <1>0, <1>1, <2>2 DEF WarmInv, SourcesKept
    <3>2. s[1] # c
      BY <1>0, <3>1
    <3> QED
      BY <1>3, <1>4, <3>1, <3>2
  <2> QED
    BY <1>5, <2>1, <2>2
<1>10. Selecting'
  BY <1>b DEF Selecting
<1>11. Sorted(wfree)'
  BY <1>0 DEF Sorted, Nodes
<1> QED
  BY <1>6, <1>7, <1>8, <1>9, <1>10, <1>11 DEF WarmInv, Memory

\* Free lists that cover the same granules are as good as each other.
LEMMA SameMemory ==
  ASSUME Cap \in Nat, Memory, UNCHANGED <<warmOff, arena>>, Sorted(wfree'),
         \A g \in Nat : Covers(wfree', g) <=> Covers(wfree, g)
  PROVE  Memory'
<1>1. Sorted(wfree)'
  BY DEF Sorted, Nodes
<1>2. BlobsPlaced'
  <2> SUFFICES ASSUME NEW d \in Chunks, warmOff[d] # NoBlob
               PROVE  /\ warmOff[d] + Len64[d] <= Cap
                      /\ \A g \in Nat : warmOff[d] <= g /\ g < warmOff[d] + Len64[d] =>
                           arena[g] = d /\ ~Covers(wfree', g)
    BY DEF BlobsPlaced, InBlob, Covers
  <2> QED
    BY DEF Memory, BlobsPlaced, InBlob
<1>3. NothingLost'
  <2> SUFFICES ASSUME NEW g \in 0..(Cap - 1)
               PROVE  \/ Covers(wfree', g)
                      \/ \E d \in Chunks : /\ warmOff[d] # NoBlob
                                           /\ warmOff[d] <= g /\ g < warmOff[d] + Len64[d]
    BY DEF NothingLost, InBlob, Covers
  <2>1. g \in Nat
    OBVIOUS
  <2> QED
    BY <2>1 DEF Memory, NothingLost, InBlob
<1> QED
  BY <1>1, <1>2, <1>3 DEF Memory

LEMMA PlaceFailsKeeps == ASSUME WarmAssumption, WarmInv, PlaceFails PROVE WarmInv'
<1>a. PICK i \in FirstFit(Len64[warmWant]) :
        wfree' = Released(Taken(i, Len64[warmWant]), wfree[i].off, Len64[warmWant])
  BY DEF PlaceFails
<1>b. /\ warmWant # NoBlob /\ srcs' = srcs \cup {<<warmWant, NoBlob>>} /\ warmWant' = NoBlob
      /\ UNCHANGED <<warmOff, warmUse, warmFrame, arena, decoding>>
  BY DEF PlaceFails
<1>c. PICK off, len, fl : /\ off = wfree[i].off /\ len = Len64[warmWant]
                          /\ fl = Taken(i, Len64[warmWant])
  OBVIOUS
<1>0. /\ warmWant \in Chunks /\ len \in Nat \ {0} /\ off \in 0..(Cap - 1) /\ off + len <= Cap
      /\ Sorted(fl)
      /\ \A g \in Nat : Covers(fl, g) <=> Covers(wfree, g) /\ ~(off <= g /\ g < off + len)
      /\ \A g \in Nat : off <= g /\ g < off + len => Covers(wfree, g)
  BY <1>b, <1>c, Chosen
<1>1. Cap \in Nat
  BY DEF WarmAssumption
<1>2. /\ Sorted(Released(fl, off, len))
      /\ \A g \in Nat : Covers(Released(fl, off, len), g) <=>
           Covers(fl, g) \/ (off <= g /\ g < off + len)
  <2>1. off \in Nat /\ \A g \in Nat : off <= g /\ g < off + len => ~Covers(fl, g)
    BY <1>0, <1>1
  <2> QED
    BY <1>0, <2>1, ReleasedKeeps
<1>3. wfree' = Released(fl, off, len)
  BY <1>a, <1>c
<1>4. Sorted(wfree') /\ \A g \in Nat : Covers(wfree', g) <=> Covers(wfree, g)
  BY <1>0, <1>2, <1>3
<1>5. Memory'
  BY <1>b, <1>1, <1>4, SameMemory DEF WarmInv
<1>6. WarmTypeOK'
  <2>1. wfree' \in Seq(Nodes)
    BY <1>4 DEF Sorted
  <2> QED
    BY <1>b, <1>0, <2>1 DEF WarmInv, WarmTypeOK
<1>7. SourcesKept'
  BY <1>b DEF WarmInv, SourcesKept
<1>8. Selecting'
  BY <1>b DEF Selecting
<1> QED
  BY <1>5, <1>6, <1>7, <1>8 DEF WarmInv

\* An eviction gives back the blob of one chunk, which the batch does not use.
LEMMA EvictBlobKeeps ==
  ASSUME WarmAssumption, WarmInv, NEW c \in Evictable, warmWant # NoBlob,
         wfree' = Released(wfree, warmOff[c], Len64[c]),
         warmOff' = [warmOff EXCEPT ![c] = NoBlob],
         UNCHANGED <<warmWant, srcs, warmUse, warmFrame, arena, decoding>>
  PROVE  WarmInv'
<1>a. c \in Chunks /\ warmOff[c] # NoBlob /\ warmUse[c] # warmFrame
  BY DEF Evictable, Old, Warm
<1>c. PICK off, len : off = warmOff[c] /\ len = Len64[c]
  OBVIOUS
<1>1. /\ Cap \in Nat /\ Len64 \in [Chunks -> Nat \ {0}]
      /\ warmOff \in [Chunks -> (0..(Cap - 1)) \cup {NoBlob}]
      /\ srcs \subseteq Chunks \X ((0..(Cap - 1)) \cup {NoBlob})
  BY DEF WarmInv, WarmTypeOK, WarmAssumption
<1>2. off \in 0..(Cap - 1) /\ off \in Nat /\ len \in Nat \ {0} /\ off + len <= Cap
  BY <1>a, <1>c, <1>1 DEF WarmInv, Memory, BlobsPlaced
<1>3. \A g \in Nat : off <= g /\ g < off + len => ~Covers(wfree, g) /\ arena[g] = c
  BY <1>a, <1>c DEF WarmInv, Memory, BlobsPlaced, InBlob
<1>4. wfree' = Released(wfree, off, len)
  BY <1>c
<1>5. /\ Sorted(wfree')
      /\ \A g \in Nat : Covers(wfree', g) <=> Covers(wfree, g) \/ (off <= g /\ g < off + len)
  <2>1. Sorted(wfree)
    BY DEF WarmInv, Memory
  <2>2. PICK fl : fl = wfree
    OBVIOUS
  <2>3. /\ Sorted(Released(fl, off, len))
        /\ \A g \in Nat : Covers(Released(fl, off, len), g) <=>
             Covers(fl, g) \/ (off <= g /\ g < off + len)
    BY <1>2, <1>3, <2>1, <2>2, ReleasedKeeps
  <2> QED
    BY <1>4, <2>2, <2>3
<1>6. /\ warmOff' \in [Chunks -> (0..(Cap - 1)) \cup {NoBlob}]
      /\ \A d \in Chunks : warmOff'[d] = IF d = c THEN NoBlob ELSE warmOff[d]
  BY <1>a, <1>1
<1>7. WarmTypeOK'
  <2>1. wfree' \in Seq(Nodes)
    BY <1>5 DEF Sorted
  <2> QED
    BY <1>6, <2>1 DEF WarmInv, WarmTypeOK
<1>8. BlobsPlaced'
  <2> SUFFICES ASSUME NEW d \in Chunks, warmOff'[d] # NoBlob
               PROVE  /\ warmOff'[d] + Len64[d] <= Cap
                      /\ \A g \in Nat : warmOff'[d] <= g /\ g < warmOff'[d] + Len64[d] =>
                           arena[g] = d /\ ~Covers(wfree', g)
    BY DEF BlobsPlaced, InBlob, Covers
  <2>1. d # c /\ warmOff'[d] = warmOff[d] /\ warmOff[d] # NoBlob
    BY <1>6
  <2>2. /\ warmOff[d] + Len64[d] <= Cap
        /\ \A g \in Nat : warmOff[d] <= g /\ g < warmOff[d] + Len64[d] =>
             arena[g] = d /\ ~Covers(wfree, g)
    BY <2>1 DEF WarmInv, Memory, BlobsPlaced, InBlob
  <2>3. ASSUME NEW g \in Nat, warmOff[d] <= g, g < warmOff[d] + Len64[d]
        PROVE  arena[g] = d /\ ~Covers(wfree', g)
    BY <1>3, <1>5, <2>1, <2>2, <2>3
  <2> QED
    BY <2>1, <2>2, <2>3
<1>9. NothingLost'
  <2> SUFFICES ASSUME NEW g \in 0..(Cap - 1)
               PROVE  \/ Covers(wfree', g)
                      \/ \E d \in Chunks : /\ warmOff'[d] # NoBlob
                                           /\ warmOff'[d] <= g /\ g < warmOff'[d] + Len64[d]
    BY DEF NothingLost, InBlob, Covers
  <2>0. g \in Nat
    BY <1>1
  <2>1. CASE Covers(wfree, g)
    BY <1>5, <2>0, <2>1
  <2>2. CASE ~Covers(wfree, g)
    <3>1. PICK d \in Chunks : warmOff[d] # NoBlob /\ warmOff[d] <= g /\ g < warmOff[d] + Len64[d]
      BY <2>2 DEF WarmInv, Memory, NothingLost, InBlob
    <3>2. CASE d = c
      BY <1>c, <1>5, <2>0, <3>1, <3>2
    <3>3. CASE d # c
      BY <1>6, <3>1, <3>3
    <3> QED
      BY <3>2, <3>3
  <2> QED
    BY <2>1, <2>2
<1>10. SourcesKept'
  <2>1. ~decoding
    BY DEF WarmInv, Selecting
  <2> SUFFICES ASSUME NEW s \in srcs, s[2] # NoBlob
               PROVE  warmOff'[s[1]] = s[2] /\ warmUse[s[1]] = warmFrame
    BY DEF SourcesKept
  <2>2. s[1] \in Chunks /\ warmOff[s[1]] = s[2] /\ warmUse[s[1]] = warmFrame
    BY <1>1, <2>1 DEF WarmInv, SourcesKept
  <2>3. s[1] # c
    BY <1>a, <2>2
  <2> QED
    BY <1>6, <2>2, <2>3
<1>11. Selecting'
  <2>1. warmWant \in Chunks /\ ~decoding /\ warmOff[warmWant] = NoBlob
    BY DEF WarmInv, WarmTypeOK, Selecting
  <2> QED
    BY <1>6, <2>1 DEF Selecting
<1>12. Sorted(wfree)'
  BY <1>5 DEF Sorted, Nodes
<1> QED
  BY <1>7, <1>8, <1>9, <1>10, <1>11, <1>12 DEF WarmInv, Memory

\* Nothing can be evicted: the chunk is read from the source.
LEMMA NoRoomKeeps ==
  ASSUME WarmInv, warmWant # NoBlob, srcs' = srcs \cup {<<warmWant, NoBlob>>}, warmWant' = NoBlob,
         UNCHANGED <<wfree, warmOff, warmUse, warmFrame, arena, decoding>>
  PROVE  WarmInv'
<1>1. WarmTypeOK'
  BY DEF WarmInv, WarmTypeOK
<1>2. Memory'
  BY MemoryStays DEF WarmInv
<1>3. SourcesKept'
  BY DEF WarmInv, SourcesKept
<1>4. Selecting'
  BY DEF Selecting
<1> QED
  BY <1>1, <1>2, <1>3, <1>4 DEF WarmInv

LEMMA BatchKeeps ==
  ASSUME WarmAssumption, WarmInv, BatchLaunched \/ BatchDone \/ NextFrame PROVE WarmInv'
<1>0. UNCHANGED <<wfree, warmOff, warmUse, arena, warmWant>>
  BY DEF BatchLaunched, BatchDone, NextFrame
<1>2. Memory'
  BY <1>0, MemoryStays DEF WarmInv
<1>3. CASE BatchLaunched
  <2>0. warmWant = NoBlob /\ decoding' = TRUE /\ UNCHANGED <<warmFrame, srcs>>
    BY <1>3 DEF BatchLaunched
  <2>1. WarmTypeOK'
    BY <1>0, <2>0 DEF WarmInv, WarmTypeOK
  <2> QED
    BY <1>0, <1>2, <2>0, <2>1 DEF WarmInv, SourcesKept, Selecting
<1>4. CASE BatchDone
  <2>0. decoding /\ decoding' = FALSE /\ srcs' = {} /\ UNCHANGED warmFrame
    BY <1>4 DEF BatchDone
  <2>1. WarmTypeOK'
    BY <1>0, <2>0 DEF WarmInv, WarmTypeOK
  <2> QED
    BY <1>0, <1>2, <2>0, <2>1 DEF WarmInv, SourcesKept, Selecting
<1>5. CASE NextFrame
  <2>0. /\ warmFrame < MaxWarmFrames /\ (decoding \/ srcs = {}) /\ warmWant = NoBlob
        /\ warmFrame' = warmFrame + 1 /\ UNCHANGED <<srcs, decoding>>
    BY <1>5 DEF NextFrame
  <2>1. WarmTypeOK'
    <3>1. warmFrame \in 1..MaxWarmFrames /\ MaxWarmFrames \in Nat
      BY DEF WarmInv, WarmTypeOK, WarmAssumption
    <3>2. warmFrame + 1 \in 1..MaxWarmFrames /\ 0..warmFrame \subseteq 0..(warmFrame + 1)
      BY <2>0, <3>1
    <3>3. warmUse \in [Chunks -> 0..(warmFrame + 1)]
      BY <3>2 DEF WarmInv, WarmTypeOK
    <3> QED
      BY <1>0, <2>0, <3>2, <3>3 DEF WarmInv, WarmTypeOK
  <2> QED
    BY <1>0, <1>2, <2>0, <2>1 DEF WarmInv, SourcesKept, Selecting
<1> QED
  BY <1>3, <1>4, <1>5

LEMMA WarmStep == ASSUME WarmAssumption, WarmInv, [WarmNext]_warmVars PROVE WarmInv'
<1>1. CASE \E c \in Chunks : WarmHit(c) \/ WarmMiss(c)
  BY <1>1, HitKeeps, MissKeeps
<1>2. CASE Place
  BY <1>2, PlaceKeeps
<1>3. CASE PlaceFails
  BY <1>3, PlaceFailsKeeps
<1>4. CASE EvictBlob
  <2>1. CASE \E c \in Evictable : /\ wfree' = Released(wfree, warmOff[c], Len64[c])
                                  /\ warmOff' = [warmOff EXCEPT ![c] = NoBlob]
                                  /\ UNCHANGED <<warmWant, srcs>>
    BY <1>4, <2>1, EvictBlobKeeps DEF EvictBlob
  <2>2. CASE /\ srcs' = srcs \cup {<<warmWant, NoBlob>>} /\ warmWant' = NoBlob
             /\ UNCHANGED <<wfree, warmOff>>
    BY <1>4, <2>2, NoRoomKeeps DEF EvictBlob
  <2> QED
    BY <1>4, <2>1, <2>2 DEF EvictBlob
<1>5. CASE BatchLaunched \/ BatchDone \/ NextFrame
  BY <1>5, BatchKeeps
<1>6. CASE UNCHANGED warmVars
  <2>1. Memory'
    BY <1>6, MemoryStays DEF WarmInv, warmVars
  <2> QED
    BY <1>6, <2>1 DEF WarmInv, warmVars, WarmTypeOK, SourcesKept, Selecting
<1> QED
  BY <1>1, <1>2, <1>3, <1>4, <1>5, <1>6 DEF WarmNext

LEMMA OneOf ==
  ASSUME NEW A, NEW B, \A x, y \in A : x = y, \A x, y \in B : x = y,
         A = {} <=> B # {}
  PROVE  Cardinality(A) + Cardinality(B) = 1
<1>1. ASSUME NEW C, \A x, y \in C : x = y, C # {} PROVE Cardinality(C) = 1
  <2>1. PICK x \in C : C = {x}
    BY <1>1
  <2> QED
    BY <2>1, FS_Singleton
<1>2. Cardinality({}) = 0
  BY FS_EmptySet
<1>3. CASE A = {}
  BY <1>1, <1>2, <1>3
<1>4. CASE A # {}
  BY <1>1, <1>2, <1>4
<1> QED
  BY <1>3, <1>4

LEMMA WarmInvImplies == ASSUME WarmAssumption, WarmInv PROVE BatchKeepsItsBytes
<1>1. /\ Cap \in Nat /\ Len64 \in [Chunks -> Nat \ {0}] /\ NoBlob \notin 0..(Cap - 1)
      /\ warmOff \in [Chunks -> (0..(Cap - 1)) \cup {NoBlob}]
      /\ srcs \subseteq Chunks \X ((0..(Cap - 1)) \cup {NoBlob})
      /\ wfree \in Seq(Nodes)
  BY DEF WarmInv, WarmTypeOK, WarmAssumption
<1>2. \A i \in 1..(Len(wfree) - 1) : EndOf(wfree[i]) < wfree[i + 1].off
  <2> TAKE i \in 1..(Len(wfree) - 1)
  <2>1. i \in 1..Len(wfree) /\ i + 1 \in 1..Len(wfree) /\ i < i + 1
    BY <1>1
  <2> QED
    BY <2>1 DEF WarmInv, Memory, Sorted
<1>3. ASSUME NEW g \in 0..(Cap - 1)
      PROVE  LET free == {i \in DOMAIN wfree : g \in Span(wfree[i].off, wfree[i].len)}
                 used == {c \in Warm : g \in Span(warmOff[c], Len64[c])}
             IN Cardinality(free) + Cardinality(used) = 1
  <2> DEFINE free == {i \in DOMAIN wfree : g \in Span(wfree[i].off, wfree[i].len)}
             used == {c \in Warm : g \in Span(warmOff[c], Len64[c])}
  <2>0. g \in Nat /\ g \in Int
    BY <1>1
  <2>1. \A i \in 1..Len(wfree) : /\ wfree[i].off \in Nat /\ wfree[i].len \in Nat
                                 /\ i \in free <=> wfree[i].off <= g /\ g < EndOf(wfree[i])
    <3> TAKE i \in 1..Len(wfree)
    <3>1. wfree[i] \in Nodes
      BY <1>1
    <3>2. wfree[i].off \in Nat /\ wfree[i].len \in Nat
      BY <1>1, <3>1 DEF Nodes
    <3>3. g \in Span(wfree[i].off, wfree[i].len) <=> wfree[i].off <= g /\ g < EndOf(wfree[i])
      BY <2>0, <3>2, InSpan DEF EndOf
    <3>4. DOMAIN wfree = 1..Len(wfree)
      BY <1>1
    <3> QED
      BY <3>2, <3>3, <3>4
  <2>2. \A c \in Chunks : c \in used <=> warmOff[c] # NoBlob /\ InBlob(c, g)
    <3> TAKE c \in Chunks
    <3>1. CASE warmOff[c] = NoBlob
      BY <3>1 DEF Warm
    <3>2. CASE warmOff[c] # NoBlob
      <4>1. warmOff[c] \in Nat /\ Len64[c] \in Nat
        BY <1>1, <3>2
      <4> QED
        BY <2>0, <3>2, <4>1, InSpan DEF Warm, InBlob
    <3> QED
      BY <3>1, <3>2
  <2>3. free \subseteq 1..Len(wfree) /\ used \subseteq Chunks
    BY <1>1 DEF Warm
  <2> HIDE DEF free, used
  <2>4. \A i, j \in free : i = j
    <3> SUFFICES ASSUME NEW i \in free, NEW j \in free, i < j PROVE FALSE
      BY <2>3, <1>1
    <3>1. i \in 1..Len(wfree) /\ j \in 1..Len(wfree)
      BY <2>3
    <3>2. EndOf(wfree[i]) < wfree[j].off
      BY <3>1 DEF WarmInv, Memory, Sorted
    <3>3. g < EndOf(wfree[i]) /\ wfree[j].off <= g /\ wfree[j].off \in Nat /\ EndOf(wfree[i]) \in Nat
      BY <2>1, <3>1 DEF EndOf
    <3> QED
      BY <2>0, <3>2, <3>3
  <2>5. \A c, d \in used : c = d
    <3> TAKE c, d \in used
    <3>1. /\ c \in Chunks /\ d \in Chunks /\ warmOff[c] # NoBlob /\ warmOff[d] # NoBlob
          /\ InBlob(c, g) /\ InBlob(d, g)
      BY <2>2, <2>3
    <3> QED
      BY <2>0, <3>1 DEF WarmInv, Memory, BlobsPlaced
  <2>6. free # {} <=> Covers(wfree, g)
    BY <2>1, <2>3 DEF Covers
  <2>7. free = {} <=> used # {}
    <3>1. ASSUME free = {} PROVE used # {}
      BY <2>2, <2>6, <3>1 DEF WarmInv, Memory, NothingLost
    <3>2. ASSUME used # {} PROVE free = {}
      <4>1. PICK c \in Chunks : warmOff[c] # NoBlob /\ InBlob(c, g)
        BY <2>2, <2>3, <3>2
      <4> QED
        BY <2>0, <2>6, <4>1 DEF WarmInv, Memory, BlobsPlaced
    <3> QED
      BY <3>1, <3>2
  <2>8. Cardinality(free) + Cardinality(used) = 1
    BY <2>4, <2>5, <2>7, OneOf
  <2> QED
    BY <2>8 DEF free, used
<1>4. ASSUME NEW s \in srcs, s[2] # NoBlob, NEW g \in Span(s[2], Len64[s[1]])
      PROVE  arena[g] = s[1]
  <2>1. s[1] \in Chunks /\ warmOff[s[1]] = s[2]
    BY <1>1, <1>4 DEF WarmInv, SourcesKept
  <2>2. s[2] \in 0..(Cap - 1) /\ s[2] \in Nat /\ Len64[s[1]] \in Nat
    BY <1>1, <1>4, <2>1
  <2>3. g \in Nat
    BY <2>2 DEF Span
  <2>4. s[2] <= g /\ g < s[2] + Len64[s[1]]
    BY <2>2, <2>3, InSpan
  <2> QED
    BY <1>4, <2>1, <2>3, <2>4 DEF WarmInv, Memory, BlobsPlaced, InBlob
<1> QED
  BY <1>2, <1>3, <1>4 DEF BatchKeepsItsBytes, ArenaTiled, WarmInv

\* For any chunks, lengths and capacity, and any number of frames, the bytes of
\* a batch stay those of its chunks, and every granule of the arena is free or in
\* one blob (warm_get, warm_release, warm_evict_one).
THEOREM BytesKept == ASSUME WarmAssumption PROVE WarmSpec => []BatchKeepsItsBytes
<1>1. WarmInit => WarmInv
  BY WarmInitInv
<1>2. WarmInv /\ [WarmNext]_warmVars => WarmInv'
  BY WarmStep
<1>3. WarmInv => BatchKeepsItsBytes
  BY WarmInvImplies
<1> QED
  BY <1>1, <1>2, <1>3, PTL DEF WarmSpec

-----------------------------------------------------------------------------
(***************************************************************************)
(* The demand fetch, with one volume on the directory.                     *)
(***************************************************************************)

\* One volume is open on the directory (two are not safe, and the run
\* demand_fetch_two_volumes shows it).
OneVolumeOpen == \A v, w \in Vols : v = w

\* The file of a brick the server has is not empty, ...
FilesTrue == \A b \in FullBricks : dmFile[b] # "zero"

\* ... two threads do not download one cell, ...
OneLoader ==
  \A t, u \in Samplers :
    t # u /\ dmPc[t] \in Fetching /\ dmPc[u] \in Fetching => CellOf[dmWant[t]] # CellOf[dmWant[u]]

\* ... a thread writes bricks of its cell under their temporary names, and what
\* it renames is written.
Writing ==
  \A t \in Samplers :
    /\ dmPc[t] # "idle" => dmWant[t] \in VolBricks
    /\ IF dmPc[t] \in {"stat2", "data", "rename"} THEN dmTodo[t] \subseteq CellOf[dmWant[t]]
                                                  ELSE dmTodo[t] = {}
    /\ dmPc[t] \in {"data", "rename"} =>
         /\ fd[t].at = "tmp" /\ fd[t].brick \in CellOf[dmWant[t]]
         /\ dmPc[t] = "rename" /\ fd[t].brick \in FullBricks => tmp[fd[t].brick] # "zero"

Download == FilesTrue /\ OneLoader /\ Writing

\* What is known for good is true; what a thread carries along is not for good.
Answers ==
  /\ \A t \in Samplers : got[t] = "air" /\ strict[t] => dmWant[t] \notin FullBricks
  /\ \A v \in Vols : neg[v].exp = Forever => neg[v].key \notin FullBricks
  /\ \A t \in Samplers : memo[t].exp = Forever => memo[t].key \notin FullBricks
  /\ \A t \in Samplers : absent[t] # Forever

DemandInv == DemandTypeOK /\ Download /\ Answers

LEMMA DemandConstants ==
  ASSUME DemandAssumption
  PROVE  /\ \A t \in Samplers : VolOf[t] \in Vols
         /\ \A b \in VolBricks : b \in CellOf[b] /\ CellOf[b] \subseteq VolBricks
         /\ \A b, c, x \in VolBricks : x \in CellOf[b] /\ x \in CellOf[c] => CellOf[b] = CellOf[c]
         /\ FullBricks \subseteq VolBricks /\ NoBrick \notin VolBricks
         /\ TTL \in Nat /\ Soft \in 0..TTL /\ 0 \in 0..TTL /\ Forever \notin 0..TTL /\ Forever # 0
<1>1. TTL \in Nat /\ 0 \in 0..TTL
  BY DEF DemandAssumption
<1>2. \A b \in VolBricks : CellOf[b] \subseteq VolBricks
  BY DEF DemandAssumption
<1>3. \A b, c, x \in VolBricks : x \in CellOf[b] /\ x \in CellOf[c] => CellOf[b] = CellOf[c]
  BY DEF DemandAssumption
<1> QED
  BY <1>1, <1>2, <1>3 DEF DemandAssumption

LEMMA DemandInitInv == ASSUME DemandAssumption, DemandInit PROVE DemandInv
<1>1. DemandTypeOK
  <2>1. NoNegative \in Negatives
    BY DemandConstants DEF NoNegative, Negatives, Expiries
  <2>2. NoFile \in [brick : VolBricks \cup {NoBrick}, at : {"tmp", "file", "gone"}]
    BY DEF NoFile
  <2>3. [at |-> 0, net |-> 0] \in [at : 0..TTL, net : 0..TTL] /\ 0 \in Expiries
    BY DemandConstants DEF Expiries
  <2> QED
    BY <2>1, <2>2, <2>3, DemandConstants DEF DemandInit, DemandTypeOK
<1>2. Download
  <2>1. FilesTrue
    BY DemandConstants DEF DemandInit, FilesTrue
  <2>2. \A t \in Samplers : dmPc[t] = "idle" /\ dmPc[t] \notin Fetching /\ dmTodo[t] = {}
    BY DEF DemandInit, Fetching
  <2> QED
    BY <2>1, <2>2 DEF Download, OneLoader, Writing
<1>3. Answers
  BY DemandConstants DEF DemandInit, Answers, NoNegative
<1> QED
  BY <1>1, <1>2, <1>3 DEF DemandInv

-----------------------------------------------------------------------------
(* Frames. *)

\* A thread that downloads goes on with its cell, or a thread goes elsewhere.
LEMMA OneLoaderStays ==
  ASSUME OneLoader, DemandTypeOK, NEW t \in Samplers, NEW p,
         p \notin Fetching \/ (dmPc[t] \in Fetching /\ dmWant'[t] = dmWant[t]),
         dmPc' = [dmPc EXCEPT ![t] = p],
         \A u \in Samplers \ {t} : dmWant'[u] = dmWant[u]
  PROVE  OneLoader'
<1>1. dmPc'[t] = p /\ \A u \in Samplers \ {t} : dmPc'[u] = dmPc[u]
  BY DEF DemandTypeOK
<1> SUFFICES ASSUME NEW u \in Samplers, NEW w \in Samplers, u # w, dmPc'[u] \in Fetching,
                    dmPc'[w] \in Fetching
             PROVE  CellOf[dmWant'[u]] # CellOf[dmWant'[w]]
  BY DEF OneLoader
<1>2. \A x \in {u, w} : dmPc[x] \in Fetching /\ dmWant'[x] = dmWant[x]
  BY <1>1
<1> QED
  BY <1>2 DEF OneLoader

\* A thread that has nothing to write goes where nothing is written.
LEMMA DownloadStays ==
  ASSUME Download, DemandTypeOK, NEW t \in Samplers, NEW p,
         p \notin Fetching, dmTodo[t] = {},
         p = "idle" \/ dmWant'[t] \in VolBricks,
         dmPc' = [dmPc EXCEPT ![t] = p],
         \A u \in Samplers \ {t} : dmWant'[u] = dmWant[u],
         UNCHANGED <<dmFile, tmp, fd, dmTodo>>
  PROVE  Download'
<1>1. dmPc'[t] = p /\ \A u \in Samplers \ {t} : dmPc'[u] = dmPc[u]
  BY DEF DemandTypeOK
<1>2. p \notin {"stat2", "data", "rename"}
  BY DEF Fetching
<1>3. FilesTrue'
  BY DEF Download, FilesTrue
<1>4. OneLoader'
  BY OneLoaderStays DEF Download
<1>5. Writing'
  <2> SUFFICES ASSUME NEW u \in Samplers
               PROVE  /\ dmPc'[u] # "idle" => dmWant'[u] \in VolBricks
                      /\ IF dmPc'[u] \in {"stat2", "data", "rename"}
                           THEN dmTodo[u] \subseteq CellOf[dmWant'[u]] ELSE dmTodo[u] = {}
                      /\ dmPc'[u] \in {"data", "rename"} =>
                           /\ fd[u].at = "tmp" /\ fd[u].brick \in CellOf[dmWant'[u]]
                           /\ dmPc'[u] = "rename" /\ fd[u].brick \in FullBricks =>
                                tmp[fd[u].brick] # "zero"
    BY DEF Writing
  <2>1. CASE u = t
    BY <1>1, <1>2, <2>1
  <2>2. CASE u # t
    BY <1>1, <2>2 DEF Download, Writing
  <2> QED
    BY <2>1, <2>2
<1> QED
  BY <1>3, <1>4, <1>5 DEF Download

LEMMA DownloadFrame ==
  ASSUME Download, UNCHANGED <<dmFile, tmp, fd, dmPc, dmWant, dmTodo>> PROVE Download'
BY DEF Download, FilesTrue, OneLoader, Writing

LEMMA AnswersFrame ==
  ASSUME Answers, UNCHANGED <<got, strict, dmWant, neg, memo, absent>> PROVE Answers'
BY DEF Answers

\* cv_brick returns.
LEMMA AnswerIs ==
  ASSUME DemandAssumption, DemandTypeOK, NEW t \in Samplers,
         NEW g \in {"none", "data", "air", "unknown"}, Answer(t, g)
  PROVE  /\ dmPc' = [dmPc EXCEPT ![t] = "idle"]
         /\ dmPc' \in [Samplers -> {"idle", "find", "neg", "stat", "lock", "fetch", "stat2",
                                    "data", "rename", "open", "decode", "publish"}]
         /\ got' \in [Samplers -> {"none", "data", "air", "unknown"}]
         /\ got'[t] = g /\ \A u \in Samplers \ {t} : got'[u] = got[u]
         /\ absent' \in [Samplers -> Expiries]
         /\ absent'[t] = 0 /\ \A u \in Samplers \ {t} : absent'[u] = absent[u]
         /\ age' \in [Samplers -> [at : 0..TTL, net : 0..TTL]]
<1>1. 0 \in 0..TTL /\ 0 \in Expiries
  BY DemandConstants DEF Expiries
<1> QED
  BY <1>1 DEF Answer, Goto, DemandTypeOK

-----------------------------------------------------------------------------
(* One step of each kind. *)

LEMMA ReadKeeps ==
  ASSUME DemandAssumption, DemandInv, NEW t \in Samplers, NEW b \in VolBricks, NEW s \in BOOLEAN,
         ReadBlock(t, b, s)
  PROVE  DemandInv'
<1>0. /\ dmPc[t] = "idle" /\ dmWant' = [dmWant EXCEPT ![t] = b]
      /\ strict' = [strict EXCEPT ![t] = s]
      /\ UNCHANGED <<dmFile, tmp, neg, cool, cached, memo, absent, age, dmTodo, fd, dmFaults>>
  BY DEF ReadBlock, dmDisk, dmVolume
<1>1. PICK g, p : /\ got' = [got EXCEPT ![t] = g] /\ dmPc' = [dmPc EXCEPT ![t] = p]
                  /\ g \in {"none", "air", "unknown"} /\ p \in {"idle", "find"}
                  /\ g = "air" /\ s => memo[t].exp = Forever /\ memo[t].key = b
  <2>1. CASE MemoHolds(t, b, s)
    <3>1. got' = [got EXCEPT ![t] = IF s THEN "air" ELSE Zeros(memo[t].exp)] /\ UNCHANGED dmPc
      BY <2>1 DEF ReadBlock
    <3>2. PICK g : g = IF s THEN "air" ELSE Zeros(memo[t].exp)
      OBVIOUS
    <3>3. g \in {"none", "air", "unknown"}
      BY <3>2 DEF Zeros
    <3>4. g = "air" /\ s => memo[t].exp = Forever /\ memo[t].key = b
      BY <2>1 DEF MemoHolds
    <3>5. dmPc' = [dmPc EXCEPT ![t] = "idle"]
      BY <1>0, <3>1 DEF DemandInv, DemandTypeOK
    <3> QED
      BY <3>1, <3>2, <3>3, <3>4, <3>5
  <2>2. CASE ~MemoHolds(t, b, s)
    BY <2>2 DEF ReadBlock, Goto
  <2> QED
    BY <2>1, <2>2
<1>2. DemandTypeOK'
  <2>1. /\ dmWant' \in [Samplers -> VolBricks \cup {NoBrick}]
        /\ strict' \in [Samplers -> BOOLEAN]
        /\ got' \in [Samplers -> {"none", "data", "air", "unknown"}]
        /\ dmPc' \in [Samplers -> {"idle", "find", "neg", "stat", "lock", "fetch", "stat2",
                                   "data", "rename", "open", "decode", "publish"}]
    BY <1>0, <1>1 DEF DemandInv, DemandTypeOK
  <2> QED
    BY <1>0, <2>1 DEF DemandInv, DemandTypeOK, Negatives
<1>3. Download'
  <2>1. p \notin Fetching /\ dmTodo[t] = {}
    BY <1>0, <1>1 DEF DemandInv, Download, Writing, Fetching
  <2>2. dmWant'[t] = b /\ \A u \in Samplers \ {t} : dmWant'[u] = dmWant[u]
    BY <1>0 DEF DemandInv, DemandTypeOK
  <2> QED
    BY <1>0, <1>1, <2>1, <2>2, DownloadStays DEF DemandInv
<1>4. Answers'
  <2>1. dmWant'[t] = b /\ strict'[t] = s /\ got'[t] = g
    BY <1>0, <1>1 DEF DemandInv, DemandTypeOK
  <2>2. \A u \in Samplers \ {t} : dmWant'[u] = dmWant[u] /\ strict'[u] = strict[u] /\ got'[u] = got[u]
    BY <1>0, <1>1 DEF DemandInv, DemandTypeOK
  <2>3. got'[t] = "air" /\ strict'[t] => dmWant'[t] \notin FullBricks
    BY <1>1, <2>1 DEF DemandInv, Answers
  <2> QED
    BY <1>0, <2>2, <2>3 DEF DemandInv, Answers
<1> QED
  BY <1>2, <1>3, <1>4 DEF DemandInv

\* The steps that end with an answer or go on to the next look-up.
LEMMA FindKeeps ==
  ASSUME DemandAssumption, DemandInv, NEW t \in Samplers, FindBlock(t) PROVE DemandInv'
<1>0. /\ dmPc[t] = "find" /\ UNCHANGED <<dmFile, tmp, neg, cool, cached, dmWant, strict, memo, dmTodo, fd, dmFaults>>
  BY DEF FindBlock, dmDisk, dmVolume
<1>a. dmWant[t] \in VolBricks /\ dmTodo[t] = {}
  BY <1>0 DEF DemandInv, Download, Writing
<1>1. CASE Answer(t, "data")
  <2>1. DemandTypeOK'
    BY <1>0, <1>1, AnswerIs DEF DemandInv, DemandTypeOK, Negatives, Expiries
  <2>2. Download'
    <3>1. PICK p : p = "idle" /\ p \notin Fetching /\ dmPc' = [dmPc EXCEPT ![t] = p]
      BY <1>1 DEF Answer, Goto, Fetching
    <3> QED
      BY <1>0, <1>a, <3>1, DownloadStays DEF DemandInv
  <2>3. Answers'
    <3>1. /\ got'[t] = "data" /\ absent'[t] = 0
          /\ \A u \in Samplers \ {t} : got'[u] = got[u] /\ absent'[u] = absent[u]
      BY <1>1, AnswerIs DEF DemandInv
    <3> QED
      BY <1>0, <3>1, DemandConstants DEF DemandInv, Answers
  <2> QED
    BY <2>1, <2>2, <2>3 DEF DemandInv
<1>2. CASE Goto(t, "neg") /\ UNCHANGED <<got, absent, age>>
  <2>1. DemandTypeOK'
    BY <1>0, <1>2 DEF DemandInv, DemandTypeOK, Goto, Negatives, Expiries
  <2>2. Download'
    BY <1>0, <1>2, <1>a, DownloadStays DEF DemandInv, Goto, Fetching
  <2>3. Answers'
    BY <1>0, <1>2, AnswersFrame DEF DemandInv
  <2> QED
    BY <2>1, <2>2, <2>3 DEF DemandInv
<1> QED
  BY <1>1, <1>2 DEF FindBlock

LEMMA LookUpKeeps ==
  ASSUME DemandAssumption, DemandInv, NEW t \in Samplers, LookUpNegative(t) PROVE DemandInv'
<1>0. dmPc[t] = "neg" /\ UNCHANGED <<dmFile, tmp, neg, cool, cached, dmWant, strict, dmTodo, fd, dmFaults>>
  BY DEF LookUpNegative, dmDisk, dmVolume
<1>a. dmWant[t] \in VolBricks /\ dmTodo[t] = {} /\ VolOf[t] \in Vols
  BY <1>0, DemandConstants DEF DemandInv, Download, Writing
<1>b. PICK n, exp : n = neg[VolOf[t]] /\ exp = IF n.key = dmWant[t] THEN n.exp ELSE 0
  OBVIOUS
<1>c. exp \in Expiries /\ (exp = Forever => dmWant[t] \notin FullBricks)
  <2>1. n \in Negatives /\ n.exp \in Expiries
    BY <1>a, <1>b DEF DemandInv, DemandTypeOK, Negatives
  <2>2. 0 \in Expiries /\ Forever # 0
    BY DemandConstants DEF Expiries
  <2> QED
    BY <1>a, <1>b, <2>1, <2>2 DEF DemandInv, Answers
<1>1. CASE exp = Forever \/ (exp # 0 /\ ~strict[t])
  <2>0. memo' = [memo EXCEPT ![t] = [key |-> dmWant[t], exp |-> exp]] /\ Answer(t, Zeros(exp))
    BY <1>1, <1>b DEF LookUpNegative
  <2>a. Zeros(exp) \in {"air", "unknown"} /\ (Zeros(exp) = "air" => exp = Forever)
    BY DEF Zeros
  <2>b. [key |-> dmWant[t], exp |-> exp] \in Negatives
    BY <1>a, <1>c DEF Negatives
  <2>c. /\ memo' \in [Samplers -> Negatives] /\ memo'[t] = [key |-> dmWant[t], exp |-> exp]
        /\ \A u \in Samplers \ {t} : memo'[u] = memo[u]
    BY <2>0, <2>b DEF DemandInv, DemandTypeOK
  <2>d. PICK g \in {"air", "unknown"} : g = Zeros(exp)
    BY <2>a
  <2>e. Answer(t, g)
    BY <2>0, <2>d
  <2>1. DemandTypeOK'
    BY <1>0, <2>c, <2>e, AnswerIs DEF DemandInv, DemandTypeOK, Negatives, Expiries
  <2>2. Download'
    BY <1>0, <1>a, <2>e, AnswerIs, DownloadStays DEF DemandInv, Fetching
  <2>3. Answers'
    <3>1. got'[t] = g /\ absent'[t] = 0 /\ \A u \in Samplers \ {t} : got'[u] = got[u] /\ absent'[u] = absent[u]
      BY <2>e, AnswerIs DEF DemandInv
    <3>2. got'[t] = "air" => dmWant[t] \notin FullBricks
      BY <1>c, <2>a, <2>d, <3>1
    <3>3. \A u \in Samplers : memo'[u].exp = Forever => memo'[u].key \notin FullBricks
      BY <1>c, <2>c DEF DemandInv, Answers
    <3> QED
      BY <1>0, <3>1, <3>2, <3>3, DemandConstants DEF DemandInv, Answers
  <2> QED
    BY <2>1, <2>2, <2>3 DEF DemandInv
<1>2. CASE ~(exp = Forever \/ (exp # 0 /\ ~strict[t]))
  <2>0. absent' = [absent EXCEPT ![t] = exp] /\ Goto(t, "stat") /\ UNCHANGED <<memo, got, age>>
    BY <1>2, <1>b DEF LookUpNegative
  <2>1. DemandTypeOK'
    BY <1>0, <1>c, <2>0 DEF DemandInv, DemandTypeOK, Goto, Negatives, Expiries
  <2>2. Download'
    BY <1>0, <1>a, <2>0, DownloadStays DEF DemandInv, Goto, Fetching
  <2>3. Answers'
    BY <1>0, <1>2, <2>0 DEF DemandInv, DemandTypeOK, Answers
  <2> QED
    BY <2>1, <2>2, <2>3 DEF DemandInv
<1> QED
  BY <1>1, <1>2

LEMMA StatKeeps ==
  ASSUME DemandAssumption, DemandInv, NEW t \in Samplers, StatFile(t) PROVE DemandInv'
<1>0. /\ dmPc[t] = "stat"
      /\ UNCHANGED <<dmFile, tmp, neg, cool, cached, dmWant, strict, memo, absent, age, dmTodo, fd, got, dmFaults>>
  BY DEF StatFile, dmDisk, dmVolume
<1>1. PICK p \in {"lock", "open"} : dmPc' = [dmPc EXCEPT ![t] = p]
  BY DEF StatFile, Goto
<1>2. DemandTypeOK'
  BY <1>0, <1>1 DEF DemandInv, DemandTypeOK, Negatives, Expiries
<1>3. Download'
  <2>1. dmWant[t] \in VolBricks /\ dmTodo[t] = {}
    BY <1>0 DEF DemandInv, Download, Writing
  <2> QED
    BY <1>0, <1>1, <2>1, DownloadStays DEF DemandInv, Fetching
<1>4. Answers'
  BY <1>0, AnswersFrame DEF DemandInv
<1> QED
  BY <1>2, <1>3, <1>4 DEF DemandInv

\* The lock keeps a second thread off the cell.
LEMMA LockKeeps ==
  ASSUME DemandAssumption, OneVolumeOpen, DemandInv, NEW t \in Samplers, LockCell(t)
  PROVE  DemandInv'
<1>0. /\ dmPc[t] = "lock"
      /\ UNCHANGED <<dmFile, tmp, neg, cool, cached, dmWant, strict, memo, absent, dmTodo, fd, got, dmFaults>>
  BY DEF LockCell, dmDisk, dmVolume
<1>a. dmWant[t] \in VolBricks /\ dmTodo[t] = {}
  BY <1>0 DEF DemandInv, Download, Writing
<1>4. Answers'
  BY <1>0, AnswersFrame DEF DemandInv
<1>1. CASE Goto(t, "open") /\ UNCHANGED age
  <2>1. DemandTypeOK'
    BY <1>0, <1>1 DEF DemandInv, DemandTypeOK, Goto, Negatives, Expiries
  <2>2. Download'
    BY <1>0, <1>a, <1>1, DownloadStays DEF DemandInv, Goto, Fetching
  <2> QED
    BY <1>4, <2>1, <2>2 DEF DemandInv
<1>2. CASE Goto(t, "fetch") /\ age' = [age EXCEPT ![t].net = 0]
  <2>1. DemandTypeOK'
    <3>1. age[t] \in [at : 0..TTL, net : 0..TTL] /\ 0 \in 0..TTL
      BY DemandConstants DEF DemandInv, DemandTypeOK
    <3>2. age' \in [Samplers -> [at : 0..TTL, net : 0..TTL]]
      BY <1>2, <3>1 DEF DemandInv, DemandTypeOK
    <3> QED
      BY <1>0, <1>2, <3>2 DEF DemandInv, DemandTypeOK, Goto, Negatives, Expiries
  <2>a. dmPc'[t] = "fetch" /\ \A u \in Samplers \ {t} : dmPc'[u] = dmPc[u]
    BY <1>2 DEF DemandInv, DemandTypeOK, Goto
  <2>b. \A u \in Samplers \ {t} : dmPc[u] \in Fetching => CellOf[dmWant[u]] # CellOf[dmWant[t]]
    <3>1. \A u \in Samplers : VolOf[u] = VolOf[t]
      BY DemandConstants DEF OneVolumeOpen
    <3> QED
      BY <3>1 DEF LockCell, Holder
  <2>2. FilesTrue'
    BY <1>0 DEF DemandInv, Download, FilesTrue
  <2>3. OneLoader'
    <3> SUFFICES ASSUME NEW u \in Samplers, NEW w \in Samplers, u # w, dmPc'[u] \in Fetching,
                        dmPc'[w] \in Fetching
                 PROVE  CellOf[dmWant[u]] # CellOf[dmWant[w]]
      BY <1>0 DEF OneLoader
    <3>1. CASE u = t
      BY <2>a, <2>b, <3>1
    <3>2. CASE w = t
      BY <2>a, <2>b, <3>2
    <3>3. CASE u # t /\ w # t
      BY <2>a, <3>3 DEF DemandInv, Download, OneLoader
    <3> QED
      BY <3>1, <3>2, <3>3
  <2>4. Writing'
    <3> SUFFICES ASSUME NEW u \in Samplers
                 PROVE  /\ dmPc'[u] # "idle" => dmWant[u] \in VolBricks
                        /\ IF dmPc'[u] \in {"stat2", "data", "rename"}
                             THEN dmTodo[u] \subseteq CellOf[dmWant[u]] ELSE dmTodo[u] = {}
                        /\ dmPc'[u] \in {"data", "rename"} =>
                             /\ fd[u].at = "tmp" /\ fd[u].brick \in CellOf[dmWant[u]]
                             /\ dmPc'[u] = "rename" /\ fd[u].brick \in FullBricks =>
                                  tmp[fd[u].brick] # "zero"
      BY <1>0 DEF Writing
    <3>1. CASE u = t
      BY <1>a, <2>a, <3>1
    <3>2. CASE u # t
      BY <2>a, <3>2 DEF DemandInv, Download, Writing
    <3> QED
      BY <3>1, <3>2
  <2> QED
    BY <1>4, <2>1, <2>2, <2>3, <2>4 DEF DemandInv, Download
<1> QED
  BY <1>1, <1>2 DEF LockCell

LEMMA FetchedKeeps ==
  ASSUME DemandAssumption, DemandInv, NEW t \in Samplers, Fetched(t) PROVE DemandInv'
<1>0. /\ dmPc[t] = "fetch"
      /\ UNCHANGED <<dmFile, tmp, neg, cached, dmWant, strict, memo, absent, age, fd, got>>
  BY DEF Fetched, dmDisk
<1>a. dmWant[t] \in VolBricks /\ dmTodo[t] = {} /\ VolOf[t] \in Vols
  BY <1>0, DemandConstants DEF DemandInv, Download, Writing
<1>4. Answers'
  BY <1>0, AnswersFrame DEF DemandInv
<1>1. CASE /\ dmTodo' = [dmTodo EXCEPT ![t] = CellOf[dmWant[t]]]
           /\ Goto(t, "stat2")
           /\ UNCHANGED <<cool, dmFaults>>
  <2>0. CellOf[dmWant[t]] \subseteq VolBricks
    BY <1>a, DemandConstants
  <2>1. DemandTypeOK'
    BY <1>0, <1>1, <2>0 DEF DemandInv, DemandTypeOK, Goto, Negatives, Expiries
  <2>2. /\ dmPc'[t] = "stat2" /\ dmTodo'[t] = CellOf[dmWant[t]]
        /\ \A u \in Samplers \ {t} : dmPc'[u] = dmPc[u] /\ dmTodo'[u] = dmTodo[u]
    BY <1>1 DEF DemandInv, DemandTypeOK, Goto
  <2>3. FilesTrue'
    BY <1>0 DEF DemandInv, Download, FilesTrue
  <2>4. OneLoader'
    <3>1. PICK p : p = "stat2" /\ dmPc[t] \in Fetching /\ dmPc' = [dmPc EXCEPT ![t] = p]
      BY <1>0, <1>1 DEF Goto, Fetching
    <3> QED
      BY <1>0, <3>1, OneLoaderStays DEF DemandInv, Download
  <2>5. Writing'
    BY <1>0, <1>a, <2>2 DEF DemandInv, Download, Writing
  <2> QED
    BY <1>4, <2>1, <2>3, <2>4, <2>5 DEF DemandInv, Download
<1>2. CASE /\ \E c \in {Later(TTL, age[t].net), LaterOf(cool[VolOf[t]], Later(Soft, age[t].net))} :
                 cool' = [cool EXCEPT ![VolOf[t]] = c]
           /\ Goto(t, "open")
           /\ UNCHANGED dmTodo
  <2>0. PICK c \in 0..TTL : cool' = [cool EXCEPT ![VolOf[t]] = c]
    <3>1. \A i, j \in 0..TTL : Later(i, j) \in 0..TTL /\ LaterOf(i, j) \in 0..TTL
      BY DemandConstants DEF Later, LaterOf
    <3>2. age[t].net \in 0..TTL /\ cool[VolOf[t]] \in 0..TTL /\ Soft \in 0..TTL /\ TTL \in 0..TTL
      BY <1>a, DemandConstants DEF DemandInv, DemandTypeOK
    <3>3. /\ Later(TTL, age[t].net) \in 0..TTL
          /\ LaterOf(cool[VolOf[t]], Later(Soft, age[t].net)) \in 0..TTL
      BY <3>1, <3>2
    <3> QED
      BY <1>2, <3>3
  <2>1. DemandTypeOK'
    BY <1>0, <1>2, <2>0 DEF DemandInv, DemandTypeOK, Goto, Negatives, Expiries
  <2>2. Download'
    <3>1. PICK p : p = "open" /\ p \notin Fetching /\ dmPc' = [dmPc EXCEPT ![t] = p]
      BY <1>2 DEF Goto, Fetching
    <3> QED
      BY <1>0, <1>a, <1>2, <3>1, DownloadStays DEF DemandInv
  <2> QED
    BY <1>4, <2>1, <2>2 DEF DemandInv
<1> QED
  BY <1>1, <1>2 DEF Fetched

\* Of two threads that write, each writes bricks of its own cell.
LEMMA OtherBrick ==
  ASSUME DemandAssumption, DemandInv, NEW t \in Samplers, NEW u \in Samplers, t # u,
         dmPc[t] \in Fetching, dmPc[u] \in {"data", "rename"}
  PROVE  \A b \in CellOf[dmWant[t]] : fd[u].brick # b
<1>1. /\ dmWant[t] \in VolBricks /\ dmWant[u] \in VolBricks /\ fd[u].brick \in CellOf[dmWant[u]]
      /\ CellOf[dmWant[t]] # CellOf[dmWant[u]]
  BY DEF DemandInv, Download, Writing, OneLoader, Fetching
<1> QED
  BY <1>1, DemandConstants

LEMMA OpenKeeps ==
  ASSUME DemandAssumption, DemandInv, NEW t \in Samplers, WriteOpen(t) PROVE DemandInv'
<1>0. /\ dmPc[t] = "stat2" /\ dmPc[t] \in Fetching
      /\ UNCHANGED <<dmFile, neg, cool, cached, dmWant, strict, memo, absent, age, got, dmFaults>>
  BY DEF WriteOpen, dmVolume, Fetching
<1>a. dmWant[t] \in VolBricks /\ dmTodo[t] \subseteq CellOf[dmWant[t]]
  BY <1>0 DEF DemandInv, Download, Writing
<1>1. PICK b \in dmTodo[t] :
        /\ dmTodo' = [dmTodo EXCEPT ![t] = @ \ {b}]
        /\ \/ UNCHANGED <<tmp, fd, dmPc>>
           \/ /\ tmp' = [tmp EXCEPT ![b] = "zero"]
              /\ fd' = [fd EXCEPT ![t] = [brick |-> b, at |-> "tmp"]]
              /\ Goto(t, "data")
  BY DEF WriteOpen
<1>b. b \in VolBricks /\ b \in CellOf[dmWant[t]]
  BY <1>a, DemandConstants
<1>c. dmTodo'[t] \subseteq CellOf[dmWant[t]] /\ \A u \in Samplers \ {t} : dmTodo'[u] = dmTodo[u]
  BY <1>1, <1>a DEF DemandInv, DemandTypeOK
<1>2. DemandTypeOK'
  <2>1. dmTodo' \in [Samplers -> SUBSET VolBricks]
    BY <1>1 DEF DemandInv, DemandTypeOK
  <2>2. CASE UNCHANGED <<tmp, fd, dmPc>>
    BY <1>0, <2>1, <2>2 DEF DemandInv, DemandTypeOK, Negatives, Expiries
  <2>3. CASE /\ tmp' = [tmp EXCEPT ![b] = "zero"]
             /\ fd' = [fd EXCEPT ![t] = [brick |-> b, at |-> "tmp"]]
             /\ Goto(t, "data")
    BY <1>0, <1>b, <2>1, <2>3 DEF DemandInv, DemandTypeOK, Goto, Negatives, Expiries
  <2> QED
    BY <1>1, <2>2, <2>3
<1>3. Download'
  <2>1. FilesTrue'
    BY <1>0 DEF DemandInv, Download, FilesTrue
  <2>2. OneLoader'
    <3>1. CASE UNCHANGED dmPc
      BY <1>0, <3>1 DEF DemandInv, Download, OneLoader
    <3>2. CASE Goto(t, "data")
      <4>1. PICK p : p = "data" /\ dmPc' = [dmPc EXCEPT ![t] = p]
        BY <3>2 DEF Goto
      <4> QED
        BY <1>0, <4>1, OneLoaderStays DEF DemandInv, Download
    <3> QED
      BY <1>1, <3>1, <3>2
  <2>3. Writing'
    <3>1. CASE UNCHANGED <<tmp, fd, dmPc>>
      BY <1>0, <1>c, <3>1 DEF DemandInv, Download, Writing
    <3>2. CASE /\ tmp' = [tmp EXCEPT ![b] = "zero"]
               /\ fd' = [fd EXCEPT ![t] = [brick |-> b, at |-> "tmp"]]
               /\ Goto(t, "data")
      <4>1. /\ dmPc'[t] = "data" /\ fd'[t].brick = b /\ fd'[t].at = "tmp"
            /\ \A u \in Samplers \ {t} : dmPc'[u] = dmPc[u] /\ fd'[u] = fd[u]
        BY <3>2 DEF DemandInv, DemandTypeOK, Goto
      <4>2. \A x \in VolBricks \ {b} : tmp'[x] = tmp[x]
        BY <3>2 DEF DemandInv, DemandTypeOK
      <4>3. \A u \in Samplers \ {t} : dmPc[u] \in {"data", "rename"} => fd[u].brick # b
        BY <1>0, <1>b, OtherBrick
      <4> SUFFICES ASSUME NEW u \in Samplers
                   PROVE  /\ dmPc'[u] # "idle" => dmWant'[u] \in VolBricks
                          /\ IF dmPc'[u] \in {"stat2", "data", "rename"}
                               THEN dmTodo'[u] \subseteq CellOf[dmWant'[u]] ELSE dmTodo'[u] = {}
                          /\ dmPc'[u] \in {"data", "rename"} =>
                               /\ fd'[u].at = "tmp" /\ fd'[u].brick \in CellOf[dmWant'[u]]
                               /\ dmPc'[u] = "rename" /\ fd'[u].brick \in FullBricks =>
                                    tmp'[fd'[u].brick] # "zero"
        BY DEF Writing
      <4>4. CASE u = t
        BY <1>0, <1>a, <1>b, <1>c, <4>1, <4>4
      <4>5. CASE u # t
        BY <1>0, <1>c, <4>1, <4>2, <4>3, <4>5, DemandConstants DEF DemandInv, Download, Writing
      <4> QED
        BY <4>4, <4>5
    <3> QED
      BY <1>1, <3>1, <3>2
  <2> QED
    BY <2>1, <2>2, <2>3 DEF Download
<1>4. Answers'
  BY <1>0, AnswersFrame DEF DemandInv
<1> QED
  BY <1>2, <1>3, <1>4 DEF DemandInv

LEMMA DataKeeps ==
  ASSUME DemandAssumption, DemandInv, NEW t \in Samplers, WriteData(t) PROVE DemandInv'
<1>0. /\ dmPc[t] = "data" /\ dmPc[t] \in Fetching
      /\ UNCHANGED <<neg, cool, cached, dmWant, strict, memo, absent, age, dmTodo, got>>
  BY DEF WriteData, dmVolume, Fetching
<1>a. PICK b : /\ b = fd[t].brick /\ b \in VolBricks /\ b \in CellOf[dmWant[t]] /\ fd[t].at = "tmp"
               /\ dmWant[t] \in VolBricks /\ dmTodo[t] \subseteq CellOf[dmWant[t]]
  BY <1>0, DemandConstants DEF DemandInv, Download, Writing
<1>b. \A u \in Samplers \ {t} : dmPc[u] \in {"data", "rename"} => fd[u].brick # b
  BY <1>0, <1>a, OtherBrick
<1>1. PICK p \in {"stat2", "rename"}, x \in {"none", "zero", "data"} :
        /\ tmp' = [tmp EXCEPT ![b] = x] /\ dmPc' = [dmPc EXCEPT ![t] = p]
        /\ UNCHANGED dmFile
        /\ p = "rename" => UNCHANGED fd /\ (b \in FullBricks => x # "zero")
        /\ p = "stat2" =>
             fd' = [u \in Samplers |->
                      IF u = t THEN NoFile
                      ELSE IF fd[u] = [brick |-> b, at |-> "tmp"] THEN [brick |-> b, at |-> "gone"]
                      ELSE fd[u]]
  BY <1>a DEF WriteData, Goto
<1>2. DemandTypeOK'
  <2>1. fd' \in [Samplers -> [brick : VolBricks \cup {NoBrick}, at : {"tmp", "file", "gone"}]]
    <3>1. CASE p = "rename"
      BY <1>1, <3>1 DEF DemandInv, DemandTypeOK
    <3>2. CASE p = "stat2"
      BY <1>a, <1>1, <3>2 DEF DemandInv, DemandTypeOK, NoFile
    <3> QED
      BY <3>1, <3>2
  <2> QED
    BY <1>0, <1>a, <1>1, <2>1 DEF DemandInv, DemandTypeOK, Negatives, Expiries
<1>3. Download'
  <2>1. FilesTrue'
    BY <1>1 DEF DemandInv, Download, FilesTrue
  <2>2. OneLoader'
    BY <1>0, <1>1, OneLoaderStays DEF DemandInv, Download
  <2>3. Writing'
    <3>1. /\ dmPc'[t] = p /\ tmp'[b] = x
          /\ \A u \in Samplers \ {t} : dmPc'[u] = dmPc[u]
          /\ \A y \in VolBricks \ {b} : tmp'[y] = tmp[y]
      BY <1>1, <1>a DEF DemandInv, DemandTypeOK
    <3>2. \A u \in Samplers \ {t} : dmPc[u] \in {"data", "rename"} => fd'[u] = fd[u]
      BY <1>b, <1>1
    <3>3. p = "rename" => fd'[t] = fd[t] /\ (b \in FullBricks => tmp'[b] # "zero")
      BY <1>1, <3>1
    <3> SUFFICES ASSUME NEW u \in Samplers
                 PROVE  /\ dmPc'[u] # "idle" => dmWant'[u] \in VolBricks
                        /\ IF dmPc'[u] \in {"stat2", "data", "rename"}
                             THEN dmTodo'[u] \subseteq CellOf[dmWant'[u]] ELSE dmTodo'[u] = {}
                        /\ dmPc'[u] \in {"data", "rename"} =>
                             /\ fd'[u].at = "tmp" /\ fd'[u].brick \in CellOf[dmWant'[u]]
                             /\ dmPc'[u] = "rename" /\ fd'[u].brick \in FullBricks =>
                                  tmp'[fd'[u].brick] # "zero"
      BY DEF Writing
    <3>4. CASE u = t
      BY <1>0, <1>a, <1>1, <3>1, <3>3, <3>4
    <3>5. CASE u # t
      BY <1>0, <1>b, <3>1, <3>2, <3>5, DemandConstants DEF DemandInv, Download, Writing
    <3> QED
      BY <3>4, <3>5
  <2> QED
    BY <2>1, <2>2, <2>3 DEF Download
<1>4. Answers'
  BY <1>0, AnswersFrame DEF DemandInv
<1> QED
  BY <1>2, <1>3, <1>4 DEF DemandInv

\* What is renamed was written.
LEMMA RenameKeeps ==
  ASSUME DemandAssumption, DemandInv, NEW t \in Samplers, WriteRename(t) PROVE DemandInv'
<1>0. /\ dmPc[t] = "rename" /\ dmPc[t] \in Fetching
      /\ UNCHANGED <<neg, cool, cached, dmWant, strict, memo, absent, age, dmTodo, got, dmFaults>>
  BY DEF WriteRename, dmVolume, Fetching
<1>a. PICK b : /\ b = fd[t].brick /\ b \in VolBricks /\ b \in CellOf[dmWant[t]]
               /\ b \in FullBricks => tmp[b] # "zero"
               /\ dmWant[t] \in VolBricks /\ dmTodo[t] \subseteq CellOf[dmWant[t]]
  BY <1>0, DemandConstants DEF DemandInv, Download, Writing
<1>b. \A u \in Samplers \ {t} : dmPc[u] \in {"data", "rename"} => fd[u].brick # b
  BY <1>0, <1>a, OtherBrick
<1>1. PICK p : p = "stat2" /\ p \notin {"data", "rename"} /\ dmPc' = [dmPc EXCEPT ![t] = p]
  BY DEF WriteRename, Goto
<1>c. \/ fd' = [fd EXCEPT ![t] = NoFile] /\ UNCHANGED <<dmFile, tmp>>
      \/ /\ tmp[b] # "none"
         /\ dmFile' = [dmFile EXCEPT ![b] = tmp[b]]
         /\ tmp' = [tmp EXCEPT ![b] = "none"]
         /\ fd' = [u \in Samplers |->
                     IF u = t THEN NoFile
                     ELSE IF fd[u].brick # b THEN fd[u]
                     ELSE [fd[u] EXCEPT !.at = IF @ = "tmp" THEN "file" ELSE "gone"]]
  BY <1>a DEF WriteRename, dmDisk
<1>2. DemandTypeOK'
  <2>1. fd' \in [Samplers -> [brick : VolBricks \cup {NoBrick}, at : {"tmp", "file", "gone"}]]
    BY <1>c, SMTT(30) DEF DemandInv, DemandTypeOK, NoFile
  <2>2. /\ dmFile' \in [VolBricks -> {"none", "zero", "data", "bad"}]
        /\ tmp' \in [VolBricks -> {"none", "zero", "data"}]
    <3>1. PICK x \in {"none", "zero", "data"} : x = tmp[b]
      BY <1>a DEF DemandInv, DemandTypeOK
    <3>2. \/ dmFile' = [dmFile EXCEPT ![b] = x] /\ tmp' = [tmp EXCEPT ![b] = "none"]
          \/ UNCHANGED <<dmFile, tmp>>
      BY <1>c, <3>1
    <3>3. /\ dmFile \in [VolBricks -> {"none", "zero", "data", "bad"}]
          /\ tmp \in [VolBricks -> {"none", "zero", "data"}]
      BY DEF DemandInv, DemandTypeOK
    <3>4. dmFile' \in [VolBricks -> {"none", "zero", "data", "bad"}]
      BY <3>1, <3>2, <3>3
    <3>5. tmp' \in [VolBricks -> {"none", "zero", "data"}]
      BY <3>2, <3>3
    <3> QED
      BY <3>4, <3>5
  <2> QED
    BY <1>0, <1>1, <2>1, <2>2 DEF DemandInv, DemandTypeOK, Negatives, Expiries
<1>3. Download'
  <2>1. FilesTrue'
    <3>1. PICK x : x = tmp[b] /\ (b \in FullBricks => x # "zero")
      BY <1>a
    <3>2. dmFile' = [dmFile EXCEPT ![b] = x] \/ UNCHANGED dmFile
      BY <1>c, <3>1
    <3>3. \A y \in VolBricks : dmFile'[y] = dmFile[y] \/ (y = b /\ dmFile'[y] = x)
      BY <3>2 DEF DemandInv, DemandTypeOK
    <3> QED
      BY <3>1, <3>3, DemandConstants DEF DemandInv, Download, FilesTrue
  <2>2. OneLoader'
    <3>1. dmWant'[t] = dmWant[t] /\ \A u \in Samplers \ {t} : dmWant'[u] = dmWant[u]
      BY <1>0
    <3> QED
      BY <1>0, <1>1, <3>1, OneLoaderStays DEF DemandInv, Download
  <2>3. Writing'
    <3>1. dmPc'[t] = "stat2" /\ \A u \in Samplers \ {t} : dmPc'[u] = dmPc[u]
      BY <1>1 DEF DemandInv, DemandTypeOK
    <3>2. \A y \in VolBricks \ {b} : tmp'[y] = tmp[y]
      BY <1>c DEF DemandInv, DemandTypeOK
    <3>3. \A u \in Samplers \ {t} : dmPc[u] \in {"data", "rename"} => fd'[u] = fd[u]
      BY <1>b, <1>c DEF DemandInv, DemandTypeOK
    <3> SUFFICES ASSUME NEW u \in Samplers
                 PROVE  /\ dmPc'[u] # "idle" => dmWant'[u] \in VolBricks
                        /\ IF dmPc'[u] \in {"stat2", "data", "rename"}
                             THEN dmTodo'[u] \subseteq CellOf[dmWant'[u]] ELSE dmTodo'[u] = {}
                        /\ dmPc'[u] \in {"data", "rename"} =>
                             /\ fd'[u].at = "tmp" /\ fd'[u].brick \in CellOf[dmWant'[u]]
                             /\ dmPc'[u] = "rename" /\ fd'[u].brick \in FullBricks =>
                                  tmp'[fd'[u].brick] # "zero"
      BY DEF Writing
    <3>4. CASE u = t
      BY <1>0, <1>a, <3>1, <3>4
    <3>5. CASE u # t
      BY <1>0, <1>b, <3>1, <3>2, <3>3, <3>5, DemandConstants DEF DemandInv, Download, Writing
    <3> QED
      BY <3>4, <3>5
  <2> QED
    BY <2>1, <2>2, <2>3 DEF Download
<1>4. Answers'
  BY <1>0, AnswersFrame DEF DemandInv
<1> QED
  BY <1>2, <1>3, <1>4 DEF DemandInv

LEMMA WrittenKeeps ==
  ASSUME DemandAssumption, DemandInv, NEW t \in Samplers, CellWritten(t) PROVE DemandInv'
<1>0. /\ dmPc[t] = "stat2" /\ dmTodo[t] = {}
      /\ UNCHANGED <<dmFile, tmp, neg, cool, cached, dmWant, strict, memo, absent, age, dmTodo, fd, got, dmFaults>>
  BY DEF CellWritten, dmDisk, dmVolume
<1>1. PICK p : p = "open" /\ p \notin Fetching /\ dmPc' = [dmPc EXCEPT ![t] = p]
  BY DEF CellWritten, Goto, Fetching
<1>2. DemandTypeOK'
  BY <1>0, <1>1 DEF DemandInv, DemandTypeOK, Negatives, Expiries
<1>3. Download'
  <2>1. dmWant[t] \in VolBricks
    BY <1>0 DEF DemandInv, Download, Writing
  <2> QED
    BY <1>0, <1>1, <2>1, DownloadStays DEF DemandInv
<1>4. Answers'
  BY <1>0, AnswersFrame DEF DemandInv
<1> QED
  BY <1>2, <1>3, <1>4 DEF DemandInv

\* A failure is not remembered for good.
LEMMA ExpiryEnds ==
  ASSUME DemandAssumption, DemandInv, NEW t \in Samplers
  PROVE  Expiry(t) \in Expiries /\ Expiry(t) # Forever
<1>1. age[t].at \in 0..TTL /\ absent[t] \in Expiries /\ absent[t] # Forever
  BY DEF DemandInv, DemandTypeOK, Answers
<1>2. \A i \in 0..TTL : Later(TTL, i) \in 0..TTL
  BY DemandConstants DEF Later
<1>3. Later(TTL, age[t].at) \in 0..TTL
  BY <1>1, <1>2
<1> QED
  BY <1>1, <1>3, DemandConstants DEF Expiry, Expiries

LEMMA OpenFileKeeps ==
  ASSUME DemandAssumption, DemandInv, NEW t \in Samplers, OpenFile(t) PROVE DemandInv'
<1>0. /\ dmPc[t] = "open"
      /\ UNCHANGED <<dmFile, tmp, cool, cached, dmWant, strict, dmTodo, fd, dmFaults>>
  BY DEF OpenFile, dmDisk
<1>a. dmWant[t] \in VolBricks /\ dmTodo[t] = {} /\ VolOf[t] \in Vols
  BY <1>0, DemandConstants DEF DemandInv, Download, Writing
<1>1. CASE Goto(t, "decode") /\ UNCHANGED <<neg, memo, got, absent, age>>
  <2>0. PICK p : p = "decode" /\ p \notin Fetching /\ dmPc' = [dmPc EXCEPT ![t] = p]
    BY <1>1 DEF Goto, Fetching
  <2>1. DemandTypeOK'
    BY <1>0, <1>1, <2>0 DEF DemandInv, DemandTypeOK, Negatives, Expiries
  <2>2. Download'
    BY <1>0, <1>a, <2>0, DownloadStays DEF DemandInv
  <2>3. Answers'
    BY <1>0, <1>1, AnswersFrame DEF DemandInv
  <2> QED
    BY <2>1, <2>2, <2>3 DEF DemandInv
<1>2. CASE ~(dmFile[dmWant[t]] \in {"data", "bad"})
  <2>a. PICK exp : exp = IF dmFile[dmWant[t]] = "zero" THEN Forever ELSE Expiry(t)
    OBVIOUS
  <2>b. PICK n : n = [key |-> dmWant[t], exp |-> exp]
    OBVIOUS
  <2>c. exp \in Expiries /\ n \in Negatives /\ n.key = dmWant[t] /\ n.exp = exp
    BY <1>a, <2>a, <2>b, ExpiryEnds DEF Expiries, Negatives
  <2>d. exp = Forever => dmWant[t] \notin FullBricks
    BY <2>a, ExpiryEnds DEF DemandInv, Download, FilesTrue
  <2>e. PICK g \in {"air", "unknown"} : g = Zeros(exp) /\ (g = "air" => exp = Forever)
    BY DEF Zeros
  <2>f. neg' = [neg EXCEPT ![VolOf[t]] = n] /\ memo' = [memo EXCEPT ![t] = n] /\ Answer(t, g)
    BY <1>2, <2>a, <2>b, <2>e DEF OpenFile
  <2>g. /\ \A u \in Samplers : memo'[u] = memo[u] \/ memo'[u] = n
        /\ \A v \in Vols : neg'[v] = neg[v] \/ neg'[v] = n
    BY <2>f DEF DemandInv, DemandTypeOK
  <2>1. DemandTypeOK'
    <3>1. neg' \in [Vols -> Negatives] /\ memo' \in [Samplers -> Negatives]
      BY <2>c, <2>f DEF DemandInv, DemandTypeOK
    <3> QED
      BY <1>0, <2>f, <3>1, AnswerIs DEF DemandInv, DemandTypeOK, Expiries
  <2>2. Download'
    <3>1. PICK p : p = "idle" /\ p \notin Fetching /\ dmPc' = [dmPc EXCEPT ![t] = p]
      BY <2>f DEF Answer, Goto, Fetching
    <3> QED
      BY <1>0, <1>a, <3>1, DownloadStays DEF DemandInv
  <2>3. Answers'
    <3>1. /\ got'[t] = g /\ absent'[t] = 0
          /\ \A u \in Samplers \ {t} : got'[u] = got[u] /\ absent'[u] = absent[u]
      BY <2>f, AnswerIs DEF DemandInv
    <3>2. \A u \in Samplers : got'[u] = "air" /\ strict'[u] => dmWant'[u] \notin FullBricks
      BY <1>0, <2>d, <2>e, <3>1 DEF DemandInv, Answers
    <3>3. \A u \in Samplers : memo'[u].exp = Forever => memo'[u].key \notin FullBricks
      BY <2>c, <2>d, <2>g DEF DemandInv, Answers
    <3>4. \A v \in Vols : neg'[v].exp = Forever => neg'[v].key \notin FullBricks
      BY <2>c, <2>d, <2>g DEF DemandInv, Answers
    <3>5. \A u \in Samplers : absent'[u] # Forever
      BY <3>1, DemandConstants DEF DemandInv, Answers
    <3> QED
      BY <3>2, <3>3, <3>4, <3>5 DEF Answers
  <2> QED
    BY <2>1, <2>2, <2>3 DEF DemandInv
<1> QED
  BY <1>1, <1>2 DEF OpenFile

LEMMA DecodeKeeps ==
  ASSUME DemandAssumption, DemandInv, NEW t \in Samplers, DecodeFile(t) PROVE DemandInv'
<1>0. /\ dmPc[t] = "decode"
      /\ UNCHANGED <<dmFile, tmp, cool, cached, dmWant, strict, memo, dmTodo, fd, dmFaults>>
  BY DEF DecodeFile, dmDisk
<1>a. dmWant[t] \in VolBricks /\ dmTodo[t] = {} /\ VolOf[t] \in Vols
  BY <1>0, DemandConstants DEF DemandInv, Download, Writing
<1>1. CASE Goto(t, "publish") /\ UNCHANGED <<neg, got, absent, age>>
  <2>0. PICK p : p = "publish" /\ p \notin Fetching /\ dmPc' = [dmPc EXCEPT ![t] = p]
    BY <1>1 DEF Goto, Fetching
  <2>1. DemandTypeOK'
    BY <1>0, <1>1, <2>0 DEF DemandInv, DemandTypeOK, Negatives, Expiries
  <2>2. Download'
    BY <1>0, <1>a, <2>0, DownloadStays DEF DemandInv
  <2>3. Answers'
    BY <1>0, <1>1, AnswersFrame DEF DemandInv
  <2> QED
    BY <2>1, <2>2, <2>3 DEF DemandInv
<1>2. CASE /\ neg' = [neg EXCEPT ![VolOf[t]] = [key |-> dmWant[t], exp |-> Expiry(t)]]
           /\ Answer(t, "unknown")
  <2>b. PICK n : n = [key |-> dmWant[t], exp |-> Expiry(t)]
    OBVIOUS
  <2>c. n \in Negatives /\ n.exp # Forever
    BY <1>a, <2>b, ExpiryEnds DEF Negatives
  <2>d. PICK g \in {"unknown"} : Answer(t, g)
    BY <1>2
  <2>g. \A v \in Vols : neg'[v] = neg[v] \/ neg'[v] = n
    BY <1>2, <2>b DEF DemandInv, DemandTypeOK
  <2>1. DemandTypeOK'
    <3>1. neg' \in [Vols -> Negatives]
      BY <1>2, <2>b, <2>c DEF DemandInv, DemandTypeOK
    <3> QED
      BY <1>0, <2>d, <3>1, AnswerIs DEF DemandInv, DemandTypeOK, Negatives, Expiries
  <2>2. Download'
    <3>1. PICK p : p = "idle" /\ p \notin Fetching /\ dmPc' = [dmPc EXCEPT ![t] = p]
      BY <2>d DEF Answer, Goto, Fetching
    <3> QED
      BY <1>0, <1>a, <3>1, DownloadStays DEF DemandInv
  <2>3. Answers'
    <3>1. /\ got'[t] = "unknown" /\ absent'[t] = 0
          /\ \A u \in Samplers \ {t} : got'[u] = got[u] /\ absent'[u] = absent[u]
      BY <2>d, AnswerIs DEF DemandInv
    <3> QED
      BY <1>0, <2>c, <2>g, <3>1, DemandConstants DEF DemandInv, Answers
  <2> QED
    BY <2>1, <2>2, <2>3 DEF DemandInv
<1> QED
  BY <1>1, <1>2 DEF DecodeFile

LEMMA PublishKeeps ==
  ASSUME DemandAssumption, DemandInv, NEW t \in Samplers, PublishBlock(t) PROVE DemandInv'
<1>0. /\ dmPc[t] = "publish"
      /\ UNCHANGED <<dmFile, tmp, neg, cool, dmWant, strict, memo, dmTodo, fd, dmFaults>>
  BY DEF PublishBlock, dmDisk
<1>a. dmWant[t] \in VolBricks /\ dmTodo[t] = {} /\ VolOf[t] \in Vols
  BY <1>0, DemandConstants DEF DemandInv, Download, Writing
<1>b. PICK g \in {"data"} : Answer(t, g)
  BY DEF PublishBlock
<1>1. DemandTypeOK'
  <2>1. cached' \in [Vols -> SUBSET VolBricks]
    <3>1. \/ cached' = [cached EXCEPT ![VolOf[t]] = @ \cup {dmWant[t]}]
          \/ UNCHANGED cached
      BY DEF PublishBlock
    <3>2. cached \in [Vols -> SUBSET VolBricks]
      BY DEF DemandInv, DemandTypeOK
    <3>3. cached[VolOf[t]] \cup {dmWant[t]} \in SUBSET VolBricks
      BY <1>a, <3>2
    <3> QED
      BY <3>1, <3>2, <3>3
  <2> QED
    BY <1>0, <1>b, <2>1, AnswerIs DEF DemandInv, DemandTypeOK, Negatives, Expiries
<1>2. Download'
  <2>1. PICK p : p = "idle" /\ p \notin Fetching /\ dmPc' = [dmPc EXCEPT ![t] = p]
    BY <1>b DEF Answer, Goto, Fetching
  <2> QED
    BY <1>0, <1>a, <2>1, DownloadStays DEF DemandInv
<1>3. Answers'
  <2>1. /\ got'[t] = "data" /\ absent'[t] = 0
        /\ \A u \in Samplers \ {t} : got'[u] = got[u] /\ absent'[u] = absent[u]
    BY <1>b, AnswerIs DEF DemandInv
  <2> QED
    BY <1>0, <2>1, DemandConstants DEF DemandInv, Answers
<1> QED
  BY <1>1, <1>2, <1>3 DEF DemandInv

LEMMA EvictBlockKeeps ==
  ASSUME DemandAssumption, DemandInv, NEW v \in Vols, NEW b \in VolBricks, EvictBlock(v, b)
  PROVE  DemandInv'
<1>0. UNCHANGED <<dmFile, tmp, neg, cool, dmPc, dmWant, strict, memo, absent, age, dmTodo, fd, got>>
  BY DEF EvictBlock, dmDisk, dmReader
<1>1. cached' \in [Vols -> SUBSET VolBricks]
  BY DEF EvictBlock, DemandInv, DemandTypeOK
<1>2. DemandTypeOK'
  BY <1>0, <1>1 DEF DemandInv, DemandTypeOK, Negatives, Expiries
<1> QED
  BY <1>0, <1>2, DownloadFrame, AnswersFrame DEF DemandInv

\* Time makes nothing last for good.
LEMMA TickKeeps ==
  ASSUME DemandAssumption, DemandInv, DemandTick PROVE DemandInv'
<1>0. UNCHANGED <<dmFile, tmp, cached, dmPc, dmWant, strict, dmTodo, fd, got>>
  BY DEF DemandTick, dmDisk
<1>a. \A x \in Expiries : Earlier(x) \in Expiries /\ (Earlier(x) = Forever => x = Forever)
  <2> SUFFICES ASSUME NEW x \in Expiries
               PROVE  Earlier(x) \in Expiries /\ (Earlier(x) = Forever => x = Forever)
    OBVIOUS
  <2>1. CASE x \in {0, Forever}
    BY <2>1 DEF Earlier
  <2>2. CASE x \in 0..TTL /\ x \notin {0, Forever}
    <3>1. x - 1 \in 0..TTL
      BY <2>2, DemandConstants
    <3> QED
      BY <2>2, <3>1, DemandConstants DEF Earlier, Expiries
  <2> QED
    BY <2>1, <2>2 DEF Expiries
<1>b. \A i \in 0..TTL : Earlier(i) \in 0..TTL /\ Older(i) \in 0..TTL
  <2>1. \A i \in 0..TTL : i # 0 => i - 1 \in 0..TTL
    BY DemandConstants
  <2>2. \A i \in 0..TTL : i < TTL => i + 1 \in 0..TTL
    BY DemandConstants
  <2> QED
    BY <2>1, <2>2, DemandConstants DEF Earlier, Older
<1>c. \A n \in Negatives : [n EXCEPT !.exp = Earlier(@)] \in Negatives
  BY <1>a DEF Negatives
<1>1. DemandTypeOK'
  <2>1. neg' \in [Vols -> Negatives]
    BY <1>c DEF DemandTick, DemandInv, DemandTypeOK
  <2>2. memo' \in [Samplers -> Negatives]
    BY <1>c DEF DemandTick, DemandInv, DemandTypeOK
  <2>3. cool' \in [Vols -> 0..TTL]
    BY <1>b DEF DemandTick, DemandInv, DemandTypeOK
  <2>4. absent' \in [Samplers -> Expiries]
    BY <1>a DEF DemandTick, DemandInv, DemandTypeOK
  <2>5. age' \in [Samplers -> [at : 0..TTL, net : 0..TTL]]
    <3>1. \A u \in Samplers : age[u] \in [at : 0..TTL, net : 0..TTL]
      BY DEF DemandInv, DemandTypeOK
    <3>2. 0 \in 0..TTL
      BY DemandConstants
    <3>3. \A u \in Samplers : Older(age[u].at) \in 0..TTL /\ Older(age[u].net) \in 0..TTL
      BY <1>b, <3>1
    <3> QED
      BY <3>1, <3>2, <3>3 DEF DemandTick
  <2> QED
    BY <1>0, <2>1, <2>2, <2>3, <2>4, <2>5 DEF DemandInv, DemandTypeOK
<1>2. Download'
  BY <1>0, DownloadFrame DEF DemandInv
<1>3. Answers'
  <2>1. \A v \in Vols : /\ neg[v] \in Negatives /\ neg'[v].key = neg[v].key
                        /\ neg'[v].exp = Earlier(neg[v].exp) /\ neg[v].exp \in Expiries
    BY DEF DemandTick, DemandInv, DemandTypeOK, Negatives
  <2>2. \A u \in Samplers : /\ memo[u] \in Negatives /\ memo'[u].key = memo[u].key
                            /\ memo'[u].exp = Earlier(memo[u].exp) /\ memo[u].exp \in Expiries
    BY DEF DemandTick, DemandInv, DemandTypeOK, Negatives
  <2>3. \A u \in Samplers : absent'[u] = Earlier(absent[u]) /\ absent[u] \in Expiries
    BY DEF DemandTick, DemandInv, DemandTypeOK
  <2> QED
    BY <1>0, <1>a, <2>1, <2>2, <2>3 DEF DemandInv, Answers
<1> QED
  BY <1>1, <1>2, <1>3 DEF DemandInv

LEMMA DemandStep ==
  ASSUME DemandAssumption, OneVolumeOpen, DemandInv, [DemandNext]_demandVars PROVE DemandInv'
<1>1. ASSUME NEW t \in Samplers, ReadStep(t) PROVE DemandInv'
  BY <1>1, FindKeeps, LookUpKeeps, StatKeeps, LockKeeps, FetchedKeeps, OpenKeeps, DataKeeps,
     RenameKeeps, WrittenKeeps, OpenFileKeeps, DecodeKeeps, PublishKeeps DEF ReadStep
<1>2. ASSUME NEW b \in VolBricks, ReadSome(b) PROVE DemandInv'
  BY <1>2, ReadKeeps DEF ReadSome
<1>3. ASSUME NEW v \in Vols, NEW b \in VolBricks, EvictBlock(v, b) PROVE DemandInv'
  BY <1>3, EvictBlockKeeps
<1>4. CASE UNCHANGED demandVars
  <2>1. UNCHANGED <<dmFile, tmp, neg, cool, cached, dmPc, dmWant, strict, memo, absent, age,
                    dmTodo, fd, got>>
    BY <1>4 DEF demandVars, dmDisk, dmVolume, dmReader
  <2>2. DemandTypeOK'
    BY <2>1 DEF DemandInv, DemandTypeOK, Negatives, Expiries
  <2> QED
    BY <2>1, <2>2, DownloadFrame, AnswersFrame DEF DemandInv
<1> QED
  BY <1>1, <1>2, <1>3, <1>4, TickKeeps DEF DemandNext

\* With one volume on the directory, whatever fails, expires or is evicted, a
\* strict read that is told air reads a brick the server does not have, and no
\* negative remembered for good is of a brick the server has.
THEOREM AirNeverGuessed ==
  ASSUME DemandAssumption, OneVolumeOpen PROVE DemandSpec => []NoFalseAir
<1>1. DemandInit => DemandInv
  BY DemandInitInv
<1>2. DemandInv /\ [DemandNext]_demandVars => DemandInv'
  BY DemandStep
<1>3. DemandInv => NoFalseAir
  BY DEF DemandInv, Answers, NoFalseAir
<1> QED
  BY <1>1, <1>2, <1>3, PTL DEF DemandSpec
=============================================================================
