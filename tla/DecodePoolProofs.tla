------------------------- MODULE DecodePoolProofs --------------------------
(***************************************************************************)
(* The decode pool is safe for any number of pool threads, callers and     *)
(* items: a job is never touched after brdec_run has returned, no item is  *)
(* decoded twice, and none is missing when the call returns.  So it        *)
(* implements the batch decode of BatchDecode.                             *)
(***************************************************************************)
EXTENDS DecodePool, FiniteSetTheorems, TLAPS

CallerPc == {"idle", "lock", "post", "claim", "decode", "drain", "drainwait", "return"}
WorkerPc == {"absent", "check", "wait", "claim", "decode", "leave"}
Holding(c) == pc[c] \in CallerPc \ {"idle", "lock"}
Insiders == {w \in Workers : Inside(w)}

\* Who is where: g_dpool_run_mu serialises the calls, g_dpool.job is set
\* exactly while its owner is in the middle part of the call, and busy
\* counts the pool threads inside it.
Control ==
  /\ \A c \in Callers : pc[c] \in CallerPc
  /\ \A w \in Workers : pc[w] \in WorkerPc
  /\ \A w \in Workers \ started : pc[w] = "absent"
  /\ ~up => started = {}
  /\ \A c \in Callers : Holding(c) => runMu = c
  /\ \A c \in Callers : InCall(c) <=> job = c
  /\ \A c \in Callers : InCall(c) => mine[c] = c
  /\ \A w \in Workers : Inside(w) => job # NoJob /\ mine[w] = job
  /\ busy = Cardinality(Insiders)

\* What has happened to the items of a job: everything below next is
\* decoded or pending in exactly one thread.
Before ==
  /\ \A c \in Callers : grain[c] > 0
  /\ \A c \in Callers : pc[c] = "lock" => decoded[c] = {}
  /\ \A c \in Callers : pc[c] = "post" => decoded[c] = {} /\ next[c] = 0

Bounds ==
  /\ \A c \in Callers : \A i \in decoded[c] : i < n[c]
  /\ \A c \in Callers : InCall(c) => \A i \in decoded[c] : i < next[c]
  /\ \A c \in Callers : pc[c] \in {"drain", "drainwait"} => n[c] <= next[c]

Ranges ==
  /\ \A t \in Threads : pc[t] = "decode" =>
       /\ cursor[t] < limit[t]
       /\ limit[t] <= next[job]
       /\ \A i \in decoded[job] : ~(cursor[t] <= i /\ i < limit[t])
  /\ \A t, u \in Threads : t # u /\ pc[t] = "decode" /\ pc[u] = "decode" =>
       limit[t] <= cursor[u] \/ limit[u] <= cursor[t]

Covered ==
  \A c \in Callers : InCall(c) => \A i \in Nat : i < n[c] /\ i < next[c] =>
    \/ i \in decoded[c]
    \/ \E t \in Threads : pc[t] = "decode" /\ cursor[t] <= i /\ i < limit[t]

Items == Before /\ Bounds /\ Ranges /\ Covered /\ ReturnsComplete

IInv == TypeOK /\ Control /\ Items

-----------------------------------------------------------------------------

\* A pool thread inside the job is counted, so leaving cannot underflow busy.
LEMMA BusyCounts ==
  ASSUME TypeOK, Control
  PROVE  /\ IsFiniteSet(Insiders)
         /\ busy = 0 <=> Insiders = {}
<1>1. IsFiniteSet(Insiders)
  BY FS_Subset, PoolAssumption DEF Insiders
<1>2. QED
  BY <1>1, FS_EmptySet DEF Control

\* A thread that is decoding works on the posted job.
LEMMA WorkingOnJob ==
  ASSUME TypeOK, Control, NEW t \in Threads, pc[t] \in {"claim", "decode"}
  PROVE  mine[t] = job /\ job \in Callers
<1>1. CASE t \in Callers
  BY <1>1 DEF Control, InCall
<1>2. CASE t \in Workers
  BY <1>2 DEF Control, Inside, TypeOK
<1>3. QED
  BY <1>1, <1>2 DEF Threads

\* The pool threads after a job is posted: s of them exist, the new ones and
\* the parked ones run.
LEMMA PostWakes ==
  ASSUME NEW c \in Callers, Post(c)
  PROVE  \E s \in SUBSET Workers :
           /\ up => s = started
           /\ started' = s
           /\ grain' = [grain EXCEPT ![c] = GrainOf(n[c], Cardinality(s) + 1)]
           /\ pc' = [t \in Threads |->
                       IF t = c THEN "claim"
                       ELSE IF t \in s \ started THEN "check"
                       ELSE Woken(t, "wait", "check")]
  BY Zenon DEF Post

\* Every value stays in its range: no step leaves a field of g_dpool or of a
\* job undefined.
LEMMA TypeStep ==
  ASSUME TypeOK, Control, [Next]_vars
  PROVE  TypeOK'
<1> USE PoolAssumption DEF TypeOK, Threads
<1>1. ASSUME NEW c \in Callers, Begin(c) PROVE TypeOK'
  BY <1>1 DEF Begin, poolVars, claimVars
<1>2. ASSUME NEW c \in Callers, LockRun(c) PROVE TypeOK'
  BY <1>2 DEF LockRun, poolVars, claimVars
<1>3. ASSUME NEW c \in Callers, Post(c) PROVE TypeOK'
  <2>1. PICK s \in SUBSET Workers :
          /\ up => s = started
          /\ started' = s
          /\ grain' = [grain EXCEPT ![c] = GrainOf(n[c], Cardinality(s) + 1)]
          /\ pc' = [t \in Threads |->
                      IF t = c THEN "claim"
                      ELSE IF t \in s \ started THEN "check"
                      ELSE Woken(t, "wait", "check")]
    BY <1>3, PostWakes
  <2>2. \A k, threads \in Nat : GrainOf(k, threads) \in Nat
    BY DEF GrainOf
  <2>3. Cardinality(s) + 1 \in Nat
    <3>1. IsFiniteSet(s)
      BY FS_Subset, PoolAssumption
    <3>2. Cardinality(s) \in Nat
      BY <3>1, FS_CardinalityType
    <3>3. QED
      BY <3>2
  <2>4. GrainOf(n[c], Cardinality(s) + 1) \in Nat
    BY <2>2, <2>3
  <2>5. grain' \in [Callers -> Nat]
    BY <2>1, <2>4
  <2>6. pc' \in [Threads -> {"absent", "check", "wait", "claim", "decode", "leave",
                  "idle", "lock", "post", "drain", "drainwait", "return"}]
    BY <2>1 DEF Woken
  <2>7. QED
    BY <1>3, <2>1, <2>5, <2>6 DEF Post
<1>4. ASSUME NEW c \in Callers, Drain(c) PROVE TypeOK'
  BY <1>4 DEF Drain, jobVars, claimVars
<1>5. ASSUME NEW c \in Callers, Return(c) PROVE TypeOK'
  BY <1>5 DEF Return, poolVars, jobVars
<1>6. ASSUME NEW w \in Workers, Check(w) PROVE TypeOK'
  BY <1>6 DEF Check, jobVars
<1>7. ASSUME NEW w \in Workers, Leave(w) PROVE TypeOK'
  <2>1. w \in Insiders
    BY <1>7 DEF Leave, Insiders, Inside
  <2>2. busy # 0
    BY <2>1, BusyCounts
  <2>3. QED
    BY <1>7, <2>2 DEF Leave, Woken, jobVars
<1>8. ASSUME NEW t \in Threads, Claim(t) PROVE TypeOK'
  <2>1. mine[t] \in Callers
    BY <1>8, WorkingOnJob DEF Claim
  <2>2. QED
    BY <1>8, <2>1 DEF Claim, poolVars
<1>9. ASSUME NEW t \in Threads, Decode(t) PROVE TypeOK'
  BY <1>9, SMTT(30) DEF Decode, poolVars
<1>10. ASSUME NEW t \in Threads, Spurious(t) PROVE TypeOK'
  BY <1>10 DEF Spurious, poolVars, jobVars, claimVars
<1>11. CASE UNCHANGED vars
  BY <1>11 DEF vars, poolVars, jobVars, claimVars
<1>12. QED
  BY <1>1, <1>2, <1>3, <1>4, <1>5, <1>6, <1>7, <1>8, <1>9, <1>10, <1>11
     DEF Next, CallerStep, WorkerStep, JobStep

\* g_dpool.job, the run mutex and busy stay in step with where the threads
\* are: a pool thread is inside the job only between Post and Drain.
LEMMA ControlStep ==
  ASSUME TypeOK, Control, [Next]_vars, TypeOK'
  PROVE  Control'
<1> USE PoolAssumption DEF Control, TypeOK, Threads, CallerPc, WorkerPc, Holding,
        InCall, Inside
<1>1. ASSUME NEW c \in Callers, Begin(c) \/ LockRun(c) \/ Return(c) PROVE Control'
  <2>1. Insiders' = Insiders
    BY <1>1 DEF Begin, LockRun, Return, Insiders
  <2>2. CASE Begin(c)
    BY <2>1, <2>2 DEF Begin, poolVars, claimVars
  <2>3. CASE LockRun(c)
    BY <2>1, <2>3 DEF LockRun, poolVars, claimVars
  <2>4. CASE Return(c)
    BY <2>1, <2>4 DEF Return, poolVars, jobVars
  <2>5. QED
    BY <1>1, <2>2, <2>3, <2>4
<1>2. ASSUME NEW c \in Callers, Post(c) PROVE Control'
  <2>1. PICK s \in SUBSET Workers :
          /\ up => s = started
          /\ started' = s
          /\ pc' = [t \in Threads |->
                      IF t = c THEN "claim"
                      ELSE IF t \in s \ started THEN "check"
                      ELSE Woken(t, "wait", "check")]
    <3> HIDE DEF Control, TypeOK, Threads
    <3> QED BY <1>2, PostWakes
  <2>2. /\ pc[c] = "post" /\ runMu = c /\ job = NoJob
        /\ \A w \in Workers : ~Inside(w)
    BY <1>2, SMTT(30) DEF Post
  <2>3. \A w \in Workers : ~Inside(w)'
    BY <2>1, <2>2 DEF Woken
  <2>4. Insiders' = Insiders
    BY <2>2, <2>3 DEF Insiders
  <2>5. \A d \in Callers : d # c => pc'[d] = pc[d]
    BY <2>1 DEF Woken
  <2>6. \A w \in Workers : pc'[w] \in WorkerPc
    BY <2>1 DEF Woken
  <2>7. \A w \in Workers \ started' : pc'[w] = "absent"
    BY <2>1 DEF Woken
  <2>8. QED
    BY <1>2, <2>1, <2>2, <2>3, <2>4, <2>5, <2>6, <2>7 DEF Post
<1>3. ASSUME NEW c \in Callers, Drain(c) PROVE Control'
  <2>1. Insiders' = Insiders
    BY <1>3 DEF Drain, Insiders
  <2>2. job = c
    BY <1>3 DEF Drain
  <2>3. busy = 0 => \A w \in Workers : ~Inside(w)
    BY BusyCounts DEF Insiders
  <2>4. QED
    BY <1>3, <2>1, <2>2, <2>3 DEF Drain, jobVars, claimVars
<1>4. ASSUME NEW w \in Workers, Check(w) PROVE Control'
  <2>1. CASE pc'[w] # "claim"
    <3>1. Insiders' = Insiders
      BY <1>4, <2>1 DEF Check, Insiders
    <3>2. QED
      BY <1>4, <2>1, <3>1, SMTT(30) DEF Check, jobVars
  <2>2. CASE pc'[w] = "claim"
    <3>1. Insiders' = Insiders \cup {w} /\ w \notin Insiders
      BY <1>4, <2>2 DEF Check, Insiders
    <3>2. Cardinality(Insiders') = Cardinality(Insiders) + 1
      BY <3>1, BusyCounts, FS_AddElement
    <3>3. busy' = busy + 1 /\ job # NoJob /\ mine' = [mine EXCEPT ![w] = job]
          /\ pc' = [pc EXCEPT ![w] = "claim"]
      BY <1>4, <2>2 DEF Check
    <3>4. busy' = Cardinality(Insiders')
      BY <3>2, <3>3
    <3>5. QED
      BY <1>4, <3>3, <3>4 DEF Check, jobVars
  <2>3. QED
    BY <2>1, <2>2
<1>5. ASSUME NEW w \in Workers, Leave(w) PROVE Control'
  <2>1. Insiders' = Insiders \ {w} /\ w \in Insiders
    BY <1>5 DEF Leave, Woken, Insiders
  <2>2. Cardinality(Insiders') = Cardinality(Insiders) - 1
    BY <2>1, BusyCounts, FS_RemoveElement
  <2>3. busy' = Cardinality(Insiders')
    BY <1>5, <2>2 DEF Leave
  <2>4. QED
    BY <1>5, <2>3 DEF Leave, Woken, jobVars
<1>6. ASSUME NEW t \in Threads, Claim(t) \/ Decode(t) PROVE Control'
  <2>1. Insiders' = Insiders
    BY <1>6 DEF Claim, Decode, Insiders
  <2>2. CASE Claim(t)
    BY <2>1, <2>2 DEF Claim, poolVars
  <2>3. CASE Decode(t)
    <3>1. job' = job /\ mine' = mine /\ busy' = busy /\ runMu' = runMu
          /\ started' = started /\ up' = up
      BY <2>3 DEF Decode, poolVars
    <3>2. /\ pc' = [pc EXCEPT ![t] = pc'[t]]
          /\ pc[t] = "decode"
          /\ pc'[t] \in (IF t \in Callers THEN {"claim", "decode", "drain"}
                          ELSE {"claim", "decode", "leave"})
      BY <2>3 DEF Decode
    <3>3. CASE t \in Callers
      <4>1. pc'[t] \in {"claim", "decode", "drain"} /\ t \notin Workers
        BY <3>2, <3>3
      <4>2. QED
        BY <2>1, <3>1, <3>2, <3>3, <4>1, ZenonT(40)
    <3>4. CASE t \in Workers
      <4>1. pc'[t] \in {"claim", "decode", "leave"} /\ t \notin Callers
        BY <3>2, <3>4
      <4>2. \A d \in Callers : pc'[d] = pc[d]
        BY <3>2, <4>1
      <4>3. \A w \in Workers : Inside(w)' => Inside(w)
        BY <3>2
      <4>4. \A w \in Workers : pc'[w] \in WorkerPc
        BY <3>2, <4>1
      <4>5. \A w \in Workers \ started : pc'[w] = "absent"
        BY <3>2
      <4>6. QED
        BY <2>1, <3>1, <4>2, <4>3, <4>4, <4>5
    <3>5. QED
      BY <3>3, <3>4
  <2>4. QED
    BY <1>6, <2>2, <2>3
<1>7. ASSUME NEW t \in Threads, Spurious(t) PROVE Control'
  <2>1. Insiders' = Insiders
    BY <1>7 DEF Spurious, Insiders
  <2>2. QED
    BY <1>7, <2>1 DEF Spurious, poolVars, jobVars, claimVars
<1>8. CASE UNCHANGED vars
  BY <1>8 DEF vars, poolVars, jobVars, claimVars, Insiders
<1>9. QED
  BY <1>1, <1>2, <1>3, <1>4, <1>5, <1>6, <1>7, <1>8
     DEF Next, CallerStep, WorkerStep, JobStep

-----------------------------------------------------------------------------

\* A step that neither moves a thread in or out of decoding nor changes a
\* job in progress leaves the items as they were.
LEMMA ItemsFrame ==
  ASSUME TypeOK, Control, Items, Control',
         UNCHANGED <<cursor, limit>>,
         grain' = grain,
         \A t \in Threads : pc'[t] = "decode" <=> pc[t] = "decode",
         \A t \in Threads : pc[t] = "decode" => job' = job,
         \A c \in Callers : InCall(c)' =>
            InCall(c) /\ n'[c] = n[c] /\ next'[c] = next[c] /\ decoded'[c] = decoded[c],
         \A c \in Callers : decoded'[c] = {} \/ (decoded'[c] = decoded[c] /\ n'[c] = n[c]),
         \A c \in Callers : pc'[c] = "lock" => decoded'[c] = {},
         \A c \in Callers : pc'[c] = "post" => decoded'[c] = {} /\ next'[c] = 0,
         \A c \in Callers : pc'[c] \in {"drain", "drainwait"} =>
            pc[c] \in {"drain", "drainwait"},
         ReturnsComplete'
  PROVE  Items'
<1> USE DEF Threads
<1>1. Before'
  BY DEF Items, Before
<1>2. Bounds'
  BY DEF Items, Bounds, InCall
<1>3. Ranges'
  <2>1. ASSUME NEW t \in Threads, pc'[t] = "decode"
        PROVE  job' = job /\ job \in Callers /\ next'[job] = next[job]
               /\ decoded'[job] = decoded[job]
    <3>1. pc[t] = "decode" /\ job' = job
      BY <2>1
    <3>2. job \in Callers
      BY <3>1, WorkingOnJob
    <3>3. InCall(job)'
      BY <3>1, <3>2 DEF Control
    <3>4. QED
      BY <3>1, <3>2, <3>3
  <2>2. QED
    BY <2>1 DEF Items, Ranges
<1>4. Covered'
  BY DEF Items, Covered
<1>5. QED
  BY <1>1, <1>2, <1>3, <1>4 DEF Items

\* Every item below next is decoded once or claimed by one thread; the call
\* leaves its loop only when nothing is left to claim, and its drain only
\* when nothing is left to decode.
LEMMA ItemsStep ==
  ASSUME TypeOK, Control, Items, [Next]_vars, TypeOK', Control'
  PROVE  Items'
<1> USE PoolAssumption DEF TypeOK, Threads, InCall
<1>1. ASSUME NEW c \in Callers, Begin(c) PROVE Items'
  <2>1. ReturnsComplete'
    BY <1>1 DEF Begin, Items, ReturnsComplete
  <2>2. QED
    BY <1>1, <2>1, ItemsFrame DEF Begin, poolVars, claimVars, Items, Before
<1>2. ASSUME NEW c \in Callers, LockRun(c) PROVE Items'
  <2>1. ReturnsComplete'
    BY <1>2 DEF LockRun, Items, ReturnsComplete
  <2>2. QED
    BY <1>2, <2>1, ItemsFrame DEF LockRun, poolVars, claimVars, Items, Before
<1>3. ASSUME NEW c \in Callers, Post(c) PROVE Items'
  <2>1. PICK s \in SUBSET Workers :
          /\ up => s = started
          /\ started' = s
          /\ grain' = [grain EXCEPT ![c] = GrainOf(n[c], Cardinality(s) + 1)]
          /\ pc' = [t \in Threads |->
                      IF t = c THEN "claim"
                      ELSE IF t \in s \ started THEN "check"
                      ELSE Woken(t, "wait", "check")]
    <3> HIDE DEF TypeOK, Threads
    <3> QED BY <1>3, PostWakes
  <2>2. pc[c] = "post" /\ job = NoJob
    BY <1>3 DEF Post, Control, Holding, CallerPc
  <2>3. \A t \in Threads : pc[t] # "decode"
    BY <2>2, WorkingOnJob
  <2>4. \A t \in Threads : pc'[t] # "decode"
    BY <2>1, <2>3 DEF Woken
  <2>5. \A d \in Callers : d # c => pc'[d] = pc[d]
    BY <2>1 DEF Woken, Control, CallerPc
  <2>6. \A d \in Callers : InCall(d)' => d = c
    BY <2>2, <2>5 DEF Control
  <2>7. pc'[c] = "claim" /\ decoded'[c] = {} /\ next'[c] = 0
    BY <1>3, <2>1, <2>2 DEF Post, Items, Before
  <2>8. \A k, m \in Nat : GrainOf(k, m) > 0
    BY DEF GrainOf
  <2>9. grain'[c] > 0
    <3>1. IsFiniteSet(s)
      BY FS_Subset
    <3>2. Cardinality(s) \in Nat
      BY <3>1, FS_CardinalityType
    <3>3. QED
      BY <2>1, <2>8, <3>2
  <2>10. UNCHANGED <<n, next, decoded, cursor, limit>>
    BY <1>3 DEF Post
  <2>11. Before'
    BY <2>1, <2>5, <2>7, <2>9, <2>10 DEF Before, Items
  <2>12. Bounds'
    BY <2>5, <2>6, <2>7, <2>10 DEF Bounds, Items
  <2>13. Ranges' /\ Covered'
    BY <2>4, <2>6, <2>7 DEF Ranges, Covered
  <2>14. ReturnsComplete'
    BY <2>5, <2>7, <2>10 DEF ReturnsComplete, Items
  <2>15. QED
    BY <2>11, <2>12, <2>13, <2>14 DEF Items
<1>4. ASSUME NEW c \in Callers, Drain(c) PROVE Items'
  <2>1. ReturnsComplete'
    <3>1. CASE busy # 0
      BY <1>4, <3>1 DEF Drain, Items, ReturnsComplete, jobVars
    <3>2. CASE busy = 0
      <4>1. job = c /\ pc[c] = "drain"
        BY <1>4 DEF Drain, Control
      <4>2. \A w \in Workers : pc[w] # "decode"
        BY <3>2, BusyCounts DEF Insiders, Inside
      <4>3. \A d \in Callers : pc[d] # "decode"
        BY <4>1 DEF Control
      <4>4. InCall(c) /\ n[c] <= next[c] /\ n[c] \in Nat /\ next[c] \in Nat
        BY <4>1 DEF Items, Bounds
      <4>5. ASSUME NEW i \in Nat, i < n[c] PROVE i \in decoded[c]
        <5>1. i < next[c]
          BY <4>4, <4>5
        <5>2. QED
          BY <4>2, <4>3, <4>4, <4>5, <5>1 DEF Items, Covered
      <4>6. decoded[c] = 0..(n[c] - 1)
        <5>1. decoded[c] \subseteq Nat /\ \A i \in decoded[c] : i < n[c]
          BY DEF Items, Bounds
        <5>2. \A i : i \in decoded[c] <=> i \in Nat /\ i < n[c]
          BY <4>5, <5>1
        <5>3. \A i : i \in 0..(n[c] - 1) <=> i \in Nat /\ i < n[c]
          BY <4>4
        <5> HIDE DEF TypeOK, Threads, InCall
        <5>4. QED
          BY <5>2, <5>3
      <4>7. QED
        BY <1>4, <4>6, SMTT(30) DEF Drain, Items, ReturnsComplete, jobVars
    <3>3. QED
      BY <3>1, <3>2
  <2>2. \A t \in Threads : pc[t] = "decode" => job' = job
    <3>1. SUFFICES ASSUME NEW t \in Threads, pc[t] = "decode", busy = 0 PROVE FALSE
      BY <1>4 DEF Drain
    <3>2. t \notin Workers
      BY <3>1, BusyCounts DEF Insiders, Inside
    <3>3. QED
      BY <1>4, <3>1, <3>2 DEF Drain, Control
  <2>3. QED
    BY <1>4, <2>1, <2>2, ItemsFrame DEF Drain, jobVars, claimVars, Items, Before
<1>5. ASSUME NEW c \in Callers, Return(c) PROVE Items'
  <2>1. ReturnsComplete'
    BY <1>5 DEF Return, Items, ReturnsComplete, jobVars
  <2>2. QED
    BY <1>5, <2>1, ItemsFrame DEF Return, poolVars, jobVars, Items, Before
<1>6. ASSUME NEW w \in Workers, Check(w) \/ Leave(w) PROVE Items'
  <2>1. \A c \in Callers : pc'[c] = pc[c] \/ (pc[c] = "drainwait" /\ pc'[c] = "drain")
    BY <1>6 DEF Check, Leave, Woken
  <2>2. \A t \in Threads : pc'[t] = "decode" <=> pc[t] = "decode"
    BY <1>6 DEF Check, Leave, Woken
  <2>3. UNCHANGED <<job, cursor, limit, jobVars>>
    BY <1>6 DEF Check, Leave
  <2>4. ReturnsComplete'
    BY <2>1, <2>3 DEF Items, ReturnsComplete, jobVars
  <2>5. QED
    BY <2>1, <2>2, <2>3, <2>4, ItemsFrame DEF jobVars, Items, Before
<1>7. ASSUME NEW t \in Threads, Spurious(t) PROVE Items'
  <2>1. ReturnsComplete'
    BY <1>7 DEF Spurious, Items, ReturnsComplete, jobVars
  <2>2. QED
    BY <1>7, <2>1, ItemsFrame DEF Spurious, poolVars, jobVars, claimVars, Items, Before
<1>8. CASE UNCHANGED vars
  BY <1>8 DEF vars, poolVars, jobVars, claimVars, Items, Before, Bounds, Ranges,
              Covered, ReturnsComplete
<1>9. ASSUME NEW t \in Threads, Claim(t) PROVE Items'
  <2>1. pc[t] = "claim" /\ mine[t] = job /\ job \in Callers /\ InCall(job)
    BY <1>9, WorkingOnJob DEF Claim, Control
  <2>2. /\ cursor' = [cursor EXCEPT ![t] = next[job]]
        /\ limit' = [limit EXCEPT ![t] = next[job] + grain[job]]
        /\ next' = [next EXCEPT ![job] = next[job] + grain[job]]
        /\ pc' = [pc EXCEPT ![t] = "decode"]
        /\ UNCHANGED <<job, n, grain, decoded>>
    BY <1>9, <2>1 DEF Claim, poolVars
  <2>3. grain[job] > 0 /\ grain[job] \in Nat /\ next[job] \in Nat
    BY <2>1 DEF Items, Before
  <2>4. \A c \in Callers : c # job => ~InCall(c)
    BY DEF Control
  <2>5. Before'
    BY <2>1, <2>2 DEF Items, Before
  <2>6. Bounds'
    BY <2>1, <2>2, <2>3, <2>4 DEF Items, Bounds
  <2>7. Ranges'
    <3>1. ASSUME NEW u \in Threads, pc'[u] = "decode", u # t
          PROVE  /\ pc[u] = "decode" /\ cursor'[u] = cursor[u] /\ limit'[u] = limit[u]
                 /\ cursor[u] < limit[u] /\ limit[u] <= next[job]
                 /\ \A i \in decoded[job] : ~(cursor[u] <= i /\ i < limit[u])
                 /\ cursor[u] \in Nat /\ limit[u] \in Nat
      BY <2>2, <3>1 DEF Items, Ranges
    <3>2. /\ cursor'[t] = next[job] /\ limit'[t] = next[job] + grain[job]
          /\ next'[job] = next[job] + grain[job]
      BY <2>1, <2>2
    <3>3. \A i \in decoded[job] : i < next[job] /\ i \in Nat
      BY <2>1 DEF Items, Bounds
    <3>4. ASSUME NEW u \in Threads, pc'[u] = "decode"
          PROVE  /\ cursor'[u] < limit'[u] /\ limit'[u] <= next'[job]
                 /\ \A i \in decoded[job] : ~(cursor'[u] <= i /\ i < limit'[u])
      <4>1. CASE u = t
        BY <2>3, <3>2, <3>3, <4>1
      <4>2. CASE u # t
        BY <2>3, <3>1, <3>2, <3>4, <4>2
      <4>3. QED
        BY <4>1, <4>2
    <3>5. ASSUME NEW u \in Threads, NEW v \in Threads, u # v,
                 pc'[u] = "decode", pc'[v] = "decode"
          PROVE  limit'[u] <= cursor'[v] \/ limit'[v] <= cursor'[u]
      <4>1. CASE u # t /\ v # t
        BY <3>1, <3>5, <4>1 DEF Items, Ranges
      <4>2. CASE u = t
        BY <3>1, <3>2, <3>5, <4>2
      <4>3. CASE v = t
        BY <3>1, <3>2, <3>5, <4>3
      <4>4. QED
        BY <4>1, <4>2, <4>3
    <3>6. job' = job /\ decoded' = decoded
      BY <2>2
    <3>7. QED
      BY <3>4, <3>5, <3>6 DEF Ranges
  <2>8. Covered'
    <3>1. SUFFICES ASSUME NEW i \in Nat, i < n[job], i < next'[job]
                   PROVE  \/ i \in decoded[job]
                          \/ \E u \in Threads : pc'[u] = "decode" /\ cursor'[u] <= i
                                                /\ i < limit'[u]
      BY <2>1, <2>2, <2>4 DEF Covered
    <3>2. CASE i < next[job]
      <4>1. \/ i \in decoded[job]
            \/ \E u \in Threads : pc[u] = "decode" /\ cursor[u] <= i /\ i < limit[u]
        BY <2>1, <3>1, <3>2 DEF Items, Covered
      <4>2. QED
        BY <2>1, <2>2, <4>1
    <3>3. CASE next[job] <= i
      BY <2>1, <2>2, <2>3, <3>1, <3>3
    <3>4. QED
      BY <2>3, <3>2, <3>3
  <2>9. ReturnsComplete'
    BY <2>1, <2>2 DEF Items, ReturnsComplete
  <2>10. QED
    BY <2>5, <2>6, <2>7, <2>8, <2>9 DEF Items
<1>10. ASSUME NEW t \in Threads, Decode(t) PROVE Items'
  <2>1. pc[t] = "decode" /\ mine[t] = job /\ job \in Callers /\ InCall(job)
    BY <1>10, WorkingOnJob DEF Decode, Control
  <2>2. UNCHANGED <<job, n, grain, next>>
    BY <1>10 DEF Decode, poolVars
  <2>3. \A c \in Callers : c # job => ~InCall(c)
    BY DEF Control
  <2>4. /\ cursor[t] \in Nat /\ limit[t] \in Nat /\ next[job] \in Nat /\ n[job] \in Nat
        /\ cursor[t] < limit[t] /\ limit[t] <= next[job]
    BY <2>1 DEF Items, Ranges
  <2>5. \A c \in Callers : c # t => pc'[c] = pc[c]
    BY <1>10 DEF Decode
  <2>6. CASE cursor[t] >= n[job]
    <3>1. /\ pc' = [pc EXCEPT ![t] = IF t \in Callers THEN "drain" ELSE "leave"]
          /\ cursor' = [cursor EXCEPT ![t] = 0]
          /\ limit' = [limit EXCEPT ![t] = 0]
          /\ decoded' = decoded
      BY <1>10, <2>1, <2>6 DEF Decode
    <3>2. Before'
      BY <2>2, <3>1 DEF Items, Before
    <3>3. Bounds'
      <4>1. t \in Callers => t = job
        BY <2>1 DEF Control
      <4>2. n[job] <= next[job]
        BY <2>4, <2>6
      <4>3. QED
        BY <2>1, <2>2, <2>3, <3>1, <4>1, <4>2 DEF Items, Bounds
    <3>4. Ranges'
      BY <2>2, <3>1 DEF Items, Ranges
    <3>5. Covered'
      BY <2>1, <2>2, <2>3, <2>6, <3>1 DEF Items, Covered
    <3>6. ReturnsComplete'
      BY <2>1, <2>2, <3>1 DEF Items, ReturnsComplete
    <3>7. QED
      BY <3>2, <3>3, <3>4, <3>5, <3>6 DEF Items
  <2>7. CASE cursor[t] < n[job]
    <3>1. /\ pc' = [pc EXCEPT ![t] =
                     IF cursor[t] + 1 = limit[t] THEN "claim" ELSE "decode"]
          /\ cursor' = [cursor EXCEPT ![t] = cursor[t] + 1]
          /\ limit' = limit
          /\ decoded' = [decoded EXCEPT ![job] = decoded[job] \cup {cursor[t]}]
      BY <1>10, <2>1, <2>4, <2>7 DEF Decode
    <3>2. Before'
      BY <2>1, <2>2, <3>1 DEF Items, Before
    <3>3. Bounds'
      BY <2>1, <2>2, <2>3, <2>4, <2>7, <3>1 DEF Items, Bounds
    <3>4. Ranges'
      <4>1. ASSUME NEW u \in Threads, pc'[u] = "decode", u # t
            PROVE  /\ pc[u] = "decode" /\ cursor'[u] = cursor[u] /\ limit'[u] = limit[u]
                   /\ cursor[u] < limit[u] /\ limit[u] <= next[job]
                   /\ \A i \in decoded[job] : ~(cursor[u] <= i /\ i < limit[u])
                   /\ cursor[u] \in Nat /\ limit[u] \in Nat
                   /\ limit[u] <= cursor[t] \/ limit[t] <= cursor[u]
        BY <2>1, <3>1, <4>1 DEF Items, Ranges
      <4>2. /\ cursor'[t] = cursor[t] + 1 /\ limit'[t] = limit[t]
            /\ decoded'[job] = decoded[job] \cup {cursor[t]}
            /\ pc'[t] = "decode" => cursor[t] + 1 # limit[t]
        BY <2>1, <3>1
      <4>3. \A i \in decoded[job] : ~(cursor[t] <= i /\ i < limit[t]) /\ i \in Nat
        BY <2>1 DEF Items, Ranges
      <4>4. ASSUME NEW u \in Threads, pc'[u] = "decode"
            PROVE  /\ cursor'[u] < limit'[u] /\ limit'[u] <= next[job]
                   /\ \A i \in decoded'[job] : ~(cursor'[u] <= i /\ i < limit'[u])
        <5>1. CASE u = t
          <6>1. cursor[t] + 1 < limit[t]
            BY <2>4, <4>2, <4>4, <5>1
          <6>2. \A i \in decoded'[job] : ~(cursor[t] + 1 <= i /\ i < limit[t])
            BY <2>4, <4>2, <4>3
          <6>3. QED
            BY <2>4, <4>2, <5>1, <6>1, <6>2
        <5>2. CASE u # t
          BY <2>4, <4>1, <4>2, <4>4, <5>2
        <5>3. QED
          BY <5>1, <5>2
      <4>5. ASSUME NEW u \in Threads, NEW v \in Threads, u # v,
                   pc'[u] = "decode", pc'[v] = "decode"
            PROVE  limit'[u] <= cursor'[v] \/ limit'[v] <= cursor'[u]
        <5>1. CASE u # t /\ v # t
          BY <4>1, <4>5, <5>1 DEF Items, Ranges
        <5>2. CASE u = t
          BY <2>4, <4>1, <4>2, <4>5, <5>2, SMTT(30)
        <5>3. CASE v = t
          BY <2>4, <4>1, <4>2, <4>5, <5>3, SMTT(30)
        <5>4. QED
          BY <5>1, <5>2, <5>3
      <4>6. QED
        BY <2>2, <4>4, <4>5 DEF Ranges
    <3>5. Covered'
      <4>1. SUFFICES ASSUME NEW i \in Nat, i < n[job], i < next[job]
                     PROVE  \/ i \in decoded'[job]
                            \/ \E u \in Threads : pc'[u] = "decode" /\ cursor'[u] <= i
                                                  /\ i < limit'[u]
        BY <2>1, <2>2, <2>3, <2>5, <3>1 DEF Covered
      <4>2. CASE i = cursor[t]
        BY <2>1, <3>1, <4>2
      <4>3. CASE i # cursor[t]
        <5>1. \/ i \in decoded[job]
              \/ \E u \in Threads : pc[u] = "decode" /\ cursor[u] <= i /\ i < limit[u]
          BY <2>1, <4>1 DEF Items, Covered
        <5>2. CASE i \in decoded[job]
          BY <2>1, <3>1, <5>2
        <5>3. ASSUME NEW u \in Threads, pc[u] = "decode", cursor[u] <= i, i < limit[u]
              PROVE  pc'[u] = "decode" /\ cursor'[u] <= i /\ i < limit'[u]
          <6>1. CASE u = t
            <7>1. cursor[t] + 1 <= i /\ cursor[t] + 1 # limit[t]
              <8>1. cursor[t] <= i /\ i < limit[t]
                BY <5>3, <6>1
              <8> HIDE DEF TypeOK, Threads, InCall
              <8>2. QED
                BY <2>4, <4>1, <4>3, <8>1
            <7>2. pc'[t] = "decode" /\ cursor'[t] = cursor[t] + 1 /\ limit'[t] = limit[t]
              BY <3>1, <7>1
            <7>3. QED
              BY <5>3, <6>1, <7>1, <7>2
          <6>2. CASE u # t
            BY <3>1, <5>3, <6>2
          <6>3. QED
            BY <6>1, <6>2
        <5>4. QED
          BY <5>1, <5>2, <5>3
      <4>4. QED
        BY <4>2, <4>3
    <3>6. ReturnsComplete'
      BY <2>1, <2>2, <2>3, <3>1 DEF Items, ReturnsComplete
    <3>7. QED
      BY <3>2, <3>3, <3>4, <3>5, <3>6 DEF Items
  <2>8. QED
    BY <2>4, <2>6, <2>7
<1>11. QED
  BY <1>1, <1>2, <1>3, <1>4, <1>5, <1>6, <1>7, <1>8, <1>9, <1>10
     DEF Next, CallerStep, WorkerStep, JobStep

-----------------------------------------------------------------------------

\* The pool starts with no thread and no job.
LEMMA InitIInv == ASSUME Init PROVE IInv
<1> USE PoolAssumption DEF Init, Threads
<1>1. TypeOK
  BY DEF TypeOK
<1>2. Insiders = {}
  BY DEF Insiders, Inside
<1>3. Control
  BY <1>2, FS_EmptySet DEF Control, CallerPc, WorkerPc, Holding, InCall, Inside
<1>4. Items
  BY DEF Items, Before, Bounds, Ranges, Covered, ReturnsComplete, InCall
<1>5. QED
  BY <1>1, <1>3, <1>4 DEF IInv

\* The inductive invariant of the pool.
THEOREM Invariance == Spec => []IInv
<1>1. Init => IInv
  BY InitIInv
<1>2. IInv /\ [Next]_vars => IInv'
  BY TypeStep, ControlStep, ItemsStep DEF IInv
<1>3. QED
  BY <1>1, <1>2, PTL DEF Spec

\* Every field of g_dpool and of a job stays in its range; in particular busy
\* never underflows.
THEOREM TypeCorrect == Spec => []TypeOK
<1>1. IInv => TypeOK
  BY DEF IInv
<1>2. QED
  BY <1>1, Invariance, PTL

\* No pool thread holds the pointer to a job after brdec_run has returned.
THEOREM JobOutlivesWorkers == Spec => []NoUseAfterReturn
<1>1. IInv => NoUseAfterReturn
  BY DEF IInv, Control, NoUseAfterReturn, TypeOK
<1>2. QED
  BY <1>1, Invariance, PTL

\* No item is decoded twice and no two threads write the same output.
THEOREM EachItemOnce == Spec => []NoDoubleDecode
<1>1. IInv => NoDoubleDecode
  <2> SUFFICES ASSUME IInv PROVE NoDoubleDecode
    OBVIOUS
  <2> USE DEF IInv, TypeOK, Pending
  <2>1. ASSUME NEW t \in Threads, mine[t] \in Callers
        PROVE  Pending(t) \cap decoded[mine[t]] = {}
    <3>1. CASE pc[t] = "decode"
      <4>1. mine[t] = job
        BY <3>1, WorkingOnJob
      <4>2. QED
        BY <3>1, <4>1 DEF Items, Ranges
    <3>2. QED
      BY <3>1
  <2>2. ASSUME NEW t \in Threads, NEW u \in Threads, t # u
        PROVE  Pending(t) \cap Pending(u) = {}
    BY <2>2 DEF Items, Ranges
  <2>3. QED
    BY <2>1, <2>2 DEF NoDoubleDecode
<1>2. QED
  BY <1>1, Invariance, PTL

\* When brdec_run returns, every item of its batch has been decoded.
THEOREM CompleteAtReturn == Spec => []ReturnsComplete
<1>1. IInv => ReturnsComplete
  BY DEF IInv, Items
<1>2. QED
  BY <1>1, Invariance, PTL

-----------------------------------------------------------------------------
(* The pool implements the abstract batch decode.                          *)

\* A call waits for its turn with a result that nobody has touched.
Untouched == \A c \in Callers : pc[c] = "lock" => rc[c] = 0

\* The lookups that the abstract state needs, before and after a step.
Hidden ==
  /\ \A c \in Callers : (pc'[c] = "idle") <=> (pc[c] = "idle")
  /\ UNCHANGED <<n, decoded>> /\ \A c \in Callers : rc'[c] = rc[c]

LEMMA HiddenStep ==
  ASSUME Hidden
  PROVE  UNCHANGED Abstract!absVars
<1> DEFINE Open == [c \in Callers |-> pc[c] # "idle"]
           Left == [c \in Callers |-> IF pc[c] = "idle" THEN {} ELSE (0..(n[c] - 1)) \ decoded[c]]
           Failed == [c \in Callers |-> rc[c] # 0]
<1>1. Open' = Open
  BY DEF Hidden
<1>2. Left' = Left
  BY DEF Hidden
<1>3. Failed' = Failed
  BY DEF Hidden
<1> QED
  BY <1>1, <1>2, <1>3 DEF Abstract!absVars

\* Before a decode step there are items of its job left, and the item is one.
LEMMA DecodesOne ==
  ASSUME IInv, NEW t \in Threads, pc[t] = "decode", NEW c \in Callers, c = mine[t],
         cursor[t] < n[c]
  PROVE  /\ pc[c] # "idle" /\ cursor[t] \in (0..(n[c] - 1)) \ decoded[c]
<1>1. c = job
  BY WorkingOnJob DEF IInv
<1>2. pc[c] # "idle"
  BY <1>1 DEF IInv, Control, InCall
<1>3. cursor[t] \in Nat /\ limit[t] \in Nat /\ n[c] \in Nat
  BY DEF IInv, TypeOK
<1>4. cursor[t] < limit[t] /\ \A i \in decoded[c] : ~(cursor[t] <= i /\ i < limit[t])
  BY <1>1 DEF IInv, Items, Ranges
<1>5. cursor[t] \notin decoded[c]
  BY <1>3, <1>4
<1> QED
  BY <1>2, <1>3, <1>5

LEMMA RefinementStep ==
  ASSUME IInv, Untouched, [Next]_vars
  PROVE  Untouched' /\ [Abstract!Next]_Abstract!absVars
<1> USE PoolAssumption
<1> TypeOK
  BY DEF IInv
<1>1. ASSUME NEW c \in Callers, Begin(c)
      PROVE  Untouched' /\ Abstract!Next
  <2>1. PICK k \in Batches : n' = [n EXCEPT ![c] = k]
    BY <1>1 DEF Begin
  <2>2. /\ pc[c] = "idle" /\ pc' = [pc EXCEPT ![c] = "lock"]
        /\ decoded' = [decoded EXCEPT ![c] = {}] /\ rc' = [rc EXCEPT ![c] = 0]
    BY <1>1 DEF Begin
  <2>3. Untouched'
    BY <2>2 DEF Untouched, TypeOK, Threads
  <2>4. Abstract!Call(c)
    <3>1. /\ \A x \in Callers : pc'[x] = IF x = c THEN "lock" ELSE pc[x]
          /\ \A x \in Callers : n'[x] = IF x = c THEN k ELSE n[x]
          /\ \A x \in Callers : decoded'[x] = IF x = c THEN {} ELSE decoded[x]
          /\ \A x \in Callers : rc'[x] = IF x = c THEN 0 ELSE rc[x]
      BY <2>1, <2>2 DEF TypeOK, Threads
    <3>2. [x \in Callers |-> pc'[x] # "idle"] =
            [[x \in Callers |-> pc[x] # "idle"] EXCEPT ![c] = TRUE]
      BY <3>1
    <3>3. [x \in Callers |-> IF pc'[x] = "idle" THEN {} ELSE (0..(n'[x] - 1)) \ decoded'[x]] =
            [[x \in Callers |-> IF pc[x] = "idle" THEN {} ELSE (0..(n[x] - 1)) \ decoded[x]]
               EXCEPT ![c] = 0..(k - 1)]
      BY <3>1
    <3>4. [x \in Callers |-> rc'[x] # 0] = [[x \in Callers |-> rc[x] # 0] EXCEPT ![c] = FALSE]
      BY <3>1
    <3> QED
      BY <2>2, <3>2, <3>3, <3>4 DEF Abstract!Call
  <2> QED
    BY <2>3, <2>4 DEF Abstract!Next
<1>2. ASSUME NEW c \in Callers, LockRun(c)
      PROVE  Untouched' /\ Hidden
  BY <1>2 DEF LockRun, Untouched, Hidden, TypeOK, Threads
<1>3. ASSUME NEW c \in Callers, Post(c)
      PROVE  Untouched' /\ Hidden
  <2>1. PICK s \in SUBSET Workers :
          pc' = [t \in Threads |-> IF t = c THEN "claim"
                                   ELSE IF t \in s \ started THEN "check"
                                   ELSE Woken(t, "wait", "check")]
    BY <1>3, PostWakes
  <2>2. \A x \in Callers : pc'[x] = IF x = c THEN "claim" ELSE pc[x]
    BY <2>1 DEF Woken, Threads, IInv, Control, CallerPc
  <2>3. pc[c] = "post" /\ UNCHANGED <<n, decoded, rc>>
    BY <1>3 DEF Post
  <2> QED
    BY <2>2, <2>3 DEF Untouched, Hidden
<1>4. ASSUME NEW c \in Callers, Drain(c)
      PROVE  Untouched' /\ Hidden
  BY <1>4 DEF Drain, Untouched, Hidden, TypeOK, Threads, jobVars
<1>5. ASSUME NEW c \in Callers, Return(c)
      PROVE  Untouched' /\ Abstract!Next
  <2>1. /\ pc[c] = "return" /\ pc' = [pc EXCEPT ![c] = "idle"]
        /\ UNCHANGED <<n, decoded, rc>>
    BY <1>5 DEF Return, jobVars
  <2>2. decoded[c] = 0..(n[c] - 1)
    BY <2>1 DEF IInv, Items, ReturnsComplete
  <2>3. \A x \in Callers : pc'[x] = IF x = c THEN "idle" ELSE pc[x]
    BY <2>1 DEF TypeOK, Threads
  <2>4. Abstract!Return(c)
    <3>1. [x \in Callers |-> pc'[x] # "idle"] =
            [[x \in Callers |-> pc[x] # "idle"] EXCEPT ![c] = FALSE]
      BY <2>3
    <3>2. [x \in Callers |-> IF pc'[x] = "idle" THEN {} ELSE (0..(n'[x] - 1)) \ decoded'[x]] =
            [x \in Callers |-> IF pc[x] = "idle" THEN {} ELSE (0..(n[x] - 1)) \ decoded[x]]
      BY <2>1, <2>2, <2>3
    <3> QED
      BY <2>1, <2>2, <3>1, <3>2 DEF Abstract!Return
  <2> QED
    BY <2>1, <2>3, <2>4 DEF Abstract!Next, Untouched
<1>6. ASSUME NEW w \in Workers, Check(w)
      PROVE  Untouched' /\ Hidden
  BY <1>6 DEF Check, Untouched, Hidden, TypeOK, Threads, jobVars
<1>7. ASSUME NEW w \in Workers, Leave(w)
      PROVE  Untouched' /\ Hidden
  BY <1>7 DEF Leave, Woken, Untouched, Hidden, TypeOK, Threads, jobVars
<1>8. ASSUME NEW t \in Threads, Claim(t)
      PROVE  Untouched' /\ Hidden
  BY <1>8 DEF Claim, Untouched, Hidden, TypeOK, Threads
<1>9. ASSUME NEW t \in Threads, Decode(t)
      PROVE  Untouched' /\ [Abstract!Next]_Abstract!absVars
  <2>1. PICK c \in Callers : c = mine[t] /\ c = job
    BY <1>9, WorkingOnJob DEF Decode, IInv
  <2>2. pc[t] = "decode" /\ UNCHANGED n /\ pc[c] \notin {"idle", "lock"}
    BY <1>9, <2>1 DEF Decode, IInv, Control, InCall
  <2>3. \A x \in Callers : /\ (pc'[x] = "idle") <=> (pc[x] = "idle")
                           /\ (pc'[x] = "lock") <=> (pc[x] = "lock")
    BY <1>9 DEF Decode, TypeOK, Threads
  <2>4. CASE cursor[t] >= n[c]
    <3>1. UNCHANGED <<decoded, rc>>
      BY <1>9, <2>1, <2>4 DEF Decode
    <3>2. Untouched' /\ Hidden
      BY <2>2, <2>3, <3>1 DEF Untouched, Hidden
    <3> QED
      BY <3>2, HiddenStep
  <2>5. CASE ~(cursor[t] >= n[c])
    <3>1. decoded' = [decoded EXCEPT ![c] = @ \cup {cursor[t]}]
      BY <1>9, <2>1, <2>5 DEF Decode
    <3>2. PICK bad \in BOOLEAN : rc' = IF bad THEN [rc EXCEPT ![c] = -1] ELSE rc
      BY <1>9, <2>1, <2>5 DEF Decode, TypeOK
    <3>3. cursor[t] < n[c]
      BY <2>5 DEF TypeOK
    <3>4. cursor[t] \in (0..(n[c] - 1)) \ decoded[c]
      BY <2>1, <2>2, <3>3, DecodesOne
    <3>5. Untouched'
      BY <2>2, <2>3, <3>2 DEF Untouched, TypeOK
    <3>6. Abstract!Decode(c)
      <4>1. [x \in Callers |-> pc'[x] # "idle"] = [x \in Callers |-> pc[x] # "idle"]
        BY <2>3
      <4>2. [x \in Callers |-> IF pc'[x] = "idle" THEN {} ELSE (0..(n'[x] - 1)) \ decoded'[x]] =
              [[x \in Callers |-> IF pc[x] = "idle" THEN {} ELSE (0..(n[x] - 1)) \ decoded[x]]
                 EXCEPT ![c] = @ \ {cursor[t]}]
        BY <2>2, <2>3, <3>1 DEF TypeOK
      <4>3. [x \in Callers |-> rc'[x] # 0] =
              [[x \in Callers |-> rc[x] # 0] EXCEPT ![c] = @ \/ bad]
        <5>1. \A x \in Callers : (rc'[x] # 0) <=> (rc[x] # 0 \/ (x = c /\ bad))
          BY <3>2 DEF TypeOK
        <5> QED
          BY <5>1, Zenon
      <4> QED
        BY <2>2, <3>4, <4>1, <4>2, <4>3 DEF Abstract!Decode
    <3> QED
      BY <3>5, <3>6 DEF Abstract!Next
  <2> QED
    BY <2>4, <2>5
<1>10. ASSUME NEW t \in Threads, Spurious(t)
       PROVE  Untouched' /\ Hidden
  BY <1>10 DEF Spurious, Untouched, Hidden, TypeOK, Threads, jobVars
<1>11. CASE UNCHANGED vars
  BY <1>11, HiddenStep DEF vars, jobVars, Untouched, Hidden
<1> QED
  BY <1>1, <1>2, <1>3, <1>4, <1>5, <1>6, <1>7, <1>8, <1>9, <1>10, <1>11, HiddenStep
  DEF Next, CallerStep, WorkerStep, JobStep

\* Callers may forget the pool: whatever its threads do, brdec_run is a call
\* that decodes every item of its batch once and returns after the last one.
THEOREM PoolImplementsBatchDecode == Spec => ImplementsBatchDecode
<1>1. Init => Untouched /\ Abstract!Init
  <2> SUFFICES ASSUME Init PROVE Untouched /\ Abstract!Init
    OBVIOUS
  <2>1. \A c \in Callers : pc[c] = "idle" /\ rc[c] = 0
    BY PoolAssumption DEF Init, Threads
  <2> QED
    BY <2>1 DEF Untouched, Abstract!Init
<1>2. IInv /\ Untouched /\ [Next]_vars => Untouched' /\ [Abstract!Next]_Abstract!absVars
  BY RefinementStep
<1> QED
  BY <1>1, <1>2, Invariance, PTL DEF Spec, ImplementsBatchDecode, Abstract!Spec
=============================================================================
