---------------------------- MODULE DecodePool -----------------------------
(***************************************************************************)
(* The persistent decode pool of vk/vkbackend.c (g_dpool): brdec_run posts *)
(* a job that lives on the caller's stack, parked threads pick it up by    *)
(* generation number, the caller decodes too, and the call returns once no *)
(* pool thread is left inside the job.                                     *)
(*                                                                         *)
(* A critical section of g_dpool.mu that does not wait is one step.  A     *)
(* pthread_cond_wait is two: entering the wait set, and running again      *)
(* after a broadcast or a spurious wake-up.                                *)
(***************************************************************************)
EXTENDS Integers, FiniteSets

CONSTANTS
  Workers,    \* pool threads dpool_ensure asks for (at most 64)
  Callers,    \* threads that call brdec_run
  Batches,    \* sizes of the batches they pass (at most BR_MAX_BATCH)
  NoJob,      \* the NULL value of g_dpool.job
  MaxCalls    \* bound: how often a caller calls brdec_run

ASSUME PoolAssumption ==
  /\ IsFiniteSet(Workers)
  /\ Workers \cap Callers = {}
  /\ NoJob \notin Callers
  /\ Batches \subseteq Nat
  /\ MaxCalls \in Nat

VARIABLES
  pc,         \* control state of every thread
  started,    \* pool threads that pthread_create gave us (nth of them)
  up,         \* g_dpool.up
  job,        \* g_dpool.job: the caller whose stack job is posted, or NoJob
  gen,        \* g_dpool.gen
  seen,       \* seen[w]: generation the pool thread last looked at
  busy,       \* g_dpool.busy
  mine,       \* mine[t]: the job thread t is working on (its caller)
  cursor,     \* brdec_worker's next item of the run it claimed
  limit,      \* brdec_worker's end of the run it claimed
  runMu,      \* owner of g_dpool_run_mu, or NoJob
  n, grain, next, zero, \* the fields of caller c's struct brdec
  decoded,    \* decoded[c]: items of the current job whose output is written
  rc,         \* rc[c]: j->rc, 0 or -1
  calls       \* calls[c]: bound counter

poolVars  == <<started, up, job, gen, busy, seen>>
jobVars   == <<n, grain, next, zero, decoded, rc>>
claimVars == <<mine, cursor, limit>>
vars == <<pc, poolVars, jobVars, claimVars, runMu, calls>>

Threads == Workers \cup Callers

\* Every field of g_dpool, of a job and of a thread stays in its range; busy in
\* particular never falls below zero (it is unsigned in the code).
TypeOK ==
  /\ pc \in [Threads -> {"absent", "check", "wait", "claim", "decode", "leave",
                         "idle", "lock", "post", "drain", "drainwait", "return"}]
  /\ started \subseteq Workers
  /\ up \in BOOLEAN
  /\ job \in Callers \cup {NoJob}
  /\ gen \in Nat
  /\ seen \in [Workers -> Nat]
  /\ busy \in Nat
  /\ mine \in [Threads -> Callers \cup {NoJob}]
  /\ cursor \in [Threads -> Nat]
  /\ limit \in [Threads -> Nat]
  /\ runMu \in Callers \cup {NoJob}
  /\ n \in [Callers -> Nat]
  /\ grain \in [Callers -> Nat]
  /\ next \in [Callers -> Nat]
  /\ zero \in [Callers -> BOOLEAN]
  /\ decoded \in [Callers -> SUBSET Nat]
  /\ rc \in [Callers -> {0, -1}]
  /\ calls \in [Callers -> Nat]

Init ==
  /\ pc = [t \in Threads |-> IF t \in Workers THEN "absent" ELSE "idle"]
  /\ started = {} /\ up = FALSE
  /\ job = NoJob /\ gen = 0 /\ busy = 0
  /\ seen = [w \in Workers |-> 0]
  /\ mine = [t \in Threads |-> NoJob]
  /\ cursor = [t \in Threads |-> 0]
  /\ limit = [t \in Threads |-> 0]
  /\ runMu = NoJob
  /\ n = [c \in Callers |-> 0]
  /\ grain = [c \in Callers |-> 1]
  /\ next = [c \in Callers |-> 0]
  /\ zero = [c \in Callers |-> FALSE]
  /\ decoded = [c \in Callers |-> {}]
  /\ rc = [c \in Callers |-> 0]
  /\ calls = [c \in Callers |-> 0]

-----------------------------------------------------------------------------
(* The caller.                                                             *)

\* A fresh struct brdec on c's stack.  zero_on_fail is set by overlay jobs.
\* The encoded blobs resolved before the lock are freed when c returns.
Begin(c) ==
  /\ pc[c] = "idle"
  /\ calls[c] < MaxCalls
  /\ calls' = [calls EXCEPT ![c] = @ + 1]
  /\ pc' = [pc EXCEPT ![c] = "lock"]
  /\ \E k \in Batches, z \in BOOLEAN :
       /\ n' = [n EXCEPT ![c] = k]
       /\ zero' = [zero EXCEPT ![c] = z]
  /\ decoded' = [decoded EXCEPT ![c] = {}]
  /\ rc' = [rc EXCEPT ![c] = 0]
  /\ UNCHANGED <<poolVars, claimVars, runMu, grain, next>>

\* g_dpool_run_mu: one job at a time; next and rc are reset under it.
LockRun(c) ==
  /\ pc[c] = "lock"
  /\ runMu = NoJob
  /\ runMu' = c
  /\ next' = [next EXCEPT ![c] = 0]
  /\ rc' = [rc EXCEPT ![c] = 0]
  /\ pc' = [pc EXCEPT ![c] = "post"]
  /\ UNCHANGED <<poolVars, claimVars, n, grain, zero, decoded, calls>>

\* Long batches are claimed in runs of 8 or 4 items, short ones one by one.
GrainOf(k, threads) ==
  IF k >= threads * 8 THEN 8 ELSE IF k >= threads * 4 THEN 4 ELSE 1

\* Where thread t is after a broadcast to the threads waiting at from.
Woken(t, from, to) == IF pc[t] = from THEN to ELSE pc[t]

\* The first job creates the threads; creating one may fail.  The broadcast
\* then finds every parked thread, and the caller joins the work.
Post(c) ==
  /\ pc[c] = "post"
  /\ \E s \in SUBSET Workers :
       /\ up => s = started
       /\ started' = s
       /\ grain' = [grain EXCEPT ![c] = GrainOf(n[c], Cardinality(s) + 1)]
       /\ pc' = [t \in Threads |->
                   IF t = c THEN "claim"
                   ELSE IF t \in s \ started THEN "check"
                   ELSE Woken(t, "wait", "check")]
  /\ up' = TRUE
  /\ job' = c
  /\ gen' = gen + 1
  /\ mine' = [mine EXCEPT ![c] = c]
  /\ UNCHANGED <<busy, seen, cursor, limit, runMu, n, next, zero, decoded, rc, calls>>

\* Mutant: the job is taken down without a look at busy.
DrainAtOnce(c) ==
  /\ pc[c] = "drain"
  /\ pc' = [pc EXCEPT ![c] = "return"]
  /\ job' = NoJob
  /\ UNCHANGED <<started, up, gen, busy, seen, jobVars, claimVars, runMu, calls>>

\* Wait on done_cv while a pool thread is inside the job, else take the job
\* down in the same critical section.
Drain(c) ==
  /\ pc[c] = "drain"
  /\ IF busy # 0
       THEN /\ pc' = [pc EXCEPT ![c] = "drainwait"]
            /\ UNCHANGED job
       ELSE /\ pc' = [pc EXCEPT ![c] = "return"]
            /\ job' = NoJob
  /\ UNCHANGED <<started, up, gen, busy, seen, jobVars, claimVars, runMu, calls>>

\* Unlock, free the resolved blobs, return j->rc: the job is gone.
Return(c) ==
  /\ pc[c] = "return"
  /\ runMu' = NoJob
  /\ pc' = [pc EXCEPT ![c] = "idle"]
  /\ mine' = [mine EXCEPT ![c] = NoJob]
  /\ UNCHANGED <<poolVars, cursor, limit, jobVars, calls>>

-----------------------------------------------------------------------------
(* A pool thread.                                                          *)

\* Mutant: a thread enters the job without counting itself.
CheckUncounted(w) ==
  /\ pc[w] = "check" /\ gen # seen[w] /\ job # NoJob
  /\ seen' = [seen EXCEPT ![w] = gen]
  /\ mine' = [mine EXCEPT ![w] = job]
  /\ pc' = [pc EXCEPT ![w] = "claim"]
  /\ UNCHANGED <<started, up, job, gen, busy, cursor, limit, jobVars, runMu, calls>>

\* One pass of dpool_thread's critical section: park, skip a job that is
\* already over, or enter the posted one.
Check(w) ==
  /\ pc[w] = "check"
  /\ IF gen = seen[w]
       THEN /\ pc' = [pc EXCEPT ![w] = "wait"]
            /\ UNCHANGED <<seen, busy, mine>>
       ELSE /\ seen' = [seen EXCEPT ![w] = gen]
            /\ IF job = NoJob
                 THEN UNCHANGED <<pc, busy, mine>>
                 ELSE /\ busy' = busy + 1
                      /\ mine' = [mine EXCEPT ![w] = job]
                      /\ pc' = [pc EXCEPT ![w] = "claim"]
  /\ UNCHANGED <<started, up, job, gen, cursor, limit, jobVars, runMu, calls>>

\* Mutant: the last thread but one signals done_cv.
LeaveEarly(w) ==
  /\ pc[w] = "leave"
  /\ busy' = busy - 1
  /\ pc' = [t \in Threads |->
              IF t = w THEN "check"
              ELSE IF busy = 2 THEN Woken(t, "drainwait", "drain") ELSE pc[t]]
  /\ mine' = [mine EXCEPT ![w] = NoJob]
  /\ UNCHANGED <<started, up, job, gen, seen, cursor, limit, jobVars, runMu, calls>>

\* --busy, and done_cv when it reaches zero.
Leave(w) ==
  /\ pc[w] = "leave"
  /\ busy' = busy - 1
  /\ pc' = [t \in Threads |->
              IF t = w THEN "check"
              ELSE IF busy = 1 THEN Woken(t, "drainwait", "drain")
              ELSE pc[t]]
  /\ mine' = [mine EXCEPT ![w] = NoJob]
  /\ UNCHANGED <<started, up, job, gen, seen, cursor, limit, jobVars, runMu, calls>>

-----------------------------------------------------------------------------
(* brdec_worker, run by the pool threads and by the caller.                *)

\* Mutant: a load and a store, so that one of two threads' updates is lost.
ClaimLostUpdate(t) ==
  /\ pc[t] = "claim"
  /\ LET j == mine[t] IN
       /\ cursor' = [cursor EXCEPT ![t] = next[j]]
       /\ limit' = [limit EXCEPT ![t] = next[j] + grain[j]]
       /\ next' \in {next, [next EXCEPT ![j] = @ + grain[j]]}
  /\ pc' = [pc EXCEPT ![t] = "decode"]
  /\ UNCHANGED <<poolVars, mine, n, grain, zero, decoded, rc, runMu, calls>>

\* At the end of its run a thread claims the next one with a fetch-and-add.
Claim(t) ==
  /\ pc[t] = "claim"
  /\ LET j == mine[t] IN
       /\ cursor' = [cursor EXCEPT ![t] = next[j]]
       /\ limit' = [limit EXCEPT ![t] = next[j] + grain[j]]
       /\ next' = [next EXCEPT ![j] = @ + grain[j]]
  /\ pc' = [pc EXCEPT ![t] = "decode"]
  /\ UNCHANGED <<poolVars, mine, n, grain, zero, decoded, rc, runMu, calls>>

\* Mutant: a thread goes for the next run one item early.
DecodeShort(t) ==
  /\ pc[t] = "decode"
  /\ LET j == mine[t] IN
       IF cursor[t] >= n[j]
         THEN /\ pc' = [pc EXCEPT ![t] = IF t \in Callers THEN "drain" ELSE "leave"]
              /\ UNCHANGED <<cursor, decoded>>
         ELSE /\ decoded' = [decoded EXCEPT ![j] = @ \cup {cursor[t]}]
              /\ cursor' = [cursor EXCEPT ![t] = @ + 1]
              /\ pc' = [pc EXCEPT ![t] =
                           IF cursor[t] + 2 >= limit[t] THEN "claim" ELSE "decode"]
  /\ UNCHANGED <<poolVars, mine, limit, n, grain, next, zero, rc, runMu, calls>>

\* Item cursor[t] is decoded into its own part of raw[]; an index past the
\* end makes the thread leave the job.  A failed item is
\* zeros in an overlay job (zero_on_fail) and makes any other job fail.
Decode(t) ==
  /\ pc[t] = "decode"
  /\ LET j == mine[t] IN
       IF cursor[t] >= n[j]
         THEN /\ pc' = [pc EXCEPT ![t] = IF t \in Callers THEN "drain" ELSE "leave"]
              /\ cursor' = [cursor EXCEPT ![t] = 0] \* dead from here
              /\ limit' = [limit EXCEPT ![t] = 0]
              /\ UNCHANGED <<decoded, rc>>
         ELSE /\ decoded' = [decoded EXCEPT ![j] = @ \cup {cursor[t]}]
              /\ cursor' = [cursor EXCEPT ![t] = @ + 1]
              /\ \E ok \in BOOLEAN :
                   rc' = IF ok \/ zero[j] THEN rc ELSE [rc EXCEPT ![j] = -1]
              /\ pc' = [pc EXCEPT ![t] =
                           IF cursor[t] + 1 = limit[t] THEN "claim" ELSE "decode"]
              /\ UNCHANGED limit
  /\ UNCHANGED <<poolVars, mine, n, grain, next, zero, runMu, calls>>

-----------------------------------------------------------------------------
\* pthread_cond_wait may return without a broadcast.
Spurious(t) ==
  /\ pc[t] \in {"wait", "drainwait"}
  /\ pc' = [pc EXCEPT ![t] = IF pc[t] = "wait" THEN "check" ELSE "drain"]
  /\ UNCHANGED <<poolVars, jobVars, claimVars, runMu, calls>>

CallerStep(c) == Begin(c) \/ LockRun(c) \/ Post(c) \/ Drain(c) \/ Return(c)
WorkerStep(w) == Check(w) \/ Leave(w)
JobStep(t) == Claim(t) \/ Decode(t)

Next ==
  \/ \E c \in Callers : CallerStep(c)
  \/ \E w \in Workers : WorkerStep(w)
  \/ \E t \in Threads : JobStep(t) \/ Spurious(t)

Spec == Init /\ [][Next]_vars

\* What a thread does of its own accord once it is in a call or in the pool.
Runs(t) ==
  \/ t \in Callers /\ (LockRun(t) \/ Post(t) \/ Drain(t) \/ Return(t))
  \/ t \in Workers /\ WorkerStep(t)
  \/ JobStep(t)

\* Every thread keeps running; no fairness on spurious wake-ups, nor on a
\* caller deciding to call again.
Fairness == \A t \in Threads : WF_vars(Runs(t))

FairSpec == Spec /\ Fairness

-----------------------------------------------------------------------------
(* Properties.                                                             *)

Inside(w) == pc[w] \in {"claim", "decode", "leave"}
InCall(c) == pc[c] \in {"claim", "decode", "drain", "drainwait"}

\* The job is a local of brdec_run: a pool thread that still holds the
\* pointer may only do so while that call is between posting the job and
\* taking it down, or it would read a dead stack frame and freed blobs.
NoUseAfterReturn ==
  \A w \in Workers : Inside(w) => /\ mine[w] \in Callers
                                  /\ InCall(mine[w])
                                  /\ job = mine[w]

\* Items of the run thread t has claimed and not decoded yet.
Pending(t) == IF pc[t] = "decode" THEN cursor[t]..(limit[t] - 1) ELSE {}

\* No two threads write the same part of raw[], and none writes one that is
\* already written: claimed runs are disjoint and decoded items stay decoded.
NoDoubleDecode ==
  /\ \A t \in Threads : mine[t] \in Callers =>
       Pending(t) \cap decoded[mine[t]] = {}
  /\ \A t, u \in Threads : t # u => Pending(t) \cap Pending(u) = {}

\* When brdec_run returns, every item of the batch has been decoded: the
\* caller hands raw[] to the GPU without looking at it again.
ReturnsComplete ==
  \A c \in Callers : pc[c] = "return" => decoded[c] = 0..(n[c] - 1)

\* brdec_run always returns.
CallReturns ==
  \A c \in Callers : []<>(pc[c] = "idle")

\* The pool implements the abstract batch decode.
Abstract == INSTANCE BatchDecode WITH
  open   <- [c \in Callers |-> pc[c] # "idle"],
  left   <- [c \in Callers |-> IF pc[c] = "idle" THEN {} ELSE (0..(n[c] - 1)) \ decoded[c]],
  failed <- [c \in Callers |-> rc[c] # 0]

ImplementsBatchDecode == Abstract!Spec
=============================================================================
