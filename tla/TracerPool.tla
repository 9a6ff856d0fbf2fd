----------------------------- MODULE TracerPool -----------------------------
(***************************************************************************)
(* The candidate pool of core/tracer.c: tr_pool_run2 posts the cells of a  *)
(* phase, parked threads claim the first pending cell that is clear of     *)
(* every cell in act[], work on it without the lock, and the caller        *)
(* handles serially what they leave.                                       *)
(*                                                                         *)
(* A critical section of pl->mu that does not wait is one step; a wait on  *)
(* cv or idle_cv is two, as in DecodePool.  A thread that finishes a cell  *)
(* looks for the next one before it gives up the lock.  The scan cursor    *)
(* scan0, which only skips cells that are not pending, the three modes,    *)
(* which differ in the work and in the separation, and the list of placed  *)
(* cells are left out, so is the lock-free mode 3, which nothing posts, and *)
(* so is nwait, which only saves wake-ups nobody waits for.                *)
(***************************************************************************)
EXTENDS Integers, FiniteSets

CONSTANTS
  PoolThreads, \* pool threads (nth of them, at most TR_NTHREADS)
  Cells,       \* cells of the grid, numbered in the order a phase lists them
  Close,       \* pairs of cells that are less than the separation apart
  NoCell,      \* no cell
  MaxJobs      \* bound: phases a trace posts

TracerAssumption ==
  /\ IsFiniteSet(PoolThreads) /\ PoolThreads # {}
  /\ Cells \subseteq Nat /\ NoCell \notin Cells
  /\ Close \subseteq Cells \X Cells
  /\ MaxJobs \in Nat

VARIABLES
  trAt,   \* control state of each pool thread
  cell,   \* cell[t]: the cell thread t works on, or NoCell
  slot,   \* slot[t]: the index into act[] it remembers
  trSeen, \* trSeen[t]: the job number it last looked at
  trJob, nact, done, \* fields of tr_pool
  act,    \* act[]: the cells that are being worked on
  items,  \* the cells of the posted phase, none when n = 0
  st,     \* cells of the phase that are no longer pending in st[]
  main,   \* control state of the tracing thread
  stop,   \* t->quit: the trace was cancelled
  trQuit  \* pl->quit: tr_pool_destroy

threadVars == <<trAt, cell, slot, trSeen>>
trPoolVars == <<trJob, nact, done, act, items, st>>
tracerVars == <<threadVars, trPoolVars, main, stop, trQuit>>

nth == Cardinality(PoolThreads)
Working == {t \in PoolThreads : trAt[t] = "work"}

\* The counters count threads: nact those at work, done those that have left
\* the phase (both are unsigned and index or bound arrays in the code).
TracerTypeOK ==
  /\ trAt \in [PoolThreads -> {"check", "park", "claim", "wait", "work", "exit"}]
  /\ cell \in [PoolThreads -> Cells \cup {NoCell}]
  /\ slot \in [PoolThreads -> 0..(nth - 1)]
  /\ trSeen \in [PoolThreads -> 0..trJob] /\ trJob \in 0..MaxJobs
  /\ act \in [0..(nth - 1) -> Cells \cup {NoCell}]
  /\ st \subseteq items /\ items \subseteq Cells
  /\ nact = Cardinality(Working) /\ done \in 0..nth
  /\ main \in {"idle", "wait", "sleep", "drain", "join", "end"}
  /\ stop \in BOOLEAN /\ trQuit \in BOOLEAN

TracerInit ==
  /\ trAt = [t \in PoolThreads |-> "check"]
  /\ cell = [t \in PoolThreads |-> NoCell]
  /\ slot = [t \in PoolThreads |-> 0]
  /\ trSeen = [t \in PoolThreads |-> 0]
  /\ trJob = 0 /\ nact = 0 /\ done = 0
  /\ act = [s \in 0..(nth - 1) |-> NoCell]
  /\ items = {} /\ st = {}
  /\ main = "idle" /\ stop = FALSE /\ trQuit = FALSE

-----------------------------------------------------------------------------
(* The claim loop.                                                         *)

\* Mutant: nobody is told that a cell was finished.
ThreadsWokenOnPost(f) ==
  IF main = "idle" THEN [t \in PoolThreads |-> IF f[t] = "park" THEN "check" ELSE f[t]] ELSE f

\* pthread_cond_broadcast(&pl->cv) wakes parked threads and claim waiters.
WokenThreads(f) ==
  [t \in PoolThreads |-> CASE f[t] = "park" -> "check"
                           [] f[t] = "wait" -> "claim"
                           [] OTHER         -> f[t]]

\* The pending cells a thread may claim while the discs in a[0..k-1] are busy.
Clear(a, k, taken) ==
  {c \in items \ taken : \A s \in 0..(k - 1) : <<c, a[s]>> \notin Close}

\* Thread t at the top of the claim loop, with act[] = a, nact = k, the cells
\* `taken` no longer pending and the threads at f: it claims a cell, waits for
\* somebody to finish one, or leaves the phase and parks.
Look(t, f, a, k, taken) ==
  LET clear == Clear(a, k, taken) IN
  \/ /\ ~stop
     /\ \E pick \in clear :
          /\ \A c \in clear : pick <= c
          /\ cell' = [cell EXCEPT ![t] = pick]
          /\ st' = taken \cup {pick}
          /\ act' = [a EXCEPT ![k] = pick]
     /\ slot' = [slot EXCEPT ![t] = k]
     /\ nact' = k + 1
     /\ trAt' = [f EXCEPT ![t] = "work"]
     /\ UNCHANGED <<done, main>>
  \/ /\ stop \/ clear = {}
     /\ cell' = [cell EXCEPT ![t] = NoCell]
     /\ st' = taken /\ act' = a /\ nact' = k
     /\ UNCHANGED slot
     /\ IF ~stop /\ items # taken /\ k > 0
          THEN /\ trAt' = [f EXCEPT ![t] = "wait"]
               /\ UNCHANGED <<done, main>>
          ELSE /\ trAt' = [f EXCEPT ![t] = "park"]
               /\ done' = done + 1
               /\ main' = IF main = "sleep" THEN "wait" ELSE main

CheckJob(t) ==
  /\ trAt[t] = "check"
  /\ \/ /\ ~trQuit /\ trJob # trSeen[t]
        /\ trSeen' = [trSeen EXCEPT ![t] = trJob]
        /\ Look(t, trAt, act, nact, st)
     \/ /\ trQuit \/ trJob = trSeen[t]
        /\ trAt' = [trAt EXCEPT ![t] = IF trQuit THEN "exit" ELSE "park"]
        /\ UNCHANGED <<cell, slot, trSeen, nact, done, act, st, main>>
  /\ UNCHANGED <<trJob, items, stop, trQuit>>

\* A claim waiter runs again.
ClaimCell(t) ==
  /\ trAt[t] = "claim"
  /\ Look(t, trAt, act, nact, st)
  /\ UNCHANGED <<trSeen, trJob, items, stop, trQuit>>

\* act[slot] = act[--nact] with the slot the thread remembered.
Removed(t) == [act EXCEPT ![slot[t]] = act[nact - 1]]

\* The work on the cell is done; the thread takes its disc out of act[], tells
\* the waiters and looks for the next cell.
Finish(t) ==
  /\ trAt[t] = "work"
  /\ Look(t, WokenThreads(trAt), Removed(t), nact - 1, st)
  /\ UNCHANGED <<trSeen, trJob, items, stop, trQuit>>

\* pthread_cond_wait may return without a signal.
SpuriousWake ==
  /\ \/ \E t \in PoolThreads :
          /\ trAt[t] \in {"park", "wait"}
          /\ trAt' = [trAt EXCEPT ![t] = IF trAt[t] = "park" THEN "check" ELSE "claim"]
          /\ UNCHANGED main
     \/ /\ main = "sleep" /\ main' = "wait"
        /\ UNCHANGED trAt
  /\ UNCHANGED <<cell, slot, trSeen, trPoolVars, stop, trQuit>>

-----------------------------------------------------------------------------
(* The tracing thread.                                                     *)

\* tr_pool_run2 up to its first wait on idle_cv.
PostPhase(phase) ==
  /\ main = "idle" /\ trJob < MaxJobs /\ ~stop
  /\ items' = phase /\ st' = {}
  /\ nact' = 0 /\ done' = 0
  /\ trJob' = trJob + 1
  /\ trAt' = WokenThreads(trAt)
  /\ main' = "sleep"
  /\ UNCHANGED <<cell, slot, trSeen, act, stop, trQuit>>

\* Mutant: one thread may still be at work.
CollectEarly ==
  /\ main = "wait"
  /\ main' = IF done < nth - 1 THEN "sleep" ELSE "drain"
  /\ UNCHANGED <<threadVars, trPoolVars, stop, trQuit>>

\* while (done < nth) wait.
Collect ==
  /\ main = "wait"
  /\ main' = IF done < nth THEN "sleep" ELSE "drain"
  /\ UNCHANGED <<threadVars, trPoolVars, stop, trQuit>>

\* The serial drain, and the return.
DrainPhase ==
  /\ main = "drain"
  /\ items' = {} /\ st' = {}
  /\ main' = "idle"
  /\ UNCHANGED <<threadVars, trJob, nact, done, act, stop, trQuit>>

\* t->quit is set from another thread, at any time.
Cancel ==
  /\ ~stop /\ stop' = TRUE
  /\ UNCHANGED <<threadVars, trPoolVars, main, trQuit>>

\* tr_pool_destroy.
Destroy ==
  /\ main = "idle"
  /\ trQuit' = TRUE /\ trAt' = WokenThreads(trAt)
  /\ main' = "join"
  /\ UNCHANGED <<cell, slot, trSeen, trPoolVars, stop>>

Join ==
  /\ main = "join" /\ \A t \in PoolThreads : trAt[t] = "exit"
  /\ main' = "end"
  /\ UNCHANGED <<threadVars, trPoolVars, stop, trQuit>>

Step(t) == CheckJob(t) \/ ClaimCell(t) \/ Finish(t)

TracerNext ==
  \/ \E t \in PoolThreads : Step(t)
  \/ \E phase \in SUBSET Cells \ {{}} : PostPhase(phase)
  \/ Collect \/ DrainPhase \/ Cancel \/ Destroy \/ Join \/ SpuriousWake

TracerSpec == TracerInit /\ [][TracerNext]_tracerVars

\* Every thread keeps running and the work on a cell ends; when a trace is
\* cancelled and when it ends is up to the user and the trace.
TracerFairness ==
  /\ \A t \in PoolThreads : WF_tracerVars(Step(t))
  /\ WF_tracerVars(Collect \/ DrainPhase \/ Join)

TracerFairSpec == TracerSpec /\ TracerFairness

-----------------------------------------------------------------------------
(* Properties.                                                             *)

\* What the comment above tr_pool promises of cells that are worked on at the
\* same time: their discs do not overlap.
ActiveDiscsApart ==
  \A t, u \in Working : t # u => <<cell[t], cell[u]>> \notin Close

\* A cell is handled once: no two threads work on one cell, the caller reads the
\* results and reuses out[] and st[] only when no thread is left at work, and
\* unless the trace is cancelled the pool has handled every cell by then (the
\* serial drain finds nothing).
PhaseComplete ==
  /\ TracerTypeOK
  /\ \A t, u \in Working : t # u => cell[t] # cell[u]
  /\ main \notin {"sleep", "wait"} => Working = {}
  /\ main = "drain" /\ ~stop => st = items

\* A phase returns, also when the trace is cancelled half-way, although
\* threads sleep while every pending cell is too close to one at work; and
\* the pool can be taken down.
PhaseReturns ==
  []<>(main \in {"idle", "end"})
=============================================================================
