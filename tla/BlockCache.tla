----------------------------- MODULE BlockCache -----------------------------
(***************************************************************************)
(* The decoded-block pools of core/cpuvol.c (cv_cache).  Every open volume *)
(* has a pool of slots; a thread that reads a block gets a pointer into a  *)
(* slot and a lease that pins it until the thread reads another block.     *)
(* Unpinned slots form a doubly linked list, oldest release first, and its *)
(* head is the victim of the next insertion.  A pool is counted by its     *)
(* volume and by every lease, so that it can outlive r3d_cpuvol_close.     *)
(*                                                                         *)
(* A step is one critical section of the pool's mutex, one atomic          *)
(* operation on refs, or the decode between them.  The bytes of a slot are *)
(* those of its key: cvc_publish writes both under the mutex.              *)
(***************************************************************************)
EXTENDS Integers, FiniteSets, Functions

CONSTANTS
  Threads,    \* sampler threads
  Pools,      \* volumes, each with its pool
  N,          \* slots of a pool
  Keys,       \* block ids
  None        \* UINT64_MAX, NULL

CacheAssumption ==
  /\ IsFiniteSet(Threads)
  /\ N \in Nat \ {0}
  /\ None \notin Pools \cup Keys

Slots == 1..N
Nil == 0      \* UINT32_MAX in prev, next, head and tail

VARIABLES
  open,       \* volumes whose r3d_cpuvol_close has not begun
  counted,    \* volumes that still hold their reference to the pool
  refs,       \* cv_cache.refs
  freed,      \* pools whose memory is gone
  keys, pin, prev, next, head, tail, \* the fields of cv_cache, by pool
  pc,         \* where a thread is inside cpuvol.c
  then,       \* where it goes once it has dropped its lease
  want,       \* <<pool, key>> it is reading, or the volume it is closing
  lease,      \* cv_ls: [pool, slot, key], pool None if there is none
  hold        \* the pool whose lease cv_lease_drop has unpinned but still counts

poolVars == <<keys, pin, prev, next, head, tail>>
volVars == <<open, counted, refs, freed>>
threadVars == <<pc, then, want, lease, hold>>
vars == <<volVars, poolVars, threadVars>>

NoLease == [pool |-> None, slot |-> Nil, key |-> None]

\* Every field of a pool, of a lease and of a thread stays in its range; neither
\* refs nor a pin count falls below zero (they are unsigned in the code).
TypeOK ==
  /\ open \subseteq Pools /\ counted \subseteq Pools /\ freed \subseteq Pools
  /\ refs \in [Pools -> Nat]
  /\ keys \in [Pools -> [Slots -> Keys \cup {None}]]
  /\ pin \in [Pools -> [Slots -> Nat]]
  /\ prev \in [Pools -> [Slots -> Slots \cup {Nil}]]
  /\ next \in [Pools -> [Slots -> Slots \cup {Nil}]]
  /\ head \in [Pools -> Slots \cup {Nil}]
  /\ tail \in [Pools -> Slots \cup {Nil}]
  /\ pc \in [Threads -> {"idle", "find", "decode", "publish", "unpin", "unref", "close", "gone"}]
  /\ then \in [Threads -> {"idle", "find", "close", "gone"}]
  /\ want \in [Threads -> [pool : Pools \cup {None}, key : Keys \cup {None}]]
  /\ lease \in [Threads -> [pool : Pools, slot : Slots, key : Keys] \cup {NoLease}]
  /\ hold \in [Threads -> Pools \cup {None}]

\* cvc_new, for every volume.
Init ==
  /\ open = Pools /\ counted = Pools /\ freed = {}
  /\ refs = [p \in Pools |-> 1]
  /\ keys = [p \in Pools |-> [s \in Slots |-> None]]
  /\ pin = [p \in Pools |-> [s \in Slots |-> 0]]
  /\ prev = [p \in Pools |-> [s \in Slots |-> s - 1]]
  /\ next = [p \in Pools |-> [s \in Slots |-> IF s = N THEN Nil ELSE s + 1]]
  /\ head = [p \in Pools |-> 1]
  /\ tail = [p \in Pools |-> N]
  /\ pc = [t \in Threads |-> "idle"]
  /\ then = [t \in Threads |-> "idle"]
  /\ want = [t \in Threads |-> [pool |-> None, key |-> None]]
  /\ lease = [t \in Threads |-> NoLease]
  /\ hold = [t \in Threads |-> None]

-----------------------------------------------------------------------------
(* The list of unpinned slots, as operators on one pool's fields. *)

ListOf(p) == [prev |-> prev[p], next |-> next[p], head |-> head[p], tail |-> tail[p]]

\* Mutant: the last slot leaves, the tail stays.
UnlinkedKeepsTail(l, s) ==
  LET before == l.prev[s]
      after  == l.next[s]
  IN [prev |-> IF after = Nil THEN l.prev ELSE [l.prev EXCEPT ![after] = before],
      next |-> IF before = Nil THEN l.next ELSE [l.next EXCEPT ![before] = after],
      head |-> IF before = Nil THEN after ELSE l.head,
      tail |-> l.tail]

Unlinked(l, s) == \* cvc_unlink
  LET before == l.prev[s]
      after  == l.next[s]
  IN [prev |-> IF after = Nil THEN l.prev ELSE [l.prev EXCEPT ![after] = before],
      next |-> IF before = Nil THEN l.next ELSE [l.next EXCEPT ![before] = after],
      head |-> IF before = Nil THEN after ELSE l.head,
      tail |-> IF after = Nil THEN before ELSE l.tail]

Appended(l, s) == \* cvc_append
  [prev |-> [l.prev EXCEPT ![s] = l.tail],
   next |-> IF l.tail = Nil THEN [l.next EXCEPT ![s] = Nil]
                            ELSE [[l.next EXCEPT ![s] = Nil] EXCEPT ![l.tail] = s],
   head |-> IF l.tail = Nil THEN s ELSE l.head,
   tail |-> s]

SetList(p, l) ==
  /\ prev' = [prev EXCEPT ![p] = l.prev]
  /\ next' = [next EXCEPT ![p] = l.next]
  /\ head' = [head EXCEPT ![p] = l.head]
  /\ tail' = [tail EXCEPT ![p] = l.tail]

\* Mutant: the slot is listed though another thread pins it.
ListAnyway(pn, l, s) == Appended(l, s)

\* cvc_unpin, on the pins pn and the list l.
PinsWithout(pn, s) == [pn EXCEPT ![s] = @ - 1]
ListAfterUnpin(pn, l, s) == IF pn[s] = 1 THEN Appended(l, s) ELSE l

Holding(k, p) == {s \in Slots : keys[p][s] = k} \* cvc_find

\* Mutant: every lease counts the pool.
MovesNever(t, p) == FALSE

\* The thread's lease is on this pool already.
Moves(t, p) == lease[t].pool = p

RefsWith(t, p) == IF Moves(t, p) THEN refs ELSE [refs EXCEPT ![p] = @ + 1]

\* cv_lease_take of slot s, whose list is l by now: the thread's lease on this
\* pool moves, or it gets its first one and counts the pool.
Take(t, p, s, k, l) ==
  LET moves == Moves(t, p)
      pins  == IF moves THEN PinsWithout(pin[p], lease[t].slot) ELSE pin[p]
      list  == IF moves THEN ListAfterUnpin(pin[p], l, lease[t].slot) ELSE l
  IN /\ SetList(p, IF pins[s] = 0 THEN Unlinked(list, s) ELSE list)
     /\ pin' = [pin EXCEPT ![p] = [pins EXCEPT ![s] = @ + 1]]
     /\ refs' = RefsWith(t, p)
     /\ lease' = [lease EXCEPT ![t] = [pool |-> p, slot |-> s, key |-> k]]

-----------------------------------------------------------------------------
(* Reading a block (cv_brick). *)

\* The leased block again; a lease on another pool goes first; else a lookup.
Read(t, p, k) ==
  /\ pc[t] = "idle" /\ p \in open
  /\ want' = [want EXCEPT ![t] = [pool |-> p, key |-> k]]
  /\ \/ /\ lease[t].pool = p /\ lease[t].key = k
           /\ UNCHANGED <<pc, then>>
     \/ /\ lease[t].pool \notin {p, None}
        /\ pc' = [pc EXCEPT ![t] = "unpin"] /\ then' = [then EXCEPT ![t] = "find"]
     \/ /\ lease[t].pool \in {p, None} /\ ~(lease[t].pool = p /\ lease[t].key = k)
        /\ pc' = [pc EXCEPT ![t] = "find"]
        /\ UNCHANGED then
  /\ UNCHANGED <<volVars, poolVars, lease, hold>>

Find(t) ==
  /\ pc[t] = "find"
  /\ LET p == want[t].pool
         k == want[t].key
     IN \/ \E s \in Holding(k, p) :
             /\ Take(t, p, s, k, ListOf(p))
             /\ pc' = [pc EXCEPT ![t] = "idle"]
        \/ /\ Holding(k, p) = {}
           /\ pc' = [pc EXCEPT ![t] = "decode"]
           /\ UNCHANGED <<pin, prev, next, head, tail, refs, lease>>
  /\ UNCHANGED <<open, counted, freed, keys, then, want, hold>>

\* Outside the locks, into the thread's scratch block; absent or undecodable
\* blocks read as nothing.
Decode(t) ==
  /\ pc[t] = "decode"
  /\ pc' = [pc EXCEPT ![t] = "publish"] \/ pc' = [pc EXCEPT ![t] = "idle"]
  /\ UNCHANGED <<volVars, poolVars, then, want, lease, hold>>

\* Another thread may have inserted the block; with every slot leased the
\* thread is served from its scratch block.
Publish(t) ==
  /\ pc[t] = "publish"
  /\ pc' = [pc EXCEPT ![t] = "idle"]
  /\ LET p == want[t].pool
         k == want[t].key
     IN \/ \E s \in Holding(k, p) : Take(t, p, s, k, ListOf(p)) /\ UNCHANGED keys
        \/ /\ Holding(k, p) = {} /\ head[p] # Nil
           /\ keys' = [keys EXCEPT ![p][head[p]] = k]
           /\ Take(t, p, head[p], k, Appended(Unlinked(ListOf(p), head[p]), head[p]))
        \/ /\ Holding(k, p) = {} /\ head[p] = Nil
           /\ UNCHANGED <<keys, pin, prev, next, head, tail, refs, lease>>
  /\ UNCHANGED <<open, counted, freed, then, want, hold>>

\* cv_cache_insert, from a producer of decoded blocks (r3d_cpuvol_cache_put).
Insert(p, k) ==
  /\ p \in open
  /\ Holding(k, p) = {} /\ head[p] # Nil
  /\ keys' = [keys EXCEPT ![p][head[p]] = k]
  /\ SetList(p, Appended(Unlinked(ListOf(p), head[p]), head[p]))
  /\ UNCHANGED <<volVars, pin, threadVars>>

-----------------------------------------------------------------------------
(* Dropping a lease (cv_lease_drop) and closing a volume. *)

\* r3d_cpuvol_release_thread, and the thread's exit.
Release(t) ==
  /\ pc[t] = "idle" /\ lease[t].pool \in open
  /\ pc' = [pc EXCEPT ![t] = "unpin"] /\ then' = [then EXCEPT ![t] = "idle"]
  /\ UNCHANGED <<volVars, poolVars, want, lease, hold>>

Exit(t) ==
  /\ pc[t] = "idle"
  /\ pc' = [pc EXCEPT ![t] = IF lease[t].pool = None THEN "gone" ELSE "unpin"]
  /\ then' = [then EXCEPT ![t] = "gone"]
  /\ UNCHANGED <<volVars, poolVars, want, lease, hold>>

\* No reader is inside cv_brick for a volume that is being closed; its lease
\* may well be left over.
Close(t, p) ==
  /\ pc[t] = "idle" /\ p \in open
  /\ \A u \in Threads : want[u].pool = p => pc[u] \in {"idle", "gone"}
  /\ open' = open \ {p}
  /\ want' = [want EXCEPT ![t] = [pool |-> p, key |-> None]]
  /\ pc' = [pc EXCEPT ![t] = IF lease[t].pool = p THEN "unpin" ELSE "close"]
  /\ then' = [then EXCEPT ![t] = "close"]
  /\ UNCHANGED <<counted, refs, freed, poolVars, lease, hold>>

Unpin(t) ==
  /\ pc[t] = "unpin"
  /\ LET p == lease[t].pool
         s == lease[t].slot
     IN /\ SetList(p, ListAfterUnpin(pin[p], ListOf(p), s))
        /\ pin' = [pin EXCEPT ![p] = PinsWithout(@, s)]
        /\ hold' = [hold EXCEPT ![t] = p]
  /\ lease' = [lease EXCEPT ![t] = NoLease]
  /\ pc' = [pc EXCEPT ![t] = "unref"]
  /\ UNCHANGED <<volVars, keys, then, want>>

\* Mutant: the last reference but one frees the pool.
UnrefEarly(p) ==
  /\ refs' = [refs EXCEPT ![p] = @ - 1]
  /\ freed' = IF refs[p] = 2 THEN freed \cup {p} ELSE freed

\* cvc_unref: the last reference frees the pool.
Unref(p) ==
  /\ refs' = [refs EXCEPT ![p] = @ - 1]
  /\ freed' = IF refs[p] = 1 THEN freed \cup {p} ELSE freed

DropRef(t) ==
  /\ pc[t] = "unref"
  /\ Unref(hold[t])
  /\ hold' = [hold EXCEPT ![t] = None]
  /\ pc' = [pc EXCEPT ![t] = then[t]]
  /\ UNCHANGED <<open, counted, poolVars, then, want, lease>>

CloseRef(t) ==
  /\ pc[t] = "close"
  /\ Unref(want[t].pool)
  /\ counted' = counted \ {want[t].pool}
  /\ pc' = [pc EXCEPT ![t] = "idle"]
  /\ UNCHANGED <<open, poolVars, then, want, lease, hold>>

Step(t) ==
  \/ \E p \in Pools, k \in Keys : Read(t, p, k)
  \/ \E p \in Pools : Close(t, p)
  \/ Find(t) \/ Decode(t) \/ Publish(t)
  \/ Release(t) \/ Exit(t) \/ Unpin(t) \/ DropRef(t) \/ CloseRef(t)

Next == (\E t \in Threads : Step(t)) \/ (\E p \in Pools, k \in Keys : Insert(p, k))

Spec == Init /\ [][Next]_vars

-----------------------------------------------------------------------------
\* The pointer cv_brick returned stays valid and immutable until its thread
\* reads another block: the leased slot keeps its block, whatever the other
\* threads insert, and its pool is not freed, even by a close.
LeaseKeepsBlock ==
  \A t \in Threads : lease[t].pool # None =>
    /\ lease[t].pool \notin freed
    /\ keys[lease[t].pool][lease[t].slot] = lease[t].key

\* No step of a thread touches a pool that is gone.
NoUseAfterFree ==
  \A t \in Threads :
    /\ pc[t] \in {"find", "decode", "publish"} => want[t].pool \notin freed
    /\ pc[t] = "unpin" => lease[t].pool \notin freed
    /\ pc[t] = "unref" => hold[t] \notin freed

\* A pool is freed exactly when its volume is closed and nobody leases it:
\* neither early, nor never.
Users(p) == {t \in Threads : lease[t].pool = p \/ hold[t] = p}
FreedWhenUnused ==
  \A p \in Pools : p \in freed <=> p \notin counted /\ Users(p) = {}

\* A block never has two slots, so that threads agree on its bytes.
OneSlotPerBlock ==
  \A p \in Pools : \A r, s \in Slots : keys[p][r] = keys[p][s] /\ r # s => keys[p][r] = None

\* The list runs from the head to the tail and back through exactly the slots
\* that nobody leases, each once: a leased slot is never the victim, and no slot
\* is lost to eviction.
Links(l, q, n) ==
  /\ l.head = IF n = 0 THEN Nil ELSE q[1]
  /\ l.tail = IF n = 0 THEN Nil ELSE q[n]
  /\ \A i \in 1..n : /\ l.prev[q[i]] = IF i = 1 THEN Nil ELSE q[i - 1]
                     /\ l.next[q[i]] = IF i = n THEN Nil ELSE q[i + 1]
Ordered(l, U) == \E q \in Bijection(1..Cardinality(U), U) : Links(l, q, Cardinality(U))
Unpinned(p) == {s \in Slots : \A t \in Threads : ~(lease[t].pool = p /\ lease[t].slot = s)}
ListIsUnpinned ==
  /\ TypeOK /\ OneSlotPerBlock
  /\ \A p \in Pools : Ordered(ListOf(p), Unpinned(p))
=============================================================================
