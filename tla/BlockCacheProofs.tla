-------------------------- MODULE BlockCacheProofs --------------------------
(***************************************************************************)
(* The decoded-block pools are safe for any number of threads, volumes,    *)
(* slots and blocks: a leased slot keeps its block, no thread touches a    *)
(* pool that is gone, and a pool is freed exactly when its volume is       *)
(* closed and nobody leases it; the list it evicts from holds the slots    *)
(* nobody leases, each once.                                               *)
(***************************************************************************)
EXTENDS BlockCache, FiniteSetTheorems, TLAPS

Lookup == {"find", "decode", "publish"}
Dropping(t) == pc[t] \in {"unpin", "unref"}

\* Reading a block, and closing a volume, after the thread's old lease is gone
\* or before.
Reading(t) == pc[t] \in Lookup \/ (Dropping(t) /\ then[t] = "find")
Closing(t) == pc[t] = "close" \/ (Dropping(t) /\ then[t] = "close")

\* Who is where: only an open volume is read, a volume is closed by one
\* thread, and a thread that takes a lease has none on another pool.
Control ==
  /\ open \subseteq counted
  /\ \A t \in Threads : Reading(t) => want[t].pool \in open /\ want[t].key \in Keys
  /\ \A t \in Threads : Closing(t) => want[t].pool \in counted \ open
  /\ \A t, u \in Threads : Closing(t) /\ Closing(u) /\ t # u => want[t].pool # want[u].pool
  /\ \A t \in Threads : pc[t] \in Lookup => lease[t].pool \in {None, want[t].pool}
  /\ \A t \in Threads : pc[t] = "unpin" => lease[t].pool # None
  /\ \A t \in Threads : pc[t] = "unref" => hold[t] \in Pools /\ lease[t] = NoLease
  /\ \A t \in Threads : pc[t] # "unref" => hold[t] = None

\* A slot is pinned once by every lease on it.
Lessees(p, s) == {t \in Threads : lease[t].pool = p /\ lease[t].slot = s}
Pins == \A p \in Pools : \A s \in Slots : pin[p][s] = Cardinality(Lessees(p, s))

\* A pool is counted once by every user, and by its volume.
Volume(p) == IF p \in counted THEN 1 ELSE 0
Refs == \A p \in Pools : refs[p] = Cardinality(Users(p)) + Volume(p)

\* A well-formed list of the slots in U: they stand in an order the links
\* follow, so that the ends belong to U and neighbours agree on each other.
WellLinked(l, U) ==
  /\ Ordered(l, U)
  /\ l.head = Nil <=> l.tail = Nil
  /\ l.head # Nil => l.head \in U /\ l.prev[l.head] = Nil
  /\ l.tail # Nil => l.tail \in U /\ l.next[l.tail] = Nil
  /\ \A s \in U : /\ l.next[s] = Nil => l.tail = s
                  /\ l.prev[s] = Nil => l.head = s
                  /\ l.next[s] # Nil => l.next[s] \in U /\ l.prev[l.next[s]] = s
                  /\ l.prev[s] # Nil => l.prev[s] \in U /\ l.next[l.prev[s]] = s

ListType == [prev : [Slots -> Slots \cup {Nil}], next : [Slots -> Slots \cup {Nil}],
             head : Slots \cup {Nil}, tail : Slots \cup {Nil}]

Idle(p) == {s \in Slots : pin[p][s] = 0}
Lists == \A p \in Pools : WellLinked(ListOf(p), Idle(p))

KeysKept ==
  \A t \in Threads : lease[t].pool # None =>
    keys[lease[t].pool][lease[t].slot] = lease[t].key

IInv == /\ TypeOK /\ Control /\ Pins /\ Refs /\ FreedWhenUnused
        /\ Lists /\ KeysKept /\ OneSlotPerBlock

-----------------------------------------------------------------------------
(* The list operators.                                                     *)

LEMMA UnlinkedType ==
  ASSUME CacheAssumption, NEW l \in ListType, NEW s \in Slots
  PROVE  Unlinked(l, s) \in ListType
BY DEF Unlinked, ListType, Slots, Nil, CacheAssumption

LEMMA AppendedType ==
  ASSUME CacheAssumption, NEW l \in ListType, NEW s \in Slots
  PROVE  Appended(l, s) \in ListType
BY DEF Appended, ListType, Slots, Nil, CacheAssumption

\* A set of slots is finite, and counts one more or less with a slot more or less.
LEMMA SlotCount ==
  ASSUME CacheAssumption, NEW U \in SUBSET Slots
  PROVE  /\ IsFiniteSet(U) /\ Cardinality(U) \in Nat
         /\ \A s \in U : Cardinality(U \ {s}) = Cardinality(U) - 1
         /\ \A s \in Slots \ U : Cardinality(U \cup {s}) = Cardinality(U) + 1
<1>1. IsFiniteSet(Slots)
  BY FS_Interval DEF Slots, CacheAssumption
<1>2. IsFiniteSet(U)
  BY <1>1, FS_Subset
<1> QED
  BY <1>2, FS_CardinalityType, FS_RemoveElement, FS_AddElement

\* A slot of the list is at one place, and what is behind it moves up.
LEMMA UnlinkedOrdered ==
  ASSUME CacheAssumption, NEW l \in ListType, NEW U \in SUBSET Slots, NEW s \in U,
         Ordered(l, U)
  PROVE  Ordered(Unlinked(l, s), U \ {s})
<1> Nil \notin Slots
  BY DEF Nil, Slots
<1>1. PICK n \in Nat : n = Cardinality(U)
  BY SlotCount
<1>2. PICK q \in Bijection(1..n, U) : Links(l, q, n)
  BY <1>1 DEF Ordered
<1>3. /\ q \in [1..n -> U] /\ \A i, j \in 1..n : q[i] = q[j] => i = j
      /\ \A r \in U : \E i \in 1..n : q[i] = r
  BY <1>2 DEF Bijection, Injection, Surjection, IsInjective
<1>4. PICK k \in 1..n : q[k] = s
  BY <1>3
<1>5. k \in Int /\ n - 1 \in Nat /\ n # 0
  BY <1>4
<1>6. PICK o : o = [i \in 1..n - 1 |-> IF i < k THEN q[i] ELSE q[i + 1]]
  OBVIOUS
<1>7. ASSUME NEW i \in 1..n - 1
      PROVE  /\ i \in Int
             /\ \/ i < k /\ i \in 1..n /\ i # k /\ o[i] = q[i]
                \/ i >= k /\ i + 1 \in 1..n /\ i + 1 # k /\ o[i] = q[i + 1]
  BY <1>5, <1>6
<1>8. o \in Bijection(1..n - 1, U \ {s})
  <2>1. \A i \in 1..n - 1 : o[i] \in U \ {s}
    BY <1>3, <1>4, <1>7
  <2>2. o \in [1..n - 1 -> U \ {s}]
    BY <1>6, <2>1
  <2>3. ASSUME NEW i \in 1..n - 1, NEW j \in 1..n - 1, o[i] = o[j]
        PROVE  i = j
    BY <1>3, <1>5, <1>7, <2>3
  <2>4. ASSUME NEW r \in U \ {s}
        PROVE  \E i \in 1..n - 1 : o[i] = r
    <3>1. PICK i \in 1..n : q[i] = r
      BY <1>3
    <3>2. i # k /\ i \in Int
      BY <1>4, <3>1
    <3>3. CASE i < k
      BY <1>5, <1>6, <3>1, <3>3
    <3>4. CASE i > k
      <4>1. i - 1 \in 1..n - 1 /\ ~(i - 1 < k) /\ i - 1 + 1 = i
        BY <1>5, <3>2, <3>4
      <4> QED
        BY <1>6, <3>1, <4>1
    <3> QED
      BY <1>5, <3>2, <3>3, <3>4
  <2> QED
    BY <2>2, <2>3, <2>4 DEF Bijection, Injection, Surjection, IsInjective
<1>9. PICK m : m = Unlinked(l, s)
  OBVIOUS
<1>10. PICK before, after : before = l.prev[s] /\ after = l.next[s]
  OBVIOUS
<1>11. /\ m.head = IF before = Nil THEN after ELSE l.head
       /\ m.tail = IF after = Nil THEN before ELSE l.tail
       /\ \A r \in Slots : m.prev[r] = IF after # Nil /\ r = after THEN before ELSE l.prev[r]
       /\ \A r \in Slots : m.next[r] = IF before # Nil /\ r = before THEN after ELSE l.next[r]
  BY <1>9, <1>10 DEF Unlinked, ListType
<1>12. /\ before = IF k = 1 THEN Nil ELSE q[k - 1]
       /\ after = IF k = n THEN Nil ELSE q[k + 1]
       /\ l.head = q[1] /\ l.tail = q[n]
  BY <1>2, <1>4, <1>5, <1>10 DEF Links
<1>13. \A i \in 1..n : q[i] \in Slots /\ q[i] # Nil
  BY <1>3
<1>14. /\ k # 1 => k - 1 \in 1..n /\ k - 1 \in 1..n - 1 /\ o[k - 1] = q[k - 1]
       /\ k # n => k + 1 \in 1..n /\ k \in 1..n - 1 /\ o[k] = q[k + 1]
  BY <1>5, <1>6
<1>15. m.head = IF n - 1 = 0 THEN Nil ELSE o[1]
  <2>1. CASE k = 1
    BY <1>5, <1>11, <1>12, <1>14, <2>1
  <2>2. CASE k # 1
    <3>1. n - 1 # 0 /\ 1 \in 1..n - 1 /\ 1 < k
      BY <1>5, <2>2
    <3> QED
      BY <1>6, <1>11, <1>12, <1>13, <1>14, <2>2, <3>1
  <2> QED
    BY <2>1, <2>2
<1>16. m.tail = IF n - 1 = 0 THEN Nil ELSE o[n - 1]
  <2>1. CASE k = n
    BY <1>5, <1>11, <1>12, <1>14, <2>1
  <2>2. CASE k # n
    <3>1. n - 1 # 0 /\ n - 1 \in 1..n - 1 /\ ~(n - 1 < k) /\ n - 1 + 1 = n
      BY <1>5, <2>2
    <3> QED
      BY <1>6, <1>11, <1>12, <1>13, <1>14, <2>2, <3>1
  <2> QED
    BY <2>1, <2>2
<1>17. \A i \in 1..n : /\ l.prev[q[i]] = IF i = 1 THEN Nil ELSE q[i - 1]
                       /\ l.next[q[i]] = IF i = n THEN Nil ELSE q[i + 1]
  BY <1>2 DEF Links
<1>18. ASSUME NEW i \in 1..n - 1
       PROVE  m.prev[o[i]] = IF i = 1 THEN Nil ELSE o[i - 1]
  <2>1. i # 1 => i - 1 \in 1..n - 1
    BY <1>5
  <2>2. i # 1 => o[i - 1] = IF i - 1 < k THEN q[i - 1] ELSE q[i]
    BY <1>5, <1>6, <2>1
  <2>3. CASE i < k
    <3>1. i \in 1..n /\ o[i] = q[i] /\ i - 1 < k
      BY <1>5, <1>7, <2>3
    <3>2. after # Nil => q[i] # after
      <4>1. k # n => i # k + 1
        BY <1>5, <2>3
      <4> QED
        BY <1>3, <1>12, <1>14, <3>1, <4>1
    <3>3. m.prev[o[i]] = l.prev[q[i]]
      BY <1>11, <1>13, <3>1, <3>2
    <3> QED
      BY <1>17, <2>2, <3>1, <3>3
  <2>4. CASE i = k
    <3>1. i + 1 \in 1..n /\ o[i] = q[i + 1] /\ k # n
      BY <1>5, <1>7, <2>4
    <3>2. after = q[i + 1] /\ after # Nil
      BY <1>12, <1>13, <2>4, <3>1
    <3>3. m.prev[o[i]] = before
      BY <1>11, <1>13, <3>1, <3>2
    <3>4. i - 1 < k
      BY <1>5, <2>4
    <3> QED
      BY <1>12, <2>2, <2>4, <3>3, <3>4
  <2>5. CASE i > k
    <3>1. i + 1 \in 1..n /\ o[i] = q[i + 1] /\ i # 1 /\ ~(i - 1 < k) /\ i + 1 # 1 /\ i + 1 - 1 = i
          /\ i + 1 # k + 1
      BY <1>5, <1>7, <2>5
    <3>2. after # Nil => q[i + 1] # after
      BY <1>3, <1>12, <1>14, <3>1
    <3>3. m.prev[o[i]] = l.prev[q[i + 1]]
      BY <1>11, <1>13, <3>1, <3>2
    <3> QED
      BY <1>17, <2>2, <3>1, <3>3
  <2> QED
    BY <1>5, <2>3, <2>4, <2>5
<1>19. ASSUME NEW i \in 1..n - 1
       PROVE  m.next[o[i]] = IF i = n - 1 THEN Nil ELSE o[i + 1]
  <2>1. i # n - 1 => i + 1 \in 1..n - 1
    BY <1>5
  <2>2. i # n - 1 => o[i + 1] = IF i + 1 < k THEN q[i + 1] ELSE q[i + 2]
    BY <1>5, <1>6, <2>1
  <2>3. CASE i < k - 1
    <3>1. i \in 1..n /\ o[i] = q[i] /\ i + 1 < k /\ i # n - 1 /\ i # n /\ i # k - 1
      BY <1>5, <1>7, <2>3
    <3>2. before # Nil => q[i] # before
      BY <1>3, <1>12, <1>14, <3>1
    <3>3. m.next[o[i]] = l.next[q[i]]
      BY <1>11, <1>13, <3>1, <3>2
    <3> QED
      BY <1>17, <2>2, <3>1, <3>3
  <2>4. CASE i = k - 1
    <3>1. i \in 1..n /\ o[i] = q[i] /\ k # 1 /\ ~(i + 1 < k) /\ i + 2 = k + 1
      BY <1>5, <1>7, <2>4
    <3>2. before = q[i] /\ before # Nil
      BY <1>12, <1>13, <2>4, <3>1
    <3>3. m.next[o[i]] = after
      BY <1>11, <1>13, <3>1, <3>2
    <3>4. k = n <=> i = n - 1
      BY <1>5, <2>4
    <3> QED
      BY <1>12, <2>2, <3>1, <3>3, <3>4
  <2>5. CASE i >= k
    <3>1. /\ i + 1 \in 1..n /\ o[i] = q[i + 1] /\ ~(i + 1 < k) /\ i + 1 # k - 1
          /\ i + 1 + 1 = i + 2 /\ (i + 1 = n <=> i = n - 1)
      BY <1>5, <1>7, <2>5
    <3>2. before # Nil => q[i + 1] # before
      BY <1>3, <1>12, <1>14, <3>1
    <3>3. m.next[o[i]] = l.next[q[i + 1]]
      BY <1>11, <1>13, <3>1, <3>2
    <3> QED
      BY <1>17, <2>2, <3>1, <3>3
  <2> QED
    BY <1>5, <2>3, <2>4, <2>5
<1>20. Links(m, o, n - 1)
  BY <1>15, <1>16, <1>18, <1>19 DEF Links
<1>21. Cardinality(U \ {s}) = n - 1
  BY <1>1, SlotCount
<1> QED
  BY <1>8, <1>9, <1>20, <1>21 DEF Ordered

\* A slot that joins the list is its last.
LEMMA AppendedOrdered ==
  ASSUME CacheAssumption, NEW l \in ListType, NEW U \in SUBSET Slots, NEW s \in Slots \ U,
         Ordered(l, U)
  PROVE  Ordered(Appended(l, s), U \cup {s})
<1> Nil \notin Slots
  BY DEF Nil, Slots
<1>1. PICK n \in Nat : n = Cardinality(U)
  BY SlotCount
<1>2. PICK q \in Bijection(1..n, U) : Links(l, q, n)
  BY <1>1 DEF Ordered
<1>3. /\ q \in [1..n -> U] /\ \A i, j \in 1..n : q[i] = q[j] => i = j
      /\ \A r \in U : \E i \in 1..n : q[i] = r
  BY <1>2 DEF Bijection, Injection, Surjection, IsInjective
<1>4. PICK o : o = [i \in 1..n + 1 |-> IF i = n + 1 THEN s ELSE q[i]]
  OBVIOUS
<1>5. ASSUME NEW i \in 1..n + 1
      PROVE  /\ i \in Int
             /\ \/ i = n + 1 /\ o[i] = s
                \/ i # n + 1 /\ i \in 1..n /\ o[i] = q[i]
  BY <1>4
<1>6. o \in Bijection(1..n + 1, U \cup {s})
  <2>1. \A i \in 1..n + 1 : o[i] \in U \cup {s}
    BY <1>3, <1>5
  <2>2. o \in [1..n + 1 -> U \cup {s}]
    BY <1>4, <2>1
  <2>3. ASSUME NEW i \in 1..n + 1, NEW j \in 1..n + 1, o[i] = o[j]
        PROVE  i = j
    BY <1>3, <1>5, <2>3
  <2>4. ASSUME NEW r \in U \cup {s}
        PROVE  \E i \in 1..n + 1 : o[i] = r
    <3>1. CASE r = s
      <4>1. n + 1 \in 1..n + 1
        OBVIOUS
      <4> QED
        BY <1>4, <3>1, <4>1
    <3>2. CASE r \in U
      <4>1. PICK i \in 1..n : q[i] = r
        BY <1>3, <3>2
      <4>2. i \in 1..n + 1 /\ i # n + 1
        OBVIOUS
      <4> QED
        BY <1>4, <4>1, <4>2
    <3> QED
      BY <3>1, <3>2
  <2> QED
    BY <2>2, <2>3, <2>4 DEF Bijection, Injection, Surjection, IsInjective
<1>7. PICK m : m = Appended(l, s)
  OBVIOUS
<1>8. /\ m.head = IF l.tail = Nil THEN s ELSE l.head
      /\ m.tail = s
      /\ \A r \in Slots : m.prev[r] = IF r = s THEN l.tail ELSE l.prev[r]
      /\ \A r \in Slots : m.next[r] = IF l.tail # Nil /\ r = l.tail THEN s
                                      ELSE IF r = s THEN Nil ELSE l.next[r]
  BY <1>7 DEF Appended, ListType
<1>9. /\ l.head = IF n = 0 THEN Nil ELSE q[1]
      /\ l.tail = IF n = 0 THEN Nil ELSE q[n]
      /\ \A i \in 1..n : /\ l.prev[q[i]] = IF i = 1 THEN Nil ELSE q[i - 1]
                         /\ l.next[q[i]] = IF i = n THEN Nil ELSE q[i + 1]
  BY <1>2 DEF Links
<1>10. \A i \in 1..n : q[i] \in Slots /\ q[i] # Nil /\ q[i] # s
  BY <1>3
<1>11. n # 0 => 1 \in 1..n /\ n \in 1..n /\ l.tail = q[n] /\ l.tail # Nil
  BY <1>9, <1>10
<1>12. o[n + 1] = s /\ \A i \in 1..n : o[i] = q[i]
  <2>1. n + 1 \in 1..n + 1 /\ \A i \in 1..n : i \in 1..n + 1 /\ i # n + 1
    OBVIOUS
  <2> QED
    BY <1>4, <2>1
<1>13. n + 1 # 0 /\ m.head = o[1] /\ m.tail = o[n + 1]
  <2>1. CASE n = 0
    BY <1>8, <1>9, <1>12, <2>1
  <2>2. CASE n # 0
    BY <1>8, <1>9, <1>11, <1>12, <2>2
  <2> QED
    BY <2>1, <2>2
<1>14. ASSUME NEW i \in 1..n + 1
       PROVE  m.prev[o[i]] = IF i = 1 THEN Nil ELSE o[i - 1]
  <2>1. CASE i = n + 1
    <3>1. m.prev[o[i]] = l.tail
      BY <1>8, <1>12, <2>1
    <3>2. i = 1 <=> n = 0
      BY <2>1
    <3>3. i - 1 = n
      BY <2>1
    <3> QED
      BY <1>9, <1>11, <1>12, <3>1, <3>2, <3>3
  <2>2. CASE i # n + 1
    <3>1. i \in 1..n /\ (i # 1 => i - 1 \in 1..n)
      BY <2>2
    <3>2. m.prev[o[i]] = l.prev[q[i]]
      BY <1>8, <1>10, <1>12, <3>1
    <3> QED
      BY <1>9, <1>12, <3>1, <3>2
  <2> QED
    BY <2>1, <2>2
<1>15. ASSUME NEW i \in 1..n + 1
       PROVE  m.next[o[i]] = IF i = n + 1 THEN Nil ELSE o[i + 1]
  <2>1. CASE i = n + 1
    <3>1. o[i] = s /\ s # l.tail
      BY <1>9, <1>10, <1>11, <1>12, <2>1
    <3> QED
      BY <1>8, <2>1, <3>1
  <2>2. CASE i # n + 1
    <3>1. i \in 1..n /\ n # 0 /\ (i # n => i + 1 \in 1..n)
      BY <2>2
    <3>2. CASE i = n
      <4>1. m.next[o[i]] = s
        BY <1>8, <1>10, <1>11, <1>12, <3>1, <3>2
      <4> QED
        BY <1>12, <2>2, <3>2, <4>1
    <3>3. CASE i # n
      <4>1. q[i] # l.tail
        BY <1>3, <1>11, <3>1, <3>3
      <4>2. m.next[o[i]] = l.next[q[i]]
        BY <1>8, <1>10, <1>12, <3>1, <4>1
      <4> QED
        BY <1>9, <1>12, <2>2, <3>1, <3>3, <4>2
    <3> QED
      BY <3>2, <3>3
  <2> QED
    BY <2>1, <2>2
<1>16. Links(m, o, n + 1)
  BY <1>13, <1>14, <1>15 DEF Links
<1>17. Cardinality(U \cup {s}) = n + 1
  BY <1>1, SlotCount
<1> QED
  BY <1>6, <1>7, <1>16, <1>17 DEF Ordered

\* cvc_unlink takes one slot off the list, and leaves the rest linked.
LEMMA UnlinkedLinked ==
  ASSUME CacheAssumption, NEW l \in ListType, NEW U \in SUBSET Slots, NEW s \in U,
         WellLinked(l, U)
  PROVE  WellLinked(Unlinked(l, s), U \ {s})
<1> DEFINE m == Unlinked(l, s)
           before == l.prev[s]
           after == l.next[s]
<1> Nil \notin Slots
  BY DEF Nil, Slots
<1>1. /\ m.head = IF before = Nil THEN after ELSE l.head
      /\ m.tail = IF after = Nil THEN before ELSE l.tail
      /\ \A r \in Slots : m.prev[r] = IF after # Nil /\ r = after THEN before ELSE l.prev[r]
      /\ \A r \in Slots : m.next[r] = IF before # Nil /\ r = before THEN after ELSE l.next[r]
  BY DEF Unlinked, ListType
<1>2. /\ l.prev \in [Slots -> Slots \cup {Nil}] /\ l.next \in [Slots -> Slots \cup {Nil}]
      /\ l.head \in Slots \cup {Nil} /\ l.tail \in Slots \cup {Nil}
      /\ before \in Slots \cup {Nil} /\ after \in Slots \cup {Nil}
  BY DEF ListType
<1> HIDE DEF m
<1>3. m.head = Nil <=> m.tail = Nil
  BY <1>1, <1>2 DEF WellLinked
<1>4. m.head # Nil => m.head \in U \ {s} /\ m.prev[m.head] = Nil
  BY <1>1, <1>2 DEF WellLinked
<1>5. m.tail # Nil => m.tail \in U \ {s} /\ m.next[m.tail] = Nil
  BY <1>1, <1>2 DEF WellLinked
<1>6. ASSUME NEW r \in U \ {s}
      PROVE  /\ m.next[r] = Nil => m.tail = r
             /\ m.prev[r] = Nil => m.head = r
             /\ m.next[r] # Nil => m.next[r] \in U \ {s} /\ m.prev[m.next[r]] = r
             /\ m.prev[r] # Nil => m.prev[r] \in U \ {s} /\ m.next[m.prev[r]] = r
  BY <1>1, <1>2 DEF WellLinked
<1>7. Ordered(Unlinked(l, s), U \ {s})
  BY UnlinkedOrdered DEF WellLinked
<1> QED
  BY <1>3, <1>4, <1>5, <1>6, <1>7 DEF WellLinked, m

\* cvc_append puts one slot at its end.
LEMMA AppendedLinked ==
  ASSUME CacheAssumption, NEW l \in ListType, NEW U \in SUBSET Slots, NEW s \in Slots \ U,
         WellLinked(l, U)
  PROVE  WellLinked(Appended(l, s), U \cup {s})
<1> DEFINE m == Appended(l, s)
<1> Nil \notin Slots
  BY DEF Nil, Slots
<1>1. /\ m.head = IF l.tail = Nil THEN s ELSE l.head
      /\ m.tail = s
      /\ \A r \in Slots : m.prev[r] = IF r = s THEN l.tail ELSE l.prev[r]
      /\ \A r \in Slots : m.next[r] = IF l.tail # Nil /\ r = l.tail THEN s
                                      ELSE IF r = s THEN Nil ELSE l.next[r]
  BY DEF Appended, ListType
<1>2. /\ l.prev \in [Slots -> Slots \cup {Nil}] /\ l.next \in [Slots -> Slots \cup {Nil}]
      /\ l.head \in Slots \cup {Nil} /\ l.tail \in Slots \cup {Nil}
  BY DEF ListType
<1> HIDE DEF m
<1>3. /\ m.head = Nil <=> m.tail = Nil
      /\ m.head # Nil => m.head \in U \cup {s} /\ m.prev[m.head] = Nil
      /\ m.tail # Nil => m.tail \in U \cup {s} /\ m.next[m.tail] = Nil
  BY <1>1, <1>2 DEF WellLinked
<1>4. ASSUME NEW r \in U \cup {s}
      PROVE  /\ m.next[r] = Nil => m.tail = r
             /\ m.prev[r] = Nil => m.head = r
             /\ m.next[r] # Nil => m.next[r] \in U \cup {s} /\ m.prev[m.next[r]] = r
             /\ m.prev[r] # Nil => m.prev[r] \in U \cup {s} /\ m.next[m.prev[r]] = r
  BY <1>1, <1>2 DEF WellLinked
<1>5. Ordered(Appended(l, s), U \cup {s})
  BY AppendedOrdered DEF WellLinked
<1> QED
  BY <1>3, <1>4, <1>5 DEF WellLinked, m

-----------------------------------------------------------------------------
(* Counting users and lessees.                                             *)

LEMMA CountType ==
  ASSUME CacheAssumption, NEW S \in SUBSET Threads
  PROVE  IsFiniteSet(S) /\ Cardinality(S) \in Nat
BY FS_Subset, FS_CardinalityType DEF CacheAssumption

LEMMA CountAdd ==
  ASSUME CacheAssumption, NEW S \in SUBSET Threads, NEW t \in Threads \ S
  PROVE  Cardinality(S \cup {t}) = Cardinality(S) + 1
<1>1. IsFiniteSet(S)
  BY CountType
<1> QED
  BY <1>1, FS_AddElement

LEMMA CountRemove ==
  ASSUME CacheAssumption, NEW S \in SUBSET Threads, NEW t \in S
  PROVE  /\ Cardinality(S) > 0
         /\ Cardinality(S \ {t}) = Cardinality(S) - 1
<1>1. IsFiniteSet(S) /\ Cardinality(S) \in Nat
  BY CountType
<1>2. Cardinality(S \ {t}) = Cardinality(S) - 1
  BY <1>1, FS_RemoveElement
<1>3. Cardinality(S) # 0
  BY <1>1, FS_EmptySet
<1> QED
  BY <1>1, <1>2, <1>3

-----------------------------------------------------------------------------
\* The initial states satisfy the invariant.
THEOREM InitInv == ASSUME CacheAssumption PROVE Init => IInv
<1> SUFFICES ASSUME Init
             PROVE  IInv
  OBVIOUS
<1> Nil \notin Slots /\ 1 \in Slots /\ N \in Slots
  BY DEF Nil, Slots, CacheAssumption
<1>1. TypeOK
  <2>1. \A s \in Slots : s - 1 \in Slots \cup {Nil}
    BY DEF Slots, Nil, CacheAssumption
  <2>2. \A s \in Slots : s # N => s + 1 \in Slots
    BY DEF Slots, CacheAssumption
  <2>3. /\ prev \in [Pools -> [Slots -> Slots \cup {Nil}]]
        /\ next \in [Pools -> [Slots -> Slots \cup {Nil}]]
        /\ head \in [Pools -> Slots \cup {Nil}]
        /\ tail \in [Pools -> Slots \cup {Nil}]
    BY <2>1, <2>2 DEF Init
  <2>4. /\ open \subseteq Pools /\ counted \subseteq Pools /\ freed \subseteq Pools
        /\ refs \in [Pools -> Nat]
        /\ keys \in [Pools -> [Slots -> Keys \cup {None}]]
        /\ pin \in [Pools -> [Slots -> Nat]]
    BY DEF Init
  <2>5. /\ pc \in [Threads -> {"idle", "find", "decode", "publish", "unpin", "unref", "close", "gone"}]
        /\ then \in [Threads -> {"idle", "find", "close", "gone"}]
        /\ want \in [Threads -> [pool : Pools \cup {None}, key : Keys \cup {None}]]
        /\ lease \in [Threads -> [pool : Pools, slot : Slots, key : Keys] \cup {NoLease}]
        /\ hold \in [Threads -> Pools \cup {None}]
    BY DEF Init
  <2> QED
    BY <2>3, <2>4, <2>5 DEF TypeOK
<1>2. Control
  BY DEF Init, Control, Reading, Closing, Dropping, Lookup
<1>3. Pins
  <2> SUFFICES ASSUME NEW p \in Pools, NEW s \in Slots
               PROVE  pin[p][s] = Cardinality(Lessees(p, s))
    BY DEF Pins
  <2>1. Lessees(p, s) = {}
    BY DEF Lessees, Init, NoLease, CacheAssumption
  <2> QED
    BY <2>1, FS_EmptySet DEF Init
<1>4. \A p \in Pools : Users(p) = {}
  BY DEF Users, Init, NoLease, CacheAssumption
<1>5. Refs
  <2> SUFFICES ASSUME NEW p \in Pools
               PROVE  refs[p] = Cardinality(Users(p)) + Volume(p)
    BY DEF Refs
  <2>1. Cardinality(Users(p)) = 0
    BY <1>4, FS_EmptySet
  <2>2. refs[p] = 1 /\ Volume(p) = 1
    BY DEF Init, Volume
  <2> QED
    BY <2>1, <2>2
<1>6. FreedWhenUnused
  BY <1>4 DEF FreedWhenUnused, Init
<1>7. Lists
  <2> SUFFICES ASSUME NEW p \in Pools
               PROVE  WellLinked(ListOf(p), Idle(p))
    BY DEF Lists
  <2>1. Idle(p) = Slots
    BY DEF Idle, Init
  <2>2. /\ ListOf(p).head = 1 /\ ListOf(p).tail = N
        /\ \A s \in Slots : ListOf(p).prev[s] = s - 1
        /\ \A s \in Slots : ListOf(p).next[s] = IF s = N THEN 0 ELSE s + 1
    BY DEF ListOf, Init, Nil
  <2> DEFINE l == ListOf(p)
  <2> HIDE DEF l
  <2>3. /\ l.head = 1 /\ l.tail = N
        /\ \A s \in 1..N : l.prev[s] = s - 1
        /\ \A s \in 1..N : l.next[s] = IF s = N THEN 0 ELSE s + 1
    BY <2>2 DEF l, Slots
  <2>4. ASSUME NEW s \in 1..N
        PROVE  /\ l.next[s] = 0 => l.tail = s
               /\ l.prev[s] = 0 => l.head = s
               /\ l.next[s] # 0 => l.next[s] \in 1..N /\ l.prev[l.next[s]] = s
               /\ l.prev[s] # 0 => l.prev[s] \in 1..N /\ l.next[l.prev[s]] = s
    BY <2>3 DEF CacheAssumption
  <2>5. Ordered(l, 1..N)
    <3>1. PICK q : q = [i \in 1..N |-> i]
      OBVIOUS
    <3>2. q \in Bijection(1..N, 1..N)
      BY <3>1 DEF Bijection, Injection, Surjection, IsInjective
    <3>3. Links(l, q, N)
      BY <2>3, <3>1 DEF Links, Nil, CacheAssumption
    <3>4. N \in Int /\ 1 \in Int /\ N - 1 + 1 = N /\ ~(1 > N)
      BY DEF CacheAssumption
    <3>5. Cardinality(1..N) = IF 1 > N THEN 0 ELSE N - 1 + 1
      BY <3>4, FS_Interval
    <3>6. Cardinality(1..N) = N
      BY <3>4, <3>5
    <3> QED
      BY <3>2, <3>3, <3>6 DEF Ordered
  <2>6. WellLinked(l, 1..N)
    BY <2>3, <2>4, <2>5 DEF WellLinked, Nil, CacheAssumption
  <2> QED
    BY <2>1, <2>6 DEF l, Slots
<1>8. KeysKept
  BY DEF KeysKept, Init, NoLease
<1>9. OneSlotPerBlock
  BY DEF OneSlotPerBlock, Init
<1> QED
  BY <1>1, <1>2, <1>3, <1>5, <1>6, <1>7, <1>8, <1>9 DEF IInv

-----------------------------------------------------------------------------
(* Pins and the list, of one pool.                                         *)

\* cvc_unpin lists a slot when its last pin goes.
LEMMA UnpinLinked ==
  ASSUME CacheAssumption, NEW pn \in [Slots -> Nat], NEW m \in Slots, pn[m] > 0,
         NEW l \in ListType, WellLinked(l, {r \in Slots : pn[r] = 0})
  PROVE  /\ PinsWithout(pn, m) \in [Slots -> Nat]
         /\ ListAfterUnpin(pn, l, m) \in ListType
         /\ WellLinked(ListAfterUnpin(pn, l, m), {r \in Slots : PinsWithout(pn, m)[r] = 0})
<1> DEFINE U == {r \in Slots : pn[r] = 0}
           V == {r \in Slots : PinsWithout(pn, m)[r] = 0}
<1>1. /\ PinsWithout(pn, m) \in [Slots -> Nat]
      /\ \A r \in Slots : PinsWithout(pn, m)[r] = IF r = m THEN pn[m] - 1 ELSE pn[r]
  BY DEF PinsWithout
<1>2. CASE pn[m] = 1
  <2>1. V = U \cup {m} /\ m \in Slots \ U
    BY <1>1, <1>2
  <2>2. ListAfterUnpin(pn, l, m) = Appended(l, m)
    BY <1>2 DEF ListAfterUnpin
  <2>3. WellLinked(Appended(l, m), U \cup {m})
    <3> HIDE DEF U
    <3>1. U \in SUBSET Slots
      BY DEF U
    <3> QED
      BY <2>1, <3>1, AppendedLinked DEF U
  <2> QED
    BY <1>1, <2>1, <2>2, <2>3, AppendedType
<1>3. CASE pn[m] # 1
  <2>1. V = U
    BY <1>1, <1>3
  <2>2. ListAfterUnpin(pn, l, m) = l
    BY <1>3 DEF ListAfterUnpin
  <2> QED
    BY <1>1, <2>1, <2>2
<1> QED
  BY <1>2, <1>3

\* cv_lease_take takes a slot off the list with its first pin.
LEMMA PinLinked ==
  ASSUME CacheAssumption, NEW pn \in [Slots -> Nat], NEW s \in Slots,
         NEW l \in ListType, WellLinked(l, {r \in Slots : pn[r] = 0})
  PROVE  /\ [pn EXCEPT ![s] = @ + 1] \in [Slots -> Nat]
         /\ (IF pn[s] = 0 THEN Unlinked(l, s) ELSE l) \in ListType
         /\ WellLinked(IF pn[s] = 0 THEN Unlinked(l, s) ELSE l,
                       {r \in Slots : [pn EXCEPT ![s] = @ + 1][r] = 0})
<1> DEFINE U == {r \in Slots : pn[r] = 0}
           V == {r \in Slots : [pn EXCEPT ![s] = @ + 1][r] = 0}
<1>1. /\ [pn EXCEPT ![s] = @ + 1] \in [Slots -> Nat]
      /\ \A r \in Slots : [pn EXCEPT ![s] = @ + 1][r] = IF r = s THEN pn[s] + 1 ELSE pn[r]
  OBVIOUS
<1>2. CASE pn[s] = 0
  <2>1. V = U \ {s} /\ s \in U
    BY <1>1, <1>2
  <2>2. WellLinked(Unlinked(l, s), U \ {s})
    <3> HIDE DEF U
    <3>1. U \in SUBSET Slots
      BY DEF U
    <3> QED
      BY <2>1, <3>1, UnlinkedLinked DEF U
  <2> QED
    BY <1>1, <1>2, <2>1, <2>2, UnlinkedType
<1>3. CASE pn[s] # 0
  <2>1. V = U
    BY <1>1, <1>3
  <2> QED
    BY <1>1, <1>3, <2>1
<1> QED
  BY <1>2, <1>3

\* An eviction moves the head to the tail.
LEMMA RotateLinked ==
  ASSUME CacheAssumption, NEW l \in ListType, NEW U \in SUBSET Slots,
         WellLinked(l, U), l.head # Nil
  PROVE  /\ l.head \in U
         /\ Appended(Unlinked(l, l.head), l.head) \in ListType
         /\ WellLinked(Appended(Unlinked(l, l.head), l.head), U)
<1>1. l.head \in U
  BY DEF WellLinked
<1>2. PICK h \in U : h = l.head
  BY <1>1
<1>3. Unlinked(l, h) \in ListType /\ WellLinked(Unlinked(l, h), U \ {h})
  BY UnlinkedType, UnlinkedLinked
<1>4. Appended(Unlinked(l, h), h) \in ListType
  BY <1>3, AppendedType
<1> DEFINE V == U \ {h}
<1>5. V \in SUBSET Slots /\ h \in Slots \ V /\ V \cup {h} = U
  OBVIOUS
<1>6. WellLinked(Unlinked(l, h), V)
  BY <1>3
<1> HIDE DEF V
<1>7. WellLinked(Appended(Unlinked(l, h), h), V \cup {h})
  BY <1>3, <1>5, <1>6, AppendedLinked
<1> QED
  BY <1>1, <1>2, <1>4, <1>5, <1>7

LEMMA ListOfType ==
  ASSUME TypeOK, NEW p \in Pools
  PROVE  ListOf(p) \in ListType
BY DEF TypeOK, ListOf, ListType

\* Writing the list back.
LEMMA SetListOf ==
  ASSUME CacheAssumption, TypeOK, NEW p \in Pools, NEW l \in ListType, SetList(p, l)
  PROVE  /\ ListOf(p)' = l
         /\ \A q \in Pools : q # p => ListOf(q)' = ListOf(q)
         /\ prev' \in [Pools -> [Slots -> Slots \cup {Nil}]]
         /\ next' \in [Pools -> [Slots -> Slots \cup {Nil}]]
         /\ head' \in [Pools -> Slots \cup {Nil}]
         /\ tail' \in [Pools -> Slots \cup {Nil}]
<1>1. /\ prev'[p] = l.prev /\ next'[p] = l.next /\ head'[p] = l.head /\ tail'[p] = l.tail
      /\ \A q \in Pools : q # p => /\ prev'[q] = prev[q] /\ next'[q] = next[q]
                                   /\ head'[q] = head[q] /\ tail'[q] = tail[q]
  BY DEF SetList, TypeOK
<1>2. l = [prev |-> l.prev, next |-> l.next, head |-> l.head, tail |-> l.tail]
  BY DEF ListType
<1>3. ListOf(p)' = l
  BY <1>1, <1>2 DEF ListOf
<1>4. \A q \in Pools : q # p => ListOf(q)' = ListOf(q)
  BY <1>1 DEF ListOf
<1>5. /\ l.prev \in [Slots -> Slots \cup {Nil}] /\ l.next \in [Slots -> Slots \cup {Nil}]
      /\ l.head \in Slots \cup {Nil} /\ l.tail \in Slots \cup {Nil}
  BY DEF ListType
<1>6. /\ prev' \in [Pools -> [Slots -> Slots \cup {Nil}]]
      /\ next' \in [Pools -> [Slots -> Slots \cup {Nil}]]
      /\ head' \in [Pools -> Slots \cup {Nil}]
      /\ tail' \in [Pools -> Slots \cup {Nil}]
  BY <1>5 DEF SetList, TypeOK
<1> QED
  BY <1>3, <1>4, <1>6

-----------------------------------------------------------------------------
(* Taking a lease (cv_lease_take), in Find and in Publish.                 *)

\* The pins and the list once the thread's old lease on the pool is gone.
PinsDropped(t, p) ==
  IF Moves(t, p) THEN PinsWithout(pin[p], lease[t].slot) ELSE pin[p]
ListDropped(t, p, l) ==
  IF Moves(t, p) THEN ListAfterUnpin(pin[p], l, lease[t].slot) ELSE l

LEMMA LeaseType ==
  ASSUME CacheAssumption, TypeOK, NEW t \in Threads, lease[t].pool # None
  PROVE  lease[t].pool \in Pools /\ lease[t].slot \in Slots /\ lease[t].key \in Keys
<1>1. lease[t] \in [pool : Pools, slot : Slots, key : Keys] \cup {NoLease}
  BY DEF TypeOK
<1>2. NoLease.pool = None
  BY DEF NoLease
<1> QED
  BY <1>1, <1>2

LEMMA DroppedLinked ==
  ASSUME CacheAssumption, TypeOK, Pins, NEW t \in Threads, NEW p \in Pools,
         NEW l \in ListType, WellLinked(l, Idle(p))
  PROVE  /\ PinsDropped(t, p) \in [Slots -> Nat]
         /\ \A r \in Slots : PinsDropped(t, p)[r] = Cardinality(Lessees(p, r) \ {t})
         /\ ListDropped(t, p, l) \in ListType
         /\ WellLinked(ListDropped(t, p, l), {r \in Slots : PinsDropped(t, p)[r] = 0})
<1> DEFINE m == lease[t].slot
<1>1. pin[p] \in [Slots -> Nat] /\ \A r \in Slots : pin[p][r] = Cardinality(Lessees(p, r))
  BY DEF TypeOK, Pins
<1>2. CASE Moves(t, p)
  <2>1. m \in Slots /\ t \in Lessees(p, m)
    BY <1>2, LeaseType DEF Moves, Lessees, CacheAssumption
  <2>2. \A r \in Slots : r # m => Lessees(p, r) \ {t} = Lessees(p, r)
    BY DEF Lessees
  <2>3. Lessees(p, m) \in SUBSET Threads
    BY DEF Lessees
  <2>4. pin[p][m] > 0 /\ Cardinality(Lessees(p, m) \ {t}) = pin[p][m] - 1
    BY <1>1, <2>1, <2>3, CountRemove
  <2>5. /\ PinsWithout(pin[p], m) \in [Slots -> Nat]
        /\ ListAfterUnpin(pin[p], l, m) \in ListType
        /\ WellLinked(ListAfterUnpin(pin[p], l, m),
                      {r \in Slots : PinsWithout(pin[p], m)[r] = 0})
    BY <1>1, <2>1, <2>4, UnpinLinked DEF Idle
  <2>6. \A r \in Slots : PinsWithout(pin[p], m)[r] = Cardinality(Lessees(p, r) \ {t})
    BY <1>1, <2>1, <2>2, <2>4 DEF PinsWithout
  <2> QED
    BY <1>2, <2>5, <2>6 DEF PinsDropped, ListDropped
<1>3. CASE ~Moves(t, p)
  <2>1. \A r \in Slots : Lessees(p, r) \ {t} = Lessees(p, r)
    BY <1>3 DEF Lessees, Moves
  <2> QED
    BY <1>1, <1>3, <2>1 DEF PinsDropped, ListDropped, Idle
<1> QED
  BY <1>2, <1>3

LEMMA TakeKeepsPool ==
  ASSUME CacheAssumption, TypeOK, Pins, Lists, NEW t \in Threads, NEW p \in Pools,
         NEW s \in Slots, NEW k \in Keys, NEW l \in ListType, WellLinked(l, Idle(p)),
         lease[t].pool \in {None, p}, Take(t, p, s, k, l)
  PROVE  /\ pin' \in [Pools -> [Slots -> Nat]]
         /\ prev' \in [Pools -> [Slots -> Slots \cup {Nil}]]
         /\ next' \in [Pools -> [Slots -> Slots \cup {Nil}]]
         /\ head' \in [Pools -> Slots \cup {Nil}]
         /\ tail' \in [Pools -> Slots \cup {Nil}]
         /\ Pins' /\ Lists'
<1> DEFINE pn == PinsDropped(t, p)
           m == ListDropped(t, p, l)
           after == IF pn[s] = 0 THEN Unlinked(m, s) ELSE m
<1>1. /\ pn \in [Slots -> Nat]
      /\ \A r \in Slots : pn[r] = Cardinality(Lessees(p, r) \ {t})
      /\ m \in ListType
      /\ WellLinked(m, {r \in Slots : pn[r] = 0})
  BY DroppedLinked
<1>2. /\ SetList(p, after)
      /\ pin' = [pin EXCEPT ![p] = [pn EXCEPT ![s] = @ + 1]]
      /\ lease' = [lease EXCEPT ![t] = [pool |-> p, slot |-> s, key |-> k]]
  BY DEF Take, PinsDropped, ListDropped
<1> HIDE DEF pn, m
<1>3. /\ [pn EXCEPT ![s] = @ + 1] \in [Slots -> Nat]
      /\ after \in ListType
      /\ WellLinked(after, {r \in Slots : [pn EXCEPT ![s] = @ + 1][r] = 0})
  BY <1>1, PinLinked
<1> HIDE DEF after
<1>4. /\ pin' \in [Pools -> [Slots -> Nat]]
      /\ pin'[p] = [pn EXCEPT ![s] = @ + 1]
      /\ \A q \in Pools : q # p => pin'[q] = pin[q]
  BY <1>2, <1>3 DEF TypeOK
<1>5. /\ ListOf(p)' = after
      /\ \A q \in Pools : q # p => ListOf(q)' = ListOf(q)
      /\ prev' \in [Pools -> [Slots -> Slots \cup {Nil}]]
      /\ next' \in [Pools -> [Slots -> Slots \cup {Nil}]]
      /\ head' \in [Pools -> Slots \cup {Nil}]
      /\ tail' \in [Pools -> Slots \cup {Nil}]
  BY <1>2, <1>3, SetListOf
<1>6. Lists'
  <2> SUFFICES ASSUME NEW q \in Pools
               PROVE  WellLinked(ListOf(q), Idle(q))'
    BY DEF Lists
  <2>1. CASE q = p
    <3>1. Idle(p)' = {r \in Slots : [pn EXCEPT ![s] = @ + 1][r] = 0}
      BY <1>4 DEF Idle
    <3> QED
      BY <1>3, <1>5, <2>1, <3>1 DEF WellLinked
  <2>2. CASE q # p
    <3>1. Idle(q)' = Idle(q)
      BY <1>4, <2>2 DEF Idle
    <3> QED
      BY <1>5, <2>2, <3>1 DEF WellLinked, Lists
  <2> QED
    BY <2>1, <2>2
<1>7. Pins'
  <2> SUFFICES ASSUME NEW q \in Pools, NEW r \in Slots
               PROVE  pin'[q][r] = Cardinality(Lessees(q, r)')
    BY DEF Pins
  <2>1. lease \in [Threads -> [pool : Pools, slot : Slots, key : Keys] \cup {NoLease}]
    BY DEF TypeOK
  <2>2. \A u \in Threads : lease'[u] = IF u = t THEN [pool |-> p, slot |-> s, key |-> k]
                                                ELSE lease[u]
    BY <1>2, <2>1
  <2>3. Lessees(q, r) \in SUBSET Threads
    BY DEF Lessees
  <2>4. CASE q = p /\ r = s
    <3>1. Lessees(p, s)' = (Lessees(p, s) \ {t}) \cup {t}
      BY <2>2 DEF Lessees
    <3>2. pin'[p][s] = pn[s] + 1
      BY <1>1, <1>4
    <3> DEFINE L == Lessees(p, s) \ {t}
    <3>3. L \in SUBSET Threads /\ t \in Threads \ L
      BY <2>3, <2>4
    <3>4. Cardinality(L \cup {t}) = Cardinality(L) + 1
      <4> HIDE DEF L
      <4> QED
        BY <3>3, CountAdd
    <3> QED
      BY <1>1, <2>4, <3>1, <3>2, <3>4
  <2>5. CASE q = p /\ r # s
    <3>1. Lessees(p, r)' = Lessees(p, r) \ {t}
      BY <2>2, <2>5 DEF Lessees
    <3>2. pin'[p][r] = pn[r]
      BY <1>1, <1>4, <2>5
    <3> QED
      BY <1>1, <2>5, <3>1, <3>2
  <2>6. CASE q # p
    <3>1. Lessees(q, r)' = Lessees(q, r)
      BY <2>2, <2>6 DEF Lessees, CacheAssumption
    <3> QED
      BY <1>4, <2>6, <3>1 DEF Pins
  <2> QED
    BY <2>4, <2>5, <2>6
<1> QED
  BY <1>4, <1>5, <1>6, <1>7

\* A reader is at an open volume, which counts its pool.
LEMMA ReaderFacts ==
  ASSUME CacheAssumption, IInv, NEW t \in Threads, pc[t] \in Lookup
  PROVE  /\ want[t].pool \in Pools /\ want[t].pool \in open
         /\ want[t].pool \in counted /\ want[t].pool \notin freed
         /\ want[t].key \in Keys
         /\ lease[t].pool \in {None, want[t].pool} /\ hold[t] = None
<1>1. want[t].pool \in open /\ want[t].key \in Keys
  BY DEF IInv, Control, Reading
<1>2. want[t].pool \in Pools /\ want[t].pool \in counted
  BY <1>1 DEF IInv, TypeOK, Control
<1>3. want[t].pool \notin freed
  BY <1>2 DEF IInv, FreedWhenUnused
<1>4. lease[t].pool \in {None, want[t].pool} /\ hold[t] = None
  BY DEF IInv, Control, Lookup
<1> QED
  BY <1>1, <1>2, <1>3, <1>4

LEMMA TakeKeepsRefs ==
  ASSUME CacheAssumption, IInv, NEW t \in Threads, pc[t] \in Lookup, NEW p \in Pools,
         p = want[t].pool, NEW s \in Slots, NEW k \in Keys, NEW l,
         Take(t, p, s, k, l), UNCHANGED <<counted, freed, hold>>
  PROVE  /\ refs' \in [Pools -> Nat]
         /\ lease' \in [Threads -> [pool : Pools, slot : Slots, key : Keys] \cup {NoLease}]
         /\ lease'[t] = [pool |-> p, slot |-> s, key |-> k]
         /\ \A u \in Threads : u # t => lease'[u] = lease[u]
         /\ Refs' /\ FreedWhenUnused'
<1>1. /\ lease' = [lease EXCEPT ![t] = [pool |-> p, slot |-> s, key |-> k]]
      /\ refs' = IF Moves(t, p) THEN refs ELSE [refs EXCEPT ![p] = @ + 1]
  BY DEF Take, RefsWith
<1>2. /\ lease' \in [Threads -> [pool : Pools, slot : Slots, key : Keys] \cup {NoLease}]
      /\ lease'[t] = [pool |-> p, slot |-> s, key |-> k]
      /\ \A u \in Threads : u # t => lease'[u] = lease[u]
  BY <1>1 DEF IInv, TypeOK
<1>3. /\ refs' \in [Pools -> Nat] /\ refs \in [Pools -> Nat]
      /\ \A q \in Pools : refs'[q] = IF q = p /\ ~Moves(t, p) THEN refs[q] + 1 ELSE refs[q]
  BY <1>1 DEF IInv, TypeOK
<1>4. p \in counted /\ p \notin freed /\ lease[t].pool \in {None, p} /\ hold[t] = None
  BY ReaderFacts
<1>5. Users(p)' = Users(p) \cup {t}
  BY <1>2 DEF Users
<1>6. \A q \in Pools : q # p => Users(q)' = Users(q)
  BY <1>2, <1>4 DEF Users, CacheAssumption
<1>7. Moves(t, p) => Users(p)' = Users(p)
  BY <1>5 DEF Users, Moves
<1>8. ~Moves(t, p) => t \notin Users(p)
  BY <1>4 DEF Users, Moves, CacheAssumption
<1>9. ~Moves(t, p) => Cardinality(Users(p)') = Cardinality(Users(p)) + 1
  <2>1. Users(p) \in SUBSET Threads
    BY DEF Users
  <2> QED
    BY <1>5, <1>8, <2>1, CountAdd
<1>10. Refs'
  <2> SUFFICES ASSUME NEW q \in Pools
               PROVE  refs'[q] = Cardinality(Users(q)') + Volume(q)
    BY DEF Refs, Volume
  <2>1. refs[q] = Cardinality(Users(q)) + Volume(q)
    BY DEF IInv, Refs
  <2>2. Cardinality(Users(q)) \in Nat /\ Volume(q) \in Nat
    BY CountType DEF Users, Volume
  <2>3. CASE q = p /\ ~Moves(t, p)
    BY <1>3, <1>9, <2>1, <2>2, <2>3
  <2>4. CASE ~(q = p /\ ~Moves(t, p))
    BY <1>3, <1>6, <1>7, <2>1, <2>4
  <2> QED
    BY <2>3, <2>4
<1>11. FreedWhenUnused'
  BY <1>4, <1>6 DEF IInv, FreedWhenUnused
<1> QED
  BY <1>2, <1>3, <1>10, <1>11

\* What a thread that leaves the lookup does to Control.
LEMMA TakeKeepsControl ==
  ASSUME CacheAssumption, IInv, NEW t \in Threads, pc[t] \in Lookup,
         pc' = [pc EXCEPT ![t] = "idle"], UNCHANGED <<open, counted, then, want, hold>>,
         \A u \in Threads : u # t => lease'[u] = lease[u]
  PROVE  /\ Control'
         /\ pc' \in [Threads -> {"idle", "find", "decode", "publish", "unpin", "unref",
                                 "close", "gone"}]
<1>1. \A u \in Threads : pc'[u] = IF u = t THEN "idle" ELSE pc[u]
  BY DEF IInv, TypeOK
<1>2. hold[t] = None
  BY ReaderFacts
<1>3. Control'
  BY <1>1, <1>2 DEF IInv, Control, Reading, Closing, Dropping, Lookup
<1> QED
  BY <1>3 DEF IInv, TypeOK

-----------------------------------------------------------------------------
(* What a step leaves alone.                                               *)

\* A step that touches no pool and no lease.
LEMMA PoolFrame ==
  ASSUME IInv, UNCHANGED <<poolVars, lease>>
  PROVE  Pins' /\ Lists' /\ KeysKept' /\ OneSlotPerBlock'
<1>1. \A p, s : Lessees(p, s)' = Lessees(p, s)
  BY DEF Lessees
<1>2. Pins'
  BY <1>1 DEF IInv, Pins, poolVars
<1>3. Lists'
  BY DEF IInv, Lists, ListOf, Idle, WellLinked, poolVars
<1>4. KeysKept' /\ OneSlotPerBlock'
  BY DEF IInv, KeysKept, OneSlotPerBlock, poolVars
<1> QED
  BY <1>2, <1>3, <1>4

\* A step that leaves every pool its users and its volume.
LEMMA RefFrame ==
  ASSUME IInv, UNCHANGED <<counted, refs, freed>>, \A p \in Pools : Users(p)' = Users(p)
  PROVE  Refs' /\ FreedWhenUnused'
<1>1. \A p \in Pools : Volume(p)' = Volume(p)
  BY DEF Volume
<1>2. Refs'
  BY <1>1 DEF IInv, Refs
<1>3. FreedWhenUnused'
  BY DEF IInv, FreedWhenUnused
<1> QED
  BY <1>2, <1>3

LEMMA UsersFrame ==
  ASSUME UNCHANGED <<lease, hold>>
  PROVE  \A p \in Pools : Users(p)' = Users(p)
BY DEF Users

\* Nobody leases the head of the list.
LEMMA HeadIdle ==
  ASSUME CacheAssumption, IInv, NEW p \in Pools, head[p] # Nil
  PROVE  /\ head[p] \in Slots /\ pin[p][head[p]] = 0
         /\ \A t \in Threads : ~(lease[t].pool = p /\ lease[t].slot = head[p])
<1>1. WellLinked(ListOf(p), Idle(p)) /\ ListOf(p).head = head[p]
  BY DEF IInv, Lists, ListOf
<1>2. head[p] \in Slots /\ pin[p][head[p]] = 0
  BY <1>1 DEF WellLinked, Idle
<1>3. Cardinality(Lessees(p, head[p])) = 0
  BY <1>2 DEF IInv, Pins
<1>4. Lessees(p, head[p]) \in SUBSET Threads
  BY DEF Lessees
<1>5. IsFiniteSet(Lessees(p, head[p]))
  BY <1>4, CountType
<1>6. Lessees(p, head[p]) = {}
  BY <1>3, <1>5, FS_EmptySet
<1> QED
  BY <1>2, <1>6 DEF Lessees

\* An eviction gives the head another block, which no slot holds yet.
LEMMA EvictKeepsKeys ==
  ASSUME CacheAssumption, IInv, NEW p \in Pools, NEW k \in Keys, head[p] # Nil,
         Holding(k, p) = {}, keys' = [keys EXCEPT ![p][head[p]] = k]
  PROVE  /\ keys' \in [Pools -> [Slots -> Keys \cup {None}]]
         /\ keys'[p][head[p]] = k
         /\ \A q \in Pools, r \in Slots : ~(q = p /\ r = head[p]) => keys'[q][r] = keys[q][r]
         /\ OneSlotPerBlock'
<1>1. head[p] \in Slots /\ keys \in [Pools -> [Slots -> Keys \cup {None}]]
  BY HeadIdle DEF IInv, TypeOK
<1>2. keys' \in [Pools -> [Slots -> Keys \cup {None}]]
  BY <1>1
<1>3. /\ keys'[p][head[p]] = k
      /\ \A q \in Pools, r \in Slots : ~(q = p /\ r = head[p]) => keys'[q][r] = keys[q][r]
  BY <1>1
<1>4. \A r \in Slots : keys[p][r] # k
  BY DEF Holding
<1>5. OneSlotPerBlock'
  BY <1>1, <1>3, <1>4 DEF IInv, OneSlotPerBlock
<1> QED
  BY <1>2, <1>3, <1>5

\* A leased slot keeps its block if the step writes none but an idle slot.
LEMMA TakeKeepsKeys ==
  ASSUME CacheAssumption, IInv, NEW t \in Threads, NEW p \in Pools, NEW s \in Slots, NEW k \in Keys,
         lease'[t] = [pool |-> p, slot |-> s, key |-> k],
         \A u \in Threads : u # t => lease'[u] = lease[u],
         keys'[p][s] = k,
         \A u \in Threads : u # t /\ lease[u].pool # None =>
           keys'[lease[u].pool][lease[u].slot] = keys[lease[u].pool][lease[u].slot]
  PROVE  KeysKept'
<1> SUFFICES ASSUME NEW u \in Threads, lease'[u].pool # None
             PROVE  keys'[lease'[u].pool][lease'[u].slot] = lease'[u].key
  BY DEF KeysKept
<1>1. CASE u = t
  BY <1>1
<1>2. CASE u # t
  BY <1>2 DEF IInv, KeysKept
<1> QED
  BY <1>1, <1>2

-----------------------------------------------------------------------------
(* Every step keeps the invariant.                                         *)

LEMMA HitStep ==
  ASSUME CacheAssumption, IInv, NEW t \in Threads, pc[t] \in Lookup,
         NEW s \in Holding(want[t].key, want[t].pool),
         Take(t, want[t].pool, s, want[t].key, ListOf(want[t].pool)),
         pc' = [pc EXCEPT ![t] = "idle"],
         UNCHANGED <<open, counted, freed, keys, then, want, hold>>
  PROVE  IInv'
<1> DEFINE p == want[t].pool
           k == want[t].key
<1>1. p \in Pools /\ k \in Keys /\ lease[t].pool \in {None, p}
  BY ReaderFacts
<1>2. s \in Slots /\ keys[p][s] = k
  BY DEF Holding
<1>3. TypeOK /\ Pins /\ Lists /\ ListOf(p) \in ListType /\ WellLinked(ListOf(p), Idle(p))
  BY <1>1, ListOfType DEF IInv, Lists
<1>4. /\ Take(t, p, s, k, ListOf(p)) /\ p = want[t].pool
      /\ UNCHANGED <<counted, freed, hold>>
  OBVIOUS
<1> HIDE DEF p, k
<1>5. /\ pin' \in [Pools -> [Slots -> Nat]]
      /\ prev' \in [Pools -> [Slots -> Slots \cup {Nil}]]
      /\ next' \in [Pools -> [Slots -> Slots \cup {Nil}]]
      /\ head' \in [Pools -> Slots \cup {Nil}]
      /\ tail' \in [Pools -> Slots \cup {Nil}]
      /\ Pins' /\ Lists'
  BY <1>1, <1>2, <1>3, <1>4, TakeKeepsPool
<1>6. /\ refs' \in [Pools -> Nat]
      /\ lease' \in [Threads -> [pool : Pools, slot : Slots, key : Keys] \cup {NoLease}]
      /\ lease'[t] = [pool |-> p, slot |-> s, key |-> k]
      /\ \A u \in Threads : u # t => lease'[u] = lease[u]
      /\ Refs' /\ FreedWhenUnused'
  BY <1>1, <1>2, <1>4, TakeKeepsRefs
<1>7. /\ Control'
      /\ pc' \in [Threads -> {"idle", "find", "decode", "publish", "unpin", "unref",
                              "close", "gone"}]
  BY <1>6, TakeKeepsControl
<1>8. KeysKept'
  BY <1>1, <1>2, <1>6, TakeKeepsKeys
<1>9. OneSlotPerBlock'
  BY DEF IInv, OneSlotPerBlock
<1>10. TypeOK'
  BY <1>5, <1>6, <1>7 DEF IInv, TypeOK
<1> QED
  BY <1>5, <1>6, <1>7, <1>8, <1>9, <1>10 DEF IInv

LEMMA EvictStep ==
  ASSUME CacheAssumption, IInv, NEW t \in Threads, pc[t] \in Lookup, NEW p, NEW k,
         p = want[t].pool, k = want[t].key,
         Holding(k, p) = {}, head[p] # Nil,
         keys' = [keys EXCEPT ![p][head[p]] = k],
         Take(t, p, head[p], k, Appended(Unlinked(ListOf(p), head[p]), head[p])),
         pc' = [pc EXCEPT ![t] = "idle"],
         UNCHANGED <<open, counted, freed, then, want, hold>>
  PROVE  IInv'
<1>1. p \in Pools /\ k \in Keys /\ lease[t].pool \in {None, p}
  BY ReaderFacts
<1>2. /\ head[p] \in Slots
      /\ \A u \in Threads : ~(lease[u].pool = p /\ lease[u].slot = head[p])
  BY <1>1, HeadIdle
<1>3. TypeOK /\ Pins /\ Lists /\ ListOf(p) \in ListType /\ WellLinked(ListOf(p), Idle(p))
  BY <1>1, ListOfType DEF IInv, Lists
<1> DEFINE l == Appended(Unlinked(ListOf(p), head[p]), head[p])
<1>4. l \in ListType /\ WellLinked(l, Idle(p))
  <2>1. ListOf(p).head = head[p]
    BY DEF ListOf
  <2>2. Idle(p) \in SUBSET Slots
    BY DEF Idle
  <2> QED
    BY <1>3, <2>1, <2>2, RotateLinked
<1>5. /\ Take(t, p, head[p], k, l) /\ UNCHANGED <<counted, freed, hold>>
      /\ t \in Threads /\ pc[t] \in Lookup /\ p = want[t].pool
  OBVIOUS
<1> HIDE DEF l
<1>6. /\ pin' \in [Pools -> [Slots -> Nat]]
      /\ prev' \in [Pools -> [Slots -> Slots \cup {Nil}]]
      /\ next' \in [Pools -> [Slots -> Slots \cup {Nil}]]
      /\ head' \in [Pools -> Slots \cup {Nil}]
      /\ tail' \in [Pools -> Slots \cup {Nil}]
      /\ Pins' /\ Lists'
  BY <1>1, <1>2, <1>3, <1>4, <1>5, TakeKeepsPool
<1>7. /\ refs' \in [Pools -> Nat]
      /\ lease' \in [Threads -> [pool : Pools, slot : Slots, key : Keys] \cup {NoLease}]
      /\ lease'[t] = [pool |-> p, slot |-> head[p], key |-> k]
      /\ \A u \in Threads : u # t => lease'[u] = lease[u]
      /\ Refs' /\ FreedWhenUnused'
  <2>1. PICK h \in Slots : h = head[p]
    BY <1>2
  <2>2. Take(t, p, h, k, l)
    BY <1>5, <2>1
  <2>3. /\ refs' \in [Pools -> Nat]
        /\ lease' \in [Threads -> [pool : Pools, slot : Slots, key : Keys] \cup {NoLease}]
        /\ lease'[t] = [pool |-> p, slot |-> h, key |-> k]
        /\ \A u \in Threads : u # t => lease'[u] = lease[u]
        /\ Refs' /\ FreedWhenUnused'
    BY ONLY <1>1, <1>5, <2>2, CacheAssumption, IInv, TakeKeepsRefs
  <2> QED
    BY <2>1, <2>3
<1>8. /\ Control'
      /\ pc' \in [Threads -> {"idle", "find", "decode", "publish", "unpin", "unref",
                              "close", "gone"}]
  BY <1>7, TakeKeepsControl
<1>9. /\ keys' \in [Pools -> [Slots -> Keys \cup {None}]]
      /\ keys'[p][head[p]] = k
      /\ \A q \in Pools, r \in Slots : ~(q = p /\ r = head[p]) => keys'[q][r] = keys[q][r]
      /\ OneSlotPerBlock'
  <2>1. p \in Pools /\ k \in Keys
    BY <1>1
  <2>2. Holding(k, p) = {}
    OBVIOUS
  <2>3. keys' = [keys EXCEPT ![p][head[p]] = k]
    OBVIOUS
  <2>4. head[p] # Nil
    OBVIOUS
  <2> QED
    BY ONLY <2>1, <2>2, <2>3, <2>4, CacheAssumption, IInv, EvictKeepsKeys, ZenonT(60)
<1>10. KeysKept'
  <2>1. \A u \in Threads : lease[u].pool # None =>
          keys'[lease[u].pool][lease[u].slot] = keys[lease[u].pool][lease[u].slot]
    BY <1>2, <1>3, <1>9, LeaseType
  <2>2. PICK h \in Slots : h = head[p]
    BY <1>2
  <2>3. lease'[t] = [pool |-> p, slot |-> h, key |-> k] /\ keys'[p][h] = k
    BY <1>7, <1>9, <2>2
  <2>4. t \in Threads /\ \A u \in Threads : u # t => lease'[u] = lease[u]
    BY <1>5, <1>7
  <2> QED
    BY ONLY <1>1, <2>1, <2>3, <2>4, CacheAssumption, IInv, TakeKeepsKeys, ZenonT(60)
<1>11. TypeOK'
  BY <1>6, <1>7, <1>8, <1>9 DEF IInv, TypeOK
<1> QED
  BY <1>6, <1>7, <1>8, <1>9, <1>10, <1>11 DEF IInv

LEMMA ReadStep ==
  ASSUME CacheAssumption, IInv, NEW t \in Threads, NEW p \in Pools, NEW k \in Keys, Read(t, p, k)
  PROVE  IInv'
<1>1. Pins' /\ Lists' /\ KeysKept' /\ OneSlotPerBlock'
  BY PoolFrame DEF Read
<1>2. Refs' /\ FreedWhenUnused'
  BY UsersFrame, RefFrame DEF Read, volVars
<1>3. /\ pc[t] = "idle" /\ p \in open
      /\ \A u \in Threads : want'[u] = IF u = t THEN [pool |-> p, key |-> k] ELSE want[u]
      /\ \A u \in Threads : u # t => pc'[u] = pc[u] /\ then'[u] = then[u]
      /\ \/ pc'[t] = "idle"
         \/ lease[t].pool # None /\ pc'[t] = "unpin" /\ then'[t] = "find"
         \/ lease[t].pool \in {p, None} /\ pc'[t] = "find"
      /\ UNCHANGED <<open, counted, lease, hold>>
  BY DEF Read, IInv, TypeOK, volVars
<1>4. Control'
  BY <1>3 DEF IInv, Control, Reading, Closing, Dropping, Lookup
<1>5. TypeOK'
  BY DEF Read, IInv, TypeOK, volVars, poolVars
<1> QED
  BY <1>1, <1>2, <1>4, <1>5 DEF IInv

LEMMA FindStep ==
  ASSUME CacheAssumption, IInv, NEW t \in Threads, Find(t)
  PROVE  IInv'
<1>1. pc[t] = "find" /\ pc[t] \in Lookup
  BY DEF Find, Lookup
<1>2. CASE Holding(want[t].key, want[t].pool) = {}
  <2>1. /\ pc' = [pc EXCEPT ![t] = "decode"]
        /\ UNCHANGED <<open, counted, freed, keys, then, want, hold>>
        /\ UNCHANGED <<pin, prev, next, head, tail, refs, lease>>
    BY <1>2 DEF Find
  <2>2. Pins' /\ Lists' /\ KeysKept' /\ OneSlotPerBlock'
    BY <2>1, PoolFrame DEF poolVars
  <2>3. Refs' /\ FreedWhenUnused'
    BY <2>1, UsersFrame, RefFrame
  <2>4. \A u \in Threads : pc'[u] = IF u = t THEN "decode" ELSE pc[u]
    BY <2>1 DEF IInv, TypeOK
  <2>5. Control'
    BY <1>1, <2>1, <2>4 DEF IInv, Control, Reading, Closing, Dropping, Lookup
  <2>6. TypeOK'
    BY <2>1 DEF IInv, TypeOK
  <2> QED
    BY <2>2, <2>3, <2>5, <2>6 DEF IInv
<1>3. ASSUME NEW s \in Holding(want[t].key, want[t].pool),
             Take(t, want[t].pool, s, want[t].key, ListOf(want[t].pool)),
             pc' = [pc EXCEPT ![t] = "idle"]
      PROVE  IInv'
  <2>1. UNCHANGED <<open, counted, freed, keys, then, want, hold>>
    BY DEF Find
  <2> QED
    BY <1>1, <1>3, <2>1, HitStep
<1> QED
  BY <1>2, <1>3 DEF Find

LEMMA DecodeStep ==
  ASSUME CacheAssumption, IInv, NEW t \in Threads, Decode(t)
  PROVE  IInv'
<1>1. Pins' /\ Lists' /\ KeysKept' /\ OneSlotPerBlock'
  BY PoolFrame DEF Decode
<1>2. Refs' /\ FreedWhenUnused'
  BY UsersFrame, RefFrame DEF Decode, volVars
<1>3. /\ pc[t] = "decode" /\ pc'[t] \in {"publish", "idle"}
      /\ \A u \in Threads : u # t => pc'[u] = pc[u]
      /\ UNCHANGED <<open, counted, lease, hold, want, then>>
  BY DEF Decode, IInv, TypeOK, volVars
<1>4. Control'
  BY <1>3 DEF IInv, Control, Reading, Closing, Dropping, Lookup
<1>5. TypeOK'
  BY DEF Decode, IInv, TypeOK, volVars, poolVars
<1> QED
  BY <1>1, <1>2, <1>4, <1>5 DEF IInv

LEMMA PublishStep ==
  ASSUME CacheAssumption, IInv, NEW t \in Threads, Publish(t)
  PROVE  IInv'
<1>1. /\ pc[t] = "publish" /\ pc[t] \in Lookup /\ pc' = [pc EXCEPT ![t] = "idle"]
      /\ UNCHANGED <<open, counted, freed, then, want, hold>>
  BY DEF Publish, Lookup
<1>2. ASSUME NEW s \in Holding(want[t].key, want[t].pool),
             Take(t, want[t].pool, s, want[t].key, ListOf(want[t].pool)), UNCHANGED keys
      PROVE  IInv'
  BY <1>1, <1>2, HitStep
<1>3. ASSUME NEW p, NEW k, p = want[t].pool, k = want[t].key,
             Holding(k, p) = {}, head[p] # Nil,
             keys' = [keys EXCEPT ![p][head[p]] = k],
             Take(t, p, head[p], k, Appended(Unlinked(ListOf(p), head[p]), head[p]))
      PROVE  IInv'
  BY <1>1, <1>3, EvictStep
<1>4. CASE UNCHANGED <<keys, pin, prev, next, head, tail, refs, lease>>
  <2>1. Pins' /\ Lists' /\ KeysKept' /\ OneSlotPerBlock'
    BY <1>4, PoolFrame DEF poolVars
  <2>2. Refs' /\ FreedWhenUnused'
    BY <1>1, <1>4, UsersFrame, RefFrame
  <2>3. Control' /\ pc' \in [Threads -> {"idle", "find", "decode", "publish", "unpin", "unref",
                                         "close", "gone"}]
    BY <1>1, <1>4, TakeKeepsControl
  <2>4. TypeOK'
    BY <1>1, <1>4, <2>3 DEF IInv, TypeOK
  <2> QED
    BY <2>1, <2>2, <2>3, <2>4 DEF IInv
<1> QED
  BY <1>2, <1>3, <1>4 DEF Publish

LEMMA InsertStep ==
  ASSUME CacheAssumption, IInv, NEW p \in Pools, NEW k \in Keys, Insert(p, k)
  PROVE  IInv'
<1>0. head[p] # Nil /\ Holding(k, p) = {} /\ keys' = [keys EXCEPT ![p][head[p]] = k]
  BY DEF Insert
<1>1. UNCHANGED <<volVars, pin, threadVars>>
  BY DEF Insert
<1>2. /\ keys' \in [Pools -> [Slots -> Keys \cup {None}]]
      /\ \A q \in Pools, r \in Slots : ~(q = p /\ r = head[p]) => keys'[q][r] = keys[q][r]
      /\ OneSlotPerBlock'
  <2>1. p \in Pools /\ k \in Keys
    OBVIOUS
  <2> QED
    BY ONLY <1>0, <2>1, CacheAssumption, IInv, EvictKeepsKeys, ZenonT(60)
<1>3. \A u \in Threads : ~(lease[u].pool = p /\ lease[u].slot = head[p])
  BY <1>0, HeadIdle
<1>4. KeysKept'
  <2>1. TypeOK
    BY DEF IInv
  <2> QED
    BY <1>1, <1>2, <1>3, <2>1, LeaseType DEF IInv, KeysKept, threadVars
<1> DEFINE l == Appended(Unlinked(ListOf(p), head[p]), head[p])
<1>5. l \in ListType /\ WellLinked(l, Idle(p))
  <2>1. ListOf(p).head = head[p] /\ Idle(p) \in SUBSET Slots
    BY DEF ListOf, Idle
  <2>2. ListOf(p) \in ListType /\ WellLinked(ListOf(p), Idle(p))
    BY ListOfType DEF IInv, Lists
  <2> QED
    BY <1>0, <2>1, <2>2, RotateLinked
<1>6. SetList(p, l)
  BY DEF Insert
<1> HIDE DEF l
<1>7. /\ ListOf(p)' = l
      /\ \A q \in Pools : q # p => ListOf(q)' = ListOf(q)
      /\ prev' \in [Pools -> [Slots -> Slots \cup {Nil}]]
      /\ next' \in [Pools -> [Slots -> Slots \cup {Nil}]]
      /\ head' \in [Pools -> Slots \cup {Nil}]
      /\ tail' \in [Pools -> Slots \cup {Nil}]
  BY <1>5, <1>6, SetListOf DEF IInv
<1>8. Lists'
  <2>1. \A q \in Pools : Idle(q)' = Idle(q)
    BY <1>1 DEF Idle
  <2> QED
    BY <1>5, <1>7, <2>1 DEF IInv, Lists, WellLinked
<1>9. Pins'
  BY <1>1 DEF IInv, Pins, Lessees, threadVars
<1>10. Refs' /\ FreedWhenUnused'
  BY <1>1, UsersFrame, RefFrame DEF volVars, threadVars
<1>11. Control'
  BY <1>1 DEF IInv, Control, Reading, Closing, Dropping, volVars, threadVars
<1>12. TypeOK'
  BY <1>1, <1>2, <1>7 DEF IInv, TypeOK, volVars, threadVars
<1> QED
  BY <1>2, <1>4, <1>8, <1>9, <1>10, <1>11, <1>12 DEF IInv

LEMMA ReleaseStep ==
  ASSUME CacheAssumption, IInv, NEW t \in Threads, Release(t) \/ Exit(t)
  PROVE  IInv'
<1>1. UNCHANGED <<volVars, poolVars, want, lease, hold>>
  BY DEF Release, Exit
<1>2. Pins' /\ Lists' /\ KeysKept' /\ OneSlotPerBlock'
  BY <1>1, PoolFrame
<1>3. Refs' /\ FreedWhenUnused'
  BY <1>1, UsersFrame, RefFrame DEF volVars
<1>4. lease[t].pool \in open => lease[t].pool # None
  BY DEF IInv, TypeOK, CacheAssumption
<1>5. /\ pc[t] = "idle" /\ pc'[t] \in {"unpin", "gone"} /\ then'[t] \in {"idle", "gone"}
      /\ pc'[t] = "unpin" => lease[t].pool # None
      /\ \A u \in Threads : u # t => pc'[u] = pc[u] /\ then'[u] = then[u]
  BY <1>4 DEF Release, Exit, IInv, TypeOK
<1>6. Control'
  BY <1>1, <1>5 DEF IInv, Control, Reading, Closing, Dropping, Lookup, volVars
<1>7. TypeOK'
  BY <1>1 DEF Release, Exit, IInv, TypeOK, volVars, poolVars
<1> QED
  BY <1>2, <1>3, <1>6, <1>7 DEF IInv

LEMMA CloseStep ==
  ASSUME CacheAssumption, IInv, NEW t \in Threads, NEW p \in Pools, Close(t, p)
  PROVE  IInv'
<1>1. Pins' /\ Lists' /\ KeysKept' /\ OneSlotPerBlock'
  BY PoolFrame DEF Close
<1>2. Refs' /\ FreedWhenUnused'
  BY UsersFrame, RefFrame DEF Close
<1>3. /\ pc[t] = "idle" /\ p \in open /\ open' = open \ {p}
      /\ \A u \in Threads : want[u].pool = p => pc[u] \in {"idle", "gone"}
      /\ \A u \in Threads : want'[u] = IF u = t THEN [pool |-> p, key |-> None] ELSE want[u]
      /\ \A u \in Threads : u # t => pc'[u] = pc[u] /\ then'[u] = then[u]
      /\ pc'[t] \in {"unpin", "close"} /\ then'[t] = "close"
      /\ pc'[t] = "unpin" => lease[t].pool = p
      /\ UNCHANGED <<counted, lease, hold>>
  BY DEF Close, IInv, TypeOK
<1>4. p # None
  BY DEF CacheAssumption
<1>5. Control'
  BY <1>3, <1>4 DEF IInv, Control, Reading, Closing, Dropping, Lookup
<1>6. TypeOK'
  BY DEF Close, IInv, TypeOK, poolVars
<1> QED
  BY <1>1, <1>2, <1>5, <1>6 DEF IInv

LEMMA UnpinStep ==
  ASSUME CacheAssumption, IInv, NEW t \in Threads, Unpin(t)
  PROVE  IInv'
<1>0. pc[t] = "unpin" /\ lease[t].pool \in Pools /\ lease[t].slot \in Slots
  BY LeaseType DEF IInv, Control, Unpin
<1>3. PICK p \in Pools : p = lease[t].pool
  BY <1>0
<1>20. PICK m \in Slots : m = lease[t].slot
  BY <1>0
<1> DEFINE l == ListAfterUnpin(pin[p], ListOf(p), m)
<1>1. /\ pc[t] = "unpin"
      /\ SetList(p, l)
      /\ pin' = [pin EXCEPT ![p] = PinsWithout(pin[p], m)]
      /\ hold' = [hold EXCEPT ![t] = p] /\ lease' = [lease EXCEPT ![t] = NoLease]
      /\ pc' = [pc EXCEPT ![t] = "unref"]
  BY <1>3, <1>20 DEF Unpin
<1>2. UNCHANGED <<open, counted, refs, freed, keys, then, want>>
  BY DEF Unpin, volVars
<1>4. t \in Lessees(p, m) /\ Lessees(p, m) \in SUBSET Threads
  BY <1>3, <1>20 DEF Lessees
<1>5. pin[p] \in [Slots -> Nat] /\ pin[p][m] = Cardinality(Lessees(p, m))
  BY <1>3 DEF IInv, TypeOK, Pins
<1>6. pin[p][m] > 0 /\ Cardinality(Lessees(p, m) \ {t}) = pin[p][m] - 1
  BY <1>4, <1>5, CountRemove
<1>7. /\ PinsWithout(pin[p], m) \in [Slots -> Nat]
      /\ l \in ListType
      /\ WellLinked(l, {r \in Slots : PinsWithout(pin[p], m)[r] = 0})
  <2>1. ListOf(p) \in ListType /\ WellLinked(ListOf(p), {r \in Slots : pin[p][r] = 0})
    BY <1>3, ListOfType DEF IInv, Lists, Idle
  <2> QED
    BY <1>3, <1>5, <1>6, <2>1, UnpinLinked
<1>8. /\ \A u \in Threads : lease'[u] = IF u = t THEN NoLease ELSE lease[u]
      /\ \A u \in Threads : hold'[u] = IF u = t THEN p ELSE hold[u]
      /\ \A u \in Threads : pc'[u] = IF u = t THEN "unref" ELSE pc[u]
      /\ lease' \in [Threads -> [pool : Pools, slot : Slots, key : Keys] \cup {NoLease}]
      /\ hold' \in [Threads -> Pools \cup {None}]
  BY <1>1, <1>3 DEF IInv, TypeOK
<1>9. NoLease.pool = None
  BY DEF NoLease
<1>10. hold[t] = None
  BY <1>1 DEF IInv, Control
<1> HIDE DEF l
<1>11. /\ pin' \in [Pools -> [Slots -> Nat]]
       /\ pin'[p] = PinsWithout(pin[p], m)
       /\ \A q \in Pools : q # p => pin'[q] = pin[q]
  BY <1>1, <1>3, <1>7 DEF IInv, TypeOK
<1>12. /\ ListOf(p)' = l
       /\ \A q \in Pools : q # p => ListOf(q)' = ListOf(q)
       /\ prev' \in [Pools -> [Slots -> Slots \cup {Nil}]]
       /\ next' \in [Pools -> [Slots -> Slots \cup {Nil}]]
       /\ head' \in [Pools -> Slots \cup {Nil}]
       /\ tail' \in [Pools -> Slots \cup {Nil}]
  <2>1. TypeOK /\ p \in Pools /\ l \in ListType /\ SetList(p, l)
    BY <1>1, <1>7 DEF IInv
  <2> QED
    BY ONLY <2>1, CacheAssumption, SetListOf
<1>13. Lists'
  <2> SUFFICES ASSUME NEW q \in Pools
               PROVE  WellLinked(ListOf(q), Idle(q))'
    BY DEF Lists
  <2>1. CASE q = p
    <3>1. Idle(q)' = {r \in Slots : PinsWithout(pin[p], m)[r] = 0}
      BY <1>11, <2>1 DEF Idle
    <3>2. ListOf(q)' = l
      BY <1>12, <2>1
    <3> QED
      BY <1>7, <3>1, <3>2 DEF WellLinked
  <2>2. CASE q # p
    <3>1. Idle(q)' = Idle(q)
      BY <1>11, <2>2 DEF Idle
    <3> QED
      BY <1>12, <2>2, <3>1 DEF WellLinked, IInv, Lists
  <2> QED
    BY <2>1, <2>2
<1>14. Pins'
  <2> SUFFICES ASSUME NEW q \in Pools, NEW r \in Slots
               PROVE  pin'[q][r] = Cardinality(Lessees(q, r)')
    BY DEF Pins
  <2>1. pin[q][r] = Cardinality(Lessees(q, r))
    BY DEF IInv, Pins
  <2>2. CASE q = p /\ r = m
    <3>0. q # None
      BY DEF CacheAssumption
    <3>1. Lessees(q, r)' = Lessees(q, r) \ {t}
      BY <1>8, <1>9, <3>0 DEF Lessees
    <3>2. pin'[q][r] = pin[p][m] - 1
      BY <1>5, <1>11, <2>2 DEF PinsWithout
    <3> QED
      BY <1>6, <2>2, <3>1, <3>2
  <2>3. CASE ~(q = p /\ r = m)
    <3>1. q # None
      BY DEF CacheAssumption
    <3>2. Lessees(q, r)' = Lessees(q, r)
      BY <1>3, <1>8, <1>9, <1>20, <2>3, <3>1 DEF Lessees
    <3>3. pin'[q][r] = pin[q][r]
      BY <1>5, <1>11, <2>3 DEF PinsWithout
    <3> QED
      BY <2>1, <3>2, <3>3
  <2> QED
    BY <2>2, <2>3
<1>15. KeysKept'
  BY <1>2, <1>8, <1>9 DEF IInv, KeysKept
<1>16. OneSlotPerBlock'
  BY <1>2 DEF IInv, OneSlotPerBlock
<1>17. Refs' /\ FreedWhenUnused'
  <2>1. \A q \in Pools : q # None
    BY DEF CacheAssumption
  <2>2. \A q \in Pools : Users(q)' = Users(q)
    BY <1>3, <1>8, <1>9, <1>10, <2>1 DEF Users
  <2> QED
    BY <1>2, <2>2, RefFrame
<1>18. Control'
  BY <1>1, <1>2, <1>3, <1>8 DEF IInv, Control, Reading, Closing, Dropping, Lookup
<1>19. TypeOK'
  BY <1>1, <1>2, <1>8, <1>11, <1>12 DEF IInv, TypeOK
<1> QED
  BY <1>13, <1>14, <1>15, <1>16, <1>17, <1>18, <1>19 DEF IInv

\* The last reference, and no other, frees the pool: the thread that drops one
\* leaves the pool either its user or its volume.
LEMMA UnrefCounts ==
  ASSUME CacheAssumption, IInv, NEW p \in Pools, Unref(p), p \notin freed,
         refs[p] > 0, refs[p] - 1 = Cardinality(Users(p)') + Volume(p)',
         \A q \in Pools : q # p => Users(q)' = Users(q) /\ (q \in counted' <=> q \in counted)
  PROVE  refs' \in [Pools -> Nat] /\ freed' \subseteq Pools /\ Refs' /\ FreedWhenUnused'
<1>1. /\ refs \in [Pools -> Nat]
      /\ \A q \in Pools : refs'[q] = IF q = p THEN refs[p] - 1 ELSE refs[q]
      /\ refs' \in [Pools -> Nat]
      /\ freed' = IF refs[p] = 1 THEN freed \cup {p} ELSE freed
      /\ freed' \subseteq Pools
  BY DEF Unref, IInv, TypeOK
<1>2. Refs'
  <2> SUFFICES ASSUME NEW q \in Pools
               PROVE  refs'[q] = Cardinality(Users(q)') + Volume(q)'
    BY DEF Refs
  <2>1. CASE q = p
    BY <1>1, <2>1
  <2>2. CASE q # p
    <3>1. Volume(q)' = Volume(q) /\ Users(q)' = Users(q)
      BY <2>2 DEF Volume
    <3> QED
      BY <1>1, <2>2, <3>1 DEF IInv, Refs
  <2> QED
    BY <2>1, <2>2
<1>3. Users(p)' \in SUBSET Threads
  BY DEF Users
<1> DEFINE U == Users(p)'
<1>4. IsFiniteSet(U) /\ Cardinality(U) \in Nat
  <2> HIDE DEF U
  <2> QED
    BY <1>3, CountType DEF U
<1>5. Cardinality(U) = 0 <=> U = {}
  <2> HIDE DEF U
  <2> QED
    BY <1>4, FS_EmptySet
<1>6. refs[p] = 1 <=> Users(p)' = {} /\ p \notin counted'
  BY <1>1, <1>4, <1>5 DEF Volume
<1>7. FreedWhenUnused'
  <2> SUFFICES ASSUME NEW q \in Pools
               PROVE  q \in freed' <=> q \notin counted' /\ Users(q)' = {}
    BY DEF FreedWhenUnused
  <2>1. CASE q = p
    BY <1>1, <1>6, <2>1
  <2>2. CASE q # p
    BY <1>1, <2>2 DEF IInv, FreedWhenUnused
  <2> QED
    BY <2>1, <2>2
<1> QED
  BY <1>1, <1>2, <1>7

LEMMA DropRefStep ==
  ASSUME CacheAssumption, IInv, NEW t \in Threads, DropRef(t)
  PROVE  IInv'
<1>1. /\ pc[t] = "unref" /\ Unref(hold[t])
      /\ hold' = [hold EXCEPT ![t] = None] /\ pc' = [pc EXCEPT ![t] = then[t]]
  BY DEF DropRef
<1>2. UNCHANGED <<open, counted, then, want, lease>> /\ UNCHANGED poolVars
  BY DEF DropRef
<1>3. PICK p \in Pools : p = hold[t]
  BY <1>1 DEF IInv, Control
<1>4. lease[t].pool = None
  BY <1>1 DEF IInv, Control, NoLease
<1>5. /\ \A u \in Threads : hold'[u] = IF u = t THEN None ELSE hold[u]
      /\ \A u \in Threads : pc'[u] = IF u = t THEN then[t] ELSE pc[u]
      /\ hold' \in [Threads -> Pools \cup {None}]
  BY <1>1 DEF IInv, TypeOK
<1>6. \A q \in Pools : q # None
  BY DEF CacheAssumption
<1>7. Users(p)' = Users(p) \ {t} /\ t \in Users(p)
  BY <1>2, <1>3, <1>4, <1>5, <1>6 DEF Users
<1>8. \A q \in Pools : q # p => Users(q)' = Users(q)
  BY <1>2, <1>3, <1>4, <1>5, <1>6 DEF Users
<1>9. Users(p) \in SUBSET Threads
  BY DEF Users
<1>10. Cardinality(Users(p)) > 0 /\ Cardinality(Users(p)') = Cardinality(Users(p)) - 1
  BY <1>7, <1>9, CountRemove
<1>11. Cardinality(Users(p)) \in Nat
  BY <1>9, CountType
<1>12. refs[p] = Cardinality(Users(p)) + Volume(p)
  BY DEF IInv, Refs
<1>13. Volume(p)' = Volume(p) /\ Volume(p) \in Nat
  BY <1>2 DEF Volume
<1>14. refs[p] > 0 /\ refs[p] - 1 = Cardinality(Users(p)') + Volume(p)'
  BY <1>10, <1>11, <1>12, <1>13
<1>15. p \notin freed
  BY <1>7 DEF IInv, FreedWhenUnused
<1>16. Unref(p)
  BY <1>1, <1>3
<1>17. refs' \in [Pools -> Nat] /\ freed' \subseteq Pools /\ Refs' /\ FreedWhenUnused'
  BY <1>2, <1>8, <1>14, <1>15, <1>16, UnrefCounts
<1>18. Pins' /\ Lists' /\ KeysKept' /\ OneSlotPerBlock'
  BY <1>2, PoolFrame
<1>19. Control'
  <2>1. then[t] \in {"idle", "find", "close", "gone"}
    BY DEF IInv, TypeOK
  <2> QED
    BY <1>1, <1>2, <1>4, <1>5, <2>1 DEF IInv, Control, Reading, Closing, Dropping, Lookup
<1>20. TypeOK'
  BY <1>1, <1>2, <1>5, <1>17 DEF IInv, TypeOK, poolVars
<1> QED
  BY <1>17, <1>18, <1>19, <1>20 DEF IInv

LEMMA CloseRefStep ==
  ASSUME CacheAssumption, IInv, NEW t \in Threads, CloseRef(t)
  PROVE  IInv'
<1>1. /\ pc[t] = "close" /\ Unref(want[t].pool) /\ counted' = counted \ {want[t].pool}
      /\ pc' = [pc EXCEPT ![t] = "idle"]
  BY DEF CloseRef
<1>2. UNCHANGED <<open, then, want, lease, hold>> /\ UNCHANGED poolVars
  BY DEF CloseRef
<1>3. want[t].pool \in counted \ open
  BY <1>1 DEF IInv, Control, Closing
<1>4. PICK p \in Pools : p = want[t].pool
  BY <1>3 DEF IInv, TypeOK
<1>5. \A u \in Threads : pc'[u] = IF u = t THEN "idle" ELSE pc[u]
  BY <1>1 DEF IInv, TypeOK
<1>6. \A q \in Pools : Users(q)' = Users(q)
  BY <1>2 DEF Users
<1>7. Volume(p) = 1 /\ Volume(p)' = 0
  BY <1>1, <1>3, <1>4 DEF Volume
<1>8. refs[p] = Cardinality(Users(p)) + Volume(p) /\ Cardinality(Users(p)) \in Nat
  BY CountType DEF IInv, Refs, Users
<1>9. refs[p] > 0 /\ refs[p] - 1 = Cardinality(Users(p)') + Volume(p)'
  BY <1>6, <1>7, <1>8
<1>10. p \notin freed
  BY <1>3, <1>4 DEF IInv, FreedWhenUnused
<1>11. Unref(p) /\ counted' = counted \ {p}
  BY <1>1, <1>4
<1>12. refs' \in [Pools -> Nat] /\ freed' \subseteq Pools /\ Refs' /\ FreedWhenUnused'
  BY <1>6, <1>9, <1>10, <1>11, UnrefCounts
<1>13. Pins' /\ Lists' /\ KeysKept' /\ OneSlotPerBlock'
  BY <1>2, PoolFrame
<1>14. Control'
  BY <1>1, <1>2, <1>3, <1>5 DEF IInv, Control, Reading, Closing, Dropping, Lookup
<1>15. TypeOK'
  BY <1>1, <1>2, <1>12 DEF IInv, TypeOK, poolVars
<1> QED
  BY <1>12, <1>13, <1>14, <1>15 DEF IInv

LEMMA StutterStep ==
  ASSUME IInv, UNCHANGED vars
  PROVE  IInv'
<1>1. UNCHANGED <<poolVars, lease>> /\ UNCHANGED <<counted, refs, freed>> /\ UNCHANGED <<lease, hold>>
      /\ UNCHANGED <<open, pc, then, want>>
  BY DEF vars, volVars, threadVars
<1>2. Pins' /\ Lists' /\ KeysKept' /\ OneSlotPerBlock'
  BY <1>1, PoolFrame
<1>3. Refs' /\ FreedWhenUnused'
  BY <1>1, UsersFrame, RefFrame
<1>4. Control'
  BY <1>1 DEF IInv, Control, Reading, Closing, Dropping
<1>5. TypeOK'
  BY <1>1 DEF IInv, TypeOK, poolVars
<1> QED
  BY <1>2, <1>3, <1>4, <1>5 DEF IInv

\* Every step of every thread keeps the invariant.
THEOREM StepInv == ASSUME CacheAssumption, IInv, [Next]_vars PROVE IInv'
<1>1. ASSUME NEW t \in Threads, Step(t)
      PROVE  IInv'
  <2>1. ASSUME NEW p \in Pools, NEW k \in Keys, Read(t, p, k)
        PROVE  IInv'
    BY <2>1, ReadStep
  <2>2. ASSUME NEW p \in Pools, Close(t, p)
        PROVE  IInv'
    BY <2>2, CloseStep
  <2>3. CASE Find(t)
    BY <2>3, FindStep
  <2>4. CASE Decode(t)
    BY <2>4, DecodeStep
  <2>5. CASE Publish(t)
    BY <2>5, PublishStep
  <2>6. CASE Release(t) \/ Exit(t)
    BY <2>6, ReleaseStep
  <2>7. CASE Unpin(t)
    BY <2>7, UnpinStep
  <2>8. CASE DropRef(t)
    BY <2>8, DropRefStep
  <2>9. CASE CloseRef(t)
    BY <2>9, CloseRefStep
  <2> QED
    BY <1>1, <2>1, <2>2, <2>3, <2>4, <2>5, <2>6, <2>7, <2>8, <2>9 DEF Step
<1>2. ASSUME NEW p \in Pools, NEW k \in Keys, Insert(p, k)
      PROVE  IInv'
  BY <1>2, InsertStep
<1>3. CASE UNCHANGED vars
  BY <1>3, StutterStep
<1> QED
  BY <1>1, <1>2, <1>3 DEF Next

-----------------------------------------------------------------------------
\* IInv is an invariant of the pools.
THEOREM InvHolds == ASSUME CacheAssumption PROVE Spec => []IInv
<1>1. Init => IInv
  BY InitInv
<1>2. IInv /\ [Next]_vars => IInv'
  BY StepInv
<1> QED
  BY <1>1, <1>2, PTL DEF Spec

\* The pointer cv_brick returned stays valid: the leased slot keeps its block
\* and its pool is not freed.
THEOREM LeaseKept == ASSUME CacheAssumption PROVE Spec => []LeaseKeepsBlock
<1>1. IInv => LeaseKeepsBlock
  <2> SUFFICES ASSUME IInv, NEW t \in Threads, lease[t].pool # None
               PROVE  /\ lease[t].pool \notin freed
                      /\ keys[lease[t].pool][lease[t].slot] = lease[t].key
    BY DEF LeaseKeepsBlock
  <2>1. PICK p \in Pools : p = lease[t].pool
    BY LeaseType DEF IInv
  <2>2. t \in Users(p)
    BY <2>1 DEF Users
  <2>3. p \notin freed
    BY <2>2 DEF IInv, FreedWhenUnused
  <2> QED
    BY <2>1, <2>3 DEF IInv, KeysKept
<1> QED
  BY <1>1, InvHolds, PTL

\* No step of a thread touches a pool that is gone: the volume a lookup reads
\* is open, and the pool a lease is dropped from still counts the thread.
THEOREM NoTouchOfFreed == ASSUME CacheAssumption PROVE Spec => []NoUseAfterFree
<1>1. IInv => NoUseAfterFree
  <2> SUFFICES ASSUME IInv, NEW t \in Threads
               PROVE  /\ pc[t] \in {"find", "decode", "publish"} => want[t].pool \notin freed
                      /\ pc[t] = "unpin" => lease[t].pool \notin freed
                      /\ pc[t] = "unref" => hold[t] \notin freed
    BY DEF NoUseAfterFree
  <2>1. pc[t] \in {"find", "decode", "publish"} => want[t].pool \notin freed
    BY ReaderFacts DEF Lookup
  <2>2. ASSUME NEW p \in Pools, t \in Users(p)
        PROVE  p \notin freed
    BY <2>2 DEF IInv, FreedWhenUnused
  <2>3. pc[t] = "unpin" => lease[t].pool \in Pools
    BY LeaseType DEF IInv, Control
  <2>4. pc[t] = "unref" => hold[t] \in Pools
    BY DEF IInv, Control
  <2> QED
    BY <2>1, <2>2, <2>3, <2>4 DEF Users
<1> QED
  BY <1>1, InvHolds, PTL

\* A pool is freed exactly when its volume is closed and nobody leases it.
THEOREM FreedExactly == ASSUME CacheAssumption PROVE Spec => []FreedWhenUnused
<1>1. IInv => FreedWhenUnused
  BY DEF IInv
<1> QED
  BY <1>1, InvHolds, PTL

\* A block never has two slots: cvc_publish looks again under the mutex.
THEOREM BlockOnce == ASSUME CacheAssumption PROVE Spec => []OneSlotPerBlock
<1>1. IInv => OneSlotPerBlock
  BY DEF IInv
<1> QED
  BY <1>1, InvHolds, PTL

\* The list stands in an order of exactly the slots that nobody leases: no leased
\* slot is evicted and no slot is lost, whatever threads insert, lease and drop.
THEOREM ListOrder == ASSUME CacheAssumption PROVE Spec => []ListIsUnpinned
<1>1. ASSUME IInv, NEW p \in Pools
      PROVE  Ordered(ListOf(p), Unpinned(p))
  <2>1. ASSUME NEW s \in Slots
        PROVE  pin[p][s] = 0 <=> Lessees(p, s) = {}
    <3>1. IsFiniteSet(Lessees(p, s))
      BY CountType DEF Lessees
    <3>2. Cardinality(Lessees(p, s)) = 0 <=> Lessees(p, s) = {}
      BY <3>1, FS_EmptySet
    <3> QED
      BY <1>1, <3>2 DEF IInv, Pins
  <2>2. Unpinned(p) = Idle(p)
    BY <2>1 DEF Unpinned, Idle, Lessees
  <2> QED
    BY <1>1, <2>2 DEF IInv, Lists, WellLinked
<1>2. IInv => ListIsUnpinned
  BY <1>1 DEF IInv, ListIsUnpinned
<1> QED
  BY <1>2, InvHolds, PTL
=============================================================================
