-------------------------- MODULE PageTableProofs --------------------------
(***************************************************************************)
(* The page table is correct for any capacity, any hash function, any      *)
(* number of slots and blocks and any length of the dirty queue: the       *)
(* device copy follows the shadow, every entry is found, neither map fills *)
(* up, and remembered air is shown.                                        *)
(***************************************************************************)
EXTENDS PageTable, FiniteSetTheorems, TLAPS

\* The bucket whose entry a deletion has moved away, or is about to remove,
\* still holds a key; the other occupied buckets are live.
Live(i) == key[i] # None /\ ~(del # NoDelete /\ i = del.hole)
Occupied == {i \in Buckets : key[i] # None}

Types ==
  /\ key \in [Buckets -> Keys \cup {None}]
  /\ val \in [Buckets -> Slots \cup {Zero, Invalid}]
  /\ del \in [key : Keys \cup {None}, hole : Buckets, at : Buckets, start : Buckets]
  /\ todo \in [key : Keys \cup {None}, val : Slots \cup {Zero, Invalid}]
  /\ slotOf \in [Keys -> Slots \cup {None}]
  /\ known \in [Keys -> {"none", "air", "solid"}]
  /\ dirty \subseteq Buckets /\ ndirty \in 0..DirtyCap /\ all \in BOOLEAN
  /\ gpu \in [Buckets -> Entries]

Unique ==
  \A i, j \in Buckets : Live(i) /\ Live(j) /\ key[i] = key[j] => i = j

\* A probe for the key of a live entry meets no empty bucket before it.
Reached ==
  \A i \in Buckets : Live(i) => \A b \in Path(key[i], i) : key[b] # None

\* A deletion has passed occupied buckets only, and no live entry among them
\* is reached through the hole.
Deletion ==
  del # NoDelete =>
    /\ del.key \in Keys /\ del.at # del.start
    /\ Dist(del.start, del.hole) < Dist(del.start, del.at)
    /\ \A b \in Buckets : Dist(del.start, b) < Dist(del.start, del.at) => key[b] # None
    /\ \A i \in Buckets : Live(i) => key[i] # del.key
    /\ \A i \in Buckets : Live(i) /\ del.hole \in Path(key[i], i) =>
         Dist(del.start, i) >= Dist(del.start, del.at)

Room ==
  /\ count = Cardinality(Occupied)
  /\ count <= Cap \div 2
  /\ todo # NoTodo /\ del = NoDelete => count < Cap \div 2

Waiting ==
  todo # NoTodo =>
    /\ todo.key \in Keys
    /\ todo.val \in Slots \cup {Zero}
    /\ todo.val \in Slots => slotOf[todo.key] = todo.val
    /\ \A i \in Buckets : Live(i) => key[i] # todo.key

\* A live entry is air or the slot of its block.
Values ==
  \A i \in Buckets : Live(i) =>
    val[i] \in Slots \cup {Zero} /\ (val[i] \in Slots => slotOf[key[i]] = val[i])

Residency ==
  /\ \A x, y \in Keys : slotOf[x] # None /\ slotOf[x] = slotOf[y] => x = y
  /\ \A x \in Keys : slotOf[x] # None => known[x] = "solid"
  /\ Cardinality(Remembered) <= (Cap * 3) \div 4

AirIsEntered ==
  \A x \in Keys : known[x] = "air" =>
    \/ \E i \in Buckets : Live(i) /\ key[i] = x /\ val[i] = Zero
    \/ todo # NoTodo /\ (todo = [key |-> x, val |-> Zero] \/ del.key = x)

Table == Unique /\ Reached /\ Deletion /\ Room
State == Waiting /\ Values /\ Residency /\ AirIsEntered
IInv == Types /\ Table /\ State /\ DeviceFollows

-----------------------------------------------------------------------------
(* Distances on the ring of buckets. *)

\* The limits in numbers: half of the table is more than the slots need.
LEMMA Capacity ==
  /\ Cap \in Nat /\ Cap >= 4 /\ Cap \div 2 \in Nat /\ Cap \div 2 < Cap
  /\ (Cap * 3) \div 4 \in Nat
  /\ \A n \in Nat : 4 * n <= Cap => n < Cap \div 2 /\ n < (Cap * 3) \div 4
BY TableAssumption

\* Distances are below the capacity, and zero only at the start.
LEMMA DistRange ==
  ASSUME NEW a \in Buckets, NEW b \in Buckets
  PROVE  Dist(a, b) \in 0..(Cap - 1) /\ (Dist(a, b) = 0 <=> a = b)
BY Capacity DEF Buckets, Dist

\* A bucket is determined by its distance.
LEMMA DistUnique ==
  ASSUME NEW a \in Buckets, NEW b \in Buckets, NEW c \in Buckets, Dist(a, b) = Dist(a, c)
  PROVE  b = c
BY Capacity DEF Buckets, Dist

\* The next bucket is one step further, unless the ring is closed.
LEMMA SuccFurther ==
  ASSUME NEW a \in Buckets, NEW b \in Buckets
  PROVE  Succ(b) \in Buckets /\ (Succ(b) # a => Dist(a, Succ(b)) = Dist(a, b) + 1)
BY Capacity DEF Buckets, Dist, Succ

\* Only the last bucket of the ring is followed by the first.
LEMMA SuccCloses ==
  ASSUME NEW a \in Buckets, NEW b \in Buckets, Succ(b) = a
  PROVE  Dist(a, b) = Cap - 1
BY Capacity DEF Buckets, Dist, Succ

\* The comparison of br_map_delete: the hole lies on the way from home m to a
\* exactly when the entry of a may move up into it.
LEMMA MovesMeans ==
  ASSUME NEW m \in Buckets, NEW h \in Buckets, NEW a \in Buckets, h # a
  PROVE  Dist(m, h) < Dist(m, a) <=> Dist(m, a) >= Dist(h, a)
BY Capacity DEF Buckets, Dist

\* A way that leads through h and ends beyond a leads through a.
LEMMA BeyondPasses ==
  ASSUME NEW m \in Buckets, NEW s \in Buckets, NEW h \in Buckets, NEW a \in Buckets,
         NEW i \in Buckets,
         Dist(s, h) < Dist(s, a), Dist(s, a) < Dist(s, i), Dist(m, h) < Dist(m, i)
  PROVE  Dist(m, a) < Dist(m, i)
BY Capacity DEF Buckets, Dist

\* A way that leads through a and ends before it goes around the ring.
LEMMA BeforePasses ==
  ASSUME NEW m \in Buckets, NEW s \in Buckets, NEW a \in Buckets, NEW i \in Buckets,
         NEW e \in Buckets,
         Dist(s, i) < Dist(s, a), Dist(s, a) < Dist(s, e), Dist(m, a) < Dist(m, i)
  PROVE  Dist(m, e) < Dist(m, i)
BY Capacity DEF Buckets, Dist

\* The occupied buckets are finite in number, and there are fewer than buckets.
LEMMA OccupiedFinite == IsFiniteSet(Occupied) /\ Cardinality(Occupied) \in Nat
<1>1. IsFiniteSet(Buckets)
  BY FS_Interval, Capacity DEF Buckets
<1>2. IsFiniteSet(Occupied)
  BY <1>1, FS_Subset, Zenon DEF Occupied
<1> QED BY <1>2, FS_CardinalityType

\* A table with room has an empty bucket, at which every probe ends.
LEMMA EmptyBucket ==
  ASSUME Room
  PROVE  \E e \in Buckets : key[e] = None
<1>1. Cardinality(Buckets) = Cap
  BY FS_Interval, Capacity DEF Buckets
<1>2. Cardinality(Occupied) # Cap
  BY OccupiedFinite, Capacity DEF Room
<1>3. Occupied # Buckets
  BY <1>1, <1>2
<1> QED BY <1>3 DEF Occupied

\* What is on a path.
LEMMA OnPath ==
  ASSUME NEW k \in Keys, NEW i \in Buckets, NEW b
  PROVE  b \in Path(k, i) <=> b \in Buckets /\ Dist(Home[k], b) < Dist(Home[k], i)
BY DEF Path

-----------------------------------------------------------------------------
(* The operations on the table. *)

\* A deletion can begin at any entry.
LEMMA StartKeepsTable ==
  ASSUME Types, Table, Idle, NEW i \in Buckets, key[i] # None, NEW then,
         StartDelete(i, then), UNCHANGED tableVars
  PROVE  Table' /\ del' # NoDelete /\ (\A j \in Buckets : Live(j)' <=> Live(j) /\ j # i)
<1>1. /\ del' = [key |-> key[i], hole |-> i, at |-> Succ(i), start |-> i]
      /\ key' = key /\ count' = count /\ del = NoDelete /\ key[i] \in Keys /\ del' # NoDelete
  BY TableAssumption DEF StartDelete, tableVars, Idle, Types, NoDelete
<1>2. /\ Succ(i) \in Buckets /\ Succ(i) # i
      /\ Dist(i, i) = 0 /\ Dist(i, Succ(i)) = 1
  <2>1. Dist(i, i) = 0
    BY DistRange
  <2>2. Succ(i) # i
    BY <2>1, SuccCloses, Capacity
  <2> QED BY <2>1, <2>2, SuccFurther
<1>3. \A j \in Buckets : Live(j)' <=> Live(j) /\ j # i
  BY <1>1 DEF Live
<1>4. Unique' /\ Reached'
  BY <1>1, <1>3 DEF Table, Unique, Reached, Path
<1>5. Deletion'
  <2>1. \A b \in Buckets : Dist(i, b) < 1 => b = i
    BY DistRange
  <2>2. \A j \in Buckets : j # i => Dist(i, j) >= 1
    BY DistRange
  <2>3. \A j \in Buckets : Live(j)' => key[j] # key[i]
    BY <1>1, <1>3 DEF Table, Unique, Live
  <2> QED BY <1>1, <1>2, <1>3, <2>1, <2>2, <2>3 DEF Deletion
<1>6. Room'
  BY <1>1 DEF Table, Room, Occupied
<1> QED BY <1>1, <1>3, <1>4, <1>5, <1>6 DEF Table

\* Inserting a key that has no entry, into a table below its limit.
LEMMA InsertKeepsTable ==
  ASSUME Types, Table, del = NoDelete, del' = NoDelete, todo' = NoTodo,
         NEW k \in Keys, NEW v, count < Cap \div 2,
         \A i \in Buckets : Live(i) => key[i] # k,
         NEW i \in Free(k), key' = [key EXCEPT ![i] = k], count' = count + 1
  PROVE  Table' /\ (\A j \in Buckets : Live(j)' <=> Live(j) \/ j = i)
<1>1. i \in Buckets /\ key[i] = None /\ k # None /\ \A b \in Path(k, i) : key[b] # None
  BY TableAssumption DEF Free
<1>2. \A j \in Buckets : key'[j] = IF j = i THEN k ELSE key[j]
  BY <1>1 DEF Types
<1>3. \A j \in Buckets : Live(j)' <=> Live(j) \/ j = i
  BY <1>1, <1>2 DEF Live
<1>4. Unique'
  BY <1>1, <1>2, <1>3 DEF Table, Unique, Live
<1>5. Reached'
  <2> SUFFICES ASSUME NEW j \in Buckets, Live(j)', NEW b \in Path(key'[j], j)
               PROVE  key'[b] # None
    BY DEF Reached, Path
  <2>1. b \in Buckets
    BY DEF Path
  <2>2. CASE j = i
    BY <1>1, <1>2, <2>1, <2>2
  <2>3. CASE j # i
    BY <1>1, <1>2, <1>3, <2>1, <2>3 DEF Table, Reached
  <2> QED BY <2>2, <2>3
<1>6. Room'
  <2>1. Occupied' = Occupied \cup {i}
    BY <1>1, <1>2 DEF Occupied
  <2>2. i \notin Occupied
    BY <1>1 DEF Occupied
  <2>3. Cardinality(Occupied') = Cardinality(Occupied) + 1
    BY <2>1, <2>2, OccupiedFinite, FS_AddElement
  <2> QED BY <2>3, OccupiedFinite, Capacity DEF Table, Room
<1> QED BY <1>3, <1>4, <1>5, <1>6 DEF Table, Deletion

\* A step of a deletion; the live entries keep their keys and values.
LEMMA StepKeepsTable ==
  ASSUME Types, Table, DeleteStep
  PROVE  /\ Table' /\ del' # NoDelete /\ del'.key = del.key
         /\ \A j \in Buckets : Live(j)' =>
              \E i \in Buckets : Live(i) /\ key[i] = key'[j] /\ val[i] = val'[j]
         /\ \A i \in Buckets : Live(i) =>
              \E j \in Buckets : Live(j)' /\ key[i] = key'[j] /\ val[i] = val'[j]
<1> DEFINE s == del.start
           h == del.hole
           a == del.at
<1>1. /\ s \in Buckets /\ h \in Buckets /\ a \in Buckets /\ a # s
      /\ del.key \in Keys /\ del # NoDelete /\ key[a] # None /\ key[a] \in Keys
      /\ Dist(s, h) < Dist(s, a) /\ h # a
  BY Capacity DEF DeleteStep, Types, Table, Deletion, Buckets, Dist
<1>2. /\ \A b \in Buckets : Dist(s, b) < Dist(s, a) => key[b] # None
      /\ \A i \in Buckets : Live(i) => key[i] # del.key
      /\ \A i \in Buckets : Live(i) /\ h \in Path(key[i], i) => Dist(s, i) >= Dist(s, a)
  BY <1>1 DEF Table, Deletion
<1>3. key[h] # None /\ Live(a) /\ ~Live(h)
  BY <1>1, <1>2 DEF Live
<1>4. PICK e \in Buckets : key[e] = None
  BY EmptyBucket DEF Table
<1>5. Dist(s, e) > Dist(s, a)
  <2>1. ~(Dist(s, e) < Dist(s, a))
    BY <1>2, <1>4
  <2>2. Dist(s, e) # Dist(s, a)
    BY <1>1, <1>4, DistUnique
  <2> QED BY <1>1, <2>1, <2>2, DistRange, Capacity
<1>6. Succ(a) \in Buckets /\ Succ(a) # s /\ Dist(s, Succ(a)) = Dist(s, a) + 1
  <2>1. Dist(s, e) <= Cap - 1 /\ Dist(s, a) # Cap - 1
    BY <1>1, <1>5, DistRange, Capacity
  <2> QED BY <1>1, <2>1, SuccFurther, SuccCloses
<1>7. /\ Dist(s, a) \in Nat /\ Dist(s, h) \in Nat
      /\ \A b \in Buckets : Dist(s, b) \in Nat /\ (Dist(s, b) < Dist(s, a) + 1 => Dist(s, b) < Dist(s, a) \/ b = a)
  BY <1>1, DistRange, DistUnique, Capacity
<1>8. CASE ~Moves(a, h)
  <2>1. /\ del' = [del EXCEPT !.at = Succ(a)] /\ key' = key /\ val' = val
        /\ count' = count /\ todo' = todo
    BY <1>8 DEF DeleteStep
  <2>2. /\ del'.key = del.key /\ del'.hole = h /\ del'.at = Succ(a) /\ del'.start = s
        /\ del' # NoDelete
    BY <1>1, <2>1, TableAssumption DEF Types, NoDelete
  <2>3. \A j \in Buckets : Live(j)' <=> Live(j)
    BY <1>1, <2>1, <2>2 DEF Live
  <2>4. Unique' /\ Reached' /\ Room'
    BY <1>1, <2>1, <2>2, <2>3 DEF Table, Unique, Reached, Path, Room, Occupied
  <2>5. h \notin Path(key[a], a)
    <3>1. Home[key[a]] \in Buckets
      BY <1>1, TableAssumption
    <3> QED BY <1>1, <1>8, <3>1, MovesMeans, OnPath DEF Moves
  <2>6. \A b \in Buckets : Dist(s, b) < Dist(s, Succ(a)) => key[b] # None
    BY <1>1, <1>2, <1>6, <1>7
  <2>7. \A i \in Buckets : Live(i) /\ h \in Path(key[i], i) => Dist(s, i) >= Dist(s, Succ(a))
    BY <1>2, <1>6, <1>7, <2>5
  <2>8. Dist(s, h) < Dist(s, Succ(a))
    BY <1>1, <1>6, <1>7
  <2>9. Deletion'
    BY <1>1, <1>2, <1>6, <2>1, <2>2, <2>3, <2>6, <2>7, <2>8 DEF Deletion, Path
  <2> QED BY <2>1, <2>2, <2>3, <2>4, <2>9 DEF Table
<1>9. CASE Moves(a, h)
  <2>1. /\ del' = [del EXCEPT !.hole = a, !.at = Succ(a)]
        /\ key' = [key EXCEPT ![h] = key[a]] /\ val' = [val EXCEPT ![h] = val[a]]
        /\ count' = count /\ todo' = todo
    BY <1>9 DEF DeleteStep
  <2>2. /\ del'.key = del.key /\ del'.hole = a /\ del'.at = Succ(a) /\ del'.start = s
        /\ del' # NoDelete
    BY <1>1, <2>1, TableAssumption DEF Types, NoDelete
  <2>3. \A j \in Buckets : /\ key'[j] = IF j = h THEN key[a] ELSE key[j]
                           /\ val'[j] = IF j = h THEN val[a] ELSE val[j]
    BY <1>1, <2>1 DEF Types
  <2>4. \A j \in Buckets : key'[j] = None <=> key[j] = None
    BY <1>1, <1>3, <2>3
  <2>5. \A j \in Buckets : Live(j)' <=> (Live(j) /\ j # a) \/ j = h
    BY <1>1, <1>3, <2>2, <2>3 DEF Live
  <2>6. Unique'
    BY <1>1, <1>3, <2>3, <2>5 DEF Table, Unique
  <2>7. Dist(Home[key[a]], h) < Dist(Home[key[a]], a)
    <3>1. Home[key[a]] \in Buckets
      BY <1>1, TableAssumption
    <3> QED BY <1>1, <1>9, <3>1, MovesMeans DEF Moves
  <2>8. Reached'
    <3> SUFFICES ASSUME NEW j \in Buckets, Live(j)', NEW b \in Path(key'[j], j)
                 PROVE  key[b] # None
      BY <2>4 DEF Reached, Path
    <3>1. CASE j = h
      <4>1. b \in Path(key[a], h)
        BY <2>3, <3>1
      <4>2. b \in Path(key[a], a)
        <5>1. Home[key[a]] \in Buckets
          BY <1>1, TableAssumption
        <5>2. b \in Buckets /\ Dist(Home[key[a]], b) < Dist(Home[key[a]], h)
          BY <1>1, <4>1, OnPath
        <5>3. Dist(Home[key[a]], b) < Dist(Home[key[a]], a)
          BY <1>1, <2>7, <5>1, <5>2, DistRange
        <5> QED BY <1>1, <5>2, <5>3, OnPath
      <4> QED BY <1>1, <1>3, <4>2 DEF Table, Reached
    <3>2. CASE j # h
      BY <2>3, <2>5, <3>2 DEF Table, Reached
    <3> QED BY <3>1, <3>2
  <2>9. \A j \in Buckets : Live(j)' /\ a \in Path(key'[j], j) => Dist(s, j) >= Dist(s, Succ(a))
    <3> SUFFICES ASSUME NEW j \in Buckets, Live(j)', a \in Path(key'[j], j),
                        Dist(s, j) < Dist(s, Succ(a))
                 PROVE  FALSE
      BY <1>6, <1>7
    <3>1. CASE j = h
      <4>1. a \in Path(key[a], h)
        BY <2>3, <3>1
      <4>2. Dist(Home[key[a]], a) < Dist(Home[key[a]], h) /\ Home[key[a]] \in Buckets
        BY <1>1, <4>1, OnPath, TableAssumption
      <4> QED BY <1>1, <2>7, <4>2, DistRange
    <3>2. CASE j # h
      <4>1. Live(j) /\ j # a /\ key'[j] = key[j]
        BY <2>3, <2>5, <3>2
      <4>2. Dist(s, j) < Dist(s, a)
        BY <1>6, <1>7, <4>1
      <4>3. key[j] \in Keys /\ Home[key[j]] \in Buckets
        BY <4>1, TableAssumption DEF Live, Types
      <4>4. Dist(Home[key[j]], a) < Dist(Home[key[j]], j)
        BY <4>1, <4>3, OnPath
      <4>5. Dist(Home[key[j]], e) < Dist(Home[key[j]], j)
        BY <1>1, <1>5, <4>2, <4>3, <4>4, BeforePasses
      <4>6. e \in Path(key[j], j)
        BY <4>3, <4>5, OnPath
      <4> QED BY <1>4, <4>1, <4>6 DEF Table, Reached
    <3> QED BY <3>1, <3>2
  <2>10. \A b \in Buckets : Dist(s, b) < Dist(s, Succ(a)) => key'[b] # None
    BY <1>1, <1>2, <1>6, <1>7, <2>4
  <2>11. Dist(s, a) < Dist(s, Succ(a))
    BY <1>6, <1>7
  <2>12. \A j \in Buckets : Live(j)' => key'[j] # del.key
    BY <1>1, <1>2, <1>3, <2>3, <2>5
  <2>13. Deletion'
    BY <1>1, <1>6, <2>2, <2>9, <2>10, <2>11, <2>12 DEF Deletion, Path
  <2>14. Room'
    <3>1. Occupied' = Occupied
      BY <2>4 DEF Occupied
    <3> QED BY <1>1, <2>1, <2>2, <3>1 DEF Table, Room
  <2>15. /\ \A j \in Buckets : Live(j)' =>
               \E i \in Buckets : Live(i) /\ key[i] = key'[j] /\ val[i] = val'[j]
         /\ \A i \in Buckets : Live(i) =>
               \E j \in Buckets : Live(j)' /\ key[i] = key'[j] /\ val[i] = val'[j]
    BY <1>1, <1>3, <2>3, <2>5
  <2> QED BY <2>2, <2>6, <2>8, <2>13, <2>14, <2>15 DEF Table
<1> QED BY <1>8, <1>9

\* The end of a deletion; the live entries stay as they are.
LEMMA EndKeepsTable ==
  ASSUME Types, Table, DeleteEnd
  PROVE  /\ Table' /\ del' = NoDelete
         /\ \A j \in Buckets : Live(j)' <=> Live(j)
         /\ \A j \in Buckets : Live(j) => key'[j] = key[j] /\ val'[j] = val[j]
<1> DEFINE s == del.start
           h == del.hole
           a == del.at
<1>1. /\ s \in Buckets /\ h \in Buckets /\ a \in Buckets
      /\ del # NoDelete /\ key[a] = None /\ Dist(s, h) < Dist(s, a)
  BY DEF DeleteEnd, Types, Table, Deletion
<1>2. /\ \A b \in Buckets : Dist(s, b) < Dist(s, a) => key[b] # None
      /\ \A i \in Buckets : Live(i) /\ h \in Path(key[i], i) => Dist(s, i) >= Dist(s, a)
  BY <1>1 DEF Table, Deletion
<1>3. /\ del' = NoDelete /\ todo' = todo /\ count' = count - 1
      /\ \A j \in Buckets : /\ key'[j] = IF j = h THEN None ELSE key[j]
                            /\ val'[j] = IF j = h THEN Invalid ELSE val[j]
  BY <1>1 DEF DeleteEnd, Types
<1>4. /\ \A j \in Buckets : Live(j)' <=> Live(j)
      /\ \A j \in Buckets : Live(j) => j # h /\ key'[j] = key[j] /\ val'[j] = val[j]
  BY <1>1, <1>3 DEF Live
<1>5. \A i \in Buckets : Live(i) => h \notin Path(key[i], i)
  <2> SUFFICES ASSUME NEW i \in Buckets, Live(i), h \in Path(key[i], i)
               PROVE  FALSE
    OBVIOUS
  <2>1. key[i] \in Keys /\ Home[key[i]] \in Buckets /\ i # a
    BY <1>1, TableAssumption DEF Live, Types
  <2>2. Dist(s, i) > Dist(s, a)
    <3>1. Dist(s, i) # Dist(s, a)
      BY <1>1, <2>1, DistUnique
    <3> QED BY <1>1, <1>2, <3>1, DistRange, Capacity
  <2>3. Dist(Home[key[i]], h) < Dist(Home[key[i]], i)
    BY <2>1, OnPath
  <2>4. Dist(Home[key[i]], a) < Dist(Home[key[i]], i)
    BY <1>1, <2>1, <2>2, <2>3, BeyondPasses
  <2>5. a \in Path(key[i], i)
    BY <1>1, <2>1, <2>4, OnPath
  <2> QED BY <1>1, <2>5 DEF Table, Reached
<1>6. Unique' /\ Deletion'
  BY <1>3, <1>4 DEF Table, Unique, Deletion
<1>7. Reached'
  <2> SUFFICES ASSUME NEW i \in Buckets, Live(i)', NEW b \in Path(key'[i], i)
               PROVE  key'[b] # None
    BY DEF Reached, Path
  <2>1. Live(i) /\ b \in Path(key[i], i) /\ b \in Buckets
    BY <1>4 DEF Path
  <2> QED BY <1>3, <1>5, <2>1 DEF Table, Reached
<1>8. Room'
  <2>1. Occupied' = Occupied \ {h} /\ h \in Occupied
    <3>1. key[h] # None
      BY <1>1, <1>2
    <3> QED BY <1>1, <1>3, <3>1 DEF Occupied
  <2>2. Cardinality(Occupied') = Cardinality(Occupied) - 1
    BY <2>1, OccupiedFinite, FS_RemoveElement
  <2> QED BY <1>3, <2>2, OccupiedFinite, Capacity DEF Table, Room
<1> QED BY <1>3, <1>4, <1>6, <1>7, <1>8 DEF Table

-----------------------------------------------------------------------------
(* The two limits. *)

\* Blocks with a slot are few.
LEMMA FewResident ==
  ASSUME Types, Residency, NEW S \in SUBSET Keys, \A x \in S : slotOf[x] # None
  PROVE  IsFiniteSet(S) /\ Cardinality(S) \in Nat /\ 4 * Cardinality(S) <= Cap
<1>1. IsFiniteSet(S) /\ Cardinality(S) \in Nat
  <2>1. IsFiniteSet(S)
    BY FS_Subset, TableAssumption, Zenon
  <2> QED BY <2>1, FS_CardinalityType
<1>2. Cardinality(Slots) \in Nat
  BY FS_CardinalityType, TableAssumption
<1>3. ~(Cardinality(Slots) < Cardinality(S))
  <2> SUFFICES ASSUME Cardinality(Slots) < Cardinality(S)
               PROVE  FALSE
    OBVIOUS
  <2> DEFINE f == [x \in S |-> slotOf[x]]
  <2>1. f \in [S -> Slots]
    BY DEF Types
  <2> HIDE DEF f
  <2>2. \E x, y \in S : x # y /\ f[x] = f[y]
    BY <1>1, <2>1, FS_PigeonHole, TableAssumption
  <2>3. \A x \in S : f[x] = slotOf[x]
    BY DEF f
  <2> QED BY <2>2, <2>3 DEF Residency
<1> QED BY <1>1, <1>2, <1>3, TableAssumption

\* A half-full table has an entry of air to evict: the abort of page_set is
\* never reached.
LEMMA FullHasAir ==
  ASSUME Types, Table, Values, Residency, Idle, Evictable = {}
  PROVE  count < Cap \div 2
<1> SUFFICES ASSUME count >= Cap \div 2
             PROVE  FALSE
  BY OccupiedFinite, Capacity DEF Table, Room
<1>1. \A i \in Buckets : key[i] # None => val[i] # Zero
  BY DEF Evictable
<1>2. \A i \in Occupied : i \in Buckets /\ Live(i) /\ key[i] \in Keys /\ val[i] \in Slots /\ slotOf[key[i]] = val[i]
  BY <1>1 DEF Occupied, Live, Idle, Values, Types
<1> DEFINE S == {x \in Keys : slotOf[x] # None}
<1>3. 4 * Cardinality(S) <= Cap /\ IsFiniteSet(S) /\ Cardinality(S) \in Nat
  BY FewResident
<1>4. ~(Cardinality(S) < Cardinality(Occupied))
  <2> SUFFICES ASSUME Cardinality(S) < Cardinality(Occupied)
               PROVE  FALSE
    OBVIOUS
  <2> DEFINE f == [i \in Occupied |-> key[i]]
  <2>1. f \in [Occupied -> S]
    BY <1>2, TableAssumption
  <2> HIDE DEF f, S
  <2>2. \E i, j \in Occupied : i # j /\ f[i] = f[j]
    BY <1>3, <2>1, OccupiedFinite, FS_PigeonHole
  <2>3. \A i \in Occupied : f[i] = key[i]
    BY DEF f
  <2> QED BY <1>2, <2>2, <2>3 DEF Table, Unique
<1> QED BY <1>3, <1>4, OccupiedFinite, Capacity DEF Table, Room

\* The state map makes room as well: at its limit there is a block to forget.
LEMMA PrunedHasRoom ==
  ASSUME Types, Residency, NEW k \in Keys, NEW kn \in Pruned(k), NEW v \in {"air", "solid"},
         known' = [kn EXCEPT ![k] = v]
  PROVE  /\ Cardinality(Remembered') <= (Cap * 3) \div 4
         /\ known'[k] = v
         /\ \A x \in Keys \ {k} : known'[x] = known[x] \/ (known'[x] = "none" /\ slotOf[x] = None)
         /\ known' \in [Keys -> {"none", "air", "solid"}]
<1> DEFINE old == {x \in Remembered : slotOf[x] = None}
<1>1. IsFiniteSet(Remembered) /\ Cardinality(Remembered) \in Nat /\ Remembered \subseteq Keys
  <2>1. Remembered \subseteq Keys
    BY DEF Remembered
  <2>2. IsFiniteSet(Remembered)
    BY <2>1, FS_Subset, TableAssumption, Zenon
  <2> QED BY <2>1, <2>2, FS_CardinalityType
<1>2. CASE kn = known /\ k \in Remembered
  <2>1. known' = [known EXCEPT ![k] = v]
    BY <1>2
  <2>2. \A x : x \in Remembered' <=> x \in Remembered
    BY <1>2, <2>1 DEF Remembered, Types
  <2>3. Remembered' = Remembered
    BY <2>2
  <2>4. Cardinality(Remembered') <= (Cap * 3) \div 4
    BY <2>3 DEF Residency
  <2>5. \A y \in Keys : known'[y] = IF y = k THEN v ELSE known[y]
    BY <2>1 DEF Types
  <2>6. known' \in [Keys -> {"none", "air", "solid"}]
    BY <2>1 DEF Types
  <2> QED BY <2>4, <2>5, <2>6
<1>3. CASE kn = known /\ Cardinality(Remembered) < (Cap * 3) \div 4 /\ k \notin Remembered
  <2>1. known' = [known EXCEPT ![k] = v]
    BY <1>3
  <2>2. \A x : x \in Remembered' <=> x \in Remembered \cup {k}
    BY <2>1 DEF Remembered, Types
  <2>3. Remembered' = Remembered \cup {k}
    BY <2>2
  <2>4. Cardinality(Remembered') = Cardinality(Remembered) + 1
    BY <1>1, <1>3, <2>3, FS_AddElement
  <2> QED BY <1>1, <1>3, <2>1, <2>4, Capacity DEF Types
<1>4. CASE /\ k \notin Remembered /\ ~(Cardinality(Remembered) < (Cap * 3) \div 4)
           /\ \E x \in old : kn = [known EXCEPT ![x] = "none"]
  <2>1. PICK x \in old : kn = [known EXCEPT ![x] = "none"]
    BY <1>4
  <2>2. x \in Keys /\ x \in Remembered /\ x # k /\ slotOf[x] = None
    BY <1>1, <1>4
  <2>3. \A y \in Keys : known'[y] = IF y = k THEN v ELSE IF y = x THEN "none" ELSE known[y]
    BY <2>1, <2>2 DEF Types
  <2>4. known' \in [Keys -> {"none", "air", "solid"}]
    BY <2>1, <2>2 DEF Types
  <2>5. \A y : y \in Remembered' <=> y \in (Remembered \ {x}) \cup {k}
    BY <2>2, <2>3 DEF Remembered
  <2>6. Remembered' = (Remembered \ {x}) \cup {k}
    BY <2>5
  <2>7. IsFiniteSet(Remembered \ {x}) /\ Cardinality(Remembered \ {x}) = Cardinality(Remembered) - 1
    BY <1>1, <2>2, FS_RemoveElement
  <2>8. Cardinality(Remembered') = Cardinality(Remembered)
    <3> DEFINE R == Remembered \ {x}
    <3>1. k \notin R /\ IsFiniteSet(R) /\ Cardinality(R) = Cardinality(Remembered) - 1
      BY <1>4, <2>7
    <3>2. Remembered' = R \cup {k}
      BY <2>6
    <3> HIDE DEF R
    <3>3. Cardinality(R \cup {k}) = Cardinality(R) + 1
      BY <3>1, FS_AddElement
    <3> QED BY <1>1, <3>1, <3>2, <3>3
  <2>9. Cardinality(Remembered') <= (Cap * 3) \div 4
    BY <2>8 DEF Residency
  <2> QED BY <2>2, <2>3, <2>4, <2>9
<1>5. CASE old = {} /\ k \notin Remembered /\ ~(Cardinality(Remembered) < (Cap * 3) \div 4)
  <2>1. \A x \in Remembered : slotOf[x] # None
    BY <1>5
  <2>2. 4 * Cardinality(Remembered) <= Cap
    BY <1>1, <2>1, FewResident
  <2> QED BY <1>1, <1>5, <2>2, Capacity
<1>6. \/ kn = known /\ (k \in Remembered \/ Cardinality(Remembered) < (Cap * 3) \div 4 \/ old = {})
      \/ /\ k \notin Remembered /\ ~(Cardinality(Remembered) < (Cap * 3) \div 4)
         /\ \E x \in old : kn = [known EXCEPT ![x] = "none"]
  BY DEF Pruned
<1> QED BY <1>2, <1>3, <1>4, <1>5, <1>6

-----------------------------------------------------------------------------
(* What the operations say of the entries. *)

\* A changed entry that is queued, or makes everything dirty, is not yet
\* expected on the device.
LEMMA DirtyFollows ==
  ASSUME Types, DeviceFollows, NEW i \in Buckets, Dirty(i), gpu' = gpu,
         \A j \in Buckets : j # i => key'[j] = key[j] /\ val'[j] = val[j]
  PROVE  DeviceFollows' /\ dirty' \subseteq Buckets /\ ndirty' \in 0..DirtyCap /\ all' \in BOOLEAN
<1>1. DeviceFollows'
  BY DEF DeviceFollows, Dirty, Types
<1>2. dirty' \subseteq Buckets /\ all' \in BOOLEAN
  BY DEF Dirty, Types
<1>3. ndirty' \in 0..DirtyCap
  BY TableAssumption DEF Dirty, Types
<1> QED BY <1>1, <1>2, <1>3

\* A live entry is what a probe for its key finds.
LEMMA LiveFound ==
  ASSUME Types, Table, NEW i \in Buckets, Live(i), del = NoDelete
  PROVE  Found(key[i]) = {i} /\ key[i] \in Keys
<1>1. key[i] \in Keys /\ Home[key[i]] \in Buckets
  BY TableAssumption DEF Live, Types
<1>2. \A b \in Path(key[i], i) : b \in Buckets /\ b # i
  BY <1>1, OnPath, DistRange
<1>3. \A b \in Path(key[i], i) : key[b] \notin {key[i], None}
  BY <1>1, <1>2 DEF Table, Unique, Reached, Live
<1>4. \A j \in Found(key[i]) : j = i
  BY <1>1, TableAssumption DEF Table, Unique, Live, Found
<1> QED BY <1>1, <1>3, <1>4 DEF Found

\* The entry of k is now in bucket i, the others are as they were ...
Entered(k, v) ==
  /\ del' = NoDelete /\ todo' = NoTodo
  /\ \E i \in Buckets :
       /\ Live(i)' /\ key'[i] = k /\ val'[i] = v /\ (Live(i) => key[i] = k)
       /\ \A j \in Buckets : j # i =>
            /\ Live(j)' <=> Live(j)
            /\ Live(j) => key[j] # k /\ key'[j] = key[j] /\ val'[j] = val[j]

\* ... or it waits until the air of bucket i is deleted.
Delayed(k, v) ==
  /\ todo' = [key |-> k, val |-> v] /\ todo' # NoTodo /\ key' = key /\ val' = val
  /\ \A j \in Buckets : Live(j) => key[j] # k
  /\ \E i \in Buckets :
       /\ Live(i) /\ val[i] = Zero /\ del'.key = key[i] /\ del' # NoDelete
       /\ \A j \in Buckets : Live(j)' <=> Live(j) /\ j # i

\* The ranges of the fields page_set writes.
SetTypes ==
  /\ key \in [Buckets -> Keys \cup {None}]
  /\ val \in [Buckets -> Slots \cup {Zero, Invalid}]
  /\ del \in [key : Keys \cup {None}, hole : Buckets, at : Buckets, start : Buckets]
  /\ todo \in [key : Keys \cup {None}, val : Slots \cup {Zero, Invalid}]
  /\ dirty \subseteq Buckets /\ ndirty \in 0..DirtyCap /\ all \in BOOLEAN

\* The start of a deletion keeps the ranges.
LEMMA StartTypes ==
  ASSUME Types, NEW i \in Buckets, key[i] # None, NEW then,
         then \in [key : Keys \cup {None}, val : Slots \cup {Zero, Invalid}],
         StartDelete(i, then), UNCHANGED <<tableVars, dirtyVars>>
  PROVE  SetTypes'
<1>1. del' \in [key : Keys \cup {None}, hole : Buckets, at : Buckets, start : Buckets]
  <2>1. Succ(i) \in Buckets /\ key[i] \in Keys
    BY SuccFurther DEF Types
  <2> QED BY <2>1 DEF StartDelete
<1>2. todo' = then
  BY DEF StartDelete
<1> QED BY <1>1, <1>2 DEF SetTypes, Types, tableVars, dirtyVars

\* Inserting keeps the ranges and the device copy.
LEMMA InsertTypes ==
  ASSUME Types, DeviceFollows, gpu' = gpu, NEW k \in Keys, NEW v \in Slots \cup {Zero, Invalid},
         NEW i \in Free(k), Dirty(i),
         key' = [key EXCEPT ![i] = k], val' = [val EXCEPT ![i] = v]
  PROVE  /\ key' \in [Buckets -> Keys \cup {None}]
         /\ val' \in [Buckets -> Slots \cup {Zero, Invalid}]
         /\ dirty' \subseteq Buckets /\ ndirty' \in 0..DirtyCap /\ all' \in BOOLEAN
         /\ DeviceFollows'
<1>1. i \in Buckets
  BY DEF Free
<1>2. /\ key' \in [Buckets -> Keys \cup {None}]
      /\ val' \in [Buckets -> Slots \cup {Zero, Invalid}]
  BY <1>1 DEF Types
<1>3. \A j \in Buckets : j # i => key'[j] = key[j] /\ val'[j] = val[j]
  BY <1>1 DEF Types
<1> QED BY <1>1, <1>2, <1>3, DirtyFollows

\* page_set enters the block or delays it.
LEMMA SetEnters ==
  ASSUME Types, Table, Values, Residency, DeviceFollows, Idle,
         NEW k \in Keys, NEW v \in Slots \cup {Zero}, Set(k, v), gpu' = gpu
  PROVE  Table' /\ SetTypes' /\ DeviceFollows' /\ (Entered(k, v) \/ Delayed(k, v))
<1>1. del = NoDelete /\ todo = NoTodo /\ \A j \in Buckets : Live(j) <=> key[j] # None
  BY DEF Idle, Live
<1>2. Found(k) = {} => \A j \in Buckets : Live(j) => key[j] # k
  BY <1>1, LiveFound
<1>3. CASE /\ \E i \in Found(k) :
                \/ val[i] = v /\ UNCHANGED <<val, dirtyVars>>
                \/ val[i] # v /\ val' = [val EXCEPT ![i] = v] /\ Dirty(i)
           /\ UNCHANGED <<key, count, del, todo>>
  <2>1. PICK i \in Found(k) :
          \/ val[i] = v /\ UNCHANGED <<val, dirtyVars>>
          \/ val[i] # v /\ val' = [val EXCEPT ![i] = v] /\ Dirty(i)
    BY <1>3
  <2>2. i \in Buckets /\ key[i] = k /\ k # None
    BY TableAssumption DEF Found
  <2>3. key' = key /\ count' = count /\ del' = del /\ todo' = todo
    BY <1>3
  <2>4. val'[i] = v /\ \A j \in Buckets : j # i => val'[j] = val[j]
    BY <2>1, <2>2 DEF Types
  <2>5. val' \in [Buckets -> Slots \cup {Zero, Invalid}]
    BY <2>1, <2>2 DEF Types
  <2>6. DeviceFollows' /\ dirty' \subseteq Buckets /\ ndirty' \in 0..DirtyCap /\ all' \in BOOLEAN
    <3>1. CASE Dirty(i)
      BY <2>2, <2>3, <2>4, <3>1, DirtyFollows
    <3>2. CASE UNCHANGED <<val, dirtyVars>>
      BY <2>3, <3>2 DEF DeviceFollows, dirtyVars, Types
    <3> QED BY <2>1, <3>1, <3>2
  <2>7. \A j \in Buckets : Live(j)' <=> Live(j)
    BY <2>3 DEF Live
  <2>8. Table'
    BY <2>3, <2>7 DEF Table, Unique, Reached, Deletion, Room, Occupied, Path
  <2>9. Entered(k, v)
    <3>1. \A j \in Buckets : j # i /\ Live(j) => key[j] # k
      BY <1>1, <2>2 DEF Table, Unique
    <3> QED BY <1>1, <2>2, <2>3, <2>4, <2>7, <3>1 DEF Entered
  <2> QED BY <2>3, <2>5, <2>6, <2>8, <2>9 DEF SetTypes, Types
<1>4. CASE /\ Found(k) = {} /\ Evictable = {}
           /\ Insert(k, v)
           /\ UNCHANGED <<del, todo>>
  <2>1. PICK i \in Free(k) :
          key' = [key EXCEPT ![i] = k] /\ val' = [val EXCEPT ![i] = v] /\ Dirty(i)
    BY <1>4, Zenon DEF Insert
  <2>2. count' = count + 1 /\ del' = del /\ todo' = todo
    BY <1>4 DEF Insert
  <2>3. count < Cap \div 2
    BY <1>4, FullHasAir
  <2>4. Table' /\ \A j \in Buckets : Live(j)' <=> Live(j) \/ j = i
    BY <1>1, <1>2, <1>4, <2>1, <2>2, <2>3, InsertKeepsTable
  <2>5. /\ key' \in [Buckets -> Keys \cup {None}]
        /\ val' \in [Buckets -> Slots \cup {Zero, Invalid}]
        /\ dirty' \subseteq Buckets /\ ndirty' \in 0..DirtyCap /\ all' \in BOOLEAN
        /\ DeviceFollows'
    BY <2>1, InsertTypes
  <2>6. i \in Buckets /\ key[i] = None
    BY DEF Free
  <2>7. \A j \in Buckets : /\ key'[j] = IF j = i THEN k ELSE key[j]
                           /\ val'[j] = IF j = i THEN v ELSE val[j]
    BY <2>1, <2>6 DEF Types
  <2>8. Entered(k, v)
    BY <1>1, <1>2, <1>4, <2>2, <2>4, <2>6, <2>7 DEF Entered
  <2> QED BY <2>2, <2>4, <2>5, <2>8 DEF SetTypes, Types
<1>5. CASE /\ Found(k) = {}
           /\ \E i \in Evictable : StartDelete(i, [key |-> k, val |-> v])
           /\ UNCHANGED <<tableVars, dirtyVars>>
  <2>1. PICK i \in Evictable : StartDelete(i, [key |-> k, val |-> v])
    BY <1>5
  <2>2. i \in Buckets /\ key[i] # None /\ val[i] = Zero
    BY DEF Evictable
  <2>3. Table' /\ del' # NoDelete /\ \A j \in Buckets : Live(j)' <=> Live(j) /\ j # i
    BY <1>5, <2>1, <2>2, StartKeepsTable
  <2>4. SetTypes'
    BY <1>5, <2>1, <2>2, StartTypes
  <2>5. DeviceFollows'
    BY <1>5 DEF DeviceFollows, tableVars, dirtyVars
  <2>6. todo' # NoTodo /\ todo' = [key |-> k, val |-> v] /\ del'.key = key[i]
    BY <2>1, TableAssumption DEF StartDelete, NoTodo
  <2>7. Delayed(k, v)
    BY <1>1, <1>2, <1>5, <2>2, <2>3, <2>6 DEF Delayed, tableVars
  <2> QED BY <2>3, <2>4, <2>5, <2>7
<1> QED BY <1>3, <1>4, <1>5 DEF Set

\* Entering or delaying k keeps what relates the table to the state map, if
\* the state map changes along.
LEMMA EnterKeepsState ==
  ASSUME Types, Values, AirIsEntered, Idle,
         NEW k \in Keys, NEW v \in Slots \cup {Zero}, Entered(k, v) \/ Delayed(k, v),
         \A x \in Keys \ {k} : slotOf'[x] = slotOf[x] /\ (known'[x] = "air" => known[x] = "air"),
         v \in Slots => slotOf'[k] = v,
         known'[k] = "air" => v = Zero
  PROVE  Waiting' /\ Values' /\ AirIsEntered'
<1>1. /\ \A i \in Buckets : Live(i) => key[i] \in Keys
      /\ \A x \in Keys : known[x] = "air" => \E i \in Buckets : Live(i) /\ key[i] = x /\ val[i] = Zero
  BY DEF Live, Types, AirIsEntered, Idle
<1>2. CASE Entered(k, v)
  <2>1. PICK i \in Buckets :
          /\ Live(i)' /\ key'[i] = k /\ val'[i] = v /\ (Live(i) => key[i] = k)
          /\ \A j \in Buckets : j # i =>
               /\ Live(j)' <=> Live(j)
               /\ Live(j) => key[j] # k /\ key'[j] = key[j] /\ val'[j] = val[j]
    BY <1>2, Zenon DEF Entered
  <2>2. Waiting'
    BY <1>2 DEF Entered, Waiting
  <2>3. Values'
    <3> SUFFICES ASSUME NEW j \in Buckets, Live(j)'
                 PROVE  val'[j] \in Slots \cup {Zero} /\ (val'[j] \in Slots => slotOf'[key'[j]] = val'[j])
      BY DEF Values
    <3>1. CASE j = i
      BY <2>1, <3>1
    <3>2. CASE j # i
      BY <1>1, <2>1, <3>2 DEF Values
    <3> QED BY <3>1, <3>2
  <2>4. AirIsEntered'
    <3> SUFFICES ASSUME NEW x \in Keys, known'[x] = "air"
                 PROVE  \E j \in Buckets : Live(j)' /\ key'[j] = x /\ val'[j] = Zero
      BY DEF AirIsEntered
    <3>1. CASE x = k
      BY <2>1, <3>1
    <3>2. CASE x # k
      <4>1. PICK j \in Buckets : Live(j) /\ key[j] = x /\ val[j] = Zero
        BY <1>1, <3>2
      <4> QED BY <2>1, <3>2, <4>1
    <3> QED BY <3>1, <3>2
  <2> QED BY <2>2, <2>3, <2>4
<1>3. CASE Delayed(k, v)
  <2>1. /\ todo' = [key |-> k, val |-> v] /\ todo' # NoTodo /\ key' = key /\ val' = val
        /\ todo'.key = k /\ todo'.val = v
        /\ \A j \in Buckets : Live(j) => key[j] # k
    BY <1>3 DEF Delayed
  <2>2. PICK i \in Buckets :
          /\ del'.key = key[i]
          /\ \A j \in Buckets : Live(j)' <=> Live(j) /\ j # i
    BY <1>3, Zenon DEF Delayed
  <2>3. Waiting'
    BY <2>1, <2>2 DEF Waiting
  <2>4. Values'
    BY <1>1, <2>1, <2>2 DEF Values
  <2>5. AirIsEntered'
    <3> SUFFICES ASSUME NEW x \in Keys, known'[x] = "air"
                 PROVE  \/ \E j \in Buckets : Live(j)' /\ key'[j] = x /\ val'[j] = Zero
                        \/ todo' = [key |-> x, val |-> Zero] \/ del'.key = x
      BY <2>1 DEF AirIsEntered
    <3>1. CASE x = k
      BY <2>1, <3>1
    <3>2. CASE x # k
      <4>1. PICK j \in Buckets : Live(j) /\ key[j] = x /\ val[j] = Zero
        BY <1>1, <3>2
      <4> QED BY <2>1, <2>2, <4>1
    <3> QED BY <3>1, <3>2
  <2> QED BY <2>3, <2>4, <2>5
<1> QED BY <1>2, <1>3

-----------------------------------------------------------------------------
(* The invariant: one lemma per action. *)

\* At the start the table is empty.
LEMMA InitInvariant ==
  ASSUME Init
  PROVE  IInv
<1>1. /\ \A i \in Buckets : key[i] = None
      /\ \A x \in Keys : slotOf[x] = None /\ known[x] = "none"
      /\ del = NoDelete /\ todo = NoTodo /\ count = 0 /\ all = TRUE
  BY DEF Init
<1>2. 0 \in Buckets
  BY Capacity DEF Buckets
<1>3. Types
  <2>1. del \in [key : Keys \cup {None}, hole : Buckets, at : Buckets, start : Buckets]
    BY <1>1, <1>2 DEF NoDelete
  <2>2. todo \in [key : Keys \cup {None}, val : Slots \cup {Zero, Invalid}]
    BY <1>1 DEF NoTodo
  <2>3. ndirty \in 0..DirtyCap
    BY TableAssumption DEF Init
  <2>4. gpu \in [Buckets -> Entries]
    BY TableAssumption DEF Init
  <2> QED BY <2>1, <2>2, <2>3, <2>4 DEF Init, Types
<1>4. Occupied = {} /\ Remembered = {} /\ Cardinality({}) = 0
  BY <1>1, FS_EmptySet DEF Occupied, Remembered
<1>5. Table
  BY <1>1, <1>4, Capacity DEF Table, Unique, Reached, Deletion, Room, Live
<1>6. State
  BY <1>1, <1>4, Capacity DEF State, Waiting, Values, Residency, AirIsEntered, Live
<1>7. DeviceFollows
  BY <1>1 DEF DeviceFollows
<1> QED BY <1>3, <1>5, <1>6, <1>7 DEF IInv

\* The table and the state map together, when the step leaves both alone.
LEMMA Unmoved ==
  ASSUME Table, State, UNCHANGED <<tableVars, del, todo, stateVars>>
  PROVE  Table' /\ State'
<1>1. /\ key' = key /\ val' = val /\ count' = count /\ del' = del /\ todo' = todo
      /\ slotOf' = slotOf /\ known' = known
  BY DEF tableVars, stateVars
<1>2. \A i \in Buckets : Live(i)' <=> Live(i)
  BY <1>1 DEF Live
<1>3. Table'
  BY <1>1, <1>2 DEF Table, Unique, Reached, Deletion, Room, Occupied, Path
<1>4. State'
  BY <1>1, <1>2 DEF State, Waiting, Values, Residency, AirIsEntered, Remembered
<1> QED BY <1>3, <1>4

\* A flush copies what is dirty: afterwards the device has the shadow.
LEMMA FlushKeeps ==
  ASSUME IInv, Flush
  PROVE  IInv'
<1>1. Table' /\ State'
  BY Unmoved DEF IInv, Flush
<1>2. gpu' \in [Buckets -> Entries]
  BY DEF IInv, Types, Flush, Entries
<1>3. Types'
  <2>1. dirty' = {} /\ ndirty' = 0 /\ all' = FALSE
    BY DEF Flush
  <2>2. dirty' \subseteq Buckets /\ all' \in BOOLEAN
    BY <2>1
  <2>3. ndirty' \in 0..DirtyCap
    <3>1. 0 \in 0..DirtyCap
      BY TableAssumption
    <3> QED BY <2>1, <3>1
  <2>4. /\ key' = key /\ val' = val /\ del' = del /\ todo' = todo
        /\ slotOf' = slotOf /\ known' = known
    BY DEF Flush, tableVars, stateVars
  <2> QED BY <1>2, <2>2, <2>3, <2>4 DEF IInv, Types
<1>4. DeviceFollows'
  BY DEF IInv, DeviceFollows, Flush, tableVars
<1> QED BY <1>1, <1>3, <1>4 DEF IInv

\* A step of a deletion moves an entry with its key and its value.
LEMMA DeleteStepKeeps ==
  ASSUME IInv, DeleteStep
  PROVE  IInv'
<1>1. /\ Table' /\ del' # NoDelete /\ del'.key = del.key
      /\ \A j \in Buckets : Live(j)' =>
           \E i \in Buckets : Live(i) /\ key[i] = key'[j] /\ val[i] = val'[j]
      /\ \A i \in Buckets : Live(i) =>
           \E j \in Buckets : Live(j)' /\ key[i] = key'[j] /\ val[i] = val'[j]
  BY StepKeepsTable DEF IInv
<1>2. /\ count' = count /\ todo' = todo /\ slotOf' = slotOf /\ known' = known /\ gpu' = gpu
      /\ del.hole \in Buckets /\ del.at \in Buckets /\ Succ(del.at) \in Buckets
  BY SuccFurther DEF DeleteStep, stateVars, IInv, Types
<1>3. Types' /\ DeviceFollows'
  <2>1. CASE /\ key' = [key EXCEPT ![del.hole] = key[del.at]]
             /\ val' = [val EXCEPT ![del.hole] = val[del.at]]
             /\ Dirty(del.hole)
             /\ del' = [del EXCEPT !.hole = del.at, !.at = Succ(del.at)]
    <3>1. \A j \in Buckets : j # del.hole => key'[j] = key[j] /\ val'[j] = val[j]
      BY <1>2, <2>1 DEF IInv, Types
    <3>2. /\ DeviceFollows' /\ dirty' \subseteq Buckets
          /\ ndirty' \in 0..DirtyCap /\ all' \in BOOLEAN
      BY <1>2, <2>1, <3>1, DirtyFollows DEF IInv
    <3>3. key' \in [Buckets -> Keys \cup {None}] /\ val' \in [Buckets -> Slots \cup {Zero, Invalid}]
      BY <1>2, <2>1 DEF IInv, Types
    <3>4. del' \in [key : Keys \cup {None}, hole : Buckets, at : Buckets, start : Buckets]
      BY <1>2, <2>1 DEF IInv, Types
    <3> QED BY <1>2, <3>2, <3>3, <3>4 DEF IInv, Types
  <2>2. CASE /\ del' = [del EXCEPT !.at = Succ(del.at)]
             /\ UNCHANGED <<key, val, dirtyVars>>
    <3>1. del' \in [key : Keys \cup {None}, hole : Buckets, at : Buckets, start : Buckets]
      BY <1>2, <2>2 DEF IInv, Types
    <3> QED BY <1>2, <2>2, <3>1 DEF IInv, Types, DeviceFollows, dirtyVars
  <2> QED BY <2>1, <2>2 DEF DeleteStep
<1>4. Waiting'
  BY <1>1, <1>2 DEF IInv, State, Waiting
<1>5. Values'
  <2> SUFFICES ASSUME NEW j \in Buckets, Live(j)'
               PROVE  val'[j] \in Slots \cup {Zero} /\ (val'[j] \in Slots => slotOf[key'[j]] = val'[j])
    BY <1>2 DEF Values
  <2> QED BY <1>1 DEF IInv, State, Values
<1>6. Residency'
  BY <1>2 DEF IInv, State, Residency, Remembered
<1>7. AirIsEntered'
  BY <1>1, <1>2 DEF IInv, State, AirIsEntered
<1> QED BY <1>1, <1>3, <1>4, <1>5, <1>6, <1>7 DEF IInv, State

\* The end of a deletion; air that was evicted is forgotten with its entry.
LEMMA DeleteEndKeeps ==
  ASSUME IInv, DeleteEnd
  PROVE  IInv'
<1>1. /\ Table' /\ del' = NoDelete
      /\ \A j \in Buckets : Live(j)' <=> Live(j)
      /\ \A j \in Buckets : Live(j) => key'[j] = key[j] /\ val'[j] = val[j]
  BY EndKeepsTable DEF IInv
<1>2. /\ todo' = todo /\ slotOf' = slotOf /\ gpu' = gpu /\ Dirty(del.hole) /\ del.hole \in Buckets
      /\ key' = [key EXCEPT ![del.hole] = None] /\ val' = [val EXCEPT ![del.hole] = Invalid]
      /\ known' = IF Forgets(del.key) THEN [known EXCEPT ![del.key] = "none"] ELSE known
      /\ del # NoDelete
  BY DEF DeleteEnd, IInv, Types
<1>3. del.key \in Keys
  BY <1>2 DEF IInv, Table, Deletion
<1>4. \A x \in Keys : known'[x] = IF x = del.key /\ Forgets(x) THEN "none" ELSE known[x]
  BY <1>2, <1>3 DEF IInv, Types
<1>5. known' \in [Keys -> {"none", "air", "solid"}]
  BY <1>2, <1>3 DEF IInv, Types
<1>6. Types' /\ DeviceFollows'
  <2>1. \A j \in Buckets : j # del.hole => key'[j] = key[j] /\ val'[j] = val[j]
    BY <1>2 DEF IInv, Types
  <2>2. DeviceFollows' /\ dirty' \subseteq Buckets /\ ndirty' \in 0..DirtyCap /\ all' \in BOOLEAN
    BY <1>2, <2>1, DirtyFollows DEF IInv
  <2>3. key' \in [Buckets -> Keys \cup {None}] /\ val' \in [Buckets -> Slots \cup {Zero, Invalid}]
    BY <1>2 DEF IInv, Types
  <2>4. del' \in [key : Keys \cup {None}, hole : Buckets, at : Buckets, start : Buckets]
    BY <1>1, Capacity DEF NoDelete, Buckets
  <2> QED BY <1>2, <1>5, <2>2, <2>3, <2>4 DEF IInv, Types
<1>7. Waiting'
  BY <1>1, <1>2 DEF IInv, State, Waiting
<1>8. Values'
  BY <1>1, <1>2 DEF IInv, State, Values
<1>9. Residency'
  <2>1. Remembered' \subseteq Remembered
    BY <1>4 DEF Remembered
  <2>2. IsFiniteSet(Remembered)
    BY FS_Subset, TableAssumption, Zenon DEF Remembered
  <2>3. /\ Cardinality(Remembered) \in Nat /\ Cardinality(Remembered') \in Nat
        /\ Cardinality(Remembered') <= Cardinality(Remembered)
    BY <2>1, <2>2, FS_Subset, FS_CardinalityType
  <2>4. Cardinality(Remembered') <= (Cap * 3) \div 4
    BY <2>3, Capacity DEF IInv, State, Residency
  <2>5. \A x \in Keys : slotOf'[x] # None => known'[x] = "solid"
    BY <1>2, <1>4 DEF IInv, State, Residency, Forgets
  <2> QED BY <1>2, <2>4, <2>5 DEF IInv, State, Residency
<1>10. AirIsEntered'
  <2> SUFFICES ASSUME NEW x \in Keys, known'[x] = "air"
               PROVE  \/ \E i \in Buckets : Live(i)' /\ key'[i] = x /\ val'[i] = Zero
                      \/ todo # NoTodo /\ todo = [key |-> x, val |-> Zero]
    BY <1>2 DEF AirIsEntered
  <2>1. known[x] = "air" /\ ~(x = del.key /\ Forgets(x))
    BY <1>4
  <2>2. slotOf[x] = None
    BY <2>1 DEF IInv, State, Residency
  <2>3. ~(todo # NoTodo /\ del.key = x)
    BY <2>1, <2>2 DEF Forgets
  <2>4. \/ \E i \in Buckets : Live(i) /\ key[i] = x /\ val[i] = Zero
        \/ todo # NoTodo /\ todo = [key |-> x, val |-> Zero]
    BY <2>1, <2>3 DEF IInv, State, AirIsEntered
  <2> QED BY <1>1, <2>4
<1> QED BY <1>1, <1>6, <1>7, <1>8, <1>9, <1>10 DEF IInv, State

\* After the eviction the entry that waited is inserted.
LEMMA InsertAfterKeeps ==
  ASSUME IInv, InsertAfter
  PROVE  IInv'
<1> DEFINE k == todo.key
           v == todo.val
<1>1. /\ del = NoDelete /\ del' = del /\ todo # NoTodo /\ todo' = NoTodo
      /\ slotOf' = slotOf /\ known' = known /\ gpu' = gpu /\ count' = count + 1
  BY DEF InsertAfter, Insert, stateVars
<1>2. /\ k \in Keys /\ v \in Slots \cup {Zero} /\ (v \in Slots => slotOf[k] = v)
      /\ \A i \in Buckets : Live(i) => key[i] # k
      /\ count < Cap \div 2
  BY <1>1 DEF IInv, State, Waiting, Table, Room
<1>3. PICK i \in Free(k) :
        key' = [key EXCEPT ![i] = k] /\ val' = [val EXCEPT ![i] = v] /\ Dirty(i)
  BY Zenon DEF InsertAfter, Insert
<1>4. Table' /\ \A j \in Buckets : Live(j)' <=> Live(j) \/ j = i
  BY <1>1, <1>2, <1>3, InsertKeepsTable DEF IInv
<1>5. /\ key' \in [Buckets -> Keys \cup {None}]
      /\ val' \in [Buckets -> Slots \cup {Zero, Invalid}]
      /\ dirty' \subseteq Buckets /\ ndirty' \in 0..DirtyCap /\ all' \in BOOLEAN
      /\ DeviceFollows'
  BY <1>1, <1>2, <1>3, InsertTypes DEF IInv
<1>6. i \in Buckets /\ key[i] = None
  BY DEF Free
<1>7. \A j \in Buckets : /\ key'[j] = IF j = i THEN k ELSE key[j]
                         /\ val'[j] = IF j = i THEN v ELSE val[j]
  BY <1>3, <1>6 DEF IInv, Types
<1>8. Types'
  <2>1. todo' \in [key : Keys \cup {None}, val : Slots \cup {Zero, Invalid}]
    BY <1>1 DEF NoTodo
  <2> QED BY <1>1, <1>5, <2>1 DEF IInv, Types
<1>9. Waiting'
  BY <1>1 DEF Waiting
<1>10. Values'
  BY <1>1, <1>2, <1>4, <1>7 DEF IInv, State, Values
<1>11. Residency'
  BY <1>1 DEF IInv, State, Residency, Remembered
<1>12. AirIsEntered'
  <2> SUFFICES ASSUME NEW x \in Keys, known[x] = "air"
               PROVE  \E j \in Buckets : Live(j)' /\ key'[j] = x /\ val'[j] = Zero
    BY <1>1 DEF AirIsEntered
  <2>1. del.key # x
    BY <1>1, TableAssumption DEF NoDelete
  <2>2. CASE \E j \in Buckets : Live(j) /\ key[j] = x /\ val[j] = Zero
    BY <1>4, <1>6, <1>7, <2>2 DEF Live
  <2>3. CASE todo = [key |-> x, val |-> Zero]
    BY <1>4, <1>6, <1>7, <2>3
  <2> QED BY <2>1, <2>2, <2>3 DEF IInv, State, AirIsEntered
<1> QED BY <1>4, <1>5, <1>8, <1>9, <1>10, <1>11, <1>12 DEF IInv, State

\* A block that is entered or forgotten for another one to be remembered
\* leaves every block with a slot, and all other air, as it was.
LEMMA RememberKeepsResidency ==
  ASSUME Types, Residency, NEW k \in Keys, NEW kn \in Pruned(k), NEW v \in {"air", "solid"},
         known' = [kn EXCEPT ![k] = v],
         NEW s, slotOf' = [slotOf EXCEPT ![k] = s],
         s # None => v = "solid" /\ \A x \in Keys : slotOf[x] # s
  PROVE  /\ Residency' /\ known' \in [Keys -> {"none", "air", "solid"}] /\ known'[k] = v
         /\ \A x \in Keys \ {k} : slotOf'[x] = slotOf[x] /\ (known'[x] = "air" => known[x] = "air")
<1>1. /\ Cardinality(Remembered') <= (Cap * 3) \div 4
      /\ known'[k] = v
      /\ \A x \in Keys \ {k} : known'[x] = known[x] \/ (known'[x] = "none" /\ slotOf[x] = None)
      /\ known' \in [Keys -> {"none", "air", "solid"}]
  BY PrunedHasRoom
<1>2. slotOf'[k] = s /\ \A x \in Keys \ {k} : slotOf'[x] = slotOf[x]
  BY DEF Types
<1>3. \A x, y \in Keys : slotOf'[x] # None /\ slotOf'[x] = slotOf'[y] => x = y
  BY <1>2 DEF Residency
<1>4. \A x \in Keys : slotOf'[x] # None => known'[x] = "solid"
  BY <1>1, <1>2 DEF Residency
<1> QED BY <1>1, <1>2, <1>3, <1>4 DEF Residency

\* A loaded block had no slot, so no entry shows one for it.
LEMMA LoadKeeps ==
  ASSUME IInv, NEW k \in Keys, NEW s \in Slots, Load(k, s)
  PROVE  IInv'
<1>1. /\ Idle /\ slotOf[k] = None /\ known[k] # "air" /\ \A x \in Keys : slotOf[x] # s
      /\ slotOf' = [slotOf EXCEPT ![k] = s]
      /\ key' = key /\ val' = val /\ count' = count /\ del' = del /\ todo' = todo
      /\ dirty' = dirty /\ ndirty' = ndirty /\ all' = all /\ gpu' = gpu
  BY DEF Load, tableVars, dirtyVars
<1>2. PICK kn \in Pruned(k) : known' = [kn EXCEPT ![k] = "solid"]
  BY Zenon DEF Load
<1>3. /\ Residency' /\ known' \in [Keys -> {"none", "air", "solid"}] /\ known'[k] = "solid"
      /\ \A x \in Keys \ {k} : slotOf'[x] = slotOf[x] /\ (known'[x] = "air" => known[x] = "air")
  BY <1>1, <1>2, RememberKeepsResidency DEF IInv, State
<1>4. \A i \in Buckets : (Live(i)' <=> Live(i)) /\ (Live(i) => key[i] \in Keys)
  BY <1>1 DEF Live, IInv, Types
<1>5. slotOf' \in [Keys -> Slots \cup {None}]
  BY <1>1 DEF IInv, Types
<1>6. Types' /\ DeviceFollows'
  BY <1>1, <1>3, <1>5 DEF IInv, Types, DeviceFollows
<1>7. Table'
  BY <1>1, <1>4 DEF IInv, Table, Unique, Reached, Deletion, Room, Occupied, Path
<1>8. Waiting'
  BY <1>1 DEF Waiting, Idle
<1>9. Values'
  <2> SUFFICES ASSUME NEW i \in Buckets, Live(i)
               PROVE  val[i] \in Slots \cup {Zero} /\ (val[i] \in Slots => slotOf'[key[i]] = val[i])
    BY <1>1, <1>4 DEF Values
  <2>1. val[i] \in Slots => key[i] # k
    BY <1>1, TableAssumption DEF IInv, State, Values
  <2> QED BY <1>3, <1>4, <2>1 DEF IInv, State, Values
<1>10. AirIsEntered'
  BY <1>1, <1>3, <1>4 DEF IInv, State, AirIsEntered, Idle
<1> QED BY <1>3, <1>6, <1>7, <1>8, <1>9, <1>10 DEF IInv, State

\* The entry of a block that keeps its slot or loses it is removed.
LEMMA UnsetKeeps ==
  ASSUME IInv, NEW k \in Keys, NEW s \in {None, slotOf[k]}, Idle, slotOf[k] # None,
         slotOf' = [slotOf EXCEPT ![k] = s], known' = known, gpu' = gpu, Unset(k)
  PROVE  IInv'
<1>1. /\ Idle /\ slotOf[k] # None /\ slotOf' = [slotOf EXCEPT ![k] = s]
      /\ known' = known /\ gpu' = gpu /\ Unset(k)
      /\ key' = key /\ val' = val /\ count' = count
      /\ dirty' = dirty /\ ndirty' = ndirty /\ all' = all
  BY DEF Unset, tableVars, dirtyVars
<1>2. del = NoDelete /\ todo = NoTodo
  BY <1>1 DEF Idle
<1>3. known[k] = "solid"
  BY <1>1 DEF IInv, State, Residency
<1>4. slotOf'[k] \in {None, slotOf[k]} /\ \A x \in Keys \ {k} : slotOf'[x] = slotOf[x]
  BY <1>1 DEF IInv, Types
<1>5. slotOf' \in [Keys -> Slots \cup {None}]
  BY <1>1 DEF IInv, Types
<1>6. Residency'
  BY <1>1, <1>4 DEF IInv, State, Residency, Remembered
<1>7. DeviceFollows'
  BY <1>1 DEF IInv, DeviceFollows
<1>8. /\ Table' /\ SetTypes' /\ todo' = NoTodo
      /\ \A j \in Buckets : Live(j)' <=> Live(j) /\ key[j] # k
  <2>1. CASE Found(k) = {}
    <3>1. del' = del /\ todo' = todo
      BY <1>1, <2>1 DEF Unset
    <3>2. \A j \in Buckets : (Live(j)' <=> Live(j)) /\ (Live(j) => key[j] # k)
      BY <1>1, <1>2, <2>1, <3>1, LiveFound DEF IInv, Live
    <3>3. Table'
      BY <1>1, <3>1, <3>2 DEF IInv, Table, Unique, Reached, Deletion, Room, Occupied, Path
    <3> QED BY <1>1, <1>2, <3>1, <3>2, <3>3 DEF IInv, Types, SetTypes
  <2>2. CASE Found(k) # {}
    <3>1. PICK i \in Found(k) : StartDelete(i, NoTodo)
      BY <1>1, <2>2, Zenon DEF Unset
    <3>2. i \in Buckets /\ key[i] = k /\ key[i] # None
      BY TableAssumption DEF Found
    <3>3. Table' /\ \A j \in Buckets : Live(j)' <=> Live(j) /\ j # i
      BY <1>1, <3>1, <3>2, StartKeepsTable DEF IInv, tableVars
    <3>4. \A j \in Buckets : Live(j) => (j # i <=> key[j] # k)
      BY <1>2, <3>2 DEF IInv, Table, Unique, Live
    <3>5. NoTodo \in [key : Keys \cup {None}, val : Slots \cup {Zero, Invalid}]
      BY DEF NoTodo
    <3>6. SetTypes'
      BY <1>1, <3>1, <3>2, <3>5, StartTypes DEF IInv, tableVars, dirtyVars
    <3> QED BY <3>1, <3>3, <3>4, <3>6 DEF StartDelete
  <2> QED BY <2>1, <2>2
<1>9. Types'
  BY <1>1, <1>5, <1>8 DEF IInv, Types, SetTypes
<1>10. Waiting'
  BY <1>8 DEF Waiting
<1>11. Values'
  <2> SUFFICES ASSUME NEW i \in Buckets, Live(i), key[i] # k
               PROVE  val[i] \in Slots \cup {Zero} /\ (val[i] \in Slots => slotOf'[key[i]] = val[i])
    BY <1>1, <1>8 DEF Values
  <2>1. key[i] \in Keys
    BY DEF Live, IInv, Types
  <2> QED BY <1>4, <2>1 DEF IInv, State, Values
<1>12. AirIsEntered'
  <2> SUFFICES ASSUME NEW x \in Keys, known[x] = "air"
               PROVE  \E i \in Buckets : Live(i)' /\ key[i] = x /\ val[i] = Zero
    BY <1>1 DEF AirIsEntered
  <2>1. x # k
    BY <1>3
  <2>2. \E i \in Buckets : Live(i) /\ key[i] = x /\ val[i] = Zero
    BY <1>2 DEF IInv, State, AirIsEntered
  <2> QED BY <1>8, <2>1, <2>2
<1> QED BY <1>6, <1>7, <1>8, <1>9, <1>10, <1>11, <1>12 DEF IInv, State

\* The entry of an evicted block goes with its slot; a block whose seam is to be
\* repaired keeps the slot.
LEMMA EvictKeeps ==
  ASSUME IInv, NEW k \in Keys, Evict(k) \/ Unmap(k)
  PROVE  IInv'
<1>1. CASE Evict(k)
  BY <1>1, UnsetKeeps DEF Evict
<1>2. CASE Unmap(k)
  <2>1. slotOf' = [slotOf EXCEPT ![k] = slotOf[k]] /\ known' = known
    BY <1>2 DEF Unmap, stateVars, IInv, Types
  <2> QED BY <1>2, <2>1, UnsetKeeps DEF Unmap
<1> QED BY <1>1, <1>2

\* A decoded block is entered with the slot it still has.
LEMMA PublishKeeps ==
  ASSUME IInv, NEW k \in Keys, Publish(k)
  PROVE  IInv'
<1>1. /\ Idle /\ slotOf[k] # None /\ Set(k, slotOf[k])
      /\ slotOf' = slotOf /\ known' = known /\ gpu' = gpu
  BY DEF Publish, stateVars
<1>2. slotOf[k] \in Slots /\ known[k] = "solid"
  BY <1>1 DEF IInv, Types, State, Residency
<1>3. /\ Table' /\ SetTypes' /\ DeviceFollows'
      /\ Entered(k, slotOf[k]) \/ Delayed(k, slotOf[k])
  BY <1>1, <1>2, SetEnters DEF IInv, State
<1>4. Waiting' /\ Values' /\ AirIsEntered'
  BY <1>1, <1>2, <1>3, EnterKeepsState DEF IInv, State
<1>5. Types' /\ Residency'
  BY <1>1, <1>3 DEF IInv, Types, SetTypes, State, Residency, Remembered
<1> QED BY <1>3, <1>4, <1>5 DEF IInv, State

\* A block of air gives up its slot and is entered as air.
LEMMA AirKeeps ==
  ASSUME IInv, NEW k \in Keys, ShowAir(k)
  PROVE  IInv'
<1>1. /\ Idle /\ Set(k, Zero) /\ slotOf' = [slotOf EXCEPT ![k] = None] /\ gpu' = gpu
  BY DEF ShowAir
<1>2. PICK kn \in Pruned(k) : known' = [kn EXCEPT ![k] = "air"]
  BY Zenon DEF ShowAir
<1>3. /\ Residency' /\ known' \in [Keys -> {"none", "air", "solid"}] /\ known'[k] = "air"
      /\ \A x \in Keys \ {k} : slotOf'[x] = slotOf[x] /\ (known'[x] = "air" => known[x] = "air")
  BY <1>1, <1>2, RememberKeepsResidency DEF IInv, State
<1>4. Table' /\ SetTypes' /\ DeviceFollows' /\ (Entered(k, Zero) \/ Delayed(k, Zero))
  BY <1>1, SetEnters DEF IInv, State
<1>5. Waiting' /\ Values' /\ AirIsEntered'
  BY <1>1, <1>3, <1>4, EnterKeepsState, TableAssumption DEF IInv, State
<1>6. slotOf' \in [Keys -> Slots \cup {None}]
  BY <1>1 DEF IInv, Types
<1>7. Types'
  BY <1>1, <1>3, <1>4, <1>6 DEF IInv, Types, SetTypes
<1> QED BY <1>3, <1>4, <1>5, <1>7 DEF IInv, State

\* The invariant holds in every reachable state.
THEOREM Invariant == Spec => []IInv
<1>1. Init => IInv
  BY InitInvariant
<1>2. IInv /\ [Next]_vars => IInv'
  <2> SUFFICES ASSUME IInv, [Next]_vars
               PROVE  IInv'
    OBVIOUS
  <2>1. CASE Flush
    BY <2>1, FlushKeeps
  <2>2. CASE DeleteStep
    BY <2>2, DeleteStepKeeps
  <2>3. CASE DeleteEnd
    BY <2>3, DeleteEndKeeps
  <2>4. CASE InsertAfter
    BY <2>4, InsertAfterKeeps
  <2>5. ASSUME NEW k \in Keys, Evict(k) \/ Unmap(k)
        PROVE  IInv'
    BY <2>5, EvictKeeps
  <2>6. ASSUME NEW k \in Keys, Publish(k)
        PROVE  IInv'
    BY <2>6, PublishKeeps
  <2>7. ASSUME NEW k \in Keys, ShowAir(k)
        PROVE  IInv'
    BY <2>7, AirKeeps
  <2>8. ASSUME NEW k \in Keys, NEW s \in Slots, Load(k, s)
        PROVE  IInv'
    BY <2>8, LoadKeeps
  <2>9. CASE UNCHANGED vars
    <3>1. UNCHANGED <<tableVars, del, todo, stateVars, dirtyVars, gpu>>
      BY <2>9 DEF vars
    <3>2. Table' /\ State'
      BY <3>1, Unmoved DEF IInv
    <3> QED BY <3>1, <3>2 DEF IInv, Types, DeviceFollows, tableVars, stateVars, dirtyVars
  <2> QED BY <2>1, <2>2, <2>3, <2>4, <2>5, <2>6, <2>7, <2>8, <2>9 DEF Next
<1> QED BY <1>1, <1>2, PTL DEF Spec

-----------------------------------------------------------------------------
(* The properties of the runs. *)

\* The device reads the shadow, but for entries that are queued.
THEOREM DeviceFollowsShadow == Spec => []DeviceFollows
<1>1. IInv => DeviceFollows
  BY DEF IInv
<1> QED BY <1>1, Invariant, PTL

\* A probe finds every entry.
THEOREM KeysFound == Spec => []EveryKeyFound
<1>1. IInv => EveryKeyFound
  <2> SUFFICES ASSUME IInv, del = NoDelete, NEW i \in Buckets, key[i] # None
               PROVE  i \in Found(key[i])
    BY DEF EveryKeyFound
  <2>1. Live(i)
    BY DEF Live
  <2> QED BY <2>1, LiveFound DEF IInv
<1> QED BY <1>1, Invariant, PTL

\* Neither the table nor the state map reaches the limit at which the code
\* aborts, and every field keeps its range, count also while entries come and go.
THEOREM LimitsKept == Spec => []NeverFull
<1>1. IInv => TypeOK
  BY OccupiedFinite DEF IInv, Types, Table, Room, TypeOK
<1>2. IInv => NeverFull
  BY <1>1 DEF IInv, Table, Room, State, Residency, NeverFull
<1> QED BY <1>2, Invariant, PTL

\* Air that the state map remembers has an entry that shows it.
THEOREM AirShown == Spec => []RememberedAirShown
<1>1. IInv => RememberedAirShown
  <2> SUFFICES ASSUME IInv, Idle, NEW k \in Keys, known[k] = "air"
               PROVE  Lookup(k) = Zero
    BY DEF RememberedAirShown
  <2>1. PICK i \in Buckets : Live(i) /\ key[i] = k /\ val[i] = Zero
    BY DEF IInv, State, AirIsEntered, Idle
  <2>2. Found(k) = {i}
    BY <2>1, LiveFound DEF IInv, Idle
  <2> QED BY <2>1, <2>2 DEF Lookup
<1> QED BY <1>1, Invariant, PTL

-----------------------------------------------------------------------------
(* The refinement of PageMap: the table with its deletions in steps, its   *)
(* evictions and its dirty queue implements a map of blocks to words.      *)

\* The key that is left in the hole of a deletion is the deleted one, or the
\* one of an entry that a probe meets first.
Stale ==
  del # NoDelete =>
    \/ key[del.hole] = del.key
    \/ \E i \in Buckets :
         Live(i) /\ key[i] = key[del.hole] /\ del.hole \notin Path(key[i], i)

\* A lookup gives the value of the live entry, also while a deletion moves
\* entries.
LookupRight ==
  \A k \in Keys : k # del.key =>
    /\ \A i \in Buckets : Live(i) /\ key[i] = k => Lookup(k) = val[i]
    /\ (\A i \in Buckets : Live(i) => key[i] # k) => Lookup(k) = Invalid

\* The map the table stands for.
PageOf(k) ==
  IF k = todo.key THEN todo.val
  ELSE IF k = del.key THEN IF todo = NoTodo THEN Invalid ELSE Zero
  ELSE Lookup(k)

\* The step changes no live entry of k.
Kept(k) ==
  /\ \A i \in Buckets : Live(i) /\ key[i] = k =>
       \E j \in Buckets : Live(j)' /\ key'[j] = k /\ val'[j] = val[i]
  /\ (\A i \in Buckets : Live(i) => key[i] # k) => \A i \in Buckets : Live(i)' => key'[i] # k

-----------------------------------------------------------------------------
(* Lookups. *)

\* A probe that meets nothing but other keys before bucket i ends there.
LEMMA FirstFound ==
  ASSUME Types, NEW k \in Keys, NEW i \in Found(k)
  PROVE  Found(k) = {i}
<1> SUFFICES ASSUME NEW j \in Found(k), j # i
             PROVE  FALSE
  OBVIOUS
<1>1. /\ Home[k] \in Buckets /\ i \in Buckets /\ j \in Buckets
      /\ key[i] = k /\ key[j] = k /\ i \notin Path(k, j) /\ j \notin Path(k, i)
  BY TableAssumption DEF Found
<1>2. Dist(Home[k], i) # Dist(Home[k], j)
  BY <1>1, DistUnique
<1>3. ~(Dist(Home[k], i) < Dist(Home[k], j)) /\ ~(Dist(Home[k], j) < Dist(Home[k], i))
  BY <1>1, OnPath
<1> QED BY <1>1, <1>2, <1>3, DistRange, Capacity

\* What is left in the hole never hides a live entry and is never taken for one.
LEMMA LookupIsRight ==
  ASSUME IInv, Stale
  PROVE  LookupRight
<1> SUFFICES ASSUME NEW k \in Keys, k # del.key
             PROVE  /\ \A i \in Buckets : Live(i) /\ key[i] = k => Lookup(k) = val[i]
                    /\ (\A i \in Buckets : Live(i) => key[i] # k) => Lookup(k) = Invalid
  BY DEF LookupRight
<1>1. Types /\ Table /\ k # None
  BY TableAssumption DEF IInv
<1>2. ASSUME NEW i \in Buckets, Live(i), key[i] = k
      PROVE  Lookup(k) = val[i]
  <2>1. \A b \in Path(k, i) : b \in Buckets /\ b # i /\ key[b] # None
    <3> SUFFICES ASSUME NEW b \in Path(k, i)
                 PROVE  b \in Buckets /\ b # i /\ key[b] # None
      OBVIOUS
    <3>1. b \in Buckets /\ Dist(Home[k], b) < Dist(Home[k], i) /\ Home[k] \in Buckets
      BY OnPath, TableAssumption
    <3>2. b # i
      BY <3>1, DistRange, Capacity
    <3> QED BY <1>1, <1>2, <3>1, <3>2 DEF Table, Reached
  <2>2. ASSUME NEW b \in Path(k, i), key[b] = k
        PROVE  FALSE
    <3>1. ~Live(b)
      BY <1>1, <1>2, <2>1, <2>2 DEF Table, Unique
    <3>2. del # NoDelete /\ b = del.hole
      BY <1>1, <2>2, <3>1 DEF Live
    <3>3. PICK j \in Buckets : Live(j) /\ key[j] = k /\ b \notin Path(k, j)
      BY <2>2, <3>2 DEF Stale
    <3>4. j = i
      BY <1>1, <1>2, <3>3 DEF Table, Unique
    <3> QED BY <2>2, <3>3, <3>4
  <2>3. i \in Found(k)
    BY <1>2, <2>1, <2>2 DEF Found
  <2>4. Found(k) = {i}
    BY <1>1, <2>3, FirstFound
  <2> QED BY <2>4 DEF Lookup
<1>3. ASSUME \A i \in Buckets : Live(i) => key[i] # k
      PROVE  Lookup(k) = Invalid
  <2>1. \A i \in Buckets : key[i] # k
    <3> SUFFICES ASSUME NEW i \in Buckets, key[i] = k
                 PROVE  FALSE
      OBVIOUS
    <3>1. del # NoDelete /\ i = del.hole
      BY <1>1, <1>3 DEF Live
    <3> QED BY <1>3, <3>1 DEF Stale
  <2> QED BY <2>1 DEF Lookup, Found
<1> QED BY <1>2, <1>3

\* A deletion leaves in its hole what it moved, or what it deletes.
LEMMA StaleKept ==
  ASSUME IInv, Stale, [Next]_vars
  PROVE  Stale'
<1>1. CASE del' = NoDelete
  BY <1>1 DEF Stale
<1>2. ASSUME NEW i \in Buckets, NEW then, StartDelete(i, then), key' = key
      PROVE  Stale'
  <2>1. del' = [key |-> key[i], hole |-> i, at |-> Succ(i), start |-> i]
    BY <1>2 DEF StartDelete
  <2> QED BY <1>2, <2>1 DEF Stale
<1>3. CASE del' = del /\ key' = key
  <2>1. \A i \in Buckets : Live(i)' <=> Live(i)
    BY <1>3 DEF Live
  <2> QED BY <1>3, <2>1 DEF Stale, Path
<1>4. CASE DeleteStep
  <2>1. /\ del # NoDelete /\ del' # NoDelete /\ del'.key = del.key
        /\ del.hole \in Buckets /\ del.at \in Buckets /\ del.at # del.hole /\ key[del.at] \in Keys
        /\ key[del.hole] # None
    <3>1. del # NoDelete /\ del' # NoDelete /\ del'.key = del.key /\ key[del.at] # None
      BY <1>4, StepKeepsTable DEF IInv, DeleteStep
    <3>2. del.hole \in Buckets /\ del.at \in Buckets /\ key[del.at] \in Keys /\ del.start \in Buckets
      BY <3>1 DEF IInv, Types
    <3>3. Dist(del.start, del.hole) < Dist(del.start, del.at)
      BY <3>1 DEF IInv, Table, Deletion
    <3>4. del.at # del.hole
      BY <3>2, <3>3, DistRange, Capacity
    <3> QED BY <3>1, <3>2, <3>3, <3>4 DEF IInv, Table, Deletion
  <2>2. CASE del' = [del EXCEPT !.at = Succ(del.at)] /\ key' = key
    <3>1. del'.hole = del.hole
      BY <2>2 DEF IInv, Types
    <3>2. \A i \in Buckets : Live(i)' <=> Live(i)
      BY <2>1, <2>2, <3>1 DEF Live
    <3> QED BY <2>1, <2>2, <3>1, <3>2 DEF Stale, Path
  <2>3. CASE /\ del' = [del EXCEPT !.hole = del.at, !.at = Succ(del.at)]
             /\ key' = [key EXCEPT ![del.hole] = key[del.at]]
             /\ Moves(del.at, del.hole)
    <3>0. PICK h \in Buckets, a \in Buckets : h = del.hole /\ a = del.at
      BY <2>1
    <3>1. del'.hole = a /\ key'[h] = key[a] /\ key'[a] = key[a]
      BY <2>1, <2>3, <3>0 DEF IInv, Types
    <3>2. Live(h)'
      BY <2>1, <3>0, <3>1, TableAssumption DEF Live
    <3>3. Home[key[a]] \in Buckets
      BY <2>1, <3>0, TableAssumption
    <3>4. Dist(Home[key[a]], h) < Dist(Home[key[a]], a)
      BY <2>1, <2>3, <3>0, <3>3, MovesMeans DEF Moves
    <3>5. a \notin Path(key[a], h)
      BY <2>1, <3>0, <3>3, <3>4, OnPath, DistRange, Capacity
    <3>6. Live(h)' /\ key'[h] = key'[del'.hole] /\ del'.hole \notin Path(key'[h], h)
      BY <3>1, <3>2, <3>5
    <3> QED BY <2>1, <3>6 DEF Stale
  <2> QED BY <1>4, <2>2, <2>3 DEF DeleteStep
<1>5. ASSUME NEW k \in Keys, NEW v, Idle, Set(k, v)
      PROVE  Stale'
  <2>1. CASE del' = del
    BY <1>1, <1>5, <2>1 DEF Idle
  <2>2. CASE \E i \in Evictable : StartDelete(i, [key |-> k, val |-> v]) /\ key' = key
    BY <1>2, <2>2 DEF Evictable
  <2> QED BY <1>5, <2>1, <2>2 DEF Set, tableVars
<1>6. ASSUME NEW k \in Keys, Evict(k) \/ Unmap(k)
      PROVE  Stale'
  <2>1. CASE del' = del
    BY <1>1, <1>6, <2>1 DEF Evict, Unmap, Idle
  <2>2. CASE \E i \in Found(k) : StartDelete(i, NoTodo) /\ key' = key
    BY <1>2, <2>2 DEF Found
  <2> QED BY <1>6, <2>1, <2>2 DEF Evict, Unmap, Unset, tableVars
<1>7. CASE Flush
  BY <1>1, <1>7 DEF Flush
<1>8. CASE DeleteEnd
  BY <1>1, <1>8 DEF DeleteEnd
<1>9. CASE InsertAfter
  BY <1>1, <1>9 DEF InsertAfter
<1>10. ASSUME NEW k \in Keys, NEW s \in Slots, Load(k, s)
       PROVE  Stale'
  BY <1>1, <1>10 DEF Load, Idle
<1>11. CASE UNCHANGED vars
  BY <1>3, <1>11 DEF vars, tableVars
<1>12. ASSUME NEW k \in Keys, Publish(k) \/ ShowAir(k)
       PROVE  Stale'
  BY <1>5, <1>12 DEF Publish, ShowAir
<1> QED BY <1>4, <1>6, <1>7, <1>8, <1>9, <1>10, <1>11, <1>12 DEF Next

-----------------------------------------------------------------------------
(* Steps of the map. *)

\* A step that touches neither the entry of k nor what is said of it.
LEMMA PageStays ==
  ASSUME LookupRight, LookupRight', NEW k \in Keys, Kept(k),
         k # del.key, k # del'.key, k # todo.key, k # todo'.key
  PROVE  PageOf(k)' = PageOf(k)
<1>1. PageOf(k) = Lookup(k) /\ PageOf(k)' = Lookup(k)'
  BY DEF PageOf
<1>2. CASE \E i \in Buckets : Live(i) /\ key[i] = k
  <2>1. PICK i \in Buckets : Live(i) /\ key[i] = k
    BY <1>2
  <2>2. PICK j \in Buckets : Live(j)' /\ key'[j] = k /\ val'[j] = val[i]
    BY <2>1 DEF Kept
  <2>3. Lookup(k) = val[i]
    BY <2>1 DEF LookupRight
  <2>4. Lookup(k)' = val'[j]
    BY <2>2 DEF LookupRight
  <2> QED BY <1>1, <2>2, <2>3, <2>4
<1>3. CASE \A i \in Buckets : Live(i) => key[i] # k
  <2>1. \A i \in Buckets : Live(i)' => key'[i] # k
    BY <1>3 DEF Kept
  <2>2. Lookup(k) = Invalid
    BY <1>3 DEF LookupRight
  <2>3. Lookup(k)' = Invalid
    BY <2>1 DEF LookupRight
  <2> QED BY <1>1, <2>2, <2>3
<1> QED BY <1>2, <1>3

\* A change of one block of the map.
LEMMA GiveStep ==
  ASSUME NEW k \in Keys, NEW s, NEW v, slotOf' = [slotOf EXCEPT ![k] = s], gpu' = gpu,
         PageOf(k)' = v, \A x \in Keys \ {k} : PageOf(x)' = PageOf(x)
  PROVE  Abstract!Give(k, s, v)
<1> DEFINE p == [x \in Keys |-> PageOf(x)]
<1>1. p' = [p EXCEPT ![k] = v]
  <2>1. p' = [x \in Keys |-> IF x = k THEN v ELSE PageOf(x)]
    BY Zenon
  <2>2. [p EXCEPT ![k] = v] = [x \in Keys |-> IF x = k THEN v ELSE PageOf(x)]
    OBVIOUS
  <2> QED BY <2>1, <2>2
<1>2. UNCHANGED [x \in Keys |-> LookupIn(gpu, x)]
  OBVIOUS
<1> QED BY <1>1, <1>2, Zenon DEF Abstract!Give, PageOf

\* A step the map does not see.
LEMMA StutterStep ==
  ASSUME slotOf' = slotOf, gpu' = gpu, \A x \in Keys : PageOf(x)' = PageOf(x)
  PROVE  UNCHANGED Abstract!absVars
<1>1. UNCHANGED [x \in Keys |-> PageOf(x)]
  OBVIOUS
<1>2. UNCHANGED [x \in Keys |-> LookupIn(gpu, x)]
  OBVIOUS
<1> QED BY <1>1, <1>2, Zenon DEF Abstract!absVars, PageOf

\* The initial states are initial states of the map.
LEMMA InitImplements ==
  ASSUME Init
  PROVE  Abstract!Init
<1>1. \A k \in Keys : k # todo.key /\ k # del.key /\ Found(k) = {}
  BY TableAssumption DEF Init, NoTodo, NoDelete, Found
<1>2. \A k \in Keys : PageOf(k) = Invalid
  BY <1>1 DEF PageOf, Lookup
<1>3. [k \in Keys |-> PageOf(k)] = [k \in Keys |-> Invalid]
  BY <1>2
<1>4. \A k \in Keys : LookupIn(gpu, k) \in Slots \cup {Zero, Invalid}
  <2>1. gpu \in [Buckets -> Entries]
    BY TableAssumption DEF Init
  <2>2. \A i \in Buckets : gpu[i].val \in Slots \cup {Zero, Invalid}
    BY <2>1 DEF Entries
  <2> TAKE k \in Keys
  <2> DEFINE found == {i \in Buckets : gpu[i].key = k /\ \A b \in Path(k, i) : gpu[b].key \notin {k, None}}
  <2>3. LookupIn(gpu, k) = IF found = {} THEN Invalid ELSE gpu[CHOOSE i \in found : TRUE].val
    BY DEF LookupIn
  <2>4. found \subseteq Buckets
    OBVIOUS
  <2> HIDE DEF found
  <2>5. found # {} => (CHOOSE i \in found : TRUE) \in Buckets
    BY <2>4
  <2> QED BY <2>2, <2>3, <2>5
<1>5. [k \in Keys |-> LookupIn(gpu, k)] \in [Keys -> Slots \cup {Zero, Invalid}]
  BY <1>4
<1> QED BY <1>3, <1>5, Zenon DEF Init, Abstract!Init, PageOf

\* No block has the key of an empty bucket.
LEMMA NoneWaits ==
  ASSUME NEW k \in Keys
  PROVE  k # NoTodo.key /\ k # NoDelete.key
BY TableAssumption DEF NoTodo, NoDelete

\* page_flush records the whole map.
LEMMA FlushImplements ==
  ASSUME IInv, LookupRight, LookupRight', Flush
  PROVE  Abstract!Record
<1>1. /\ del = NoDelete /\ todo = NoTodo /\ slotOf' = slotOf
      /\ key' = key /\ val' = val /\ del' = del /\ todo' = todo
  BY DEF Flush, tableVars, stateVars
<1>2. \A i \in Buckets : gpu'[i].key = key[i] /\ gpu'[i].val = val[i]
  <2> SUFFICES ASSUME NEW i \in Buckets
               PROVE  gpu'[i].key = key[i] /\ gpu'[i].val = val[i]
    OBVIOUS
  <2>1. gpu'[i] = IF all \/ i \in dirty THEN [key |-> key[i], val |-> val[i]] ELSE gpu[i]
    BY DEF Flush
  <2>2. ~(all \/ i \in dirty) => gpu[i] = [key |-> key[i], val |-> val[i]]
    BY DEF IInv, DeviceFollows
  <2>3. gpu'[i] = [key |-> key[i], val |-> val[i]]
    BY <2>1, <2>2, Zenon
  <2> QED BY <2>3
<1>3. ASSUME NEW k \in Keys
      PROVE  LookupIn(gpu', k) = PageOf(k)
  <2> DEFINE found == {i \in Buckets : gpu'[i].key = k /\ \A b \in Path(k, i) : gpu'[b].key \notin {k, None}}
  <2>1. LookupIn(gpu', k) = IF found = {} THEN Invalid ELSE gpu'[CHOOSE i \in found : TRUE].val
    BY DEF LookupIn
  <2>2. found = Found(k)
    BY <1>2, OnPath DEF Found
  <2>3. Found(k) # {} => (CHOOSE i \in Found(k) : TRUE) \in Buckets
    BY DEF Found
  <2> HIDE DEF found
  <2>4. LookupIn(gpu', k) = Lookup(k)
    BY <1>2, <2>1, <2>2, <2>3 DEF Lookup
  <2> QED BY <1>1, <2>4, NoneWaits DEF PageOf
<1>4. ASSUME NEW k \in Keys
      PROVE  PageOf(k)' = PageOf(k)
  <2>1. Kept(k)
    BY <1>1 DEF Kept, Live
  <2> QED BY <1>1, <2>1, NoneWaits, PageStays
<1>5. [k \in Keys |-> LookupIn(gpu, k)]' = [k \in Keys |-> PageOf(k)]
  BY <1>3
<1>6. UNCHANGED [k \in Keys |-> PageOf(k)]
  BY <1>4
<1> QED BY <1>1, <1>5, <1>6, Zenon DEF Abstract!Record, PageOf

\* The map does not see a deletion move entries.
LEMMA DeleteStepStutters ==
  ASSUME IInv, LookupRight, LookupRight', DeleteStep
  PROVE  UNCHANGED Abstract!absVars
<1>1. /\ del'.key = del.key
      /\ \A j \in Buckets : Live(j)' =>
           \E i \in Buckets : Live(i) /\ key[i] = key'[j] /\ val[i] = val'[j]
      /\ \A i \in Buckets : Live(i) =>
           \E j \in Buckets : Live(j)' /\ key[i] = key'[j] /\ val[i] = val'[j]
  BY StepKeepsTable DEF IInv
<1>2. todo' = todo /\ slotOf' = slotOf /\ gpu' = gpu
  BY DEF DeleteStep, stateVars
<1>3. ASSUME NEW k \in Keys
      PROVE  PageOf(k)' = PageOf(k)
  <2>1. CASE k = todo.key \/ k = del.key
    BY <1>1, <1>2, <2>1 DEF PageOf
  <2>2. CASE k # todo.key /\ k # del.key
    <3>1. Kept(k)
      BY <1>1 DEF Kept
    <3> QED BY <1>1, <1>2, <2>2, <3>1, PageStays
  <2> QED BY <2>1, <2>2
<1> QED BY <1>2, <1>3, StutterStep

\* At its end the deletion of an eviction has forgotten air.
LEMMA DeleteEndImplements ==
  ASSUME IInv, LookupRight, LookupRight', DeleteEnd
  PROVE  \/ UNCHANGED Abstract!absVars
         \/ \E k \in Keys : Abstract!ForgetAir(k)
<1>1. /\ del' = NoDelete
      /\ \A j \in Buckets : Live(j)' <=> Live(j)
      /\ \A j \in Buckets : Live(j) => key'[j] = key[j] /\ val'[j] = val[j]
  BY EndKeepsTable DEF IInv
<1>2. todo' = todo /\ slotOf' = slotOf /\ gpu' = gpu /\ del # NoDelete
  BY DEF DeleteEnd
<1>3. del.key \in Keys /\ \A i \in Buckets : Live(i) => key[i] # del.key
  BY <1>2 DEF IInv, Table, Deletion
<1>4. PICK k \in Keys : k = del.key
  BY <1>3
<1>5. ASSUME NEW x \in Keys, x # k \/ x = todo.key
      PROVE  PageOf(x)' = PageOf(x)
  <2>1. CASE x = todo.key
    BY <1>2, <2>1 DEF PageOf
  <2>2. CASE x # todo.key
    <3>1. Kept(x)
      BY <1>1 DEF Kept
    <3> QED BY <1>1, <1>2, <1>4, <1>5, <2>2, <3>1, NoneWaits, PageStays
  <2> QED BY <2>1, <2>2
<1>6. CASE k = todo.key
  BY <1>2, <1>5, <1>6, StutterStep
<1>7. CASE k # todo.key
  <2>1. \A i \in Buckets : Live(i)' => key'[i] # k
    BY <1>1, <1>3, <1>4
  <2>2. k # del'.key
    BY <1>1, NoneWaits
  <2>3. Lookup(k)' = Invalid
    BY <2>1, <2>2 DEF LookupRight
  <2>4. PageOf(k)' = Invalid
    BY <1>2, <1>7, <2>2, <2>3 DEF PageOf
  <2>5. CASE todo = NoTodo
    <3>1. PageOf(k)' = PageOf(k)
      BY <1>4, <1>7, <2>4, <2>5 DEF PageOf
    <3>2. \A x \in Keys : PageOf(x)' = PageOf(x)
      BY <1>5, <3>1
    <3> QED BY <1>2, <3>2, StutterStep
  <2>6. CASE todo # NoTodo
    <3>1. PageOf(k) = Zero
      BY <1>4, <1>7, <2>6 DEF PageOf
    <3>2. slotOf' = [slotOf EXCEPT ![k] = slotOf[k]]
      BY <1>2 DEF IInv, Types
    <3>3. Abstract!Give(k, slotOf[k], Invalid)
      BY <1>2, <1>5, <2>4, <3>2, GiveStep
    <3>4. [x \in Keys |-> PageOf(x)][k] = Zero
      BY <3>1
    <3>5. Abstract!ForgetAir(k)
      BY <3>3, <3>4, Zenon DEF Abstract!ForgetAir, PageOf
    <3> QED BY <3>5
  <2> QED BY <2>5, <2>6
<1> QED BY <1>6, <1>7

\* The entry that waited shows what the map already said.
LEMMA InsertAfterStutters ==
  ASSUME IInv, LookupRight, LookupRight', InsertAfter
  PROVE  UNCHANGED Abstract!absVars
<1>1. /\ del = NoDelete /\ del' = NoDelete /\ todo # NoTodo /\ todo' = NoTodo
      /\ slotOf' = slotOf /\ gpu' = gpu
  BY DEF InsertAfter, stateVars
<1>2. /\ todo.key \in Keys /\ \A i \in Buckets : Live(i) => key[i] # todo.key
  BY <1>1 DEF IInv, State, Waiting
<1>3. PICK i \in Free(todo.key) :
        key' = [key EXCEPT ![i] = todo.key] /\ val' = [val EXCEPT ![i] = todo.val]
  BY Zenon DEF InsertAfter, Insert
<1>4. i \in Buckets /\ key[i] = None
  BY DEF Free
<1>5. \A j \in Buckets : /\ key'[j] = IF j = i THEN todo.key ELSE key[j]
                         /\ val'[j] = IF j = i THEN todo.val ELSE val[j]
  BY <1>3, <1>4 DEF IInv, Types
<1>6. \A j \in Buckets : Live(j)' <=> Live(j) \/ j = i
  BY <1>1, <1>2, <1>4, <1>5, TableAssumption DEF Live
<1>7. ASSUME NEW k \in Keys
      PROVE  PageOf(k)' = PageOf(k)
  <2>1. k # del.key /\ k # del'.key /\ k # todo'.key
    BY <1>1, NoneWaits
  <2>2. CASE k = todo.key
    <3>1. Lookup(k)' = todo.val
      BY <1>4, <1>5, <1>6, <2>1, <2>2 DEF LookupRight
    <3> QED BY <2>1, <2>2, <3>1 DEF PageOf
  <2>3. CASE k # todo.key
    <3>1. Kept(k)
      BY <1>4, <1>5, <1>6, <2>3 DEF Kept, Live
    <3> QED BY <2>1, <2>3, <3>1, PageStays
  <2> QED BY <2>2, <2>3
<1> QED BY <1>1, <1>7, StutterStep

\* page_set changes the map at once, whether it enters the block or delays it.
LEMMA SetImplements ==
  ASSUME IInv, LookupRight, LookupRight', Idle, NEW k \in Keys, NEW s, NEW v,
         Entered(k, v) \/ Delayed(k, v), slotOf' = [slotOf EXCEPT ![k] = s], gpu' = gpu
  PROVE  Abstract!Give(k, s, v)
<1>1. \A x \in Keys : x # todo.key /\ x # del.key
  BY NoneWaits DEF Idle
<1>2. CASE Entered(k, v)
  <2>1. PICK i \in Buckets :
          /\ Live(i)' /\ key'[i] = k /\ val'[i] = v /\ (Live(i) => key[i] = k)
          /\ \A j \in Buckets : j # i =>
               /\ Live(j)' <=> Live(j)
               /\ Live(j) => key[j] # k /\ key'[j] = key[j] /\ val'[j] = val[j]
    BY <1>2, Zenon DEF Entered
  <2>2. \A x \in Keys : x # todo'.key /\ x # del'.key
    BY <1>2, NoneWaits DEF Entered
  <2>3. PageOf(k)' = v
    <3>1. Lookup(k)' = v
      BY <2>1, <2>2 DEF LookupRight
    <3> QED BY <2>2, <3>1 DEF PageOf
  <2>4. ASSUME NEW x \in Keys \ {k}
        PROVE  PageOf(x)' = PageOf(x)
    <3>1. Kept(x)
      BY <2>1 DEF Kept
    <3> QED BY <1>1, <2>2, <3>1, PageStays
  <2> QED BY <2>3, <2>4, GiveStep
<1>3. CASE Delayed(k, v)
  <2>1. /\ todo'.key = k /\ todo'.val = v /\ todo' # NoTodo /\ key' = key /\ val' = val
        /\ \A j \in Buckets : Live(j) => key[j] # k
    BY <1>3 DEF Delayed
  <2>2. PICK i \in Buckets :
          /\ Live(i) /\ val[i] = Zero /\ del'.key = key[i]
          /\ \A j \in Buckets : Live(j)' <=> Live(j) /\ j # i
    BY <1>3, Zenon DEF Delayed
  <2>3. PageOf(k)' = v
    BY <2>1 DEF PageOf
  <2>4. ASSUME NEW x \in Keys \ {k}
        PROVE  PageOf(x)' = PageOf(x)
    <3>1. CASE x = key[i]
      <4>1. PageOf(x)' = Zero
        BY <2>1, <2>2, <3>1 DEF PageOf
      <4>2. Lookup(x) = Zero
        BY <1>1, <2>2, <3>1 DEF LookupRight
      <4> QED BY <1>1, <4>1, <4>2 DEF PageOf
    <3>2. CASE x # key[i]
      <4>1. Kept(x)
        BY <2>1, <2>2, <3>2 DEF Kept
      <4> QED BY <1>1, <2>1, <2>2, <3>2, <4>1, PageStays
    <3> QED BY <3>1, <3>2
  <2> QED BY <2>3, <2>4, GiveStep
<1> QED BY <1>2, <1>3

\* The calls of the render thread change one block of the map each.
LEMMA CallImplements ==
  ASSUME IInv, LookupRight, LookupRight', NEW k \in Keys
  PROVE  /\ Publish(k) => Abstract!Publish(k)
         /\ ShowAir(k) => Abstract!ShowAir(k)
<1>1. ASSUME Publish(k)
      PROVE  Abstract!Publish(k)
  <2>1. Idle /\ slotOf[k] # None /\ slotOf' = slotOf /\ gpu' = gpu /\ Set(k, slotOf[k])
    BY <1>1 DEF Publish, stateVars
  <2>2. PICK s \in Slots : s = slotOf[k]
    BY <2>1 DEF IInv, Types
  <2>3. slotOf' = [slotOf EXCEPT ![k] = s] /\ Set(k, s)
    BY <2>1, <2>2 DEF IInv, Types
  <2>4. Entered(k, s) \/ Delayed(k, s)
    BY <2>1, <2>3, SetEnters DEF IInv, State
  <2>5. Abstract!Give(k, s, s)
    BY <2>1, <2>3, <2>4, SetImplements
  <2> QED BY <2>1, <2>2, <2>5, Zenon DEF Abstract!Publish, Abstract!Give
<1>2. ASSUME ShowAir(k)
      PROVE  Abstract!ShowAir(k)
  <2>1. Idle /\ slotOf' = [slotOf EXCEPT ![k] = None] /\ gpu' = gpu /\ Set(k, Zero)
    BY <1>2 DEF ShowAir
  <2>2. Entered(k, Zero) \/ Delayed(k, Zero)
    BY <2>1, SetEnters DEF IInv, State
  <2>3. Abstract!Give(k, None, Zero)
    BY <2>1, <2>2, SetImplements
  <2> QED BY <2>3 DEF Abstract!ShowAir
<1> QED BY <1>1, <1>2

\* An entry is gone from the map when its deletion begins.
LEMMA UnsetImplements ==
  ASSUME IInv, LookupRight, LookupRight', NEW k \in Keys, NEW s, Idle,
         slotOf' = [slotOf EXCEPT ![k] = s], gpu' = gpu, Unset(k)
  PROVE  Abstract!Give(k, s, Invalid)
<1>1. /\ Idle /\ slotOf' = [slotOf EXCEPT ![k] = s] /\ gpu' = gpu
      /\ Unset(k) /\ key' = key /\ val' = val /\ UNCHANGED tableVars
  BY DEF Unset, tableVars
<1>2. /\ del = NoDelete /\ todo = NoTodo
      /\ \A x \in Keys : x # todo.key /\ x # del.key
  BY <1>1, NoneWaits DEF Idle
<1>3. CASE Found(k) = {}
  <2>1. del' = del /\ todo' = todo
    BY <1>1, <1>3 DEF Unset
  <2>2. \A j \in Buckets : (Live(j)' <=> Live(j)) /\ (Live(j) => key[j] # k)
    BY <1>1, <1>2, <1>3, <2>1, LiveFound DEF IInv, Live
  <2>3. \A x \in Keys : Kept(x)
    BY <1>1, <2>2 DEF Kept
  <2>4. \A x \in Keys : PageOf(x)' = PageOf(x)
    BY <1>2, <2>1, <2>3, PageStays
  <2>5. Lookup(k) = Invalid
    BY <1>2, <2>2 DEF LookupRight
  <2>6. PageOf(k)' = Invalid
    BY <1>2, <2>4, <2>5 DEF PageOf
  <2> QED BY <1>1, <2>4, <2>6, GiveStep
<1>4. CASE Found(k) # {}
  <2>1. PICK i \in Found(k) : StartDelete(i, NoTodo)
    BY <1>1, <1>4, Zenon DEF Unset
  <2>2. i \in Buckets /\ key[i] = k /\ key[i] # None
    BY TableAssumption DEF Found
  <2>3. \A j \in Buckets : Live(j)' <=> Live(j) /\ j # i
    BY <1>1, <2>1, <2>2, StartKeepsTable DEF IInv
  <2>4. del'.key = k /\ todo' = NoTodo
    BY <2>1, <2>2 DEF StartDelete
  <2>5. PageOf(k)' = Invalid
    BY <2>4, NoneWaits DEF PageOf
  <2>6. ASSUME NEW x \in Keys \ {k}
        PROVE  PageOf(x)' = PageOf(x)
    <3>1. Kept(x)
      BY <1>1, <2>2, <2>3 DEF Kept
    <3> QED BY <1>2, <2>4, <3>1, NoneWaits, PageStays
  <2> QED BY <1>1, <2>5, <2>6, GiveStep
<1> QED BY <1>3, <1>4

\* An evicted block, and one that is decoded again.
LEMMA EvictImplements ==
  ASSUME IInv, LookupRight, LookupRight', NEW k \in Keys, Evict(k) \/ Unmap(k)
  PROVE  Abstract!Evict(k) \/ Abstract!Unmap(k)
<1>1. CASE Evict(k)
  <2>1. Abstract!Give(k, None, Invalid)
    BY <1>1, UnsetImplements DEF Evict
  <2> QED BY <1>1, <2>1 DEF Abstract!Evict, Evict
<1>2. CASE Unmap(k)
  <2>1. slotOf' = [slotOf EXCEPT ![k] = slotOf[k]]
    BY <1>2 DEF Unmap, stateVars, IInv, Types
  <2>2. Abstract!Give(k, slotOf[k], Invalid)
    BY <1>2, <2>1, UnsetImplements DEF Unmap
  <2> QED BY <1>2, <2>2 DEF Abstract!Unmap, Unmap
<1> QED BY <1>1, <1>2

\* A block that is given a slot keeps its place in the map until it is decoded.
LEMMA LoadImplements ==
  ASSUME IInv, LookupRight, LookupRight', NEW k \in Keys, NEW s \in Slots, Load(k, s)
  PROVE  Abstract!Load(k, s)
<1>1. /\ Idle /\ slotOf[k] = None /\ slotOf' = [slotOf EXCEPT ![k] = s] /\ gpu' = gpu
      /\ key' = key /\ val' = val /\ del' = del /\ todo' = todo
  BY DEF Load, tableVars
<1>2. \A x \in Keys : Kept(x)
  BY <1>1 DEF Kept, Live
<1>3. \A x \in Keys : PageOf(x)' = PageOf(x)
  BY <1>1, <1>2, NoneWaits, PageStays DEF Idle
<1>4. PICK v : v = [x \in Keys |-> PageOf(x)][k]
  OBVIOUS
<1>5. PageOf(k)' = v
  BY <1>3, <1>4
<1>6. Abstract!Give(k, s, v)
  BY <1>1, <1>3, <1>5, GiveStep
<1> QED BY <1>1, <1>4, <1>6, Zenon DEF Abstract!Load, Abstract!Give, PageOf

\* Every step is a step of the map or invisible to it.
LEMMA NextImplements ==
  ASSUME IInv, LookupRight, LookupRight', [Next]_vars
  PROVE  [Abstract!Next]_Abstract!absVars
<1>1. CASE Flush
  BY <1>1, FlushImplements DEF Abstract!Next
<1>2. CASE DeleteStep
  BY <1>2, DeleteStepStutters
<1>3. CASE DeleteEnd
  BY <1>3, DeleteEndImplements DEF Abstract!Next
<1>4. CASE InsertAfter
  BY <1>4, InsertAfterStutters
<1>5. ASSUME NEW k \in Keys, Evict(k) \/ Unmap(k)
      PROVE  Abstract!Next
  BY <1>5, EvictImplements DEF Abstract!Next
<1>6. ASSUME NEW k \in Keys, Publish(k) \/ ShowAir(k)
      PROVE  Abstract!Next
  BY <1>6, CallImplements DEF Abstract!Next
<1>7. ASSUME NEW k \in Keys, NEW s \in Slots, Load(k, s)
      PROVE  Abstract!Next
  BY <1>7, LoadImplements DEF Abstract!Next
<1>8. CASE UNCHANGED vars
  <2>1. /\ slotOf' = slotOf /\ gpu' = gpu /\ key' = key /\ val' = val
        /\ del' = del /\ todo' = todo
    BY <1>8 DEF vars, tableVars, stateVars
  <2>2. \A x \in Keys : PageOf(x)' = PageOf(x)
    BY <2>1 DEF PageOf, Lookup, Found
  <2> QED BY <2>1, <2>2, StutterStep
<1> QED BY <1>1, <1>2, <1>3, <1>4, <1>5, <1>6, <1>7, <1>8 DEF Next

\* The sparse page table and its device copy implement the map of PageMap: the
\* deletions of br_map_delete, the evictions of page_set and the copies of
\* page_flush are seen as changes of one block and as a record of them all.
THEOREM PageTableImplementsMap == Spec => ImplementsPageMap
<1>1. Init => Abstract!Init
  BY InitImplements
<1>2. Init => Stale
  BY DEF Init, Stale
<1>3. IInv /\ Stale /\ [Next]_vars => Stale'
  BY StaleKept
<1>4. IInv /\ Stale => LookupRight
  BY LookupIsRight
<1>5. IInv /\ LookupRight /\ LookupRight' /\ [Next]_vars => [Abstract!Next]_Abstract!absVars
  BY NextImplements
<1>6. Spec => []IInv
  BY Invariant
<1> QED BY <1>1, <1>2, <1>3, <1>4, <1>5, <1>6, PTL DEF Spec, ImplementsPageMap, Abstract!Spec
=============================================================================
