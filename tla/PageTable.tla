------------------------------ MODULE PageTable -----------------------------
(***************************************************************************)
(* The sparse page table of the brick atlas (page_set and page_flush of    *)
(* vk/vkbackend.c over the open-addressing map of vk/blockmap.h), with the *)
(* state map it forgets air together with.  The render thread owns all of  *)
(* it; the device has a copy that changes with the frame that is recorded. *)
(*                                                                         *)
(* The loop of br_map_delete is a step per bucket.  An entry stands for    *)
(* its three words, a queue of dirty words for one of entries.  Where the  *)
(* eviction cursor stands is left open: any air entry may be evicted, any  *)
(* nonresident block forgotten.                                            *)
(***************************************************************************)
EXTENDS Integers, FiniteSets

CONSTANTS
  Keys,       \* blocks
  Slots,      \* atlas slots
  Cap,        \* hash_cap: buckets of the table and of the state map
  Home,       \* Home[k]: br_hash(k) & (capacity - 1)
  DirtyCap,   \* page_dirty_cap, in entries
  Garbage,    \* what the device buffer may hold at the start
  Zero, Invalid, None \* BR_PAGE_ZERO, BR_INVALID, no slot or BR_KEY_EMPTY

Buckets == 0..(Cap - 1)
Entries == [key : Keys \cup {None}, val : Slots \cup {Zero, Invalid}]

ASSUME TableAssumption ==
  /\ IsFiniteSet(Keys) /\ IsFiniteSet(Slots)
  /\ Cap \in Nat /\ Cap >= 4 /\ Cap >= 4 * Cardinality(Slots)
  /\ Home \in [Keys -> Buckets]
  /\ DirtyCap \in Nat
  /\ Garbage \subseteq [Buckets -> Entries]
  /\ None \notin Keys \cup Slots /\ Zero \notin Slots /\ Invalid \notin Slots
  /\ Zero # Invalid

VARIABLES
  key, val,   \* page_map.entries, in the page shadow
  count,      \* page_map.count
  del,        \* br_map_delete under way: [key, hole, at, start], or NoDelete
  todo,       \* the page_set that waits for an eviction: [key, val], or NoTodo
  slotOf,     \* bs.state, low bits: the slot of a block, or None
  known,      \* bs.state, high bits: "air", "solid", or "none" for no entry
  dirty, ndirty, all, \* page_dirty, page_ndirty, page_dirty_all
  gpu         \* the table as the newest recorded frame reads it

tableVars == <<key, val, count>>
stateVars == <<slotOf, known>>
dirtyVars == <<dirty, ndirty, all>>
vars == <<tableVars, del, todo, stateVars, dirtyVars, gpu>>

NoDelete == [key |-> None, hole |-> 0, at |-> 0, start |-> 0]
NoTodo   == [key |-> None, val |-> Invalid]

\* Every field keeps its range, the queue of dirty entries its capacity.
TypeOK ==
  /\ key \in [Buckets -> Keys \cup {None}]
  /\ val \in [Buckets -> Slots \cup {Zero, Invalid}]
  /\ count \in Nat
  /\ del \in [key : Keys \cup {None}, hole : Buckets, at : Buckets, start : Buckets]
  /\ todo \in [key : Keys \cup {None}, val : Slots \cup {Zero, Invalid}]
  /\ slotOf \in [Keys -> Slots \cup {None}]
  /\ known \in [Keys -> {"none", "air", "solid"}]
  /\ dirty \subseteq Buckets /\ ndirty \in 0..DirtyCap /\ all \in BOOLEAN
  /\ gpu \in [Buckets -> Entries]

\* The sparse branch of r3d_bricks_begin, after page_alloc.
Init ==
  /\ key = [i \in Buckets |-> None] /\ val = [i \in Buckets |-> Invalid] /\ count = 0
  /\ del = NoDelete /\ todo = NoTodo
  /\ slotOf = [k \in Keys |-> None] /\ known = [k \in Keys |-> "none"]
  /\ dirty = {} /\ ndirty = 0 /\ all = TRUE
  /\ gpu \in Garbage

-----------------------------------------------------------------------------
(* Probing (br_map_find, br_map_insert; resident_page64 in the shaders). *)

Succ(i) == IF i = Cap - 1 THEN 0 ELSE i + 1

\* Steps from bucket a to bucket b: (b - a) & mask.
Dist(a, b) == IF b >= a THEN b - a ELSE b - a + Cap

\* The buckets a probe for k passes before i.
Path(k, i) == {b \in Buckets : Dist(Home[k], b) < Dist(Home[k], i)}

Found(k) == {i \in Buckets : key[i] = k /\ \A b \in Path(k, i) : key[b] \notin {k, None}}
Free(k)  == {i \in Buckets : key[i] = None /\ \A b \in Path(k, i) : key[b] \notin {k, None}}

Lookup(k) == IF Found(k) = {} THEN Invalid ELSE val[CHOOSE i \in Found(k) : TRUE]

-----------------------------------------------------------------------------
(* Dirty entries. *)

\* Mutant: a full queue drops the entry.
DirtyDrops(i) ==
  /\ dirty'  = IF all \/ ndirty = DirtyCap THEN dirty ELSE dirty \cup {i}
  /\ ndirty' = IF all \/ ndirty = DirtyCap THEN ndirty ELSE ndirty + 1
  /\ UNCHANGED all

\* page_dirty_entry: a full queue makes the whole table dirty.
Dirty(i) ==
  /\ dirty'  = IF all \/ ndirty = DirtyCap THEN dirty ELSE dirty \cup {i}
  /\ ndirty' = IF all \/ ndirty = DirtyCap THEN ndirty ELSE ndirty + 1
  /\ all'    = (all \/ ndirty = DirtyCap)

\* page_flush.  The words between two near dirty words are copied along.
Flush ==
  /\ del = NoDelete /\ todo = NoTodo
  /\ all \/ ndirty # 0
  /\ gpu' = [i \in Buckets |-> IF all \/ i \in dirty THEN [key |-> key[i], val |-> val[i]]
                               ELSE gpu[i]]
  /\ dirty' = {} /\ ndirty' = 0 /\ all' = FALSE
  /\ UNCHANGED <<tableVars, del, todo, stateVars>>

-----------------------------------------------------------------------------
(* page_set. *)

StartDelete(i, then) ==
  /\ del' = [key |-> key[i], hole |-> i, at |-> Succ(i), start |-> i]
  /\ todo' = then

\* page_set(k, BR_INVALID)
Unset(k) ==
  /\ IF Found(k) = {} THEN UNCHANGED <<del, todo>>
                      ELSE \E i \in Found(k) : StartDelete(i, NoTodo)
  /\ UNCHANGED <<tableVars, dirtyVars>>

\* Mutants: the limit is off by one; a mapped slot may be evicted.
EvictableLate == IF count > Cap \div 2 THEN {i \in Buckets : key[i] # None /\ val[i] = Zero} ELSE {}
EvictableAny  == IF count >= Cap \div 2 THEN {i \in Buckets : key[i] # None} ELSE {}

\* A new entry makes room first when the table is half full.
Evictable == IF count >= Cap \div 2 THEN {i \in Buckets : key[i] # None /\ val[i] = Zero} ELSE {}

Insert(k, v) ==
  /\ \E i \in Free(k) :
       /\ key' = [key EXCEPT ![i] = k]
       /\ val' = [val EXCEPT ![i] = v]
       /\ Dirty(i)
  /\ count' = count + 1

Set(k, v) ==
  \/ /\ \E i \in Found(k) :
          \/ val[i] = v /\ UNCHANGED <<val, dirtyVars>>
          \/ val[i] # v /\ val' = [val EXCEPT ![i] = v] /\ Dirty(i)
     /\ UNCHANGED <<key, count, del, todo>>
  \/ /\ Found(k) = {} /\ Evictable = {}
     /\ Insert(k, v)
     /\ UNCHANGED <<del, todo>>
  \/ /\ Found(k) = {}
     /\ \E i \in Evictable : StartDelete(i, [key |-> k, val |-> v])
     /\ UNCHANGED <<tableVars, dirtyVars>>

-----------------------------------------------------------------------------
(* br_map_delete: later entries of the cluster move up into the hole. *)

\* Mutant: an entry one bucket from its home stays where it is.
Stays(i, hole) == Dist(Home[key[i]], i) > Dist(hole, i)

\* Whether the entry of bucket i may move up to the hole.
Moves(i, hole) == Dist(Home[key[i]], i) >= Dist(hole, i)

DeleteStep ==
  /\ del # NoDelete /\ del.at # del.start /\ key[del.at] # None
  /\ IF Moves(del.at, del.hole)
       THEN /\ key' = [key EXCEPT ![del.hole] = key[del.at]]
            /\ val' = [val EXCEPT ![del.hole] = val[del.at]]
            /\ Dirty(del.hole)
            /\ del' = [del EXCEPT !.hole = del.at, !.at = Succ(del.at)]
       ELSE /\ del' = [del EXCEPT !.at = Succ(del.at)]
            /\ UNCHANGED <<key, val, dirtyVars>>
  /\ UNCHANGED <<count, todo, stateVars, gpu>>

\* Mutant: the state map keeps the air the table forgets.
ForgetsNothing(k) == FALSE

\* The hole becomes empty; after an eviction the state map forgets the air.
Forgets(k) == todo # NoTodo /\ slotOf[k] = None /\ known[k] = "air"

DeleteEnd ==
  /\ del # NoDelete /\ (del.at = del.start \/ key[del.at] = None)
  /\ key' = [key EXCEPT ![del.hole] = None]
  /\ val' = [val EXCEPT ![del.hole] = Invalid]
  /\ count' = count - 1
  /\ Dirty(del.hole)
  /\ known' = IF Forgets(del.key) THEN [known EXCEPT ![del.key] = "none"] ELSE known
  /\ del' = NoDelete
  /\ UNCHANGED <<todo, slotOf, gpu>>

InsertAfter ==
  /\ del = NoDelete /\ todo # NoTodo
  /\ Insert(todo.key, todo.val)
  /\ todo' = NoTodo
  /\ UNCHANGED <<del, stateVars, gpu>>

-----------------------------------------------------------------------------
(* The calls of the render thread. *)

Idle == del = NoDelete /\ todo = NoTodo
Remembered == {k \in Keys : known[k] # "none"}

\* brick_state_set of k makes room by forgetting a nonresident block.
Pruned(k) ==
  LET old == {x \in Remembered : slotOf[x] = None}
  IN IF k \in Remembered \/ Cardinality(Remembered) < (Cap * 3) \div 4 \/ old = {}
       THEN {known}
       ELSE {[known EXCEPT ![x] = "none"] : x \in old}

\* A free slot is given to a block nobody remembers as air (stream_submit);
\* the maximum of a block without an entry reads as 255.
Load(k, s) ==
  /\ Idle /\ slotOf[k] = None /\ known[k] # "air"
  /\ \A x \in Keys : slotOf[x] # s
  /\ slotOf' = [slotOf EXCEPT ![k] = s]
  /\ \E kn \in Pruned(k) : known' = [kn EXCEPT ![k] = "solid"]
  /\ UNCHANGED <<tableVars, del, todo, dirtyVars, gpu>>

\* Its slot goes to another block, or its batch failed.
Evict(k) ==
  /\ Idle /\ slotOf[k] # None
  /\ slotOf' = [slotOf EXCEPT ![k] = None]
  /\ Unset(k)
  /\ UNCHANGED <<known, gpu>>

\* It keeps its slot, which is decoded again to repair a seam.
Unmap(k) ==
  /\ Idle /\ slotOf[k] # None
  /\ Unset(k)
  /\ UNCHANGED <<stateVars, gpu>>

\* stream_begin publishes a decoded block ...
Publish(k) ==
  /\ Idle /\ slotOf[k] # None
  /\ Set(k, slotOf[k])
  /\ UNCHANGED <<stateVars, gpu>>

\* ... and one that decoded as air; stream_submit does the same for a block
\* whose source is known to be zero.
ShowAir(k) ==
  /\ Idle
  /\ slotOf' = [slotOf EXCEPT ![k] = None]
  /\ \E kn \in Pruned(k) : known' = [kn EXCEPT ![k] = "air"]
  /\ Set(k, Zero)
  /\ UNCHANGED gpu

Next ==
  \/ Flush \/ DeleteStep \/ DeleteEnd \/ InsertAfter
  \/ \E k \in Keys : Evict(k) \/ Unmap(k) \/ Publish(k) \/ ShowAir(k) \/ \E s \in Slots : Load(k, s)

Spec == Init /\ [][Next]_vars

-----------------------------------------------------------------------------
\* What the device reads is the shadow but for entries queued for the next
\* frame, whatever the deletions moved and also after the queue overflowed.
DeviceFollows ==
  ~all => \A i \in Buckets \ dirty : gpu[i] = [key |-> key[i], val |-> val[i]]

\* A probe finds every entry: no deletion leaves a gap before a key of its
\* cluster, also across the end of the table.
EveryKeyFound ==
  del = NoDelete => \A i \in Buckets : key[i] # None => i \in Found(key[i])

\* Nothing grows past its limit: neither map fills up, so that the two abort
\* calls are never reached, and no dirty entry is written past the queue.
NeverFull ==
  /\ TypeOK
  /\ count <= Cap \div 2
  /\ Cardinality(Remembered) <= (Cap * 3) \div 4

\* Air that is remembered on the CPU, and so never asked for again, is shown
\* as air, however entries were evicted or forgotten.
RememberedAirShown ==
  Idle => \A k \in Keys : known[k] = "air" => Lookup(k) = Zero

\* The table and its device copy implement the map of PageMap: a lookup gives
\* the last word on its block, nothing but air is forgotten, and a frame reads
\* one consistent map.
LookupIn(t, k) ==
  LET found == {i \in Buckets : t[i].key = k /\ \A b \in Path(k, i) : t[b].key \notin {k, None}}
  IN IF found = {} THEN Invalid ELSE t[CHOOSE i \in found : TRUE].val
Abstract == INSTANCE PageMap WITH
  page  <- [k \in Keys |-> IF k = todo.key THEN todo.val
                           ELSE IF k = del.key THEN IF todo = NoTodo THEN Invalid ELSE Zero
                           ELSE Lookup(k)],
  shown <- [k \in Keys |-> LookupIn(gpu, k)]
ImplementsPageMap == Abstract!Spec
=============================================================================
