------------------------------ MODULE PageMap -------------------------------
(***************************************************************************)
(* What the renderer and the shaders may rely on of the sparse page table: *)
(* a total map from blocks to their atlas slots, to known air or to        *)
(* nothing.  Air may be forgotten at any time, a slot only when it is      *)
(* taken away or about to be filled again, and a frame reads the whole map *)
(* as it was when the frame was recorded.                                  *)
(***************************************************************************)
CONSTANTS Keys, Slots, Zero, Invalid, None

VARIABLES
  slotOf,     \* the slot a block has been given, or None
  page,       \* page[k]: what the renderer last said of block k
  shown       \* the map the newest recorded frame reads

absVars == <<slotOf, page, shown>>

\* The device buffer starts with whatever its memory held.
Init ==
  /\ slotOf = [k \in Keys |-> None]
  /\ page = [k \in Keys |-> Invalid]
  /\ shown \in [Keys -> Slots \cup {Zero, Invalid}]

Give(k, s, v) ==
  /\ slotOf' = [slotOf EXCEPT ![k] = s]
  /\ page' = [page EXCEPT ![k] = v]
  /\ UNCHANGED shown

Load(k, s)   == slotOf[k] = None /\ Give(k, s, page[k])
Evict(k)     == slotOf[k] # None /\ Give(k, None, Invalid)
Unmap(k)     == slotOf[k] # None /\ Give(k, slotOf[k], Invalid)
Publish(k)   == slotOf[k] # None /\ Give(k, slotOf[k], slotOf[k])
ShowAir(k)   == Give(k, None, Zero)
ForgetAir(k) == page[k] = Zero /\ Give(k, slotOf[k], Invalid)

Record == shown' = page /\ UNCHANGED <<slotOf, page>>

Next ==
  \/ Record
  \/ \E k \in Keys : \/ Evict(k) \/ Unmap(k) \/ Publish(k) \/ ShowAir(k) \/ ForgetAir(k)
                     \/ \E s \in Slots : Load(k, s)

Spec == Init /\ [][Next]_absVars
=============================================================================
