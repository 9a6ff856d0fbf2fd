------------------------- MODULE OverlayRepairProofs ------------------------
(***************************************************************************)
(* The overlay of an atlas, for any blocks, slots and trees, any number of *)
(* switches, failed fetches and unreadable files: no slot shows a foreign  *)
(* overlay, the CT voxels stay, and zeros are owed a repair as long as     *)
(* repairs can read what was fetched.  The tree is open from the start.    *)
(***************************************************************************)
EXTENDS OverlayRepair, TLAPS

Running == state \in {1, 2}

\* Who may act while the render thread is where: it looks at slots and streams
\* when no job is posted, and a tree is replaced when no job runs, nothing is
\* asked for and no fetch is in flight.
Control ==
  /\ root \in Roots /\ next \in Roots
  /\ rpc \in {"scan", "submit"} => state = 0
  /\ rpc \in {"retire", "open", "copy"} => ~Running
  /\ rpc \in {"open", "copy"} => queue = {} /\ flight = None
  /\ flight # None => flight[1] = root

\* A job is about a block; a repair about one whose file is there; raw_host
\* holds CT bytes when they are uploaded.
Job ==
  /\ Running => job.slot \in Slots /\ slotBrick[job.slot] \in Blocks
  /\ Running /\ job.kind = "repair" => slotBrick[job.slot] \in disk[root]
  /\ step \in {"ct", "upload"} => job.kind = "stream"
  /\ step = "upload" => raw = "ct"
  /\ step = "overlay" => ct[job.slot] = slotBrick[job.slot]

IInv == Control /\ Job /\ NoForeignOverlay /\ CtIntact

-----------------------------------------------------------------------------
LEMMA InitInv == Init => IInv
<1> SUFFICES ASSUME NEW r \in Roots, InitWith(r)
             PROVE  IInv
  BY DEF Init
<1>1. TypeOK
  <2>1. /\ disk \in [Roots -> SUBSET Blocks]
        /\ ct \in [Slots -> Blocks \cup {None}] /\ slotBrick \in [Slots -> Blocks \cup {None}]
        /\ overlay \in [Slots -> (Roots \X Blocks) \cup {None}]
        /\ have \in [Blocks -> {"unknown", "disk", "absent"}]
    BY DEF InitWith
  <2>2. fails \in 0..MaxFails /\ bad \in 0..MaxBad /\ turns \in 0..MaxTurns
    BY OverlayAssumption DEF InitWith
  <2>3. /\ root \in Roots /\ next \in Roots /\ miss \subseteq Slots /\ queue \subseteq Blocks
        /\ {news, newer, rung, cancel} \subseteq BOOLEAN
        /\ ring = "none" /\ scanned \subseteq Slots
        /\ flight = None /\ fetch = "idle" /\ rpc = "begin" /\ state = 0 /\ step = "idle"
        /\ raw = "ct" /\ job \in [slot : Slots \cup {None}, kind : {"stream", "repair"}]
    BY DEF InitWith
  <2>4. (step # "idle") = (state = 2) /\ (flight # None) = (fetch # "idle")
    BY <2>3
  <2> QED
    BY <2>1, <2>2, <2>3, <2>4 DEF TypeOK
<1>2. Control /\ Job
  BY DEF InitWith, Control, Job, Running
<1>3. NoForeignOverlay /\ CtIntact
  BY <1>1 DEF InitWith, NoForeignOverlay, PresenceOfThisTree, CtIntact
<1> QED
  BY <1>2, <1>3 DEF IInv

\* What a step of the render thread that neither posts a job nor changes a slot
\* keeps: the parts of the invariant about slots, files and jobs.
LEMMA SlotFrame ==
  ASSUME IInv, UNCHANGED <<slotBrick, overlay, ct, have, disk, root, job, step, raw>>,
         state' = state \/ (~Running /\ state' = 0), rpc # "copy"
  PROVE  /\ Job' /\ CtIntact' /\ PresenceOfThisTree'
         /\ (\A s \in Slots : Streaming(s) \/ overlay[s] \in {None, <<root, slotBrick[s]>>})'
BY DEF IInv, Job, Running, NoForeignOverlay, CtIntact, PresenceOfThisTree, Streaming

LEMMA BeginStep == ASSUME IInv, Begin PROVE IInv'
<1>1. Job' /\ CtIntact' /\ PresenceOfThisTree'
      /\ (\A s \in Slots : Streaming(s) \/ overlay[s] \in {None, <<root, slotBrick[s]>>})'
  BY SlotFrame DEF Begin, Running, slotVars, fetchVars
<1>2. TypeOK'
  <2>1. /\ state' = 0 /\ step = "idle" /\ newer' = FALSE /\ rpc' \in {"scan", "submit"}
        /\ UNCHANGED <<slotVars, fetchVars, news, rung, job, step, raw, root, scanned, next, bounds>>
    BY DEF IInv, NoForeignOverlay, Begin, TypeOK
  <2>2. ((step # "idle") = (state = 2))' /\ ((flight # None) = (fetch # "idle"))'
    BY <2>1 DEF IInv, NoForeignOverlay, TypeOK, fetchVars
  <2>3. {news, newer', rung, cancel} \subseteq BOOLEAN
    BY <2>1 DEF IInv, NoForeignOverlay, TypeOK
  <2> QED
    BY <2>1, <2>2, <2>3 DEF IInv, NoForeignOverlay, TypeOK, slotVars, fetchVars, bounds
<1>3. Control'
  BY DEF IInv, Begin, Control, Running, slotVars, fetchVars
<1> QED
  BY <1>1, <1>2, <1>3 DEF IInv, NoForeignOverlay

LEMMA ScanSlotStep == ASSUME IInv, ScanSlot PROVE IInv'
<1>1. /\ rpc = "scan"
      /\ UNCHANGED <<slotBrick, overlay, ct, have, disk, queue, flight, fetch, ring, cancel,
                     news, newer, rung, step, raw, root, next, fails, bad, turns>>
  BY DEF ScanSlot, fetchVars, bellVars, bounds
<1>2. state = 0 /\ ~Running /\ step = "idle"
  BY <1>1 DEF IInv, Control, Running, NoForeignOverlay, TypeOK
<1>3. CASE /\ miss' \subseteq miss /\ scanned' \subseteq Slots
           /\ UNCHANGED <<rpc, state, job>>
  <2>1. Job' /\ CtIntact' /\ PresenceOfThisTree'
        /\ (\A s \in Slots : Streaming(s) \/ overlay[s] \in {None, <<root, slotBrick[s]>>})'
    BY <1>1, <1>3, SlotFrame
  <2>2. TypeOK'
    BY <1>1, <1>3 DEF IInv, NoForeignOverlay, TypeOK
  <2>3. Control'
    BY <1>1, <1>3 DEF IInv, Control, Running
  <2> QED
    BY <2>1, <2>2, <2>3 DEF IInv, NoForeignOverlay
<1>4. ASSUME NEW s \in Slots, slotBrick[s] # None, have[slotBrick[s]] = "disk",
             miss' \subseteq miss, state' = 1, job' = [slot |-> s, kind |-> "repair"],
             scanned' = {}, rpc' = "begin"
      PROVE  IInv'
  <2>1. slotBrick[s] \in Blocks
    BY <1>4 DEF IInv, NoForeignOverlay, TypeOK
  <2>2. slotBrick[s] \in disk[root]
    BY <1>1, <1>4, <2>1, OverlayAssumption
    DEF IInv, NoForeignOverlay, PresenceOfThisTree, Control
  <2>3. Job'
    BY <1>1, <1>2, <1>4, <2>1, <2>2 DEF Job, Running
  <2>4. TypeOK'
    BY <1>1, <1>2, <1>4 DEF IInv, NoForeignOverlay, TypeOK
  <2>5. Control'
    BY <1>1, <1>4 DEF IInv, Control, Running
  <2>6. PresenceOfThisTree' /\ CtIntact'
        /\ (\A t \in Slots : Streaming(t) \/ overlay[t] \in {None, <<root, slotBrick[t]>>})'
    BY <1>1, <1>2, <1>4
    DEF IInv, NoForeignOverlay, PresenceOfThisTree, CtIntact, Streaming, Running
  <2> QED
    BY <2>3, <2>4, <2>5, <2>6 DEF IInv, NoForeignOverlay
<1>5. PICK s \in Slots \ scanned :
        \/ /\ miss' \in {miss, miss \ {s}}
           /\ scanned' = scanned \cup {s}
           /\ UNCHANGED <<rpc, state, job>>
        \/ /\ slotBrick[s] # None /\ have[slotBrick[s]] = "disk"
           /\ miss' = miss \ {s}
           /\ state' = 1 /\ job' = [slot |-> s, kind |-> "repair"]
           /\ scanned' = {} /\ rpc' = "begin"
  BY DEF ScanSlot
<1>6. scanned \subseteq Slots
  BY DEF IInv, NoForeignOverlay, TypeOK
<1> QED
  BY <1>3, <1>4, <1>5, <1>6

LEMMA ScanEndStep == ASSUME IInv, ScanEnd PROVE IInv'
<1>1. Job' /\ CtIntact' /\ PresenceOfThisTree'
      /\ (\A s \in Slots : Streaming(s) \/ overlay[s] \in {None, <<root, slotBrick[s]>>})'
  BY SlotFrame DEF ScanEnd, slotVars, fetchVars, jobVars
<1>2. TypeOK'
  BY DEF IInv, NoForeignOverlay, ScanEnd, TypeOK, slotVars, fetchVars, jobVars, bounds
<1>3. Control'
  BY DEF IInv, ScanEnd, Control, Running, fetchVars, jobVars
<1> QED
  BY <1>1, <1>2, <1>3 DEF IInv, NoForeignOverlay

\* A streamed block takes its slot from another one; no job is running then.
LEMMA SubmitStep == ASSUME IInv, Submit PROVE IInv'
<1>1. /\ rpc = "submit" /\ rpc' = "begin"
      /\ UNCHANGED <<miss, overlay, ct, have, disk, flight, fetch, ring, cancel, news, newer,
                     rung, step, raw, root, scanned, next, fails, bad>>
  BY DEF Submit, bellVars
<1>2. state = 0 /\ ~Running /\ step = "idle"
  BY <1>1 DEF IInv, Control, Running, NoForeignOverlay, TypeOK
<1>3. queue' \subseteq Blocks
  <2>1. queue \subseteq Blocks /\ {slotBrick[s] : s \in miss} \ {None} \subseteq Blocks
    BY DEF IInv, NoForeignOverlay, TypeOK
  <2> QED
    BY <2>1 DEF Submit, Request
<1>4. CASE UNCHANGED <<slotBrick, state, job, turns>>
  <2>1. Job' /\ CtIntact' /\ PresenceOfThisTree'
        /\ (\A s \in Slots : Streaming(s) \/ overlay[s] \in {None, <<root, slotBrick[s]>>})'
    BY <1>1, <1>4, SlotFrame
  <2>2. TypeOK'
    BY <1>1, <1>3, <1>4 DEF IInv, NoForeignOverlay, TypeOK
  <2>3. Control'
    BY <1>1, <1>4 DEF IInv, Control, Running
  <2> QED
    BY <2>1, <2>2, <2>3 DEF IInv, NoForeignOverlay
<1>5. ASSUME NEW s \in Slots, NEW b \in Blocks, turns < MaxTurns, turns' = turns + 1,
             slotBrick' = [slotBrick EXCEPT ![s] = b],
             job' = [slot |-> s, kind |-> "stream"], state' = 1
      PROVE  IInv'
  <2>1. /\ slotBrick' \in [Slots -> Blocks \cup {None}]
        /\ \A t \in Slots : slotBrick'[t] = IF t = s THEN b ELSE slotBrick[t]
    BY <1>5 DEF IInv, NoForeignOverlay, TypeOK
  <2>2. Job'
    BY <1>1, <1>2, <1>5, <2>1 DEF Job, Running
  <2>3. turns' \in 0..MaxTurns
    BY <1>5, OverlayAssumption DEF IInv, NoForeignOverlay, TypeOK
  <2>4. TypeOK'
    BY <1>1, <1>2, <1>3, <1>5, <2>1, <2>3 DEF IInv, NoForeignOverlay, TypeOK
  <2>5. Control'
    BY <1>1, <1>5 DEF IInv, Control, Running
  <2>6. PresenceOfThisTree' /\ CtIntact'
        /\ (\A t \in Slots : Streaming(t) \/ overlay[t] \in {None, <<root, slotBrick[t]>>})'
    BY <1>1, <1>2, <1>5, <2>1
    DEF IInv, NoForeignOverlay, PresenceOfThisTree, CtIntact, Streaming, Running
  <2> QED
    BY <2>2, <2>4, <2>5, <2>6 DEF IInv, NoForeignOverlay
<1> QED
  BY <1>4, <1>5 DEF Submit

LEMMA SwitchStep == ASSUME IInv, Switch PROVE IInv'
<1>1. /\ rpc = "begin" /\ rpc' = "drain" /\ next' \in Roots
      /\ UNCHANGED <<slotBrick, miss, overlay, ct, have, disk, queue, flight, fetch, ring, cancel,
                     news, newer, rung, state, job, step, raw, root, scanned, fails, bad>>
  BY OverlayAssumption
  DEF Switch, IInv, Control, slotVars, fetchVars, bellVars, jobVars
<1>2. turns' \in 0..MaxTurns
  BY OverlayAssumption DEF Switch, IInv, NoForeignOverlay, TypeOK
<1>3. Job' /\ CtIntact' /\ PresenceOfThisTree'
      /\ (\A s \in Slots : Streaming(s) \/ overlay[s] \in {None, <<root, slotBrick[s]>>})'
  BY <1>1, SlotFrame
<1>4. TypeOK'
  BY <1>1, <1>2 DEF IInv, NoForeignOverlay, TypeOK
<1>5. Control'
  BY <1>1 DEF IInv, Control, Running
<1> QED
  BY <1>3, <1>4, <1>5 DEF IInv, NoForeignOverlay

LEMMA DrainStep == ASSUME IInv, Drain PROVE IInv'
<1>1. /\ rpc = "drain" /\ ~Running /\ rpc' = "retire"
      /\ UNCHANGED <<slotBrick, miss, overlay, ct, have, disk, queue, flight, fetch, ring, cancel,
                     news, newer, rung, state, job, step, raw, root, scanned, next, fails, bad, turns>>
  BY DEF Drain, Running, slotVars, fetchVars, bellVars, jobVars, bounds
<1>2. Job' /\ CtIntact' /\ PresenceOfThisTree'
      /\ (\A s \in Slots : Streaming(s) \/ overlay[s] \in {None, <<root, slotBrick[s]>>})'
  BY <1>1, SlotFrame
<1>3. TypeOK'
  BY <1>1 DEF IInv, NoForeignOverlay, TypeOK
<1>4. Control'
  BY <1>1 DEF IInv, Control, Running
<1> QED
  BY <1>2, <1>3, <1>4 DEF IInv, NoForeignOverlay

LEMMA RetireStep == ASSUME IInv, Retire PROVE IInv'
<1>1. /\ rpc = "retire" /\ queue' = {}
      /\ \/ flight = None /\ rpc' = "open"
         \/ rpc' = "retire"
      /\ UNCHANGED <<slotBrick, miss, overlay, ct, have, disk, flight, fetch, ring,
                     news, newer, rung, state, job, step, raw, root, scanned, next, fails, bad, turns>>
  BY DEF Retire, slotVars, bellVars, jobVars, bounds
<1>2. cancel' \in BOOLEAN
  BY DEF Retire
<1>3. Job' /\ CtIntact' /\ PresenceOfThisTree'
      /\ (\A s \in Slots : Streaming(s) \/ overlay[s] \in {None, <<root, slotBrick[s]>>})'
  BY <1>1, SlotFrame
<1>4. TypeOK'
  <2>1. {news, newer, rung, cancel'} \subseteq BOOLEAN
    BY <1>2 DEF IInv, NoForeignOverlay, TypeOK
  <2> QED
    BY <1>1, <2>1 DEF IInv, NoForeignOverlay, TypeOK
<1>5. Control'
  BY <1>1 DEF IInv, Control, Running
<1> QED
  BY <1>3, <1>4, <1>5 DEF IInv, NoForeignOverlay

\* The new tree starts with a fresh atlas.
LEMMA OpenStep == ASSUME IInv, Open PROVE IInv'
<1>1. /\ rpc = "open" /\ rpc' = "copy" /\ root' = next /\ raw' = "ov"
      /\ overlay' = [s \in Slots |-> None]
      /\ UNCHANGED <<slotBrick, miss, ct, have, disk, queue, flight, fetch, ring, cancel,
                     news, newer, rung, state, job, step, scanned, next, fails, bad, turns>>
  BY DEF Open, fetchVars, bellVars, bounds
<1>2. ~Running /\ step = "idle" /\ next \in Roots /\ queue = {} /\ flight = None
  BY <1>1 DEF IInv, Control, Running, NoForeignOverlay, TypeOK
<1>3. TypeOK'
  BY <1>1, <1>2 DEF IInv, NoForeignOverlay, TypeOK
<1>4. Control' /\ Job'
  BY <1>1, <1>2 DEF Control, Job, Running
<1>5. NoForeignOverlay' /\ CtIntact'
  BY <1>1, <1>2, <1>3
  DEF IInv, NoForeignOverlay, CtIntact, PresenceOfThisTree, Streaming, Running
<1> QED
  BY <1>4, <1>5 DEF IInv

\* Its resident blocks come from local shards; presence starts afresh.
LEMMA CopyStep == ASSUME IInv, Copy PROVE IInv'
<1>1. /\ rpc = "copy" /\ rpc' = "begin" /\ news' = rung
      /\ overlay' = [s \in Slots |-> IF slotBrick[s] \in Shards[root]
                                     THEN <<root, slotBrick[s]>> ELSE overlay[s]]
      /\ have' = [b \in Blocks |-> "unknown"]
      /\ miss' = {s \in Slots : slotBrick[s] # None}
      /\ UNCHANGED <<slotBrick, ct, disk, queue, flight, fetch, ring, cancel, newer, rung,
                     state, job, step, raw, root, scanned, next, fails, bad, turns>>
  BY DEF Copy, jobVars, bounds
<1>2. ~Running /\ root \in Roots
  BY <1>1 DEF IInv, Control
<1>3. Shards[root] \subseteq Blocks
  BY <1>2, OverlayAssumption
<1>4. overlay' \in [Slots -> (Roots \X Blocks) \cup {None}]
  BY <1>1, <1>2, <1>3 DEF IInv, NoForeignOverlay, TypeOK
<1>5. TypeOK'
  BY <1>1, <1>4 DEF IInv, NoForeignOverlay, TypeOK
<1>6. Control' /\ Job'
  BY <1>1, <1>2 DEF IInv, Control, Job, Running
<1>7. NoForeignOverlay' /\ CtIntact'
  BY <1>1, <1>2, <1>5
  DEF IInv, NoForeignOverlay, CtIntact, PresenceOfThisTree, Streaming, Running
<1> QED
  BY <1>6, <1>7 DEF IInv

-----------------------------------------------------------------------------
(* The decode worker.                                                      *)

LEMMA TakeStep == ASSUME IInv, Take PROVE IInv'
<1>1. /\ state = 1 /\ state' = 2
      /\ step' = IF job.kind = "stream" THEN "ct" ELSE "overlay"
      /\ UNCHANGED <<slotBrick, miss, overlay, ct, have, disk, queue, flight, fetch, ring, cancel,
                     news, newer, rung, job, raw, rpc, root, scanned, next, fails, bad, turns>>
  BY DEF Take, slotVars, fetchVars, bellVars, viewVars, bounds
<1>2. Running /\ rpc # "copy" /\ job.slot \in Slots /\ job.kind \in {"stream", "repair"}
  BY <1>1 DEF IInv, Control, Running, Job, NoForeignOverlay, TypeOK
<1>3. job.kind = "repair" => ct[job.slot] = slotBrick[job.slot]
  BY <1>2 DEF IInv, CtIntact, Streaming
<1>4. Job'
  BY <1>1, <1>2, <1>3 DEF IInv, Job, Running
<1>5. TypeOK'
  BY <1>1 DEF IInv, NoForeignOverlay, TypeOK
<1>6. Control'
  BY <1>1, <1>2 DEF IInv, Control, Running
<1>7. NoForeignOverlay' /\ CtIntact'
  BY <1>1, <1>5 DEF IInv, NoForeignOverlay, CtIntact, PresenceOfThisTree, Streaming
<1> QED
  BY <1>4, <1>6, <1>7 DEF IInv

LEMMA DecodeCtStep == ASSUME IInv, DecodeCt PROVE IInv'
<1>1. /\ step = "ct" /\ step' = "upload" /\ raw' = "ct"
      /\ UNCHANGED <<slotBrick, miss, overlay, ct, have, disk, queue, flight, fetch, ring, cancel,
                     news, newer, rung, state, job, rpc, root, scanned, next, fails, bad, turns>>
  BY DEF DecodeCt, slotVars, fetchVars, bellVars, viewVars, bounds
<1>2. Job'
  BY <1>1 DEF IInv, Job, Running
<1>3. TypeOK'
  BY <1>1 DEF IInv, NoForeignOverlay, TypeOK
<1>4. Control'
  BY <1>1 DEF IInv, Control, Running
<1>5. NoForeignOverlay' /\ CtIntact'
  BY <1>1, <1>3 DEF IInv, NoForeignOverlay, CtIntact, PresenceOfThisTree, Streaming
<1> QED
  BY <1>2, <1>4, <1>5 DEF IInv

LEMMA UploadCtStep == ASSUME IInv, UploadCt PROVE IInv'
<1>1. /\ step = "upload" /\ step' = "overlay"
      /\ ct' = [ct EXCEPT ![job.slot] = IF raw = "ct" THEN slotBrick[job.slot] ELSE None]
      /\ UNCHANGED <<slotBrick, miss, overlay, have, disk, queue, flight, fetch, ring, cancel,
                     news, newer, rung, state, job, raw, rpc, root, scanned, next, fails, bad, turns>>
  BY DEF UploadCt, fetchVars, bellVars, viewVars, bounds
<1>2. state = 2 /\ Running /\ raw = "ct" /\ job.slot \in Slots /\ job.kind = "stream"
  BY <1>1 DEF IInv, Job, Running, NoForeignOverlay, TypeOK
<1>3. /\ ct' \in [Slots -> Blocks \cup {None}]
      /\ \A s \in Slots : ct'[s] = IF s = job.slot THEN slotBrick[s] ELSE ct[s]
  BY <1>1, <1>2 DEF IInv, NoForeignOverlay, TypeOK
<1>4. Job'
  BY <1>1, <1>2, <1>3 DEF IInv, Job, Running
<1>5. TypeOK'
  BY <1>1, <1>2, <1>3 DEF IInv, NoForeignOverlay, TypeOK
<1>6. Control'
  BY <1>1 DEF IInv, Control, Running
<1>7. NoForeignOverlay' /\ CtIntact'
  BY <1>1, <1>3, <1>5 DEF IInv, NoForeignOverlay, CtIntact, PresenceOfThisTree, Streaming
<1> QED
  BY <1>4, <1>6, <1>7 DEF IInv

\* The worker's slot gets the voxels of its own block and tree, or zeros.
LEMMA DecodeOverlayStep == ASSUME IInv, DecodeOverlay PROVE IInv'
<1>1. /\ step = "overlay" /\ step' = "idle" /\ state' = 3
      /\ raw' = IF job.kind = "repair" THEN "ov" ELSE raw
      /\ UNCHANGED <<slotBrick, ct, have, disk, flight, fetch, ring, cancel,
                     news, newer, rung, job, rpc, root, scanned, next, fails, turns>>
  BY DEF DecodeOverlay, bellVars, viewVars
<1>2. /\ state = 2 /\ Running /\ job.slot \in Slots /\ slotBrick[job.slot] \in Blocks
      /\ root \in Roots /\ rpc \notin {"retire", "open", "copy"}
      /\ ct[job.slot] = slotBrick[job.slot]
  BY <1>1 DEF IInv, Job, Control, Running, NoForeignOverlay, TypeOK
<1>3. root # None
  BY <1>2, OverlayAssumption
<1>4. PICK v \in {None, <<root, slotBrick[job.slot]>>} : overlay' = [overlay EXCEPT ![job.slot] = v]
  BY <1>1, <1>3 DEF DecodeOverlay
<1>5. /\ overlay' \in [Slots -> (Roots \X Blocks) \cup {None}]
      /\ \A s \in Slots : overlay'[s] = IF s = job.slot THEN v ELSE overlay[s]
  BY <1>2, <1>4 DEF IInv, NoForeignOverlay, TypeOK
<1>6. miss' \subseteq Slots /\ queue' \subseteq Blocks
  BY <1>2, <1>3 DEF DecodeOverlay, Request, IInv, NoForeignOverlay, TypeOK
<1>7. bad' \in 0..MaxBad
  BY <1>3, OverlayAssumption DEF DecodeOverlay, IInv, NoForeignOverlay, TypeOK
<1>8. TypeOK'
  BY <1>1, <1>2, <1>5, <1>6, <1>7 DEF IInv, NoForeignOverlay, TypeOK
<1>9. Job'
  BY <1>1 DEF Job, Running
<1>10. Control'
  BY <1>1, <1>2 DEF IInv, Control, Running
<1>11. PresenceOfThisTree'
  BY <1>1 DEF IInv, NoForeignOverlay, PresenceOfThisTree
<1>12. NoForeignOverlay'
  <2> SUFFICES ASSUME NEW s \in Slots
               PROVE  overlay'[s] \in {None, <<root', slotBrick'[s]>>}
    BY <1>8, <1>11 DEF NoForeignOverlay
  <2> QED
    BY <1>1, <1>4, <1>5 DEF IInv, NoForeignOverlay, Streaming
<1>13. CtIntact'
  BY <1>1, <1>2 DEF IInv, CtIntact, Streaming
<1> QED
  BY <1>9, <1>10, <1>12, <1>13 DEF IInv

-----------------------------------------------------------------------------
(* The fetcher, and the presence map.                                      *)

LEMMA FetchTakeStep == ASSUME IInv, FetchTake PROVE IInv'
<1>1. PICK b \in queue : flight' = <<root, b>> /\ queue' = queue \ {b}
  BY DEF FetchTake
<1>2. /\ fetch = "idle" /\ fetch' = "run" /\ cancel' = FALSE /\ ring' = "none"
      /\ UNCHANGED <<slotBrick, miss, overlay, ct, have, disk, news, newer, rung,
                     state, job, step, raw, rpc, root, scanned, next, fails, bad, turns>>
  BY DEF FetchTake, slotVars, bellVars, jobVars, viewVars, bounds
<1>3. b \in Blocks /\ root \in Roots /\ rpc \notin {"open", "copy"}
  BY <1>1 DEF IInv, Control, NoForeignOverlay, TypeOK
<1>4. flight' \in Roots \X Blocks /\ flight' # None /\ flight'[1] = root
  BY <1>1, <1>3, OverlayAssumption
<1>5. Job' /\ CtIntact' /\ PresenceOfThisTree'
      /\ (\A s \in Slots : Streaming(s) \/ overlay[s] \in {None, <<root, slotBrick[s]>>})'
  BY <1>2, <1>3, SlotFrame
<1>6. TypeOK'
  <2>1. {news, newer, rung, cancel'} \subseteq BOOLEAN
    BY <1>2 DEF IInv, NoForeignOverlay, TypeOK
  <2> QED
    BY <1>1, <1>2, <1>4, <2>1 DEF IInv, NoForeignOverlay, TypeOK
<1>7. Control'
  BY <1>2, <1>3, <1>4 DEF IInv, Control, Running
<1> QED
  BY <1>5, <1>6, <1>7 DEF IInv, NoForeignOverlay

\* What is published is about the tree that is shown: the fetch was taken for it.
LEMMA FetchPublishStep == ASSUME IInv, FetchPublish PROVE IInv'
<1>1. /\ fetch = "run" /\ fetch' = "done"
      /\ UNCHANGED <<slotBrick, miss, overlay, ct, queue, flight, cancel, news, newer, rung,
                     state, job, step, raw, rpc, root, scanned, next, bad, turns>>
  BY DEF FetchPublish, slotVars, bellVars, jobVars, viewVars
<1>2. /\ flight # None /\ flight \in Roots \X Blocks /\ flight[1] = root
      /\ rpc \notin {"open", "copy"}
  BY <1>1 DEF IInv, Control, NoForeignOverlay, TypeOK
<1>3. PICK b \in Blocks : flight = <<root, b>>
  BY <1>2
<1>4. /\ disk' \in [Roots -> SUBSET Blocks] /\ \A r \in Roots : disk[r] \subseteq disk'[r]
      /\ have' \in [Blocks -> {"unknown", "disk", "absent"}]
      /\ \A c \in Blocks : \/ have'[c] = have[c]
                           \/ have'[c] = "disk" /\ c \in disk'[root]
                           \/ have'[c] = "absent" /\ c \notin HasOverlay[root]
  BY <1>2, <1>3 DEF FetchPublish, IInv, NoForeignOverlay, TypeOK
<1>5. ring' \in {"none", "file", "chunk"}
  BY DEF FetchPublish, IInv, NoForeignOverlay, TypeOK
<1>6. fails' \in 0..MaxFails
  BY OverlayAssumption DEF FetchPublish, IInv, NoForeignOverlay, TypeOK
<1>7. TypeOK'
  BY <1>1, <1>2, <1>4, <1>5, <1>6 DEF IInv, NoForeignOverlay, TypeOK
<1>8. root \in Roots
  BY DEF IInv, Control
<1>9. Job'
  BY <1>1, <1>4, <1>8 DEF IInv, Job, Running
<1>10. Control'
  BY <1>1 DEF IInv, Control, Running
<1>11. PresenceOfThisTree'
  BY <1>1, <1>2, <1>4, <1>8 DEF IInv, NoForeignOverlay, PresenceOfThisTree
<1>12. NoForeignOverlay' /\ CtIntact'
  BY <1>1, <1>7, <1>11 DEF IInv, NoForeignOverlay, CtIntact, Streaming
<1> QED
  BY <1>9, <1>10, <1>12 DEF IInv

LEMMA FetchDoneStep == ASSUME IInv, FetchDone PROVE IInv'
<1>1. /\ flight' = None /\ fetch' = "idle"
      /\ UNCHANGED <<slotBrick, miss, overlay, ct, have, disk, queue, ring, cancel,
                     state, job, step, raw, rpc, root, scanned, next, fails, bad, turns>>
  BY DEF FetchDone, slotVars, jobVars, viewVars, bounds
<1>2. news' \in BOOLEAN /\ newer' \in BOOLEAN /\ rung' \in BOOLEAN
  BY DEF FetchDone
<1>3. fetch = "done" /\ flight # None /\ rpc # "copy"
  BY DEF FetchDone, IInv, Control, NoForeignOverlay, TypeOK
<1>4. Job' /\ CtIntact' /\ PresenceOfThisTree'
      /\ (\A s \in Slots : Streaming(s) \/ overlay[s] \in {None, <<root, slotBrick[s]>>})'
  BY <1>1, <1>3, SlotFrame
<1>5. TypeOK'
  <2>1. {news', newer', rung', cancel} \subseteq BOOLEAN
    BY <1>2 DEF IInv, NoForeignOverlay, TypeOK
  <2> QED
    BY <1>1, <2>1 DEF IInv, NoForeignOverlay, TypeOK
<1>6. Control'
  BY <1>1 DEF IInv, Control, Running
<1> QED
  BY <1>4, <1>5, <1>6 DEF IInv, NoForeignOverlay

LEMMA ForgetStep == ASSUME IInv, Forget PROVE IInv'
<1>1. PICK b \in Blocks : have' = [have EXCEPT ![b] = "unknown"]
  BY DEF Forget
<1>2. UNCHANGED <<slotBrick, miss, overlay, ct, disk, queue, flight, fetch, ring, cancel,
                  news, newer, rung, state, job, step, raw, rpc, root, scanned, next, fails, bad>>
  BY DEF Forget, slotVars, bellVars, jobVars, viewVars
<1>3. turns' \in 0..MaxTurns
  BY OverlayAssumption DEF Forget, IInv, NoForeignOverlay, TypeOK
<1>4. /\ have' \in [Blocks -> {"unknown", "disk", "absent"}]
      /\ \A c \in Blocks : have'[c] \in {have[c], "unknown"}
  BY <1>1 DEF IInv, NoForeignOverlay, TypeOK
<1>5. TypeOK'
  BY <1>2, <1>3, <1>4 DEF IInv, NoForeignOverlay, TypeOK
<1>6. Control' /\ Job'
  BY <1>2 DEF IInv, Control, Job, Running
<1>7. NoForeignOverlay' /\ CtIntact'
  BY <1>2, <1>4, <1>5 DEF IInv, NoForeignOverlay, CtIntact, PresenceOfThisTree, Streaming
<1> QED
  BY <1>6, <1>7 DEF IInv

LEMMA StutterStep == ASSUME IInv, UNCHANGED vars PROVE IInv'
<1>1. UNCHANGED <<slotBrick, miss, overlay, ct, have, disk, queue, flight, fetch, ring, cancel,
                  news, newer, rung, state, job, step, raw, rpc, root, scanned, next,
                  fails, bad, turns>>
  BY DEF vars, slotVars, fetchVars, bellVars, jobVars, viewVars, bounds
<1>2. TypeOK'
  BY <1>1 DEF IInv, NoForeignOverlay, TypeOK
<1> QED
  BY <1>1, <1>2
  DEF IInv, Control, Job, Running, NoForeignOverlay, CtIntact, PresenceOfThisTree, Streaming

\* Every step of the render thread, the worker and the fetcher keeps the invariant.
THEOREM StepInv == ASSUME IInv, [Next]_vars PROVE IInv'
<1>1. CASE RenderLoop
  BY <1>1, BeginStep, ScanSlotStep, ScanEndStep, SubmitStep, DrainStep, RetireStep, OpenStep,
     CopyStep
  DEF RenderLoop
<1>2. CASE Worker
  BY <1>2, TakeStep, DecodeCtStep, UploadCtStep, DecodeOverlayStep DEF Worker
<1>3. CASE Fetcher
  BY <1>3, FetchTakeStep, FetchPublishStep, FetchDoneStep DEF Fetcher
<1> QED
  BY <1>1, <1>2, <1>3, SwitchStep, ForgetStep, StutterStep DEF Next

-----------------------------------------------------------------------------
(* Zeros are owed a repair when the cache files of repairs can be read.    *)

\* Steps that keep every slot, every flag and the job keep the ledger.
LEMMA LedgerFrame ==
  ASSUME IInv, ZerosAreOwed, UNCHANGED <<slotBrick, overlay, miss, root, job>>,
         state' = state \/ ~Running \/ state' = 2, rpc # "copy"
  PROVE  ZerosAreOwed'
BY DEF ZerosAreOwed, Repairing, Running

\* A flag is dropped when the slot's block has no overlay or its repair starts.
LEMMA ScanSlotLedger == ASSUME IInv, ZerosAreOwed, ScanSlot PROVE ZerosAreOwed'
<1>1. /\ rpc = "scan" /\ rpc' # "copy" /\ state = 0 /\ root \in Roots
      /\ UNCHANGED <<slotBrick, overlay, have, root>>
  BY DEF ScanSlot, IInv, Control, fetchVars
<1>2. root # None /\ PresenceOfThisTree /\ None \notin HasOverlay[root] /\ TypeOK
  BY <1>1, OverlayAssumption DEF IInv, NoForeignOverlay
<1>3. PICK s \in Slots : \/ /\ s \in miss /\ slotBrick[s] # None => have[slotBrick[s]] # "disk"
                            /\ miss' = IF /\ s \in miss /\ slotBrick[s] # None
                                          /\ have[slotBrick[s]] = "unknown"
                                       THEN miss ELSE miss \ {s}
                            /\ UNCHANGED <<state, job>>
                         \/ /\ miss' = miss \ {s} /\ state' = 1
                            /\ job' = [slot |-> s, kind |-> "repair"]
  BY DEF ScanSlot, Answered
<1>4. CASE /\ miss' = miss \ {s} /\ state' = 1 /\ job' = [slot |-> s, kind |-> "repair"]
  BY <1>1, <1>2, <1>4 DEF ZerosAreOwed, Repairing
<1>5. CASE /\ UNCHANGED <<state, job>>
           /\ miss' = miss \/ (miss' = miss \ {s} /\ slotBrick[s] \notin HasOverlay[root])
  BY <1>1, <1>2, <1>5 DEF ZerosAreOwed, Repairing
<1>6. s \in miss /\ slotBrick[s] # None /\ have[slotBrick[s]] \notin {"disk", "unknown"}
        => slotBrick[s] \notin HasOverlay[root]
  BY <1>1, <1>2 DEF PresenceOfThisTree, TypeOK
<1>7. s \notin miss => miss \ {s} = miss
  OBVIOUS
<1> QED
  BY <1>2, <1>3, <1>4, <1>5, <1>6, <1>7

\* A block that takes a slot is the block of the job that is posted with it.
LEMMA SubmitLedger == ASSUME IInv, ZerosAreOwed, Submit PROVE ZerosAreOwed'
<1>1. /\ rpc = "submit" /\ rpc' # "copy" /\ state = 0
      /\ UNCHANGED <<miss, overlay, root>>
  BY DEF Submit, IInv, Control
<1>2. CASE UNCHANGED <<slotBrick, state, job>>
  BY <1>1, <1>2, LedgerFrame
<1>3. ASSUME NEW s \in Slots, NEW b \in Blocks, slotBrick' = [slotBrick EXCEPT ![s] = b],
             job' = [slot |-> s, kind |-> "stream"], state' = 1
      PROVE  ZerosAreOwed'
  <2>1. \A t \in Slots : t # s => slotBrick'[t] = slotBrick[t]
    BY <1>3 DEF IInv, NoForeignOverlay, TypeOK
  <2> QED
    BY <1>1, <1>3, <2>1 DEF ZerosAreOwed, Repairing
<1> QED
  BY <1>2, <1>3 DEF Submit

\* The new tree starts with every resident block owed.
LEMMA CopyLedger == ASSUME IInv, Copy PROVE ZerosAreOwed'
<1>1. /\ rpc = "copy" /\ miss' = {s \in Slots : slotBrick[s] # None}
      /\ UNCHANGED <<slotBrick, root>>
  BY DEF Copy
<1>2. None \notin HasOverlay[root]
  BY <1>1, OverlayAssumption DEF IInv, Control
<1> QED
  BY <1>1, <1>2 DEF ZerosAreOwed

\* A repair finds the file it was posted for; a streamed block without voxels
\* is flagged.
LEMMA DecodeOverlayLedger ==
  ASSUME RepairMayFail = FALSE, IInv, ZerosAreOwed, DecodeOverlay
  PROVE  ZerosAreOwed'
<1>1. /\ step = "overlay" /\ UNCHANGED <<slotBrick, root, rpc>>
  BY DEF DecodeOverlay, viewVars
<1>2. /\ Running /\ job.slot \in Slots /\ root \in Roots /\ rpc # "copy"
      /\ job.kind \in {"stream", "repair"} /\ TypeOK
      /\ job.kind = "repair" => slotBrick[job.slot] \in disk[root]
  BY <1>1 DEF IInv, Job, Control, Running, NoForeignOverlay, TypeOK
<1>3. root # None
  BY <1>2, OverlayAssumption
<1>4. \A s \in Slots : Repairing(s) => s = job.slot
  BY DEF Repairing
<1>5. \/ overlay' = [overlay EXCEPT ![job.slot] = <<root, slotBrick[job.slot]>>] /\ miss' = miss
      \/ overlay' = [overlay EXCEPT ![job.slot] = None] /\ miss' = miss \cup {job.slot}
  BY <1>2, <1>3 DEF DecodeOverlay, Readable
<1>6. \A s \in Slots : \/ s # job.slot /\ overlay'[s] = overlay[s] /\ (s \in miss => s \in miss')
                       \/ s = job.slot /\ overlay'[s] = <<root, slotBrick[s]>>
                       \/ s = job.slot /\ s \in miss'
  BY <1>2, <1>5 DEF TypeOK
<1> QED
  BY <1>1, <1>2, <1>3, <1>4, <1>6 DEF ZerosAreOwed

LEMMA LedgerStep ==
  ASSUME RepairMayFail = FALSE, IInv, ZerosAreOwed, [Next]_vars
  PROVE  ZerosAreOwed'
<1>1. CASE Begin
  BY <1>1, LedgerFrame DEF Begin, Running, slotVars
<1>2. CASE ScanEnd \/ Switch \/ Drain \/ Retire \/ UNCHANGED vars
  <2>1. rpc = "copy" => rpc' = "copy" /\ root' = root
    BY <1>2
    DEF ScanEnd, Switch, Drain, Retire, vars, viewVars
  <2>2. UNCHANGED <<slotBrick, overlay, miss, root, job, state>>
    BY <1>2
    DEF ScanEnd, Switch, Drain, Retire, vars, viewVars, slotVars, jobVars
  <2> QED
    BY <2>1, <2>2, LedgerFrame DEF ZerosAreOwed
<1>3. CASE Open
  BY <1>3 DEF Open, ZerosAreOwed
<1>4. CASE Take \/ DecodeCt \/ UploadCt
  <2>1. /\ UNCHANGED <<slotBrick, overlay, miss, root, job, rpc>>
        /\ state' = state \/ state' = 2
    BY <1>4 DEF Take, DecodeCt, UploadCt, slotVars, viewVars
  <2> QED
    BY <2>1, LedgerFrame DEF ZerosAreOwed
<1>5. CASE Fetcher \/ Forget
  <2>1. UNCHANGED <<slotBrick, overlay, miss, root, job, rpc, state>>
    BY <1>5 DEF Fetcher, FetchTake, FetchPublish, FetchDone, Forget, slotVars, viewVars, jobVars
  <2> QED
    BY <2>1, LedgerFrame DEF ZerosAreOwed
<1> QED
  BY <1>1, <1>2, <1>3, <1>4, <1>5, ScanSlotLedger, SubmitLedger, CopyLedger, DecodeOverlayLedger
  DEF Next, RenderLoop, Worker

LEMMA InitLedger == Init => ZerosAreOwed
<1> SUFFICES ASSUME NEW r \in Roots, InitWith(r)
             PROVE  ZerosAreOwed
  BY DEF Init
<1>1. root = r /\ \A s \in Slots : slotBrick[s] = None
  BY DEF InitWith
<1>2. None \notin HasOverlay[r]
  BY OverlayAssumption
<1> QED
  BY <1>1, <1>2 DEF ZerosAreOwed

-----------------------------------------------------------------------------
\* A slot never shows overlay voxels of another tree or of another block, and
\* an answer asked for an old tree is not recorded for the new one
\* (bricks_overlay_switch_ov, ni_worker).
THEOREM NoForeign == Spec => []NoForeignOverlay
<1>1. IInv => NoForeignOverlay
  BY DEF IInv
<1> QED
  BY <1>1, InitInv, StepInv, PTL DEF Spec

\* The CT voxels of a mapped slot are those of its block, whatever the overlay
\* code does with raw_host between (bricks_ink_repair_exec, bricks_overlay_open).
THEOREM CtStays == Spec => []CtIntact
<1>1. IInv => CtIntact
  BY DEF IInv
<1> QED
  BY <1>1, InitInv, StepInv, PTL DEF Spec

\* Zeros where the tree has voxels are flagged or being repaired, as long as a
\* repair can read the file it was posted for (bricks_ink_repair_post, which
\* drops the flag before the repair runs).
THEOREM ZerosOwed == ASSUME RepairMayFail = FALSE PROVE Spec => []ZerosAreOwed
<1>1. Init => IInv /\ ZerosAreOwed
  BY InitInv, InitLedger
<1>2. IInv /\ ZerosAreOwed /\ [Next]_vars => (IInv /\ ZerosAreOwed)'
  BY StepInv, LedgerStep
<1> QED
  BY <1>1, <1>2, PTL DEF Spec
=============================================================================
