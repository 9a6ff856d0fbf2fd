----------------------------- MODULE LabelStore -----------------------------
(***************************************************************************)
(* The label volume of core/labelvol.c and its directory: painting makes   *)
(* bricks dirty, a save writes or unlinks the file of every dirty brick    *)
(* and then the manifest, a start of the program loads what a directory    *)
(* with a manifest holds.  Calls on the file system fail, and the program  *)
(* may crash between two of them; a rename that has returned is on disk.   *)
(*                                                                         *)
(* All of it runs on the GUI thread, so that nobody paints during a save.  *)
(* A brick is as good as one number, 0 when it has no label; one directory *)
(* belongs to one volume.                                                  *)
(***************************************************************************)
EXTENDS Naturals, FiniteSets

CONSTANTS
  Bricks,
  Labels,     \* what a brick may hold, 0 for nothing
  MaxEdits,   \* bound: paint operations
  MaxFaults,  \* bound: failed calls
  MaxStarts   \* bound: starts of the program

LabelAssumption ==
  /\ IsFiniteSet(Bricks) /\ 0 \in Labels
  /\ {MaxEdits, MaxFaults, MaxStarts} \subseteq Nat

VARIABLES
  mem,      \* data[b]
  dirty,    \* bricks with gens[b] # saved[b]
  file,     \* file[b]: what the brick's file holds, 0 without one
  manifest, \* manifest.json is there
  at,       \* what the program is doing
  todo,     \* bricks the save has still to look at
  rc,       \* what the save will return
  closing,  \* the save is that of a volume that is closed
  owed,     \* owed[b]: contents of b in the last complete save and since then
  known,    \* bricks painted or loaded since the start
  edits, faults, starts \* bound counters

volume == <<mem, dirty, known>>
disk == <<file, manifest>>
save == <<at, todo, rc, closing>>
labelVars == <<volume, disk, save, owed, edits, faults, starts>>

LabelTypeOK ==
  /\ mem \in [Bricks -> Labels] /\ file \in [Bricks -> Labels]
  /\ dirty \subseteq known /\ known \subseteq Bricks /\ todo \subseteq Bricks
  /\ manifest \in BOOLEAN /\ closing \in BOOLEAN /\ rc \in {0, 1}
  /\ at \in {"down", "idle", "bricks"}
  /\ owed \in [Bricks -> SUBSET Labels]

LabelInit ==
  /\ mem = [b \in Bricks |-> 0] /\ dirty = {} /\ known = {}
  /\ file = [b \in Bricks |-> 0] /\ manifest = FALSE
  /\ at = "down" /\ todo = {} /\ rc = 0 /\ closing = FALSE
  /\ owed = [b \in Bricks |-> {0}]
  /\ edits = 0 /\ faults = 0 /\ starts = 0

MayFail == faults < MaxFaults /\ faults' = faults + 1
Works == UNCHANGED faults

-----------------------------------------------------------------------------

\* r3d_labelvol_load: the bricks whose file can be read and decoded replace
\* those in memory m, of which d are dirty.
Load(m, d, k) ==
  \E bad \in SUBSET {b \in Bricks : file[b] # 0} :
    LET good == {b \in Bricks : file[b] # 0} \ bad IN
    /\ IF bad = {} THEN Works ELSE MayFail
    /\ mem' = [b \in Bricks |-> IF b \in good THEN file[b] ELSE m[b]]
    /\ dirty' = d \ good
    /\ known' = k \cup good

\* "enable 3D labelling": labels that are on disk are picked straight up.
Start ==
  /\ at = "down" /\ starts < MaxStarts /\ starts' = starts + 1
  /\ at' = "idle"
  /\ LET none == [b \in Bricks |-> 0] IN
     IF manifest THEN Load(none, {}, {})
                 ELSE mem' = none /\ dirty' = {} /\ known' = {} /\ Works
  /\ UNCHANGED <<disk, todo, rc, closing, owed, edits>>

Paint(b) ==
  /\ at = "idle" /\ edits < MaxEdits /\ edits' = edits + 1
  /\ \E l \in Labels \ {mem[b]} :
       /\ mem' = [mem EXCEPT ![b] = l]
       /\ owed' = [owed EXCEPT ![b] = @ \cup {l}]
  /\ dirty' = dirty \cup {b} /\ known' = known \cup {b}
  /\ UNCHANGED <<disk, save, faults, starts>>

\* The load button.
LoadAgain ==
  /\ at = "idle" /\ manifest
  /\ Load(mem, dirty, known)
  /\ UNCHANGED <<disk, save, owed, edits, starts>>

-----------------------------------------------------------------------------
(* r3d_labelvol_save.                                                      *)

\* A volume is closed when its last save is complete, or with the program.
Ends(closes, ret) ==
  at' \in IF ~closes THEN {"idle"} ELSE IF ret = 0 THEN {"down"} ELSE {"idle", "down"}

\* The save button, or the autosave of unsaved edits when the volume is
\* closed; mkdir fails or not.
Save ==
  /\ at = "idle"
  /\ closing' \in (IF dirty = {} THEN {FALSE} ELSE BOOLEAN)
  /\ \/ at' = "bricks" /\ todo' = Bricks /\ rc' = 0 /\ Works
     \/ Ends(closing', 1) /\ UNCHANGED <<todo, rc>> /\ MayFail
  /\ UNCHANGED <<volume, disk, owed, edits, starts>>

\* Mutant: the file of an emptied brick could not be unlinked, and the brick
\* counts as saved.
SavedAnyway(b) == dirty' = dirty \ {b}

\* A failure leaves the brick dirty.
Failed(b) == UNCHANGED dirty

SaveBrick(b) ==
  /\ at = "bricks" /\ b \in todo
  /\ todo' = todo \ {b}
  /\ \/ /\ b \notin dirty
        /\ Works /\ UNCHANGED <<file, dirty, rc>>
     \/ /\ b \in dirty \* renamed into place, or unlinked
        /\ file' = [file EXCEPT ![b] = mem[b]] /\ dirty' = dirty \ {b}
        /\ Works /\ UNCHANGED rc
     \/ /\ b \in dirty
        /\ rc' = 1 /\ Failed(b)
        /\ MayFail /\ UNCHANGED file
  /\ UNCHANGED <<mem, known, manifest, at, closing, owed, edits, starts>>

\* The manifest comes last; after a complete save nothing else is owed.
SaveManifest ==
  /\ at = "bricks" /\ todo = {}
  /\ \/ /\ manifest' = TRUE /\ Works
        /\ Ends(closing, rc)
        /\ owed' = IF rc = 0 THEN [b \in Bricks |-> IF b \in known THEN {mem[b]} ELSE owed[b]]
                             ELSE owed
     \/ Ends(closing, 1) /\ MayFail /\ UNCHANGED <<manifest, owed>>
  /\ rc' = 0 /\ closing' = FALSE
  /\ UNCHANGED <<volume, file, todo, edits, starts>>

-----------------------------------------------------------------------------

Crash ==
  /\ at # "down"
  /\ at' = "down" /\ todo' = {} /\ rc' = 0 /\ closing' = FALSE
  /\ UNCHANGED <<volume, disk, owed, edits, faults, starts>>

LabelNext ==
  \/ Start \/ LoadAgain \/ Save \/ SaveManifest \/ Crash
  \/ \E b \in Bricks : Paint(b) \/ SaveBrick(b)

LabelSpec == LabelInit /\ [][LabelNext]_labelVars

-----------------------------------------------------------------------------
(* Properties.                                                             *)

\* Labels come back: what the disk has of a brick is what the last complete
\* save had of it, or a later edit, however saves fail and the program ends;
\* a brick that does not count as dirty is on disk as it is in memory.
LabelsComeBack ==
  /\ LabelTypeOK
  /\ \A b \in Bricks : file[b] \in owed[b]
  /\ at # "down" => \A b \in known \ dirty : file[b] = mem[b]
=============================================================================
