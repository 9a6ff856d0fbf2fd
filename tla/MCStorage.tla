------------------------------ MODULE MCStorage -----------------------------
(***************************************************************************)
(* The components that keep blocks, blobs and labels.  They do not         *)
(* interact, so a behaviour is one of a single component, chosen at the    *)
(* start; the others stand still, as they are at the start.  All are the   *)
(* modules themselves, with the constants of the configuration; the demand *)
(* fetch is there once more with a spoilt file, in the same variables.     *)
(* The block cache has two volumes of two slots, and runs twice, under a   *)
(* restriction of what is read from them.  The model values m1, m2 and m3  *)
(* are the slots of the atlas, or threads, or blocks.                      *)
(***************************************************************************)
EXTENDS BlockCache, BrickStream, LabelStore, WarmTier, DemandFetch, TLC

CONSTANTS m1, m2, m3, base, f1, f2, f3, f4, vol1, vol2

VARIABLES
  component \* the component that runs

brVars == streamVars
caVars == vars
laVars == labelVars
waVars == warmVars
dmVars == demandVars

-----------------------------------------------------------------------------
Pair == {m1, m2}

\* One coarse block and four fine ones, in two views; two share a seam.
Sights == {{base, f1, f2, f4}, {f1, f3}}
SeamOfF1 == [b \in Blocks |-> IF b = f1 THEN {f2} ELSE {}]

\* Volumes and the blocks read from them.
Cell == {f1, f2}

\* Blobs of one and two granules in an arena of three, and one of four.
Lengths == f1 :> 1 @@ f2 :> 1 @@ f3 :> 2 @@ f4 :> 4

OneVolume == [t \in Pair |-> vol1]
OneCell == [b \in Cell |-> Cell]

\* Bricks f1 and f2, which is air, come in one cell; the file of f1 is missing,
\* or else spoilt.
SpoiltFetch == INSTANCE DemandFetch WITH CorruptBricks <- FullBricks

ASSUME Instances ==
  /\ StreamAssumption /\ CacheAssumption /\ WarmAssumption /\ LabelAssumption /\ DemandAssumption

Symm == Permutations(Pair)

-----------------------------------------------------------------------------
Is(x) == component = x

SuiteInit ==
  /\ component \in {"bricks", "shared", "paired", "warm", "labels", "fetch", "spoilt"}
  /\ Init /\ LabelInit /\ WarmInit
  /\ StreamInit /\ slotOf[base] = m3 \* the slots are as good as each other
  /\ Is("bricks") \/ view = {f1, f3}
  /\ IF Is("spoilt") THEN SpoiltFetch!DemandInit ELSE DemandInit

\* shared: three blocks compete for the slots of one volume, and leases move
\* within it.  paired: leases move from one volume to another as well, which
\* cv_lease_drop does in two steps.
BlocksOf(p) == IF Is("shared") THEN IF p = vol1 THEN Keys ELSE {}
                            ELSE IF p = vol1 THEN Pair ELSE {m3}
Restricted ==
  /\ \A p \in Pools : Range(keys'[p]) \subseteq BlocksOf(p) \cup {None}
  /\ \A t \in Threads : want'[t].key # None => want'[t].key \in BlocksOf(want'[t].pool)

BricksStep == Is("bricks") /\ StreamNext
CacheStep  == (Is("shared") \/ Is("paired")) /\ Next /\ Restricted
WarmStep   == Is("warm") /\ WarmNext
LabelStep  == Is("labels") /\ LabelNext
FetchStep  == Is("fetch") /\ DemandNext
SpoiltStep == Is("spoilt") /\ SpoiltFetch!DemandNext

SuiteNext ==
  /\ \/ BricksStep /\ UNCHANGED <<caVars, waVars, laVars, dmVars>>
     \/ CacheStep  /\ UNCHANGED <<brVars, waVars, laVars, dmVars>>
     \/ WarmStep   /\ UNCHANGED <<brVars, caVars, laVars, dmVars>>
     \/ LabelStep  /\ UNCHANGED <<brVars, caVars, waVars, dmVars>>
     \/ FetchStep  /\ UNCHANGED <<brVars, caVars, waVars, laVars>>
     \/ SpoiltStep /\ UNCHANGED <<brVars, caVars, waVars, laVars>>
  /\ UNCHANGED component

SuiteSpec ==
  SuiteInit /\ [][SuiteNext]_<<component, brVars, caVars, waVars, laVars, dmVars>>
=============================================================================
