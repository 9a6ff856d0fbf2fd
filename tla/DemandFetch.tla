----------------------------- MODULE DemandFetch ----------------------------
(***************************************************************************)
(* The demand path of core/cpuvol.c: cv_brick looks for a block in the     *)
(* thread's memo, the decoded cache, the table of negatives and the brick  *)
(* files, and downloads the block's cell when its file is missing.  A      *)
(* strict read wants to know whether the zeros it gets are true; a lenient *)
(* one is content with zeros while a failure is remembered.                *)
(*                                                                         *)
(* A step is one critical section, one call on a file, or the download.    *)
(* A brick file holds one block, the table of negatives has one entry, on  *)
(* which all blocks collide, and the leases of compressed files, checked   *)
(* against the file's identity, are left out, as are source shards and the *)
(* native format.  A stored time is the number of ticks until then.        *)
(***************************************************************************)
EXTENDS Integers, FiniteSets

CONSTANTS
  Samplers,      \* sampler threads
  Vols,          \* r3d_cpuvol's open on one directory
  VolOf,         \* VolOf[t]: the volume thread t reads
  VolBricks,
  CellOf,        \* CellOf[b]: the cell b is downloaded with
  FullBricks,    \* bricks that are not air at the server
  CorruptBricks, \* bricks whose file on disk cannot be decoded
  TTL, Soft,     \* 30 s after a failure, 5 s after a malformed answer
  MaxFetchFaults, \* bound: failed downloads and writes
  NoBrick,
  Forever        \* UINT64_MAX

DemandAssumption ==
  /\ VolOf \in [Samplers -> Vols] /\ CellOf \in [VolBricks -> SUBSET VolBricks]
  /\ \A b \in VolBricks : b \in CellOf[b] /\ \A c \in CellOf[b] : CellOf[c] = CellOf[b]
  /\ FullBricks \subseteq VolBricks /\ CorruptBricks \subseteq FullBricks
  /\ TTL \in Nat /\ Soft \in 0..TTL /\ MaxFetchFaults \in Nat
  /\ NoBrick \notin VolBricks /\ Forever \notin 0..TTL

VARIABLES
  dmFile, \* dmFile[b]: the size of the brick's file is zero, or it has data
  tmp,    \* tmp[b]: the same of <file>.tmp.<pid>
  neg,    \* neg[v]: the entry of the table of negatives
  cool,   \* net_cool
  cached, \* cached[v]: the blocks in the decoded cache
  dmPc, dmWant, strict, \* what each thread reads, and where it is in cv_brick
  memo,   \* cv_nkey, cv_nexp
  absent, \* absent, expiry: the negative the thread found
  age,    \* ticks since the thread read the clock: now_s, and now in the fetch
  dmTodo, \* bricks of the cell it has still to write
  fd,     \* the temporary file it writes: of which brick, and where it is now
  got,    \* what the last read gave
  dmFaults

dmDisk == <<dmFile, tmp>>
dmVolume == <<neg, cool, cached>>
dmReader == <<dmPc, dmWant, strict, memo, absent, age, dmTodo, fd, got>>
demandVars == <<dmDisk, dmVolume, dmReader, dmFaults>>

Expiries == 0..TTL \cup {Forever}
Negatives == [key : VolBricks \cup {NoBrick}, exp : Expiries]
NoNegative == [key |-> NoBrick, exp |-> 0]
NoFile == [brick |-> NoBrick, at |-> "gone"]

DemandTypeOK ==
  /\ dmFile \in [VolBricks -> {"none", "zero", "data", "bad"}]
  /\ tmp \in [VolBricks -> {"none", "zero", "data"}]
  /\ neg \in [Vols -> Negatives] /\ memo \in [Samplers -> Negatives]
  /\ cool \in [Vols -> 0..TTL] /\ cached \in [Vols -> SUBSET VolBricks]
  /\ dmPc \in [Samplers -> {"idle", "find", "neg", "stat", "lock", "fetch", "stat2", "data",
                         "rename", "open", "decode", "publish"}]
  /\ dmWant \in [Samplers -> VolBricks \cup {NoBrick}] /\ strict \in [Samplers -> BOOLEAN]
  /\ absent \in [Samplers -> Expiries] /\ age \in [Samplers -> [at : 0..TTL, net : 0..TTL]]
  /\ dmTodo \in [Samplers -> SUBSET VolBricks]
  /\ fd \in [Samplers -> [brick : VolBricks \cup {NoBrick}, at : {"tmp", "file", "gone"}]]
  /\ got \in [Samplers -> {"none", "data", "air", "unknown"}]

DemandInit ==
  /\ dmFile = [b \in VolBricks |-> IF b \in CorruptBricks THEN "bad" ELSE "none"]
  /\ tmp = [b \in VolBricks |-> "none"]
  /\ neg = [v \in Vols |-> NoNegative] /\ cool = [v \in Vols |-> 0]
  /\ cached = [v \in Vols |-> {}]
  /\ dmPc = [t \in Samplers |-> "idle"] /\ dmWant = [t \in Samplers |-> NoBrick]
  /\ strict = [t \in Samplers |-> FALSE] /\ memo = [t \in Samplers |-> NoNegative]
  /\ absent = [t \in Samplers |-> 0]
  /\ age = [t \in Samplers |-> [at |-> 0, net |-> 0]]
  /\ dmTodo = [t \in Samplers |-> {}] /\ fd = [t \in Samplers |-> NoFile]
  /\ got = [t \in Samplers |-> "none"]
  /\ dmFaults = 0

-----------------------------------------------------------------------------
(* A read: cv_brick.                                                       *)

Goto(t, p) == dmPc' = [dmPc EXCEPT ![t] = p]

\* cv_brick returns; what it kept on its stack is forgotten.
Answer(t, g) ==
  /\ Goto(t, "idle") /\ got' = [got EXCEPT ![t] = g]
  /\ absent' = [absent EXCEPT ![t] = 0]
  /\ age' = [age EXCEPT ![t] = [at |-> 0, net |-> 0]]

Zeros(exp) == IF exp = Forever THEN "air" ELSE "unknown"

\* Mutant: a strict read believes a failure it remembers.
MemoHoldsForAll(t, b, s) ==
  memo[t].key = b /\ memo[t].exp # 0

MemoHolds(t, b, s) ==
  memo[t].key = b /\ (memo[t].exp = Forever \/ (~s /\ memo[t].exp # 0))

ReadBlock(t, b, s) ==
  /\ dmPc[t] = "idle"
  /\ dmWant' = [dmWant EXCEPT ![t] = b] /\ strict' = [strict EXCEPT ![t] = s]
  /\ IF MemoHolds(t, b, s)
       THEN /\ got' = [got EXCEPT ![t] = IF s THEN "air" ELSE Zeros(memo[t].exp)]
            /\ UNCHANGED dmPc
       ELSE got' = [got EXCEPT ![t] = "none"] /\ Goto(t, "find")
  /\ UNCHANGED <<dmDisk, dmVolume, memo, absent, age, dmTodo, fd, dmFaults>>

FindBlock(t) ==
  /\ dmPc[t] = "find"
  /\ IF dmWant[t] \in cached[VolOf[t]] THEN Answer(t, "data")
                                     ELSE Goto(t, "neg") /\ UNCHANGED <<got, absent, age>>
  /\ UNCHANGED <<dmDisk, dmVolume, dmWant, strict, memo, dmTodo, fd, dmFaults>>

LookUpNegative(t) ==
  /\ dmPc[t] = "neg"
  /\ LET n   == neg[VolOf[t]]
         exp == IF n.key = dmWant[t] THEN n.exp ELSE 0
     IN IF exp = Forever \/ (exp # 0 /\ ~strict[t])
          THEN /\ memo' = [memo EXCEPT ![t] = [key |-> dmWant[t], exp |-> exp]]
               /\ Answer(t, Zeros(exp))
          ELSE /\ absent' = [absent EXCEPT ![t] = exp]
               /\ Goto(t, "stat")
               /\ UNCHANGED <<memo, got, age>>
  /\ UNCHANGED <<dmDisk, dmVolume, dmWant, strict, dmTodo, fd, dmFaults>>

StatFile(t) ==
  /\ dmPc[t] = "stat"
  /\ Goto(t, IF dmFile[dmWant[t]] = "none" /\ absent[t] = 0 THEN "lock" ELSE "open")
  /\ UNCHANGED <<dmDisk, dmVolume, dmWant, strict, memo, absent, age, dmTodo, fd, got, dmFaults>>

-----------------------------------------------------------------------------
(* The download of a cell: cv_net_fetch, cv_net_fetch_h.                   *)

Fetching == {"fetch", "stat2", "data", "rename"}

Holder(t, u) == \* u holds the lock of t's cell
  VolOf[u] = VolOf[t] /\ dmPc[u] \in Fetching /\ CellOf[dmWant[u]] = CellOf[dmWant[t]]

\* The lock, stat again, and net_cool.
LockCell(t) ==
  /\ dmPc[t] = "lock" /\ \A u \in Samplers : ~Holder(t, u)
  /\ IF dmFile[dmWant[t]] # "none" \/ cool[VolOf[t]] # 0
       THEN Goto(t, "open") /\ UNCHANGED age
       ELSE Goto(t, "fetch") /\ age' = [age EXCEPT ![t].net = 0]
  /\ UNCHANGED <<dmDisk, dmVolume, dmWant, strict, memo, absent, dmTodo, fd, got, dmFaults>>

Later(ttl, since) == IF since >= ttl THEN 0 ELSE ttl - since

LaterOf(x, y) == IF x >= y THEN x ELSE y

\* Every chunk arrives or is absent, the network fails, or a chunk is malformed.
Fetched(t) ==
  /\ dmPc[t] = "fetch"
  /\ \/ /\ dmTodo' = [dmTodo EXCEPT ![t] = CellOf[dmWant[t]]]
        /\ Goto(t, "stat2")
        /\ UNCHANGED <<cool, dmFaults>>
     \/ /\ dmFaults < MaxFetchFaults /\ dmFaults' = dmFaults + 1
        /\ \E c \in {Later(TTL, age[t].net), LaterOf(cool[VolOf[t]], Later(Soft, age[t].net))} :
             cool' = [cool EXCEPT ![VolOf[t]] = c]
        /\ Goto(t, "open")
        /\ UNCHANGED dmTodo
  /\ UNCHANGED <<dmDisk, neg, cached, dmWant, strict, memo, absent, age, fd, got>>

\* cv_write_file, for a brick that still has no file: fopen creates or
\* truncates the temporary file, ...
WriteOpen(t) ==
  /\ dmPc[t] = "stat2" /\ dmTodo[t] # {}
  /\ \E b \in dmTodo[t] :
       /\ dmTodo' = [dmTodo EXCEPT ![t] = @ \ {b}]
       /\ IF dmFile[b] # "none" THEN UNCHANGED <<tmp, fd, dmPc>>
          ELSE /\ tmp' = [tmp EXCEPT ![b] = "zero"]
               /\ fd' = [fd EXCEPT ![t] = [brick |-> b, at |-> "tmp"]]
               /\ Goto(t, "data")
  /\ UNCHANGED <<dmFile, dmVolume, dmWant, strict, memo, absent, age, got, dmFaults>>

\* ... the data go where the file is by now, ...
WriteData(t) ==
  /\ dmPc[t] = "data"
  /\ LET b == fd[t].brick
         c == IF b \in FullBricks THEN "data" ELSE "zero"
     IN \/ /\ tmp' = IF fd[t].at = "tmp" THEN [tmp EXCEPT ![b] = c] ELSE tmp
           /\ dmFile' = IF fd[t].at = "file" THEN [dmFile EXCEPT ![b] = c] ELSE dmFile
           /\ Goto(t, "rename")
           /\ UNCHANGED <<fd, dmFaults>>
        \/ /\ dmFaults < MaxFetchFaults /\ dmFaults' = dmFaults + 1 \* a full disk
           /\ tmp' = [tmp EXCEPT ![b] = "none"]
           /\ fd' = [u \in Samplers |->
                       IF u = t THEN NoFile
                       ELSE IF fd[u] = [brick |-> b, at |-> "tmp"] THEN [brick |-> b, at |-> "gone"]
                       ELSE fd[u]]
           /\ Goto(t, "stat2")
           /\ UNCHANGED dmFile
  /\ UNCHANGED <<dmVolume, dmWant, strict, memo, absent, age, dmTodo, got>>

\* ... and rename gives it its name, if it is still there.
WriteRename(t) ==
  /\ dmPc[t] = "rename"
  /\ LET b == fd[t].brick IN
       IF tmp[b] = "none" THEN fd' = [fd EXCEPT ![t] = NoFile] /\ UNCHANGED dmDisk
       ELSE /\ dmFile' = [dmFile EXCEPT ![b] = tmp[b]]
            /\ tmp' = [tmp EXCEPT ![b] = "none"]
            /\ fd' = [u \in Samplers |->
                        IF u = t THEN NoFile
                        ELSE IF fd[u].brick # b THEN fd[u]
                        ELSE [fd[u] EXCEPT !.at = IF @ = "tmp" THEN "file" ELSE "gone"]]
  /\ Goto(t, "stat2")
  /\ UNCHANGED <<dmVolume, dmWant, strict, memo, absent, age, dmTodo, got, dmFaults>>

CellWritten(t) ==
  /\ dmPc[t] = "stat2" /\ dmTodo[t] = {}
  /\ Goto(t, "open")
  /\ UNCHANGED <<dmDisk, dmVolume, dmWant, strict, memo, absent, age, dmTodo, fd, got, dmFaults>>

-----------------------------------------------------------------------------
(* The file is read and decoded.                                           *)

\* Mutant: a failure is remembered for good.
ExpiryForGood(t) == IF absent[t] # 0 THEN absent[t] ELSE Forever

\* How long a failure is remembered, counted from when the clock was read.
Expiry(t) == IF absent[t] # 0 THEN absent[t] ELSE Later(TTL, age[t].at)

OpenFile(t) ==
  /\ dmPc[t] = "open"
  /\ IF dmFile[dmWant[t]] \in {"data", "bad"}
       THEN Goto(t, "decode") /\ UNCHANGED <<neg, memo, got, absent, age>>
       ELSE LET exp == IF dmFile[dmWant[t]] = "zero" THEN Forever ELSE Expiry(t)
                n   == [key |-> dmWant[t], exp |-> exp]
            IN /\ neg' = [neg EXCEPT ![VolOf[t]] = n]
               /\ memo' = [memo EXCEPT ![t] = n]
               /\ Answer(t, Zeros(exp))
  /\ UNCHANGED <<dmDisk, cool, cached, dmWant, strict, dmTodo, fd, dmFaults>>

DecodeFile(t) ==
  /\ dmPc[t] = "decode"
  /\ IF dmWant[t] \notin CorruptBricks
       THEN Goto(t, "publish") /\ UNCHANGED <<neg, got, absent, age>>
       ELSE /\ neg' = [neg EXCEPT ![VolOf[t]] = [key |-> dmWant[t], exp |-> Expiry(t)]]
            /\ Answer(t, "unknown")
  /\ UNCHANGED <<dmDisk, cool, cached, dmWant, strict, memo, dmTodo, fd, dmFaults>>

\* A slot is found, or every slot is leased.
PublishBlock(t) ==
  /\ dmPc[t] = "publish"
  /\ \/ cached' = [cached EXCEPT ![VolOf[t]] = @ \cup {dmWant[t]}]
     \/ UNCHANGED cached
  /\ Answer(t, "data")
  /\ UNCHANGED <<dmDisk, neg, cool, dmWant, strict, memo, dmTodo, fd, dmFaults>>

-----------------------------------------------------------------------------

EvictBlock(v, b) ==
  /\ b \in cached[v]
  /\ cached' = [cached EXCEPT ![v] = @ \ {b}]
  /\ UNCHANGED <<dmDisk, neg, cool, dmReader, dmFaults>>

Earlier(exp) == IF exp \in {0, Forever} THEN exp ELSE exp - 1
Older(a) == IF a < TTL THEN a + 1 ELSE a

DemandTick ==
  /\ neg' = [v \in Vols |-> [neg[v] EXCEPT !.exp = Earlier(@)]]
  /\ memo' = [t \in Samplers |-> [memo[t] EXCEPT !.exp = Earlier(@)]]
  /\ cool' = [v \in Vols |-> Earlier(cool[v])]
  /\ absent' = [t \in Samplers |-> Earlier(absent[t])]
  /\ age' = [t \in Samplers |->
               IF dmPc[t] \in {"idle", "find"} THEN age[t]
               ELSE [at |-> Older(age[t].at),
                     net |-> IF dmPc[t] \in Fetching THEN Older(age[t].net) ELSE 0]]
  /\ UNCHANGED <<dmDisk, cached, dmPc, dmWant, strict, dmTodo, fd, got, dmFaults>>

ReadStep(t) ==
  \/ FindBlock(t) \/ LookUpNegative(t) \/ StatFile(t) \/ LockCell(t) \/ Fetched(t)
  \/ WriteOpen(t) \/ WriteData(t) \/ WriteRename(t) \/ CellWritten(t)
  \/ OpenFile(t) \/ DecodeFile(t) \/ PublishBlock(t)

ReadSome(b) == \E t \in Samplers, s \in BOOLEAN : ReadBlock(t, b, s)

DemandNext ==
  \/ \E t \in Samplers : ReadStep(t)
  \/ \E b \in VolBricks : ReadSome(b)
  \/ \E v \in Vols, b \in VolBricks : EvictBlock(v, b)
  \/ DemandTick

DemandSpec == DemandInit /\ [][DemandNext]_demandVars

\* Threads run, time passes, and every block is asked for again and again.
DemandFairness ==
  /\ \A t \in Samplers : WF_demandVars(ReadStep(t))
  /\ WF_demandVars(DemandTick)
  /\ \A b \in VolBricks : SF_demandVars(ReadSome(b))

DemandFairSpec == DemandSpec /\ DemandFairness

-----------------------------------------------------------------------------
(* Properties.                                                             *)

\* Air is never a guess: a strict read that is told its zeros are true, and
\* every negative that is remembered for good, is of a brick the server does
\* not have, whatever failed before and whoever writes the file meanwhile.
NoFalseAir ==
  /\ DemandTypeOK
  /\ \A t \in Samplers : got[t] = "air" /\ strict[t] => dmWant[t] \notin FullBricks
  /\ \A v \in Vols : neg[v].exp = Forever => neg[v].key \notin FullBricks
  /\ \A t \in Samplers : memo[t].exp = Forever => memo[t].key \notin FullBricks

\* Every block the server has is delivered again and again, though blocks are
\* evicted, negatives are remembered and downloads fail.
Given(b) == \E t \in Samplers : dmWant[t] = b /\ got[t] = "data"
Delivered == \A b \in FullBricks \ CorruptBricks : []<>Given(b)
=============================================================================
