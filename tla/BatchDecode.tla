---------------------------- MODULE BatchDecode ----------------------------
(***************************************************************************)
(* What a caller of brdec_run may rely on, without the thread pool: a call *)
(* hands over a batch of items, every item is decoded exactly once while   *)
(* the call is open, and the call returns only after the last of them with *)
(* a result that says whether a required item failed.                      *)
(***************************************************************************)
EXTENDS Naturals

CONSTANTS
  Callers,    \* threads that call brdec_run: bricks worker, render thread
  Batches     \* the batch sizes a caller may ask for

VARIABLES
  open,       \* open[c]: c is inside brdec_run
  left,       \* left[c]: indexes of c's batch that are not decoded yet
  failed      \* failed[c]: a required item of c's batch failed

absVars == <<open, left, failed>>

Init ==
  /\ open = [c \in Callers |-> FALSE]
  /\ left = [c \in Callers |-> {}]
  /\ failed = [c \in Callers |-> FALSE]

Call(c) ==
  /\ ~open[c]
  /\ open' = [open EXCEPT ![c] = TRUE]
  /\ \E n \in Batches : left' = [left EXCEPT ![c] = 0..(n - 1)]
  /\ failed' = [failed EXCEPT ![c] = FALSE]

Decode(c) ==
  /\ open[c]
  /\ \E i \in left[c], bad \in BOOLEAN :
       /\ left' = [left EXCEPT ![c] = @ \ {i}]
       /\ failed' = [failed EXCEPT ![c] = @ \/ bad]
  /\ UNCHANGED open

Return(c) ==
  /\ open[c]
  /\ left[c] = {}
  /\ open' = [open EXCEPT ![c] = FALSE]
  /\ UNCHANGED <<left, failed>>

Next == \E c \in Callers : Call(c) \/ Decode(c) \/ Return(c)

Spec == Init /\ [][Next]_absVars
=============================================================================
