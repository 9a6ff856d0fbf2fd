----------------------------- MODULE BlockTier ------------------------------
(***************************************************************************)
(* What streaming may rely on of where a block can be had, and what the    *)
(* fetchers give it.  A block that is missing arrives, as air exactly when *)
(* the server has nothing of it; what is known of a block may be forgotten *)
(* at any time, and never changes otherwise.                               *)
(***************************************************************************)
CONSTANTS Keys, Empty

VARIABLE tier

Arrive(k) ==
  /\ tier[k] = "missing"
  /\ tier' = [tier EXCEPT ![k] = IF k \in Empty THEN "absent" ELSE "local"]

Forget(k) == tier[k] # "missing" /\ tier' = [tier EXCEPT ![k] = "missing"]

Next == \E k \in Keys : Arrive(k) \/ Forget(k)
=============================================================================
