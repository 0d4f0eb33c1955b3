------------------------------ MODULE MCHashMap ------------------------------
(* Instances of HashMap for TLC: k1 and k3 share a bucket until the first     *)
(* resize and its slice for ever, as the initial capacity is NumSlices.       *)
EXTENDS HashMap

CONSTANTS k1, k2, k3

HashOf == (k1 :> 0) @@ (k2 :> 1) @@ (k3 :> 2)
=============================================================================
