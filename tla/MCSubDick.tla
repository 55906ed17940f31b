----------------------------- MODULE MCSubDick -----------------------------
(* A sub-dictionary small enough for TLC: first tables of two buckets, so   *)
(* that five keys take it through two expansions (2 -> 4 -> 8).             *)
EXTENDS SubDick, TLC

CONSTANTS k1, k2, k3, k4, k5

MCKey == {k1, k2, k3, k4, k5}

\* Keys spread over the buckets; keys that all collide; keys that share a
\* bucket in a small table and part in a larger one.
Spread    == k1 :> 0 @@ k2 :> 1 @@ k3 :> 2 @@ k4 :> 3 @@ k5 :> 4
Colliding == k1 :> 6 @@ k2 :> 6 @@ k3 :> 6 @@ k4 :> 6 @@ k5 :> 6
Splitting == k1 :> 1 @@ k2 :> 3 @@ k3 :> 5 @@ k4 :> 7 @@ k5 :> 6

MCHashers == {Spread, Colliding, Splitting}
=============================================================================
