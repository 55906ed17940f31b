------------------------------ MODULE MCXDick ------------------------------
(* Two goroutines on two sub-dictionaries.  The first has three keys in     *)
(* different buckets of its table of two: adding the third starts a rehash  *)
(* that later calls go on with.  The bytes of the keys are on both sides of *)
(* the boundaries of a buffer.                                              *)
EXTENDS Routing, TLC

CONSTANTS k1, k2, k3, k4

MCKey    == {k1, k2, k3, k4}
MCRoute  == k1 :> 0 @@ k2 :> 0 @@ k3 :> 0 @@ k4 :> 1
MCHashOf == k1 :> 0 @@ k2 :> 1 @@ k3 :> 3 @@ k4 :> 0

MCSpelling == k1 :> <<1, 2, 3, 4>> @@ k2 :> <<1, 2, 3, 4, 5, 6>>
           @@ k3 :> <<1, 1, 1, 1, 1, 1, 1, 1, 1>>
           @@ k4 :> <<1, 2, 3, 4, 5, 6, 7, 8, 9, 10>>
MCBytes    == {MCSpelling[k] : k \in MCKey}
=============================================================================
