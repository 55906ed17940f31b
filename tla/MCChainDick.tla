---------------------------- MODULE MCChainDick ----------------------------
(* Tables of one bucket to begin with, so that three keys take a chain of   *)
(* any order through two expansions (1 -> 2 -> 4).                          *)
EXTENDS ChainDick, TLC

CONSTANTS k1, k2, k3

MCKey == {k1, k2, k3}
Spread    == k1 :> 0 @@ k2 :> 1 @@ k3 :> 2
Colliding == k1 :> 3 @@ k2 :> 3 @@ k3 :> 3
MCHashers == {Spread, Colliding}
=============================================================================
