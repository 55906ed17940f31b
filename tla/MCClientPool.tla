---------------------------- MODULE MCClientPool ----------------------------
(* Three rounds of one insertion over at most two connections, and random   *)
(* keys few enough to collide, with the same value or another one.         *)
EXTENDS ClientPool

MCRandKey == {<<0, 1>>, <<0, 2>>, <<0, 3>>}
MCRandVal == {<<0, 1>>, <<0, 2>>}
=============================================================================
