--------------------------- MODULE MCAcceptLoops ---------------------------
(* All three loops, a listed and an unlisted peer, three connections.       *)
EXTENDS AcceptLoops
=============================================================================
