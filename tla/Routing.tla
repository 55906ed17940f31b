------------------------------ MODULE Routing ------------------------------
(***************************************************************************)
(* XDICK.Get, Set and Del take the sub-dictionary of a key from its hash   *)
(* (src/database/operations.go): Route of XDick is a function of the key   *)
(* only if the hash of PcasHash is.                                        *)
(***************************************************************************)
EXTENDS XDick, PcasHash

CONSTANT Spelling   \* the bytes of each key

ASSUME SpellingAssumption == Spelling \in [Key -> Bytes]

\* The key of a call has one hash, and so one sub-dictionary, whichever hasher
\* of the pool the call gets and whatever that was used for before
\* (src/pcas_hash/hasher.go:32): a key set with one is found with another.
SameKeySameHash ==
    \A c \in Client : call[c] # NoCall => Spelling[call[c].key] \notin Misrouted
=============================================================================
