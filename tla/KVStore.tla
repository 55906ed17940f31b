------------------------------ MODULE KVStore ------------------------------
(***************************************************************************)
(* What the database package promises through XDICK.Get, XDICK.Set and     *)
(* XDICK.Del (src/database/operations.go): one map from keys to values.    *)
(* It knows nothing of sub-dictionaries, tables, chains or rehashing.      *)
(*                                                                         *)
(* A value is an interface{}: nil may be stored (a JSON null sent to /set  *)
(* is), and Get cannot tell a stored nil from an absent key.  Nil may      *)
(* therefore be a member of Value; Absent may not.                         *)
(***************************************************************************)
CONSTANTS Key, Value, Absent, Nil

VARIABLES kv,     \* [Key -> Value \cup {Absent}]
          reply   \* what the last operation returned, and to which call

kvVars == <<kv, reply>>

NoReply == [op |-> "none"]

KVInit == /\ kv = [k \in Key |-> Absent]
          /\ reply = NoReply

KVGet(k) ==
    /\ reply' = [op |-> "Get", key |-> k,
                 ret |-> IF kv[k] = Absent THEN Nil ELSE kv[k]]
    /\ UNCHANGED kv

KVSet(k, v) ==
    /\ kv' = [kv EXCEPT ![k] = v]
    /\ reply' = [op |-> "Set", key |-> k, ret |-> "ok"]

KVDel(k) ==
    /\ kv' = [kv EXCEPT ![k] = Absent]
    /\ reply' = [op |-> "Del", key |-> k,
                 ret |-> IF kv[k] = Absent THEN "entry not found" ELSE "ok"]

KVNext == \E k \in Key : KVGet(k) \/ KVDel(k) \/ \E v \in Value : KVSet(k, v)

KVSpec == KVInit /\ [][KVNext]_kvVars
=============================================================================
