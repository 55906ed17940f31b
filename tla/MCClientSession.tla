-------------------------- MODULE MCClientSession --------------------------
(* Two keys, one of them the byte of ETB; an ordinary value, an empty one,  *)
(* and one that is the ETB byte.  Others store a string or a number.  The   *)
(* strings are single lines, as escaping makes them: with HttpVal =         *)
(* {"t;u"}, a value of two lines, RepliesInStep does not hold, and with     *)
(* ClientVal = {"t;x"} EffectsOfCall does not.                              *)
EXTENDS ClientSession

MCLine == {"a", "t", "u", "", ETB, BEL, "one other byte"} \cup Command

TwoLines == {"t;u", "t;x"}
MCText   == MCLine \cup TwoLines

MCLines == [x \in MCText |-> CASE x = "t;u" -> <<"t", "u">>
                               [] x = "t;x" -> <<"t", "one other byte">>
                               [] OTHER -> <<x>>]

ASSUME SingleLines
=============================================================================
