-------------------------- MODULE MCSocketSession --------------------------
(* A client with one ordinary key that may also send the ETB line where a   *)
(* key is expected, two string values, and one value that is no string.     *)
EXTENDS SocketSession

MCKey == {"a", ETB}
=============================================================================
