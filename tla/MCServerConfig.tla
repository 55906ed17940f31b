--------------------------- MODULE MCServerConfig ---------------------------
(* A valid and an invalid sub_dicks, a level in lower case and one unknown, *)
(* two log files of which any may fail to open, two passwords; each of the  *)
(* variables sub_dicks, level and log file may be unset, empty or set.      *)
EXTENDS ServerConfig
=============================================================================
