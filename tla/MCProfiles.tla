----------------------------- MODULE MCProfiles -----------------------------
(* Two sessions toggle the CPU profile, three memory profiles queue up.     *)
EXTENDS Profiles
=============================================================================
