------------------------------ MODULE MCLocalCore ------------------------------
(* LocalCore for TLC. *)
EXTENDS LocalCore
=============================================================================
