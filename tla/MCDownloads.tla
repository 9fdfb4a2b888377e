------------------------------ MODULE MCDownloads ------------------------------
(* Downloads for TLC. *)
EXTENDS Downloads
=============================================================================
