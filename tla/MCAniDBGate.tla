----------------------------- MODULE MCAniDBGate -----------------------------
(* Instances of AniDBGate for TLC. *)
EXTENDS AniDBGate
=============================================================================
