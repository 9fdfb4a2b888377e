---------------------------- MODULE MCRemoteSession ----------------------------
(* RemoteSession for TLC. *)
EXTENDS RemoteSession, TLC

CONSTANTS r1, r2
MCRequests == {r1, r2}
MCKinds == r1 :> {"forward"} @@ r2 :> {"websocket", "lan"}
=============================================================================
