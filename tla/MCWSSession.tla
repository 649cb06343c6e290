----------------------------- MODULE MCWSSession -----------------------------
(* Instances of WSSession for TLC.                                         *)
EXTENDS WSSession, TLC

CONSTANTS r1, r2, r3, r4, r5, v1, v2

(* A handshake and a deletion.                                             *)
Deleted == r1 :> "config" @@ r2 :> "connect" @@ r3 :> "delete"
(* Two connections of a session, one idle, and a list of stations.         *)
Connected == r1 :> "config" @@ r2 :> "connect" @@ r3 :> "connect" @@ r4 :> "stations"
(* A handshake, a deletion, a second configuration and another token.      *)
Everything == Deleted @@ r4 :> "config" @@ r5 :> "token"
=============================================================================
