------------------------------ MODULE MCWSHub ------------------------------
(* Instances of WSHub for TLC.                                             *)
EXTENDS WSHub, TLC

CONSTANTS u1, u2, c1, c2, p1, p2

(* Two connections of u1, so that one may fail while the other lives;      *)
(* whatever is published for u2 is for none of them.                       *)
TwoConns == c1 :> u1 @@ c2 :> u1
OneConn  == c1 :> u1

(* The two connections are of the same user, and no property tells them    *)
(* apart.  The one temporal property checked with it is a safety property. *)
Twins == Permutations({c1, c2})
=============================================================================
