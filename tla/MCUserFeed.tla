----------------------------- MODULE MCUserFeed -----------------------------
(* Instances of UserFeed for TLC.                                          *)
EXTENDS UserFeed, TLC

CONSTANTS k1, i1

Names1 == "" :> "" @@ "A" :> "a" @@ "boxA" :> "boxa"
OneStation ==
  <<[uuid |-> "A", box |-> "boxA", connectors |-> <<[id |-> 1, last |-> Unreported]>>]>>
=============================================================================
