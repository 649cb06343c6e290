---------------------------- MODULE MCStatusFeed ----------------------------
(* Instances of StatusFeed for TLC.                                        *)
EXTENDS StatusFeed, TLC

CONSTANTS k1, k2

A == [uuid |-> "A", box |-> "boxA", connectors |-> <<[id |-> 1, last |-> "free"]>>]
B == [uuid |-> "b", box |-> "boxB", connectors |-> <<>>]
TwoStations == <<A, B>>

Names1 == "" :> "" @@ "A" :> "a" @@ "b" :> "b" @@ "boxA" :> "boxa" @@ "boxB" :> "boxb"

(* ConnectorStatusMapsEqual is equality but for what it overlooks.         *)
Maps == UNION {[S -> {Blank, "free"}] : S \in SUBSET {<<"boxA", 1>>, <<"boxA", 2>>, <<"boxB", 1>>}}
ASSUME \A a, b \in Maps : MapsEqual(a, b) <=> a = b \/ Overlooks(a, b)
ASSUME \E a, b \in Maps : Overlooks(a, b) /\ ~Overlooks(b, a)
=============================================================================
