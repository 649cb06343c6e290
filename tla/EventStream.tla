---------------------------- MODULE EventStream ----------------------------
(***************************************************************************)
(* What a session with the CSMS promises its caller: it subscribes to      *)
(* stations, every event the broker sends it is handled once and in order  *)
(* while the session lasts, and the events not handled when it ends are    *)
(* lost.  StatusFeed uses a session as this stream.  An event is the       *)
(* number of its sending, so that a set of events has its order.           *)
(***************************************************************************)
EXTENDS Naturals, Sequences

CONSTANTS
  Stations,  \* what the session subscribes to
  MaxSent    \* bound: events sent

VARIABLES
  subs,     \* the stations subscribed to
  sent,     \* how many events were sent
  wire,     \* the events sent and not handled
  handled,  \* history: the events handled
  over      \* has the session ended?

vars == <<subs, sent, wire, handled, over>>

Init ==
  /\ subs = {}
  /\ sent = 0
  /\ wire = {}
  /\ handled = <<>>
  /\ over = FALSE

Subscribe(s) ==
  /\ ~over
  /\ subs' = subs \cup {s}
  /\ UNCHANGED <<sent, wire, handled, over>>

(* The broker sends the next n events.                                     *)
Send(n) ==
  /\ ~over /\ subs # {}
  /\ sent + n <= MaxSent
  /\ sent' = sent + n
  /\ wire' = wire \cup (sent + 1)..(sent + n)
  /\ UNCHANGED <<subs, handled, over>>

(* The first of them.                                                      *)
Handle ==
  /\ ~over
  /\ \E e \in wire :
       /\ \A f \in wire : e <= f
       /\ wire' = wire \ {e}
       /\ handled' = Append(handled, e)
  /\ UNCHANGED <<subs, sent, over>>

End ==
  /\ ~over
  /\ over' = TRUE
  /\ subs' = {}
  /\ wire' = {}
  /\ UNCHANGED <<sent, handled>>

Next ==
  \/ \E s \in Stations : Subscribe(s)
  \/ \E n \in 1..MaxSent : Send(n)
  \/ Handle
  \/ End

Spec == Init /\ [][Next]_vars
=============================================================================
