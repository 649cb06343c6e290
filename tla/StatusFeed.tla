----------------------------- MODULE StatusFeed -----------------------------
(***************************************************************************)
(* The status feed of one user: the loop that keeps a STOMP session with   *)
(* the CSMS (runUserLoop), the goroutine that polls the inventory while a  *)
(* session lasts (pollInventoryDuringSession) and the handler of the STOMP *)
(* events.  They share "live" and "prevInventory" under invMu and publish  *)
(* after having released it: a goroutine at "publish" is about to, and     *)
(* UserFeed says what, and what a client sees of it.                       *)
(*                                                                         *)
(* A fetch is two steps: the answer of the provider, and its use.  Failed  *)
(* fetches and backoffs change no state and are stuttering steps.          *)
(***************************************************************************)
EXTENDS StationList, SequencesExt

CONSTANTS
  Catalogue,     \* the stations of the CSMS, in the order of every answer
  Ids,           \* the connectors that report; 0 is the station as a whole
  Pollers,       \* poll goroutines: bounds how many exist at once
  MaxWire,       \* bound: events on their way in the STOMP session
  Nothing        \* no session

Uuids == {Catalogue[n].uuid : n \in DOMAIN Catalogue}

ASSUME FeedAssumption ==
  /\ Catalogue \in Seq(ChargePoint)
  /\ Ids \subseteq Nat
  /\ Nothing \notin Pollers
  /\ MaxWire \in Nat

VARIABLES
  stock,      \* the list the provider would answer now (external)
  active,     \* does the user have a WebSocket connection?
  stopped,    \* has Run cancelled the context of the loop?
  loop,       \* where the goroutine of the loop is, and the list it holds
  live,       \* the list the events are applied to
  prev,       \* prevInventory; nil, also what an empty list leaves, is {}
  cache,      \* last status handled per connector (csmsFingerprintCache)
  subs,       \* the stations the open session is subscribed to
  wire,       \* events of the session not handled yet
  session,    \* the poll goroutine of the current session
  poll,       \* where each poll goroutine is, and the list it fetched
  cancelled   \* is the context of its session cancelled?

provider == <<stock, subs, wire>>
shared   == <<live, prev>>
polls    == <<session, poll, cancelled>>
feedVars == <<stock, active, stopped, loop, live, prev, cache, subs, wire,
              session, poll, cancelled>>

TypeOK ==
  /\ stock \in Seq(ChargePoint)
  /\ active \in BOOLEAN
  /\ stopped \in BOOLEAN
  /\ loop \in [list : Seq(Station),
               at : {"fetch", "apply", "dial", "dialing", "open", "publish", "over"}]
  /\ live \in Seq(Station)
  /\ prev \subseteq Uuids
  /\ DOMAIN cache \subseteq {LowerCase[w] : w \in Names} \X Nat
  /\ subs \subseteq Uuids
  /\ wire \in Seq(StatusEvent)
  /\ (session # Nothing) <=> (loop.at \in {"dialing", "open", "publish"})
  /\ (subs # {} \/ wire # <<>>) => session # Nothing
  /\ session \in Pollers \cup {Nothing}
  /\ poll \in [Pollers -> [list : Seq(Station),
                          at : {"free", "waiting", "apply", "publish"}]]
  /\ cancelled \in [Pollers -> BOOLEAN]

Idle == [at |-> "free", list |-> <<>>]

Init ==
  /\ stock = <<>>
  /\ active = FALSE
  /\ stopped = FALSE
  /\ loop = [at |-> "fetch", list |-> <<>>]
  /\ live = <<>>
  /\ prev = {}
  /\ cache = <<>>
  /\ subs = {}
  /\ wire = <<>>
  /\ session = Nothing
  /\ poll = [k \in Pollers |-> Idle]
  /\ cancelled = [k \in Pollers |-> TRUE]

-----------------------------------------------------------------------------
(* The provider and its CSMS (external): stations come and go, connectors  *)
(* report their status, once or again, and the station reports its own as  *)
(* connector 0, which is in no list.  The broker sends the event, under    *)
(* the UUID in any case, to a session subscribed to the station then.      *)

Listed == {stock[i].uuid : i \in DOMAIN stock}

(* The stations of the list before the place are those before it in the    *)
(* catalogue.                                                              *)
AddStation(n) ==
  /\ Catalogue[n].uuid \notin Listed
  /\ \E i \in 1..(Len(stock) + 1) :
       /\ \A j \in DOMAIN stock :
            j < i <=> stock[j].uuid \in {Catalogue[m].uuid : m \in 1..(n - 1)}
       /\ stock' = InsertAt(stock, i, Catalogue[n])
  /\ UNCHANGED <<active, stopped, loop, shared, cache, subs, wire, polls>>

RemoveStation(u) ==
  /\ \E i \in DOMAIN stock : stock[i].uuid = u /\ stock' = RemoveAt(stock, i)
  /\ UNCHANGED <<active, stopped, loop, shared, cache, subs, wire, polls>>

Reported(u, id, v) ==
  [i \in DOMAIN stock |->
     IF stock[i].uuid # u THEN stock[i]
     ELSE [stock[i] EXCEPT !.connectors =
             [j \in DOMAIN stock[i].connectors |->
                IF stock[i].connectors[j].id = id
                THEN [stock[i].connectors[j] EXCEPT !.last = v]
                ELSE stock[i].connectors[j]]]]

Send(u, id, v) ==
  IF u \in subs
  THEN /\ Len(wire) < MaxWire
       /\ \E w \in Names : /\ Same(w, u)
                           /\ wire' = Append(wire, [uuid |-> w, id |-> id, status |-> v])
  ELSE UNCHANGED wire

Report(u, id, v) ==
  /\ u \in Listed
  /\ stock' = Reported(u, id, v)
  /\ Send(u, id, v)
  /\ UNCHANGED <<active, stopped, loop, shared, cache, subs, polls>>

-----------------------------------------------------------------------------
(* The WebSocket side: the user's only connection is registered and leaves.*)

Connect ==
  /\ ~active
  /\ active' = TRUE
  /\ UNCHANGED <<provider, stopped, loop, shared, cache, polls>>

Disconnect ==
  /\ active
  /\ active' = FALSE
  /\ UNCHANGED <<provider, stopped, loop, shared, cache, polls>>

(* hasActiveWS: the hub counts a connection of the user.                   *)
HasActiveWS == active

-----------------------------------------------------------------------------
(* The loop of the user.                                                   *)

(* Faulty variant: the loop does not look at its context.                  *)
LoopFetchRegardless ==
  /\ loop.at = "fetch"
  /\ loop' = [at |-> "apply", list |-> Flatten(stock)]
  /\ UNCHANGED <<provider, active, stopped, shared, cache, polls>>

LoopFetch ==
  /\ loop.at = "fetch"
  /\ ~stopped
  /\ loop' = [at |-> "apply", list |-> Flatten(stock)]
  /\ UNCHANGED <<provider, active, stopped, shared, cache, polls>>

(* Faulty variant: the baseline is only set by the first fetch.            *)
LoopApplyOnce ==
  /\ loop.at = "apply"
  /\ prev' = IF prev = {} THEN Inventory(loop.list) ELSE prev
  /\ live' = loop.list
  /\ loop' = [loop EXCEPT !.at = IF Inventory(loop.list) = {} THEN "fetch" ELSE "dial"]
  /\ UNCHANGED <<provider, active, stopped, cache, polls>>

(* The critical section after the fetch; it publishes while it holds invMu.*)
LoopApply ==
  /\ loop.at = "apply"
  /\ prev' = Inventory(loop.list)
  /\ live' = loop.list
  /\ loop' = [loop EXCEPT !.at = IF Inventory(loop.list) = {} THEN "fetch" ELSE "dial"]
  /\ UNCHANGED <<provider, active, stopped, cache, polls>>

(* No access token is stored: back to the fetch, which renews it.          *)
TokenMissing ==
  /\ loop.at = "dial"
  /\ loop' = [at |-> "fetch", list |-> <<>>]
  /\ UNCHANGED <<provider, active, stopped, shared, cache, polls>>

(* The context of a session and its poll goroutine are created.            *)
StartSession(k) ==
  /\ loop.at = "dial"
  /\ poll[k].at = "free"
  /\ loop' = [loop EXCEPT !.at = "dialing"]
  /\ session' = k
  /\ poll' = [poll EXCEPT ![k].at = "waiting"]
  /\ cancelled' = [cancelled EXCEPT ![k] = stopped]
  /\ UNCHANGED <<provider, active, stopped, shared, cache>>

(* RunConsumer (StompSession, which implements the stream of events used   *)
(* here): connect, subscribe to one station of the list after the other,   *)
Subscribe(s) ==
  /\ loop.at = "dialing"
  /\ s \in Inventory(loop.list) \ subs
  /\ subs' = subs \cup {s}
  /\ UNCHANGED <<stock, active, stopped, loop, shared, cache, wire, polls>>

(* and then read.                                                          *)
Subscribed ==
  /\ loop.at = "dialing"
  /\ subs = Inventory(loop.list)
  /\ loop' = [at |-> "open", list |-> <<>>]
  /\ UNCHANGED <<provider, active, stopped, shared, cache, polls>>

Key(ev) == <<LowerCase[ev.uuid], ev.id>>

IsDuplicate(ev) == Key(ev) \in DOMAIN cache /\ cache[Key(ev)] = ev.status

Remember(ev) ==
  cache' = [key \in DOMAIN cache \cup {Key(ev)} |->
              IF key = Key(ev) THEN ev.status ELSE cache[key]]

(* The handler drops an event that repeats the last one of its connector,  *)
(* and one whose connector is not in the list.                             *)
DropEvent ==
  /\ loop.at = "open"
  /\ wire # <<>>
  /\ Head(wire).uuid = Blank \/ IsDuplicate(Head(wire)) \/ ~Matches(live, Head(wire))
  /\ wire' = Tail(wire)
  /\ UNCHANGED <<stock, active, stopped, loop, shared, cache, subs, polls>>

(* The handler applies an event under invMu and copies the list.           *)
ApplyEvent ==
  LET ev == Head(wire)
  IN  /\ loop.at = "open"
      /\ wire # <<>>
      /\ ~IsDuplicate(ev)
      /\ Matches(live, ev)
      /\ live' = Applied(live, ev)
      /\ Remember(ev)
      /\ loop' = [loop EXCEPT !.at = "publish"]
      /\ wire' = Tail(wire)
      /\ UNCHANGED <<stock, active, stopped, prev, subs, polls>>

PublishEvent ==
  /\ loop.at = "publish"
  /\ loop' = [loop EXCEPT !.at = "open"]
  /\ UNCHANGED <<provider, active, stopped, shared, cache, polls>>

(* Faulty variant: cancelConn is not called.                               *)
SessionLeft ==
  /\ loop.at \in {"dialing", "open"}
  /\ loop' = [at |-> IF stopped THEN "over" ELSE "fetch", list |-> <<>>]
  /\ session' = Nothing
  /\ subs' = {}
  /\ wire' = <<>>
  /\ UNCHANGED <<stock, active, stopped, shared, cache, poll, cancelled>>

(* Faulty variant: the connection to the broker is left open.              *)
SessionEndsSubscribed ==
  /\ loop.at \in {"dialing", "open"}
  /\ cancelled' = [cancelled EXCEPT ![session] = TRUE]
  /\ loop' = [at |-> IF stopped THEN "over" ELSE "fetch", list |-> <<>>]
  /\ session' = Nothing
  /\ UNCHANGED <<provider, active, stopped, shared, cache, poll>>

(* RunConsumer returns: it could not connect, the connection failed, its   *)
(* context was cancelled, or sessionRotate is over.  Events still on the   *)
(* wire are lost.                                                          *)
SessionEnds ==
  /\ loop.at \in {"dialing", "open"}
  /\ cancelled' = [cancelled EXCEPT ![session] = TRUE]
  /\ loop' = [at |-> IF stopped THEN "over" ELSE "fetch", list |-> <<>>]
  /\ session' = Nothing
  /\ subs' = {}
  /\ wire' = <<>>
  /\ UNCHANGED <<stock, active, stopped, shared, cache, poll>>

(* Run finds the user gone and cancels the context of the loop, from which *)
(* those of the sessions derive.                                           *)
StopLoop ==
  /\ ~stopped
  /\ stopped' = TRUE
  /\ cancelled' = [k \in Pollers |-> TRUE]
  /\ UNCHANGED <<provider, active, loop, shared, cache, session, poll>>

(* A fetch or a query with a cancelled context fails, and the loop ends.   *)
LoopOver ==
  /\ stopped
  /\ loop.at \in {"fetch", "dial"}
  /\ loop' = [at |-> "over", list |-> <<>>]
  /\ UNCHANGED <<provider, active, stopped, shared, cache, polls>>

-----------------------------------------------------------------------------
(* The poll of a session.                                                  *)

PollFetch(k) ==
  /\ poll[k].at = "waiting"
  /\ ~cancelled[k]
  /\ HasActiveWS
  /\ poll' = [poll EXCEPT ![k] = [at |-> "apply", list |-> Flatten(stock)]]
  /\ UNCHANGED <<provider, active, stopped, loop, shared, cache, session, cancelled>>

PollEnds(k) ==
  /\ poll[k].at = "waiting"
  /\ cancelled[k]
  /\ poll' = [poll EXCEPT ![k] = Idle]
  /\ UNCHANGED <<provider, active, stopped, loop, shared, cache, session, cancelled>>

PollUnchanged(k) ==
  /\ poll[k].at = "apply"
  /\ ~InventoryChanged(prev, Inventory(poll[k].list))
  /\ poll' = [poll EXCEPT ![k] = [at |-> "waiting", list |-> <<>>]]
  /\ UNCHANGED <<provider, active, stopped, loop, shared, cache, session, cancelled>>

(* Faulty variant: the list the events are applied to is not replaced.     *)
PollChangedBaseline(k) ==
  /\ poll[k].at = "apply"
  /\ InventoryChanged(prev, Inventory(poll[k].list))
  /\ prev' = Inventory(poll[k].list)
  /\ poll' = [poll EXCEPT ![k] = [at |-> "publish", list |-> <<>>]]
  /\ UNCHANGED <<provider, active, stopped, loop, live, cache, session, cancelled>>

(* The critical section of a poll that found stations added or removed.    *)
PollChanged(k) ==
  /\ poll[k].at = "apply"
  /\ InventoryChanged(prev, Inventory(poll[k].list))
  /\ prev' = Inventory(poll[k].list)
  /\ live' = poll[k].list
  /\ poll' = [poll EXCEPT ![k] = [at |-> "publish", list |-> <<>>]]
  /\ UNCHANGED <<provider, active, stopped, loop, cache, session, cancelled>>

(* The poll publishes, cancels its session and returns.                    *)
PollPublish(k) ==
  /\ poll[k].at = "publish"
  /\ cancelled' = [cancelled EXCEPT ![k] = TRUE]
  /\ poll' = [poll EXCEPT ![k] = Idle]
  /\ UNCHANGED <<provider, active, stopped, loop, shared, cache, session>>

-----------------------------------------------------------------------------
ProviderStep ==
  \/ \E n \in DOMAIN Catalogue : AddStation(n)
  \/ \E u \in Uuids : RemoveStation(u)
  \/ \E u \in Uuids, id \in Ids, v \in Statuses : Report(u, id, v)

LoopStep ==
  \/ LoopFetch \/ LoopApply \/ TokenMissing \/ Subscribed \/ DropEvent
  \/ ApplyEvent \/ PublishEvent \/ LoopOver
  \/ \E s \in Uuids : Subscribe(s)
  \/ \E k \in Pollers : StartSession(k)

PollStep(k) ==
  PollFetch(k) \/ PollEnds(k) \/ PollUnchanged(k) \/ PollChanged(k) \/ PollPublish(k)

FeedNext ==
  \/ ProviderStep \/ Connect \/ Disconnect
  \/ LoopStep \/ SessionEnds \/ StopLoop
  \/ \E k \in Pollers : PollStep(k)

FeedSpec == Init /\ [][FeedNext]_feedVars

(* Every goroutine that can run does, the provider answers sooner or later *)
(* (a call to it lasts 30 s at most), and sessionRotate ends a session:    *)
(* once it is over every read fails, so that RunConsumer returns the next  *)
(* time it is not in the handler, however many events there are (SF).      *)
FairFeedSpec ==
  /\ FeedSpec
  /\ WF_feedVars(LoopStep)
  /\ SF_feedVars(SessionEnds)
  /\ \A k \in Pollers : WF_feedVars(PollStep(k))

-----------------------------------------------------------------------------
(* Correctness.                                                            *)

(* The baseline of the next comparison is the inventory of the list the    *)
(* events are applied to, whichever of loop, poll and handler wrote last.  *)
BaselineMatchesLive == prev = Inventory(live)

(* At most one poll may still ask the provider: that of the current        *)
(* session.  Reconnections do not pile up polls (cancelConn, cancel).      *)
OnePoller ==
  \A k \in Pollers : (poll[k].at # "free" /\ ~cancelled[k]) => session = k

(* When the inventory of the provider settles, the baseline settles on it, *)
(* with or without WebSocket, whatever polls of ended sessions still do.   *)
Moves == stopped' \/ Inventory(Flatten(stock))' # Inventory(Flatten(stock))

InventoryFollowed ==
  []<><<Moves>>_feedVars \/ <>[](stopped \/ prev = Inventory(Flatten(stock)))

(* The loop and the polls of a user that is gone all end.                  *)
LoopStops == stopped ~> (loop.at = "over" /\ \A k \in Pollers : poll[k].at = "free")

(* csms_status_subscriber.go: publishes when a status changes.  An event   *)
(* that tells live something new is never dropped.  The cache of handled   *)
(* events outlives the list they were applied to, and breaks it.           *)
NewsIsNotDropped ==
  [][DropEvent /\ Matches(live, Head(wire))
       => Applied(live, Head(wire)) = live]_feedVars
=============================================================================
