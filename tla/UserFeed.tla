------------------------------ MODULE UserFeed ------------------------------
(***************************************************************************)
(* What a client sees of the feed of its user: the steps of StatusFeed,    *)
(* those of them that publish, and the snapshot a new connection is sent   *)
(* (WSStationPublisher.OnWebSocketConnected), which also stores the        *)
(* statuses it has published.  The hub hands the connection every          *)
(* publication in the order of the calls to PublishToUser (WSHub,          *)
(* InOrder); without a connection a publication is lost.                   *)
(***************************************************************************)
EXTENDS StatusFeed

CONSTANT Snapshots   \* onConnected goroutines: bounds how many exist at once

VARIABLES
  view,      \* the last list queued for the connection
  copied,    \* the copy of live that the event handler is about to publish
  polled,    \* the list a poll is about to publish
  snap,      \* where each onConnected goroutine is, and its list
  stored     \* ConnectorStatusStore: the user's statuses, empty before a Set

clientVars == <<view, copied, polled, snap, stored>>
vars == <<feedVars, clientVars>>

Client_TypeOK ==
  /\ TypeOK
  /\ view \in Seq(Station) \cup {Nothing}
  /\ copied \in Seq(Station)
  /\ polled \in [Pollers -> Seq(Station)]
  /\ snap \in [Snapshots -> [at : {"free", "fetch", "publish", "store"}, list : Seq(Station)]]
  /\ DOMAIN stored \subseteq Names \X Nat

ClientInit ==
  /\ Init
  /\ view = Nothing
  /\ copied = <<>>
  /\ polled = [k \in Pollers |-> <<>>]
  /\ snap = [i \in Snapshots |-> Idle]
  /\ stored = <<>>

(* publishStationsSnapshot, with every field of the list in the payload.   *)
Publish(list) == view' = IF active THEN list ELSE view

-----------------------------------------------------------------------------
(* The steps of the feed that publish, or copy what will be published.     *)

(* The loop publishes a changed inventory while it holds invMu.            *)
LoopPublishes ==
  /\ LoopApply
  /\ IF InventoryChanged(prev, Inventory(loop.list)) /\ HasActiveWS
     THEN Publish(loop.list) ELSE UNCHANGED view
  /\ UNCHANGED <<copied, polled, snap, stored>>

EventCopied ==
  /\ ApplyEvent
  /\ copied' = live'
  /\ UNCHANGED <<view, polled, snap, stored>>

EventPublished ==
  /\ PublishEvent
  /\ Publish(copied)
  /\ copied' = <<>>
  /\ UNCHANGED <<polled, snap, stored>>

PollCopied(k) ==
  /\ PollChanged(k)
  /\ polled' = [polled EXCEPT ![k] = poll[k].list]
  /\ UNCHANGED <<view, copied, snap, stored>>

PollPublished(k) ==
  /\ PollPublish(k)
  /\ Publish(polled[k])
  /\ polled' = [polled EXCEPT ![k] = <<>>]
  /\ UNCHANGED <<copied, snap, stored>>

-----------------------------------------------------------------------------
(* The connection and its snapshot.                                        *)

(* The connection is registered and onConnected starts.                    *)
ClientConnects(i) ==
  /\ Connect
  /\ snap[i] = Idle
  /\ view' = Nothing
  /\ snap' = [snap EXCEPT ![i].at = "fetch"]
  /\ UNCHANGED <<copied, polled, stored>>

ClientLeaves ==
  /\ Disconnect
  /\ view' = Nothing
  /\ UNCHANGED <<copied, polled, snap, stored>>

(* The provider answers ...                                                *)
SnapshotFetch(i) ==
  /\ snap[i].at = "fetch"
  /\ snap' = [snap EXCEPT ![i] = [at |-> "publish", list |-> Flatten(stock)]]
  /\ UNCHANGED <<feedVars, view, copied, polled, stored>>

(* ... or fails, or the 30 s of the goroutine are over ...                 *)
SnapshotFails(i) ==
  /\ snap[i].at = "fetch"
  /\ snap' = [snap EXCEPT ![i] = Idle]
  /\ UNCHANGED <<feedVars, view, copied, polled, stored>>

(* ... and the list is published, and its statuses are stored.             *)
SnapshotPublish(i) ==
  /\ snap[i].at = "publish"
  /\ Publish(snap[i].list)
  /\ snap' = [snap EXCEPT ![i].at = "store"]
  /\ UNCHANGED <<feedVars, copied, polled, stored>>

SnapshotStore(i) ==
  /\ snap[i].at = "store"
  /\ stored' = ConnectorStatusMap(snap[i].list)
  /\ snap' = [snap EXCEPT ![i] = Idle]
  /\ UNCHANGED <<feedVars, view, copied, polled>>

-----------------------------------------------------------------------------
Silent(step) == step /\ UNCHANGED clientVars

ClientLoopStep ==
  \/ LoopPublishes \/ EventCopied \/ EventPublished
  \/ Silent(LoopFetch \/ TokenMissing \/ Subscribed \/ DropEvent \/ LoopOver)
  \/ \E s \in Uuids : Silent(Subscribe(s))
  \/ \E k \in Pollers : Silent(StartSession(k))

ClientPollStep(k) ==
  \/ PollCopied(k) \/ PollPublished(k)
  \/ Silent(PollFetch(k) \/ PollEnds(k) \/ PollUnchanged(k))

SnapshotStep(i) ==
  SnapshotFetch(i) \/ SnapshotFails(i) \/ SnapshotPublish(i) \/ SnapshotStore(i)

Next ==
  \/ Silent(ProviderStep) \/ Silent(SessionEnds) \/ Silent(StopLoop)
  \/ ClientLoopStep \/ ClientLeaves
  \/ \E k \in Pollers : ClientPollStep(k)
  \/ \E i \in Snapshots : ClientConnects(i) \/ SnapshotStep(i)

(* As FairFeedSpec, and the snapshots end.                                 *)
FairSpec ==
  /\ ClientInit /\ [][Next]_vars
  /\ WF_vars(ClientLoopStep)
  /\ SF_vars(Silent(SessionEnds))
  /\ \A k \in Pollers : WF_vars(ClientPollStep(k))
  /\ \A i \in Snapshots : WF_vars(SnapshotStep(i))

-----------------------------------------------------------------------------
(* What the documentation says and the code does not do.                   *)

Shows(list, u, id, v) ==
  \E i \in DOMAIN list : /\ list[i].uuid = u
                         /\ \E j \in Slots(list[i], id) : list[i].connectors[j].status = v

(* README.md: a change of a connector is pushed.  The client cannot be     *)
(* left with an old status for ever while sessions open again and again:   *)
(* by a change between snapshot and subscription, a snapshot or a poll     *)
(* that overtakes a newer event, or an event lost with its session.        *)
StatusReachesClient ==
  []<>(loop.at = "open") =>
    \A u \in Uuids, id \in Ids, old, new \in Statuses :
      old # new => ~<>[](/\ active /\ ~stopped /\ view # Nothing
                         /\ Shows(view, u, id, old) /\ Shows(Flatten(stock), u, id, new))

(* README.md: a station added or removed is pushed.  The client cannot be  *)
(* left with an old inventory for ever, nor with an empty one.             *)
InventoryReachesClient ==
  \A I, J \in SUBSET Uuids :
    I # J => ~<>[](/\ active /\ ~stopped /\ view # Nothing
                   /\ Inventory(view) = I /\ Inventory(Flatten(stock)) = J)

(* connector_status.go: the store keeps the last statuses of the user.     *)
(* Only snapshots are stored, and only after they have been published.     *)
StoreKeepsLast ==
  (\A i \in Snapshots : snap[i] = Idle) /\ view # Nothing => stored = ConnectorStatusMap(view)
=============================================================================
