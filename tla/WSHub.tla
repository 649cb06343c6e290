------------------------------- MODULE WSHub -------------------------------
(***************************************************************************)
(* The WebSocket hub (internal/api/ws_hub.go) and the two goroutines that  *)
(* serve a connection (readPump and writePump, internal/api/ws_handler.go) *)
(*                                                                         *)
(* A connection is a *wsClient: it is registered once, under the userId of *)
(* its JWT, owns a bounded channel "send" that writePump drains, and is    *)
(* unregistered once, by readPump, which closes the channel.  Publishers   *)
(* copy the set of clients under the lock of the hub and send to the       *)
(* copied channels after having released it, so every send races with the  *)
(* unregistration of its target.                                           *)
(*                                                                         *)
(* One action is one critical section, channel operation or socket call    *)
(* (a close frame, with its wait of up to 2 s, and the Close after it are  *)
(* one); the steps of a call that spans several are interleaved with       *)
(* everything else: a frame is in its channel before it is counted as      *)
(* sent, in the hand of writePump before it is written, and lost before    *)
(* the error is counted.  Payloads are abstracted to who published them,   *)
(* in which order, for whom, and whether they are the empty list of DELETE *)
(* /v1/config.                                                             *)
(***************************************************************************)
EXTENDS Integers, Sequences, FiniteSets

CONSTANTS
  Users,       \* the userIds
  Conns,       \* the connections: each is one *wsClient, registered once
  UserOf,      \* the userID field of each connection, fixed by its JWT
  Callers,     \* goroutines that publish: STOMP callback, poll, handlers
  NoUser,      \* user of a goroutine that is in no call
  NoConn,      \* a publisher has found no channel full
  QueueSize,   \* capacity of the channel "send" (32 in the code)
  MaxPublish   \* bound: publications of each caller

ASSUME HubAssumption ==
  /\ IsFiniteSet(Conns)
  /\ UserOf \in [Conns -> Users]
  /\ NoUser \notin Users /\ NoConn \notin Conns
  /\ Callers \cap Conns = {}
  /\ QueueSize \in Nat \ {0}
  /\ MaxPublish \in Nat

VARIABLES
  clientsByUser,     \* the map of the hub: users with an entry -> clients
  totalConnections,  \* the counter of the hub
  stats,             \* messagesSent, droppedByBackpress, writeErrors
  queue,             \* the contents of each channel "send"
  hand,              \* the frame writePump took from it and has not written
  closed,            \* has the channel "send" been closed?
  sock,              \* the socket: "none", "open", "lost" (peer), "closed"
  reader,            \* readPump: "none", "starting", "reading", "closing",
                     \* "done"
  writer,            \* writePump: "none", "writing", "failed" (an error not
                     \* counted yet), "closing", "done"
  call,              \* the hub call each goroutine is in, if any
  at,                \* each publisher in its iteration: "loop", "sent" (the
                     \* frame is not counted yet), "full" (the channel; not
                     \* counted yet), "slow" (to be closed)
  tried,             \* the connection whose channel it found full
  published,         \* number of calls to PublishToUser of each caller
  received,          \* frames written to the socket, in order
  alive              \* FALSE once a panic has ended the process

connVars == <<sock, reader, writer, closed>>
visits   == <<at, tried>>
vars == <<clientsByUser, totalConnections, stats, queue, hand, closed, sock,
          reader, writer, call, visits, published, received, alive>>

(* CloseUserConnections also runs on the writePump of an idle connection.  *)
Threads == Callers \cup Conns

Publishing == {"publish", "finalPublish"}
Closing    == {"close", "finalClose"}

Message == [from : Callers, seq : 1..MaxPublish, to : Users, final : BOOLEAN]
Call    == [step : {"idle"} \cup Publishing \cup Closing,
            user : Users \cup {NoUser},
            targets : SUBSET Conns]

IdleCall == [step |-> "idle", user |-> NoUser, targets |-> {}]

(* h.clientsByUser[userID]: the empty map when the user has no entry.      *)
Clients(u) == IF u \in DOMAIN clientsByUser THEN clientsByUser[u] ELSE {}

Registered(c) == c \in Clients(UserOf[c])

TypeOK ==
  /\ DOMAIN clientsByUser \subseteq Users
  /\ clientsByUser \in [DOMAIN clientsByUser -> SUBSET Conns]
  /\ totalConnections \in Nat
  /\ stats \in [messagesSent : Nat, droppedByBackpress : Nat,
                writeErrors : Nat]
  /\ queue \in [Conns -> Seq(Message)]
  /\ hand \in [Conns -> Seq(Message)] /\ \A c \in Conns : Len(hand[c]) <= 1
  /\ closed \in [Conns -> BOOLEAN]
  /\ sock \in [Conns -> {"none", "open", "lost", "closed"}]
  /\ reader \in [Conns -> {"none", "starting", "reading", "closing", "done"}]
  /\ writer \in [Conns -> {"none", "writing", "failed", "closing", "done"}]
  /\ call \in [Threads -> Call]
  /\ at \in [Callers -> {"loop", "sent", "full", "slow"}]
  /\ tried \in [Callers -> Conns \cup {NoConn}]
  /\ published \in [Callers -> 0..MaxPublish]
  /\ received \in [Conns -> Seq(Message)]
  /\ alive \in BOOLEAN

Init ==
  /\ clientsByUser = [u \in {} |-> {}]
  /\ totalConnections = 0
  /\ stats = [messagesSent |-> 0, droppedByBackpress |-> 0, writeErrors |-> 0]
  /\ queue = [c \in Conns |-> <<>>]
  /\ hand = [c \in Conns |-> <<>>]
  /\ closed = [c \in Conns |-> FALSE]
  /\ sock = [c \in Conns |-> "none"]
  /\ reader = [c \in Conns |-> "none"]
  /\ writer = [c \in Conns |-> "none"]
  /\ call = [t \in Threads |-> IdleCall]
  /\ at = [p \in Callers |-> "loop"]
  /\ tried = [p \in Callers |-> NoConn]
  /\ published = [p \in Callers |-> 0]
  /\ received = [c \in Conns |-> <<>>]
  /\ alive = TRUE

-----------------------------------------------------------------------------
(* Registration.                                                           *)

AddClient(c) ==
  clientsByUser' = [u \in DOMAIN clientsByUser \cup {UserOf[c]} |->
                      IF u = UserOf[c] THEN Clients(u) \cup {c}
                                       ELSE clientsByUser[u]]

(* Faulty variant: the connection is not counted.                          *)
RegisterUncounted(c) ==
  /\ sock[c] = "none"
  /\ sock' = [sock EXCEPT ![c] = "open"]
  /\ AddClient(c)
  /\ reader' = [reader EXCEPT ![c] = "starting"]
  /\ UNCHANGED <<totalConnections, stats, queue, hand, closed, writer,
                 call, visits, published, received, alive>>

(* handleConnect after ValidateToken: upgrade and Register.  Publishers     *)
(* reach the connection from here on, before its pumps run.                *)
Register(c) ==
  /\ sock[c] = "none"
  /\ sock' = [sock EXCEPT ![c] = "open"]
  /\ AddClient(c)
  /\ totalConnections' = totalConnections + 1
  /\ reader' = [reader EXCEPT ![c] = "starting"]
  /\ UNCHANGED <<stats, queue, hand, closed, writer, call, visits, published,
                 received, alive>>

(* handleConnect after the first markAppActivity (a write to the database  *)
(* of up to 3 s): the two pumps start.                                     *)
StartPumps(c) ==
  /\ reader[c] = "starting"
  /\ reader' = [reader EXCEPT ![c] = "reading"]
  /\ writer' = [writer EXCEPT ![c] = "writing"]
  /\ UNCHANGED <<clientsByUser, totalConnections, stats, queue, hand, closed,
                 sock, call, visits, published, received, alive>>

(* Faulty variant: the entry of a user is left behind, empty.              *)
RemoveClientKeepingEntry(c) ==
  clientsByUser' = [clientsByUser EXCEPT ![UserOf[c]] = @ \ {c}]

RemoveClient(c) ==
  LET rest == Clients(UserOf[c]) \ {c}
      kept == IF rest = {} THEN DOMAIN clientsByUser \ {UserOf[c]}
                           ELSE DOMAIN clientsByUser
  IN  clientsByUser' = [u \in kept |-> IF u = UserOf[c] THEN rest
                                       ELSE clientsByUser[u]]

(* Faulty variant: the channel is closed but the client stays in the map.  *)
UnregisterClosingOnly(c) ==
  /\ closed' = [closed EXCEPT ![c] = TRUE]
  /\ UNCHANGED <<clientsByUser, totalConnections>>

Unregister(c) ==
  IF Registered(c)
    THEN /\ RemoveClient(c)
         /\ totalConnections' = totalConnections - 1
         /\ closed' = [closed EXCEPT ![c] = TRUE]
    ELSE UNCHANGED <<clientsByUser, totalConnections, closed>>

-----------------------------------------------------------------------------
(* The calls of the hub.                                                   *)

(* A call returns when it has gone through its targets, except that        *)
(* handleDeleteConfig goes on from the publication to the close.           *)
Settled(cl) ==
  IF cl.targets = {} /\ cl.step # "finalPublish" THEN IdleCall ELSE cl

(* The copy of h.clientsByUser[userID] that is made under the read lock.   *)
CopyClients(u) == Clients(u)

(* PublishToUser up to the release of the lock.  handleDeleteConfig calls  *)
(* it with the empty list (step "finalPublish").                           *)
PublishToUser(p, u, step) ==
  /\ call[p] = IdleCall
  /\ published[p] < MaxPublish
  /\ published' = [published EXCEPT ![p] = @ + 1]
  /\ call' = [call EXCEPT ![p] = Settled([step |-> step, user |-> u,
                                          targets |-> CopyClients(u)])]
  /\ UNCHANGED <<clientsByUser, totalConnections, stats, queue, hand, connVars,
                 visits, received, alive>>

MessageOf(p) == [from |-> p, seq |-> published[p], to |-> call[p].user,
                 final |-> call[p].step = "finalPublish"]

(* Faulty variant: the loop ends after its first target.                   *)
ReturnEarly(t, c) == [call[t] EXCEPT !.targets = {}]

(* What is left of a call when it has visited c.                           *)
Without(t, c) == [call[t] EXCEPT !.targets = @ \ {c}]

TargetDone(t, c) == call' = [call EXCEPT ![t] = Settled(Without(t, c))]

(* The loop of PublishToUser comes to c.  Go panics on a send to a closed  *)
(* channel, full or not.                                                   *)
Visits(p, c) ==
  /\ call[p].step \in Publishing
  /\ c \in call[p].targets
  /\ at[p] = "loop"

ChannelFull(c) == Len(queue[c]) >= QueueSize

(* Faulty variant: the frame overtakes those already queued.               *)
EnqueueFirst(p, c) == queue' = [queue EXCEPT ![c] = <<MessageOf(p)>> \o @]

Enqueue(p, c) == queue' = [queue EXCEPT ![c] = Append(@, MessageOf(p))]

(* select, first case: the channel has room.                               *)
SendFrame(p, c) ==
  /\ Visits(p, c)
  /\ ~closed[c]
  /\ ~ChannelFull(c)
  /\ Enqueue(p, c)
  /\ call' = [call EXCEPT ![p] = Without(p, c)]
  /\ at' = [at EXCEPT ![p] = "sent"]
  /\ UNCHANGED <<clientsByUser, totalConnections, stats, hand, connVars, tried,
                 published, received, alive>>

(* The frame that was sent is counted, under the lock of the hub.          *)
CountSent(p) ==
  /\ at[p] = "sent"
  /\ at' = [at EXCEPT ![p] = "loop"]
  /\ stats' = [stats EXCEPT !.messagesSent = @ + 1]
  /\ call' = [call EXCEPT ![p] = Settled(@)]
  /\ UNCHANGED <<clientsByUser, totalConnections, queue, hand, connVars, tried,
                 published, received, alive>>

(* Faulty variant: a full channel blocks the publisher.                    *)
WaitForRoom(p, c) == FALSE /\ UNCHANGED vars

(* select, default: the channel is full.                                   *)
FindFull(p, c) ==
  /\ Visits(p, c)
  /\ ~closed[c]
  /\ ChannelFull(c)
  /\ at' = [at EXCEPT ![p] = "full"]
  /\ tried' = [tried EXCEPT ![p] = c]
  /\ UNCHANGED <<clientsByUser, totalConnections, stats, queue, hand, connVars,
                 call, published, received, alive>>

(* Faulty variant: the publisher tries the channel again.                  *)
RetryFull(p) ==
  /\ at[p] = "full"
  /\ at' = [at EXCEPT ![p] = "loop"]
  /\ stats' = [stats EXCEPT !.droppedByBackpress = @ + 1]
  /\ UNCHANGED <<clientsByUser, totalConnections, queue, hand, connVars, call,
                 tried, published, received, alive>>

(* The drop is counted, under the lock of the hub.                         *)
CountDropped(p) ==
  /\ at[p] = "full"
  /\ at' = [at EXCEPT ![p] = "slow"]
  /\ stats' = [stats EXCEPT !.droppedByBackpress = @ + 1]
  /\ UNCHANGED <<clientsByUser, totalConnections, queue, hand, connVars, call,
                 tried, published, received, alive>>

(* Faulty variant: the frame is dropped, the connection stays.             *)
DropFrame(p, c) ==
  /\ at[p] = "slow" /\ tried[p] = c
  /\ at' = [at EXCEPT ![p] = "loop"]
  /\ tried' = [tried EXCEPT ![p] = NoConn]
  /\ TargetDone(p, c)
  /\ UNCHANGED <<clientsByUser, totalConnections, stats, queue, hand, connVars,
                 published, received, alive>>

(* The slow connection is dropped: a close frame, which may wait for the   *)
(* writer, and Close.  Its channel may have been drained meanwhile.        *)
DropSlow(p, c) ==
  /\ at[p] = "slow" /\ tried[p] = c
  /\ at' = [at EXCEPT ![p] = "loop"]
  /\ tried' = [tried EXCEPT ![p] = NoConn]
  /\ sock' = [sock EXCEPT ![c] = "closed"]
  /\ TargetDone(p, c)
  /\ UNCHANGED <<clientsByUser, totalConnections, stats, queue, hand, closed,
                 reader, writer, published, received, alive>>

(* The send panics: it ends the process when it runs on a goroutine of the *)
(* subscriber or of onConnected; gin's Recovery, in the chain of every     *)
(* handler, only ends the call of handleDeleteConfig.                      *)
SendOnClosed(p, c) ==
  /\ Visits(p, c)
  /\ closed[c]
  /\ alive' = (call[p].step = "finalPublish")
  /\ call' = [call EXCEPT ![p] = IdleCall]
  /\ UNCHANGED <<clientsByUser, totalConnections, stats, queue, hand, connVars,
                 visits, published, received>>

(* handleDeleteConfig: CloseUserConnections after the empty list.          *)
CloseAfterFinal(p) ==
  /\ call[p].step = "finalPublish"
  /\ call[p].targets = {}
  /\ at[p] = "loop"
  /\ call' = [call EXCEPT ![p] = Settled([step |-> "finalClose",
                                          user |-> call[p].user,
                                          targets |-> CopyClients(call[p].user)])]
  /\ UNCHANGED <<clientsByUser, totalConnections, stats, queue, hand, connVars,
                 visits, published, received, alive>>

(* CloseUserConnections, one iteration: a close frame and Close.           *)
CloseTarget(t, c) ==
  /\ call[t].step \in Closing
  /\ c \in call[t].targets
  /\ sock' = [sock EXCEPT ![c] = "closed"]
  /\ TargetDone(t, c)
  /\ UNCHANGED <<clientsByUser, totalConnections, stats, queue, hand, closed,
                 reader, writer, visits, published, received, alive>>

-----------------------------------------------------------------------------
(* The pumps and their socket.                                             *)

(* The peer closes, or disappears and the 70 s read deadline passes.       *)
PeerLost(c) ==
  /\ sock[c] = "open"
  /\ sock' = [sock EXCEPT ![c] = "lost"]
  /\ UNCHANGED <<clientsByUser, totalConnections, stats, queue, hand, closed,
                 reader, writer, call, visits, published, received, alive>>

(* readPump: ReadMessage fails, the deferred function unregisters.         *)
ReadFails(c) ==
  /\ reader[c] = "reading"
  /\ sock[c] \in {"lost", "closed"}
  /\ reader' = [reader EXCEPT ![c] = "closing"]
  /\ Unregister(c)
  /\ UNCHANGED <<stats, queue, hand, sock, writer, call, visits, published,
                 received, alive>>

CloseSocket(c) == sock' = [sock EXCEPT ![c] = "closed"]

(* readPump: the deferred function closes the socket after Unregister.     *)
ReaderExits(c) ==
  /\ reader[c] = "closing"
  /\ reader' = [reader EXCEPT ![c] = "done"]
  /\ CloseSocket(c)
  /\ UNCHANGED <<clientsByUser, totalConnections, stats, queue, hand, closed,
                 writer, call, visits, published, received, alive>>

(* writePump is at its select: it has nothing in hand, and it is not in    *)
(* the CloseUserConnections of an idle connection.                         *)
AtSelect(c) == writer[c] = "writing" /\ hand[c] = <<>> /\ call[c] = IdleCall

(* writePump: a frame is taken from the channel, which has room again.     *)
TakeFrame(c) ==
  /\ AtSelect(c)
  /\ queue[c] # <<>>
  /\ hand' = [hand EXCEPT ![c] = <<Head(queue[c])>>]
  /\ queue' = [queue EXCEPT ![c] = Tail(@)]
  /\ UNCHANGED <<clientsByUser, totalConnections, stats, connVars, call, visits,
                 published, received, alive>>

(* writePump: the frame goes out.  A lost peer is noticed late: the write  *)
(* may still succeed.                                                      *)
WriteFrame(c) ==
  /\ writer[c] = "writing"
  /\ hand[c] # <<>>
  /\ sock[c] \in {"open", "lost"}
  /\ received' = [received EXCEPT ![c] = @ \o hand[c]]
  /\ hand' = [hand EXCEPT ![c] = <<>>]
  /\ UNCHANGED <<clientsByUser, totalConnections, stats, queue, connVars, call,
                 visits, published, alive>>

(* writePump: the write of the frame fails, or that of a ping when it has  *)
(* none.                                                                   *)
WriteFails(c) ==
  /\ writer[c] = "writing"
  /\ call[c] = IdleCall
  /\ sock[c] \in {"lost", "closed"}
  /\ hand' = [hand EXCEPT ![c] = <<>>]
  /\ writer' = [writer EXCEPT ![c] = "failed"]
  /\ UNCHANGED <<clientsByUser, totalConnections, stats, queue, closed, sock,
                 reader, call, visits, published, received, alive>>

(* Faulty variant: the error is not counted.                               *)
IgnoreWriteError(c) ==
  /\ writer[c] = "failed"
  /\ writer' = [writer EXCEPT ![c] = "closing"]
  /\ UNCHANGED <<clientsByUser, totalConnections, stats, queue, hand, closed,
                 sock, reader, call, visits, published, received, alive>>

(* The error is counted, under the lock of the hub.                        *)
IncrementWriteError(c) ==
  /\ writer[c] = "failed"
  /\ stats' = [stats EXCEPT !.writeErrors = @ + 1]
  /\ writer' = [writer EXCEPT ![c] = "closing"]
  /\ UNCHANGED <<clientsByUser, totalConnections, queue, hand, closed, sock,
                 reader, call, visits, published, received, alive>>

(* writePump: a closed channel that has been drained ends the loop.        *)
QueueClosed(c) ==
  /\ AtSelect(c)
  /\ closed[c]
  /\ queue[c] = <<>>
  /\ writer' = [writer EXCEPT ![c] = "closing"]
  /\ UNCHANGED <<clientsByUser, totalConnections, stats, queue, hand, closed,
                 sock, reader, call, visits, published, received, alive>>

(* writePump: no application traffic for idleTimeout.  invalidateOnIdle    *)
(* finds the session fresh, or clears it and closes every connection of    *)
(* the user on this goroutine (WSSession models that decision).            *)
IdleTimeout(c) ==
  /\ AtSelect(c)
  /\ writer' = [writer EXCEPT ![c] = "closing"]
  /\ \/ UNCHANGED call
     \/ call' = [call EXCEPT ![c] = Settled([step |-> "close",
                                             user |-> UserOf[c],
                                             targets |-> CopyClients(UserOf[c])])]
  /\ UNCHANGED <<clientsByUser, totalConnections, stats, queue, hand, closed,
                 sock, reader, visits, published, received, alive>>

(* writePump: the deferred function closes the socket.                     *)
WriterExits(c) ==
  /\ writer[c] = "closing"
  /\ call[c] = IdleCall
  /\ writer' = [writer EXCEPT ![c] = "done"]
  /\ CloseSocket(c)
  /\ UNCHANGED <<clientsByUser, totalConnections, stats, queue, hand, closed,
                 reader, call, visits, published, received, alive>>

-----------------------------------------------------------------------------
PublishStep(p) ==
  \/ \E c \in Conns : \/ SendFrame(p, c) \/ SendOnClosed(p, c)
                      \/ FindFull(p, c) \/ DropSlow(p, c)
  \/ CountSent(p) \/ CountDropped(p)
  \/ CloseAfterFinal(p)

CallStep(t) == \E c \in Conns : CloseTarget(t, c)

WriterStep(c) ==
  \/ TakeFrame(c) \/ WriteFrame(c) \/ WriteFails(c) \/ IncrementWriteError(c)
  \/ QueueClosed(c) \/ WriterExits(c)

ReaderStep(c) == StartPumps(c) \/ ReadFails(c) \/ ReaderExits(c)

Next ==
  /\ alive
  /\ \/ \E c \in Conns : \/ Register(c) \/ PeerLost(c) \/ IdleTimeout(c)
                         \/ ReaderStep(c) \/ WriterStep(c)
     \/ \E p \in Callers, u \in Users, step \in Publishing :
          PublishToUser(p, u, step)
     \/ \E p \in Callers : PublishStep(p)
     \/ \E t \in Threads : CallStep(t)

Spec == Init /\ [][Next]_vars

(* A publisher whose goroutine is scheduled, whatever the pumps do.        *)
PublisherFairness ==
  \A p \in Callers : WF_vars(alive /\ (PublishStep(p) \/ CallStep(p)))

(* The Go scheduler runs every goroutine that can run.                     *)
PumpFairness ==
  \A c \in Conns : /\ WF_vars(alive /\ ReaderStep(c))
                   /\ WF_vars(alive /\ (WriterStep(c) \/ CallStep(c)))

FairSpec == Spec /\ PublisherFairness /\ PumpFairness

-----------------------------------------------------------------------------
(* Correctness.                                                            *)

(* The map, the counter, the channels and the sockets agree: an entry is   *)
(* never empty and holds connections of its own user, the counter counts   *)
(* the registered connections, and a connection is in the map exactly      *)
(* while its channel is open, however registrations, drops and             *)
(* unregistrations interleave (Register, Unregister).                      *)
HubConsistent ==
  /\ \A u \in DOMAIN clientsByUser :
       /\ clientsByUser[u] # {}
       /\ \A c \in clientsByUser[u] : UserOf[c] = u
  /\ totalConnections = Cardinality({c \in Conns : Registered(c)})
  /\ \A c \in Conns : Registered(c) <=> (sock[c] # "none" /\ ~closed[c])
  /\ \A c \in Conns : closed[c] => reader[c] \in {"closing", "done"}
  /\ \A c \in Conns : sock[c] = "none" => reader[c] = "none" /\ writer[c] = "none"

(* What a call still has to visit are connections of the user it is for,   *)
(* each of them registered at some time: a copied client may have left the *)
(* hub, but it was never anyone else's (PublishToUser, CloseUserConnections).*)
(* A publisher in the middle of an iteration has not left its loop.        *)
CallsConsistent ==
  /\ \A t \in Threads :
       /\ call[t].step \notin {"idle", "close"} => t \in Callers /\ published[t] > 0
       /\ call[t].step # "idle" => call[t].user \in Users
       /\ \A c \in call[t].targets : UserOf[c] = call[t].user /\ sock[c] # "none"
  /\ \A p \in Callers :
       /\ at[p] # "loop" => call[p].step \in Publishing
       /\ at[p] \in {"full", "slow"} => tried[p] \in call[p].targets

(* Everything that was ever accepted for a connection, oldest first.       *)
Frames(c) == received[c] \o hand[c] \o queue[c]

(* A connection only ever gets what was published for its own user, also   *)
(* when the publication races with connections of other users              *)
(* (IsMailboxes, below, says so of each step; WSHubProofs proves both).     *)
Isolation ==
  \A c \in Conns : \A i \in DOMAIN Frames(c) : Frames(c)[i].to = UserOf[c]

(* A connection gets the publications of one goroutine in the order they   *)
(* were made, and none of them twice.                                      *)
InOrder ==
  \A c \in Conns : \A i, j \in DOMAIN Frames(c) :
    (i < j /\ Frames(c)[i].from = Frames(c)[j].from)
      => Frames(c)[i].seq < Frames(c)[j].seq

(* messagesSent and writeErrors say what became of the frames, whenever    *)
(* Stats reads them: a frame that was sent waits in its channel, is in     *)
(* writePump's hand, has been written, or is one of those a failed write   *)
(* lost.  The counters lag by what the publishers have sent, and the       *)
(* writers lost, without having counted it yet, and by nothing else.       *)
KeptFrames == UNION {{<<c, i>> : i \in 1..Len(Frames(c))} : c \in Conns}
Sending    == {p \in Callers : at[p] = "sent"}
Failing    == {c \in Conns : writer[c] = "failed"}

SentAccounted ==
  LET accepted == stats.messagesSent + Cardinality(Sending)
      failed   == stats.writeErrors + Cardinality(Failing)
  IN  Cardinality(KeptFrames) \in (accepted - failed)..accepted

(* The publication in progress is newer than everything its target holds.  *)
TargetsAreFresh ==
  \A c \in Conns : \A i \in DOMAIN Frames(c) :
    LET p == Frames(c)[i].from
    IN  /\ Frames(c)[i].seq <= published[p]
        /\ (call[p].step \in Publishing /\ c \in call[p].targets)
             => Frames(c)[i].seq < published[p]

(* A connection that lost its socket (peer gone, dropped as slow, closed   *)
(* by DELETE or by idle) leaves the hub and both its pumps end: no         *)
(* goroutine and no map entry leaks, whichever side noticed first.         *)
Gone(c) == ~Registered(c) /\ sock[c] = "closed"
           /\ reader[c] = "done" /\ writer[c] = "done"

DeadConnectionsLeave ==
  \A c \in Conns : (sock[c] \in {"lost", "closed"}) ~> (Gone(c) \/ ~alive)

(* A publisher that is in a call of the hub can always take its next step, *)
(* whatever the pumps and the peers do: a slow connection cannot hold up   *)
(* its publishers.  Each step leaves a target behind, so the call returns. *)
PublishersNeverWait ==
  \A p \in Callers :
    alive /\ call[p] # IdleCall => ENABLED (PublishStep(p) \/ CallStep(p))

(* How many steps of its own a call takes at most until it returns: three  *)
(* for each target (found full, counted, closed), the count of the last    *)
(* send, and after the empty list of DELETE the copy of the targets to     *)
(* close and what they take.                                               *)
StepsLeft(t) ==
  3 * Cardinality(call[t].targets)
    + (IF call[t].step = "finalPublish" THEN 3 * Cardinality(Conns) + 1 ELSE 0)
    + (IF t \notin Callers THEN 0
       ELSE CASE at[t] = "loop" -> 0  [] at[t] = "sent" -> 1
              [] at[t] = "full" -> -1 [] at[t] = "slow" -> -2)

(* Where a goroutine is in its call.                                       *)
Place(t) == <<call[t], IF t \in Callers THEN at[t] ELSE "loop">>

(* A call in progress has something left to do, and each of its steps      *)
(* brings its return closer: connections that register, fail or publish    *)
(* meanwhile give it no more work, and nobody else moves it.               *)
CallsGoOn == \A t \in Threads : call[t] # IdleCall => StepsLeft(t) > 0

CallsReturn ==
  [][\A t \in Threads : call[t] # IdleCall /\ Place(t)' # Place(t)
       => StepsLeft(t)' < StepsLeft(t)]_vars

Got(c, p, n) ==
  \E i \in DOMAIN received[c] : received[c][i].from = p /\ received[c][i].seq = n

(* What is published while a connection is registered is written to its    *)
(* socket, unless the connection is lost or dropped: nothing is skipped    *)
(* silently (the empty list of DELETE is the exception, see FinalListSeen).*)
Delivered ==
  \A c \in Conns, p \in Callers, n \in 1..MaxPublish :
    (call[p].step = "publish" /\ c \in call[p].targets /\ published[p] = n)
      ~> (Got(c, p, n) \/ sock[c] # "open" \/ writer[c] \notin {"none", "writing"}
          \/ ~alive)

-----------------------------------------------------------------------------
(* The hub implements a mailbox per connection.                            *)

(* A connection is served while its socket and writePump are; it leaves    *)
(* when its channel is closed, which writePump may still drain.            *)
Served(c) == sock[c] \in {"open", "lost"} /\ writer[c] \in {"none", "writing"}

Box(c) ==
  IF sock[c] = "none" THEN "none"
  ELSE IF ~Served(c) THEN "over"
  ELSE IF closed[c] THEN "leaving" ELSE "open"

(* The publications under way that still have the connection to visit.     *)
Owed(c) ==
  IF Box(c) # "open" THEN {}
  ELSE {MessageOf(p) : p \in {q \in Callers : /\ call[q].step \in Publishing
                                             /\ c \in call[q].targets}}

Mail == INSTANCE Mailboxes WITH
  box  <- [c \in Conns |-> Box(c)],
  owed <- [c \in Conns |-> Owed(c)],
  mail <- [c \in Conns |-> IF Box(c) = "over" THEN <<>>
                         ELSE hand[c] \o queue[c]],
  got  <- received,
  made <- published

(* PublishToUser sends to a copy of the clients that others unregister,    *)
(* close and drop meanwhile.  All the same a connection that is served     *)
(* gets every publication for its user that is made while it is            *)
(* registered, and none for another user: each of a publisher is accepted  *)
(* before its next one, is delivered in the order of acceptance, and is    *)
(* lost only with the connection, or with a publisher stopped by a panic   *)
(* once some connection has left.                                          *)
IsMailboxes == Mail!MailSpec

-----------------------------------------------------------------------------
(* What the documentation says and the code does not do.                   *)

(* README.md: a slow client is disconnected; nothing else happens to the   *)
(* service.  PublishToUser sends to a channel Unregister has closed.       *)
NoCrash == alive

(* README.md: DELETE sends an empty list before it closes the sockets.     *)
(* CloseUserConnections does not wait for writePump to write it.           *)
FinalListSeen ==
  [][\A c \in Conns :
       (/\ sock[c] = "open" /\ sock'[c] = "closed"
        /\ \E p \in Callers : call[p].step = "finalClose"
                              /\ c \in call[p].targets \ call'[p].targets)
       => \E i \in DOMAIN received[c] : received[c][i].final]_vars

(* config_handler.go: the client sees the inventory empty when its user is *)
(* deleted.  A publication under way may follow the empty list.            *)
FinalIsLast ==
  \A c \in Conns : \A i, j \in DOMAIN received[c] :
    i < j /\ received[c][i].final => received[c][j].final

(* README.md: DELETE closes the open connections of the user.  A panic of  *)
(* the publication skips CloseUserConnections.                             *)
DeleteCloses ==
  \A c \in Conns, p \in Callers :
    (call[p].step = "finalPublish" /\ call[p].user = UserOf[c] /\ Registered(c))
      ~> (sock[c] # "open" \/ ~alive)
=============================================================================
