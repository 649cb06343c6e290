---------------------------- MODULE StompSession ----------------------------
(***************************************************************************)
(* RunConsumer (internal/clients/csmsstomp/consumer.go): one session of    *)
(* STOMP over SockJS, with the goroutine that closes the connection when   *)
(* the context is cancelled (the watchdog) and the one that sends          *)
(* heartbeats.  It implements EventStream.                                 *)
(*                                                                         *)
(* A SockJS message is "o", "h", "c" or an array "a" of STOMP frames; a    *)
(* frame is the number of the event it carries, or 0 when it is no MESSAGE *)
(* with an event (CONNECTED, ERROR, a body that is not JSON).              *)
(***************************************************************************)
EXTENDS Naturals, FiniteSets, Sequences

CONSTANTS
  Stations,  \* cfg.ChargeBoxUUIDs, which the caller keeps from being empty
  MaxSent,   \* bound: events sent
  MaxInbox   \* bound: messages received and not read

ASSUME StompAssumption == Stations # {} /\ MaxSent \in Nat /\ MaxInbox \in Nat

VARIABLES
  cancelled,  \* is the context of the session cancelled?
  main,       \* where RunConsumer is
  conn,       \* the connection
  watchdog,   \* where the watchdog is
  heartbeat,  \* where runHeartbeat is
  done,       \* what the deferred calls of RunConsumer have closed
  writing,    \* the goroutines inside conn.WriteMessage
  subs,       \* the stations the broker has a subscription for
  inbox,      \* messages the broker has sent and main has not read
  frames,     \* frames of the message being processed
  sent,       \* history: how many events the broker has sent
  handled     \* history: the events handed to onMessage

goroutines == <<main, watchdog, heartbeat, done, writing>>
stream == <<subs, inbox, frames, sent, handled>>
vars == <<cancelled, conn, goroutines, stream>>

Message == [type : {"o", "h", "c"}] \cup [type : {"a"}, frames : Seq(0..MaxSent)]

TypeOK ==
  /\ cancelled \in BOOLEAN
  /\ main \in {"probe", "dial", "open", "connect", "subscribe", "read", "process", "returned"}
  /\ conn \in {"none", "open", "closed"}
  /\ watchdog \in {"none", "waiting", "closing", "gone"}
  /\ heartbeat \in {"none", "waiting", "writing", "gone"}
  /\ done \subseteq {"watchdog", "heartbeat"}
  /\ writing \subseteq {"main", "heartbeat"}
  /\ subs \subseteq Stations
  /\ inbox \in Seq(Message) /\ Len(inbox) <= MaxInbox
  /\ frames \in Seq(0..MaxSent)
  /\ sent \in 0..MaxSent
  /\ handled \in Seq(1..MaxSent)
  /\ conn = "none" => watchdog = "none" /\ heartbeat = "none"
  /\ main = "returned" => conn # "open"

Init ==
  /\ cancelled = FALSE
  /\ main = "probe"
  /\ conn = "none"
  /\ watchdog = "none"
  /\ heartbeat = "none"
  /\ done = {}
  /\ writing = {}
  /\ subs = {}
  /\ inbox = <<>>
  /\ frames = <<>>
  /\ sent = 0
  /\ handled = <<>>

-----------------------------------------------------------------------------
(* RunConsumer.                                                            *)

ReturnOpen ==  \* mutant: conn.Close is not deferred
  /\ main' = "returned"
  /\ done' = {"watchdog", "heartbeat"}
  /\ writing' = writing \ {"main"}
  /\ subs' = {}
  /\ inbox' = <<>>
  /\ frames' = <<>>
  /\ UNCHANGED <<cancelled, conn, watchdog, heartbeat, sent, handled>>

ReturnUnstopped ==  \* mutant: stopWatchdog is not closed
  /\ main' = "returned"
  /\ conn' = IF conn = "none" THEN conn ELSE "closed"
  /\ done' = {"heartbeat"}
  /\ writing' = writing \ {"main"}
  /\ subs' = {}
  /\ inbox' = <<>>
  /\ frames' = <<>>
  /\ UNCHANGED <<cancelled, watchdog, heartbeat, sent, handled>>

(* The deferred calls: the heartbeat is cancelled, the watchdog stopped,   *)
(* and the connection closed, with what it still held.                     *)
Return ==
  /\ main' = "returned"
  /\ conn' = IF conn = "none" THEN conn ELSE "closed"
  /\ done' = {"watchdog", "heartbeat"}
  /\ writing' = writing \ {"main"}
  /\ subs' = {}
  /\ inbox' = <<>>
  /\ frames' = <<>>
  /\ UNCHANGED <<cancelled, watchdog, heartbeat, sent, handled>>

(* GET /info: its answer only goes to the log, and it has no context.      *)
Probe ==
  /\ main = "probe"
  /\ main' = "dial"
  /\ UNCHANGED <<cancelled, conn, watchdog, heartbeat, done, writing, stream>>

Dial ==
  /\ main = "dial"
  /\ main' = "open"
  /\ conn' = "open"
  /\ watchdog' = "waiting"
  /\ UNCHANGED <<cancelled, heartbeat, done, writing, stream>>

DialFails == main = "dial" /\ Return

(* waitForOpen: other messages than "o" are skipped.                       *)
AwaitOpen ==
  /\ main = "open"
  /\ inbox # <<>>
  /\ inbox' = Tail(inbox)
  /\ main' = IF Head(inbox).type = "o" THEN "connect" ELSE "open"
  /\ UNCHANGED <<cancelled, conn, watchdog, heartbeat, done, writing, subs,
                 frames, sent, handled>>

(* A read lasts 2 s, the whole wait 10 s.                                  *)
OpenFails == main = "open" /\ Return

(* CONNECT and the SUBSCRIBEs are written one after the other.             *)
BeginWrite ==
  /\ main \in {"connect", "subscribe"}
  /\ writing' = writing \cup {"main"}
  /\ writing' # writing
  /\ UNCHANGED <<cancelled, conn, main, watchdog, heartbeat, done, stream>>

Connected ==
  /\ main = "connect" /\ "main" \in writing /\ conn = "open"
  /\ main' = "subscribe"
  /\ writing' = writing \ {"main"}
  /\ UNCHANGED <<cancelled, conn, watchdog, heartbeat, done, stream>>

SubscribeBeating(s) ==  \* mutant: the heartbeat starts before the SUBSCRIBEs
  /\ main = "subscribe" /\ "main" \in writing /\ conn = "open"
  /\ s \notin subs
  /\ subs' = subs \cup {s}
  /\ writing' = writing \ {"main"}
  /\ main' = IF subs' = Stations THEN "read" ELSE "subscribe"
  /\ heartbeat' = IF heartbeat = "none" THEN "waiting" ELSE heartbeat
  /\ UNCHANGED <<cancelled, conn, watchdog, done, inbox, frames, sent, handled>>

(* After the last one the heartbeat starts.                                *)
Subscribed(s) ==
  /\ main = "subscribe" /\ "main" \in writing /\ conn = "open"
  /\ s \notin subs
  /\ subs' = subs \cup {s}
  /\ writing' = writing \ {"main"}
  /\ main' = IF subs' = Stations THEN "read" ELSE "subscribe"
  /\ heartbeat' = IF subs' = Stations THEN "waiting" ELSE heartbeat
  /\ UNCHANGED <<cancelled, conn, watchdog, done, inbox, frames, sent, handled>>

(* What a message carries; a closed connection may still yield a message   *)
(* it has buffered.                                                        *)
FramesOf(msg) == IF msg.type = "a" THEN msg.frames ELSE <<>>

ReadMessage ==
  /\ main = "read"
  /\ inbox # <<>>
  /\ inbox' = Tail(inbox)
  /\ frames' = FramesOf(Head(inbox))
  /\ main' = "process"
  /\ UNCHANGED <<cancelled, conn, watchdog, heartbeat, done, writing, subs,
                 sent, handled>>

ProcessFirst ==  \* mutant: only the first frame of an array is processed
  /\ main = "process"
  /\ frames' = <<>>
  /\ main' = "read"
  /\ handled' = IF frames # <<>> /\ Head(frames) # 0
                THEN Append(handled, Head(frames)) ELSE handled
  /\ UNCHANGED <<cancelled, conn, watchdog, heartbeat, done, writing, subs,
                 inbox, sent>>

(* processSockJS: one frame after the other; what is no event is logged.   *)
ProcessFrame ==
  /\ main = "process"
  /\ IF frames = <<>>
     THEN main' = "read" /\ UNCHANGED <<frames, handled>>
     ELSE /\ frames' = Tail(frames)
          /\ handled' = IF Head(frames) = 0 THEN handled
                                            ELSE Append(handled, Head(frames))
          /\ UNCHANGED main
  /\ UNCHANGED <<cancelled, conn, watchdog, heartbeat, done, writing, subs,
                 inbox, sent>>

(* A read or write fails: the peer, or the connection was closed.          *)
ConnectionFails ==
  /\ main = "read" \/ "main" \in writing
  /\ Return

-----------------------------------------------------------------------------
(* The watchdog and the heartbeat.                                         *)

WatchdogWakes ==
  /\ watchdog = "waiting" /\ cancelled
  /\ watchdog' = "closing"
  /\ UNCHANGED <<cancelled, conn, main, heartbeat, done, writing, stream>>

WatchdogSaysClose ==  \* mutant: the close frame is sent, no conn.Close
  /\ watchdog = "closing"
  /\ watchdog' = "gone"
  /\ UNCHANGED <<cancelled, conn, main, heartbeat, done, writing, stream>>

(* WriteControl, for 1 s at most, and conn.Close.                          *)
WatchdogCloses ==
  /\ watchdog = "closing"
  /\ conn' = "closed"
  /\ watchdog' = "gone"
  /\ UNCHANGED <<cancelled, main, heartbeat, done, writing, stream>>

WatchdogStops ==
  /\ watchdog = "waiting" /\ "watchdog" \in done
  /\ watchdog' = "gone"
  /\ UNCHANGED <<cancelled, conn, main, heartbeat, done, writing, stream>>

HeartbeatTicks ==
  /\ heartbeat = "waiting"
  /\ heartbeat' = "writing"
  /\ writing' = writing \cup {"heartbeat"}
  /\ UNCHANGED <<cancelled, conn, main, watchdog, done, stream>>

HeartbeatWritten ==
  /\ heartbeat = "writing" /\ conn = "open"
  /\ heartbeat' = "waiting"
  /\ writing' = writing \ {"heartbeat"}
  /\ UNCHANGED <<cancelled, conn, main, watchdog, done, stream>>

(* Its context is cancelled (that of the session, or when main returns).   *)
HeartbeatStops ==
  /\ heartbeat = "waiting" /\ (cancelled \/ "heartbeat" \in done)
  /\ heartbeat' = "gone"
  /\ UNCHANGED <<cancelled, conn, main, watchdog, done, writing, stream>>

HeartbeatFails ==
  /\ heartbeat = "writing"
  /\ heartbeat' = "gone"
  /\ writing' = writing \ {"heartbeat"}
  /\ UNCHANGED <<cancelled, conn, main, watchdog, done, stream>>

-----------------------------------------------------------------------------
(* The caller and the broker (external).                                   *)

Cancel ==
  /\ ~cancelled
  /\ cancelled' = TRUE
  /\ UNCHANGED <<conn, goroutines, stream>>

(* The arrays of frames the broker may send next, with n events.           *)
Arrays(n) == CASE n = 0 -> {<<0>>}
               [] n = 1 -> {<<sent + 1>>, <<0, sent + 1>>}
               [] n = 2 -> {<<sent + 1, sent + 2>>}

Messages(n) == [type : {"a"}, frames : Arrays(n)]
                 \cup (IF n = 0 THEN [type : {"o", "h", "c"}] ELSE {})

BrokerSends(n) ==
  /\ conn = "open" /\ main # "returned"
  /\ n > 0 => subs # {}
  /\ sent + n <= MaxSent
  /\ Len(inbox) < MaxInbox
  /\ \E msg \in Messages(n) : inbox' = Append(inbox, msg)
  /\ sent' = sent + n
  /\ UNCHANGED <<cancelled, conn, goroutines, subs, frames, handled>>

Main ==
  \/ Probe \/ Dial \/ DialFails \/ AwaitOpen \/ OpenFails \/ BeginWrite
  \/ Connected \/ ReadMessage \/ ProcessFrame \/ ConnectionFails
  \/ \E s \in Stations : Subscribed(s)

Watchdog == WatchdogWakes \/ WatchdogCloses \/ WatchdogStops

Heartbeat == HeartbeatTicks \/ HeartbeatWritten \/ HeartbeatStops \/ HeartbeatFails

Next ==
  \/ Main
  \/ Watchdog
  \/ Heartbeat
  \/ Cancel
  \/ \E n \in 0..2 : BrokerSends(n)

Spec == Init /\ [][Next]_vars

(* Each goroutine goes on, except that a read or a write may last for ever *)
(* while the connection is open and the peer silent.                       *)
FairSpec ==
  /\ Spec
  /\ WF_vars(Main /\ (conn = "open" => main \in {"probe", "dial", "open", "process"}))
  /\ WF_vars(Watchdog)
  /\ WF_vars(HeartbeatStops)
  /\ WF_vars(HeartbeatFails /\ conn = "closed")

-----------------------------------------------------------------------------
(* Properties.                                                             *)

(* The connection allows one goroutine at a time in WriteMessage.          *)
OneWriter == Cardinality(writing) <= 1

(* A session whose context is cancelled ends, whatever step it is in and   *)
(* however silent the broker is: the reads have no deadline.               *)
ConsumerReturns == cancelled ~> main = "returned"

(* However a session ends, it leaves no goroutine behind.                  *)
GoroutinesEnd ==
  main = "returned" ~> watchdog \in {"none", "gone"} /\ heartbeat \in {"none", "gone"}

(* The events of the frames and messages not processed yet.                *)
Events(fs) == {fs[i] : i \in DOMAIN fs} \ {0}

InFlight ==
  Events(frames) \cup UNION {Events(FramesOf(inbox[i])) : i \in DOMAIN inbox}

Stream == INSTANCE EventStream WITH wire <- InFlight, over <- (main = "returned")

(* What the caller sees is the stream: every event once and in order.      *)
IsEventStream == Stream!Spec
=============================================================================
