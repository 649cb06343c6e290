---------------------------- MODULE StompProofs ----------------------------
(***************************************************************************)
(* Theorems of StompSession, for any stations, number of events and depth  *)
(* of the buffer.                                                          *)
(***************************************************************************)
EXTENDS StompSession, FiniteSetTheorems, TLAPS

(* Only main writes before the heartbeat starts, and it starts after the   *)
(* last SUBSCRIBE, which is the last write of main.                        *)
Writers ==
  /\ "main" \in writing => main \in {"connect", "subscribe"}
  /\ "heartbeat" \in writing => heartbeat = "writing"
  /\ heartbeat # "none" => main \in {"read", "process", "returned"}

(* No event is sent before a subscription, frames are held only while they *)
(* are processed, and a session that is over holds nothing.                *)
Quiet ==
  /\ main \in {"probe", "dial", "open", "connect"} => subs = {} /\ sent = 0
  /\ main # "process" => frames = <<>>
  /\ main = "returned" => inbox = <<>> /\ subs = {}

(* The events handled are the first ones, and those in flight are all      *)
(* others sent.                                                            *)
Sequenced ==
  /\ \A i \in DOMAIN handled : handled[i] = i
  /\ Len(handled) <= sent
  /\ main # "returned" => InFlight = (Len(handled) + 1)..sent

(* The events in flight are in their order, within a message and from one  *)
(* to the next.                                                            *)
Before(S, T) == \A e \in S, f \in T : e < f

Ascending(fs) ==
  \A i, j \in DOMAIN fs : i < j /\ fs[i] # 0 /\ fs[j] # 0 => fs[i] < fs[j]

InOrder ==
  /\ Ascending(frames)
  /\ \A i \in DOMAIN inbox :
       /\ Ascending(FramesOf(inbox[i]))
       /\ Before(Events(frames), Events(FramesOf(inbox[i])))
  /\ \A i, j \in DOMAIN inbox :
       i < j => Before(Events(FramesOf(inbox[i])), Events(FramesOf(inbox[j])))

Inv == TypeOK /\ Writers /\ Quiet /\ Sequenced /\ InOrder

-----------------------------------------------------------------------------
(* Frames, messages and the events they carry.                             *)

LEMMA FramesType ==
  ASSUME NEW msg \in Message
  PROVE  FramesOf(msg) \in Seq(0..MaxSent)
  <1>1. CASE msg \in [type : {"o", "h", "c"}]
    <2>1. FramesOf(msg) = <<>>
      BY <1>1 DEF FramesOf
    <2> QED
      BY <2>1
  <1>2. CASE msg \in [type : {"a"}, frames : Seq(0..MaxSent)]
    BY <1>2 DEF FramesOf
  <1> QED
    BY <1>1, <1>2 DEF Message

(* What the broker sends next is a message, with the frames of n events.   *)
LEMMA SentMessage ==
  ASSUME TypeOK, NEW n \in 0..2, sent + n <= MaxSent, NEW msg \in Messages(n)
  PROVE  /\ msg \in Message
         /\ Events(FramesOf(msg)) = (sent + 1)..(sent + n)
         /\ Ascending(FramesOf(msg))
  <1> DEFINE fs == FramesOf(msg)
  <1>1. sent \in Nat /\ MaxSent \in Nat
    BY StompAssumption DEF TypeOK
  <1>2. CASE n = 0 /\ msg \in [type : {"o", "h", "c"}]
    <2>1. msg \in Message /\ fs = <<>>
      BY <1>2 DEF Message, FramesOf
    <2>2. (sent + 1)..(sent + n) = {}
      BY <1>1, <1>2
    <2> QED
      BY <2>1, <2>2 DEF Events, Ascending
  <1>3. CASE msg \in [type : {"a"}, frames : Arrays(n)]
    <2>1. fs \in Arrays(n) /\ msg \in [type : {"a"}, frames : {fs}]
      BY <1>3 DEF FramesOf
    <2>2. fs \in Seq(0..MaxSent)
      <3>1. \/ n = 0 /\ fs = <<0>>
            \/ n = 1 /\ (fs = <<sent + 1>> \/ fs = <<0, sent + 1>>)
            \/ n = 2 /\ fs = <<sent + 1, sent + 2>>
        BY <2>1 DEF Arrays
      <3>2. 0 \in 0..MaxSent /\ (n >= 1 => sent + 1 \in 0..MaxSent)
                             /\ (n = 2 => sent + 2 \in 0..MaxSent)
        BY <1>1
      <3>3. <<0>> \in Seq(0..MaxSent)
        BY <3>2
      <3>4. n = 1 => <<sent + 1>> \in Seq(0..MaxSent)
        BY <3>2
      <3>5. n = 1 => <<0, sent + 1>> \in Seq(0..MaxSent)
        BY <3>2
      <3>6. n = 2 => <<sent + 1, sent + 2>> \in Seq(0..MaxSent)
        BY <3>2
      <3> HIDE DEF fs
      <3> QED
        BY <3>1, <3>3, <3>4, <3>5, <3>6
    <2>3. msg \in Message
      BY <2>1, <2>2 DEF Message
    <2>4. CASE n = 0
      <3>1. fs = <<0>>
        BY <2>1, <2>4 DEF Arrays
      <3>2. (sent + 1)..(sent + n) = {}
        BY <1>1, <2>4
      <3> QED
        BY <2>3, <3>1, <3>2 DEF Events, Ascending
    <2>5. CASE n = 1
      <3>1. fs = <<sent + 1>> \/ fs = <<0, sent + 1>>
        BY <2>1, <2>5 DEF Arrays
      <3>2. (sent + 1)..(sent + n) = {sent + 1}
        BY <1>1, <2>5
      <3>3. Events(fs) = {sent + 1} /\ Ascending(fs)
        BY <1>1, <3>1 DEF Events, Ascending
      <3> QED
        BY <2>3, <3>2, <3>3
    <2>6. CASE n = 2
      <3>1. fs = <<sent + 1, sent + 2>>
        BY <2>1, <2>6 DEF Arrays
      <3>2. (sent + 1)..(sent + n) = {sent + 1, sent + 2}
        BY <1>1, <2>6
      <3>3. Events(fs) = {sent + 1, sent + 2} /\ Ascending(fs)
        BY <1>1, <3>1 DEF Events, Ascending
      <3> QED
        BY <2>3, <3>2, <3>3
    <2> QED
      BY <2>4, <2>5, <2>6
  <1> QED
    BY <1>2, <1>3 DEF Messages

LEMMA EventsOfTail ==
  ASSUME NEW fs \in Seq(0..MaxSent), fs # <<>>
  PROVE  /\ Events(fs) = ({Head(fs)} \ {0}) \cup Events(Tail(fs))
         /\ Ascending(fs) => /\ Ascending(Tail(fs))
                             /\ Before({Head(fs)} \ {0}, Events(Tail(fs)))
  <1>1. /\ DOMAIN fs = 1..Len(fs) /\ Len(fs) \in Nat \ {0}
        /\ Head(fs) = fs[1]
        /\ DOMAIN Tail(fs) = 1..(Len(fs) - 1)
        /\ \A i \in 1..(Len(fs) - 1) : Tail(fs)[i] = fs[i + 1]
    OBVIOUS
  <1>2. ASSUME NEW i \in DOMAIN fs, i # 1
        PROVE  \E j \in DOMAIN Tail(fs) : Tail(fs)[j] = fs[i]
    <2>1. i - 1 \in 1..(Len(fs) - 1) /\ (i - 1) + 1 = i
      BY <1>1, <1>2
    <2> QED
      BY <1>1, <2>1
  <1>3. ASSUME NEW i \in DOMAIN Tail(fs)
        PROVE  i + 1 \in DOMAIN fs /\ 1 < i + 1 /\ Tail(fs)[i] = fs[i + 1]
    BY <1>1
  <1>4. Events(fs) \subseteq ({Head(fs)} \ {0}) \cup Events(Tail(fs))
    BY <1>1, <1>2 DEF Events
  <1>5. ({Head(fs)} \ {0}) \cup Events(Tail(fs)) \subseteq Events(fs)
    BY <1>1, <1>3 DEF Events
  <1>6. ASSUME Ascending(fs)
        PROVE  Ascending(Tail(fs)) /\ Before({Head(fs)} \ {0}, Events(Tail(fs)))
    <2>1. Ascending(Tail(fs))
      BY <1>1, <1>3, <1>6 DEF Ascending
    <2>2. Before({Head(fs)} \ {0}, Events(Tail(fs)))
      BY <1>1, <1>3, <1>6 DEF Ascending, Before, Events
    <2> QED
      BY <2>1, <2>2
  <1> QED
    BY <1>4, <1>5, <1>6

LEMMA HeadTail ==
  ASSUME NEW S, NEW s \in Seq(S), s # <<>>
  PROVE  Head(s) \in S /\ Tail(s) \in Seq(S)
  OBVIOUS

(* The events of the messages not read yet.                                *)
Waiting(ib) == UNION {Events(FramesOf(ib[i])) : i \in DOMAIN ib}

LEMMA WaitingOfTail ==
  ASSUME NEW ib \in Seq(Message), ib # <<>>
  PROVE  Waiting(ib) = Events(FramesOf(Head(ib))) \cup Waiting(Tail(ib))
  <1>1. /\ DOMAIN ib = 1..Len(ib) /\ Len(ib) \in Nat \ {0}
        /\ Head(ib) = ib[1]
        /\ DOMAIN Tail(ib) = 1..(Len(ib) - 1)
        /\ \A i \in 1..(Len(ib) - 1) : Tail(ib)[i] = ib[i + 1]
    OBVIOUS
  <1>2. ASSUME NEW i \in DOMAIN ib, i # 1
        PROVE  \E j \in DOMAIN Tail(ib) : Tail(ib)[j] = ib[i]
    <2>1. i - 1 \in 1..(Len(ib) - 1) /\ (i - 1) + 1 = i
      BY <1>1, <1>2
    <2> QED
      BY <1>1, <2>1
  <1>3. ASSUME NEW i \in DOMAIN Tail(ib)
        PROVE  i + 1 \in DOMAIN ib /\ Tail(ib)[i] = ib[i + 1]
    BY <1>1
  <1> QED
    BY <1>1, <1>2, <1>3 DEF Waiting

LEMMA WaitingOfAppend ==
  ASSUME NEW ib \in Seq(Message), NEW msg \in Message
  PROVE  Waiting(Append(ib, msg)) = Waiting(ib) \cup Events(FramesOf(msg))
  <1> DEFINE ib1 == Append(ib, msg)
  <1>1. /\ DOMAIN ib = 1..Len(ib) /\ Len(ib) \in Nat
        /\ DOMAIN ib1 = 1..(Len(ib) + 1)
        /\ \A i \in 1..Len(ib) : ib1[i] = ib[i]
        /\ ib1[Len(ib) + 1] = msg
    OBVIOUS
  <1> HIDE DEF ib1
  <1>2. \A i \in DOMAIN ib1 : i \in DOMAIN ib \/ i = Len(ib) + 1
    BY <1>1
  <1>3. DOMAIN ib \subseteq DOMAIN ib1 /\ Len(ib) + 1 \in DOMAIN ib1
    BY <1>1
  <1>4. Waiting(ib1) = Waiting(ib) \cup Events(FramesOf(msg))
    BY <1>1, <1>2, <1>3 DEF Waiting
  <1> QED
    BY <1>4 DEF ib1

-----------------------------------------------------------------------------
(* Types.                                                                  *)

LEMMA InitType == Init => TypeOK
  <1>1. <<>> \in Seq(Message) /\ <<>> \in Seq(0..MaxSent) /\ <<>> \in Seq(1..MaxSent)
    OBVIOUS
  <1>2. 0 \in 0..MaxSent /\ Len(<<>>) <= MaxInbox
    BY StompAssumption
  <1> QED
    BY <1>1, <1>2 DEF Init, TypeOK

LEMMA ReturnType == ASSUME TypeOK, Return PROVE TypeOK'
  <1>1. inbox' \in Seq(Message) /\ Len(inbox') <= MaxInbox /\ frames' \in Seq(0..MaxSent)
    BY StompAssumption DEF Return
  <1> QED
    BY <1>1 DEF TypeOK, Return

(* A message taken from the inbox is one, and leaves a shorter inbox.      *)
LEMMA InboxTail ==
  ASSUME TypeOK, inbox # <<>>
  PROVE  /\ Head(inbox) \in Message
         /\ Tail(inbox) \in Seq(Message) /\ Len(Tail(inbox)) <= MaxInbox
  <1>1. inbox \in Seq(Message) /\ Len(inbox) <= MaxInbox /\ Len(inbox) \in Nat \ {0}
    BY DEF TypeOK
  <1> QED
    BY <1>1, StompAssumption

LEMMA ReadType == ASSUME TypeOK, AwaitOpen \/ ReadMessage PROVE TypeOK'
  <1>1. Head(inbox) \in Message
    BY InboxTail DEF AwaitOpen, ReadMessage
  <1>2. inbox' \in Seq(Message) /\ Len(inbox') <= MaxInbox
    BY InboxTail DEF AwaitOpen, ReadMessage
  <1>3. frames' \in Seq(0..MaxSent)
    BY <1>1, FramesType DEF AwaitOpen, ReadMessage, TypeOK
  <1> QED
    BY <1>2, <1>3 DEF AwaitOpen, ReadMessage, TypeOK

LEMMA ProcessType == ASSUME TypeOK, ProcessFrame PROVE TypeOK'
  <1>1. CASE frames = <<>>
    BY <1>1 DEF ProcessFrame, TypeOK
  <1>2. CASE frames # <<>>
    <2>1. Head(frames) \in 0..MaxSent /\ Tail(frames) \in Seq(0..MaxSent)
      BY <1>2, HeadTail DEF TypeOK
    <2>2. Head(frames) # 0 => Append(handled, Head(frames)) \in Seq(1..MaxSent)
      <3>1. Head(frames) # 0 => Head(frames) \in 1..MaxSent
        BY <2>1, StompAssumption
      <3>2. handled \in Seq(1..MaxSent)
        BY DEF TypeOK
      <3> QED
        BY <3>1, <3>2
    <2> QED
      BY <1>2, <2>1, <2>2 DEF ProcessFrame, TypeOK
  <1> QED
    BY <1>1, <1>2

LEMMA SendType == ASSUME TypeOK, NEW n \in 0..2, BrokerSends(n) PROVE TypeOK'
  <1>1. PICK msg \in Messages(n) : inbox' = Append(inbox, msg)
    BY DEF BrokerSends
  <1>2. msg \in Message
    BY SentMessage DEF BrokerSends
  <1>3. inbox' \in Seq(Message) /\ Len(inbox') = Len(inbox) + 1 /\ Len(inbox) \in Nat
    BY <1>1, <1>2 DEF TypeOK
  <1>4. Len(inbox') <= MaxInbox /\ sent' \in 0..MaxSent
    BY <1>3, StompAssumption DEF BrokerSends, TypeOK
  <1> QED
    BY <1>3, <1>4 DEF BrokerSends, goroutines, TypeOK

LEMMA NextType == TypeOK /\ [Next]_vars => TypeOK'
  <1> SUFFICES ASSUME TypeOK, [Next]_vars PROVE TypeOK'
    OBVIOUS
  <1>1. CASE Main
    <2>1. CASE Probe \/ Dial \/ BeginWrite \/ Connected
      BY <2>1 DEF Probe, Dial, BeginWrite, Connected, stream, TypeOK
    <2>2. CASE DialFails \/ OpenFails \/ ConnectionFails
      BY <2>2, ReturnType DEF DialFails, OpenFails, ConnectionFails
    <2>3. ASSUME NEW s \in Stations, Subscribed(s) PROVE TypeOK'
      BY <2>3 DEF Subscribed, TypeOK
    <2> QED
      BY <1>1, <2>1, <2>2, <2>3, ReadType, ProcessType DEF Main
  <1>2. CASE Watchdog
    BY <1>2 DEF Watchdog, WatchdogWakes, WatchdogCloses, WatchdogStops, stream, TypeOK
  <1>3. CASE Heartbeat
    BY <1>3 DEF Heartbeat, HeartbeatTicks, HeartbeatWritten, HeartbeatStops,
                HeartbeatFails, stream, TypeOK
  <1>4. CASE Cancel
    BY <1>4 DEF Cancel, goroutines, stream, TypeOK
  <1>5. CASE \E n \in 0..2 : BrokerSends(n)
    BY <1>5, SendType
  <1>6. CASE UNCHANGED vars
    BY <1>6 DEF vars, goroutines, stream, TypeOK
  <1> QED
    BY <1>1, <1>2, <1>3, <1>4, <1>5, <1>6 DEF Next

(* Every variable of the session keeps its type; in particular, a session  *)
(* that has returned has closed its connection.                            *)
THEOREM TypeCorrect == Spec => []TypeOK
  BY InitType, NextType, PTL DEF Spec

-----------------------------------------------------------------------------
(* One writer.                                                             *)

LEMMA InitWriters == Init => Writers
  BY DEF Init, Writers

LEMMA NextWriters == Writers /\ [Next]_vars => Writers'
  <1> SUFFICES ASSUME Writers, [Next]_vars PROVE Writers'
    OBVIOUS
  <1>1. CASE Main
    <2>1. CASE Probe \/ Dial \/ AwaitOpen \/ BeginWrite \/ Connected
      BY <2>1 DEF Probe, Dial, AwaitOpen, BeginWrite, Connected, Writers
    <2>2. CASE DialFails \/ OpenFails \/ ConnectionFails
      BY <2>2 DEF DialFails, OpenFails, ConnectionFails, Return, Writers
    <2>3. ASSUME NEW s \in Stations, Subscribed(s) PROVE Writers'
      BY <2>3 DEF Subscribed, Writers
    <2>4. CASE ReadMessage \/ ProcessFrame
      BY <2>4 DEF ReadMessage, ProcessFrame, Writers
    <2> QED
      BY <1>1, <2>1, <2>2, <2>3, <2>4 DEF Main
  <1>2. CASE Watchdog
    BY <1>2 DEF Watchdog, WatchdogWakes, WatchdogCloses, WatchdogStops, Writers
  <1>3. CASE Heartbeat
    BY <1>3 DEF Heartbeat, HeartbeatTicks, HeartbeatWritten, HeartbeatStops,
                HeartbeatFails, Writers
  <1>4. CASE Cancel
    BY <1>4 DEF Cancel, goroutines, Writers
  <1>5. CASE \E n \in 0..2 : BrokerSends(n)
    BY <1>5 DEF BrokerSends, goroutines, Writers
  <1>6. CASE UNCHANGED vars
    BY <1>6 DEF vars, goroutines, Writers
  <1> QED
    BY <1>1, <1>2, <1>3, <1>4, <1>5, <1>6 DEF Next

(* Two goroutines are never in WriteMessage of the same connection: the    *)
(* heartbeat starts when main has written for the last time.               *)
THEOREM WritesAlone == Spec => []OneWriter
  <1>1. ASSUME TypeOK, Writers PROVE OneWriter
    <2>1. writing = {} \/ writing = {"main"} \/ writing = {"heartbeat"}
      BY <1>1 DEF TypeOK, Writers
    <2>2. Cardinality(writing) = 0 \/ Cardinality(writing) = 1
      BY <2>1, FS_EmptySet, FS_Singleton, Zenon
    <2> QED
      BY <2>2 DEF OneWriter
  <1> QED
    BY <1>1, TypeCorrect, InitWriters, NextWriters, PTL DEF Spec

-----------------------------------------------------------------------------
(* Events in sequence.                                                     *)

Others ==
  Probe \/ Dial \/ BeginWrite \/ Connected \/ Watchdog \/ Heartbeat \/ Cancel
    \/ (\E s \in Stations : Subscribed(s)) \/ UNCHANGED vars

Returns == DialFails \/ OpenFails \/ ConnectionFails

(* What each step does with the stream.                                    *)
LEMMA NextCases ==
  ASSUME [Next]_vars
  PROVE  \/ Others \/ Returns \/ AwaitOpen \/ ReadMessage \/ ProcessFrame
         \/ \E n \in 0..2 : BrokerSends(n)
  BY DEF Next, Main, Others, Returns

LEMMA OthersKeep ==
  ASSUME Others
  PROVE  /\ UNCHANGED <<inbox, frames, sent, handled>>
         /\ (main' # "returned" /\ main # "returned") \/ main' = main
         /\ (main # "process" /\ main' # "process") \/ main' = main
         /\ main' \in {"probe", "dial", "open", "connect"} =>
              main \in {"probe", "dial", "open", "connect"} /\ subs' = subs
         /\ main = "returned" => subs' = subs
  <1>1. CASE Probe \/ Dial \/ BeginWrite \/ Connected
    BY <1>1 DEF Probe, Dial, BeginWrite, Connected, stream
  <1>2. CASE Watchdog
    BY <1>2 DEF Watchdog, WatchdogWakes, WatchdogCloses, WatchdogStops, stream
  <1>3. CASE Heartbeat
    BY <1>3 DEF Heartbeat, HeartbeatTicks, HeartbeatWritten, HeartbeatStops,
                HeartbeatFails, stream
  <1>4. CASE Cancel \/ UNCHANGED vars
    BY <1>4 DEF Cancel, vars, goroutines, stream
  <1>5. CASE \E s \in Stations : Subscribed(s)
    BY <1>5 DEF Subscribed
  <1> QED
    BY <1>1, <1>2, <1>3, <1>4, <1>5 DEF Others

(* A session returns once.                                                 *)
LEMMA ReturnsOnce ==
  ASSUME Writers, Returns
  PROVE  Return /\ main # "returned"
  BY DEF Returns, DialFails, OpenFails, ConnectionFails, Writers

LEMMA NextQuiet == TypeOK /\ Writers /\ Quiet /\ [Next]_vars => Quiet'
  <1> SUFFICES ASSUME TypeOK, Writers, Quiet, [Next]_vars PROVE Quiet'
    OBVIOUS
  <1>1. CASE Others
    BY <1>1, OthersKeep DEF Quiet
  <1>2. CASE Returns
    BY <1>2, ReturnsOnce DEF Return, Quiet
  <1>3. CASE AwaitOpen \/ ReadMessage \/ ProcessFrame
    BY <1>3 DEF AwaitOpen, ReadMessage, ProcessFrame, Quiet
  <1>4. ASSUME NEW n \in 0..2, BrokerSends(n) PROVE Quiet'
    <2>1. sent' = sent + n /\ (n > 0 => subs # {}) /\ sent \in Nat
      BY <1>4, StompAssumption DEF BrokerSends, TypeOK
    <2> QED
      BY <1>4, <2>1 DEF BrokerSends, goroutines, Quiet
  <1> QED
    BY <1>1, <1>2, <1>3, <1>4, NextCases

(* With nothing in flight, everything is in order.                         *)
LEMMA EmptyInOrder ==
  ASSUME frames = <<>>, inbox = <<>>
  PROVE  InOrder /\ InFlight = {}
  BY DEF InOrder, InFlight, Ascending, Events

LEMMA InitSequence == Init => Quiet /\ Sequenced /\ InOrder
  <1> SUFFICES ASSUME Init PROVE Quiet /\ Sequenced /\ InOrder
    OBVIOUS
  <1>1. InOrder /\ InFlight = {}
    BY EmptyInOrder DEF Init
  <1>2. (Len(handled) + 1)..sent = {} /\ Len(handled) <= sent
    BY DEF Init
  <1> QED
    BY <1>1, <1>2 DEF Init, Quiet, Sequenced

LEMMA WaitingInFlight == InFlight = Events(frames) \cup Waiting(inbox)
  BY DEF InFlight, Waiting

(* A later part of the inbox is in order, and comes after the head.        *)
LEMMA TailInOrder ==
  ASSUME TypeOK, InOrder, inbox # <<>>
  PROVE  /\ \A i \in DOMAIN Tail(inbox) :
              /\ Ascending(FramesOf(Tail(inbox)[i]))
              /\ Before(Events(FramesOf(Head(inbox))), Events(FramesOf(Tail(inbox)[i])))
              /\ Before(Events(frames), Events(FramesOf(Tail(inbox)[i])))
         /\ \A i, j \in DOMAIN Tail(inbox) :
              i < j => Before(Events(FramesOf(Tail(inbox)[i])),
                              Events(FramesOf(Tail(inbox)[j])))
         /\ Ascending(FramesOf(Head(inbox)))
  <1>1. /\ DOMAIN inbox = 1..Len(inbox) /\ Len(inbox) \in Nat \ {0}
        /\ Head(inbox) = inbox[1]
        /\ DOMAIN Tail(inbox) = 1..(Len(inbox) - 1)
        /\ \A i \in 1..(Len(inbox) - 1) : Tail(inbox)[i] = inbox[i + 1]
    BY DEF TypeOK
  <1>2. ASSUME NEW i \in DOMAIN Tail(inbox)
        PROVE  i + 1 \in DOMAIN inbox /\ 1 < i + 1 /\ Tail(inbox)[i] = inbox[i + 1]
    BY <1>1
  <1>3. 1 \in DOMAIN inbox
    BY <1>1
  <1>4. ASSUME NEW i \in DOMAIN Tail(inbox), NEW j \in DOMAIN Tail(inbox), i < j
        PROVE  i + 1 < j + 1
    BY <1>1, <1>4
  <1> QED
    BY <1>1, <1>2, <1>3, <1>4 DEF InOrder

(* Before the first subscription nothing was sent: what AwaitOpen skips    *)
(* carries no event.                                                       *)
LEMMA AwaitKeeps ==
  ASSUME TypeOK, Quiet, Sequenced, InOrder, AwaitOpen
  PROVE  (Sequenced /\ InOrder)' /\ InFlight' = InFlight
  <1>1. inbox # <<>> /\ inbox' = Tail(inbox) /\ UNCHANGED <<frames, handled, sent>>
    BY DEF AwaitOpen
  <1>2. InOrder'
    BY <1>1, TailInOrder DEF InOrder
  <1>3. main # "returned" /\ sent = 0 /\ Len(handled) \in Nat
    BY DEF AwaitOpen, Quiet, TypeOK
  <1>4. InFlight = {}
    BY <1>3 DEF Sequenced
  <1>5. Waiting(Tail(inbox)) \subseteq Waiting(inbox)
    BY <1>1, WaitingOfTail DEF TypeOK
  <1>6. InFlight' = Events(frames) \cup Waiting(Tail(inbox))
    BY <1>1 DEF InFlight, Waiting
  <1>7. InFlight' = {}
    BY <1>4, <1>5, <1>6, WaitingInFlight
  <1>8. Sequenced'
    BY <1>1, <1>3, <1>4, <1>7 DEF Sequenced
  <1> QED
    BY <1>2, <1>4, <1>7, <1>8

(* The message read is the first, and becomes the frames in process.       *)
LEMMA ReadKeeps ==
  ASSUME TypeOK, Quiet, Sequenced, InOrder, ReadMessage
  PROVE  (Sequenced /\ InOrder)' /\ InFlight' = InFlight
  <1>1. /\ inbox # <<>> /\ inbox' = Tail(inbox) /\ frames' = FramesOf(Head(inbox))
        /\ frames = <<>> /\ main # "returned" /\ UNCHANGED <<handled, sent>>
    BY DEF ReadMessage, Quiet
  <1>2. InOrder'
    BY <1>1, TailInOrder DEF InOrder
  <1>3. Events(frames) = {}
    BY <1>1 DEF Events
  <1>4. InFlight' = Events(FramesOf(Head(inbox))) \cup Waiting(Tail(inbox))
    BY <1>1 DEF InFlight, Waiting
  <1>5. InFlight' = InFlight
    BY <1>1, <1>3, <1>4, WaitingOfTail, WaitingInFlight DEF TypeOK
  <1>6. Sequenced'
    BY <1>1, <1>5 DEF Sequenced
  <1> QED
    BY <1>2, <1>5, <1>6

(* The head of the frames is the first event in flight, if it is one.      *)
LEMMA HeadIsFirst ==
  ASSUME TypeOK, InOrder, frames # <<>>, Head(frames) # 0
  PROVE  /\ Head(frames) \in InFlight
         /\ Before({Head(frames)}, Events(Tail(frames)) \cup Waiting(inbox))
  <1>1. frames \in Seq(0..MaxSent)
    BY DEF TypeOK
  <1>2. Head(frames) \in Events(frames)
    BY <1>1, EventsOfTail
  <1>3. Before({Head(frames)}, Events(Tail(frames)))
    BY <1>1, EventsOfTail DEF InOrder, Before
  <1>4. Before({Head(frames)}, Waiting(inbox))
    BY <1>2 DEF InOrder, Before, Waiting
  <1> QED
    BY <1>2, <1>3, <1>4 DEF Before, InFlight

(* A frame that carries no event is passed over; one that does is the next *)
(* event of the stream.                                                    *)
LEMMA ProcessKeeps ==
  ASSUME TypeOK, Quiet, Sequenced, InOrder, ProcessFrame
  PROVE  /\ (Sequenced /\ InOrder)'
         /\ \/ InFlight' = InFlight /\ handled' = handled
            \/ \E e \in InFlight : /\ \A f \in InFlight : e <= f
                                   /\ InFlight' = InFlight \ {e}
                                   /\ handled' = Append(handled, e)
  <1>0. main # "returned" /\ UNCHANGED <<inbox, sent>>
    BY DEF ProcessFrame
  <1>1. CASE frames = <<>>
    <2>1. UNCHANGED <<frames, handled>>
      BY <1>1 DEF ProcessFrame
    <2>2. InOrder' /\ InFlight' = InFlight
      BY <1>0, <2>1 DEF InOrder, InFlight
    <2> QED
      BY <1>0, <2>1, <2>2 DEF Sequenced
  <1>2. CASE frames # <<>>
    <2> DEFINE e == Head(frames)
    <2>1. /\ frames \in Seq(0..MaxSent) /\ frames' = Tail(frames)
          /\ handled' = IF e = 0 THEN handled ELSE Append(handled, e)
      BY <1>2 DEF ProcessFrame, TypeOK
    <2>2. Events(frames) = ({e} \ {0}) \cup Events(Tail(frames))
      BY <1>2, <2>1, EventsOfTail
    <2>3. InOrder'
      <3>1. Ascending(Tail(frames))
        BY <1>2, <2>1, EventsOfTail DEF InOrder
      <3>2. ASSUME NEW i \in DOMAIN inbox
            PROVE  Before(Events(Tail(frames)), Events(FramesOf(inbox[i])))
        BY <2>2 DEF InOrder, Before
      <3> QED
        BY <1>0, <2>1, <3>1, <3>2 DEF InOrder
    <2>4. InFlight' = Events(Tail(frames)) \cup Waiting(inbox)
      BY <1>0, <2>1 DEF InFlight, Waiting
    <2>5. CASE e = 0
      <3>1. InFlight' = InFlight /\ handled' = handled
        BY <2>1, <2>2, <2>4, <2>5, WaitingInFlight
      <3> QED
        BY <1>0, <2>3, <3>1 DEF Sequenced
    <2>6. CASE e # 0
      <3>1. e \in InFlight /\ Before({e}, InFlight')
        BY <1>2, <2>4, <2>6, HeadIsFirst
      <3>2. InFlight = {e} \cup InFlight'
        BY <2>2, <2>4, <2>6, WaitingInFlight
      <3>3. InFlight = (Len(handled) + 1)..sent /\ Len(handled) \in Nat /\ sent \in Nat
        BY <1>0, StompAssumption DEF Sequenced, TypeOK
      <3>4. \A f \in InFlight' : e < f
        BY <3>1 DEF Before
      <3>5. InFlight' = InFlight \ {e} /\ \A f \in InFlight : e <= f
        <4>1. \A f \in InFlight : f \in Nat
          BY <3>3
        <4>2. e \in Nat /\ InFlight' \subseteq Nat
          BY <3>1, <3>2, <4>1
        <4>3. e \notin InFlight'
          BY <3>4, <4>2
        <4>4. ASSUME NEW f \in InFlight PROVE e <= f
          <5>1. CASE f \in InFlight'
            BY <3>4, <4>2, <5>1
          <5>2. CASE f = e
            BY <4>2, <5>2
          <5> QED
            BY <3>2, <5>1, <5>2
        <4> QED
          BY <3>2, <4>3, <4>4
      <3>6. e = Len(handled) + 1
        BY <3>1, <3>3, <3>5
      <3>7. InFlight' = (Len(handled) + 2)..sent
        BY <3>3, <3>5, <3>6
      <3>8. handled' = Append(handled, e)
        BY <2>1, <2>6
      <3>9. /\ Len(handled') = Len(handled) + 1
            /\ \A i \in DOMAIN handled' : handled'[i] = i
        BY <3>6, <3>8 DEF Sequenced, TypeOK
      <3>10. (Len(handled') + 1)..sent = (Len(handled) + 2)..sent
        BY <3>3, <3>9
      <3>11. Len(handled') <= sent
        BY <3>1, <3>3, <3>6, <3>9
      <3>12. Sequenced'
        BY <1>0, <3>7, <3>9, <3>10, <3>11 DEF Sequenced
      <3> QED
        BY <2>3, <3>1, <3>5, <3>8, <3>12
    <2> QED
      BY <2>5, <2>6
  <1> QED
    BY <1>1, <1>2

(* The next events come after all others, in the order of their frames.    *)
LEMMA SendKeeps ==
  ASSUME TypeOK, Sequenced, InOrder, NEW n \in 0..2, BrokerSends(n)
  PROVE  /\ (Sequenced /\ InOrder)'
         /\ InFlight' = InFlight \cup (sent + 1)..(sent + n)
  <1>1. PICK msg \in Messages(n) : inbox' = Append(inbox, msg)
    BY DEF BrokerSends
  <1>2. /\ msg \in Message /\ Ascending(FramesOf(msg))
        /\ Events(FramesOf(msg)) = (sent + 1)..(sent + n)
    BY SentMessage DEF BrokerSends
  <1>3. /\ UNCHANGED <<main, frames, handled>> /\ main # "returned"
        /\ sent' = sent + n /\ sent \in Nat /\ Len(handled) \in Nat
        /\ inbox \in Seq(Message)
    BY StompAssumption DEF BrokerSends, goroutines, TypeOK
  <1>4. InFlight' = InFlight \cup (sent + 1)..(sent + n)
    <2>1. InFlight' = Events(frames) \cup Waiting(Append(inbox, msg))
      BY <1>1, <1>3 DEF InFlight, Waiting
    <2> QED
      BY <1>2, <1>3, <2>1, WaitingOfAppend, WaitingInFlight
  <1>5. InFlight = (Len(handled) + 1)..sent
    BY <1>3 DEF Sequenced
  <1>6. Len(handled) <= sent
    BY DEF Sequenced
  <1>7. Sequenced'
    BY <1>3, <1>4, <1>5, <1>6 DEF Sequenced
  <1>8. Before(InFlight, Events(FramesOf(msg)))
    BY <1>2, <1>3, <1>5 DEF Before
  <1>9. /\ DOMAIN inbox = 1..Len(inbox) /\ Len(inbox) \in Nat
        /\ DOMAIN inbox' = 1..(Len(inbox) + 1)
        /\ \A i \in 1..Len(inbox) : inbox'[i] = inbox[i]
        /\ inbox'[Len(inbox) + 1] = msg
    BY <1>1, <1>2, <1>3
  <1>10. ASSUME NEW i \in DOMAIN inbox
         PROVE  Events(FramesOf(inbox[i])) \subseteq InFlight
    BY DEF InFlight
  <1>11. ASSUME NEW i \in DOMAIN inbox'
         PROVE  /\ Ascending(FramesOf(inbox'[i]))
                /\ Before(Events(frames), Events(FramesOf(inbox'[i])))
    <2>1. CASE i \in DOMAIN inbox
      BY <1>9, <2>1 DEF InOrder
    <2>2. CASE i = Len(inbox) + 1
      BY <1>2, <1>8, <1>9, <2>2 DEF InFlight, Before
    <2> QED
      BY <1>9, <2>1, <2>2
  <1>12. ASSUME NEW i \in DOMAIN inbox', NEW j \in DOMAIN inbox', i < j
         PROVE  Before(Events(FramesOf(inbox'[i])), Events(FramesOf(inbox'[j])))
    <2>1. i \in DOMAIN inbox
      BY <1>9, <1>12
    <2>2. CASE j \in DOMAIN inbox
      BY <1>9, <1>12, <2>1, <2>2 DEF InOrder
    <2>3. CASE j = Len(inbox) + 1
      BY <1>8, <1>9, <1>10, <2>1, <2>3 DEF Before
    <2> QED
      BY <1>9, <2>2, <2>3
  <1>13. InOrder'
    BY <1>3, <1>11, <1>12 DEF InOrder
  <1> QED
    BY <1>4, <1>7, <1>13

(* A session that returns drops what was in flight.                        *)
LEMMA ReturnKeeps ==
  ASSUME Sequenced, Return
  PROVE  (Sequenced /\ InOrder)' /\ InFlight' = {}
  <1>1. InOrder' /\ InFlight' = {}
    BY EmptyInOrder DEF Return, InOrder, InFlight, Ascending, Events
  <1> QED
    BY <1>1 DEF Return, Sequenced

LEMMA UnchangedKeeps ==
  ASSUME Sequenced, InOrder, Others
  PROVE  (Sequenced /\ InOrder)' /\ InFlight' = InFlight
  <1>1. UNCHANGED <<inbox, frames, sent, handled>> /\ (main = "returned" => main' = main)
    BY OthersKeep
  <1>2. InOrder' /\ InFlight' = InFlight
    BY <1>1 DEF InOrder, InFlight
  <1>3. main' # "returned" => main # "returned"
    BY <1>1
  <1> QED
    BY <1>1, <1>2, <1>3 DEF Sequenced

LEMMA InitInv == Init => Inv
  BY InitType, InitWriters, InitSequence DEF Inv

LEMMA NextInv == Inv /\ [Next]_vars => Inv'
  <1> SUFFICES ASSUME Inv, [Next]_vars PROVE Inv'
    OBVIOUS
  <1>1. (TypeOK /\ Writers /\ Quiet)'
    BY NextType, NextWriters, NextQuiet DEF Inv
  <1>2. (Sequenced /\ InOrder)'
    BY NextCases, UnchangedKeeps, ReturnsOnce, ReturnKeeps, AwaitKeeps, ReadKeeps,
       ProcessKeeps, SendKeeps DEF Inv
  <1> QED
    BY <1>1, <1>2 DEF Inv

(* The invariant of the session holds in every state.                      *)
THEOREM Invariant == Spec => []Inv
  BY InitInv, NextInv, PTL DEF Spec

(* Whatever the boundaries of frames and messages, the events handled are  *)
(* the first ones sent, each once and in order, and while the session      *)
(* lasts every other one is still to come.                                 *)
THEOREM EventsInSequence == Spec => []Sequenced
  <1>1. Inv => Sequenced
    BY DEF Inv
  <1> QED
    BY <1>1, Invariant, PTL

-----------------------------------------------------------------------------
(* The session implements EventStream.                                     *)

LEMMA InitStream == Init => Stream!Init
  <1> SUFFICES ASSUME Init PROVE Stream!Init
    OBVIOUS
  <1>1. InFlight = {}
    BY EmptyInOrder DEF Init
  <1> QED
    BY <1>1 DEF Init, Stream!Init

(* A step of the session is a step of the stream, or none.                 *)
LEMMA NextStream == Inv /\ [Next]_vars => [Stream!Next]_(Stream!vars)
  <1> SUFFICES ASSUME Inv, [Next]_vars PROVE [Stream!Next]_(Stream!vars)
    OBVIOUS
  <1> USE DEF Stream!vars
  <1>1. CASE Others
    <2>1. /\ UNCHANGED <<sent, handled>> /\ InFlight' = InFlight
          /\ (main' # "returned" /\ main # "returned") \/ main' = main
      BY <1>1, OthersKeep, UnchangedKeeps DEF Inv
    <2>2. CASE subs' = subs
      BY <2>1, <2>2
    <2>3. CASE subs' # subs
      <3>1. PICK s \in Stations : Subscribed(s)
        BY <1>1, <2>3 DEF Others, Probe, Dial, BeginWrite, Connected, Watchdog,
             WatchdogWakes, WatchdogCloses, WatchdogStops, Heartbeat, HeartbeatTicks,
             HeartbeatWritten, HeartbeatStops, HeartbeatFails, Cancel, vars, stream
      <3>2. main # "returned" /\ main' # "returned" /\ subs' = subs \cup {s}
        BY <3>1 DEF Subscribed
      <3>3. Stream!Subscribe(s)
        BY <2>1, <3>2 DEF Stream!Subscribe
      <3> QED
        BY <3>3 DEF Stream!Next
    <2> QED
      BY <2>2, <2>3
  <1>2. CASE Returns
    <2>1. Return /\ main # "returned"
      BY <1>2, ReturnsOnce DEF Inv
    <2>2. InFlight' = {}
      BY <2>1, ReturnKeeps DEF Inv
    <2>3. Stream!End
      BY <2>1, <2>2 DEF Return, Stream!End
    <2> QED
      BY <2>3 DEF Stream!Next
  <1>3. CASE AwaitOpen
    <2>1. InFlight' = InFlight
      BY <1>3, AwaitKeeps DEF Inv
    <2> QED
      BY <1>3, <2>1 DEF AwaitOpen
  <1>4. CASE ReadMessage
    <2>1. InFlight' = InFlight
      BY <1>4, ReadKeeps DEF Inv
    <2> QED
      BY <1>4, <2>1 DEF ReadMessage
  <1>5. CASE ProcessFrame
    <2>1. main # "returned" /\ main' # "returned" /\ UNCHANGED <<subs, sent>>
      BY <1>5 DEF ProcessFrame
    <2>2. \/ InFlight' = InFlight /\ handled' = handled
          \/ \E e \in InFlight : /\ \A f \in InFlight : e <= f
                                 /\ InFlight' = InFlight \ {e}
                                 /\ handled' = Append(handled, e)
      BY <1>5, ProcessKeeps DEF Inv
    <2>3. CASE InFlight' = InFlight /\ handled' = handled
      BY <2>1, <2>3
    <2>4. CASE \E e \in InFlight : /\ \A f \in InFlight : e <= f
                                   /\ InFlight' = InFlight \ {e}
                                   /\ handled' = Append(handled, e)
      <3>1. Stream!Handle
        BY <2>1, <2>4 DEF Stream!Handle
      <3> QED
        BY <3>1 DEF Stream!Next
    <2> QED
      BY <2>2, <2>3, <2>4
  <1>6. ASSUME NEW n \in 0..2, BrokerSends(n)
        PROVE  [Stream!Next]_(Stream!vars)
    <2>1. /\ UNCHANGED <<main, subs, handled>> /\ main # "returned"
          /\ sent' = sent + n /\ sent + n <= MaxSent /\ (n > 0 => subs # {})
      BY <1>6 DEF BrokerSends, goroutines
    <2>2. InFlight' = InFlight \cup (sent + 1)..(sent + n)
      BY <1>6, SendKeeps DEF Inv
    <2>3. sent \in Nat /\ MaxSent \in Nat
      BY StompAssumption DEF Inv, TypeOK
    <2>4. CASE n = 0
      <3>1. sent' = sent /\ InFlight' = InFlight
        BY <2>1, <2>2, <2>3, <2>4
      <3> QED
        BY <2>1, <3>1
    <2>5. CASE n > 0
      <3>1. n \in 1..MaxSent
        BY <2>1, <2>3, <2>5
      <3>2. Stream!Send(n)
        BY <2>1, <2>2, <2>5 DEF Stream!Send
      <3> QED
        BY <3>1, <3>2 DEF Stream!Next
    <2> QED
      BY <2>4, <2>5
  <1> QED
    BY <1>1, <1>2, <1>3, <1>4, <1>5, <1>6, NextCases

(* What the caller of RunConsumer sees is the stream of EventStream: every *)
(* event once and in order, until the session ends.                        *)
THEOREM Implements == Spec => IsEventStream
  BY Invariant, InitStream, NextStream, PTL DEF Spec, IsEventStream, Stream!Spec
=============================================================================
