---------------------------- MODULE WSHubProofs ----------------------------
(***************************************************************************)
(* Proofs about WSHub for every set of users, connections and publishers,  *)
(* every channel capacity and every number of publications.                *)
(*                                                                         *)
(* HubInv is the inductive invariant.  HubConsistent alone is not          *)
(* inductive: that closing a target never touches a connection that was    *)
(* never registered, and that a frame is for the user of its target, needs *)
(* CallsConsistent; that a frame is a Message needs it as well.            *)
(* FramesInv (isolation and order of the frames) is inductive relative to  *)
(* it.  MailInv adds that the two pumps of a connection start together:    *)
(* that the hub implements one mailbox per connection needs it, and so do  *)
(* the counts of the frames (CountInv), for a writePump that could start   *)
(* again would forget an error it has not counted.  That calls return      *)
(* needs as well that only a writePump that ends closes the connections of *)
(* its user (CallInv).                                                     *)
(***************************************************************************)
EXTENDS WSHub, FiniteSetTheorems, SequenceTheorems, TLAPS

HubInv == TypeOK /\ HubConsistent /\ CallsConsistent

(* AddClient adds one connection to the clients of its user.               *)
LEMMA AddClientEffect ==
  ASSUME NEW c \in Conns, TypeOK, AddClient(c)
  PROVE  /\ DOMAIN clientsByUser' = DOMAIN clientsByUser \cup {UserOf[c]}
         /\ \A u \in Users : Clients(u)' = IF u = UserOf[c]
                                            THEN Clients(u) \cup {c}
                                            ELSE Clients(u)
         /\ clientsByUser' \in [DOMAIN clientsByUser' -> SUBSET Conns]
         /\ DOMAIN clientsByUser' \subseteq Users
BY HubAssumption DEF AddClient, Clients, TypeOK

(* RemoveClient removes one connection, and the entry with the last one.   *)
LEMMA RemoveClientEffect ==
  ASSUME NEW c \in Conns, TypeOK, RemoveClient(c)
  PROVE  /\ \A u \in Users : Clients(u)' = IF u = UserOf[c]
                                            THEN Clients(u) \ {c}
                                            ELSE Clients(u)
         /\ DOMAIN clientsByUser' \subseteq DOMAIN clientsByUser
         /\ \A u \in DOMAIN clientsByUser' :
              clientsByUser'[u] # {} \/ (u # UserOf[c] /\ clientsByUser'[u] = clientsByUser[u])
         /\ clientsByUser' \in [DOMAIN clientsByUser' -> SUBSET Conns]
         /\ DOMAIN clientsByUser' \subseteq Users
BY HubAssumption DEF RemoveClient, Clients, TypeOK

(* The clients of a user are connections.                                  *)
LEMMA ClientsType == ASSUME TypeOK, NEW u PROVE Clients(u) \in SUBSET Conns
BY DEF Clients, TypeOK

(* A call that goes on or returns is a call.                               *)
LEMMA SettledType == ASSUME NEW cl \in Call PROVE Settled(cl) \in Call
BY DEF Settled, Call, IdleCall

(* A call with a step, a user and targets is a call.                       *)
LEMMA CallType ==
  ASSUME NEW s \in {"idle"} \cup Publishing \cup Closing,
         NEW u \in Users \cup {NoUser}, NEW T \in SUBSET Conns
  PROVE  [step |-> s, user |-> u, targets |-> T] \in Call
BY DEF Call

(* What is left of a call that has visited a target, and a call that has   *)
(* dealt with one, are calls.                                              *)
LEMMA WithoutType ==
  ASSUME NEW t \in Threads, NEW c, TypeOK
  PROVE  /\ Without(t, c) \in Call
         /\ Without(t, c).step = call[t].step
         /\ Without(t, c).user = call[t].user
         /\ Without(t, c).targets = call[t].targets \ {c}
<1>1. call[t] \in Call BY DEF TypeOK
<1> QED BY <1>1 DEF Without, Call

LEMMA TargetDoneType ==
  ASSUME NEW t \in Threads, NEW c \in Conns, TypeOK, TargetDone(t, c)
  PROVE  call' \in [Threads -> Call]
<1>1. Settled(Without(t, c)) \in Call BY WithoutType, SettledType
<1> QED BY <1>1 DEF TargetDone, TypeOK

(* The frame of a publication is a message.                                *)
LEMMA MessageType ==
  ASSUME NEW p \in Callers, TypeOK, CallsConsistent, call[p].step \in Publishing
  PROVE  MessageOf(p) \in Message
<1>1. p \in Threads BY DEF Threads
<1>2. published[p] \in 0..MaxPublish BY DEF TypeOK
<1>3. published[p] > 0 /\ call[p].user \in Users
  BY <1>1 DEF CallsConsistent, Publishing
<1>4. published[p] \in 1..MaxPublish BY <1>2, <1>3, HubAssumption
<1> QED BY <1>3, <1>4 DEF MessageOf, Message

-----------------------------------------------------------------------------
(* What the actions have in common.                                        *)

(* Sockets are never forgotten once opened.                                *)
SocketsStay == \A c \in Conns : sock[c] # "none" => sock'[c] # "none"

(* A step that leaves the map, the counter and the channels alone.         *)
LEMMA HubUntouched ==
  ASSUME HubConsistent, UNCHANGED <<clientsByUser, totalConnections, closed>>,
         SocketsStay,
         \A c \in Conns : sock[c] = "none" =>
           sock'[c] = "none" /\ reader'[c] = "none" /\ writer'[c] = "none",
         \A c \in Conns : closed[c] => reader'[c] \in {"closing", "done"}
  PROVE  HubConsistent'
<1>1. \A u : Clients(u)' = Clients(u) BY DEF Clients
<1>2. \A c \in Conns : Registered(c)' <=> Registered(c) BY <1>1 DEF Registered
<1>3. {c \in Conns : Registered(c)}' = {c \in Conns : Registered(c)} BY <1>2
<1>4. totalConnections' = Cardinality({c \in Conns : Registered(c)}')
  BY <1>3 DEF HubConsistent
<1>5. \A c \in Conns : Registered(c)' <=> (sock'[c] # "none" /\ ~closed'[c])
  BY <1>2 DEF HubConsistent, SocketsStay
<1> QED BY <1>4, <1>5 DEF HubConsistent, SocketsStay

(* A step that starts no call and visits no target.                        *)
LEMMA CallsUntouched ==
  ASSUME CallsConsistent, UNCHANGED <<call, visits, published>>, SocketsStay, TypeOK
  PROVE  CallsConsistent'
<1>1. UNCHANGED <<at, tried>> BY DEF visits
<1>2. \A t \in Threads : call[t].targets \in SUBSET Conns BY DEF TypeOK, Call
<1> QED BY <1>1, <1>2 DEF CallsConsistent, SocketsStay

(* What CallsConsistent says of a call and of where a publisher is in it.  *)
GoodCall(t, cl) ==
  /\ cl.step \notin {"idle", "close"} => t \in Callers /\ published[t] > 0
  /\ cl.step # "idle" => cl.user \in Users
  /\ \A c \in cl.targets : UserOf[c] = cl.user /\ sock[c] # "none"

GoodVisit(where, who, cl) ==
  /\ where # "loop" => cl.step \in Publishing
  /\ where \in {"full", "slow"} => who \in cl.targets

LEMMA CallsAre ==
  CallsConsistent
    <=> /\ \A t \in Threads : GoodCall(t, call[t])
        /\ \A p \in Callers : GoodVisit(at[p], tried[p], call[p])
BY DEF CallsConsistent, GoodCall, GoodVisit

LEMMA CallsAreNext ==
  ASSUME UNCHANGED published,
         \A c \in Conns : sock[c] # "none" => sock'[c] # "none",
         TypeOK,
         \A t \in Threads : \/ GoodCall(t, call'[t]) /\ call'[t].targets \in SUBSET Conns
                            \/ call'[t] = IdleCall,
         \A p \in Callers : GoodVisit(at'[p], tried'[p], call'[p])
  PROVE  CallsConsistent'
<1>1. IdleCall.step = "idle" /\ IdleCall.targets = {} BY DEF IdleCall
<1> QED BY <1>1 DEF CallsConsistent, GoodCall, GoodVisit

(* A step of a publisher or a closer in its call, which goes on with the   *)
(* same or fewer targets or returns; the others stay where they are.       *)
LEMMA CallsAdvance ==
  ASSUME CallsConsistent, TypeOK, NEW t \in Threads,
         NEW next \in Call, call' = [call EXCEPT ![t] = next],
         \/ next = IdleCall
         \/ /\ next.step = call[t].step /\ next.user = call[t].user
            /\ next.targets \subseteq call[t].targets,
         \A p \in Callers : p # t => at'[p] = at[p] /\ tried'[p] = tried[p],
         t \in Callers => GoodVisit(at'[t], tried'[t], next),
         UNCHANGED published, SocketsStay
  PROVE  CallsConsistent'
<1>1. \A s \in Threads : GoodCall(s, call[s]) /\ call[s].targets \in SUBSET Conns
  BY CallsAre DEF TypeOK, Call
<1>2. \A p \in Callers : GoodVisit(at[p], tried[p], call[p]) BY CallsAre
<1>3. \A s \in Threads : call'[s] = IF s = t THEN next ELSE call[s]
  BY DEF TypeOK
<1>4. next = IdleCall \/ (GoodCall(t, next) /\ next.targets \in SUBSET Conns)
  BY <1>1 DEF GoodCall
<1>5. \A s \in Threads : \/ GoodCall(s, call'[s]) /\ call'[s].targets \in SUBSET Conns
                         \/ call'[s] = IdleCall
  BY <1>1, <1>3, <1>4
<1>6. \A p \in Callers : GoodVisit(at'[p], tried'[p], call'[p])
  BY <1>2, <1>3 DEF Threads
<1> QED BY <1>5, <1>6, CallsAreNext DEF SocketsStay

(* A step that starts a call on the clients of a user.                     *)
LEMMA CallsStart ==
  ASSUME CallsConsistent, HubConsistent, TypeOK, NEW t \in Threads,
         NEW step \in Publishing \cup Closing, NEW u \in Users,
         call' = [call EXCEPT ![t] = Settled([step |-> step, user |-> u,
                                              targets |-> CopyClients(u)])],
         step # "close" => t \in Callers /\ published'[t] > 0,
         \A p \in Callers : published'[p] >= published[p],
         published' \in [Callers -> 0..MaxPublish],
         t \in Callers => at[t] = "loop",
         UNCHANGED <<sock, clientsByUser, at, tried>>
  PROVE  call' \in [Threads -> Call] /\ CallsConsistent'
<1> DEFINE next == [step |-> step, user |-> u, targets |-> CopyClients(u)]
<1>1. CopyClients(u) \in SUBSET Conns BY ClientsType DEF CopyClients
<1>2. next \in Call BY <1>1 DEF Call, Publishing, Closing
<1>3. call'[t] = IdleCall \/ call'[t] = next BY DEF Settled, TypeOK
<1>4. call' \in [Threads -> Call] BY <1>2, SettledType DEF TypeOK
<1>5. \A s \in Threads : s # t => call'[s] = call[s] BY DEF TypeOK
<1>6. IdleCall.step = "idle" /\ IdleCall.targets = {} BY DEF IdleCall
<1>7. \A d \in CopyClients(u) : UserOf[d] = u /\ sock[d] # "none"
  <2> SUFFICES ASSUME NEW d \in CopyClients(u)
               PROVE  UserOf[d] = u /\ sock[d] # "none"
    OBVIOUS
  <2>1. u \in DOMAIN clientsByUser /\ d \in clientsByUser[u]
    BY DEF CopyClients, Clients
  <2>2. UserOf[d] = u BY <2>1 DEF HubConsistent
  <2>3. d \in Conns /\ Registered(d) BY <1>1, <2>2 DEF Registered, CopyClients
  <2> QED BY <2>2, <2>3 DEF HubConsistent
<1>8. ASSUME NEW s \in Threads
      PROVE  /\ call'[s].step \notin {"idle", "close"}
                  => s \in Callers /\ published'[s] > 0
             /\ call'[s].step # "idle" => call'[s].user \in Users
             /\ \A d \in call'[s].targets :
                  UserOf[d] = call'[s].user /\ sock'[d] # "none"
  <2>1. CASE s # t
    <3>1. call[s].step \notin {"idle", "close"} => s \in Callers /\ published[s] > 0
      BY DEF CallsConsistent
    <3>2. s \in Callers => /\ published[s] \in 0..MaxPublish
                           /\ published'[s] \in 0..MaxPublish
                           /\ published'[s] >= published[s]
      BY DEF TypeOK
    <3>3. call[s].step \notin {"idle", "close"} => s \in Callers /\ published'[s] > 0
      BY <3>1, <3>2, HubAssumption
    <3> QED BY <1>5, <2>1, <3>3 DEF CallsConsistent
  <2>2. CASE s = t /\ call'[t] = IdleCall BY <1>6, <2>2
  <2>3. CASE s = t /\ call'[t] = next BY <1>7, <2>3
  <2> QED BY <1>3, <2>1, <2>2, <2>3
<1>9. ASSUME NEW p \in Callers
      PROVE  /\ at'[p] # "loop" => call'[p].step \in Publishing
             /\ at'[p] \in {"full", "slow"} => tried'[p] \in call'[p].targets
  <2>1. CASE p = t BY <2>1
  <2>2. CASE p # t BY <1>5, <2>2 DEF CallsConsistent, Threads
  <2> QED BY <2>1, <2>2
<1> QED BY <1>4, <1>8, <1>9 DEF CallsConsistent

-----------------------------------------------------------------------------
(* Each action preserves HubInv.                                           *)

(* The empty hub satisfies the invariant.                                  *)
LEMMA InitHubInv == ASSUME Init PROVE HubInv
<1>1. TypeOK
  <2>1. <<>> \in Seq(Message) OBVIOUS
  <2>2. IdleCall \in Call BY DEF IdleCall, Call
  <2>3. 0 \in 0..MaxPublish BY HubAssumption
  <2> QED BY <2>1, <2>2, <2>3 DEF Init, TypeOK
<1>2. \A c \in Conns : ~Registered(c) BY DEF Init, Registered, Clients
<1>3. {c \in Conns : Registered(c)} = {} BY <1>2
<1>4. HubConsistent
  BY <1>2, <1>3, FS_EmptySet DEF Init, HubConsistent
<1>5. CallsConsistent BY DEF Init, CallsConsistent, IdleCall
<1> QED BY <1>1, <1>4, <1>5 DEF HubInv

(* Register: a fresh channel, one more client in map and counter.          *)
LEMMA RegisterHubInv ==
  ASSUME HubInv, NEW c \in Conns, Register(c)
  PROVE  HubInv'
<1> USE DEF HubInv
<1>1. UserOf[c] \in Users /\ \A d \in Conns : UserOf[d] \in Users BY HubAssumption
<1>2. TypeOK'
  <2>1. /\ DOMAIN clientsByUser' \subseteq Users
        /\ clientsByUser' \in [DOMAIN clientsByUser' -> SUBSET Conns]
    BY AddClientEffect DEF Register
  <2> QED BY <2>1 DEF TypeOK, Register, visits
<1>3. ~Registered(c) BY DEF HubConsistent, Register
<1>4. \A d \in Conns : Registered(d)' <=> (Registered(d) \/ d = c)
  BY <1>1, AddClientEffect DEF Registered, Register
<1>5. totalConnections' = Cardinality({d \in Conns : Registered(d)}')
  <2> DEFINE R == {d \in Conns : Registered(d)}
  <2>1. R' = R \cup {c} BY <1>4
  <2>2. IsFiniteSet(R) BY HubAssumption, FS_Subset
  <2>3. Cardinality(R \cup {c}) = Cardinality(R) + 1
    BY <1>3, <2>2, FS_AddElement
  <2> QED BY <2>1, <2>3 DEF HubConsistent, Register
<1>6. \A u \in DOMAIN clientsByUser' :
        clientsByUser'[u] # {} /\ \A d \in clientsByUser'[u] : UserOf[d] = u
  BY <1>1 DEF Register, AddClient, Clients, HubConsistent, TypeOK
<1>7. \A d \in Conns : closed[d] => d # c BY DEF HubConsistent, Register
<1>8. HubConsistent'
  BY <1>4, <1>5, <1>6, <1>7 DEF HubConsistent, Register, TypeOK
<1>9. SocketsStay BY DEF SocketsStay, Register, TypeOK
<1>10. CallsConsistent' BY <1>9, CallsUntouched DEF Register, visits
<1> QED BY <1>2, <1>8, <1>10

(* readPump ends: Unregister takes the client out of map and counter.      *)
LEMMA ReadFailsHubInv ==
  ASSUME HubInv, NEW c \in Conns, ReadFails(c)
  PROVE  HubInv'
<1> USE DEF HubInv
<1>1. UserOf[c] \in Users /\ \A d \in Conns : UserOf[d] \in Users BY HubAssumption
<1>2. Registered(c) BY DEF HubConsistent, ReadFails
<1>3. /\ RemoveClient(c)
      /\ totalConnections' = totalConnections - 1
      /\ closed' = [closed EXCEPT ![c] = TRUE]
  BY <1>2 DEF ReadFails, Unregister
<1>4. TypeOK'
  <2>1. /\ DOMAIN clientsByUser' \subseteq Users
        /\ clientsByUser' \in [DOMAIN clientsByUser' -> SUBSET Conns]
    BY <1>3, RemoveClientEffect
  <2>2. totalConnections' \in Nat
    <3> DEFINE R == {d \in Conns : Registered(d)}
    <3>1. IsFiniteSet(R) /\ IsFiniteSet(R \ {c}) BY HubAssumption, FS_Subset
    <3>2. totalConnections' = Cardinality(R \ {c})
      BY <1>2, <1>3, <3>1, FS_RemoveElement DEF HubConsistent
    <3> QED BY <3>1, <3>2, FS_CardinalityType
  <2> QED BY <1>3, <2>1, <2>2 DEF TypeOK, ReadFails, visits
<1>5. \A d \in Conns : Registered(d)' <=> (Registered(d) /\ d # c)
  BY <1>1, <1>3, RemoveClientEffect DEF Registered
<1>6. totalConnections' = Cardinality({d \in Conns : Registered(d)}')
  <2> DEFINE R == {d \in Conns : Registered(d)}
  <2>1. R' = R \ {c} BY <1>5
  <2>2. IsFiniteSet(R) BY HubAssumption, FS_Subset
  <2>3. Cardinality(R \ {c}) = Cardinality(R) - 1
    BY <1>2, <2>2, FS_RemoveElement
  <2> QED BY <1>3, <2>1, <2>3 DEF HubConsistent
<1>7. \A u \in DOMAIN clientsByUser' :
        clientsByUser'[u] # {} /\ \A d \in clientsByUser'[u] : UserOf[d] = u
  BY <1>3 DEF RemoveClient, Clients, HubConsistent, TypeOK
<1>8. HubConsistent'
  BY <1>3, <1>5, <1>6, <1>7 DEF HubConsistent, ReadFails, TypeOK
<1>9. SocketsStay BY DEF SocketsStay, ReadFails
<1>10. CallsConsistent' BY <1>9, CallsUntouched DEF ReadFails, visits
<1> QED BY <1>4, <1>8, <1>10

(* The steps of the pumps and of the network.                              *)
LEMMA PumpHubInv ==
  ASSUME HubInv, NEW c \in Conns,
         \/ StartPumps(c) \/ PeerLost(c) \/ ReaderExits(c) \/ TakeFrame(c)
         \/ WriteFrame(c) \/ WriteFails(c) \/ IncrementWriteError(c)
         \/ QueueClosed(c) \/ WriterExits(c)
  PROVE  HubInv'
<1> USE DEF HubInv
<1>1. UNCHANGED <<clientsByUser, totalConnections, closed, call, visits, published>>
  BY DEF StartPumps, PeerLost, ReaderExits, TakeFrame, WriteFrame, WriteFails,
         IncrementWriteError, QueueClosed, WriterExits, connVars
<1> DEFINE Sock(v)   == sock' = [sock EXCEPT ![c] = v]
           Reader(v) == reader' = [reader EXCEPT ![c] = v]
           Writer(v) == writer' = [writer EXCEPT ![c] = v]
<1>s. sock[c] # "none"
  BY DEF StartPumps, PeerLost, ReaderExits, TakeFrame, WriteFrame, WriteFails,
         IncrementWriteError, QueueClosed, WriterExits, AtSelect, HubConsistent
<1>k. sock' = sock \/ Sock("lost") \/ Sock("closed")
  BY DEF StartPumps, PeerLost, ReaderExits, TakeFrame, WriteFrame, WriteFails,
         IncrementWriteError, QueueClosed, WriterExits, CloseSocket, connVars
<1>r. reader' = reader \/ Reader("done") \/ (Reader("reading") /\ reader[c] = "starting")
  BY DEF StartPumps, PeerLost, ReaderExits, TakeFrame, WriteFrame, WriteFails,
         IncrementWriteError, QueueClosed, WriterExits, connVars
<1>w. writer' = writer \/ Writer("failed") \/ Writer("closing") \/ Writer("done")
        \/ Writer("writing")
  BY DEF StartPumps, PeerLost, ReaderExits, TakeFrame, WriteFrame, WriteFails,
         IncrementWriteError, QueueClosed, WriterExits, connVars
<1>2. /\ SocketsStay
      /\ \A d \in Conns : sock[d] = "none" =>
           sock'[d] = "none" /\ reader'[d] = "none" /\ writer'[d] = "none"
      /\ \A d \in Conns : closed[d] => reader'[d] \in {"closing", "done"}
  <2>1. SocketsStay BY <1>s, <1>k DEF SocketsStay, TypeOK
  <2>2. \A d \in Conns : sock[d] = "none" => d # c BY <1>s
  <2>3. \A d \in Conns : sock[d] = "none" => sock'[d] = "none"
    BY <2>2, <1>k DEF TypeOK
  <2>4. \A d \in Conns : sock[d] = "none" => reader'[d] = "none"
    BY <2>2, <1>r DEF TypeOK, HubConsistent
  <2>5. \A d \in Conns : sock[d] = "none" => writer'[d] = "none"
    BY <2>2, <1>w DEF TypeOK, HubConsistent
  <2>6. \A d \in Conns : closed[d] => reader'[d] \in {"closing", "done"}
    BY <1>r DEF TypeOK, HubConsistent
  <2> QED BY <2>1, <2>3, <2>4, <2>5, <2>6
<1>3. HubConsistent' BY <1>1, <1>2, HubUntouched
<1>4. CallsConsistent' BY <1>1, <1>2, CallsUntouched
<1>5. /\ sock' \in [Conns -> {"none", "open", "lost", "closed"}]
      /\ reader' \in [Conns -> {"none", "starting", "reading", "closing", "done"}]
      /\ writer' \in [Conns -> {"none", "writing", "failed", "closing", "done"}]
  <2>1. sock' \in [Conns -> {"none", "open", "lost", "closed"}]
    BY <1>k DEF TypeOK
  <2>r. reader \in [Conns -> {"none", "starting", "reading", "closing", "done"}]
    BY DEF TypeOK
  <2>2. reader' \in [Conns -> {"none", "starting", "reading", "closing", "done"}]
    BY <1>r, <2>r
  <2>3. writer' \in [Conns -> {"none", "writing", "failed", "closing", "done"}]
    BY <1>w DEF TypeOK
  <2> QED BY <2>1, <2>2, <2>3
<1>6. /\ queue' \in [Conns -> Seq(Message)] /\ received' \in [Conns -> Seq(Message)]
      /\ hand' \in [Conns -> Seq(Message)] /\ \A d \in Conns : Len(hand'[d]) <= 1
  <2> DEFINE q == queue[c]
             h == hand[c]
             r == received[c]
  <2>1. q \in Seq(Message) /\ h \in Seq(Message) /\ r \in Seq(Message) BY DEF TypeOK
  <2>2. r \o h \in Seq(Message) /\ <<>> \in Seq(Message) /\ Len(<<>>) = 0
    BY <2>1, ConcatProperties
  <2>3. CASE TakeFrame(c)
    <3>1. q # <<>> /\ hand' = [hand EXCEPT ![c] = <<Head(q)>>]
          /\ queue' = [queue EXCEPT ![c] = Tail(q)] /\ received' = received
      BY <2>3 DEF TakeFrame
    <3>2. Tail(q) \in Seq(Message) /\ Head(q) \in Message
      BY <2>1, <3>1, HeadTailProperties
    <3>3. <<Head(q)>> \in Seq(Message) /\ Len(<<Head(q)>>) = 1 BY <3>2
    <3> HIDE DEF q
    <3> QED BY <3>1, <3>2, <3>3 DEF TypeOK
  <2>4. CASE WriteFrame(c)
    <3>1. received' = [received EXCEPT ![c] = r \o h] /\ queue' = queue
          /\ hand' = [hand EXCEPT ![c] = <<>>]
      BY <2>4 DEF WriteFrame
    <3> HIDE DEF r, h
    <3> QED BY <2>2, <3>1 DEF TypeOK
  <2>5. CASE WriteFails(c)
    <3>1. received' = received /\ queue' = queue /\ hand' = [hand EXCEPT ![c] = <<>>]
      BY <2>5 DEF WriteFails
    <3> QED BY <2>2, <3>1 DEF TypeOK
  <2>6. CASE UNCHANGED <<queue, hand, received>> BY <2>6 DEF TypeOK
  <2> QED BY <2>3, <2>4, <2>5, <2>6
       DEF StartPumps, PeerLost, ReaderExits, IncrementWriteError, QueueClosed, WriterExits
<1>7. stats' \in [messagesSent : Nat, droppedByBackpress : Nat, writeErrors : Nat]
  <2>1. stats' = stats \/ stats' = [stats EXCEPT !.writeErrors = @ + 1]
    BY DEF StartPumps, PeerLost, ReaderExits, TakeFrame, WriteFrame, WriteFails,
         IncrementWriteError, QueueClosed, WriterExits, connVars
  <2>2. stats \in [messagesSent : Nat, droppedByBackpress : Nat, writeErrors : Nat]
    BY DEF TypeOK
  <2> QED BY <2>1, <2>2
<1>8. alive' = alive
  BY DEF StartPumps, PeerLost, ReaderExits, TakeFrame, WriteFrame, WriteFails,
         IncrementWriteError, QueueClosed, WriterExits
<1>9. TypeOK' BY <1>1, <1>5, <1>6, <1>7, <1>8 DEF TypeOK, visits
<1> QED BY <1>3, <1>4, <1>9

(* A publication puts a frame on the channel of a target.                  *)
LEMMA SendFrameHubInv ==
  ASSUME HubInv, NEW p \in Callers, NEW c \in Conns, SendFrame(p, c)
  PROVE  HubInv'
<1> USE DEF HubInv
<1>1. p \in Threads BY DEF Threads
<1>2. UNCHANGED <<clientsByUser, totalConnections, stats, hand, closed, sock, reader,
                  writer, tried, published, received, alive>>
  BY DEF SendFrame, connVars
<1>3. SocketsStay BY <1>2 DEF SocketsStay
<1>4. HubConsistent' BY <1>2, <1>3, HubUntouched DEF HubConsistent
<1>5. /\ call' = [call EXCEPT ![p] = Without(p, c)]
      /\ at' = [at EXCEPT ![p] = "sent"]
      /\ call[p].step \in Publishing
  BY DEF SendFrame, Visits
<1>6. /\ Without(p, c) \in Call
      /\ Without(p, c).step = call[p].step /\ Without(p, c).user = call[p].user
      /\ Without(p, c).targets \subseteq call[p].targets
  BY <1>1, WithoutType
<1>7. at' \in [Callers -> {"loop", "sent", "full", "slow"}] /\ at'[p] = "sent"
      /\ \A q \in Callers : q # p => at'[q] = at[q] /\ tried'[q] = tried[q]
  BY <1>2, <1>5 DEF TypeOK
<1>8. GoodVisit(at'[p], tried'[p], Without(p, c)) BY <1>5, <1>6, <1>7 DEF GoodVisit
<1>9. CallsConsistent'
  BY <1>1, <1>2, <1>3, <1>5, <1>6, <1>7, <1>8, CallsAdvance
<1>10. call' \in [Threads -> Call] BY <1>5, <1>6 DEF TypeOK
<1>11. queue' \in [Conns -> Seq(Message)]
  <2>1. MessageOf(p) \in Message BY <1>5, MessageType
  <2>2. queue[c] \in Seq(Message) BY DEF TypeOK
  <2>3. Append(queue[c], MessageOf(p)) \in Seq(Message) BY <2>1, <2>2
  <2> QED BY <2>3 DEF SendFrame, Enqueue, TypeOK
<1>12. TypeOK' BY <1>2, <1>7, <1>10, <1>11 DEF TypeOK
<1> QED BY <1>4, <1>9, <1>12

(* A publisher counts what became of the frame it sent or could not send.  *)
LEMMA CountHubInv ==
  ASSUME HubInv, NEW p \in Callers,
         \/ CountSent(p) \/ CountDropped(p) \/ \E c \in Conns : FindFull(p, c)
  PROVE  HubInv'
<1> USE DEF HubInv
<1>1. p \in Threads /\ call[p] \in Call BY DEF Threads, TypeOK
<1>2. UNCHANGED <<clientsByUser, totalConnections, queue, hand, closed, sock, reader,
                  writer, published, received, alive>>
  BY DEF CountSent, CountDropped, FindFull, connVars
<1>3. SocketsStay BY <1>2 DEF SocketsStay
<1>4. HubConsistent' BY <1>2, <1>3, HubUntouched DEF HubConsistent
<1>5. PICK next \in {call[p], Settled(call[p])} : call' = [call EXCEPT ![p] = next]
  BY DEF CountSent, CountDropped, FindFull, TypeOK
<1>6. /\ next \in Call
      /\ \/ next = IdleCall
         \/ next.step = call[p].step /\ next.user = call[p].user
            /\ next.targets \subseteq call[p].targets
  BY <1>1, SettledType DEF Settled
<1>7. /\ at' \in [Callers -> {"loop", "sent", "full", "slow"}]
      /\ tried' \in [Callers -> Conns \cup {NoConn}]
      /\ \A q \in Callers : q # p => at'[q] = at[q] /\ tried'[q] = tried[q]
  <2>1. /\ at \in [Callers -> {"loop", "sent", "full", "slow"}]
        /\ tried \in [Callers -> Conns \cup {NoConn}]
    BY DEF TypeOK
  <2>2. \E v \in {"loop", "full", "slow"} : at' = [at EXCEPT ![p] = v]
    BY DEF CountSent, CountDropped, FindFull
  <2>3. tried' = tried \/ \E c \in Conns : tried' = [tried EXCEPT ![p] = c]
    BY DEF CountSent, CountDropped, FindFull
  <2> QED BY <2>1, <2>2, <2>3
<1>8. GoodVisit(at'[p], tried'[p], call'[p])
  <2>1. CASE CountSent(p)
    <3>1. at'[p] = "loop" BY <2>1 DEF CountSent, TypeOK
    <3> QED BY <3>1 DEF GoodVisit
  <2>2. CASE CountDropped(p)
    <3>1. at[p] = "full" /\ call' = call /\ tried' = tried BY <2>2 DEF CountDropped
    <3> QED BY <3>1 DEF GoodVisit, CallsConsistent
  <2>3. ASSUME NEW c \in Conns, FindFull(p, c) PROVE GoodVisit(at'[p], tried'[p], call'[p])
    <3>1. /\ at'[p] = "full" /\ tried'[p] = c /\ call' = call
          /\ c \in call[p].targets /\ call[p].step \in Publishing
      BY <2>3 DEF FindFull, Visits, TypeOK
    <3> QED BY <3>1 DEF GoodVisit
  <2> QED BY <2>1, <2>2, <2>3
<1>9. call'[p] = next /\ call' \in [Threads -> Call] BY <1>1, <1>5, <1>6 DEF TypeOK
<1>10. CallsConsistent'
  BY <1>1, <1>2, <1>3, <1>5, <1>6, <1>7, <1>8, <1>9, CallsAdvance
<1>11. stats' \in [messagesSent : Nat, droppedByBackpress : Nat, writeErrors : Nat]
  <2>1. \/ stats' = stats
        \/ stats' = [stats EXCEPT !.messagesSent = @ + 1]
        \/ stats' = [stats EXCEPT !.droppedByBackpress = @ + 1]
    BY DEF CountSent, CountDropped, FindFull
  <2>2. stats \in [messagesSent : Nat, droppedByBackpress : Nat, writeErrors : Nat]
    BY DEF TypeOK
  <2> QED BY <2>1, <2>2
<1>12. TypeOK' BY <1>2, <1>7, <1>9, <1>11 DEF TypeOK
<1> QED BY <1>4, <1>10, <1>12

(* A target is closed, as slow or because its session ended.               *)
LEMMA CloseHubInv ==
  ASSUME HubInv, NEW t \in Threads, NEW c \in Conns,
         \/ t \in Callers /\ DropSlow(t, c)
         \/ CloseTarget(t, c)
  PROVE  HubInv'
<1> USE DEF HubInv
<1>1. UNCHANGED <<clientsByUser, totalConnections, stats, queue, hand, closed, reader,
                  writer, published, received, alive>>
  BY DEF DropSlow, CloseTarget
<1>a. /\ at' \in [Callers -> {"loop", "sent", "full", "slow"}]
      /\ tried' \in [Callers -> Conns \cup {NoConn}]
      /\ \A q \in Callers : q # t => at'[q] = at[q] /\ tried'[q] = tried[q]
      /\ t \in Callers => at'[t] = "loop"
  <2>1. CASE t \in Callers /\ DropSlow(t, c) BY <2>1 DEF DropSlow, TypeOK
  <2>2. CASE CloseTarget(t, c)
    <3>1. UNCHANGED <<at, tried>> /\ call[t].step \notin Publishing
      BY <2>2 DEF CloseTarget, Closing, Publishing, visits
    <3>2. t \in Callers => at[t] = "loop" BY <3>1 DEF CallsConsistent
    <3> QED BY <3>1, <3>2 DEF TypeOK
  <2> QED BY <2>1, <2>2
<1>2. c \in call[t].targets /\ sock[c] # "none"
  BY DEF DropSlow, CloseTarget, CallsConsistent
<1>3. sock' = [sock EXCEPT ![c] = "closed"] /\ TargetDone(t, c)
  BY DEF DropSlow, CloseTarget
<1>4. SocketsStay BY <1>3 DEF SocketsStay, TypeOK
<1>5. \A d \in Conns : sock[d] = "none" => sock'[d] = "none" BY <1>2, <1>3 DEF TypeOK
<1>6. HubConsistent' BY <1>1, <1>4, <1>5, HubUntouched DEF HubConsistent
<1>7. CallsConsistent'
  <2> DEFINE next == Settled(Without(t, c))
  <2>1. /\ next \in Call /\ call' = [call EXCEPT ![t] = next]
        /\ \/ next = IdleCall
           \/ next.step = call[t].step /\ next.user = call[t].user
              /\ next.targets \subseteq call[t].targets
    BY <1>3, WithoutType, SettledType DEF Settled, TargetDone
  <2>2. t \in Callers => GoodVisit(at'[t], tried'[t], next) BY <1>a DEF GoodVisit
  <2> HIDE DEF next
  <2> QED BY <1>1, <1>4, <1>a, <2>1, <2>2, CallsAdvance
<1>8. call' \in [Threads -> Call] BY <1>3, TargetDoneType
<1>10. sock' \in [Conns -> {"none", "open", "lost", "closed"}] BY <1>3 DEF TypeOK
<1>11. TypeOK' BY <1>1, <1>8, <1>a, <1>10 DEF TypeOK
<1> QED BY <1>6, <1>7, <1>11

(* A call begins: a publication, the close after it, or an idle close.     *)
LEMMA StartHubInv ==
  ASSUME HubInv, NEW t \in Threads,
         \/ t \in Callers /\ \E u \in Users, step \in Publishing : PublishToUser(t, u, step)
         \/ t \in Callers /\ CloseAfterFinal(t)
         \/ t \in Conns /\ IdleTimeout(t) /\ call' # call
  PROVE  HubInv'
<1> USE DEF HubInv
<1>1. UNCHANGED <<clientsByUser, totalConnections, stats, queue, hand, closed, sock,
                  reader, at, tried, received, alive>>
  BY DEF PublishToUser, CloseAfterFinal, IdleTimeout, connVars, visits
<1>2. writer' = writer \/ (t \in Conns /\ writer[t] = "writing"
                            /\ writer' = [writer EXCEPT ![t] = "closing"])
  BY DEF PublishToUser, CloseAfterFinal, IdleTimeout, connVars, AtSelect
<1>a. t \in Callers => at[t] = "loop"
  <2>1. call[t] = IdleCall => call[t].step \notin Publishing BY DEF IdleCall, Publishing
  <2>2. t \notin Callers \/ call[t] = IdleCall \/ at[t] = "loop"
    BY HubAssumption DEF PublishToUser, CloseAfterFinal
  <2> QED BY <2>1, <2>2 DEF CallsConsistent
<1>3. /\ \A d \in Conns : sock[d] = "none" => writer'[d] = "none"
      /\ writer' \in [Conns -> {"none", "writing", "failed", "closing", "done"}]
  <2>1. writer \in [Conns -> {"none", "writing", "failed", "closing", "done"}]
        /\ \A d \in Conns : sock[d] = "none" => writer[d] = "none"
    BY DEF HubConsistent, TypeOK
  <2>2. CASE writer' = writer BY <2>1, <2>2
  <2>3. CASE t \in Conns /\ writer[t] = "writing" /\ writer' = [writer EXCEPT ![t] = "closing"]
    BY <2>1, <2>3
  <2> QED BY <1>2, <2>2, <2>3
<1>4. HubConsistent' BY <1>1, <1>3, HubUntouched DEF HubConsistent, SocketsStay
<1>5. call' \in [Threads -> Call] /\ CallsConsistent' /\ published' \in [Callers -> 0..MaxPublish]
  <2>1. ASSUME t \in Callers, NEW u \in Users, NEW step \in Publishing,
               PublishToUser(t, u, step)
        PROVE  call' \in [Threads -> Call] /\ CallsConsistent'
               /\ published' \in [Callers -> 0..MaxPublish]
    <3>1. /\ published \in [Callers -> 0..MaxPublish] /\ published[t] < MaxPublish
          /\ published' = [published EXCEPT ![t] = @ + 1]
      BY <2>1 DEF TypeOK, PublishToUser
    <3>2. published' \in [Callers -> 0..MaxPublish]
      BY <2>1, <3>1, HubAssumption
    <3>3. published'[t] > 0 /\ \A p \in Callers : published'[p] >= published[p]
      BY <2>1, <3>1, HubAssumption
    <3>4. step \in Publishing \cup Closing OBVIOUS
    <3>5. call' = [call EXCEPT ![t] = Settled([step |-> step, user |-> u,
                                               targets |-> CopyClients(u)])]
      BY <2>1 DEF PublishToUser
    <3> QED BY <1>1, <1>a, <2>1, <3>2, <3>3, <3>4, <3>5, CallsStart
  <2>2. ASSUME t \in Callers, CloseAfterFinal(t)
        PROVE  call' \in [Threads -> Call] /\ CallsConsistent'
               /\ published' \in [Callers -> 0..MaxPublish]
    <3> DEFINE u == call[t].user
               step == "finalClose"
    <3>1. u \in Users /\ published[t] > 0
      BY <2>2 DEF CallsConsistent, CloseAfterFinal
    <3>2. published' = published /\ published \in [Callers -> 0..MaxPublish]
      BY <2>2 DEF TypeOK, CloseAfterFinal
    <3>3. \A p \in Callers : published'[p] >= published[p]
      BY <3>2, HubAssumption
    <3>4. step \in Publishing \cup Closing BY DEF Closing
    <3>5. call' = [call EXCEPT ![t] = Settled([step |-> step, user |-> u,
                                               targets |-> CopyClients(u)])]
      BY <2>2 DEF CloseAfterFinal
    <3> HIDE DEF u, step
    <3> QED BY <1>1, <1>a, <2>2, <3>1, <3>2, <3>3, <3>4, <3>5, CallsStart
  <2>3. ASSUME t \in Conns, IdleTimeout(t), call' # call
        PROVE  call' \in [Threads -> Call] /\ CallsConsistent'
               /\ published' \in [Callers -> 0..MaxPublish]
    <3>1. UserOf[t] \in Users BY <2>3, HubAssumption
    <3>2. published' = published /\ published \in [Callers -> 0..MaxPublish]
      BY <2>3 DEF TypeOK, IdleTimeout
    <3>3. \A p \in Callers : published'[p] >= published[p]
      BY <3>2, HubAssumption
    <3>4. "close" \in Publishing \cup Closing BY DEF Closing
    <3>5. call' = [call EXCEPT ![t] = Settled([step |-> "close", user |-> UserOf[t],
                                               targets |-> CopyClients(UserOf[t])])]
      BY <2>3 DEF IdleTimeout
    <3> QED BY <1>1, <1>a, <3>1, <3>2, <3>3, <3>4, <3>5, CallsStart
  <2> QED BY <2>1, <2>2, <2>3
<1>6. TypeOK' BY <1>1, <1>3, <1>5 DEF TypeOK
<1> QED BY <1>4, <1>5, <1>6

(* The other steps: a panic, and an idle connection of a fresh session.    *)
LEMMA OtherHubInv ==
  ASSUME HubInv,
         \/ \E p \in Callers, c \in Conns : SendOnClosed(p, c)
         \/ \E c \in Conns : IdleTimeout(c) /\ UNCHANGED call
         \/ UNCHANGED vars
  PROVE  HubInv'
<1> USE DEF HubInv
<1>1. UNCHANGED <<clientsByUser, totalConnections, stats, queue, hand, closed, sock,
                  reader, at, tried, published, received>>
  BY DEF SendOnClosed, IdleTimeout, vars, connVars, visits
<1>2. \/ writer' = writer
      \/ \E c \in Conns : writer[c] = "writing" /\ writer' = [writer EXCEPT ![c] = "closing"]
  BY DEF SendOnClosed, IdleTimeout, vars, connVars, AtSelect
<1>3. /\ \A d \in Conns : sock[d] = "none" => writer'[d] = "none"
      /\ writer' \in [Conns -> {"none", "writing", "failed", "closing", "done"}]
  <2>1. writer \in [Conns -> {"none", "writing", "failed", "closing", "done"}]
        /\ \A d \in Conns : sock[d] = "none" => writer[d] = "none"
    BY DEF HubConsistent, TypeOK
  <2>2. ASSUME NEW c \in Conns, writer[c] = "writing",
               writer' = [writer EXCEPT ![c] = "closing"]
        PROVE  /\ \A d \in Conns : sock[d] = "none" => writer'[d] = "none"
               /\ writer' \in [Conns -> {"none", "writing", "failed", "closing", "done"}]
    BY <2>1, <2>2
  <2> QED BY <1>2, <2>1, <2>2
<1>4. HubConsistent' BY <1>1, <1>3, HubUntouched DEF HubConsistent, SocketsStay
<1>5. call' = call \/ \E p \in Callers : at[p] = "loop" /\ call' = [call EXCEPT ![p] = IdleCall]
  BY DEF SendOnClosed, Visits, IdleTimeout, vars
<1>6. IdleCall \in Call /\ IdleCall.step = "idle" /\ IdleCall.targets = {}
  BY DEF IdleCall, Call
<1>7. call' \in [Threads -> Call] BY <1>5, <1>6 DEF TypeOK
<1>8. CallsConsistent'
  <2>1. \A t \in Threads : call'[t] = call[t] \/ call'[t] = IdleCall BY <1>5 DEF TypeOK
  <2>2. \A p \in Callers : call'[p] = call[p] \/ at[p] = "loop" BY <1>5 DEF TypeOK, Threads
  <2>3. \A p \in Callers : /\ at'[p] # "loop" => call'[p].step \in Publishing
                           /\ at'[p] \in {"full", "slow"} => tried'[p] \in call'[p].targets
    BY <1>1, <2>2 DEF CallsConsistent
  <2>4. \A t \in Threads :
          /\ call'[t].step \notin {"idle", "close"} => t \in Callers /\ published'[t] > 0
          /\ call'[t].step # "idle" => call'[t].user \in Users
          /\ \A d \in call'[t].targets : UserOf[d] = call'[t].user /\ sock'[d] # "none"
    BY <1>1, <1>6, <2>1 DEF CallsConsistent
  <2> QED BY <2>3, <2>4 DEF CallsConsistent
<1>9. alive' \in BOOLEAN BY DEF SendOnClosed, IdleTimeout, vars, TypeOK
<1>10. TypeOK' BY <1>1, <1>3, <1>7, <1>9 DEF TypeOK
<1> QED BY <1>4, <1>8, <1>10

(* Every step of the hub keeps the invariant.                              *)
LEMMA NextHubInv == ASSUME HubInv, [Next]_vars PROVE HubInv'
<1>1. ASSUME NEW c \in Conns, Register(c) PROVE HubInv' BY <1>1, RegisterHubInv
<1>2. ASSUME NEW c \in Conns, ReadFails(c) PROVE HubInv' BY <1>2, ReadFailsHubInv
<1>3. ASSUME NEW c \in Conns,
             \/ StartPumps(c) \/ PeerLost(c) \/ ReaderExits(c) \/ TakeFrame(c)
             \/ WriteFrame(c) \/ WriteFails(c) \/ IncrementWriteError(c)
             \/ QueueClosed(c) \/ WriterExits(c)
      PROVE  HubInv'
  BY <1>3, PumpHubInv
<1>4. ASSUME NEW p \in Callers, NEW c \in Conns, SendFrame(p, c)
      PROVE  HubInv'
  BY <1>4, SendFrameHubInv
<1>5. Callers \subseteq Threads /\ Conns \subseteq Threads BY DEF Threads
<1>6. ASSUME NEW p \in Callers, NEW c \in Conns, DropSlow(p, c)
      PROVE  HubInv'
  BY <1>5, <1>6, CloseHubInv
<1>7. ASSUME NEW t \in Threads, NEW c \in Conns, CloseTarget(t, c)
      PROVE  HubInv'
  BY <1>7, CloseHubInv
<1>8. ASSUME NEW p \in Callers, NEW u \in Users, NEW step \in Publishing,
             PublishToUser(p, u, step)
      PROVE  HubInv'
  BY <1>5, <1>8, StartHubInv
<1>9. ASSUME NEW p \in Callers, CloseAfterFinal(p) PROVE HubInv'
  BY <1>5, <1>9, StartHubInv
<1>10. ASSUME NEW c \in Conns, IdleTimeout(c) PROVE HubInv'
  BY <1>5, <1>10, StartHubInv, OtherHubInv
<1>11. ASSUME NEW p \in Callers, NEW c \in Conns, SendOnClosed(p, c)
       PROVE  HubInv'
  BY <1>11, OtherHubInv
<1>12. ASSUME NEW p \in Callers,
              \/ CountSent(p) \/ CountDropped(p) \/ \E c \in Conns : FindFull(p, c)
       PROVE  HubInv'
  BY <1>12, CountHubInv
<1>13. CASE UNCHANGED vars BY <1>13, OtherHubInv
<1> QED
  BY <1>1, <1>2, <1>3, <1>4, <1>6, <1>7, <1>8, <1>9, <1>10, <1>11, <1>12, <1>13
  DEF Next, ReaderStep, WriterStep, PublishStep, CallStep

-----------------------------------------------------------------------------
(* Type correctness.                                                       *)
THEOREM TypeCorrect == Spec => []TypeOK
<1>1. Init => HubInv BY InitHubInv
<1>2. HubInv /\ [Next]_vars => HubInv' BY NextHubInv
<1>3. HubInv => TypeOK BY DEF HubInv
<1> QED BY <1>1, <1>2, <1>3, PTL DEF Spec

(* The map, the counter, the channels and the sockets of the hub agree,    *)
(* for any number of connections and publishers (Register, Unregister).    *)
THEOREM HubAlwaysConsistent == Spec => []HubConsistent
<1>1. Init => HubInv BY InitHubInv
<1>2. HubInv /\ [Next]_vars => HubInv' BY NextHubInv
<1>3. HubInv => HubConsistent BY DEF HubInv
<1> QED BY <1>1, <1>2, <1>3, PTL DEF Spec

-----------------------------------------------------------------------------
(* The frames of a connection: isolation and order.                        *)

(* Indices of a concatenation, and what queueing, writing and losing a     *)
(* frame do to them.                                                       *)
LEMMA FramesQueued ==
  ASSUME NEW S, NEW r \in Seq(S), NEW q \in Seq(S), NEW m \in S
  PROVE  /\ Len(r \o Append(q, m)) = Len(r \o q) + 1
         /\ \A i \in 1..Len(r \o q) : (r \o Append(q, m))[i] = (r \o q)[i]
         /\ (r \o Append(q, m))[Len(r \o q) + 1] = m
<1>1. Append(q, m) \in Seq(S) /\ Len(Append(q, m)) = Len(q) + 1
  BY AppendProperties
<1>2. /\ r \o Append(q, m) \in Seq(S)
      /\ Len(r \o Append(q, m)) = Len(r) + Len(q) + 1
      /\ \A i \in 1..(Len(r) + Len(q) + 1) : (r \o Append(q, m))[i] =
           IF i <= Len(r) THEN r[i] ELSE Append(q, m)[i - Len(r)]
  BY <1>1, ConcatProperties
<1>3. Len(r \o q) = Len(r) + Len(q) /\ Len(r) \in Nat /\ Len(q) \in Nat
  BY ConcatProperties
<1>4. ASSUME NEW i \in 1..Len(r \o q) PROVE (r \o Append(q, m))[i] = (r \o q)[i]
  <2>1. (r \o q)[i] = IF i <= Len(r) THEN r[i] ELSE q[i - Len(r)]
    BY <1>3, ConcatProperties
  <2>2. i > Len(r) => i - Len(r) \in 1..Len(q) BY <1>3
  <2>3. i > Len(r) => Append(q, m)[i - Len(r)] = q[i - Len(r)]
    BY <2>2, AppendProperties
  <2> QED BY <1>2, <1>3, <2>1, <2>3
<1>5. (r \o Append(q, m))[Len(r) + Len(q) + 1] = Append(q, m)[Len(q) + 1]
  BY <1>2, <1>3
<1> QED BY <1>2, <1>3, <1>4, <1>5, AppendProperties

(* A frame that writePump takes moves from the channel to its hand.        *)
LEMMA FramesTaken ==
  ASSUME NEW S, NEW r \in Seq(S), NEW q \in Seq(S), q # <<>>
  PROVE  /\ Len((r \o <<Head(q)>>) \o Tail(q)) = Len((r \o <<>>) \o q)
         /\ \A i \in 1..Len((r \o <<>>) \o q) :
              ((r \o <<Head(q)>>) \o Tail(q))[i] = ((r \o <<>>) \o q)[i]
<1> DEFINE h == <<Head(q)>>
           a == r \o h
           t == Tail(q)
<1>e. r \o <<>> = r BY ConcatEmptySeq
<1>1. /\ Head(q) \in S /\ t \in Seq(S) /\ Len(t) = Len(q) - 1
      /\ \A i \in 1..Len(t) : t[i] = q[i + 1]
      /\ Head(q) = q[1] /\ Len(q) >= 1
  BY HeadTailProperties
<1>h. h \in Seq(S) /\ Len(h) = 1 /\ h[1] = Head(q) BY <1>1
<1>r. Len(r) \in Nat /\ Len(q) \in Nat BY LenProperties
<1> HIDE DEF h
<1>a. /\ a \in Seq(S) /\ Len(a) = Len(r) + Len(h)
      /\ \A i \in 1..(Len(r) + Len(h)) : a[i] =
           IF i <= Len(r) THEN r[i] ELSE h[i - Len(r)]
  BY <1>h, ConcatProperties
<1>2. /\ a \in Seq(S) /\ Len(a) = Len(r) + 1
      /\ \A i \in 1..Len(r) : a[i] = r[i]
      /\ a[Len(r) + 1] = Head(q)
  <2> HIDE DEF a
  <2> QED BY <1>a, <1>h, <1>r
<1> HIDE DEF a, t
<1>3. /\ Len(a \o t) = Len(a) + Len(t)
      /\ \A i \in 1..(Len(a) + Len(t)) : (a \o t)[i] =
           IF i <= Len(a) THEN a[i] ELSE t[i - Len(a)]
  BY <1>1, <1>2, ConcatProperties
<1>4. /\ Len(r \o q) = Len(r) + Len(q)
      /\ \A i \in 1..(Len(r) + Len(q)) : (r \o q)[i] =
           IF i <= Len(r) THEN r[i] ELSE q[i - Len(r)]
  BY ConcatProperties
<1>5. ASSUME NEW i \in 1..Len(r \o q) PROVE (a \o t)[i] = (r \o q)[i]
  <2>1. CASE i <= Len(r) BY <1>1, <1>2, <1>3, <1>4, <1>r, <2>1
  <2>2. CASE i = Len(r) + 1 BY <1>1, <1>2, <1>3, <1>4, <1>r, <2>2
  <2>3. CASE i > Len(r) + 1
    <3>1. i - Len(a) \in 1..Len(t) BY <1>1, <1>2, <1>4, <1>r, <2>3
    <3>2. t[i - Len(a)] = q[i - Len(a) + 1] BY <1>1, <3>1
    <3> QED BY <1>1, <1>2, <1>3, <1>4, <1>r, <2>3, <3>2
  <2>4. i <= Len(r) \/ i = Len(r) + 1 \/ i > Len(r) + 1 BY <1>r, <1>4
  <2> QED BY <2>1, <2>2, <2>3, <2>4, Zenon
<1>6. Len(a \o t) = Len(r \o q) BY <1>1, <1>2, <1>3, <1>4, <1>r
<1> QED BY <1>e, <1>5, <1>6 DEF a, t, h

(* Where the i-th frame that is left was before one was lost.              *)
Before(i, lost) == IF i <= lost THEN i ELSE i + 1

(* A frame lost leaves the others in their order.                          *)
LosesFrame(r, h, q) ==
  /\ Len((r \o <<>>) \o q) = Len((r \o h) \o q) - 1
  /\ \A i \in 1..Len((r \o <<>>) \o q) : ((r \o <<>>) \o q)[i] =
       ((r \o h) \o q)[Before(i, Len(r))]

LEMMA FramesLost ==
  ASSUME NEW S, NEW r \in Seq(S), NEW h \in Seq(S), NEW q \in Seq(S), Len(h) = 1
  PROVE  LosesFrame(r, h, q)
<1> DEFINE a == r \o h
<1>e. r \o <<>> = r BY ConcatEmptySeq
<1>r. Len(r) \in Nat /\ Len(q) \in Nat BY LenProperties
<1>1. /\ a \in Seq(S) /\ Len(a) = Len(r) + Len(h)
      /\ \A i \in 1..(Len(r) + Len(h)) : a[i] =
           IF i <= Len(r) THEN r[i] ELSE h[i - Len(r)]
  BY ConcatProperties
<1>a. a \in Seq(S) BY <1>1
<1> HIDE DEF a
<1>2. /\ Len(a \o q) = Len(a) + Len(q)
      /\ \A i \in 1..(Len(a) + Len(q)) : (a \o q)[i] =
           IF i <= Len(a) THEN a[i] ELSE q[i - Len(a)]
  BY <1>a, ConcatProperties, Zenon
<1>3. /\ Len(r \o q) = Len(r) + Len(q)
      /\ \A i \in 1..(Len(r) + Len(q)) : (r \o q)[i] =
           IF i <= Len(r) THEN r[i] ELSE q[i - Len(r)]
  BY ConcatProperties
<1>4. ASSUME NEW i \in 1..Len(r \o q)
      PROVE  (r \o q)[i] = (a \o q)[Before(i, Len(r))]
  <2>1. CASE i <= Len(r) BY <1>1, <1>2, <1>3, <1>r, <2>1 DEF Before
  <2>2. CASE i > Len(r)
    <3>1. i + 1 > Len(a) /\ i + 1 \in 1..(Len(a) + Len(q)) /\ i + 1 - Len(a) = i - Len(r)
      BY <1>1, <1>3, <1>r, <2>2
    <3>2. (a \o q)[i + 1] = q[i - Len(r)] BY <1>1, <1>2, <1>r, <3>1
    <3>3. (r \o q)[i] = q[i - Len(r)] BY <1>3, <1>r, <2>2
    <3>4. Before(i, Len(r)) = i + 1 BY <1>r, <2>2 DEF Before
    <3> QED BY <3>2, <3>3, <3>4, Zenon
  <2>3. i <= Len(r) \/ i > Len(r) BY <1>r, <1>3
  <2> QED BY <2>1, <2>2, <2>3, Zenon
<1>5. Len(r \o q) = Len(a \o q) - 1 BY <1>1, <1>2, <1>3, <1>r
<1> QED BY <1>e, <1>4, <1>5 DEF a, LosesFrame

(* A step keeps the frames of a connection, but for one it may lose.       *)
Kept(c) ==
  \E lost \in Nat : \A i \in 1..Len(Frames(c)') :
    /\ Before(i, lost) \in 1..Len(Frames(c))
    /\ Frames(c)'[i] = Frames(c)[Before(i, lost)]

(* A step appends the frame of the publication p is making.                *)
Appended(c, p) ==
  /\ call[p].step \in Publishing /\ c \in call[p].targets
  /\ call' = [call EXCEPT ![p] = Without(p, c)] /\ published' = published
  /\ Len(Frames(c)') = Len(Frames(c)) + 1
  /\ \A i \in 1..Len(Frames(c)) : Frames(c)'[i] = Frames(c)[i]
  /\ Frames(c)'[Len(Frames(c)) + 1] = MessageOf(p)

(* What a connection received, writes and queues is a sequence of messages. *)
LEMMA FramesType ==
  ASSUME TypeOK, NEW c \in Conns
  PROVE  /\ Frames(c) \in Seq(Message) /\ Len(Frames(c)) \in Nat
         /\ DOMAIN Frames(c) = 1..Len(Frames(c))
<1>1. /\ received[c] \in Seq(Message) /\ queue[c] \in Seq(Message)
      /\ hand[c] \in Seq(Message)
  BY DEF TypeOK
<1>2. received[c] \o hand[c] \in Seq(Message) BY <1>1, ConcatProperties
<1>3. Frames(c) \in Seq(Message) BY <1>1, <1>2, ConcatProperties DEF Frames
<1> QED BY <1>3, LenProperties

(* No frame is lost if none has moved.                                     *)
LEMMA AllKept ==
  ASSUME TypeOK, NEW c \in Conns, Len(Frames(c)') = Len(Frames(c)),
         \A i \in 1..Len(Frames(c)) : Frames(c)'[i] = Frames(c)[i]
  PROVE  Kept(c)
<1> DEFINE lost == Len(Frames(c))
<1>1. lost \in Nat BY FramesType
<1>2. \A i \in 1..lost : Before(i, lost) = i BY <1>1 DEF Before
<1>3. \A i \in 1..Len(Frames(c)') : /\ Before(i, lost) \in 1..Len(Frames(c))
                                    /\ Frames(c)'[i] = Frames(c)[Before(i, lost)]
  BY <1>2
<1> QED BY <1>1, <1>3 DEF Kept

(* The three lemmas, about the messages of this module.                    *)
LEMMA MessageQueued ==
  \A r, q \in Seq(Message), m \in Message :
    /\ Len(r \o Append(q, m)) = Len(r \o q) + 1
    /\ \A i \in 1..Len(r \o q) : (r \o Append(q, m))[i] = (r \o q)[i]
    /\ (r \o Append(q, m))[Len(r \o q) + 1] = m
<1>1. \A S : \A x, y \in Seq(S), e \in S :
        /\ Len(x \o Append(y, e)) = Len(x \o y) + 1
        /\ \A i \in 1..Len(x \o y) : (x \o Append(y, e))[i] = (x \o y)[i]
        /\ (x \o Append(y, e))[Len(x \o y) + 1] = e
  BY FramesQueued, Zenon
<1> QED BY <1>1

LEMMA MessageTaken ==
  \A r, q \in Seq(Message) : q # <<>> =>
    /\ Len((r \o <<Head(q)>>) \o Tail(q)) = Len((r \o <<>>) \o q)
    /\ \A i \in 1..Len((r \o <<>>) \o q) :
         ((r \o <<Head(q)>>) \o Tail(q))[i] = ((r \o <<>>) \o q)[i]
BY FramesTaken, Zenon

LEMMA MessageLost ==
  \A r, h, q \in Seq(Message) : Len(h) = 1 => LosesFrame(r, h, q)
BY FramesLost, Zenon

(* A hand that holds a frame holds one.                                    *)
LEMMA HandHoldsOne ==
  ASSUME TypeOK, NEW c \in Conns
  PROVE  hand[c] \in Seq(Message) /\ (hand[c] = <<>> \/ Len(hand[c]) = 1)
<1>1. hand[c] \in Seq(Message) /\ Len(hand[c]) <= 1 BY DEF TypeOK
<1>2. Len(hand[c]) \in Nat /\ (Len(hand[c]) = 0 => hand[c] = <<>>)
  BY <1>1, EmptySeq, LenProperties
<1>3. Len(hand[c]) = 0 \/ Len(hand[c]) = 1
  <2> DEFINE n == Len(hand[c])
  <2>1. n \in Nat /\ n <= 1 BY <1>1, <1>2
  <2> HIDE DEF n
  <2>2. n = 0 \/ n = 1 BY <2>1
  <2> QED BY <2>2 DEF n
<1> QED BY <1>1, <1>2, <1>3, Zenon

(* Which steps move the frames of a connection, and how.                   *)
LEMMA FramesMove ==
  ASSUME TypeOK, [Next]_vars, NEW c \in Conns
  PROVE  \/ UNCHANGED <<queue[c], hand[c], received[c]>>
         \/ TakeFrame(c) \/ WriteFrame(c) \/ WriteFails(c)
         \/ \E p \in Callers : SendFrame(p, c)
<1> USE DEF TypeOK
<1>1. ASSUME NEW d \in Conns, d # c, TakeFrame(d) \/ WriteFrame(d) \/ WriteFails(d)
      PROVE  UNCHANGED <<queue[c], hand[c], received[c]>>
  BY <1>1 DEF TakeFrame, WriteFrame, WriteFails
<1>2. ASSUME NEW p \in Callers, NEW d \in Conns, d # c, SendFrame(p, d)
      PROVE  UNCHANGED <<queue[c], hand[c], received[c]>>
  BY <1>2 DEF SendFrame, Enqueue
<1>3. \/ UNCHANGED <<queue, hand, received>>
      \/ \E d \in Conns : TakeFrame(d) \/ WriteFrame(d) \/ WriteFails(d)
      \/ \E p \in Callers, d \in Conns : SendFrame(p, d)
  BY DEF Next, vars, Register, PeerLost, IdleTimeout, ReaderStep, StartPumps,
         ReadFails, ReaderExits, WriterStep, IncrementWriteError, QueueClosed,
         WriterExits, PublishToUser, PublishStep, CountSent, FindFull, CountDropped,
         DropSlow, SendOnClosed, CloseAfterFinal, CallStep, CloseTarget
<1> QED BY <1>1, <1>2, <1>3

(* A step adds at most one frame to a connection, at its end.              *)
LEMMA FramesStep ==
  ASSUME HubInv, [Next]_vars, NEW c \in Conns
  PROVE  Kept(c) \/ \E p \in Callers : Appended(c, p)
<1> DEFINE r == received[c]
           h == hand[c]
           q == queue[c]
<1> USE DEF HubInv
<1>1. r \in Seq(Message) /\ q \in Seq(Message) /\ h \in Seq(Message) BY DEF TypeOK
<1>2. Frames(c) \in Seq(Message) /\ Len(Frames(c)) \in Nat BY FramesType
<1>e. <<>> \in Seq(Message) /\ r \o h \in Seq(Message) BY <1>1, ConcatProperties
<1>3. CASE UNCHANGED <<queue[c], hand[c], received[c]>>
  <2>1. Frames(c)' = Frames(c) BY <1>3 DEF Frames
  <2> QED BY <2>1, AllKept
<1>4. CASE TakeFrame(c)
  <2>1. /\ q # <<>> /\ h = <<>> /\ queue'[c] = Tail(q) /\ hand'[c] = <<Head(q)>>
        /\ received'[c] = r
    BY <1>4 DEF TakeFrame, AtSelect, TypeOK
  <2>2. Frames(c) = (r \o <<>>) \o q /\ Frames(c)' = (r \o <<Head(q)>>) \o Tail(q)
    BY <2>1 DEF Frames
  <2>3. /\ Len((r \o <<Head(q)>>) \o Tail(q)) = Len((r \o <<>>) \o q)
        /\ \A i \in 1..Len((r \o <<>>) \o q) :
             ((r \o <<Head(q)>>) \o Tail(q))[i] = ((r \o <<>>) \o q)[i]
    BY <1>1, <2>1, MessageTaken, Zenon
  <2>4. Len(Frames(c)') = Len(Frames(c)) BY <2>2, <2>3, Zenon
  <2>5. \A i \in 1..Len(Frames(c)) : Frames(c)'[i] = Frames(c)[i]
    BY <2>2, <2>3, Zenon
  <2> QED BY <2>4, <2>5, AllKept
<1>5. CASE WriteFrame(c)
  <2>1. queue'[c] = q /\ hand'[c] = <<>> /\ received'[c] = r \o h
    BY <1>5 DEF WriteFrame, TypeOK
  <2>2. (r \o h) \o <<>> = r \o h BY <1>e, ConcatEmptySeq
  <2>3. Frames(c)' = Frames(c) BY <2>1, <2>2 DEF Frames
  <2> QED BY <2>3, AllKept
<1>6. CASE WriteFails(c)
  <2>1. queue'[c] = q /\ hand'[c] = <<>> /\ received'[c] = r
    BY <1>6 DEF WriteFails, TypeOK
  <2>2. CASE h = <<>>
    <3>1. Frames(c)' = Frames(c) BY <2>1, <2>2 DEF Frames
    <3> QED BY <3>1, AllKept
  <2>3. CASE Len(h) = 1
    <3>1. Frames(c) = (r \o h) \o q /\ Frames(c)' = (r \o <<>>) \o q
      BY <2>1 DEF Frames
    <3>2. /\ Len((r \o <<>>) \o q) = Len((r \o h) \o q) - 1
          /\ \A i \in 1..Len((r \o <<>>) \o q) : ((r \o <<>>) \o q)[i] =
               ((r \o h) \o q)[Before(i, Len(r))]
      BY <1>1, <2>3, MessageLost, Zenon DEF LosesFrame
    <3>3. Len(r) \in Nat BY <1>1
    <3>l. Len(Frames(c)') = Len(Frames(c)) - 1 BY <3>1, <3>2, Zenon
    <3>4. \A i \in 1..Len(Frames(c)') :
            Before(i, Len(r)) \in 1..Len(Frames(c))
      BY <1>2, <3>3, <3>l DEF Before
    <3>5. \A i \in 1..Len(Frames(c)') :
            Frames(c)'[i] = Frames(c)[Before(i, Len(r))]
      <4> HIDE DEF r, h, q
      <4> QED BY <3>1, <3>2, Zenon
    <3> QED BY <3>3, <3>4, <3>5 DEF Kept
  <2> QED BY <2>2, <2>3, HandHoldsOne
<1>7. ASSUME NEW p \in Callers, SendFrame(p, c) PROVE Appended(c, p)
  <2>1. MessageOf(p) \in Message BY <1>7, MessageType DEF SendFrame, Visits
  <2>2. queue'[c] = Append(q, MessageOf(p)) /\ received'[c] = r /\ hand'[c] = h
    BY <1>7 DEF SendFrame, Enqueue, TypeOK
  <2>3. Frames(c) = (r \o h) \o q /\ Frames(c)' = (r \o h) \o Append(q, MessageOf(p))
    BY <2>2 DEF Frames
  <2>4. /\ Len((r \o h) \o Append(q, MessageOf(p))) = Len((r \o h) \o q) + 1
        /\ \A i \in 1..Len((r \o h) \o q) :
             ((r \o h) \o Append(q, MessageOf(p)))[i] = ((r \o h) \o q)[i]
        /\ ((r \o h) \o Append(q, MessageOf(p)))[Len((r \o h) \o q) + 1] = MessageOf(p)
    BY <1>1, <1>e, <2>1, MessageQueued, Zenon
  <2>5. /\ call[p].step \in Publishing /\ c \in call[p].targets
        /\ call' = [call EXCEPT ![p] = Without(p, c)] /\ published' = published
    BY <1>7 DEF SendFrame, Visits
  <2> QED BY <2>3, <2>4, <2>5 DEF Appended
<1> QED BY <1>3, <1>4, <1>5, <1>6, <1>7, FramesMove

(* FramesInv is inductive relative to HubInv: InOrder needs that the       *)
(* publication being made is newer than what its targets already hold.     *)
FramesInv == Isolation /\ TargetsAreFresh /\ InOrder

(* What a step does to the publications in progress: they go on with the   *)
(* same number, or a new one begins with the next number.                  *)
LEMMA PublicationStep ==
  ASSUME HubInv, [Next]_vars, NEW p \in Callers
  PROVE  /\ published[p] \in Nat
         /\ published'[p] \in Nat
         /\ published'[p] >= published[p]
         /\ call'[p].step \in Publishing =>
              \/ published'[p] = published[p] + 1
              \/ /\ published'[p] = published[p]
                 /\ call[p].step \in Publishing
                 /\ call'[p].targets \subseteq call[p].targets
<1> USE DEF HubInv
<1>1. p \in Threads /\ p \notin Conns /\ Callers \subseteq Threads
      /\ Conns \subseteq Threads
  BY HubAssumption DEF Threads
<1>2. published[p] \in Nat /\ published \in [Callers -> 0..MaxPublish]
      /\ call \in [Threads -> Call] /\ call[p] \in Call
  BY <1>1, HubAssumption DEF TypeOK
<1>3. IdleCall.step \notin Publishing BY DEF IdleCall, Publishing
<1>4. CASE published' = published /\ call'[p] = call[p]
  BY <1>2, <1>4
<1>5. CASE published' = published /\ call'[p] = IdleCall
  BY <1>2, <1>3, <1>5
<1>6. ASSUME NEW t \in Threads, NEW c,
             \/ TargetDone(t, c) \/ call' = [call EXCEPT ![t] = Without(t, c)]
      PROVE  call'[p] = call[p] \/ call'[p] = IdleCall \/ call'[p] = Without(p, c)
  BY <1>1, <1>2, <1>6 DEF TargetDone, Settled
<1>7. ASSUME NEW c, call'[p] = Without(p, c)
      PROVE  call'[p].step = call[p].step /\ call'[p].targets \subseteq call[p].targets
  BY <1>1, <1>7, WithoutType
<1>8. ASSUME NEW q \in Callers, NEW u \in Users, NEW step \in Publishing,
             PublishToUser(q, u, step)
      PROVE  \/ published'[p] = published[p] /\ call'[p] = call[p]
             \/ published'[p] = published[p] + 1
  BY <1>1, <1>2, <1>8 DEF PublishToUser
<1>9. ASSUME NEW q \in Callers, CloseAfterFinal(q)
      PROVE  published' = published
             /\ (call'[p] = call[p] \/ call'[p].step \notin Publishing)
  <2>1. published' = published BY <1>9 DEF CloseAfterFinal
  <2>2. CASE q # p BY <1>1, <1>2, <1>9, <2>1, <2>2 DEF CloseAfterFinal
  <2>3. CASE q = p
    BY <1>1, <1>2, <1>3, <1>9, <2>1, <2>3 DEF CloseAfterFinal, Settled, Publishing
  <2> QED BY <2>2, <2>3
<1>10. ASSUME NEW c \in Conns, IdleTimeout(c)
       PROVE  published' = published /\ call'[p] = call[p]
  BY <1>1, <1>2, <1>10 DEF IdleTimeout
<1>11. ASSUME NEW q \in Callers, NEW c \in Conns, SendOnClosed(q, c)
       PROVE  published' = published /\ (call'[p] = call[p] \/ call'[p] = IdleCall)
  BY <1>1, <1>2, <1>11 DEF SendOnClosed
<1>12. ASSUME NEW t \in Threads, NEW c \in Conns,
              (t \in Callers /\ (SendFrame(t, c) \/ DropSlow(t, c))) \/ CloseTarget(t, c)
       PROVE  /\ \/ TargetDone(t, c) \/ call' = [call EXCEPT ![t] = Without(t, c)]
              /\ published' = published
  BY <1>12 DEF SendFrame, DropSlow, CloseTarget
<1>13. ASSUME NEW c \in Conns, Register(c) \/ PeerLost(c) \/ ReaderStep(c) \/ WriterStep(c)
       PROVE  published' = published /\ call'[p] = call[p]
  BY <1>13 DEF Register, PeerLost, ReaderStep, StartPumps, ReadFails, ReaderExits,
     WriterStep, TakeFrame, WriteFrame, WriteFails, IncrementWriteError, QueueClosed,
     WriterExits
<1>c. ASSUME NEW q \in Callers,
             \/ CountSent(q) \/ CountDropped(q) \/ \E c \in Conns : FindFull(q, c)
      PROVE  published' = published /\ (call'[p] = call[p] \/ call'[p] = IdleCall)
  <2>1. call' = call \/ call' = [call EXCEPT ![q] = Settled(call[q])]
    BY <1>c DEF CountSent, CountDropped, FindFull
  <2>2. published' = published BY <1>c DEF CountSent, CountDropped, FindFull
  <2> QED BY <1>1, <1>2, <2>1, <2>2 DEF Settled
<1>14. \/ published' = published /\ call'[p] = call[p]
       \/ published' = published /\ call'[p] = IdleCall
       \/ /\ \E t \in Threads, c \in Conns :
               TargetDone(t, c) \/ call' = [call EXCEPT ![t] = Without(t, c)]
          /\ published' = published
       \/ \E q \in Callers, u \in Users, step \in Publishing : PublishToUser(q, u, step)
       \/ \E q \in Callers : CloseAfterFinal(q)
  BY <1>1, <1>10, <1>11, <1>12, <1>13, <1>c DEF Next, vars, PublishStep, CallStep
<1>15. ASSUME NEW t \in Threads, NEW c \in Conns, published' = published,
              \/ TargetDone(t, c) \/ call' = [call EXCEPT ![t] = Without(t, c)]
       PROVE  \/ published' = published /\ call'[p] = call[p]
              \/ published' = published /\ call'[p] = IdleCall
              \/ published'[p] = published[p] /\ call'[p].step = call[p].step
                 /\ call'[p].targets \subseteq call[p].targets
  BY <1>6, <1>7, <1>15
<1> QED BY <1>2, <1>3, <1>8, <1>9, <1>14, <1>15

(* What TargetsAreFresh and Isolation say, index by index.                 *)
Fresh(m, c) ==
  /\ m.to = UserOf[c]
  /\ m.seq <= published[m.from]
  /\ (call[m.from].step \in Publishing /\ c \in call[m.from].targets)
       => m.seq < published[m.from]

(* A frame a connection holds stays fresh.                                 *)
LEMMA FreshStep ==
  ASSUME HubInv, [Next]_vars, NEW c \in Conns, NEW m \in Message, Fresh(m, c)
  PROVE  Fresh(m, c)'
<1> DEFINE p == m.from
<1>1. p \in Callers /\ m.seq \in Nat BY HubAssumption DEF Message
<1>2. /\ published[p] \in Nat
      /\ published'[p] \in Nat
      /\ published'[p] >= published[p]
      /\ call'[p].step \in Publishing =>
           \/ published'[p] = published[p] + 1
           \/ /\ published'[p] = published[p]
              /\ call[p].step \in Publishing
              /\ call'[p].targets \subseteq call[p].targets
  BY <1>1, PublicationStep
<1> HIDE DEF p
<1>3. /\ m.to = UserOf[c] /\ m.seq <= published[p]
      /\ (call[p].step \in Publishing /\ c \in call[p].targets) => m.seq < published[p]
  BY DEF Fresh, p
<1>4. m.seq <= published'[p] BY <1>1, <1>2, <1>3
<1>5. ASSUME call'[p].step \in Publishing, c \in call'[p].targets
      PROVE  m.seq < published'[p]
  BY <1>1, <1>2, <1>3, <1>5
<1> QED BY <1>3, <1>4, <1>5 DEF Fresh, p

(* The same type after a step.                                             *)
LEMMA FramesTypeNext ==
  ASSUME HubInv, [Next]_vars, NEW c \in Conns
  PROVE  /\ Len(Frames(c)') \in Nat
         /\ DOMAIN Frames(c)' = 1..Len(Frames(c)')
<1>1. TypeOK' BY NextHubInv DEF HubInv
<1>2. /\ received'[c] \in Seq(Message) /\ queue'[c] \in Seq(Message)
      /\ hand'[c] \in Seq(Message)
  BY <1>1 DEF TypeOK, Message
<1>3. received'[c] \o hand'[c] \in Seq(Message) BY <1>2, ConcatProperties
<1>4. Frames(c)' \in Seq(Message) BY <1>2, <1>3, ConcatProperties DEF Frames, Message
<1> QED BY <1>4, LenProperties

(* Isolation and TargetsAreFresh say that every frame held is fresh.       *)
LEMMA FramesFresh ==
  ASSUME TypeOK
  PROVE  Isolation /\ TargetsAreFresh
           <=> \A c \in Conns : \A i \in 1..Len(Frames(c)) : Fresh(Frames(c)[i], c)
<1>1. \A c \in Conns : DOMAIN Frames(c) = 1..Len(Frames(c)) BY FramesType
<1> QED BY <1>1 DEF Isolation, TargetsAreFresh, Fresh

(* Losing a frame keeps the others, in their order.                        *)
LEMMA KeptFramesInv ==
  ASSUME HubInv, FramesInv, [Next]_vars, NEW c \in Conns, Kept(c)
  PROVE  /\ \A i \in 1..Len(Frames(c)') : Fresh(Frames(c)[i], c)'
         /\ \A i, j \in 1..Len(Frames(c)') :
              (i < j /\ Frames(c)'[i].from = Frames(c)'[j].from)
                => Frames(c)'[i].seq < Frames(c)'[j].seq
<1> DEFINE F == Frames(c)
<1>g. PICK G : G = Frames(c)' OBVIOUS
<1>1. PICK lost \in Nat : \A i \in 1..Len(G) :
        Before(i, lost) \in 1..Len(F) /\ G[i] = F[Before(i, lost)]
  BY <1>g DEF Kept
<1>2. /\ DOMAIN F = 1..Len(F) /\ \A i \in 1..Len(F) : F[i] \in Message
      /\ Len(F) \in Nat
  BY FramesType, ElementOfSeq DEF HubInv
<1>3. \A i \in 1..Len(F) : Fresh(F[i], c)
  BY FramesFresh DEF HubInv, FramesInv
<1>4. \A i, j \in 1..Len(F) :
        (i < j /\ F[i].from = F[j].from) => F[i].seq < F[j].seq
  BY <1>2 DEF FramesInv, InOrder
<1>l. Len(G) \in Nat BY <1>g, FramesTypeNext
<1> HIDE DEF F
<1>5. ASSUME NEW i \in 1..Len(G) PROVE Fresh(G[i], c)'
  <2>1. G[i] \in Message /\ Fresh(G[i], c) BY <1>1, <1>2, <1>3
  <2> QED BY <1>g, <2>1, FreshStep
<1>6. ASSUME NEW i \in 1..Len(G), NEW j \in 1..Len(G), i < j,
             G[i].from = G[j].from
      PROVE  G[i].seq < G[j].seq
  <2>1. Before(i, lost) < Before(j, lost) BY <1>1, <1>6, <1>l DEF Before
  <2> QED BY <1>1, <1>4, <1>6, <2>1
<1> QED BY <1>g, <1>5, <1>6

(* A frame is appended by a publication newer than what was there.         *)
LEMMA AppendedFramesInv ==
  ASSUME HubInv, FramesInv, [Next]_vars, NEW c \in Conns, NEW p \in Callers,
         Appended(c, p)
  PROVE  /\ \A i \in 1..Len(Frames(c)') : Fresh(Frames(c)[i], c)'
         /\ \A i, j \in 1..Len(Frames(c)') :
              (i < j /\ Frames(c)'[i].from = Frames(c)'[j].from)
                => Frames(c)'[i].seq < Frames(c)'[j].seq
<1> DEFINE F == Frames(c)
<1>m. PICK m : m = MessageOf(p) OBVIOUS
<1>g. PICK G : G = Frames(c)' OBVIOUS
<1>1. /\ call[p].step \in Publishing /\ c \in call[p].targets
      /\ call' = [call EXCEPT ![p] = Without(p, c)] /\ published' = published
      /\ Len(G) = Len(F) + 1
      /\ \A i \in 1..Len(F) : G[i] = F[i]
      /\ G[Len(F) + 1] = m
  BY <1>g, <1>m DEF Appended
<1>2. /\ DOMAIN F = 1..Len(F) /\ \A i \in 1..Len(F) : F[i] \in Message
      /\ Len(F) \in Nat
  BY FramesType, ElementOfSeq DEF HubInv
<1>3. \A i \in 1..Len(F) : Fresh(F[i], c)
  BY FramesFresh DEF HubInv, FramesInv
<1>4. \A i, j \in 1..Len(F) :
        (i < j /\ F[i].from = F[j].from) => F[i].seq < F[j].seq
  BY <1>2 DEF FramesInv, InOrder
<1>5. m \in Message /\ m.from = p /\ m.seq = published[p] /\ m.to = call[p].user
  BY <1>1, <1>m, MessageType DEF HubInv, MessageOf
<1>6. p \in Threads /\ call[p] \in Call /\ published[p] \in Int
  BY HubAssumption DEF Threads, HubInv, TypeOK
<1>7. Fresh(m, c)'
  <2>1. m.to = UserOf[c] BY <1>1, <1>5, <1>6 DEF HubInv, CallsConsistent
  <2>2. c \notin call'[p].targets
    <3>1. call'[p] = Without(p, c) BY <1>1, <1>6 DEF HubInv, TypeOK
    <3>2. Without(p, c).targets = call[p].targets \ {c}
      BY <1>6, WithoutType DEF HubInv
    <3> QED BY <3>1, <3>2
  <2>3. published'[p] = published[p] /\ m.seq <= published'[p]
    BY <1>1, <1>5, <1>6
  <2> QED BY <1>5, <2>1, <2>2, <2>3 DEF Fresh
<1> HIDE DEF F
<1>8. ASSUME NEW i \in 1..Len(F) PROVE F[i].from = p => F[i].seq < m.seq
  <2>1. Fresh(F[i], c) BY <1>3
  <2> QED BY <1>1, <1>5, <2>1 DEF Fresh
<1>9. ASSUME NEW i \in 1..Len(G) PROVE Fresh(G[i], c)'
  <2>1. CASE i \in 1..Len(F)
    <3>1. G[i] = F[i] /\ F[i] \in Message /\ Fresh(F[i], c)
      BY <1>1, <1>2, <1>3, <2>1
    <3> QED BY <1>g, <3>1, FreshStep
  <2>2. CASE i = Len(F) + 1
    <3>1. G[i] = m BY <1>1, <2>2
    <3> QED BY <3>1, <1>7
  <2>3. i \in 1..Len(F) \/ i = Len(F) + 1 BY <1>1, <1>2
  <2> QED BY <2>1, <2>2, <2>3
<1>10. ASSUME NEW i \in 1..Len(G), NEW j \in 1..Len(G), i < j,
              G[i].from = G[j].from
       PROVE  G[i].seq < G[j].seq
  <2>1. i \in 1..Len(F) /\ G[i] = F[i] BY <1>1, <1>2, <1>10
  <2>2. CASE j \in 1..Len(F)
    <3>1. G[j] = F[j] BY <1>1, <2>2
    <3> QED BY <1>4, <1>10, <2>1, <2>2, <3>1
  <2>3. CASE j = Len(F) + 1
    <3>1. G[j] = m BY <1>1, <2>3
    <3> QED BY <1>5, <1>8, <1>10, <2>1, <3>1
  <2>4. j \in 1..Len(F) \/ j = Len(F) + 1 BY <1>1, <1>2
  <2> QED BY <2>2, <2>3, <2>4
<1> QED BY <1>g, <1>9, <1>10

(* Every step keeps isolation and order.                                   *)
LEMMA NextFramesInv ==
  ASSUME HubInv, FramesInv, [Next]_vars PROVE FramesInv'
<1>1. ASSUME NEW c \in Conns
      PROVE  /\ \A i \in 1..Len(Frames(c)') : Fresh(Frames(c)[i], c)'
             /\ \A i, j \in 1..Len(Frames(c)') :
                  (i < j /\ Frames(c)'[i].from = Frames(c)'[j].from)
                    => Frames(c)'[i].seq < Frames(c)'[j].seq
  BY FramesStep, KeptFramesInv, AppendedFramesInv
<1>2. \A c \in Conns : DOMAIN Frames(c)' = 1..Len(Frames(c)') BY FramesTypeNext
<1>3. Isolation' /\ TargetsAreFresh'
  BY <1>1, <1>2 DEF Isolation, TargetsAreFresh, Fresh
<1>4. InOrder' BY <1>1, <1>2 DEF InOrder
<1> QED BY <1>3, <1>4 DEF FramesInv

(* No frame was queued at the start.                                       *)
LEMMA InitFramesInv == ASSUME Init PROVE FramesInv
<1>1. \A c \in Conns : Frames(c) = <<>> \o <<>> \o <<>> BY DEF Init, Frames
<1>2. <<>> \o <<>> = <<>> OBVIOUS
<1>3. \A c \in Conns : DOMAIN Frames(c) = {} BY <1>1, <1>2
<1> QED BY <1>3 DEF FramesInv, Isolation, TargetsAreFresh, InOrder

(* A connection only gets what was published for its own user.             *)
THEOREM UsersAreIsolated == Spec => []Isolation
<1>1. Init => HubInv /\ FramesInv BY InitHubInv, InitFramesInv
<1>2. HubInv /\ FramesInv /\ [Next]_vars => (HubInv /\ FramesInv)'
  BY NextHubInv, NextFramesInv
<1>3. FramesInv => Isolation BY DEF FramesInv
<1> QED BY <1>1, <1>2, <1>3, PTL DEF Spec

(* Every connection gets the publications of a goroutine in their order    *)
(* and at most once, whatever other publishers and closes do meanwhile.    *)
THEOREM FramesStayInOrder == Spec => []InOrder
<1>1. Init => HubInv /\ FramesInv BY InitHubInv, InitFramesInv
<1>2. HubInv /\ FramesInv /\ [Next]_vars => (HubInv /\ FramesInv)'
  BY NextHubInv, NextFramesInv
<1>3. FramesInv => InOrder BY DEF FramesInv
<1> QED BY <1>1, <1>2, <1>3, PTL DEF Spec
-----------------------------------------------------------------------------
(* writePump starts with readPump: without it a connection whose pumps     *)
(* start would be served again after its end, and its write error lost.    *)
PumpsStartTogether ==
  \A c \in Conns : reader[c] \in {"none", "starting"} => writer[c] = "none"

MailInv == HubInv /\ PumpsStartTogether

LEMMA InitMailInv == ASSUME Init PROVE MailInv
BY InitHubInv DEF Init, MailInv, PumpsStartTogether

LEMMA NextMailInv == ASSUME MailInv, [Next]_vars PROVE MailInv'
<1> USE DEF MailInv, HubInv
<1>1. HubInv' BY NextHubInv
<1>2. \/ UNCHANGED <<reader, writer>>
      \/ \E c \in Conns :
           \/ sock[c] = "none" /\ reader' = [reader EXCEPT ![c] = "starting"]
              /\ writer' = writer
           \/ \E v \in {"closing", "done"} :
                reader' = [reader EXCEPT ![c] = v] /\ writer' = writer
           \/ reader' = [reader EXCEPT ![c] = "reading"]
              /\ writer' = [writer EXCEPT ![c] = "writing"]
           \/ \E v \in {"failed", "closing", "done"} :
                writer[c] # "none" /\ writer' = [writer EXCEPT ![c] = v]
                /\ reader' = reader
  BY DEF Next, vars, connVars, Register, PeerLost, IdleTimeout, ReaderStep,
         StartPumps, ReadFails, ReaderExits, WriterStep, TakeFrame, WriteFrame,
         WriteFails, IncrementWriteError, AtSelect, QueueClosed, WriterExits,
         PublishToUser, PublishStep, SendFrame, CountSent, FindFull, CountDropped,
         DropSlow, SendOnClosed, CloseAfterFinal, CallStep, CloseTarget
<1>3. /\ reader \in [Conns -> {"none", "starting", "reading", "closing", "done"}]
      /\ writer \in [Conns -> {"none", "writing", "failed", "closing", "done"}]
      /\ \A c \in Conns : sock[c] = "none" => writer[c] = "none"
  BY DEF TypeOK, HubConsistent
<1>4. PumpsStartTogether' BY <1>2, <1>3 DEF PumpsStartTogether
<1> QED BY <1>1, <1>4

-----------------------------------------------------------------------------
(* The count of the frames sent.                                           *)

(* The frames as pairs of a connection and a place, from how many each has.*)
Pairs(len) == UNION {{<<c, i>> : i \in 1..len[c]} : c \in Conns}

FrameCounts == [c \in Conns |-> Len(Frames(c))]

LEMMA PairsChange ==
  ASSUME NEW f \in [Conns -> Nat], NEW d \in Conns, NEW n \in Nat
  PROVE  LET g == [f EXCEPT ![d] = n]
         IN  /\ n = f[d] => Pairs(g) = Pairs(f)
             /\ n = f[d] + 1 => /\ Pairs(g) = Pairs(f) \cup {<<d, n>>}
                                /\ <<d, n>> \notin Pairs(f)
             /\ n = f[d] - 1 => /\ Pairs(g) = Pairs(f) \ {<<d, f[d]>>}
                                /\ <<d, f[d]>> \in Pairs(f)
<1> DEFINE g == [f EXCEPT ![d] = n]
<1>1. \A c \in Conns : f[c] \in Nat /\ g[c] = IF c = d THEN n ELSE f[c]
  OBVIOUS
<1>2. \A h \in [Conns -> Nat] : \A x :
        x \in Pairs(h) <=> \E c \in Conns : \E i \in 1..h[c] : x = <<c, i>>
  BY DEF Pairs
<1>3. \A x : x \in Pairs(f) <=> \E c \in Conns : \E i \in 1..f[c] : x = <<c, i>>
  BY <1>2
<1>4. \A x : x \in Pairs(g) <=> \E c \in Conns : \E i \in 1..g[c] : x = <<c, i>>
  <2>1. g \in [Conns -> Nat]
    OBVIOUS
  <2> QED BY <1>2, <2>1
<1> HIDE DEF g
<1>5. n = f[d] => Pairs(g) = Pairs(f)
  <2> SUFFICES ASSUME n = f[d] PROVE Pairs(g) = Pairs(f)
    OBVIOUS
  <2>1. \A c \in Conns : g[c] = f[c] BY <1>1
  <2> QED BY <2>1, <1>3, <1>4
<1>6. n = f[d] + 1 => /\ Pairs(g) = Pairs(f) \cup {<<d, n>>}
                      /\ <<d, n>> \notin Pairs(f)
  <2> SUFFICES ASSUME n = f[d] + 1
               PROVE  /\ Pairs(g) = Pairs(f) \cup {<<d, n>>}
                      /\ <<d, n>> \notin Pairs(f)
    OBVIOUS
  <2>1. ASSUME NEW c \in Conns, NEW i
        PROVE  i \in 1..g[c] <=> i \in 1..f[c] \/ (c = d /\ i = n)
    BY <1>1
  <2>2. n \notin 1..f[d] BY <1>1
  <2>3. \A x : x \in Pairs(g) <=> x \in Pairs(f) \/ x = <<d, n>>
    BY <1>3, <1>4, <2>1
  <2> QED BY <1>3, <2>2, <2>3
<1>7. n = f[d] - 1 => /\ Pairs(g) = Pairs(f) \ {<<d, f[d]>>}
                      /\ <<d, f[d]>> \in Pairs(f)
  <2> SUFFICES ASSUME n = f[d] - 1
               PROVE  /\ Pairs(g) = Pairs(f) \ {<<d, f[d]>>}
                      /\ <<d, f[d]>> \in Pairs(f)
    OBVIOUS
  <2>1. ASSUME NEW c \in Conns, NEW i
        PROVE  i \in 1..g[c] <=> i \in 1..f[c] /\ ~(c = d /\ i = f[d])
    BY <1>1
  <2>2. f[d] \in 1..f[d] BY <1>1
  <2>3. \A x : x \in Pairs(g) <=> x \in Pairs(f) /\ x # <<d, f[d]>>
    BY <1>3, <1>4, <2>1
  <2> QED BY <1>3, <2>2, <2>3
<1> QED BY <1>5, <1>6, <1>7 DEF g

(* How many frames a step leaves to the connection it touches, the only    *)
(* one whose frames it touches.                                            *)
LEMMA FramesCounted ==
  ASSUME HubInv
  PROVE  /\ FrameCounts \in [Conns -> Nat]
         /\ UNCHANGED <<queue, hand, received>> => FrameCounts' = FrameCounts
         /\ \A d \in Conns : TakeFrame(d) \/ WriteFrame(d) => FrameCounts' = FrameCounts
         /\ \A d \in Conns : WriteFails(d) =>
              \/ FrameCounts' = FrameCounts
              \/ /\ FrameCounts[d] > 0
                 /\ FrameCounts' = [FrameCounts EXCEPT ![d] = @ - 1]
         /\ \A p \in Callers, d \in Conns : SendFrame(p, d) =>
              FrameCounts' = [FrameCounts EXCEPT ![d] = @ + 1]
<1> USE DEF HubInv
<1> DEFINE Now(c)   == Len((received[c] \o hand[c]) \o queue[c])
           After(c) == Len((received'[c] \o hand'[c]) \o queue'[c])
<1>1. \A c \in Conns : /\ received[c] \in Seq(Message) /\ queue[c] \in Seq(Message)
                       /\ hand[c] \in Seq(Message)
                       /\ received[c] \o hand[c] \in Seq(Message)
  BY ConcatProperties DEF TypeOK
<1>2. FrameCounts' = [c \in Conns |-> After(c)] BY DEF FrameCounts, Frames
<1>3. FrameCounts = [c \in Conns |-> Now(c)] BY DEF FrameCounts, Frames
<1>4. \A c \in Conns : Now(c) \in Nat BY FramesType DEF Frames
<1>5. FrameCounts \in [Conns -> Nat] BY <1>3, <1>4
<1>6. ASSUME UNCHANGED <<queue, hand, received>> PROVE FrameCounts' = FrameCounts
  BY <1>2, <1>3, <1>6, Zenon
<1>7. ASSUME NEW d \in Conns, TakeFrame(d) PROVE FrameCounts' = FrameCounts
  <2>1. /\ queue[d] # <<>> /\ hand[d] = <<>> /\ queue'[d] = Tail(queue[d])
        /\ hand'[d] = <<Head(queue[d])>> /\ received'[d] = received[d]
    BY <1>7 DEF TakeFrame, AtSelect, TypeOK
  <2>2. \A c \in Conns \ {d} : UNCHANGED <<queue[c], hand[c], received[c]>>
    BY <1>7 DEF TakeFrame, TypeOK
  <2>3. Len((received[d] \o <<Head(queue[d])>>) \o Tail(queue[d]))
          = Len((received[d] \o <<>>) \o queue[d])
    BY <1>1, <2>1, MessageTaken, Zenon
  <2>4. After(d) = Now(d) BY <2>1, <2>3, Zenon
  <2>5. \A c \in Conns \ {d} : After(c) = Now(c) BY <2>2, Zenon
  <2> HIDE DEF Now, After
  <2> QED BY <1>2, <1>3, <2>4, <2>5
<1>8. ASSUME NEW d \in Conns, WriteFrame(d) PROVE FrameCounts' = FrameCounts
  <2>1. /\ queue'[d] = queue[d] /\ hand'[d] = <<>>
        /\ received'[d] = received[d] \o hand[d]
    BY <1>8 DEF WriteFrame, TypeOK
  <2>2. \A c \in Conns \ {d} : UNCHANGED <<queue[c], hand[c], received[c]>>
    BY <1>8 DEF WriteFrame, TypeOK
  <2>3. (received[d] \o hand[d]) \o <<>> = received[d] \o hand[d]
    BY <1>1, ConcatEmptySeq
  <2>4. After(d) = Now(d) BY <2>1, <2>3, Zenon
  <2>5. \A c \in Conns \ {d} : After(c) = Now(c) BY <2>2, Zenon
  <2> HIDE DEF Now, After
  <2> QED BY <1>2, <1>3, <2>4, <2>5
<1>9. ASSUME NEW d \in Conns, WriteFails(d)
      PROVE  \/ FrameCounts' = FrameCounts
             \/ /\ FrameCounts[d] > 0
                /\ FrameCounts' = [FrameCounts EXCEPT ![d] = @ - 1]
  <2>1. queue'[d] = queue[d] /\ hand'[d] = <<>> /\ received'[d] = received[d]
    BY <1>9 DEF WriteFails, TypeOK
  <2>2. \A c \in Conns \ {d} : UNCHANGED <<queue[c], hand[c], received[c]>>
    BY <1>9 DEF WriteFails, TypeOK
  <2>3. \A c \in Conns \ {d} : After(c) = Now(c) BY <2>2, Zenon
  <2>4. CASE hand[d] = <<>>
    <3>1. After(d) = Now(d) BY <2>1, <2>4, Zenon
    <3> HIDE DEF Now, After
    <3> QED BY <1>2, <1>3, <2>3, <3>1
  <2>5. CASE Len(hand[d]) = 1
    <3>1. Len((received[d] \o <<>>) \o queue[d])
            = Len((received[d] \o hand[d]) \o queue[d]) - 1
      BY <1>1, <2>5, MessageLost, Zenon DEF LosesFrame
    <3>2. After(d) = Now(d) - 1 BY <2>1, <3>1, Zenon
    <3>3. After(d) \in Nat
      <4>1. After(d) = Len((received[d] \o <<>>) \o queue[d]) BY <2>1, Zenon
      <4>2. received[d] \o <<>> \in Seq(Message) /\ queue[d] \in Seq(Message)
        BY <1>1, ConcatEmptySeq
      <4>3. (received[d] \o <<>>) \o queue[d] \in Seq(Message) BY <4>2, ConcatProperties
      <4> HIDE DEF After
      <4> QED BY <4>1, <4>3, LenProperties
    <3> HIDE DEF Now, After
    <3> QED BY <1>2, <1>3, <1>4, <2>3, <3>2, <3>3
  <2> QED BY <2>4, <2>5, HandHoldsOne
<1>10. ASSUME NEW p \in Callers, NEW d \in Conns, SendFrame(p, d)
       PROVE  FrameCounts' = [FrameCounts EXCEPT ![d] = @ + 1]
  <2>1. MessageOf(p) \in Message BY <1>10, MessageType DEF SendFrame, Visits
  <2>2. /\ queue'[d] = Append(queue[d], MessageOf(p))
        /\ hand'[d] = hand[d] /\ received'[d] = received[d]
    BY <1>10 DEF SendFrame, Enqueue, TypeOK
  <2>3. \A c \in Conns \ {d} : UNCHANGED <<queue[c], hand[c], received[c]>>
    BY <1>10 DEF SendFrame, Enqueue, TypeOK
  <2>4. Len((received[d] \o hand[d]) \o Append(queue[d], MessageOf(p)))
          = Len((received[d] \o hand[d]) \o queue[d]) + 1
    BY <1>1, <2>1, MessageQueued, Zenon
  <2>5. After(d) = Now(d) + 1 BY <2>2, <2>4, Zenon
  <2>6. \A c \in Conns \ {d} : After(c) = Now(c) BY <2>3, Zenon
  <2> HIDE DEF Now, After
  <2> QED BY <1>2, <1>3, <2>5, <2>6
<1> QED BY <1>5, <1>6, <1>7, <1>8, <1>9, <1>10

(* The frames accepted, and the writes that failed, counted or about to be.*)
Accepted == stats.messagesSent + Cardinality(Sending)
Failed   == stats.writeErrors + Cardinality(Failing)

(* What a step does to them, and to the frames.                            *)
FramesGoOn ==
  /\ FrameCounts' = FrameCounts /\ Accepted' = Accepted
  /\ Failed' \in {Failed, Failed + 1}

FrameComes(d) ==
  /\ FrameCounts' = [FrameCounts EXCEPT ![d] = @ + 1]
  /\ Accepted' = Accepted + 1 /\ Failed' = Failed

FrameGoes(d) ==
  /\ FrameCounts[d] > 0
  /\ FrameCounts' = [FrameCounts EXCEPT ![d] = @ - 1]
  /\ Accepted' = Accepted /\ Failed' = Failed + 1

(* A goroutine that has yet to count is one more or less of them.          *)
LEMMA SendingChange ==
  ASSUME IsFiniteSet(Sending), NEW p, Sending' = Sending \cup {p}, p \notin Sending
  PROVE  IsFiniteSet(Sending') /\ Cardinality(Sending') = Cardinality(Sending) + 1
BY FS_AddElement

LEMMA SendingDone ==
  ASSUME IsFiniteSet(Sending), NEW p, Sending' = Sending \ {p}, p \in Sending
  PROVE  IsFiniteSet(Sending') /\ Cardinality(Sending') = Cardinality(Sending) - 1
BY FS_RemoveElement

LEMMA FailingFinite == IsFiniteSet(Failing) /\ Cardinality(Failing) \in Nat
<1>1. IsFiniteSet(Failing) BY HubAssumption, FS_Subset DEF Failing
<1> QED BY <1>1, FS_CardinalityType

LEMMA CountsChange ==
  ASSUME MailInv, IsFiniteSet(Sending), [Next]_vars
  PROVE  /\ IsFiniteSet(Sending')
         /\ FramesGoOn \/ \E d \in Conns : FrameComes(d) \/ FrameGoes(d)
<1> USE DEF MailInv, HubInv
<1>1. /\ at \in [Callers -> {"loop", "sent", "full", "slow"}]
      /\ writer \in [Conns -> {"none", "writing", "failed", "closing", "done"}]
      /\ stats \in [messagesSent : Nat, droppedByBackpress : Nat, writeErrors : Nat]
      /\ stats.messagesSent \in Nat /\ stats.writeErrors \in Nat
  BY DEF TypeOK
<1>2. IsFiniteSet(Failing) /\ Cardinality(Failing) \in Nat BY FailingFinite
<1>3. Cardinality(Sending) \in Nat BY FS_CardinalityType
<1>4. ASSUME at' = at PROVE Sending' = Sending BY <1>4 DEF Sending
<1>5. ASSUME writer' = writer PROVE Failing' = Failing BY <1>5 DEF Failing
<1>6. ASSUME NEW p \in Callers, NEW d \in Conns, SendFrame(p, d)
      PROVE  IsFiniteSet(Sending') /\ FrameComes(d)
  <2>1. at[p] = "loop" /\ at' = [at EXCEPT ![p] = "sent"] /\ UNCHANGED <<stats, writer>>
    BY <1>6 DEF SendFrame, Visits, connVars
  <2>2. Sending' = Sending \cup {p} /\ p \notin Sending BY <1>1, <2>1 DEF Sending
  <2>3. IsFiniteSet(Sending') /\ Cardinality(Sending') = Cardinality(Sending) + 1
    BY <2>2, SendingChange
  <2>4. Failing' = Failing BY <1>5, <2>1
  <2>5. Accepted' = Accepted + 1 BY <1>1, <1>3, <2>1, <2>3 DEF Accepted
  <2>6. Failed' = Failed BY <2>1, <2>4 DEF Failed
  <2>7. FrameCounts' = [FrameCounts EXCEPT ![d] = @ + 1] BY <1>6, FramesCounted
  <2> QED BY <2>3, <2>5, <2>6, <2>7 DEF FrameComes
<1>7. ASSUME NEW p \in Callers, CountSent(p)
      PROVE  IsFiniteSet(Sending') /\ FramesGoOn
  <2>1. /\ at[p] = "sent" /\ at' = [at EXCEPT ![p] = "loop"]
        /\ stats' = [stats EXCEPT !.messagesSent = @ + 1]
        /\ UNCHANGED <<queue, hand, received, writer>>
    BY <1>7 DEF CountSent, connVars
  <2>2. Sending' = Sending \ {p} /\ p \in Sending BY <1>1, <2>1 DEF Sending
  <2>3. IsFiniteSet(Sending') /\ Cardinality(Sending') = Cardinality(Sending) - 1
    BY <2>2, SendingDone
  <2>4. Failing' = Failing BY <1>5, <2>1
  <2>5. /\ stats'.messagesSent = stats.messagesSent + 1
        /\ stats'.writeErrors = stats.writeErrors
    BY <1>1, <2>1
  <2>6. Accepted' = Accepted BY <1>1, <1>3, <2>3, <2>5 DEF Accepted
  <2>7. Failed' = Failed BY <2>4, <2>5 DEF Failed
  <2>8. FrameCounts' = FrameCounts BY <2>1, FramesCounted
  <2> QED BY <2>3, <2>6, <2>7, <2>8 DEF FramesGoOn
<1>8. ASSUME NEW d \in Conns, WriteFails(d)
      PROVE  IsFiniteSet(Sending') /\ (FramesGoOn \/ FrameGoes(d))
  <2>1. /\ writer[d] = "writing" /\ writer' = [writer EXCEPT ![d] = "failed"]
        /\ UNCHANGED <<at, stats>>
    BY <1>8 DEF WriteFails, visits
  <2>2. Failing' = Failing \cup {d} /\ d \notin Failing BY <1>1, <2>1 DEF Failing
  <2>3. Cardinality(Failing') = Cardinality(Failing) + 1
    BY <1>2, <2>2, FS_AddElement
  <2>4. Sending' = Sending BY <1>4, <2>1
  <2>5. Accepted' = Accepted BY <2>1, <2>4 DEF Accepted
  <2>6. Failed' = Failed + 1 BY <1>1, <1>2, <2>1, <2>3 DEF Failed
  <2>7. \/ FrameCounts' = FrameCounts
        \/ /\ FrameCounts[d] > 0
           /\ FrameCounts' = [FrameCounts EXCEPT ![d] = @ - 1]
    BY <1>8, FramesCounted
  <2> QED BY <2>4, <2>5, <2>6, <2>7 DEF FramesGoOn, FrameGoes
<1>9. ASSUME NEW d \in Conns, IncrementWriteError(d)
      PROVE  IsFiniteSet(Sending') /\ FramesGoOn
  <2>1. /\ writer[d] = "failed" /\ writer' = [writer EXCEPT ![d] = "closing"]
        /\ stats' = [stats EXCEPT !.writeErrors = @ + 1]
        /\ UNCHANGED <<at, queue, hand, received>>
    BY <1>9 DEF IncrementWriteError, visits
  <2>2. Failing' = Failing \ {d} /\ d \in Failing BY <1>1, <2>1 DEF Failing
  <2>3. Cardinality(Failing') = Cardinality(Failing) - 1
    BY <1>2, <2>2, FS_RemoveElement
  <2>4. Sending' = Sending BY <1>4, <2>1
  <2>5. /\ stats'.writeErrors = stats.writeErrors + 1
        /\ stats'.messagesSent = stats.messagesSent
    BY <1>1, <2>1
  <2>6. Accepted' = Accepted BY <2>4, <2>5 DEF Accepted
  <2>7. Failed' = Failed BY <1>1, <1>2, <2>3, <2>5 DEF Failed
  <2>8. FrameCounts' = FrameCounts BY <2>1, FramesCounted
  <2> QED BY <2>4, <2>6, <2>7, <2>8 DEF FramesGoOn
<1> DEFINE Quiet == /\ FrameCounts' = FrameCounts
                    /\ stats'.messagesSent = stats.messagesSent
                    /\ stats'.writeErrors = stats.writeErrors
                    /\ Sending' = Sending /\ Failing' = Failing
<1>10. ASSUME NEW d \in Conns, TakeFrame(d) \/ WriteFrame(d) PROVE Quiet
  <2>1. UNCHANGED <<stats, at, writer>>
    BY <1>10 DEF TakeFrame, WriteFrame, visits, connVars
  <2>2. FrameCounts' = FrameCounts BY <1>10, FramesCounted
  <2> QED BY <1>4, <1>5, <2>1, <2>2
<1>11. ASSUME NEW p \in Callers, NEW d \in Conns,
              FindFull(p, d) \/ CountDropped(p) \/ DropSlow(p, d)
       PROVE  Quiet
  <2>1. UNCHANGED <<queue, hand, received, writer>>
    BY <1>11 DEF FindFull, CountDropped, DropSlow, connVars
  <2>2. stats' = stats \/ stats' = [stats EXCEPT !.droppedByBackpress = @ + 1]
    BY <1>11 DEF FindFull, CountDropped, DropSlow
  <2>3. stats'.messagesSent = stats.messagesSent /\ stats'.writeErrors = stats.writeErrors
    BY <1>1, <2>2
  <2>4. at[p] # "sent" /\ \E v \in {"full", "slow", "loop"} : at' = [at EXCEPT ![p] = v]
    BY <1>11 DEF FindFull, CountDropped, DropSlow, Visits
  <2>5. Sending' = Sending BY <1>1, <2>4 DEF Sending
  <2>6. FrameCounts' = FrameCounts BY <2>1, FramesCounted
  <2> QED BY <1>5, <2>1, <2>3, <2>5, <2>6
<1>12. ASSUME NEW d \in Conns,
              \/ StartPumps(d) \/ QueueClosed(d) \/ IdleTimeout(d) \/ WriterExits(d)
       PROVE  Quiet
  <2>1. UNCHANGED <<stats, queue, hand, received, at>>
    BY <1>12 DEF StartPumps, QueueClosed, IdleTimeout, WriterExits, visits
  <2>2. /\ writer[d] # "failed"
        /\ \E v \in {"writing", "closing", "done"} : writer' = [writer EXCEPT ![d] = v]
    BY <1>12 DEF StartPumps, QueueClosed, IdleTimeout, WriterExits, AtSelect,
                 PumpsStartTogether
  <2>3. Failing' = Failing BY <1>1, <2>2 DEF Failing
  <2>4. FrameCounts' = FrameCounts BY <2>1, FramesCounted
  <2> QED BY <1>4, <2>1, <2>3, <2>4
<1>13. ASSUME UNCHANGED <<stats, queue, hand, received, at, writer>> PROVE Quiet
  <2>1. FrameCounts' = FrameCounts BY <1>13, FramesCounted
  <2> QED BY <1>4, <1>5, <1>13, <2>1
<1>14. ASSUME Quiet PROVE IsFiniteSet(Sending') /\ FramesGoOn
  BY <1>14 DEF FramesGoOn, Accepted, Failed
<1>15. \/ UNCHANGED <<stats, queue, hand, received, at, writer>>
       \/ \E p \in Callers, d \in Conns :
            SendFrame(p, d) \/ FindFull(p, d) \/ DropSlow(p, d)
       \/ \E p \in Callers : CountSent(p) \/ CountDropped(p)
       \/ \E d \in Conns :
            \/ TakeFrame(d) \/ WriteFrame(d) \/ WriteFails(d) \/ IncrementWriteError(d)
            \/ StartPumps(d) \/ QueueClosed(d) \/ IdleTimeout(d) \/ WriterExits(d)
  BY DEF Next, vars, visits, connVars, Register, PeerLost, ReaderStep,
         ReadFails, ReaderExits, WriterStep, PublishToUser, PublishStep,
         SendOnClosed, CloseAfterFinal, CallStep, CloseTarget
<1> HIDE DEF Quiet
<1>16. ASSUME NEW p \in Callers, CountDropped(p) PROVE Quiet
  <2>1. \A d \in Conns : Quiet BY <1>11, <1>16
  <2>2. tried[p] \in Conns
    <3>1. tried[p] \in call[p].targets /\ call[p].targets \in SUBSET Conns
      BY <1>16 DEF CountDropped, CallsConsistent, TypeOK, Call, Threads
    <3> QED BY <3>1
  <2> QED BY <2>1, <2>2
<1> QED
  BY <1>6, <1>7, <1>8, <1>9, <1>10, <1>11, <1>12, <1>13, <1>14, <1>15, <1>16

CountInv == MailInv /\ IsFiniteSet(KeptFrames) /\ IsFiniteSet(Sending) /\ SentAccounted

LEMMA KeptArePairs ==
  KeptFrames = Pairs(FrameCounts) /\ KeptFrames' = Pairs(FrameCounts')
  BY DEF KeptFrames, Pairs, FrameCounts

(* SentAccounted as two inequalities, before and after a step.             *)
LEMMA AccountIs ==
  /\ SentAccounted <=> Cardinality(KeptFrames) \in (Accepted - Failed)..Accepted
  /\ SentAccounted' <=> Cardinality(KeptFrames)' \in (Accepted' - Failed')..Accepted'
BY DEF SentAccounted, Accepted, Failed

LEMMA AccountsAreCounts ==
  ASSUME TypeOK, IsFiniteSet(Sending)
  PROVE  Accepted \in Nat /\ Failed \in Nat
<1>1. stats.messagesSent \in Nat /\ stats.writeErrors \in Nat BY DEF TypeOK
<1>2. Cardinality(Sending) \in Nat BY FS_CardinalityType
<1> QED BY <1>1, <1>2, FailingFinite DEF Accepted, Failed

LEMMA InitCountInv == ASSUME Init PROVE CountInv
<1>1. <<>> \o <<>> \o <<>> = <<>> OBVIOUS
<1>2. \A c \in Conns : Len(Frames(c)) = 0 BY <1>1 DEF Init, Frames
<1>3. KeptFrames = {} BY <1>2 DEF KeptFrames
<1>4. stats.messagesSent = 0 /\ stats.writeErrors = 0 BY DEF Init
<1>5. IsFiniteSet({}) /\ Cardinality({}) = 0 BY FS_EmptySet
<1>6. Sending = {} /\ Failing = {} BY DEF Init, Sending, Failing
<1>7. Accepted = 0 /\ Failed = 0 BY <1>4, <1>5, <1>6 DEF Accepted, Failed
<1> QED BY <1>3, <1>5, <1>6, <1>7, AccountIs, InitMailInv DEF CountInv

LEMMA NextCountInv == ASSUME CountInv, [Next]_vars PROVE CountInv'
<1> DEFINE f == FrameCounts
           k == Cardinality(KeptFrames)
<1>m. MailInv' /\ TypeOK' BY NextMailInv DEF CountInv, MailInv, HubInv
<1>s. IsFiniteSet(Sending') BY CountsChange DEF CountInv
<1>1. f \in [Conns -> Nat] BY FramesCounted DEF CountInv, MailInv
<1>2. k \in Nat /\ Accepted \in Nat /\ Failed \in Nat
      /\ k <= Accepted /\ Accepted - Failed <= k
  <2>1. k \in Nat BY FS_CardinalityType DEF CountInv
  <2>2. Accepted \in Nat /\ Failed \in Nat
    BY AccountsAreCounts DEF CountInv, MailInv, HubInv
  <2>3. k \in (Accepted - Failed)..Accepted BY AccountIs DEF CountInv
  <2> HIDE DEF k
  <2> QED BY <2>1, <2>2, <2>3
<1> HIDE DEF f
<1>3. CASE FramesGoOn
  <2>1. KeptFrames' = KeptFrames BY <1>3, KeptArePairs DEF f, FramesGoOn
  <2>2. Cardinality(KeptFrames)' \in (Accepted' - Failed')..Accepted'
    BY <1>2, <1>3, <2>1 DEF FramesGoOn
  <2>3. IsFiniteSet(KeptFrames') BY <2>1 DEF CountInv
  <2> QED BY <1>m, <1>s, <2>2, <2>3, AccountIs DEF CountInv
<1>4. ASSUME NEW d \in Conns, FrameComes(d) PROVE CountInv'
  <2>1. f[d] + 1 \in Nat BY <1>1
  <2>2. /\ Pairs([f EXCEPT ![d] = f[d] + 1]) = Pairs(f) \cup {<<d, f[d] + 1>>}
        /\ <<d, f[d] + 1>> \notin Pairs(f)
    BY <1>1, <2>1, PairsChange
  <2>3. /\ KeptFrames' = KeptFrames \cup {<<d, f[d] + 1>>}
        /\ <<d, f[d] + 1>> \notin KeptFrames
    BY <1>4, <2>2, KeptArePairs DEF f, FrameComes
  <2>4. IsFiniteSet(KeptFrames') /\ Cardinality(KeptFrames') = k + 1
    BY <2>3, FS_AddElement DEF CountInv
  <2>5. Cardinality(KeptFrames)' \in (Accepted' - Failed')..Accepted'
    BY <1>2, <1>4, <2>4 DEF FrameComes
  <2> QED BY <1>m, <1>s, <2>4, <2>5, AccountIs DEF CountInv
<1>5. ASSUME NEW d \in Conns, FrameGoes(d) PROVE CountInv'
  <2>1. f[d] - 1 \in Nat BY <1>1, <1>5 DEF FrameGoes, f
  <2>2. /\ Pairs([f EXCEPT ![d] = f[d] - 1]) = Pairs(f) \ {<<d, f[d]>>}
        /\ <<d, f[d]>> \in Pairs(f)
    BY <1>1, <2>1, PairsChange
  <2>3. KeptFrames' = KeptFrames \ {<<d, f[d]>>} /\ <<d, f[d]>> \in KeptFrames
    BY <1>5, <2>2, KeptArePairs DEF f, FrameGoes
  <2>4. IsFiniteSet(KeptFrames') /\ Cardinality(KeptFrames') = k - 1
    BY <2>3, FS_RemoveElement DEF CountInv
  <2>5. Cardinality(KeptFrames)' \in (Accepted' - Failed')..Accepted'
    BY <1>2, <1>5, <2>4 DEF FrameGoes
  <2> QED BY <1>m, <1>s, <2>4, <2>5, AccountIs DEF CountInv
<1> QED BY <1>3, <1>4, <1>5, CountsChange DEF CountInv

(* Every frame that was sent is queued, in writePump's hand, written, or   *)
(* lost by a write that failed, and the counters say so but for what has   *)
(* not been counted yet, however many connections and publishers there are.*)
THEOREM SentFramesAccounted == Spec => []SentAccounted
<1>1. Init => CountInv BY InitCountInv
<1>2. CountInv /\ [Next]_vars => CountInv' BY NextCountInv
<1>3. CountInv => SentAccounted BY DEF CountInv
<1> QED BY <1>1, <1>2, <1>3, PTL DEF Spec

-----------------------------------------------------------------------------
(* The hub implements a mailbox per connection.                            *)

(* What a box shows of the socket, the channel and writePump.              *)
LEMMA BoxIs ==
  ASSUME HubInv, NEW c \in Conns
  PROVE  /\ Box(c) \in {"none", "open", "leaving", "over"}
         /\ Box(c) = "none" <=> sock[c] = "none"
         /\ Box(c) = "over" <=> sock[c] # "none" /\ ~Served(c)
         /\ Box(c) = "leaving" <=> Served(c) /\ closed[c]
         /\ Box(c) = "open" <=> Served(c) /\ ~closed[c]
<1>1. sock[c] = "none" => ~Served(c) BY DEF Served
<1> QED BY <1>1 DEF Box

LEMMA BoxKept ==
  ASSUME NEW c \in Conns, closed'[c] = closed[c], Served(c)' <=> Served(c),
         sock'[c] = "none" <=> sock[c] = "none"
  PROVE  Box(c)' = Box(c)
BY DEF Box

(* The publication of p that has connection c still to visit.              *)
Owes(p, c, m) ==
  call[p].step \in Publishing /\ c \in call[p].targets /\ m = MessageOf(p)

LEMMA OwedIs ==
  ASSUME NEW c \in Conns, NEW m
  PROVE  /\ m \in Owed(c) <=> Box(c) = "open" /\ \E p \in Callers : Owes(p, c, m)
         /\ m \in Owed(c)' <=> Box(c)' = "open" /\ \E p \in Callers : Owes(p, c, m)'
BY DEF Owed, Owes

LEMMA OwesKept ==
  ASSUME NEW p \in Callers, UNCHANGED published, call'[p] = call[p], NEW c, NEW m
  PROVE  Owes(p, c, m)' <=> Owes(p, c, m)
BY DEF Owes, MessageOf

(* A call that has visited d owes it nothing more, and the others the same,*)
(* whether or not it returns.                                              *)
LEMMA OwesSettled ==
  ASSUME NEW p \in Callers, NEW cl \in Call, UNCHANGED published,
         call'[p] = cl \/ call'[p] = Settled(cl),
         cl.step = call[p].step, cl.user = call[p].user, NEW c, NEW m
  PROVE  Owes(p, c, m)' <=> /\ cl.step \in Publishing /\ c \in cl.targets
                            /\ m = MessageOf(p)
<1>1. CASE call'[p] = cl BY <1>1 DEF Owes, MessageOf
<1>2. CASE call'[p] = IdleCall /\ cl.targets = {}
  BY <1>2 DEF Owes, IdleCall, Publishing
<1> QED BY <1>1, <1>2 DEF Settled

LEMMA OwesAdvance ==
  ASSUME TypeOK, NEW t \in Threads, NEW d \in Conns,
         \/ TargetDone(t, d) \/ call' = [call EXCEPT ![t] = Without(t, d)],
         UNCHANGED published, NEW p \in Callers, NEW c \in Conns, NEW m
  PROVE  Owes(p, c, m)' <=> Owes(p, c, m) /\ ~(p = t /\ c = d)
<1>1. CASE p # t
  <2>1. call'[p] = call[p] BY <1>1 DEF TargetDone, TypeOK, Threads
  <2> QED BY <1>1, <2>1, OwesKept
<1>2. CASE p = t
  <2>1. /\ Without(p, d) \in Call
        /\ Without(p, d).step = call[p].step /\ Without(p, d).user = call[p].user
        /\ Without(p, d).targets = call[p].targets \ {d}
    BY <1>2, WithoutType
  <2>2. call'[p] = Without(p, d) \/ call'[p] = Settled(Without(p, d))
    BY <1>2 DEF TargetDone, TypeOK
  <2>3. Owes(p, c, m)' <=> /\ Without(p, d).step \in Publishing
                           /\ c \in Without(p, d).targets /\ m = MessageOf(p)
    BY <2>1, <2>2, OwesSettled
  <2> QED BY <1>2, <2>1, <2>3 DEF Owes
<1> QED BY <1>1, <1>2

LEMMA OwedKept ==
  ASSUME NEW c \in Conns, Box(c)' = Box(c),
         \A p \in Callers : \A m : Owes(p, c, m)' <=> Owes(p, c, m)
  PROVE  Owed(c)' = Owed(c)
BY OwedIs

(* What is still in the mailbox of a connection.                           *)
MailOf(c) == IF Box(c) = "over" THEN <<>> ELSE hand[c] \o queue[c]

LEMMA MailStutters ==
  ASSUME \A c \in Conns : Box(c)' = Box(c) /\ Owed(c)' = Owed(c)
                          /\ MailOf(c)' = MailOf(c),
         UNCHANGED <<received, published, alive>>
  PROVE  UNCHANGED Mail!boxVars
BY DEF Mail!boxVars, MailOf

(* A connection is no longer served: its box is over, or was already.      *)
LEMMA BoxEnds ==
  ASSUME HubInv, NEW c \in Conns, Box(c) # "none", Box(c)' = "over",
         \A d \in Conns \ {c} : Box(d)' = Box(d) /\ UNCHANGED <<hand[d], queue[d]>>,
         \A d \in Conns \ {c} : Owed(d)' = Owed(d),
         UNCHANGED <<received, published, alive>>
  PROVE  Mail!End(c) \/ UNCHANGED Mail!boxVars
<1>1. Owed(c)' = {} /\ MailOf(c)' = <<>> BY DEF Owed, MailOf
<1>2. \A d \in Conns \ {c} : MailOf(d)' = MailOf(d) BY DEF MailOf
<1>3. CASE Box(c) = "over"
  <2>1. Owed(c) = {} /\ MailOf(c) = <<>> BY <1>3 DEF Owed, MailOf
  <2> QED BY <1>1, <1>2, <1>3, <2>1, MailStutters
<1>4. CASE Box(c) # "over"
  <2>1. Box(c) \in {"open", "leaving"} BY <1>4, BoxIs
  <2> QED BY <1>1, <1>2, <2>1 DEF Mail!End, MailOf
<1> QED BY <1>3, <1>4

(* Register opens the mailbox; no call under way has the connection among  *)
(* its targets.                                                            *)
LEMMA RegisterOpens ==
  ASSUME MailInv, NEW c \in Conns, Register(c)
  PROVE  Mail!Open(c)
<1> USE DEF MailInv, HubInv
<1>1. /\ sock[c] = "none" /\ sock' = [sock EXCEPT ![c] = "open"]
      /\ UNCHANGED <<queue, hand, closed, writer, call, published, received, alive>>
  BY DEF Register
<1>2. writer[c] = "none" /\ reader[c] = "none" /\ ~closed[c]
  BY <1>1 DEF HubConsistent
<1>3. \A d \in Conns \ {c} : Box(d)' = Box(d)
  BY <1>1, BoxKept DEF Served, TypeOK
<1>4. Box(c) = "none" /\ Box(c)' = "open" BY <1>1, <1>2 DEF Box, Served, TypeOK
<1>5. \A p \in Callers, d \in Conns : \A m : Owes(p, d, m)' <=> Owes(p, d, m)
  BY <1>1, OwesKept
<1>6. \A d \in Conns \ {c} : Owed(d)' = Owed(d) BY <1>3, <1>5, OwedKept
<1>7. Owed(c) = {} BY <1>4 DEF Owed
<1>8. Owed(c)' = {}
  <2>1. \A p \in Callers : c \notin call[p].targets
    BY <1>1 DEF CallsConsistent, Threads
  <2>2. \A m : m \notin Owed(c)' BY <1>5, <2>1, OwedIs DEF Owes
  <2> QED BY <2>2
<1>9. \A d \in Conns : MailOf(d)' = MailOf(d) BY <1>1, <1>3, <1>4 DEF MailOf
<1> QED BY <1>1, <1>3, <1>4, <1>6, <1>7, <1>8, <1>9 DEF Mail!Open, MailOf

(* A lost peer is still written to; pumps that start change nothing that   *)
(* is promised.                                                            *)
LEMMA PumpStutters ==
  ASSUME MailInv, NEW c \in Conns, StartPumps(c) \/ PeerLost(c)
  PROVE  UNCHANGED Mail!boxVars
<1> USE DEF MailInv, HubInv
<1>1. UNCHANGED <<queue, hand, closed, call, published, received, alive>>
  BY DEF StartPumps, PeerLost
<1>2. \A d \in Conns : (sock'[d] = "none" <=> sock[d] = "none")
                       /\ (Served(d)' <=> Served(d))
  BY DEF StartPumps, PeerLost, PumpsStartTogether, Served, TypeOK
<1>3. \A d \in Conns : Box(d)' = Box(d) BY <1>1, <1>2, BoxKept
<1>4. \A p \in Callers, d \in Conns : \A m : Owes(p, d, m)' <=> Owes(p, d, m)
  BY <1>1, OwesKept
<1>5. \A d \in Conns : Owed(d)' = Owed(d) BY <1>3, <1>4, OwedKept
<1>6. \A d \in Conns : MailOf(d)' = MailOf(d) BY <1>1, <1>3 DEF MailOf
<1> QED BY <1>1, <1>3, <1>5, <1>6, MailStutters

(* Unregister closes the channel: nothing more is accepted from it.        *)
LEMMA ReadFailsLeaves ==
  ASSUME MailInv, NEW c \in Conns, ReadFails(c)
  PROVE  Mail!Leave(c) \/ UNCHANGED Mail!boxVars
<1> USE DEF MailInv, HubInv
<1>1. UNCHANGED <<queue, hand, sock, writer, call, published, received, alive>>
  BY DEF ReadFails
<1>2. sock[c] # "none" /\ ~closed[c] /\ closed' = [closed EXCEPT ![c] = TRUE]
  BY DEF ReadFails, Unregister, HubConsistent
<1>3. \A d \in Conns \ {c} : closed'[d] = closed[d] BY <1>2 DEF TypeOK
<1>4. closed'[c] BY <1>2 DEF TypeOK
<1>5. \A d \in Conns \ {c} : Box(d)' = Box(d)
  BY <1>1, <1>3, BoxKept DEF Served
<1>6. \A p \in Callers, d \in Conns : \A m : Owes(p, d, m)' <=> Owes(p, d, m)
  BY <1>1, OwesKept
<1>7. \A d \in Conns \ {c} : Owed(d)' = Owed(d) /\ MailOf(d)' = MailOf(d)
  BY <1>1, <1>5, <1>6, OwedKept DEF MailOf
<1>8. CASE Served(c)
  <2>1. Box(c) = "open" /\ Box(c)' = "leaving"
    BY <1>1, <1>2, <1>4, <1>8 DEF Box, Served
  <2>2. Owed(c)' = {} /\ MailOf(c)' = MailOf(c) BY <1>1, <2>1 DEF Owed, MailOf
  <2> QED BY <1>1, <1>5, <1>7, <2>1, <2>2 DEF Mail!Leave, MailOf
<1>9. CASE ~Served(c)
  <2>1. Box(c) = "over" /\ Box(c)' = "over" BY <1>1, <1>2, <1>9 DEF Box, Served
  <2>2. Owed(c)' = Owed(c) BY <1>6, <2>1, OwedKept
  <2>3. MailOf(c)' = MailOf(c) BY <2>1 DEF MailOf
  <2> QED BY <1>1, <1>5, <1>7, <2>1, <2>2, <2>3, MailStutters
<1> QED BY <1>8, <1>9

(* A pump that ends on its own closes the box of its connection.           *)
LEMMA PumpEnds ==
  ASSUME MailInv, NEW c \in Conns,
         ReaderExits(c) \/ WriteFails(c) \/ IncrementWriteError(c) \/ QueueClosed(c)
         \/ WriterExits(c) \/ IdleTimeout(c)
  PROVE  Mail!End(c) \/ UNCHANGED Mail!boxVars
<1> USE DEF MailInv, HubInv
<1>1. UNCHANGED <<closed, published, received, alive>>
  BY DEF ReaderExits, WriteFails, IncrementWriteError, QueueClosed, WriterExits,
         IdleTimeout
<1>2. \A p \in Callers : call'[p] = call[p]
  BY HubAssumption DEF ReaderExits, WriteFails, IncrementWriteError, QueueClosed,
                       WriterExits, IdleTimeout, TypeOK, Threads
<1>3. sock[c] # "none"
  BY DEF ReaderExits, WriteFails, IncrementWriteError, QueueClosed, WriterExits,
         IdleTimeout, AtSelect, HubConsistent
<1>4. /\ sock' = sock \/ sock' = [sock EXCEPT ![c] = "closed"]
      /\ writer' = writer \/ \E v \in {"failed", "closing", "done"} :
                               writer' = [writer EXCEPT ![c] = v]
      /\ queue' = queue /\ (hand' = hand \/ hand' = [hand EXCEPT ![c] = <<>>])
  BY DEF ReaderExits, WriteFails, IncrementWriteError, QueueClosed, WriterExits,
         IdleTimeout, CloseSocket
<1>e. \A d \in Conns \ {c} : UNCHANGED <<hand[d], queue[d]>> BY <1>4 DEF TypeOK
<1>5. /\ sock'[c] # "none"
      /\ sock'[c] = "closed" \/ writer'[c] \in {"failed", "closing", "done"}
  BY <1>3 DEF ReaderExits, WriteFails, IncrementWriteError, QueueClosed, WriterExits,
              IdleTimeout, CloseSocket, TypeOK
<1>6. Box(c) # "none" /\ Box(c)' = "over"
  BY <1>3, <1>5 DEF Box, Served
<1>7. \A d \in Conns \ {c} : Box(d)' = Box(d)
  BY <1>1, <1>4, BoxKept DEF Served, TypeOK
<1>8. \A p \in Callers, d \in Conns : \A m : Owes(p, d, m)' <=> Owes(p, d, m)
  BY <1>1, <1>2, OwesKept
<1>9. \A d \in Conns \ {c} : Owed(d)' = Owed(d) BY <1>7, <1>8, OwedKept
<1> QED BY <1>1, <1>6, <1>7, <1>9, <1>e, BoxEnds

(* What writePump takes is still to be delivered, before what it leaves.   *)
LEMMA HandFirst ==
  \A q \in Seq(Message) : q # <<>> => <<>> \o q = <<Head(q)>> \o Tail(q)
<1> TAKE q \in Seq(Message)
<1> HAVE q # <<>>
<1>1. /\ Head(q) \in Message /\ Tail(q) \in Seq(Message)
      /\ Len(Tail(q)) = Len(q) - 1
      /\ \A i \in 1..Len(Tail(q)) : Tail(q)[i] = q[i + 1]
      /\ Head(q) = q[1] /\ Len(q) >= 1
  BY HeadTailProperties
<1> DEFINE h == <<Head(q)>>
           t == Tail(q)
<1>2. h \in Seq(Message) /\ Len(h) = 1 /\ h[1] = q[1] BY <1>1
<1>3. t \in Seq(Message) /\ Len(t) = Len(q) - 1 BY <1>1
<1>t. \A i \in 1..Len(t) : t[i] = q[i + 1] BY <1>1
<1> HIDE DEF h, t
<1>4. /\ h \o t \in Seq(Message) /\ Len(h \o t) = Len(h) + Len(t)
      /\ \A i \in 1..(Len(h) + Len(t)) : (h \o t)[i] =
           IF i <= Len(h) THEN h[i] ELSE t[i - Len(h)]
  BY <1>2, <1>3, ConcatProperties
<1>5. Len(q) \in Nat BY LenProperties
<1>6. Len(h \o t) = Len(q) BY <1>2, <1>3, <1>4, <1>5
<1>7. ASSUME NEW i \in 1..Len(q) PROVE (h \o t)[i] = q[i]
  <2>1. CASE i = 1 BY <1>2, <1>3, <1>4, <1>5, <1>7, <2>1
  <2>2. CASE i > 1
    <3>1. i - 1 \in 1..Len(t) BY <1>3, <1>5, <1>7, <2>2
    <3>2. t[i - 1] = q[i]
      <4>1. t[i - 1] = q[(i - 1) + 1] BY <1>t, <3>1
      <4>2. (i - 1) + 1 = i BY <1>7
      <4> QED BY <4>1, <4>2
    <3>3. (h \o t)[i] = t[i - 1] BY <1>2, <1>3, <1>4, <1>5, <1>7, <2>2
    <3> QED BY <3>2, <3>3
  <2>3. i = 1 \/ i > 1 BY <1>5, <1>7
  <2> QED BY <2>1, <2>2, <2>3
<1>8. h \o t = q BY <1>4, <1>6, <1>7, SeqEqual
<1>9. <<>> \o q = q BY ConcatEmptySeq
<1> QED BY <1>8, <1>9 DEF h, t

LEMMA TakeFrameStutters ==
  ASSUME MailInv, NEW c \in Conns, TakeFrame(c)
  PROVE  UNCHANGED Mail!boxVars
<1> USE DEF MailInv, HubInv
<1>1. /\ UNCHANGED <<sock, writer, closed, call, published, received, alive>>
      /\ queue[c] # <<>> /\ hand[c] = <<>>
      /\ hand' = [hand EXCEPT ![c] = <<Head(queue[c])>>]
      /\ queue' = [queue EXCEPT ![c] = Tail(@)]
  BY DEF TakeFrame, AtSelect, connVars
<1>2. \A d \in Conns : Box(d)' = Box(d) BY <1>1, BoxKept DEF Served
<1>3. \A p \in Callers, d \in Conns : \A m : Owes(p, d, m)' <=> Owes(p, d, m)
  BY <1>1, OwesKept
<1>4. \A d \in Conns : Owed(d)' = Owed(d) BY <1>2, <1>3, OwedKept
<1>5. hand'[c] = <<Head(queue[c])>> /\ queue'[c] = Tail(queue[c])
  BY <1>1 DEF TypeOK
<1>6. queue[c] \in Seq(Message) BY DEF TypeOK
<1>7. <<>> \o queue[c] = <<Head(queue[c])>> \o Tail(queue[c])
  BY <1>1, <1>6, HandFirst, Zenon
<1>8. hand'[c] \o queue'[c] = hand[c] \o queue[c] BY <1>1, <1>5, <1>7, Zenon
<1>9. \A d \in Conns \ {c} : hand'[d] = hand[d] /\ queue'[d] = queue[d]
  BY <1>1 DEF TypeOK
<1>10. \A d \in Conns : MailOf(d)' = MailOf(d) BY <1>2, <1>8, <1>9 DEF MailOf
<1> QED BY <1>1, <1>2, <1>4, <1>10, MailStutters

(* The frame in the hand of writePump is the first one, and is written to  *)
(* the socket.                                                             *)
LEMMA HandIsHead ==
  \A r, h, q \in Seq(Message) : Len(h) = 1 =>
    /\ h \o q # <<>> /\ <<>> \o q = Tail(h \o q)
    /\ r \o h = Append(r, Head(h \o q))
<1> TAKE r, h, q \in Seq(Message)
<1> HAVE Len(h) = 1
<1>n. Len(q) \in Nat /\ Len(r) \in Nat BY LenProperties
<1>1. /\ h \o q \in Seq(Message) /\ Len(h \o q) = Len(h) + Len(q)
      /\ \A i \in 1..(Len(h) + Len(q)) : (h \o q)[i] =
           IF i <= Len(h) THEN h[i] ELSE q[i - Len(h)]
  BY ConcatProperties, Zenon
<1> DEFINE a == h \o q
<1>h. Len(h) = 1 OBVIOUS
<1>b. /\ a \in Seq(Message) /\ Len(a) = Len(h) + Len(q)
      /\ \A i \in 1..(Len(h) + Len(q)) : a[i] = IF i <= Len(h) THEN h[i] ELSE q[i - Len(h)]
  BY <1>1, Zenon
<1> HIDE DEF a
<1>2. a \in Seq(Message) /\ Len(a) = 1 + Len(q) BY <1>b, <1>h
<1>a. \A i \in 1..(1 + Len(q)) : a[i] = IF i <= 1 THEN h[i] ELSE q[i - 1] BY <1>b, <1>h
<1>3. a # <<>> BY <1>2, <1>n, EmptySeq
<1>4. /\ Tail(a) \in Seq(Message) /\ Len(Tail(a)) = Len(a) - 1
      /\ \A i \in 1..Len(Tail(a)) : Tail(a)[i] = a[i + 1]
      /\ Head(a) = a[1]
  BY <1>2, <1>3, HeadTailProperties
<1>5. a[1] = h[1] /\ Head(a) = h[1] BY <1>a, <1>4, <1>n
<1>6. Len(Tail(a)) = Len(q) BY <1>2, <1>4, <1>n
<1>7. ASSUME NEW i \in 1..Len(q) PROVE Tail(a)[i] = q[i]
  <2>1. Tail(a)[i] = a[i + 1] BY <1>4, <1>6
  <2>2. i + 1 \in 1..(1 + Len(q)) /\ ~(i + 1 <= 1) /\ (i + 1) - 1 = i BY <1>n
  <2>3. a[i + 1] = q[(i + 1) - 1] BY <1>a, <2>2
  <2> QED BY <2>1, <2>2, <2>3
<1>8. Tail(a) = q BY <1>4, <1>6, <1>7, SeqEqual
<1>9. <<>> \o q = q BY ConcatEmptySeq
<1>10. r \o h = Append(r, h[1])
  <2>0. h[1] \in Message BY ElementOfSeq
  <2>4. /\ r \o h \in Seq(Message) /\ Len(r \o h) = Len(r) + Len(h)
        /\ \A i \in 1..(Len(r) + Len(h)) : (r \o h)[i] =
             IF i <= Len(r) THEN r[i] ELSE h[i - Len(r)]
    BY ConcatProperties, Zenon
  <2> DEFINE b == r \o h
  <2>5. /\ b \in Seq(Message) /\ Len(b) = Len(r) + Len(h)
        /\ \A i \in 1..(Len(r) + Len(h)) : b[i] =
             IF i <= Len(r) THEN r[i] ELSE h[i - Len(r)]
    BY <2>4, Zenon
  <2> HIDE DEF b
  <2>1. /\ b \in Seq(Message) /\ Len(b) = Len(r) + 1
        /\ \A i \in 1..(Len(r) + 1) : b[i] =
             IF i <= Len(r) THEN r[i] ELSE h[i - Len(r)]
    BY <2>5, <1>h
  <2>2. /\ Append(r, h[1]) \in Seq(Message) /\ Len(Append(r, h[1])) = Len(r) + 1
        /\ \A i \in 1..Len(r) : Append(r, h[1])[i] = r[i]
        /\ Append(r, h[1])[Len(r) + 1] = h[1]
    BY <2>0, AppendProperties
  <2>3. ASSUME NEW i \in 1..(Len(r) + 1) PROVE b[i] = Append(r, h[1])[i]
    <3>1. CASE i <= Len(r) BY <1>n, <2>1, <2>2, <3>1
    <3>2. CASE i = Len(r) + 1
      <4>1. i - Len(r) = 1 /\ ~(i <= Len(r)) BY <1>n, <3>2
      <4>2. b[i] = h[i - Len(r)] BY <2>1, <4>1
      <4> QED BY <2>2, <3>2, <4>1, <4>2
    <3>3. i <= Len(r) \/ i = Len(r) + 1 BY <1>n
    <3> QED BY <3>1, <3>2, <3>3
  <2>6. b = Append(r, h[1]) BY <2>1, <2>2, <2>3, SeqEqual
  <2> QED BY <2>6 DEF b
<1> QED BY <1>3, <1>5, <1>8, <1>9, <1>10 DEF a

LEMMA WriteFrameDelivers ==
  ASSUME MailInv, NEW c \in Conns, WriteFrame(c)
  PROVE  Mail!Deliver(c)
<1> USE DEF MailInv, HubInv
<1>1. /\ UNCHANGED <<sock, writer, closed, queue, call, published, alive>>
      /\ writer[c] = "writing" /\ sock[c] \in {"open", "lost"} /\ hand[c] # <<>>
      /\ received' = [received EXCEPT ![c] = @ \o hand[c]]
      /\ hand' = [hand EXCEPT ![c] = <<>>]
  BY DEF WriteFrame, connVars
<1>2. \A d \in Conns : Box(d)' = Box(d) BY <1>1, BoxKept DEF Served
<1>3. Box(c) \in {"open", "leaving"} BY <1>1 DEF Box, Served
<1>4. \A p \in Callers, d \in Conns : \A m : Owes(p, d, m)' <=> Owes(p, d, m)
  BY <1>1, OwesKept
<1>5. \A d \in Conns : Owed(d)' = Owed(d) BY <1>2, <1>4, OwedKept
<1>6. /\ received[c] \in Seq(Message) /\ hand[c] \in Seq(Message)
      /\ queue[c] \in Seq(Message)
  BY DEF TypeOK
<1>7. Len(hand[c]) = 1 BY <1>1, HandHoldsOne
<1>8. hand'[c] = <<>> /\ queue'[c] = queue[c] BY <1>1 DEF TypeOK
<1>9. MailOf(c) = hand[c] \o queue[c] /\ MailOf(c)' = <<>> \o queue[c]
  BY <1>2, <1>3, <1>8 DEF MailOf
<1>10. /\ hand[c] \o queue[c] # <<>>
       /\ <<>> \o queue[c] = Tail(hand[c] \o queue[c])
       /\ received[c] \o hand[c] = Append(received[c], Head(hand[c] \o queue[c]))
  BY <1>6, <1>7, HandIsHead, Zenon
<1>11. /\ MailOf(c) # <<>> /\ MailOf(c)' = Tail(MailOf(c))
       /\ received[c] \o hand[c] = Append(received[c], Head(MailOf(c)))
  BY <1>9, <1>10, Zenon
<1>12. \A d \in Conns \ {c} : MailOf(d)' = MailOf(d)
  BY <1>1, <1>2 DEF MailOf, TypeOK
<1>13. received' = [received EXCEPT ![c] = Append(@, Head(MailOf(c)))]
  BY <1>1, <1>11
<1>m. [d \in Conns |-> MailOf(d)]' = [[d \in Conns |-> MailOf(d)] EXCEPT ![c] = Tail(@)]
  BY <1>11, <1>12
<1>14. Mail!Deliver(c)
  <2>1. [d \in Conns |-> MailOf(d)][c] = MailOf(c)
        /\ [d \in Conns |-> Box(d)][c] = Box(c)
    OBVIOUS
  <2>2. [d \in Conns |-> Box(d)]' = [d \in Conns |-> Box(d)] BY <1>2
  <2>3. [d \in Conns |-> Owed(d)]' = [d \in Conns |-> Owed(d)] BY <1>5
  <2> QED BY <1>1, <1>3, <1>11, <1>13, <1>m, <2>1, <2>2, <2>3
          DEF Mail!Deliver, MailOf
<1> QED BY <1>14

(* The copy of the clients of a user: the connections of the user that are *)
(* open, and some that only leave.                                         *)
LEMMA OpenAreClients ==
  ASSUME HubInv, NEW u \in Users, NEW c \in Conns, Box(c) = "open"
  PROVE  c \in CopyClients(u) <=> UserOf[c] = u
<1> USE DEF HubInv
<1>1. sock[c] # "none" /\ ~closed[c] BY BoxIs DEF Served
<1>2. c \in Clients(UserOf[c]) BY <1>1 DEF HubConsistent, Registered
<1>3. c \in Clients(u) => UserOf[c] = u BY DEF Clients, HubConsistent
<1> QED BY <1>2, <1>3 DEF CopyClients

(* A publication is owed to the connections of its user, and to no other.  *)
LEMMA PublishToUserPublishes ==
  ASSUME MailInv, NEW p \in Callers, NEW u \in Users, NEW step \in Publishing,
         PublishToUser(p, u, step)
  PROVE  Mail!Publish(p, u, step = "finalPublish")
<1> DEFINE message == [from |-> p, seq |-> published[p] + 1, to |-> u,
                       final |-> step = "finalPublish"]
           next == [step |-> step, user |-> u, targets |-> CopyClients(u)]
<1> USE DEF MailInv, HubInv
<1>1. /\ UNCHANGED <<sock, writer, closed, queue, hand, received, alive>>
      /\ call[p] = IdleCall /\ published' = [published EXCEPT ![p] = @ + 1]
      /\ call' = [call EXCEPT ![p] = Settled(next)]
  BY DEF PublishToUser, connVars
<1>2. p \in Threads /\ Callers \subseteq Threads BY DEF Threads
<1>3. \A q \in Callers \ {p} : call'[q] = call[q] /\ published'[q] = published[q]
  BY <1>1, <1>2 DEF TypeOK
<1>4. call'[p] = Settled(next) /\ published'[p] = published[p] + 1
  BY <1>1, <1>2 DEF TypeOK
<1>5. \A q \in Callers \ {p}, c \in Conns : \A m : Owes(q, c, m)' <=> Owes(q, c, m)
  BY <1>3 DEF Owes, MessageOf
<1>6. \A c \in Conns : \A m : ~Owes(p, c, m)
  BY <1>1 DEF Owes, IdleCall, Publishing
<1>7. ASSUME NEW c \in Conns, NEW m
      PROVE  Owes(p, c, m)' <=> c \in CopyClients(u) /\ m = message
  <2>1. CASE call'[p] = IdleCall /\ next.targets = {}
    <3>1. c \notin CopyClients(u) BY <2>1
    <3> QED BY <2>1, <3>1 DEF Owes, IdleCall, Publishing
  <2>2. CASE call'[p] = next
    <3>1. call'[p].step = step /\ call'[p].user = u
          /\ call'[p].targets = CopyClients(u)
      BY <2>2
    <3>2. MessageOf(p)' = message BY <1>4, <3>1, Zenon DEF MessageOf
    <3> HIDE DEF message
    <3> QED BY <3>1, <3>2 DEF Owes
  <2> QED BY <1>4, <2>1, <2>2 DEF Settled
<1> HIDE DEF message, next
<1>8. \A c \in Conns : Box(c)' = Box(c) BY <1>1, BoxKept DEF Served
<1>9. \A c \in Conns : MailOf(c)' = MailOf(c) BY <1>1, <1>8 DEF MailOf
<1>10. ASSUME NEW c \in Conns
       PROVE  Owed(c)' = IF Box(c) = "open" /\ UserOf[c] = u
                           THEN Owed(c) \cup {message} ELSE Owed(c)
  <2>1. CASE Box(c) # "open" BY <1>8, <2>1 DEF Owed
  <2>2. CASE Box(c) = "open"
    <3>1. c \in CopyClients(u) <=> UserOf[c] = u BY <2>2, OpenAreClients
    <3>2. \A m : m \in Owed(c)' <=> m \in Owed(c) \/ (UserOf[c] = u /\ m = message)
      BY <1>5, <1>6, <1>7, <1>8, <2>2, <3>1, OwedIs
    <3> QED BY <2>2, <3>2
  <2> QED BY <2>1, <2>2
<1>11. ASSUME NEW c \in Conns, NEW m \in Owed(c) PROVE m.from # p
  <2>1. PICK q \in Callers : Owes(q, c, m) BY <1>11, OwedIs
  <2>2. q # p BY <1>6, <2>1
  <2>3. m.from = q BY <2>1 DEF Owes, MessageOf
  <2> QED BY <2>2, <2>3
<1> QED BY <1>1, <1>8, <1>9, <1>10, <1>11
        DEF Mail!Publish, Mail!OwesNothing, MailOf, message

LEMMA AppendIsLast ==
  \A h, q \in Seq(Message), m \in Message : h \o Append(q, m) = Append(h \o q, m)
<1> TAKE h, q \in Seq(Message), m \in Message
<1>1. /\ Len(h \o Append(q, m)) = Len(h \o q) + 1
      /\ \A i \in 1..Len(h \o q) : (h \o Append(q, m))[i] = (h \o q)[i]
      /\ (h \o Append(q, m))[Len(h \o q) + 1] = m
  BY MessageQueued, Zenon
<1> DEFINE a == h \o q
           b == h \o Append(q, m)
<1>2. a \in Seq(Message) /\ Append(q, m) \in Seq(Message)
  BY ConcatProperties, AppendProperties
<1>3. b \in Seq(Message) BY <1>2, ConcatProperties
<1>4. /\ Len(b) = Len(a) + 1 /\ b[Len(a) + 1] = m
      /\ \A i \in 1..Len(a) : b[i] = a[i]
  BY <1>1
<1> HIDE DEF a, b
<1>5. /\ Append(a, m) \in Seq(Message) /\ Len(Append(a, m)) = Len(a) + 1
      /\ \A i \in 1..Len(a) : Append(a, m)[i] = a[i]
      /\ Append(a, m)[Len(a) + 1] = m
  BY <1>2, AppendProperties
<1>6. Len(a) \in Nat BY <1>2, LenProperties
<1>7. \A i \in 1..Len(b) : b[i] = Append(a, m)[i] BY <1>4, <1>5, <1>6
<1>8. b = Append(a, m) BY <1>3, <1>4, <1>5, <1>7, SeqEqual
<1> QED BY <1>8 DEF a, b

(* A frame is queued; a connection that is over accepts it in vain.        *)
LEMMA SendFrameAccepts ==
  ASSUME MailInv, NEW p \in Callers, NEW c \in Conns, SendFrame(p, c)
  PROVE  (\E m \in Owed(c) : Mail!Accept(c, m)) \/ UNCHANGED Mail!boxVars
<1> USE DEF MailInv, HubInv
<1>1. /\ UNCHANGED <<sock, writer, closed, hand, published, received, alive>>
      /\ call[p].step \in Publishing /\ c \in call[p].targets /\ ~closed[c]
      /\ queue' = [queue EXCEPT ![c] = Append(@, MessageOf(p))]
      /\ call' = [call EXCEPT ![p] = Without(p, c)]
  BY DEF SendFrame, Visits, Enqueue, connVars
<1>2. p \in Threads BY DEF Threads
<1>3. \A d \in Conns : Box(d)' = Box(d) BY <1>1, BoxKept DEF Served
<1>4. \A q \in Callers, d \in Conns :
        \A m : Owes(q, d, m)' <=> Owes(q, d, m) /\ ~(q = p /\ d = c)
  BY <1>1, <1>2, OwesAdvance
<1>5. \A d \in Conns \ {c} : Owed(d)' = Owed(d) BY <1>3, <1>4, OwedKept
<1>6. \A d \in Conns \ {c} : MailOf(d)' = MailOf(d)
  BY <1>1, <1>3 DEF MailOf, TypeOK
<1>7. Box(c) \in {"open", "over"}
  BY <1>1, <1>2, BoxIs DEF CallsConsistent
<1>8. CASE Box(c) = "over"
  <2>1. Owed(c)' = Owed(c) /\ MailOf(c)' = MailOf(c)
    BY <1>3, <1>8 DEF Owed, MailOf
  <2> QED BY <1>1, <1>3, <1>5, <1>6, <2>1, MailStutters
<1>9. CASE Box(c) = "open"
  <2>1. Owes(p, c, MessageOf(p)) BY <1>1 DEF Owes
  <2>2. MessageOf(p) \in Owed(c) BY <1>9, <2>1, OwedIs
  <2>3. Owed(c)' = Owed(c) \ {MessageOf(p)}
    <3>1. \A m : Owes(p, c, m) <=> m = MessageOf(p) BY <1>1 DEF Owes
    <3>2. \A q \in Callers : Owes(q, c, MessageOf(p)) => q = p
      BY DEF Owes, MessageOf
    <3>3. \A m : m \in Owed(c)' <=> m \in Owed(c) /\ m # MessageOf(p)
      BY <1>3, <1>4, <1>9, <3>1, <3>2, OwedIs
    <3> QED BY <3>3
  <2>4. MailOf(c)' = Append(MailOf(c), MessageOf(p))
    <3>1. /\ hand[c] \in Seq(Message) /\ queue[c] \in Seq(Message)
          /\ MessageOf(p) \in Message
      BY <1>1, MessageType DEF TypeOK
    <3>2. queue'[c] = Append(queue[c], MessageOf(p)) /\ hand'[c] = hand[c]
      BY <1>1 DEF TypeOK
    <3>3. hand[c] \o Append(queue[c], MessageOf(p))
            = Append(hand[c] \o queue[c], MessageOf(p))
      BY <3>1, AppendIsLast, Zenon
    <3> QED BY <1>3, <1>9, <3>2, <3>3 DEF MailOf
  <2> HIDE DEF MailInv, HubInv
  <2>5. PICK m \in Owed(c) : m = MessageOf(p) BY <2>2
  <2>6. Mail!Accept(c, m)
    BY <1>1, <1>3, <1>5, <1>6, <1>9, <2>3, <2>4, <2>5 DEF Mail!Accept, MailOf
  <2> QED BY <2>6
<1> QED BY <1>7, <1>8, <1>9

(* A publisher counts a frame, or finds a channel full.                    *)
LEMMA CountStutters ==
  ASSUME MailInv, NEW p \in Callers,
         \/ CountSent(p) \/ CountDropped(p) \/ \E c \in Conns : FindFull(p, c)
  PROVE  UNCHANGED Mail!boxVars
<1> USE DEF MailInv, HubInv
<1>1. /\ UNCHANGED <<sock, writer, closed, queue, hand, published, received, alive>>
      /\ call' = call \/ call' = [call EXCEPT ![p] = Settled(@)]
  BY DEF CountSent, CountDropped, FindFull, connVars
<1>2. p \in Threads /\ Callers \subseteq Threads BY DEF Threads
<1>3. ASSUME NEW q \in Callers, NEW c \in Conns, NEW m
      PROVE  Owes(q, c, m)' <=> Owes(q, c, m)
  <2>1. CASE call'[q] = call[q] BY <1>1, <2>1, OwesKept
  <2>2. CASE call'[q] = Settled(call[q])
    <3>1. call[q] \in Call BY <1>2 DEF TypeOK
    <3>2. Owes(q, c, m)' <=> /\ call[q].step \in Publishing
                             /\ c \in call[q].targets /\ m = MessageOf(q)
      BY <1>1, <2>2, <3>1, OwesSettled
    <3> QED BY <3>2 DEF Owes
  <2> QED BY <1>1, <1>2, <2>1, <2>2 DEF TypeOK
<1>4. \A c \in Conns : Box(c)' = Box(c) BY <1>1, BoxKept DEF Served
<1>5. \A c \in Conns : Owed(c)' = Owed(c) /\ MailOf(c)' = MailOf(c)
  BY <1>1, <1>3, <1>4, OwedKept DEF MailOf
<1> QED BY <1>1, <1>4, <1>5, MailStutters

(* A target is closed, as slow or by a close of its user.                  *)
LEMMA CloseEnds ==
  ASSUME MailInv, NEW t \in Threads, NEW c \in Conns,
         (t \in Callers /\ DropSlow(t, c)) \/ CloseTarget(t, c)
  PROVE  Mail!End(c) \/ UNCHANGED Mail!boxVars
<1> USE DEF MailInv, HubInv
<1>1. /\ UNCHANGED <<queue, hand, closed, writer, published, received, alive>>
      /\ TargetDone(t, c)
      /\ sock' = [sock EXCEPT ![c] = "closed"]
  BY DEF DropSlow, CloseTarget
<1>0. c \in call[t].targets BY DEF DropSlow, CloseTarget, CallsConsistent
<1>2. sock[c] # "none" BY <1>0 DEF CallsConsistent
<1>3. Box(c) # "none" /\ Box(c)' = "over" BY <1>1, <1>2 DEF Box, Served, TypeOK
<1>4. \A d \in Conns \ {c} : Box(d)' = Box(d)
  BY <1>1, BoxKept DEF Served, TypeOK
<1>5. \A p \in Callers, d \in Conns \ {c} : \A m : Owes(p, d, m)' <=> Owes(p, d, m)
  BY <1>1, OwesAdvance
<1>6. \A d \in Conns \ {c} : Owed(d)' = Owed(d) BY <1>4, <1>5, OwedKept
<1> QED BY <1>1, <1>3, <1>4, <1>6, BoxEnds

(* The close after the final publication: that one has visited all.        *)
LEMMA CloseAfterFinalStutters ==
  ASSUME MailInv, NEW p \in Callers, CloseAfterFinal(p)
  PROVE  UNCHANGED Mail!boxVars
<1> DEFINE next == [step |-> "finalClose", user |-> call[p].user,
                    targets |-> CopyClients(call[p].user)]
<1> USE DEF MailInv, HubInv
<1>1. /\ UNCHANGED <<sock, writer, closed, queue, hand, published, received, alive>>
      /\ call[p].targets = {} /\ call' = [call EXCEPT ![p] = Settled(next)]
  BY DEF CloseAfterFinal, connVars
<1>2. p \in Threads /\ Callers \subseteq Threads BY DEF Threads
<1>3. \A c \in Conns : \A m : ~Owes(p, c, m) /\ ~Owes(p, c, m)'
  <2>1. call'[p] = Settled(next) BY <1>1, <1>2 DEF TypeOK
  <2>2. call'[p].step \notin Publishing
    BY <2>1 DEF Settled, IdleCall, Publishing
  <2> QED BY <1>1, <2>2 DEF Owes
<1>4. \A q \in Callers \ {p} : call'[q] = call[q] BY <1>1, <1>2 DEF TypeOK
<1>5. \A q \in Callers, c \in Conns : \A m : Owes(q, c, m)' <=> Owes(q, c, m)
  BY <1>1, <1>3, <1>4, OwesKept
<1>6. \A c \in Conns : Box(c)' = Box(c) BY <1>1, BoxKept DEF Served
<1>7. \A c \in Conns : Owed(c)' = Owed(c) /\ MailOf(c)' = MailOf(c)
  BY <1>1, <1>5, <1>6, OwedKept DEF MailOf
<1> QED BY <1>1, <1>6, <1>7, MailStutters

(* A panic needs a connection that has left, and spares the process only   *)
(* on the goroutine of a DELETE, which owed the empty list.                *)
LEMMA SendOnClosedAbandons ==
  ASSUME MailInv, NEW p \in Callers, NEW c \in Conns, SendOnClosed(p, c)
  PROVE  Mail!Abandon(p)
<1> USE DEF MailInv, HubInv
<1>1. /\ UNCHANGED <<sock, writer, closed, queue, hand, published, received>>
      /\ c \in call[p].targets /\ closed[c]
      /\ call' = [call EXCEPT ![p] = IdleCall]
  BY DEF SendOnClosed, Visits, connVars
<1>2. alive' \in BOOLEAN /\ (alive' => call[p].step = "finalPublish")
  BY DEF SendOnClosed
<1>3. p \in Threads /\ Callers \subseteq Threads BY DEF Threads
<1>4. Box(c) \in {"leaving", "over"}
  BY <1>1, <1>3, BoxIs DEF CallsConsistent
<1>5. \A d \in Conns : \A m : ~Owes(p, d, m)'
  BY <1>1, <1>3 DEF Owes, IdleCall, Publishing, TypeOK
<1>6. \A q \in Callers \ {p}, d \in Conns : \A m : Owes(q, d, m)' <=> Owes(q, d, m)
  BY <1>1, <1>3, OwesKept DEF TypeOK
<1>7. \A q \in Callers : \A d : \A m : Owes(q, d, m) => m.from = q
  BY DEF Owes, MessageOf
<1>8. \A d \in Conns : Box(d)' = Box(d) BY <1>1, BoxKept DEF Served
<1>9. \A d \in Conns : MailOf(d)' = MailOf(d) BY <1>1, <1>8 DEF MailOf
<1>10. ASSUME NEW d \in Conns PROVE Owed(d)' = {m \in Owed(d) : m.from # p}
  <2>1. \A m : m \in Owed(d)' <=> m \in Owed(d) /\ m.from # p
    BY <1>5, <1>6, <1>7, <1>8, OwedIs
  <2> QED BY <2>1
<1>11. ASSUME alive', NEW d \in Conns, NEW m \in Owed(d), m.from = p
       PROVE  m.final
  <2>1. Owes(p, d, m) BY <1>7, <1>11, OwedIs
  <2>2. m = MessageOf(p) BY <2>1 DEF Owes
  <2>3. MessageOf(p).final <=> call[p].step = "finalPublish"
    BY Zenon DEF MessageOf
  <2> QED BY <1>2, <1>11, <2>2, <2>3
<1> QED BY <1>1, <1>2, <1>4, <1>8, <1>9, <1>10, <1>11 DEF Mail!Abandon, MailOf

(* Every step of the hub is one of the mailboxes, or a stutter.            *)
LEMMA NextMail ==
  ASSUME MailInv, [Next]_vars
  PROVE  [Mail!MailNext]_(Mail!boxVars)
<1>1. ASSUME NEW c \in Conns, Register(c) PROVE Mail!Open(c)
  BY <1>1, RegisterOpens
<1>2. ASSUME NEW c \in Conns,
             \/ StartPumps(c) \/ PeerLost(c) \/ ReadFails(c) \/ ReaderExits(c)
             \/ TakeFrame(c) \/ WriteFails(c) \/ IncrementWriteError(c) \/ QueueClosed(c)
             \/ WriterExits(c) \/ IdleTimeout(c)
      PROVE  Mail!Leave(c) \/ Mail!End(c) \/ UNCHANGED Mail!boxVars
  BY <1>2, PumpStutters, TakeFrameStutters, ReadFailsLeaves, PumpEnds
<1>3. ASSUME NEW c \in Conns, WriteFrame(c) PROVE Mail!Deliver(c)
  BY <1>3, WriteFrameDelivers
<1>4. ASSUME NEW p \in Callers, NEW u \in Users, NEW step \in Publishing,
             PublishToUser(p, u, step)
      PROVE  \E final \in BOOLEAN : Mail!Publish(p, u, final)
  <2>1. (step = "finalPublish") \in BOOLEAN OBVIOUS
  <2> QED BY <1>4, <2>1, PublishToUserPublishes
<1>5. ASSUME NEW p \in Callers, NEW c \in Conns, SendFrame(p, c)
      PROVE  (\E m \in Owed(c) : Mail!Accept(c, m)) \/ UNCHANGED Mail!boxVars
  BY <1>5, SendFrameAccepts
<1>6. ASSUME NEW p \in Callers, NEW c \in Conns, DropSlow(p, c)
      PROVE  Mail!End(c) \/ UNCHANGED Mail!boxVars
  BY <1>6, CloseEnds DEF Threads
<1>7. ASSUME NEW t \in Threads, NEW c \in Conns, CloseTarget(t, c)
      PROVE  Mail!End(c) \/ UNCHANGED Mail!boxVars
  BY <1>7, CloseEnds
<1>8. ASSUME NEW p \in Callers, CloseAfterFinal(p) PROVE UNCHANGED Mail!boxVars
  BY <1>8, CloseAfterFinalStutters
<1>9. ASSUME NEW p \in Callers, NEW c \in Conns, SendOnClosed(p, c)
      PROVE  Mail!Abandon(p)
  BY <1>9, SendOnClosedAbandons
<1>s. ASSUME NEW p \in Callers,
             \/ CountSent(p) \/ CountDropped(p) \/ \E c \in Conns : FindFull(p, c)
      PROVE  UNCHANGED Mail!boxVars
  BY <1>s, CountStutters
<1>10. \A c \in Conns : [d \in Conns |-> Owed(d)][c] = Owed(c) OBVIOUS
<1>11. CASE UNCHANGED vars
  <2>1. UNCHANGED Mail!boxVars
    BY <1>11 DEF vars, visits, Mail!boxVars, Box, Served, Owed, MessageOf
  <2> QED BY <2>1
<1>12. CASE Next
  <2>1. alive BY <1>12 DEF Next
  <2>2. \/ \E c \in Conns : \/ Mail!Open(c) \/ Mail!Deliver(c) \/ Mail!Leave(c)
                           \/ Mail!End(c) \/ \E m \in Owed(c) : Mail!Accept(c, m)
        \/ \E p \in Callers : \/ Mail!Abandon(p)
                              \/ \E u \in Users, final \in BOOLEAN :
                                   Mail!Publish(p, u, final)
        \/ UNCHANGED Mail!boxVars
    BY <1>1, <1>2, <1>3, <1>4, <1>5, <1>6, <1>7, <1>8, <1>9, <1>s, <1>12, Zenon
    DEF Next, ReaderStep, WriterStep, PublishStep, CallStep
  <2> QED BY <1>10, <2>1, <2>2 DEF Mail!MailNext
<1> QED BY <1>11, <1>12

LEMMA InitMail == ASSUME Init PROVE Mail!MailInit
<1>1. \A c \in Conns : Box(c) = "none" BY DEF Init, Box
<1>2. \A c \in Conns : Owed(c) = {} BY <1>1 DEF Owed
<1>3. <<>> \o <<>> = <<>> OBVIOUS
<1> QED BY <1>1, <1>2, <1>3 DEF Init, Mail!MailInit

(* The hub, with its copied targets, bounded channels and pumps that end   *)
(* in any order, implements one mailbox per connection: what is published  *)
(* for a user reaches every connection of the user that is served, in      *)
(* order and without a gap, for any number of users, connections and       *)
(* publishers (PublishToUser, Unregister, CloseUserConnections, the pumps).*)
THEOREM ImplementsMailboxes == Spec => IsMailboxes
<1>1. Init => MailInv /\ Mail!MailInit BY InitMailInv, InitMail
<1>2. MailInv /\ [Next]_vars => MailInv' BY NextMailInv
<1>3. MailInv /\ [Next]_vars => [Mail!MailNext]_(Mail!boxVars) BY NextMail
<1> QED BY <1>1, <1>2, <1>3, PTL DEF Spec, IsMailboxes, Mail!MailSpec

-----------------------------------------------------------------------------
(* The calls of the hub return.                                            *)

(* Only a writePump that is about to end closes the connections of its     *)
(* user: it starts no second call before the first has returned.           *)
CloserEnds == \A c \in Conns : call[c] # IdleCall => writer[c] = "closing"

CallInv == MailInv /\ CloserEnds /\ CallsGoOn

(* What a call has to do, and where its goroutine is in its iteration.     *)
Steps(cl) ==
  3 * Cardinality(cl.targets)
    + (IF cl.step = "finalPublish" THEN 3 * Cardinality(Conns) + 1 ELSE 0)

Where(t) == IF t \in Callers THEN at[t] ELSE "loop"

Extra(w) ==
  CASE w = "loop" -> 0 [] w = "sent" -> 1 [] w = "full" -> -1 [] w = "slow" -> -2

LEMMA StepsAre ==
  \A t \in Threads : /\ StepsLeft(t) = Steps(call[t]) + Extra(Where(t))
                     /\ StepsLeft(t)' = Steps(call'[t]) + Extra(Where(t)')
<1>1. Extra("loop") = 0 BY DEF Extra
<1>2. ASSUME NEW t \in Threads PROVE StepsLeft(t) = Steps(call[t]) + Extra(Where(t))
  BY <1>1 DEF StepsLeft, Steps, Where, Extra
<1>3. ASSUME NEW t \in Threads
      PROVE  StepsLeft(t)' = Steps(call'[t]) + Extra(Where(t)')
  BY <1>1 DEF StepsLeft, Steps, Where, Extra
<1> QED BY <1>2, <1>3

(* Targets are connections, of which there are finitely many.              *)
LEMMA StepsType ==
  ASSUME NEW cl \in Call
  PROVE  /\ IsFiniteSet(cl.targets) /\ Cardinality(Conns) \in Nat
         /\ Cardinality(cl.targets) \in Nat
         /\ Cardinality(cl.targets) <= Cardinality(Conns)
         /\ Steps(cl) \in Nat
<1>1. cl.targets \subseteq Conns BY DEF Call
<1>2. /\ IsFiniteSet(cl.targets) /\ IsFiniteSet(Conns)
      /\ Cardinality(cl.targets) <= Cardinality(Conns)
  BY <1>1, HubAssumption, FS_Subset
<1>3. Cardinality(cl.targets) \in Nat /\ Cardinality(Conns) \in Nat
  BY <1>2, FS_CardinalityType
<1>4. Steps(cl) \in Nat BY <1>3 DEF Steps
<1> QED BY <1>2, <1>3, <1>4

(* Whether a call returns or goes on is no step of its own.                *)
LEMMA SettledSteps ==
  ASSUME NEW cl \in Call
  PROVE  /\ Steps(Settled(cl)) = Steps(cl)
         /\ Settled(cl) # IdleCall => Steps(cl) > 0
<1>1. Cardinality({}) = 0 BY FS_EmptySet
<1>2. Steps(IdleCall) = 0 BY <1>1 DEF Steps, IdleCall
<1>3. CASE cl.targets = {} /\ cl.step # "finalPublish"
  <2>1. Settled(cl) = IdleCall BY <1>3 DEF Settled
  <2>2. Steps(cl) = 0 BY <1>1, <1>3 DEF Steps
  <2> QED BY <1>2, <2>1, <2>2
<1>4. CASE ~(cl.targets = {} /\ cl.step # "finalPublish")
  <2>1. Settled(cl) = cl BY <1>4 DEF Settled
  <2>2. cl.step = "finalPublish" => Steps(cl) > 0 BY StepsType DEF Steps
  <2>3. cl.targets # {} /\ cl.step # "finalPublish" => Steps(cl) > 0
    <3>1. cl.targets # {} => Cardinality(cl.targets) # 0 BY StepsType, FS_EmptySet
    <3> QED BY <3>1, StepsType DEF Steps
  <2> QED BY <1>4, <2>1, <2>2, <2>3
<1> QED BY <1>3, <1>4

(* A target visited is three steps less to take.                           *)
LEMMA WithoutSteps ==
  ASSUME TypeOK, NEW t \in Threads, NEW c, c \in call[t].targets
  PROVE  /\ Steps(Without(t, c)) \in Nat
         /\ Steps(Without(t, c)) = Steps(call[t]) - 3
         /\ Steps(call[t]) \in Nat /\ Steps(call[t]) >= 3
<1> DEFINE cl == call[t]
           next == Without(t, c)
<1>1. /\ cl \in Call /\ next \in Call
      /\ next.step = cl.step /\ next.targets = cl.targets \ {c}
  BY WithoutType DEF TypeOK
<1> HIDE DEF next
<1>2. Cardinality(next.targets) = Cardinality(cl.targets) - 1
  <2>1. IsFiniteSet(cl.targets) BY <1>1, StepsType
  <2>2. Cardinality(cl.targets \ {c}) = Cardinality(cl.targets) - 1
    BY <2>1, FS_RemoveElement
  <2> QED BY <1>1, <2>2
<1>3. Steps(cl) \in Nat /\ Steps(next) \in Nat BY <1>1, StepsType
<1>4. Steps(next) = Steps(cl) - 3 BY <1>1, <1>2, StepsType DEF Steps
<1> QED BY <1>3, <1>4 DEF next

(* What a step does to the call of a goroutine: nothing, its start, or one *)
(* step less to take.                                                      *)
Moves(t) ==
  \/ call'[t] = call[t] /\ Where(t)' = Where(t)
  \/ call[t] = IdleCall /\ (call'[t] # IdleCall => StepsLeft(t)' > 0)
  \/ /\ StepsLeft(t)' < StepsLeft(t)
     /\ call'[t] # IdleCall => StepsLeft(t)' > 0

(* A goroutine s moves to cl and w; the others stay where they are.        *)
MovesTo(s, cl, w) ==
  /\ call' = [call EXCEPT ![s] = cl]
  /\ \A p \in Callers : at'[p] = IF p = s THEN w ELSE at[p]
  /\ s \notin Callers => w = "loop"

LEMMA OthersStay ==
  ASSUME TypeOK, NEW s \in Threads, NEW cl, NEW w, MovesTo(s, cl, w)
  PROVE  /\ call'[s] = cl /\ Where(s)' = w
         /\ \A t \in Threads \ {s} : call'[t] = call[t] /\ Where(t)' = Where(t)
BY DEF MovesTo, Where, TypeOK

LEMMA MovesCloser ==
  ASSUME TypeOK, NEW s \in Threads, NEW cl, NEW w, MovesTo(s, cl, w),
         \/ call[s] = IdleCall
         \/ Steps(cl) + Extra(w) < Steps(call[s]) + Extra(Where(s)),
         cl # IdleCall => Steps(cl) + Extra(w) > 0,
         NEW t \in Threads
  PROVE  Moves(t)
<1>1. /\ call'[s] = cl /\ Where(s)' = w
      /\ t # s => call'[t] = call[t] /\ Where(t)' = Where(t)
  BY OthersStay
<1>2. /\ StepsLeft(s) = Steps(call[s]) + Extra(Where(s))
      /\ StepsLeft(s)' = Steps(cl) + Extra(w)
  BY <1>1, StepsAre
<1>3. CASE t # s BY <1>1, <1>3 DEF Moves
<1>4. CASE t = s BY <1>1, <1>2, <1>4, Zenon DEF Moves
<1> QED BY <1>3, <1>4

LEMMA NextMoves ==
  ASSUME CallInv, [Next]_vars, NEW t \in Threads
  PROVE  Moves(t)
<1> USE DEF CallInv, MailInv, HubInv
<1>1. /\ call \in [Threads -> Call] /\ Callers \subseteq Threads
      /\ Conns \subseteq Threads /\ Callers \cap Conns = {}
      /\ at \in [Callers -> {"loop", "sent", "full", "slow"}]
  BY HubAssumption DEF TypeOK, Threads
<1>2. /\ Extra("loop") = 0 /\ Extra("sent") = 1
      /\ Extra("full") = -1 /\ Extra("slow") = -2
  BY DEF Extra
<1>3. \A p \in Callers : Where(p) = at[p] BY DEF Where
<1>4. ASSUME NEW p \in Callers, NEW c \in Conns, SendFrame(p, c) PROVE Moves(t)
  <2>1. /\ MovesTo(p, Without(p, c), "sent")
        /\ at[p] = "loop" /\ c \in call[p].targets
    BY <1>1, <1>4 DEF SendFrame, Visits, MovesTo
  <2>2. /\ Steps(Without(p, c)) \in Nat
        /\ Steps(Without(p, c)) = Steps(call[p]) - 3 /\ Steps(call[p]) \in Nat
    BY <1>1, <2>1, WithoutSteps
  <2>3. /\ Steps(Without(p, c)) + Extra("sent") < Steps(call[p]) + Extra(Where(p))
        /\ Steps(Without(p, c)) + Extra("sent") > 0
    BY <1>2, <1>3, <2>1, <2>2
  <2> QED BY <1>1, <2>1, <2>3, MovesCloser
<1>5. ASSUME NEW p \in Callers, CountSent(p) PROVE Moves(t)
  <2>1. MovesTo(p, Settled(call[p]), "loop") /\ at[p] = "sent" /\ call[p] \in Call
    BY <1>1, <1>5 DEF CountSent, MovesTo
  <2>2. /\ Steps(Settled(call[p])) = Steps(call[p]) /\ Steps(call[p]) \in Nat
        /\ Settled(call[p]) # IdleCall => Steps(call[p]) > 0
    BY <2>1, SettledSteps, StepsType
  <2>3. /\ Steps(Settled(call[p])) + Extra("loop") < Steps(call[p]) + Extra(Where(p))
        /\ Settled(call[p]) # IdleCall => Steps(Settled(call[p])) + Extra("loop") > 0
    BY <1>2, <1>3, <2>1, <2>2
  <2> QED BY <1>1, <2>1, <2>3, MovesCloser
<1>6. ASSUME NEW p \in Callers, NEW c \in Conns, FindFull(p, c) PROVE Moves(t)
  <2>1. /\ MovesTo(p, call[p], "full")
        /\ at[p] = "loop" /\ c \in call[p].targets
    BY <1>1, <1>6 DEF FindFull, Visits, MovesTo
  <2>2. Steps(call[p]) \in Nat /\ Steps(call[p]) >= 3 BY <1>1, <2>1, WithoutSteps
  <2>3. /\ Steps(call[p]) + Extra("full") < Steps(call[p]) + Extra(Where(p))
        /\ Steps(call[p]) + Extra("full") > 0
    BY <1>2, <1>3, <2>1, <2>2
  <2> QED BY <1>1, <2>1, <2>3, MovesCloser
<1>7. ASSUME NEW p \in Callers, CountDropped(p) PROVE Moves(t)
  <2>1. /\ MovesTo(p, call[p], "slow")
        /\ at[p] = "full" /\ tried[p] \in call[p].targets
    BY <1>1, <1>7 DEF CountDropped, MovesTo, CallsConsistent
  <2>2. Steps(call[p]) \in Nat /\ Steps(call[p]) >= 3 BY <1>1, <2>1, WithoutSteps
  <2>3. /\ Steps(call[p]) + Extra("slow") < Steps(call[p]) + Extra(Where(p))
        /\ Steps(call[p]) + Extra("slow") > 0
    BY <1>2, <1>3, <2>1, <2>2
  <2> QED BY <1>1, <2>1, <2>3, MovesCloser
<1>8. ASSUME NEW s \in Threads, NEW c \in Conns, NEW w, c \in call[s].targets,
             MovesTo(s, Settled(Without(s, c)), "loop"), Where(s) = w,
             w \in {"loop", "slow"}
      PROVE  Moves(t)
  <2>1. /\ Steps(Without(s, c)) \in Nat
        /\ Steps(Without(s, c)) = Steps(call[s]) - 3 /\ Steps(call[s]) \in Nat
    BY <1>8, WithoutSteps
  <2>2. Without(s, c) \in Call BY WithoutType
  <2>3. /\ Steps(Settled(Without(s, c))) = Steps(Without(s, c))
        /\ Settled(Without(s, c)) # IdleCall => Steps(Without(s, c)) > 0
    BY <2>2, SettledSteps
  <2>4. /\ Steps(Settled(Without(s, c))) + Extra("loop") < Steps(call[s]) + Extra(Where(s))
        /\ Settled(Without(s, c)) # IdleCall
             => Steps(Settled(Without(s, c))) + Extra("loop") > 0
    BY <1>2, <1>8, <2>1, <2>3
  <2> QED BY <1>8, <2>4, MovesCloser
<1>9. ASSUME NEW p \in Callers, NEW c \in Conns, DropSlow(p, c) PROVE Moves(t)
  <2>1. /\ MovesTo(p, Settled(Without(p, c)), "loop")
        /\ Where(p) = "slow" /\ c \in call[p].targets
    BY <1>1, <1>9 DEF DropSlow, TargetDone, MovesTo, Where, CallsConsistent
  <2> QED BY <1>1, <1>8, <2>1
<1>10. ASSUME NEW s \in Threads, NEW c \in Conns, CloseTarget(s, c) PROVE Moves(t)
  <2>1. /\ c \in call[s].targets /\ call[s].step \in Closing
        /\ call' = [call EXCEPT ![s] = Settled(Without(s, c))] /\ at' = at
    BY <1>10 DEF CloseTarget, TargetDone, visits
  <2>2. Where(s) = "loop"
    BY <2>1 DEF Where, CallsConsistent, Closing, Publishing
  <2>3. MovesTo(s, Settled(Without(s, c)), "loop")
    BY <2>1, <2>2 DEF MovesTo, Where
  <2> QED BY <1>8, <2>1, <2>2, <2>3
<1>11. ASSUME NEW p \in Callers, NEW c \in Conns, SendOnClosed(p, c) PROVE Moves(t)
  <2>1. /\ MovesTo(p, IdleCall, "loop") /\ at[p] = "loop"
        /\ c \in call[p].targets
    BY <1>1, <1>11 DEF SendOnClosed, Visits, visits, MovesTo
  <2>2. Steps(call[p]) \in Nat /\ Steps(call[p]) >= 3 BY <1>1, <2>1, WithoutSteps
  <2>3. Steps(IdleCall) = 0 BY FS_EmptySet DEF Steps, IdleCall
  <2>4. Steps(IdleCall) + Extra("loop") < Steps(call[p]) + Extra(Where(p))
    BY <1>2, <1>3, <2>1, <2>2, <2>3
  <2> QED BY <1>1, <2>1, <2>4, MovesCloser
<1>12. ASSUME NEW p \in Callers, CloseAfterFinal(p) PROVE Moves(t)
  <2> DEFINE u == call[p].user
             next == [step |-> "finalClose", user |-> u, targets |-> CopyClients(u)]
  <2>1. /\ call[p].step = "finalPublish" /\ call[p].targets = {} /\ at[p] = "loop"
        /\ call' = [call EXCEPT ![p] = Settled(next)] /\ at' = at
    BY <1>12 DEF CloseAfterFinal, visits
  <2>2. call[p] \in Call /\ u \in Users \cup {NoUser} BY <1>1 DEF Call
  <2>3. next \in Call BY <2>2, ClientsType, CallType DEF CopyClients, Closing
  <2>4. next.step = "finalClose" OBVIOUS
  <2> HIDE DEF next, u
  <2>5. MovesTo(p, Settled(next), "loop") BY <1>1, <2>1 DEF MovesTo
  <2>6. Steps(next) = 3 * Cardinality(next.targets)
    BY <2>3, <2>4, StepsType DEF Steps
  <2>7. Steps(call[p]) = 3 * Cardinality(Conns) + 1
    BY <2>1, <2>2, StepsType, FS_EmptySet DEF Steps
  <2>8. Steps(next) \in Nat /\ Steps(next) < Steps(call[p]) /\ Steps(call[p]) \in Nat
    BY <2>2, <2>3, <2>6, <2>7, StepsType
  <2>9. /\ Steps(Settled(next)) = Steps(next)
        /\ Settled(next) # IdleCall => Steps(next) > 0
    BY <2>3, SettledSteps
  <2>10. /\ Steps(Settled(next)) + Extra("loop") < Steps(call[p]) + Extra(Where(p))
         /\ Settled(next) # IdleCall => Steps(Settled(next)) + Extra("loop") > 0
    BY <1>2, <1>3, <2>1, <2>8, <2>9
  <2> QED BY <1>1, <2>5, <2>10, MovesCloser
<1>13. ASSUME NEW s \in Threads, NEW u \in Users, NEW step \in Publishing \cup Closing,
              call[s] = IdleCall, at' = at,
              call' = [call EXCEPT ![s] = Settled([step |-> step, user |-> u,
                                                   targets |-> CopyClients(u)])]
       PROVE  Moves(t)
  <2> DEFINE next == [step |-> step, user |-> u, targets |-> CopyClients(u)]
  <2>1. next \in Call BY ClientsType, CallType DEF CopyClients
  <2>2. Where(s) = "loop"
    BY <1>13 DEF Where, CallsConsistent, IdleCall, Publishing
  <2> HIDE DEF next
  <2>3. MovesTo(s, Settled(next), "loop") BY <1>13, <2>2 DEF MovesTo, Where, next
  <2>4. /\ Steps(Settled(next)) = Steps(next) /\ Steps(next) \in Nat
        /\ Settled(next) # IdleCall => Steps(next) > 0
    BY <2>1, SettledSteps, StepsType
  <2>5. Settled(next) # IdleCall => Steps(Settled(next)) + Extra("loop") > 0
    BY <1>2, <2>4
  <2> QED BY <1>13, <2>3, <2>5, MovesCloser
<1>14. ASSUME UNCHANGED <<call, at>> PROVE Moves(t)
  <2>1. call'[t] = call[t] /\ Where(t)' = Where(t) BY <1>14 DEF Where
  <2> QED BY <2>1 DEF Moves
<1>15. ASSUME NEW c \in Conns, IdleTimeout(c) PROVE Moves(t)
  <2>1. call[c] = IdleCall /\ at' = at BY <1>15 DEF IdleTimeout, AtSelect, visits
  <2>2. UserOf[c] \in Users /\ "close" \in Publishing \cup Closing
    BY HubAssumption DEF Closing
  <2>3. CASE UNCHANGED call BY <1>14, <2>1, <2>3
  <2> QED BY <1>1, <1>13, <1>15, <2>1, <2>2, <2>3 DEF IdleTimeout
<1>16. ASSUME NEW p \in Callers, NEW u \in Users, NEW step \in Publishing,
              PublishToUser(p, u, step)
       PROVE  Moves(t)
  BY <1>1, <1>13, <1>16 DEF PublishToUser, visits
<1>17. \/ UNCHANGED <<call, at>>
       \/ \E c \in Conns : IdleTimeout(c)
       \/ \E p \in Callers, u \in Users, step \in Publishing : PublishToUser(p, u, step)
       \/ \E p \in Callers, c \in Conns :
            SendFrame(p, c) \/ FindFull(p, c) \/ DropSlow(p, c) \/ SendOnClosed(p, c)
       \/ \E p \in Callers : CountSent(p) \/ CountDropped(p) \/ CloseAfterFinal(p)
       \/ \E s \in Threads, c \in Conns : CloseTarget(s, c)
  BY DEF Next, vars, visits, Register, PeerLost, ReaderStep, StartPumps, ReadFails,
         ReaderExits, WriterStep, TakeFrame, WriteFrame, WriteFails,
         IncrementWriteError, QueueClosed, WriterExits, PublishStep, CallStep
<1> QED
  BY <1>4, <1>5, <1>6, <1>7, <1>9, <1>10, <1>11, <1>12, <1>14, <1>15, <1>16, <1>17

LEMMA InitCallInv == ASSUME Init PROVE CallInv
BY InitMailInv DEF Init, CallInv, CloserEnds, CallsGoOn, Threads

LEMMA NextCallInv == ASSUME CallInv, [Next]_vars PROVE CallInv'
<1> USE DEF CallInv, MailInv, HubInv
<1>1. MailInv' BY NextMailInv
<1>2. CallsGoOn'
  <2> SUFFICES ASSUME NEW t \in Threads, call'[t] # IdleCall PROVE StepsLeft(t)' > 0
    BY DEF CallsGoOn
  <2>1. CASE call'[t] = call[t] /\ Where(t)' = Where(t)
    <3>1. StepsLeft(t)' = StepsLeft(t) BY <2>1, StepsAre
    <3>2. StepsLeft(t) > 0 BY <2>1 DEF CallsGoOn
    <3> QED BY <3>1, <3>2
  <2> QED BY <2>1, NextMoves DEF Moves
<1>3. Conns \subseteq Threads /\ Callers \subseteq Threads /\ Callers \cap Conns = {}
  BY HubAssumption DEF Threads
<1>4. ASSUME NEW c \in Conns, call'[c] # IdleCall PROVE writer'[c] = "closing"
  <2>1. CASE call[c] = IdleCall
    <3>1. call'[c] # call[c] BY <1>4, <2>1
    <3>2. ASSUME NEW p \in Callers,
                 \/ \E u \in Users, step \in Publishing : PublishToUser(p, u, step)
                 \/ CloseAfterFinal(p) \/ CountSent(p) \/ CountDropped(p)
                 \/ \E d \in Conns : \/ SendFrame(p, d) \/ FindFull(p, d)
                                     \/ DropSlow(p, d) \/ SendOnClosed(p, d)
          PROVE  FALSE
      BY <1>3, <3>1, <3>2 DEF PublishToUser, CloseAfterFinal, SendFrame, CountSent,
         FindFull, CountDropped, DropSlow, SendOnClosed, TargetDone, TypeOK
    <3>3. ASSUME NEW s \in Threads, NEW d \in Conns, CloseTarget(s, d) PROVE FALSE
      <4>1. s # c BY <2>1, <3>3 DEF CloseTarget, IdleCall, Closing
      <4> QED BY <1>3, <3>1, <3>3, <4>1 DEF CloseTarget, TargetDone, TypeOK
    <3>4. \E d \in Conns : IdleTimeout(d)
      BY <3>1, <3>2, <3>3
      DEF Next, vars, Register, PeerLost, ReaderStep, StartPumps, ReadFails,
          ReaderExits, WriterStep, TakeFrame, WriteFrame, WriteFails,
          IncrementWriteError, QueueClosed, WriterExits, PublishStep, CallStep
    <3> QED BY <1>3, <3>1, <3>4 DEF IdleTimeout, TypeOK
  <2>2. CASE call[c] # IdleCall
    <3>1. writer[c] = "closing" /\ reader[c] \notin {"none", "starting"}
      BY <2>2 DEF CloserEnds, PumpsStartTogether
    <3>2. \A d \in Conns :
            (\/ StartPumps(d) \/ IdleTimeout(d) \/ WriteFails(d)
             \/ IncrementWriteError(d) \/ QueueClosed(d) \/ WriterExits(d))
              => d # c /\ writer'[c] = writer[c]
      BY <2>2, <3>1 DEF StartPumps, IdleTimeout, WriteFails, IncrementWriteError,
         QueueClosed, WriterExits, AtSelect, TypeOK
    <3>3. writer'[c] = writer[c]
      BY <3>2
      DEF Next, vars, connVars, Register, PeerLost, ReaderStep, ReadFails, ReaderExits,
          WriterStep, TakeFrame, WriteFrame, PublishToUser, PublishStep, SendFrame,
          CountSent, FindFull, CountDropped, DropSlow, SendOnClosed, CloseAfterFinal, CallStep, CloseTarget
    <3> QED BY <3>1, <3>3
  <2> QED BY <2>1, <2>2
<1> QED BY <1>1, <1>2, <1>4 DEF CloserEnds

(* A call in progress never waits for nothing: it has a target left, or    *)
(* the close that follows the empty list (PublishToUser,                   *)
(* CloseUserConnections, handleDeleteConfig).                              *)
THEOREM CallsInProgress == Spec => []CallsGoOn
<1>1. Init => CallInv BY InitCallInv
<1>2. CallInv /\ [Next]_vars => CallInv' BY NextCallInv
<1>3. CallInv => CallsGoOn BY DEF CallInv
<1> QED BY <1>1, <1>2, <1>3, PTL DEF Spec

(* A call of the hub returns after a bounded number of its own steps,      *)
(* whatever connections register, fail, publish or close meanwhile.        *)
THEOREM CallsShrink == Spec => CallsReturn
<1> DEFINE Shrink == \A t \in Threads : call[t] # IdleCall /\ Place(t)' # Place(t)
                       => StepsLeft(t)' < StepsLeft(t)
<1>1. Init => CallInv BY InitCallInv
<1>2. CallInv /\ [Next]_vars => CallInv' BY NextCallInv
<1>3. CallInv /\ [Next]_vars => [Shrink]_vars
  <2> SUFFICES ASSUME CallInv, [Next]_vars, NEW t \in Threads,
                      call[t] # IdleCall, Place(t)' # Place(t)
               PROVE  StepsLeft(t)' < StepsLeft(t)
    OBVIOUS
  <2>1. ~(call'[t] = call[t] /\ Where(t)' = Where(t)) BY DEF Place, Where
  <2> QED BY <2>1, NextMoves DEF Moves
<1>4. CallsReturn <=> [][Shrink]_vars BY DEF CallsReturn
<1> HIDE DEF Shrink
<1> QED BY <1>1, <1>2, <1>3, <1>4, PTL DEF Spec
=============================================================================
