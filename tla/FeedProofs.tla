----------------------------- MODULE FeedProofs -----------------------------
(***************************************************************************)
(* The safety of StatusFeed, for every catalogue of stations and any       *)
(* number of polls: the poll of an ended session is cancelled, and events  *)
(* never change which stations a list has.  Then types, the comparison of  *)
(* connector statuses, and UserFeed, whose steps are steps of StatusFeed.  *)
(***************************************************************************)
EXTENDS UserFeed, FiniteSetTheorems, SequenceTheorems, TLAPS

(* What the prover has to know of a list: its stations are records.        *)
Fields == {"uuid", "box", "connectors"}
IsList(list) == \A i \in DOMAIN list : list[i] = [f \in Fields |-> list[i][f]]

Held(p) == p = [list |-> p.list, at |-> p.at]

ControlInv ==
  /\ Held(loop) /\ poll = [k \in Pollers |-> poll[k]]
  /\ \A k \in Pollers : Held(poll[k])
  /\ stopped \in BOOLEAN /\ cancelled \in [Pollers -> BOOLEAN]
  /\ session \in Pollers \cup {Nothing}
  /\ session # Nothing <=> loop.at \in {"dialing", "open", "publish"}

ListsInv ==
  /\ IsList(live)
  /\ IsList(loop.list)
  /\ \A k \in Pollers : IsList(poll[k].list)

FeedInv == ControlInv /\ ListsInv /\ OnePoller /\ BaselineMatchesLive

-----------------------------------------------------------------------------
LEMMA FlattenIsList == \A answer : IsList(Flatten(answer))
  BY DEF IsList, Fields, Flatten

LEMMA NoneIsList == IsList(<<>>) /\ Inventory(<<>>) = {}
  BY DEF IsList, Inventory

(* An event changes the status of a connector, never which stations there  *)
(* are.                                                                    *)
LEMMA AppliedKeeps ==
  ASSUME NEW list, IsList(list), NEW ev
  PROVE  IsList(Applied(list, ev)) /\ Inventory(Applied(list, ev)) = Inventory(list)
<1> DEFINE new == Applied(list, ev)
<1>1. \A i \in DOMAIN list :
        LET w == WithStatus(list[i], ev)
        IN  w = [f \in Fields |-> w[f]] /\ w.uuid = list[i].uuid
  BY DEF IsList, Fields, WithStatus
<1>2. DOMAIN new = DOMAIN list
  BY DEF Applied
<1>3. \A i \in DOMAIN list :
        new[i] = [f \in Fields |-> new[i][f]] /\ new[i].uuid = list[i].uuid
  BY <1>1 DEF Applied, IsList
<1>4. IsList(new)
  BY <1>2, <1>3 DEF IsList
<1>5. Inventory(new) = Inventory(list)
  <2> HIDE DEF new
  <2> QED BY <1>2, <1>3 DEF Inventory
<1> QED
  BY <1>4, <1>5

-----------------------------------------------------------------------------
LEMMA FeedInitInv == Init => FeedInv
<1> SUFFICES ASSUME Init PROVE FeedInv
  OBVIOUS
<1>1. stopped \in BOOLEAN
  BY DEF Init
<1>2. ControlInv
  <2>1. cancelled \in [Pollers -> BOOLEAN]
    BY DEF Init
  <2> QED
    BY <1>1, <2>1 DEF Init, ControlInv, Held, Idle
<1>3. ListsInv /\ OnePoller /\ BaselineMatchesLive
  BY NoneIsList DEF Init, ListsInv, Idle, OnePoller, BaselineMatchesLive
<1> QED
  BY <1>2, <1>3 DEF FeedInv

(* Steps that touch neither the lists nor the goroutines.                  *)
LEMMA FeedStutters ==
  ASSUME FeedInv, UNCHANGED <<stopped, loop, shared, polls>>
  PROVE  FeedInv'
  BY DEF FeedInv, ControlInv, ListsInv, OnePoller, BaselineMatchesLive, shared, polls

LEMMA ProviderStepInv ==
  ASSUME FeedInv, ProviderStep \/ Connect \/ Disconnect \/ DropEvent
                  \/ \E s \in Uuids : Subscribe(s)
  PROVE  FeedInv'
<1>1. UNCHANGED <<stopped, loop, shared, polls>>
  BY DEF ProviderStep, AddStation, RemoveStation, Report, Connect, Disconnect,
         DropEvent, Subscribe
<1> QED
  BY <1>1, FeedStutters

(* The loop moves on: the sessions and the polls stay as they are.         *)
LEMMA LoopMovesInv ==
  ASSUME FeedInv,
         LoopFetch \/ TokenMissing \/ Subscribed \/ PublishEvent \/ LoopOver
  PROVE  FeedInv'
<1> USE DEF FeedInv, LoopFetch, TokenMissing, Subscribed, PublishEvent, LoopOver,
            shared, polls
<1>1. ControlInv'
  BY DEF ControlInv, Held
<1>2. ListsInv'
  BY FlattenIsList, NoneIsList DEF ControlInv, Held, ListsInv
<1>3. OnePoller' /\ BaselineMatchesLive'
  BY DEF OnePoller, BaselineMatchesLive
<1> QED
  BY <1>1, <1>2, <1>3

LEMMA LoopApplyInv ==
  ASSUME FeedInv, LoopApply
  PROVE  FeedInv'
<1> USE DEF FeedInv, LoopApply, polls
<1>1. ControlInv'
  BY DEF ControlInv, Held
<1>2. ListsInv'
  BY DEF ControlInv, Held, ListsInv
<1>3. OnePoller' /\ BaselineMatchesLive'
  BY DEF OnePoller, BaselineMatchesLive
<1> QED
  BY <1>1, <1>2, <1>3

LEMMA ApplyEventInv ==
  ASSUME FeedInv, ApplyEvent
  PROVE  FeedInv'
<1> USE DEF FeedInv, ApplyEvent, polls
<1>1. ControlInv'
  BY DEF ControlInv, Held
<1>2. ListsInv'
  BY AppliedKeeps DEF ControlInv, Held, ListsInv
<1>3. OnePoller' /\ BaselineMatchesLive'
  BY AppliedKeeps DEF ListsInv, OnePoller, BaselineMatchesLive
<1> QED
  BY <1>1, <1>2, <1>3

(* Every other poll is cancelled or gone when a session starts.            *)
LEMMA StartSessionInv ==
  ASSUME FeedInv, NEW k \in Pollers, StartSession(k)
  PROVE  FeedInv'
<1> USE DEF FeedInv, StartSession, shared
<1>1. session = Nothing
  BY DEF ControlInv, Held
<1>2. ControlInv'
  <2>1. Held(loop)' /\ loop'.at = "dialing"
    BY DEF ControlInv, Held
  <2>2. poll' = [j \in Pollers |-> poll'[j]]
    BY DEF ControlInv
  <2>3. \A j \in Pollers : Held(poll[j])'
    BY DEF ControlInv, Held
  <2>4. (cancelled \in [Pollers -> BOOLEAN])'
    BY DEF ControlInv
  <2> QED
    BY <2>1, <2>2, <2>3, <2>4, FeedAssumption DEF ControlInv
<1>3. ListsInv'
  BY DEF ControlInv, Held, ListsInv
<1>4. \A j \in Pollers \ {k} : poll[j].at = "free" \/ cancelled[j]
  BY <1>1, FeedAssumption DEF OnePoller
<1>5. OnePoller' /\ BaselineMatchesLive'
  BY <1>4 DEF ControlInv, OnePoller, BaselineMatchesLive
<1> QED
  BY <1>2, <1>3, <1>5

LEMMA SessionEndsInv ==
  ASSUME FeedInv, SessionEnds
  PROVE  FeedInv'
<1> USE DEF FeedInv, SessionEnds, shared
<1>1. session \in Pollers
  BY DEF ControlInv
<1>2. ControlInv'
  BY <1>1, FeedAssumption DEF ControlInv, Held
<1>3. ListsInv'
  BY NoneIsList DEF ListsInv
<1>4. OnePoller' /\ BaselineMatchesLive'
  BY <1>1 DEF ControlInv, OnePoller, BaselineMatchesLive
<1> QED
  BY <1>2, <1>3, <1>4

LEMMA StopLoopInv ==
  ASSUME FeedInv, StopLoop
  PROVE  FeedInv'
<1> USE DEF FeedInv, StopLoop, shared
<1>1. ControlInv' /\ ListsInv'
  BY DEF ControlInv, ListsInv
<1>2. OnePoller' /\ BaselineMatchesLive'
  BY DEF OnePoller, BaselineMatchesLive
<1> QED
  BY <1>1, <1>2

LEMMA PollStepInv ==
  ASSUME FeedInv, NEW k \in Pollers, PollStep(k)
  PROVE  FeedInv'
<1> USE DEF FeedInv, PollStep, PollFetch, PollEnds, PollUnchanged, PollChanged,
            PollPublish, Idle, shared
<1>1. ControlInv'
  <2>1. poll' = [j \in Pollers |-> poll'[j]] /\ (cancelled \in [Pollers -> BOOLEAN])'
    BY DEF ControlInv
  <2>2. \A j \in Pollers : Held(poll[j])'
    BY DEF ControlInv, Held
  <2>3. UNCHANGED <<stopped, loop, session>>
    OBVIOUS
  <2> QED
    BY <2>1, <2>2, <2>3 DEF ControlInv
<1>2. ListsInv'
  BY FlattenIsList, NoneIsList DEF ControlInv, Held, ListsInv
<1>3. OnePoller'
  BY DEF ControlInv, OnePoller
<1>4. BaselineMatchesLive'
  BY DEF BaselineMatchesLive
<1> QED
  BY <1>1, <1>2, <1>3, <1>4

-----------------------------------------------------------------------------
(* The invariant from which the properties follow.                         *)
THEOREM FeedInvariant == FeedSpec => []FeedInv
<1>1. FeedInv /\ [FeedNext]_feedVars => FeedInv'
  <2> SUFFICES ASSUME FeedInv, [FeedNext]_feedVars PROVE FeedInv'
    OBVIOUS
  <2>1. CASE ProviderStep \/ Connect \/ Disconnect
    BY <2>1, ProviderStepInv
  <2>2. CASE LoopStep
    BY <2>2, ProviderStepInv, LoopMovesInv, LoopApplyInv, ApplyEventInv, StartSessionInv
    DEF LoopStep
  <2>3. CASE SessionEnds \/ StopLoop
    BY <2>3, SessionEndsInv, StopLoopInv
  <2>4. CASE \E k \in Pollers : PollStep(k)
    BY <2>4, PollStepInv
  <2>5. CASE UNCHANGED feedVars
    BY <2>5, FeedStutters DEF feedVars, shared, polls
  <2> QED
    BY <2>1, <2>2, <2>3, <2>4, <2>5 DEF FeedNext
<1> QED
  BY <1>1, FeedInitInv, PTL DEF FeedSpec

(* At most one poll goroutine may still ask the provider, however many     *)
(* sessions have come and gone.                                            *)
THEOREM PollsAreUnique == FeedSpec => []OnePoller
  BY FeedInvariant, PTL DEF FeedInv

(* Whichever of loop, poll and handler wrote last, the baseline is the     *)
(* inventory of the list the events are applied to.                        *)
THEOREM BaselineIsLive == FeedSpec => []BaselineMatchesLive
  BY FeedInvariant, PTL DEF FeedInv

-----------------------------------------------------------------------------
(* Types.  Every list comes from answers of the provider, and so holds no  *)
(* station that the catalogue has not: that bounds the inventories.        *)
KnownPoint == {c \in ChargePoint : c.uuid \in Uuids}
Known      == {s \in Station : s.uuid \in Uuids}

ListTypes ==
  /\ stock \in Seq(KnownPoint)
  /\ live \in Seq(Known)
  /\ loop.list \in Seq(Known)
  /\ \A k \in Pollers : poll[k].list \in Seq(Known)

LEMMA SeqByIndex ==
  ASSUME NEW S, NEW n \in Nat, NEW f \in [1..n -> S]
  PROVE  f \in Seq(S)
  BY SeqDef

LEMMA SeqElement ==
  ASSUME NEW S, NEW s \in Seq(S)
  PROVE  \A i \in DOMAIN s : s[i] \in S
  OBVIOUS

LEMMA NoneIsKnown == <<>> \in Seq(Known)
  OBVIOUS

LEMMA KnownInventory ==
  ASSUME NEW list \in Seq(Known)
  PROVE  list \in Seq(Station) /\ Inventory(list) \subseteq Uuids
<1>1. \A i \in DOMAIN list : list[i] \in Known
  OBVIOUS
<1>2. list \in Seq(Station)
  BY SeqMonotonic DEF Known
<1> QED
  BY <1>1, <1>2 DEF Inventory, Known

LEMMA FlattenType ==
  ASSUME NEW answer \in Seq(KnownPoint)
  PROVE  Flatten(answer) \in Seq(Known)
<1>1. Len(answer) \in Nat /\ DOMAIN answer = 1..Len(answer)
  OBVIOUS
<1>2. ASSUME NEW i \in DOMAIN answer
      PROVE  [uuid |-> answer[i].uuid, box |-> answer[i].box,
              connectors |-> [j \in DOMAIN answer[i].connectors |->
                                FlattenConnector(answer[i].connectors[j])]] \in Known
  <2> DEFINE cs == answer[i].connectors
             fs == [j \in DOMAIN cs |-> FlattenConnector(cs[j])]
  <2>1. answer[i] \in ChargePoint /\ answer[i].uuid \in Uuids
    BY <1>1, <1>2 DEF KnownPoint
  <2>2. cs \in Seq([id : Nat, last : Statuses \cup {Unreported}])
    BY <2>1 DEF ChargePoint
  <2>3. \A j \in DOMAIN cs :
          FlattenConnector(cs[j]) \in [id : Nat, status : Statuses \cup {Blank}]
    <3> SUFFICES ASSUME NEW j \in DOMAIN cs
                 PROVE  FlattenConnector(cs[j]) \in [id : Nat, status : Statuses \cup {Blank}]
      OBVIOUS
    <3>1. cs[j] \in [id : Nat, last : Statuses \cup {Unreported}]
      BY <2>2, SeqElement
    <3> QED
      BY <3>1 DEF FlattenConnector
  <2>4. Len(cs) \in Nat /\ DOMAIN cs = 1..Len(cs)
    BY <2>2
  <2>5. fs \in [1..Len(cs) -> [id : Nat, status : Statuses \cup {Blank}]]
    BY <2>3, <2>4
  <2>6. fs \in Seq([id : Nat, status : Statuses \cup {Blank}])
    BY <2>4, <2>5, SeqByIndex
  <2> HIDE DEF fs
  <2>7. [uuid |-> answer[i].uuid, box |-> answer[i].box, connectors |-> fs] \in Known
    BY <2>1, <2>6 DEF Known, ChargePoint, Station
  <2> QED
    BY <2>7 DEF fs
<1>3. Flatten(answer) \in [1..Len(answer) -> Known]
  BY <1>1, <1>2 DEF Flatten
<1> QED
  BY <1>1, <1>3, SeqByIndex

LEMMA WithStatusType ==
  ASSUME NEW s \in Known, NEW ev \in StatusEvent
  PROVE  WithStatus(s, ev) \in Known
<1> DEFINE Connector == [id : Nat, status : Statuses \cup {Blank}]
           cs == s.connectors
           ws == [j \in DOMAIN cs |->
                    IF IsFirst(Slots(s, ev.id), j)
                    THEN [cs[j] EXCEPT !.status = ev.status] ELSE cs[j]]
<1>1. cs \in Seq(Connector) /\ Len(cs) \in Nat /\ DOMAIN cs = 1..Len(cs)
  BY DEF Known, Station
<1>2. ev.status \in Statuses
  BY DEF StatusEvent
<1>3. \A j \in DOMAIN cs : ws[j] \in Connector
  <2> SUFFICES ASSUME NEW j \in DOMAIN cs PROVE ws[j] \in Connector
    OBVIOUS
  <2>1. cs[j] \in Connector
    BY <1>1, SeqElement
  <2>2. [cs[j] EXCEPT !.status = ev.status] \in Connector
    BY <1>2, <2>1
  <2> QED
    BY <2>1, <2>2
<1>4. ws \in [1..Len(cs) -> Connector]
  BY <1>1, <1>3
<1>5. ws \in Seq(Connector)
  BY <1>1, <1>4, SeqByIndex
<1>6. WithStatus(s, ev) = [s EXCEPT !.connectors = ws]
  BY DEF WithStatus
<1> HIDE DEF ws
<1> QED
  BY <1>5, <1>6 DEF Known, Station

LEMMA AppliedType ==
  ASSUME NEW list \in Seq(Known), NEW ev \in StatusEvent
  PROVE  Applied(list, ev) \in Seq(Known)
<1>1. Len(list) \in Nat /\ DOMAIN list = 1..Len(list)
  OBVIOUS
<1>2. \A i \in DOMAIN list : list[i] \in Known /\ WithStatus(list[i], ev) \in Known
  BY <1>1, WithStatusType
<1>3. Applied(list, ev) \in [1..Len(list) -> Known]
  BY <1>1, <1>2 DEF Applied
<1> QED
  BY <1>1, <1>3, SeqByIndex

LEMMA ReportedType ==
  ASSUME stock \in Seq(KnownPoint), NEW u, NEW id, NEW v \in Statuses
  PROVE  Reported(u, id, v) \in Seq(KnownPoint)
<1> DEFINE Connector == [id : Nat, last : Statuses \cup {Unreported}]
           Changed(i) == [stock[i] EXCEPT !.connectors =
             [j \in DOMAIN stock[i].connectors |->
                IF stock[i].connectors[j].id = id
                THEN [stock[i].connectors[j] EXCEPT !.last = v]
                ELSE stock[i].connectors[j]]]
<1>1. Len(stock) \in Nat /\ DOMAIN stock = 1..Len(stock)
  OBVIOUS
<1>2. ASSUME NEW i \in DOMAIN stock
      PROVE  stock[i] \in KnownPoint /\ Changed(i) \in KnownPoint
  <2> DEFINE cs == stock[i].connectors
             ws == [j \in DOMAIN cs |->
                      IF cs[j].id = id THEN [cs[j] EXCEPT !.last = v] ELSE cs[j]]
  <2>1. stock[i] \in KnownPoint
    BY <1>1, <1>2
  <2>2. cs \in Seq(Connector) /\ Len(cs) \in Nat /\ DOMAIN cs = 1..Len(cs)
    BY <2>1 DEF KnownPoint, ChargePoint
  <2>3. \A j \in DOMAIN cs : ws[j] \in Connector
    <3> SUFFICES ASSUME NEW j \in DOMAIN cs PROVE ws[j] \in Connector
      OBVIOUS
    <3>1. cs[j] \in Connector
      BY <2>2, SeqElement
    <3>2. [cs[j] EXCEPT !.last = v] \in Connector
      BY <3>1
    <3> QED
      BY <3>1, <3>2
  <2>4. ws \in [1..Len(cs) -> Connector]
    BY <2>2, <2>3
  <2>5. ws \in Seq(Connector)
    BY <2>2, <2>4, SeqByIndex
  <2>6. Changed(i) = [stock[i] EXCEPT !.connectors = ws]
    OBVIOUS
  <2> HIDE DEF ws, Changed
  <2> QED
    BY <2>1, <2>5, <2>6 DEF KnownPoint, ChargePoint
<1>3. Reported(u, id, v) = [i \in DOMAIN stock |->
                              IF stock[i].uuid # u THEN stock[i] ELSE Changed(i)]
  BY DEF Reported
<1> HIDE DEF Changed
<1>4. Reported(u, id, v) \in [1..Len(stock) -> KnownPoint]
  BY <1>1, <1>2, <1>3
<1> QED
  BY <1>1, <1>4, SeqByIndex

LEMMA StockType ==
  ASSUME stock \in Seq(KnownPoint), ProviderStep
  PROVE  stock' \in Seq(KnownPoint)
<1>1. Len(stock) \in Nat /\ \A i \in 1..Len(stock) : stock[i] \in KnownPoint
  OBVIOUS
<1>2. \A i \in 1..(Len(stock) + 1), j \in 0..(Len(stock) + 1) :
        /\ SubSeq(stock, 1, i - 1) \in Seq(KnownPoint)
        /\ SubSeq(stock, j + 1, Len(stock)) \in Seq(KnownPoint)
        /\ SubSeq(stock, i, Len(stock)) \in Seq(KnownPoint)
  BY <1>1, SubSeqProperties
<1>3. CASE \E n \in DOMAIN Catalogue : AddStation(n)
  <2> PICK n \in DOMAIN Catalogue : AddStation(n)
    BY <1>3
  <2>1. Catalogue[n] \in KnownPoint
    BY FeedAssumption DEF KnownPoint, Uuids
  <2>2. <<Catalogue[n]>> \in Seq(KnownPoint)
    BY <2>1
  <2> PICK i \in 1..(Len(stock) + 1) : stock' = InsertAt(stock, i, Catalogue[n])
    BY DEF AddStation
  <2> QED
    BY <1>2, <2>2, ConcatProperties DEF InsertAt
<1>4. CASE \E u \in Uuids : RemoveStation(u)
  <2> PICK i \in 1..Len(stock) : stock' = RemoveAt(stock, i)
    BY <1>1, <1>4 DEF RemoveStation
  <2> QED
    BY <1>1, <1>2, ConcatProperties DEF RemoveAt
<1>5. CASE \E u \in Uuids, id \in Ids, v \in Statuses : Report(u, id, v)
  BY <1>5, ReportedType DEF Report
<1> QED
  BY <1>3, <1>4, <1>5 DEF ProviderStep

Places ==
  /\ loop.at \in {"fetch", "apply", "dial", "dialing", "open", "publish", "over"}
  /\ \A k \in Pollers : poll[k].at \in {"free", "waiting", "apply", "publish"}

(* Without a session there is no subscription and no event on its way.     *)
WireInv ==
  /\ subs \subseteq Uuids
  /\ wire \in Seq(StatusEvent)
  /\ (subs # {} \/ wire # <<>>) => session # Nothing

CacheType == DOMAIN cache \subseteq {LowerCase[w] : w \in Names} \X Nat

TypeInv == ListTypes /\ Places /\ WireInv /\ CacheType /\ active \in BOOLEAN

LEMMA InvariantsGiveTypes ==
  ASSUME FeedInv, TypeInv
  PROVE  TypeOK
<1> USE DEF FeedInv, TypeInv
<1>1. /\ stock \in Seq(ChargePoint) /\ live \in Seq(Station)
      /\ loop.list \in Seq(Station) /\ \A k \in Pollers : poll[k].list \in Seq(Station)
  BY SeqMonotonic, KnownInventory DEF ListTypes, KnownPoint
<1>2. prev \subseteq Uuids
  BY KnownInventory DEF ListTypes, BaselineMatchesLive
<1>3. loop \in [list : Seq(Station),
                at : {"fetch", "apply", "dial", "dialing", "open", "publish", "over"}]
  BY <1>1 DEF ControlInv, Held, Places
<1>4. poll \in [Pollers -> [list : Seq(Station),
                            at : {"free", "waiting", "apply", "publish"}]]
  BY <1>1 DEF ControlInv, Held, Places
<1> QED
  BY <1>1, <1>2, <1>3, <1>4 DEF TypeOK, ControlInv, WireInv, CacheType

LEMMA TypeInit == Init => TypeInv
<1> SUFFICES ASSUME Init PROVE TypeInv
  OBVIOUS
<1>1. ListTypes
  <2>1. <<>> \in Seq(KnownPoint)
    OBVIOUS
  <2> QED
    BY <2>1, NoneIsKnown DEF Init, Idle, ListTypes
<1>2. Places
  BY DEF Init, Idle, Places
<1>3. WireInv
  BY DEF Init, WireInv
<1>4. CacheType
  BY DEF Init, CacheType
<1>5. active \in BOOLEAN
  BY DEF Init
<1> QED
  BY <1>1, <1>2, <1>3, <1>4, <1>5 DEF TypeInv

LEMMA ProviderStepType ==
  ASSUME FeedInv, TypeInv, ProviderStep
  PROVE  TypeInv'
<1>1. UNCHANGED <<active, loop, live, session, poll, cache, subs>>
  BY DEF ProviderStep, AddStation, RemoveStation, Report, shared, polls
<1>2. ListTypes'
  BY <1>1, StockType DEF TypeInv, ListTypes
<1>3. WireInv'
  <2>1. CASE UNCHANGED wire
    BY <1>1, <2>1 DEF TypeInv, WireInv
  <2>2. CASE \E u \in Uuids, id \in Ids, v \in Statuses : Report(u, id, v)
    <3> PICK u \in Uuids, id \in Ids, v \in Statuses : Report(u, id, v)
      BY <2>2
    <3>1. CASE u \notin subs
      BY <2>1, <3>1 DEF Report, Send
    <3>2. CASE u \in subs
      <4>1. PICK w \in Names : wire' = Append(wire, [uuid |-> w, id |-> id, status |-> v])
        BY <3>2 DEF Report, Send
      <4>2. [uuid |-> w, id |-> id, status |-> v] \in StatusEvent
        BY FeedAssumption DEF StatusEvent
      <4>3. wire' \in Seq(StatusEvent)
        BY <4>1, <4>2, AppendProperties DEF TypeInv, WireInv
      <4>4. session # Nothing
        BY <3>2 DEF TypeInv, WireInv
      <4> QED
        BY <1>1, <4>3, <4>4 DEF TypeInv, WireInv
    <3> QED
      BY <3>1, <3>2
  <2> QED
    BY <2>1, <2>2 DEF ProviderStep, AddStation, RemoveStation
<1> QED
  BY <1>1, <1>2, <1>3 DEF TypeInv, Places, CacheType

(* Steps of the loop that take no event.                                   *)
LEMMA LoopStepType ==
  ASSUME FeedInv, TypeInv,
         \/ LoopFetch \/ LoopApply \/ TokenMissing \/ Subscribed \/ PublishEvent
         \/ LoopOver \/ SessionEnds \/ StopLoop
         \/ \E s \in Uuids : Subscribe(s)
         \/ \E k \in Pollers : StartSession(k)
  PROVE  TypeInv'
<1> USE DEF LoopFetch, LoopApply, TokenMissing, Subscribed, PublishEvent, LoopOver,
            SessionEnds, StopLoop, Subscribe, StartSession, provider, shared, polls
<1>1. ListTypes'
  <2>1. Flatten(stock) \in Seq(Known) /\ <<>> \in Seq(Known) /\ Held(loop)
    BY FlattenType, NoneIsKnown DEF TypeInv, ListTypes, FeedInv, ControlInv
  <2>2. UNCHANGED stock /\ live' \in {live, loop.list}
    OBVIOUS
  <2>3. loop'.list \in {loop.list, Flatten(stock), <<>>}
    BY <2>1 DEF Held
  <2>4. \A k \in Pollers : poll'[k].list = poll[k].list
    BY DEF FeedInv, ControlInv, Held
  <2> QED
    BY <2>1, <2>2, <2>3, <2>4 DEF TypeInv, ListTypes
<1>2. Places'
  BY DEF TypeInv, Places, FeedInv, ControlInv, Held
<1>3. WireInv'
  <2>1. CASE UNCHANGED <<subs, wire, session>>
    BY <2>1 DEF TypeInv, WireInv
  <2>2. CASE \E s \in Uuids : Subscribe(s)
    BY <2>2 DEF TypeInv, WireInv, FeedInv, ControlInv
  <2>3. CASE \E k \in Pollers : StartSession(k)
    BY <2>3, FeedAssumption DEF TypeInv, WireInv
  <2>4. CASE SessionEnds
    BY <2>4 DEF WireInv
  <2> QED
    BY <2>1, <2>2, <2>3, <2>4
<1>4. CacheType' /\ active' \in BOOLEAN
  BY DEF TypeInv, CacheType
<1> QED
  BY <1>1, <1>2, <1>3, <1>4 DEF TypeInv

LEMMA EventStepType ==
  ASSUME FeedInv, TypeInv, DropEvent \/ ApplyEvent
  PROVE  TypeInv'
<1> USE DEF DropEvent, ApplyEvent, shared, polls
<1>1. Head(wire) \in StatusEvent /\ wire' \in Seq(StatusEvent)
  BY HeadTailProperties DEF TypeInv, WireInv
<1>2. WireInv'
  BY <1>1 DEF TypeInv, WireInv, FeedInv, ControlInv
<1>3. ListTypes'
  BY <1>1, AppliedType DEF TypeInv, ListTypes, FeedInv, ControlInv, Held
<1>4. Places'
  BY DEF TypeInv, Places, FeedInv, ControlInv, Held
<1>5. CacheType'
  BY <1>1 DEF TypeInv, CacheType, Remember, Key, StatusEvent
<1> QED
  BY <1>2, <1>3, <1>4, <1>5 DEF TypeInv

LEMMA PollStepType ==
  ASSUME FeedInv, TypeInv, NEW k \in Pollers, PollStep(k)
  PROVE  TypeInv'
<1> USE DEF PollStep, PollFetch, PollEnds, PollUnchanged, PollChanged, PollPublish,
            Idle, provider, shared
<1>1. ListTypes'
  <2>1. Flatten(stock) \in Seq(Known) /\ <<>> \in Seq(Known)
    BY FlattenType, NoneIsKnown DEF TypeInv, ListTypes
  <2>2. UNCHANGED <<stock, loop>> /\ live' \in {live, poll[k].list}
    OBVIOUS
  <2>3. \A j \in Pollers : poll'[j].list \in {poll[j].list, Flatten(stock), <<>>}
    BY DEF FeedInv, ControlInv, Held
  <2> QED
    BY <2>1, <2>2, <2>3 DEF TypeInv, ListTypes
<1>2. Places'
  BY DEF TypeInv, Places, FeedInv, ControlInv, Held
<1>3. WireInv' /\ CacheType' /\ active' \in BOOLEAN
  BY DEF TypeInv, WireInv, CacheType
<1> QED
  BY <1>1, <1>2, <1>3 DEF TypeInv

(* Every variable keeps its type, and an inventory never has a station     *)
(* that the provider never listed, whatever it answers and when.           *)
THEOREM FeedTypes == FeedSpec => []TypeOK
<1>1. FeedInv /\ TypeInv /\ [FeedNext]_feedVars => TypeInv'
  <2> SUFFICES ASSUME FeedInv, TypeInv, [FeedNext]_feedVars PROVE TypeInv'
    OBVIOUS
  <2>1. CASE ProviderStep
    BY <2>1, ProviderStepType
  <2>2. CASE LoopStep
    BY <2>2, LoopStepType, EventStepType DEF LoopStep
  <2>3. CASE SessionEnds \/ StopLoop
    BY <2>3, LoopStepType
  <2>4. CASE \E k \in Pollers : PollStep(k)
    BY <2>4, PollStepType
  <2>5. CASE Connect \/ Disconnect \/ UNCHANGED feedVars
    BY <2>5 DEF Connect, Disconnect, feedVars, provider, shared, polls, TypeInv,
                ListTypes, Places, WireInv, CacheType
  <2> QED
    BY <2>1, <2>2, <2>3, <2>4, <2>5 DEF FeedNext
<1> QED
  BY <1>1, TypeInit, FeedInvariant, InvariantsGiveTypes, PTL DEF FeedSpec

-----------------------------------------------------------------------------
(* ConnectorStatusMapsEqual, which compares sizes and then one way only,   *)
(* holds of equal maps and, however large they are and whatever statuses   *)
(* they hold, of two different ones just when a key with an empty status   *)
(* gave way to another: a connector whose status is null makes one.  Empty *)
(* statuses of the second map alone do no harm.                            *)
THEOREM MapsEqualOverlooks ==
  ASSUME NEW S, NEW T, IsFiniteSet(S), IsFiniteSet(T), NEW V,
         NEW a \in [S -> V], NEW b \in [T -> V]
  PROVE  /\ MapsEqual(a, b) <=> a = b \/ Overlooks(a, b)
         /\ (\A key \in S : a[key] # Blank) => (MapsEqual(a, b) <=> a = b)
<1>1. DOMAIN a = S /\ DOMAIN b = T
  OBVIOUS
<1>2. ASSUME MapsEqual(a, b), a # b PROVE Overlooks(a, b)
  <2>1. Cardinality(S) = Cardinality(T)
    BY <1>1, <1>2 DEF MapsEqual
  <2>2. \A key \in S : (key \in T => b[key] = a[key]) /\ (key \notin T => a[key] = Blank)
    BY <1>1, <1>2 DEF MapsEqual, Get
  <2>3. S # T
    BY <1>2, <2>2
  <2> QED
    BY <1>1, <2>1, <2>2, <2>3 DEF Overlooks
<1>3. a = b => MapsEqual(a, b)
  BY DEF MapsEqual, Get
<1>4. Overlooks(a, b) => MapsEqual(a, b)
  BY DEF Overlooks, MapsEqual, Get
<1>5. ASSUME \A key \in S : a[key] # Blank PROVE ~Overlooks(a, b)
  <2>1. ASSUME Overlooks(a, b) PROVE S \subseteq T /\ Cardinality(S) = Cardinality(T) /\ S # T
    BY <1>1, <1>5, <2>1 DEF Overlooks
  <2> QED
    BY <2>1, FS_Subset
<1> QED
  BY <1>2, <1>3, <1>4, <1>5

(* The comparison does err: two maps of one key each, under different keys *)
(* and the first without a status, are equal to it; the other way round    *)
(* they are not, unless the second has no status either.                   *)
THEOREM MapsEqualErrs ==
  ASSUME NEW k, NEW l, k # l, NEW v,
         NEW a, a = [key \in {k} |-> Blank], NEW b, b = [key \in {l} |-> v]
  PROVE  a # b /\ MapsEqual(a, b) /\ (MapsEqual(b, a) <=> v = Blank)
<1>1. DOMAIN a = {k} /\ DOMAIN b = {l}
  OBVIOUS
<1>2. Cardinality({k}) = 1 /\ Cardinality({l}) = 1
  BY FS_Singleton
<1>3. Get(b, k) = Blank /\ Get(a, l) = Blank /\ a[k] = Blank /\ b[l] = v
  BY <1>1 DEF Get
<1>4. a # b
  BY <1>1
<1> QED
  BY <1>1, <1>2, <1>3, <1>4 DEF MapsEqual

(* The feed with its client takes no step that StatusFeed does not take:   *)
(* what holds of the feed holds whatever clients and snapshots do.         *)
THEOREM ClientFollowsFeed == FairSpec => FeedSpec /\ []FeedInv
<1>1. ClientInit => Init
  BY DEF ClientInit
<1>2. [Next]_vars => [FeedNext]_feedVars
  <2> SUFFICES ASSUME Next \/ UNCHANGED vars
               PROVE  FeedNext \/ UNCHANGED feedVars
    OBVIOUS
  <2>1. CASE Silent(ProviderStep) \/ Silent(SessionEnds) \/ Silent(StopLoop)
    BY <2>1 DEF Silent, FeedNext
  <2>2. CASE ClientLoopStep \/ ClientLeaves
    BY <2>2
    DEF ClientLoopStep, ClientLeaves, LoopPublishes, EventCopied, EventPublished,
        Silent, FeedNext, LoopStep
  <2>3. CASE \E k \in Pollers : ClientPollStep(k)
    BY <2>3 DEF ClientPollStep, PollCopied, PollPublished, Silent, FeedNext, PollStep
  <2>4. CASE \E i \in Snapshots : ClientConnects(i) \/ SnapshotStep(i)
    BY <2>4
    DEF ClientConnects, SnapshotStep, SnapshotFetch, SnapshotFails, SnapshotPublish,
        SnapshotStore, FeedNext
  <2>5. CASE UNCHANGED vars
    BY <2>5 DEF vars
  <2> QED
    BY <2>1, <2>2, <2>3, <2>4, <2>5 DEF Next
<1> QED
  BY <1>1, <1>2, FeedInvariant, PTL DEF FairSpec, FeedSpec
=============================================================================
