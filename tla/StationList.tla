----------------------------- MODULE StationList -----------------------------
(***************************************************************************)
(* The lists of stations: the answer of the provider, the flattened list   *)
(* the service works on, and the operators of intelbras and of the status  *)
(* service on them.  A name stands for a string without the spaces around  *)
(* it, a status for the triple status, errorCode, errorInfo; the fields    *)
(* that are only copied (vendor, model, power, ...) are left out.          *)
(***************************************************************************)
EXTENDS Naturals, Sequences, FiniteSets

CONSTANTS
  LowerCase,   \* the lower case of every name, as strings.EqualFold sees it
  Statuses,    \* what a connector reports
  Blank,       \* the empty string, as a name and as a status
  Unreported   \* lastStatus is null: the connector never reported

Names == DOMAIN LowerCase

(* models.go of the provider and the flattened form.                       *)
ChargePoint == [uuid : Names, box : Names,
                connectors : Seq([id : Nat, last : Statuses \cup {Unreported}])]
Station == [uuid : Names, box : Names,
            connectors : Seq([id : Nat, status : Statuses \cup {Blank}])]
StatusEvent == [uuid : Names, id : Nat, status : Statuses]

Same(a, b) == LowerCase[a] = LowerCase[b]

-----------------------------------------------------------------------------
(* FlattenChargePointList: a connector without lastStatus has an empty one.*)
FlattenConnector(c) ==
  [id |-> c.id, status |-> IF c.last = Unreported THEN Blank ELSE c.last]

Flatten(answer) ==
  [i \in DOMAIN answer |->
     [uuid |-> answer[i].uuid, box |-> answer[i].box,
      connectors |-> [j \in DOMAIN answer[i].connectors |->
                        FlattenConnector(answer[i].connectors[j])]]]

(* chargeBoxUUIDsFromStations: every UUID once, the blank one left out; as *)
(* the result is sorted, it is a set.                                      *)
Inventory(list) == {list[i].uuid : i \in DOMAIN list} \ {Blank}

(* inventoryChanged: nil is no baseline, and an empty list leaves nil.     *)
InventoryChanged(known, next) == known # {} /\ known # next

-----------------------------------------------------------------------------
(* applyCSMSEventToFlattened: the first station with the UUID, its first   *)
(* connector with the id; no other is tried.                               *)
IsFirst(S, i) == i \in S /\ \A j \in S : i <= j

At(list, u) == {i \in DOMAIN list : Same(list[i].uuid, u)}

Slots(station, id) ==
  {j \in DOMAIN station.connectors : station.connectors[j].id = id}

Matches(list, ev) ==
  /\ ev.uuid # Blank
  /\ \E i \in DOMAIN list :
       IsFirst(At(list, ev.uuid), i) /\ Slots(list[i], ev.id) # {}

WithStatus(station, ev) ==
  [station EXCEPT !.connectors =
     [j \in DOMAIN station.connectors |->
        IF IsFirst(Slots(station, ev.id), j)
        THEN [station.connectors[j] EXCEPT !.status = ev.status]
        ELSE station.connectors[j]]]

Applied(list, ev) ==
  [i \in DOMAIN list |-> IF IsFirst(At(list, ev.uuid), i)
                         THEN WithStatus(list[i], ev) ELSE list[i]]

-----------------------------------------------------------------------------
(* ConnectorStatusMapFromFlattened: when a key occurs twice, the last wins.*)
(* (Of the triple that a status stands for the code takes the first part.) *)
Positions(list) ==
  UNION {{<<i, j>> : j \in DOMAIN list[i].connectors} : i \in DOMAIN list}

StatusKey(list, p) == <<list[p[1]].box, list[p[1]].connectors[p[2]].id>>

Before(p, q) == p[1] < q[1] \/ (p[1] = q[1] /\ p[2] <= q[2])

ConnectorStatusMap(list) ==
  [key \in {StatusKey(list, p) : p \in Positions(list)} |->
     LET found == {p \in Positions(list) : StatusKey(list, p) = key}
         last  == CHOOSE p \in found : \A q \in found : Before(q, p)
     IN  list[last[1]].connectors[last[2]].status]

(* ConnectorStatusMapsEqual: as many keys, and the same status under every *)
(* key of the first; a key the second lacks reads as the empty status.     *)
Get(m, key) == IF key \in DOMAIN m THEN m[key] ELSE Blank

MapsEqual(a, b) ==
  /\ Cardinality(DOMAIN a) = Cardinality(DOMAIN b)
  /\ \A key \in DOMAIN a : Get(b, key) = a[key]

(* What the comparison overlooks: keys of the first with an empty status   *)
(* that gave way to as many other keys of the second, with any status.     *)
Overlooks(a, b) ==
  /\ DOMAIN a # DOMAIN b
  /\ Cardinality(DOMAIN a) = Cardinality(DOMAIN b)
  /\ \A key \in DOMAIN a \cap DOMAIN b : a[key] = b[key]
  /\ \A key \in DOMAIN a \ DOMAIN b : a[key] = Blank
=============================================================================
