------------------------------ MODULE UserLife ------------------------------
(***************************************************************************)
(* What the JWTs of the service promise: a request is accepted at one      *)
(* moment, when its userId is configured, a token was issued for it and    *)
(* its session is fresh; nothing of a deleted userId is fresh, is issued   *)
(* or is accepted again.  The handlers of WSSession reach this with        *)
(* queries made one after the other.                                       *)
(***************************************************************************)
EXTENDS UserRows

CONSTANTS Requests, NoUid

VARIABLES
  issued,    \* the userIds a token was issued for
  fresh,     \* those with a recent activity
  accepted   \* the userId each accepted request acts for

lifeVars == <<phase, issued, fresh, accepted>>

Live(u) == phase[u] = "configured" /\ u \in fresh

LifeInit ==
  /\ RowsInit
  /\ issued = {}
  /\ fresh = {}
  /\ accepted = [r \in Requests |-> NoUid]

RowChanges ==
  /\ RowsNext
  /\ fresh' = {u \in fresh : phase'[u] = "configured"}
  /\ UNCHANGED <<issued, accepted>>

Issue(u) ==
  /\ phase[u] = "configured"
  /\ issued' = issued \cup {u}
  /\ fresh' = fresh \cup {u}
  /\ UNCHANGED <<phase, accepted>>

Touched(u) ==
  /\ phase[u] = "configured"
  /\ fresh' = fresh \cup {u}
  /\ UNCHANGED <<phase, issued, accepted>>

Lapse(u) ==
  /\ fresh' = fresh \ {u}
  /\ UNCHANGED <<phase, issued, accepted>>

Accept(r, u) ==
  /\ accepted[r] = NoUid
  /\ u \in issued /\ Live(u)
  /\ accepted' = [accepted EXCEPT ![r] = u]
  /\ UNCHANGED <<phase, issued, fresh>>

Answered(r) ==
  /\ accepted' = [accepted EXCEPT ![r] = NoUid]
  /\ UNCHANGED <<phase, issued, fresh>>

LifeNext ==
  \/ RowChanges
  \/ \E u \in Uids : Issue(u) \/ Touched(u) \/ Lapse(u)
  \/ \E r \in Requests : Answered(r) \/ \E u \in Uids : Accept(r, u)

LifeSpec == LifeInit /\ [][LifeNext]_lifeVars
=============================================================================
