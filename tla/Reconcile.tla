------------------------------ MODULE Reconcile ------------------------------
(***************************************************************************)
(* CSMSStatusSubscriber.Run: one loop (StatusFeed) for every user that has *)
(* credentials.  Each round lists the userIds of third_party_credentials,  *)
(* then, holding mu, cancels the loops of users that are gone and starts   *)
(* the missing ones.  Users come and go meanwhile (UserRows), also between *)
(* the query and its use, and a cancelled loop ends only later.            *)
(*                                                                         *)
(* A round whose query fails returns at once and changes nothing: it is a  *)
(* stuttering step.  Run is given context.Background(), which is never     *)
(* done.                                                                   *)
(***************************************************************************)
EXTENDS UserRows

CONSTANTS
  Loops,   \* goroutines running runUserLoop: bounds how many exist at once
  NoUid,   \* a goroutine that does not exist
  NoLoop   \* a userId that is not in runs

ASSUME ReconcileAssumption == NoUid \notin Uids /\ NoLoop \notin Loops

VARIABLES
  round,   \* is the list of this round read but not applied yet?
  want,    \* the userIds that round has read
  runs,    \* the goroutine whose cancel function is in runs
  owner,   \* the user a goroutine serves
  over     \* is its context cancelled?

runVars == <<round, want, runs, owner, over>>
vars == <<phase, runVars>>

TypeOK ==
  /\ phase \in [Uids -> Phases]
  /\ round \in {"waiting", "listed"}
  /\ want \subseteq Uids
  /\ runs \in [Uids -> Loops \cup {NoLoop}]
  /\ owner \in [Loops -> Uids \cup {NoUid}]
  /\ over \in [Loops -> BOOLEAN]
  /\ \A g \in Loops : over[g] => owner[g] # NoUid

Init ==
  /\ RowsInit
  /\ round = "waiting"
  /\ want = {}
  /\ runs = [u \in Uids |-> NoLoop]
  /\ owner = [g \in Loops |-> NoUid]
  /\ over = [g \in Loops |-> FALSE]

Configured == {u \in Uids : phase[u] = "configured"}
Free == {g \in Loops : owner[g] = NoUid}
Runs(u, g) == owner[g] = u /\ ~over[g]

-----------------------------------------------------------------------------
UserChanges == RowsNext /\ UNCHANGED runVars

ListUsersOrNone ==  \* mutant: an error reads as an empty list
  /\ round = "waiting"
  /\ round' = "listed"
  /\ want' \in {Configured, {}}
  /\ UNCHANGED <<phase, runs, owner, over>>

(* ListDistinctUserIDs, at the start and at every tick.                    *)
ListUsers ==
  /\ round = "waiting"
  /\ round' = "listed"
  /\ want' = Configured
  /\ UNCHANGED <<phase, runs, owner, over>>

NoneGone == {}  \* mutant: only missing loops are looked for

Gone == {u \in Uids \ want : runs[u] # NoLoop}

AllWanted == want  \* mutant: a user whose loop runs is given another one

Missing == {u \in want : runs[u] = NoLoop}

(* The goroutines that are started, one for each missing user.             *)
Starts == {f \in [Missing -> Free] : \A u, v \in Missing : f[u] = f[v] => u = v}

RunsKept(f) ==  \* mutant: cancel() without delete(runs, uid)
  [u \in Uids |-> IF u \in Missing THEN f[u] ELSE runs[u]]

(* runs, once the gone are deleted and the missing are started.            *)
RunsAfter(f) ==
  [u \in Uids |-> IF u \in Missing THEN f[u]
                  ELSE IF u \in Gone THEN NoLoop ELSE runs[u]]

(* The critical section.                                                   *)
Apply ==
  /\ round = "listed"
  /\ round' = "waiting"
  /\ want' = {}
  /\ \E f \in Starts :
       /\ runs' = RunsAfter(f)
       /\ owner' = [g \in Loops |->
                      IF \E u \in Missing : f[u] = g
                      THEN CHOOSE u \in Missing : f[u] = g ELSE owner[g]]
       /\ over' = [g \in Loops |-> over[g] \/ \E u \in Gone : runs[u] = g]
  /\ UNCHANGED phase

(* A cancelled loop ends, wherever it is: LoopStops of StatusFeed.         *)
LoopOver(g) ==
  /\ owner[g] # NoUid
  /\ over[g]
  /\ owner' = [owner EXCEPT ![g] = NoUid]
  /\ over' = [over EXCEPT ![g] = FALSE]
  /\ UNCHANGED <<phase, round, want, runs>>

Next ==
  \/ UserChanges \/ ListUsers \/ Apply
  \/ \E g \in Loops : LoopOver(g)

Spec == Init /\ [][Next]_vars

(* The ticker fires every 45 s, the query does not fail for ever, and the  *)
(* goroutines keep running; no user has to come or go.                     *)
FairSpec ==
  /\ Spec
  /\ WF_vars(ListUsers) /\ WF_vars(Apply)
  /\ \A g \in Loops : WF_vars(LoopOver(g))

-----------------------------------------------------------------------------
(* The map and the goroutines agree: a user has at most one loop that is   *)
(* not cancelled, it is the one runs can cancel, and no other loop is left *)
(* running for ever, whatever happened to the user between query and use.  *)
OneLoopPerUser ==
  \A u \in Uids, g \in Loops : Runs(u, g) <=> runs[u] = g

(* Only the loop of a deleted user is cancelled: a list that is out of     *)
(* date, or that could not be read, takes no feed from a user that stays.  *)
SteadyUsersKept ==
  [][\A u \in Uids, g \in Loops :
       Runs(u, g) /\ ~Runs(u, g)' => phase[u] = "deleted"]_vars

(* Whoever is configured gets a loop unless deleted first, and in the end  *)
(* no loop serves a deleted user, one started late from an old list        *)
(* included.                                                               *)
LoopsFollowUsers ==
  \A u \in Uids :
    /\ phase[u] = "configured" ~> (phase[u] = "deleted" \/ \E g \in Loops : Runs(u, g))
    /\ phase[u] = "deleted" ~> [](\A g \in Loops : owner[g] # u)
=============================================================================
