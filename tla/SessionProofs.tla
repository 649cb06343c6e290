---------------------------- MODULE SessionProofs ----------------------------
(***************************************************************************)
(* The safety of WSSession, for every set of requests and userIds.  The    *)
(* invariant adds to RowsConsistent what a handler still knows when its    *)
(* next query comes: whoever holds a token, or is about to be issued one,  *)
(* has credentials or was deleted since, and a deleted userId stays so.    *)
(***************************************************************************)
EXTENDS WSSession, TLAPS

Granted == {"checkUser", "checkCreds", "checkActivity", "clear", "accepted",
            "close", "touching", "reading", "gone"}

HolderInv ==
  /\ removed \subseteq used
  /\ tokens \subseteq creds \cup removed
  /\ \A u \in Uids : last[u] # Never => u \in creds
  /\ \A r \in Requests : pc[r] \in Granted => uid[r] \in tokens
  /\ \A r \in Requests : pc[r] = "issue" => uid[r] \in creds \cup removed
  /\ \A c \in Conns : writer[c] # "none" => pc[c] \in {"touching", "reading", "gone"}

SessionInv == TypeOK /\ RowsConsistent /\ HolderInv

(* A step of the session as a step of the life of the userIds.             *)
LifeStep == Life!LifeNext \/ UNCHANGED Life!lifeVars

LEMMA InitInv == Init => SessionInv
  BY SessionAssumption
  DEF Init, SessionInv, TypeOK, RowsConsistent, HolderInv, Granted, Ages, Steps,
      WriterSteps, Conns, Of

-----------------------------------------------------------------------------
(* Steps that touch neither the rows nor the tokens.                       *)
LEMMA QuietStep ==
  ASSUME UNCHANGED <<rowVars, last, tokens>>,
         \A r \in Requests : AcceptedFor(r)' = AcceptedFor(r)
  PROVE  UNCHANGED Life!lifeVars
  BY DEF rowVars, Life!lifeVars, Phase, Fresh

(* A handler goes on to a step for which nobody is accepted.               *)
LEMMA HandlerGoes ==
  ASSUME SessionInv, NEW r \in Requests,
         NEW step \in {"saveCreds", "hasCreds", "checkCreds", "clear", "failed"},
         pc[r] \in {"login", "saveCreds", "hasCreds", "issue", "checkUser",
                    "checkCreds", "checkActivity", "clear"},
         pc' = [pc EXCEPT ![r] = step],
         step \in Granted => pc[r] \in Granted,
         UNCHANGED <<rowVars, sessionVars, uid, connVars>>
  PROVE  SessionInv' /\ LifeStep
<1> USE DEF SessionInv, rowVars, sessionVars, connVars
<1>1. TypeOK'
  BY DEF TypeOK, Steps
<1>2. RowsConsistent'
  BY DEF RowsConsistent
<1>3. HolderInv'
  BY DEF TypeOK, HolderInv, Granted, Conns, Of
<1>4. \A q \in Requests : AcceptedFor(q)' = AcceptedFor(q)
  BY DEF TypeOK, AcceptedFor
<1> QED
  BY <1>1, <1>2, <1>3, <1>4, QuietStep DEF LifeStep

LEMMA RequestFailsInv ==
  ASSUME SessionInv, NEW r \in Requests, RequestFails(r)
  PROVE  SessionInv' /\ LifeStep
  BY HandlerGoes DEF RequestFails, Goto, Granted

LEMMA LoginInv ==
  ASSUME SessionInv, NEW r \in Requests, Login(r)
  PROVE  SessionInv' /\ LifeStep
  BY HandlerGoes DEF Login, Goto, Granted

LEMMA CheckUserInv ==
  ASSUME SessionInv, NEW r \in Requests, CheckUser(r)
  PROVE  SessionInv' /\ LifeStep
  BY HandlerGoes DEF CheckUser, Goto, Granted

LEMMA CheckCredentialsInv ==
  ASSUME SessionInv, NEW r \in Requests, CheckCredentials(r)
  PROVE  SessionInv' /\ LifeStep
<1> USE DEF SessionInv, rowVars, sessionVars, connVars, CheckCredentials, Goto
<1>1. TypeOK'
  BY DEF TypeOK, Steps
<1>2. RowsConsistent'
  BY DEF RowsConsistent
<1>3. HolderInv'
  BY DEF TypeOK, HolderInv, Granted, Conns, Of
<1>4. \A q \in Requests : AcceptedFor(q)' = AcceptedFor(q)
  BY DEF TypeOK, AcceptedFor
<1> QED
  BY <1>1, <1>2, <1>3, <1>4, QuietStep DEF LifeStep

LEMMA HasCredentialsInv ==
  ASSUME SessionInv, NEW r \in Requests, HasCredentials(r)
  PROVE  SessionInv' /\ LifeStep
<1> USE DEF SessionInv, rowVars, sessionVars, connVars, HasCredentials, Goto
<1>1. TypeOK'
  BY DEF TypeOK, Steps
<1>2. RowsConsistent'
  BY DEF RowsConsistent
<1>3. HolderInv'
  BY DEF TypeOK, HolderInv, Granted, Conns, Of
<1>4. \A q \in Requests : AcceptedFor(q)' = AcceptedFor(q)
  BY DEF TypeOK, AcceptedFor
<1> QED
  BY <1>1, <1>2, <1>3, <1>4, QuietStep DEF LifeStep

LEMMA GetByUsernameInv ==
  ASSUME SessionInv, NEW r \in Requests, GetByUsername(r)
  PROVE  SessionInv' /\ LifeStep
<1> USE DEF SessionInv, rowVars, sessionVars, connVars, GetByUsername, Goto
<1>1. TypeOK'
  BY DEF TypeOK, Steps, RowsConsistent
<1>2. RowsConsistent'
  BY DEF RowsConsistent
<1>3. HolderInv'
  BY DEF TypeOK, HolderInv, Granted, Conns, Of
<1>4. \A q \in Requests : AcceptedFor(q)' = AcceptedFor(q)
  BY DEF TypeOK, AcceptedFor
<1> QED
  BY <1>1, <1>2, <1>3, <1>4, QuietStep DEF LifeStep

LEMMA PresentTokenInv ==
  ASSUME SessionInv, NEW r \in Requests, PresentToken(r)
  PROVE  SessionInv' /\ LifeStep
<1> USE DEF SessionInv, rowVars, sessionVars, connVars, PresentToken, Goto
<1>1. TypeOK'
  BY SessionAssumption DEF TypeOK, Steps, RowsConsistent, HolderInv
<1>2. RowsConsistent'
  BY DEF RowsConsistent
<1>3. HolderInv'
  BY DEF TypeOK, HolderInv, Granted, Conns, Of
<1>4. \A q \in Requests : AcceptedFor(q)' = AcceptedFor(q)
  BY DEF TypeOK, AcceptedFor
<1> QED
  BY <1>1, <1>2, <1>3, <1>4, QuietStep DEF LifeStep

LEMMA CloseDeletedInv ==
  ASSUME SessionInv, NEW r \in Requests, CloseDeleted(r)
  PROVE  SessionInv' /\ LifeStep
<1> USE DEF SessionInv, rowVars, sessionVars, connVars, CloseDeleted,
            CloseUserConnections, Goto
<1>1. TypeOK'
  BY DEF TypeOK, Steps
<1>2. RowsConsistent'
  BY DEF RowsConsistent
<1>3. HolderInv'
  BY DEF TypeOK, HolderInv, Granted, Conns, Of
<1>4. \A q \in Requests : AcceptedFor(q)' = AcceptedFor(q)
  BY DEF TypeOK, AcceptedFor
<1> QED
  BY <1>1, <1>2, <1>3, <1>4, QuietStep DEF LifeStep

(* The pumps, as long as they leave the row alone.                         *)
LEMMA PumpMoves ==
  ASSUME SessionInv, NEW c \in Conns,
         \/ Register(c) \/ ClientMessage(c) \/ PeerLeaves(c) \/ ReaderExits(c)
         \/ WriteFrame(c) \/ WriterExits(c) \/ IdleExpired(c) \/ RecheckActivity(c)
         \/ CloseIdleUser(c) \/ CloseIdle(c)
  PROVE  SessionInv' /\ LifeStep
<1> USE DEF SessionInv, rowVars, sessionVars, connVars, Register, ClientMessage,
            PeerLeaves, ReaderExits, WriteFrame, WriterExits, IdleExpired,
            RecheckActivity, CloseIdleUser, CloseIdle, CloseUserConnections, Goto,
            WriterGoto
<1>0. c \in Requests /\ KindOf[c] = "connect"
  BY DEF Conns, Of
<1>1. TypeOK'
  BY <1>0, SessionAssumption DEF TypeOK, Steps, WriterSteps, Ages
<1>2. RowsConsistent'
  BY DEF RowsConsistent
<1>3. HolderInv'
  BY <1>0 DEF TypeOK, HolderInv, Granted, Conns, Of
<1>4. \A q \in Requests : AcceptedFor(q)' = AcceptedFor(q)
  BY <1>0 DEF TypeOK, AcceptedFor
<1> QED
  BY <1>1, <1>2, <1>3, <1>4, QuietStep DEF LifeStep

-----------------------------------------------------------------------------
(* Where each userId of the session is in its life.                        *)
LEMMA PhaseOf ==
  ASSUME SessionInv, NEW u \in Uids
  PROVE  /\ Phase(u) = "deleted" <=> u \in removed
         /\ Phase(u) = "configured" <=> u \in creds
         /\ Phase(u) = "user" <=> user = u /\ u \notin creds
         /\ Phase(u) = "unused" <=> user # u /\ u \notin removed
         /\ Fresh(u) => u = user /\ u \in creds
  BY DEF SessionInv, TypeOK, RowsConsistent, HolderInv, Phase, Fresh

(* A touch of a userId that holds a token makes it fresh, if it has a row. *)
LEMMA TouchMaps ==
  ASSUME SessionInv, NEW u \in Uids, u \in tokens, TouchWSActivity(u),
         UNCHANGED <<rowVars, tokens>>,
         \A q \in Requests : AcceptedFor(q)' = AcceptedFor(q)
  PROVE  LifeStep
<1> USE DEF rowVars
<1>1. CASE user # u
  BY <1>1, QuietStep DEF TouchWSActivity, LifeStep
<1>2. CASE user = u
  <2>1. \A w \in Uids : Fresh(w)' <=> w = u \/ Fresh(w)
    BY <1>2, SessionAssumption DEF TouchWSActivity, Fresh, SessionInv, TypeOK
  <2>2. \A w \in Uids : Phase(w)' = Phase(w)
    BY DEF Phase
  <2>3. u \in creds
    BY <1>2 DEF SessionInv, HolderInv, RowsConsistent
  <2>4. Life!Touched(u)
    BY <2>1, <2>2, <2>3, PhaseOf DEF Life!Touched
  <2> QED
    BY <2>4 DEF LifeStep, Life!LifeNext
<1> QED
  BY <1>1, <1>2

LEMMA TouchKeeps ==
  ASSUME SessionInv, NEW u \in Uids, u \in creds \cup removed,
         TouchWSActivity(u) \/ UNCHANGED last, UNCHANGED rowVars
  PROVE  /\ last' \in [Uids -> Ages \cup {Never}]
         /\ RowsConsistent'
         /\ \A w \in Uids : last'[w] # Never => w \in creds
  BY SessionAssumption
  DEF SessionInv, TypeOK, RowsConsistent, HolderInv, TouchWSActivity, rowVars, Ages

LEMMA GenerateTokenInv ==
  ASSUME SessionInv, NEW r \in Requests, KindOf[r] \in {"config", "token"},
         GenerateToken(r)
  PROVE  SessionInv' /\ LifeStep
<1> USE DEF SessionInv, rowVars, connVars, GenerateToken, Goto
<1>0. uid[r] \in Uids /\ uid[r] \in creds \cup removed
  BY DEF HolderInv, TypeOK
<1>1. TypeOK'
  BY <1>0, TouchKeeps DEF TypeOK, Steps
<1>2. RowsConsistent'
  BY <1>0, TouchKeeps
<1>3. HolderInv'
  BY <1>0, <1>2, TouchKeeps DEF TypeOK, HolderInv, Granted, Conns, Of
<1>4. \A q \in Requests : AcceptedFor(q)' = AcceptedFor(q)
  BY DEF TypeOK, AcceptedFor
<1>5. LifeStep
  <2>1. CASE user # uid[r]
    BY <2>1, <1>4, QuietStep DEF TouchWSActivity, LifeStep
  <2>2. CASE user = uid[r]
    <3>1. \A w \in Uids : Fresh(w)' <=> w = uid[r] \/ Fresh(w)
      BY <2>2, SessionAssumption DEF TouchWSActivity, Fresh, TypeOK
    <3>2. \A w \in Uids : Phase(w)' = Phase(w)
      BY DEF Phase
    <3>3. uid[r] \in creds
      BY <1>0, <2>2 DEF RowsConsistent
    <3>4. Life!Issue(uid[r])
      BY <1>0, <1>4, <2>2, <3>1, <3>2, <3>3, PhaseOf DEF Life!Issue
    <3> QED
      BY <1>0, <3>4 DEF LifeStep, Life!LifeNext
  <2> QED
    BY <2>1, <2>2
<1> QED
  BY <1>1, <1>2, <1>3, <1>5

LEMMA PumpTouches ==
  ASSUME SessionInv, NEW c \in Conns, ReaderTouches(c) \/ WriterTouches(c)
  PROVE  SessionInv' /\ LifeStep
<1> USE DEF SessionInv, rowVars, ReaderTouches, WriterTouches, Goto, WriterGoto
<1>0. /\ c \in Requests /\ KindOf[c] = "connect"
      /\ uid[c] \in tokens /\ uid[c] \in Uids /\ uid[c] \in creds \cup removed
  BY DEF Conns, Of, HolderInv, Granted, TypeOK
<1>1. TypeOK'
  BY <1>0, TouchKeeps DEF TypeOK, Steps, WriterSteps
<1>2. RowsConsistent'
  BY <1>0, TouchKeeps
<1>3. HolderInv'
  BY <1>0, TouchKeeps DEF TypeOK, HolderInv, Granted, Conns, Of
<1>4. \A q \in Requests : AcceptedFor(q)' = AcceptedFor(q)
  BY <1>0 DEF TypeOK, AcceptedFor
<1>5. LifeStep
  BY <1>0, <1>4, TouchMaps, QuietStep DEF LifeStep
<1> QED
  BY <1>1, <1>2, <1>3, <1>5

(* Clearing the activity of a userId, and the passing of time, take        *)
(* freshness away.                                                         *)
LEMMA LapseMaps ==
  ASSUME SessionInv, NEW u \in Uids,
         \A w \in Uids : Fresh(w)' => Fresh(w),
         \A w \in Uids : Fresh(w) /\ ~Fresh(w)' => w = u,
         UNCHANGED <<rowVars, tokens>>,
         \A q \in Requests : AcceptedFor(q)' = AcceptedFor(q)
  PROVE  LifeStep
<1> USE DEF rowVars
<1>0. \A w \in Uids : Phase(w)' = Phase(w)
  BY DEF Phase
<1>1. CASE Fresh(u)' <=> Fresh(u)
  <2>1. \A w \in Uids : Fresh(w)' <=> Fresh(w)
    BY <1>1
  <2> QED
    BY <1>0, <2>1 DEF LifeStep, Life!lifeVars
<1>2. CASE ~(Fresh(u)' <=> Fresh(u))
  <2>1. Life!Lapse(u)
    BY <1>0, <1>2 DEF Life!Lapse
  <2> QED
    BY <2>1 DEF LifeStep, Life!LifeNext
<1> QED
  BY <1>1, <1>2

LEMMA ClearKeeps ==
  ASSUME SessionInv, NEW u \in Uids, ClearWSActivity(u), UNCHANGED rowVars
  PROVE  /\ last' \in [Uids -> Ages \cup {Never}]
         /\ void' \subseteq Uids
         /\ RowsConsistent'
         /\ \A w \in Uids : last'[w] # Never => w \in creds
         /\ \A w \in Uids : Fresh(w)' => Fresh(w)
         /\ \A w \in Uids : Fresh(w) /\ ~Fresh(w)' => w = u
  BY DEF SessionInv, TypeOK, RowsConsistent, HolderInv, ClearWSActivity, Fresh, rowVars

LEMMA ClearStaleInv ==
  ASSUME SessionInv, NEW r \in Requests, ClearStale(r)
  PROVE  SessionInv' /\ LifeStep
<1> USE DEF SessionInv, rowVars, connVars, ClearStale, Goto
<1>0. uid[r] \in Uids
  BY DEF HolderInv, Granted, TypeOK
<1>1. TypeOK'
  BY <1>0, ClearKeeps DEF TypeOK, Steps
<1>2. RowsConsistent'
  BY <1>0, ClearKeeps
<1>3. HolderInv'
  BY <1>0, ClearKeeps DEF TypeOK, HolderInv, Granted, Conns, Of
<1>4. \A q \in Requests : AcceptedFor(q)' = AcceptedFor(q)
  BY DEF TypeOK, AcceptedFor
<1>5. LifeStep
  BY <1>0, <1>4, ClearKeeps, LapseMaps
<1> QED
  BY <1>1, <1>2, <1>3, <1>5

LEMMA InvalidateSessionInv ==
  ASSUME SessionInv, NEW c \in Conns, InvalidateSession(c)
  PROVE  SessionInv' /\ LifeStep
<1> USE DEF SessionInv, rowVars, InvalidateSession, WriterGoto
<1>0. c \in Requests /\ uid[c] \in Uids
  BY DEF Conns, Of, HolderInv, Granted, TypeOK
<1>4. \A q \in Requests : AcceptedFor(q)' = AcceptedFor(q)
  BY DEF AcceptedFor
<1>5. CASE ClearWSActivity(uid[c]) /\ writer' = [writer EXCEPT ![c] = "closeAll"]
  <2>1. TypeOK'
    BY <1>0, <1>5, ClearKeeps DEF TypeOK, WriterSteps
  <2>2. RowsConsistent'
    BY <1>0, <1>5, ClearKeeps
  <2>3. HolderInv'
    BY <1>0, <1>5, ClearKeeps DEF TypeOK, HolderInv, Granted
  <2>4. LifeStep
    BY <1>0, <1>4, <1>5, ClearKeeps, LapseMaps
  <2> QED
    BY <2>1, <2>2, <2>3, <2>4
<1>6. CASE writer' = [writer EXCEPT ![c] = "closing"] /\ UNCHANGED <<last, void>>
  <2>1. TypeOK'
    BY <1>6 DEF TypeOK, WriterSteps
  <2>2. RowsConsistent'
    BY <1>6 DEF RowsConsistent
  <2>3. HolderInv'
    BY <1>6 DEF TypeOK, HolderInv, Granted
  <2>4. LifeStep
    BY <1>4, <1>6, QuietStep DEF LifeStep
  <2> QED
    BY <2>1, <2>2, <2>3, <2>4
<1> QED
  BY <1>5, <1>6

LEMMA OlderAge ==
  ASSUME NEW age \in Ages \cup {Never}
  PROVE  /\ Older(age) \in Ages \cup {Never}
         /\ Older(age) # Never <=> age # Never
         /\ Older(age) # Never /\ Older(age) <= Idle => age <= Idle
         /\ age \in Ages => Older(age) \in Ages
  BY SessionAssumption DEF Older, Ages

LEMMA TickInv ==
  ASSUME SessionInv, Tick
  PROVE  SessionInv' /\ LifeStep
<1> USE DEF SessionInv, rowVars, Tick
<1>1. TypeOK'
  BY OlderAge DEF TypeOK
<1>2. RowsConsistent'
  BY OlderAge DEF TypeOK, RowsConsistent
<1>3. HolderInv'
  BY OlderAge DEF TypeOK, HolderInv, Granted
<1>4. \A q \in Requests : AcceptedFor(q)' = AcceptedFor(q)
  BY DEF AcceptedFor
<1>5. \A w \in Uids : Fresh(w)' => Fresh(w)
  BY OlderAge DEF TypeOK, Fresh
<1>6. LifeStep
  <2>1. CASE user \in Uids
    BY <1>4, <1>5, <2>1, PhaseOf, LapseMaps
  <2>2. CASE user \notin Uids
    <3>1. \A w \in Uids : Fresh(w)' <=> Fresh(w)
      BY <1>5, <2>2, PhaseOf
    <3>2. \A w \in Uids : Phase(w)' = Phase(w)
      BY DEF Phase
    <3> QED
      BY <1>4, <3>1, <3>2 DEF LifeStep, Life!lifeVars
  <2> QED
    BY <2>1, <2>2
<1> QED
  BY <1>1, <1>2, <1>3, <1>6

-----------------------------------------------------------------------------
(* The statements that change the rows.                                    *)
LEMMA UpsertByUsernameInv ==
  ASSUME SessionInv, NEW r \in Of("config"), UpsertByUsername(r)
  PROVE  SessionInv' /\ LifeStep
<1> USE DEF SessionInv, rowVars, sessionVars, connVars, UpsertByUsername, Goto
<1>0. r \in Requests /\ KindOf[r] = "config"
  BY DEF Of
<1>1. TypeOK'
  BY <1>0 DEF TypeOK, Steps, RowsConsistent
<1>2. RowsConsistent'
  BY SessionAssumption DEF TypeOK, RowsConsistent, HolderInv
<1>3. HolderInv'
  BY <1>0 DEF TypeOK, HolderInv, Granted, Conns, Of
<1>4. \A q \in Requests : AcceptedFor(q)' = AcceptedFor(q)
  BY <1>0 DEF TypeOK, AcceptedFor
<1>5. CASE user # NoUid
  BY <1>2, <1>3, <1>1, <1>4, <1>5, QuietStep DEF LifeStep
<1>6. CASE user = NoUid
  <2>1. PICK u \in Uids \ used : user' = u
    BY <1>6
  <2>2. u \notin removed /\ creds = {}
    BY <1>6, <2>1, SessionAssumption DEF TypeOK, RowsConsistent, HolderInv
  <2>3. \A w \in Uids : Phase(w)' = IF w = u THEN "user" ELSE Phase(w)
    BY <1>6, <2>1, <2>2, SessionAssumption DEF Phase
  <2>4. Phase(u) = "unused"
    BY <1>6, <2>1, <2>2, SessionAssumption DEF Phase
  <2>5. \A w \in Uids : ~Fresh(w) /\ ~Fresh(w)'
    BY <2>2 DEF HolderInv, Fresh
  <2>6. Life!Insert(u)
    BY <2>3, <2>4 DEF Life!Insert, Life!Enter
  <2>7. Life!RowChanges
    BY <1>4, <2>5, <2>6 DEF Life!RowChanges, Life!RowsNext
  <2> QED
    BY <1>1, <1>2, <1>3, <2>7 DEF LifeStep, Life!LifeNext
<1> QED
  BY <1>5, <1>6

LEMMA SaveCredentialsInv ==
  ASSUME SessionInv, NEW r \in Of("config"), SaveCredentials(r)
  PROVE  SessionInv' /\ LifeStep
<1> USE DEF SessionInv, rowVars, sessionVars, connVars, SaveCredentials, Goto
<1>0. /\ r \in Requests /\ KindOf[r] = "config"
      /\ uid[r] \in Uids
  BY DEF Of, TypeOK
<1>1. TypeOK'
  BY <1>0 DEF TypeOK, Steps
<1>2. RowsConsistent'
  BY DEF RowsConsistent
<1>3. HolderInv'
  BY <1>0 DEF TypeOK, HolderInv, Granted, Conns, Of
<1>4. \A q \in Requests : AcceptedFor(q)' = AcceptedFor(q)
  BY <1>0 DEF TypeOK, AcceptedFor
<1>5. CASE creds' = creds
  BY <1>1, <1>2, <1>3, <1>4, <1>5, QuietStep DEF LifeStep
<1>6. CASE creds' # creds
  <2> DEFINE u == uid[r]
  <2>1. user = u /\ u \notin creds /\ creds' = creds \cup {u}
    BY <1>6
  <2>2. u \notin removed
    BY <2>1 DEF RowsConsistent
  <2>3. \A w \in Uids : Phase(w)' = IF w = u THEN "configured" ELSE Phase(w)
    BY <2>1, <2>2 DEF Phase
  <2>4. Phase(u) = "user"
    BY <2>1, <2>2 DEF Phase
  <2>5. \A w \in Uids : ~Fresh(w) /\ ~Fresh(w)'
    BY <2>1 DEF HolderInv, Fresh, RowsConsistent
  <2>6. Life!Configure(u)
    BY <1>0, <2>3, <2>4 DEF Life!Configure, Life!Enter
  <2>7. Life!RowChanges
    BY <1>0, <1>4, <2>5, <2>6 DEF Life!RowChanges, Life!RowsNext
  <2> QED
    BY <1>1, <1>2, <1>3, <2>7 DEF LifeStep, Life!LifeNext
<1> QED
  BY <1>5, <1>6

LEMMA DeleteUserInv ==
  ASSUME SessionInv, NEW r \in Of("delete"), DeleteUser(r)
  PROVE  SessionInv' /\ LifeStep
<1> USE DEF SessionInv, rowVars, connVars, DeleteUser, Goto
<1>0. /\ r \in Requests /\ KindOf[r] = "delete"
      /\ uid[r] \in Uids /\ uid[r] \in used /\ uid[r] \in tokens
  BY DEF Of, TypeOK, HolderInv, Granted
<1>1. TypeOK'
  BY <1>0 DEF TypeOK, Steps
<1>2. RowsConsistent'
  BY <1>0, SessionAssumption DEF TypeOK, RowsConsistent
<1>3. HolderInv'
  BY <1>0 DEF TypeOK, HolderInv, Granted, Conns, Of
<1>4. \A q \in Requests : AcceptedFor(q)' = AcceptedFor(q)
  BY <1>0 DEF TypeOK, AcceptedFor
<1>5. CASE UNCHANGED <<user, removed, creds, last>>
  BY <1>1, <1>2, <1>3, <1>4, <1>5, QuietStep DEF LifeStep
<1>6. CASE /\ user = uid[r]
           /\ user' = NoUid
           /\ removed' = removed \cup {uid[r]}
           /\ creds' = creds \ {uid[r]}
           /\ last' = [last EXCEPT ![uid[r]] = Never]
  <2> DEFINE u == uid[r]
  <2>1. u \in creds /\ u \notin removed
    BY <1>0, <1>6 DEF RowsConsistent, HolderInv
  <2>2. \A w \in Uids : Phase(w)' = IF w = u THEN "deleted" ELSE Phase(w)
    BY <1>6, <2>1, SessionAssumption DEF Phase, RowsConsistent
  <2>3. Phase(u) = "configured"
    BY <2>1 DEF Phase
  <2>4. \A w \in Uids : ~Fresh(w)'
    BY <1>0, <1>6 DEF TypeOK, Fresh, RowsConsistent
  <2>5. \A w \in Uids : Fresh(w) => w = u
    BY <1>6 DEF Fresh, RowsConsistent
  <2>6. Life!Delete(u)
    BY <1>0, <2>2, <2>3 DEF Life!Delete, Life!Enter
  <2>7. Life!RowChanges
    BY <1>0, <1>4, <2>2, <2>4, <2>5, <2>6 DEF Life!RowChanges, Life!RowsNext
  <2> QED
    BY <1>1, <1>2, <1>3, <2>7 DEF LifeStep, Life!LifeNext
<1> QED
  BY <1>5, <1>6

(* The answer of ValidateToken: its last query is the moment of acceptance.*)
LEMMA CheckActivityInv ==
  ASSUME SessionInv, NEW r \in Requests, CheckActivity(r),
         KindOf[r] \in {"connect", "delete", "stations"}
  PROVE  SessionInv' /\ LifeStep
<1> USE DEF SessionInv, rowVars, sessionVars, connVars, CheckActivity, Goto
<1>0. uid[r] \in Uids /\ uid[r] \in tokens
  BY DEF TypeOK, HolderInv, Granted
<1>1. TypeOK'
  BY DEF TypeOK, Steps
<1>2. RowsConsistent'
  BY DEF RowsConsistent
<1>3. HolderInv'
  BY DEF TypeOK, HolderInv, Granted, Conns, Of
<1>4. CASE pc'[r] # "accepted"
  <2>1. \A q \in Requests : AcceptedFor(q)' = AcceptedFor(q)
    BY <1>4 DEF TypeOK, AcceptedFor
  <2> QED
    BY <1>1, <1>2, <1>3, <2>1, QuietStep DEF LifeStep
<1>5. CASE pc'[r] = "accepted"
  <2>1. user = uid[r] /\ Fresh(uid[r])
    BY <1>5 DEF TypeOK
  <2>2. Phase(uid[r]) = "configured"
    BY <1>0, <2>1 DEF HolderInv, RowsConsistent, Phase
  <2>3. AcceptedFor(r) = NoUid
    BY DEF AcceptedFor
  <2>4. \A q \in Requests :
          AcceptedFor(q)' = IF q = r THEN uid[r] ELSE AcceptedFor(q)
    BY <1>5 DEF TypeOK, AcceptedFor
  <2>5. \A w \in Uids : Phase(w)' = Phase(w) /\ (Fresh(w)' <=> Fresh(w))
    BY DEF Phase, Fresh
  <2>6. Life!Accept(r, uid[r])
    BY <1>0, <2>1, <2>2, <2>3, <2>4, <2>5 DEF Life!Accept, Life!Live
  <2> QED
    BY <1>0, <1>1, <1>2, <1>3, <2>6 DEF LifeStep, Life!LifeNext
<1> QED
  BY <1>4, <1>5

LEMMA UpgradeFailsInv ==
  ASSUME SessionInv, NEW c \in Conns, UpgradeFails(c)
  PROVE  SessionInv' /\ LifeStep
<1> USE DEF SessionInv, rowVars, sessionVars, connVars, UpgradeFails, Goto
<1>0. c \in Requests
  BY DEF Conns, Of
<1>1. TypeOK'
  BY <1>0 DEF TypeOK, Steps
<1>2. RowsConsistent'
  BY DEF RowsConsistent
<1>3. HolderInv'
  BY <1>0 DEF TypeOK, HolderInv, Granted, Conns, Of
<1>4. \A q \in Requests :
        AcceptedFor(q)' = IF q = c THEN NoUid ELSE AcceptedFor(q)
  BY <1>0 DEF TypeOK, AcceptedFor
<1>5. UNCHANGED <<rowVars, last, tokens>>
  OBVIOUS
<1>6. Life!Answered(c)
  BY <1>4, <1>5 DEF Life!Answered, Phase, Fresh
<1> QED
  BY <1>0, <1>1, <1>2, <1>3, <1>6 DEF LifeStep, Life!LifeNext

-----------------------------------------------------------------------------
(* Every step, and then the theorems.                                      *)
LEMMA ValidateTokenInv ==
  ASSUME SessionInv, NEW r \in Requests, ValidateToken(r),
         KindOf[r] \in {"connect", "delete", "stations"}
  PROVE  SessionInv' /\ LifeStep
  BY PresentTokenInv, CheckUserInv, CheckCredentialsInv, CheckActivityInv,
     ClearStaleInv, RequestFailsInv
  DEF ValidateToken

LEMMA StepInv ==
  ASSUME SessionInv, Next
  PROVE  SessionInv' /\ LifeStep
<1>1. CASE \E r \in Of("config") : handleConfig(r)
  BY <1>1, UpsertByUsernameInv, LoginInv, SaveCredentialsInv, GenerateTokenInv,
     RequestFailsInv DEF handleConfig, Of
<1>2. CASE \E r \in Of("token") : handleToken(r)
  BY <1>2, GetByUsernameInv, HasCredentialsInv, GenerateTokenInv, RequestFailsInv
  DEF handleToken, Of
<1>3. CASE \E r \in Of("delete") : handleDeleteConfig(r)
  BY <1>3, ValidateTokenInv, DeleteUserInv, CloseDeletedInv
  DEF handleDeleteConfig, Of
<1>4. CASE \E r \in Of("stations") : handlePostStations(r)
  BY <1>4, ValidateTokenInv DEF handlePostStations, Of
<1>5. CASE \E c \in Conns : handleConnect(c)
  BY <1>5, ValidateTokenInv, PumpMoves, UpgradeFailsInv
  DEF handleConnect, Conns, Of
<1>6. CASE \E c \in Conns : Reader(c) \/ Writer(c) \/ Traffic(c) \/ PeerLeaves(c)
  BY <1>6, PumpMoves, PumpTouches, InvalidateSessionInv
  DEF Reader, Writer, Traffic
<1>7. CASE Tick
  BY <1>7, TickInv
<1> QED
  BY <1>1, <1>2, <1>3, <1>4, <1>5, <1>6, <1>7 DEF Next

LEMMA StutterInv ==
  ASSUME SessionInv, UNCHANGED vars
  PROVE  SessionInv' /\ UNCHANGED Life!lifeVars
<1> USE DEF vars, rowVars, sessionVars, connVars
<1>1. SessionInv'
  BY DEF SessionInv, TypeOK, RowsConsistent, HolderInv, Conns, Of, Granted
<1>2. \A q \in Requests : AcceptedFor(q)' = AcceptedFor(q)
  BY DEF AcceptedFor
<1> QED
  BY <1>1, <1>2, QuietStep

(* The invariant from which the properties follow.                         *)
THEOREM SessionInvariant == Spec => []SessionInv
<1>1. SessionInv /\ [Next]_vars => SessionInv'
  BY StepInv, StutterInv
<1> QED
  BY <1>1, InitInv, PTL DEF Spec

(* Every variable has its type, and a request past its first query works   *)
(* for a userId that was inserted.                                         *)
THEOREM SessionTypeCorrect == Spec => []TypeOK
  BY SessionInvariant, PTL DEF SessionInv

(* No interleaving of configurations, deletions and late touches leaves    *)
(* credentials or an activity under a userId whose row is gone.            *)
THEOREM RowsStayConsistent == Spec => []RowsConsistent
  BY SessionInvariant, PTL DEF SessionInv

(* The handlers implement the life of the userIds: with queries made one   *)
(* after the other, ValidateToken accepts a request as if at one moment.   *)
THEOREM ImplementsUserLife == Spec => IsUserLife
<1>1. Init => Life!LifeInit
  BY SessionAssumption
  DEF Init, Life!LifeInit, Life!RowsInit, Phase, Fresh, AcceptedFor
<1>2. SessionInv /\ [Next]_vars => [Life!LifeNext]_(Life!lifeVars)
  BY StepInv, StutterInv DEF LifeStep
<1> QED
  BY <1>1, <1>2, SessionInvariant, PTL DEF Spec, IsUserLife, Life!LifeSpec
=============================================================================
