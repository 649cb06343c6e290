------------------------------ MODULE WSSession ------------------------------
(***************************************************************************)
(* The WebSocket session of one username: its row in users (a new userId   *)
(* at each insertion), its credentials row, ws_last_activity_at, the JWTs  *)
(* issued for its userIds, and the HTTP handlers and pumps that race on    *)
(* them.  A JWT has no expiry: it is good while the row, the credentials   *)
(* and a fresh activity exist, which ValidateToken reads in three queries. *)
(*                                                                         *)
(* One action is one SQL statement, one call to the hub or one step of a   *)
(* pump; the statements of a handler interleave with everything else.      *)
(* Time is the age of a time stamp, capped at Idle + 1: the code compares  *)
(* an age with the idle timeout and nothing else.                          *)
(***************************************************************************)
EXTENDS Naturals, FiniteSets

CONSTANTS
  Requests,  \* the HTTP requests, each served by one goroutine
  KindOf,    \* the handler of each request
  Uids,      \* the userIds uuid.New may return (bound: insertions)
  NoUid,     \* the username has no row
  Never,     \* ws_last_activity_at IS NULL
  Idle       \* WS_IDLE_TIMEOUT_SECONDS, in ticks

Kinds == {"config", "token", "connect", "delete", "stations"}

ASSUME SessionAssumption ==
  /\ KindOf \in [Requests -> Kinds]
  /\ NoUid \notin Uids
  /\ Idle \in Nat
  /\ Never \notin Nat

VARIABLES
  user,     \* the userId of the username's row in users, or NoUid
  used,     \* the userIds ever inserted
  removed,  \* history: the userIds whose row a DELETE removed
  creds,    \* user_id of the rows of third_party_credentials
  last,     \* age of ws_last_activity_at of each userId
  void,     \* history: userIds invalidated, no token issued since
  tokens,   \* the userIds a JWT was issued for
  pc,       \* where the goroutine of each request stands
  uid,      \* the userId it works for
  socket,   \* its WebSocket: "none", "open" (registered) or "closed"
  mem,      \* age of the lastAppActivity of its connection
  writer    \* where its writePump stands

rowVars == <<user, used, removed, creds>>
sessionVars == <<last, void, tokens>>
connVars == <<socket, mem, writer>>
vars == <<rowVars, sessionVars, pc, uid, connVars>>

Of(kind) == {r \in Requests : KindOf[r] = kind}
Conns == Of("connect")
Ages  == 0..(Idle + 1)
Steps == {"new", "login", "saveCreds", "hasCreds", "issue", "checkUser",
          "checkCreds", "checkActivity", "clear", "accepted", "close",
          "touching", "reading", "gone", "failed", "done"}
WriterSteps == {"none", "selecting", "touching", "recheck", "clearing",
                "closeAll", "closing", "gone"}

TypeOK ==
  /\ user \in Uids \cup {NoUid}
  /\ used \subseteq Uids
  /\ removed \subseteq Uids
  /\ creds \subseteq Uids
  /\ last \in [Uids -> Ages \cup {Never}]
  /\ void \subseteq Uids
  /\ tokens \subseteq Uids
  /\ pc \in [Requests -> Steps]
  /\ uid \in [Requests -> Uids \cup {NoUid}]
  /\ \A r \in Requests : pc[r] \notin {"new", "failed"} => uid[r] \in used
  /\ socket \in [Conns -> {"none", "open", "closed"}]
  /\ mem \in [Conns -> Ages]
  /\ writer \in [Conns -> WriterSteps]

Init ==
  /\ user = NoUid
  /\ used = {}
  /\ removed = {}
  /\ creds = {}
  /\ last = [u \in Uids |-> Never]
  /\ void = {}
  /\ tokens = {}
  /\ pc = [r \in Requests |-> "new"]
  /\ uid = [r \in Requests |-> NoUid]
  /\ socket = [c \in Conns |-> "none"]
  /\ mem = [c \in Conns |-> 0]
  /\ writer = [c \in Conns |-> "none"]

Goto(r, step) == pc' = [pc EXCEPT ![r] = step]

(* time.Since(last) <= idleTimeout, for a row that has a time stamp.       *)
Fresh(u) == last[u] # Never /\ last[u] <= Idle

-----------------------------------------------------------------------------
(* The statements of user_repo.go on ws_last_activity_at: an UPDATE that   *)
(* matches no row changes nothing.                                         *)

TouchWSActivity(u) ==
  last' = IF user = u THEN [last EXCEPT ![u] = 0] ELSE last

ClearWSActivity(u) ==
  /\ last' = IF user = u THEN [last EXCEPT ![u] = Never] ELSE last
  /\ void' = IF user = u THEN void \cup {u} ELSE void

-----------------------------------------------------------------------------
(* POST /v1/config: Configure, then GenerateToken.                         *)

(* INSERT ... ON CONFLICT (username): an existing row keeps its id.        *)
UpsertByUsername(r) ==
  /\ pc[r] = "new"
  /\ \/ /\ user # NoUid
        /\ uid' = [uid EXCEPT ![r] = user]
        /\ UNCHANGED <<user, used>>
     \/ /\ user = NoUid
        /\ \E u \in Uids \ used :
             /\ user' = u
             /\ used' = used \cup {u}
             /\ uid' = [uid EXCEPT ![r] = u]
  /\ Goto(r, "login")
  /\ UNCHANGED <<removed, creds, sessionVars, connVars>>

(* The call to the provider succeeds, or fails and leaves the user row.    *)
Login(r) ==
  /\ pc[r] = "login"
  /\ Goto(r, "saveCreds") \/ Goto(r, "failed")
  /\ UNCHANGED <<rowVars, sessionVars, uid, connVars>>

(* Upsert of the credentials: the foreign key refuses a user that is gone. *)
SaveCredentials(r) ==
  /\ pc[r] = "saveCreds"
  /\ IF user = uid[r]
     THEN creds' = creds \cup {uid[r]} /\ Goto(r, "issue")
     ELSE Goto(r, "failed") /\ UNCHANGED creds
  /\ UNCHANGED <<user, used, removed, sessionVars, uid, connVars>>

(* GenerateToken: the touch must find the row, then the JWT is signed.     *)
GenerateToken(r) ==
  /\ pc[r] = "issue"
  /\ TouchWSActivity(uid[r])
  /\ IF user = uid[r]
     THEN /\ tokens' = tokens \cup {uid[r]}
          /\ void' = void \ {uid[r]}
          /\ Goto(r, "done")
     ELSE Goto(r, "failed") /\ UNCHANGED <<tokens, void>>
  /\ UNCHANGED <<rowVars, uid, connVars>>

-----------------------------------------------------------------------------
(* GET /v1/ws/token: the row, its credentials, then GenerateToken.         *)

GetByUsernameUnchecked(r) ==  \* mutant: the missing row is not noticed
  /\ pc[r] = "new"
  /\ uid' = [uid EXCEPT ![r] = user]
  /\ Goto(r, "hasCreds")
  /\ UNCHANGED <<rowVars, sessionVars, connVars>>

GetByUsername(r) ==
  /\ pc[r] = "new"
  /\ uid' = [uid EXCEPT ![r] = user]
  /\ Goto(r, IF user = NoUid THEN "failed" ELSE "hasCreds")
  /\ UNCHANGED <<rowVars, sessionVars, connVars>>

HasCredentials(r) ==
  /\ pc[r] = "hasCreds"
  /\ Goto(r, IF uid[r] \in creds THEN "issue" ELSE "failed")
  /\ UNCHANGED <<rowVars, sessionVars, uid, connVars>>

-----------------------------------------------------------------------------
(* ValidateToken, for the handlers that take a JWT: any token ever issued  *)
(* may be presented, at any time.                                          *)

PresentToken(r) ==
  /\ pc[r] = "new"
  /\ \E u \in tokens : uid' = [uid EXCEPT ![r] = u]
  /\ Goto(r, "checkUser")
  /\ UNCHANGED <<rowVars, sessionVars, connVars>>

CheckUser(r) ==
  /\ pc[r] = "checkUser"
  /\ Goto(r, IF user = uid[r] THEN "checkCreds" ELSE "failed")
  /\ UNCHANGED <<rowVars, sessionVars, uid, connVars>>

CheckCredentials(r) ==
  /\ pc[r] = "checkCreds"
  /\ Goto(r, IF uid[r] \in creds THEN "checkActivity" ELSE "failed")
  /\ UNCHANGED <<rowVars, sessionVars, uid, connVars>>

ActivityAlone(r) ==  \* mutant: any activity ever recorded is enough
  /\ pc[r] = "checkActivity"
  /\ Goto(r, IF user # uid[r] \/ last[uid[r]] = Never THEN "failed"
             ELSE "accepted")
  /\ UNCHANGED <<rowVars, sessionVars, uid, connVars>>

CheckActivity(r) ==
  /\ pc[r] = "checkActivity"
  /\ Goto(r, IF user # uid[r] \/ last[uid[r]] = Never THEN "failed"
             ELSE IF Fresh(uid[r]) THEN "accepted" ELSE "clear")
  /\ UNCHANGED <<rowVars, sessionVars, uid, connVars>>

(* A stale session is cleared before the 401.                              *)
ClearStale(r) ==
  /\ pc[r] = "clear"
  /\ ClearWSActivity(uid[r])
  /\ Goto(r, "failed")
  /\ UNCHANGED <<rowVars, tokens, uid, connVars>>

-----------------------------------------------------------------------------
(* DELETE /v1/config.                                                      *)

DeleteWithoutCascade(r) ==  \* mutant: the credentials outlive their user
  /\ pc[r] = "accepted"
  /\ \/ /\ user = uid[r]
        /\ user' = NoUid
        /\ removed' = removed \cup {uid[r]}
        /\ last' = [last EXCEPT ![uid[r]] = Never]
     \/ UNCHANGED <<user, removed, last>>
  /\ Goto(r, "close")
  /\ UNCHANGED <<used, creds, void, tokens, uid, connVars>>

(* DELETE FROM users, with its cascade; an error is logged and ignored.    *)
DeleteUser(r) ==
  /\ pc[r] = "accepted"
  /\ \/ /\ user = uid[r]
        /\ user' = NoUid
        /\ removed' = removed \cup {uid[r]}
        /\ creds' = creds \ {uid[r]}
        /\ last' = [last EXCEPT ![uid[r]] = Never]
     \/ UNCHANGED <<user, removed, creds, last>>
  /\ Goto(r, "close")
  /\ UNCHANGED <<used, void, tokens, uid, connVars>>

(* The connections of a user that the hub has registered.                  *)
CloseUserConnections(u) ==
  socket' = [c \in Conns |-> IF uid[c] = u /\ socket[c] = "open"
                             THEN "closed" ELSE socket[c]]

CloseDeleted(r) ==
  /\ pc[r] = "close"
  /\ CloseUserConnections(uid[r])
  /\ Goto(r, "done")
  /\ UNCHANGED <<rowVars, sessionVars, uid, mem, writer>>

-----------------------------------------------------------------------------
(* GET /v1/ws after the handshake: the goroutine registers the connection, *)
(* marks its activity, starts writePump and becomes readPump.              *)

(* Upgrade and Register; markAppActivity stores the time in memory before  *)
(* it writes the row, and only the connection's own pumps read it.         *)
Register(c) ==
  /\ pc[c] = "accepted"
  /\ socket' = [socket EXCEPT ![c] = "open"]
  /\ mem' = [mem EXCEPT ![c] = 0]
  /\ Goto(c, "touching")
  /\ UNCHANGED <<rowVars, sessionVars, uid, writer>>

(* The touch of readPump (the first one precedes the pumps) or its error.  *)
ReaderTouches(c) ==
  /\ pc[c] = "touching"
  /\ TouchWSActivity(uid[c]) \/ UNCHANGED last
  /\ Goto(c, "reading")
  /\ writer' = [writer EXCEPT ![c] = IF @ = "none" THEN "selecting" ELSE @]
  /\ UNCHANGED <<rowVars, void, tokens, uid, socket, mem>>

ClientMessage(c) ==
  /\ pc[c] = "reading" /\ socket[c] = "open"
  /\ mem' = [mem EXCEPT ![c] = 0]
  /\ Goto(c, "touching")
  /\ UNCHANGED <<rowVars, sessionVars, uid, socket, writer>>

PeerLeaves(c) ==
  /\ socket[c] = "open"
  /\ socket' = [socket EXCEPT ![c] = "closed"]
  /\ UNCHANGED <<rowVars, sessionVars, pc, uid, mem, writer>>

ReaderExits(c) ==
  /\ pc[c] = "reading" /\ socket[c] = "closed"
  /\ Goto(c, "gone")
  /\ UNCHANGED <<rowVars, sessionVars, uid, connVars>>

(* writePump: a frame written is activity, in memory and in the row.       *)
WriterGoto(c, step) == writer' = [writer EXCEPT ![c] = step]

WriteFrame(c) ==
  /\ writer[c] = "selecting" /\ socket[c] = "open"
  /\ mem' = [mem EXCEPT ![c] = 0]
  /\ WriterGoto(c, "touching")
  /\ UNCHANGED <<rowVars, sessionVars, pc, uid, socket>>

WriterTouches(c) ==
  /\ writer[c] = "touching"
  /\ TouchWSActivity(uid[c]) \/ UNCHANGED last
  /\ WriterGoto(c, "selecting")
  /\ UNCHANGED <<rowVars, void, tokens, pc, uid, socket, mem>>

WriterExits(c) ==
  /\ writer[c] = "selecting" /\ socket[c] = "closed"
  /\ WriterGoto(c, "gone")
  /\ UNCHANGED <<rowVars, sessionVars, pc, uid, socket, mem>>

(* The idle check of writePump and invalidateOnIdle.                       *)
IdleExpired(c) ==
  /\ writer[c] = "selecting"
  /\ mem[c] > Idle
  /\ WriterGoto(c, "recheck")
  /\ UNCHANGED <<rowVars, sessionVars, pc, uid, socket, mem>>

SpareWithSession(c) ==  \* mutant: a fresh session keeps the idle connection
  /\ writer[c] = "recheck"
  /\ WriterGoto(c, IF user = uid[c] /\ Fresh(uid[c]) THEN "selecting"
                                                    ELSE "clearing")
  /\ UNCHANGED <<rowVars, sessionVars, pc, uid, socket, mem>>

(* Activity of a sibling spares the session; so does an error.             *)
RecheckActivity(c) ==
  /\ writer[c] = "recheck"
  /\ \/ ~(user = uid[c] /\ Fresh(uid[c])) /\ WriterGoto(c, "clearing")
     \/ WriterGoto(c, "closing")
  /\ UNCHANGED <<rowVars, sessionVars, pc, uid, socket, mem>>

InvalidateSession(c) ==
  /\ writer[c] = "clearing"
  /\ \/ ClearWSActivity(uid[c]) /\ WriterGoto(c, "closeAll")
     \/ WriterGoto(c, "closing") /\ UNCHANGED <<last, void>>
  /\ UNCHANGED <<rowVars, tokens, pc, uid, socket, mem>>

CloseIdleUser(c) ==
  /\ writer[c] = "closeAll"
  /\ CloseUserConnections(uid[c])
  /\ WriterGoto(c, "closing")
  /\ UNCHANGED <<rowVars, sessionVars, pc, uid, mem>>

CloseIdle(c) ==
  /\ writer[c] = "closing"
  /\ socket' = [socket EXCEPT ![c] = "closed"]
  /\ WriterGoto(c, "gone")
  /\ UNCHANGED <<rowVars, sessionVars, pc, uid, mem>>

-----------------------------------------------------------------------------
(* A statement of a handler fails (error, or the timeout of its context):  *)
(* the request is answered with an error.                                  *)
RequestFails(r) ==
  /\ pc[r] \in {"saveCreds", "hasCreds", "issue", "checkUser", "checkCreds",
                "checkActivity", "clear"}
  /\ Goto(r, "failed")
  /\ UNCHANGED <<rowVars, sessionVars, uid, connVars>>

UpgradeFails(c) ==
  /\ pc[c] = "accepted"
  /\ Goto(c, "failed")
  /\ UNCHANGED <<rowVars, sessionVars, uid, connVars>>

(* Time passes: every age grows, up to the cap.                            *)
Older(age) == IF age = Never \/ age > Idle THEN age ELSE age + 1

Tick ==
  /\ last' = [u \in Uids |-> Older(last[u])]
  /\ mem' = [c \in Conns |-> IF socket[c] = "none" \/ writer[c] = "gone"
                             THEN mem[c] ELSE Older(mem[c])]
  /\ <<last', mem'>> # <<last, mem>>
  /\ UNCHANGED <<rowVars, void, tokens, pc, uid, socket, writer>>

ValidateToken(r) ==
  \/ PresentToken(r) \/ CheckUser(r) \/ CheckCredentials(r)
  \/ CheckActivity(r) \/ ClearStale(r) \/ RequestFails(r)

(* The handlers, each the steps of the goroutine that serves a request.    *)
(* What handlePostStations does when it has been accepted only reads.      *)
handleConfig(r) ==
  \/ UpsertByUsername(r) \/ Login(r) \/ SaveCredentials(r) \/ GenerateToken(r)
  \/ RequestFails(r)

handleToken(r) ==
  GetByUsername(r) \/ HasCredentials(r) \/ GenerateToken(r) \/ RequestFails(r)

handleDeleteConfig(r) == ValidateToken(r) \/ DeleteUser(r) \/ CloseDeleted(r)

handlePostStations(r) == ValidateToken(r)

handleConnect(c) == ValidateToken(c) \/ Register(c) \/ UpgradeFails(c)

Reader(c) == ReaderTouches(c) \/ ReaderExits(c)

Writer(c) ==
  \/ WriterTouches(c) \/ WriterExits(c) \/ IdleExpired(c)
  \/ RecheckActivity(c) \/ InvalidateSession(c) \/ CloseIdleUser(c)
  \/ CloseIdle(c)

Traffic(c) == ClientMessage(c) \/ WriteFrame(c)

Next ==
  \/ \E r \in Of("config") : handleConfig(r)
  \/ \E r \in Of("token") : handleToken(r)
  \/ \E r \in Of("delete") : handleDeleteConfig(r)
  \/ \E r \in Of("stations") : handlePostStations(r)
  \/ \E c \in Conns : handleConnect(c)
  \/ \E c \in Conns : Reader(c) \/ Writer(c) \/ Traffic(c) \/ PeerLeaves(c)
  \/ Tick

Spec == Init /\ [][Next]_vars

(* Goroutines keep running and time passes; no client has to send and no   *)
(* publisher has to publish.                                               *)
FairSpec ==
  /\ Spec
  /\ WF_vars(Tick)
  /\ \A r \in Of("config") : WF_vars(handleConfig(r))
  /\ \A r \in Of("token") : WF_vars(handleToken(r))
  /\ \A r \in Of("delete") : WF_vars(handleDeleteConfig(r))
  /\ \A r \in Of("stations") : WF_vars(handlePostStations(r))
  /\ \A c \in Conns : WF_vars(handleConnect(c)) /\ WF_vars(Reader(c)) /\ WF_vars(Writer(c))

-----------------------------------------------------------------------------
(* Properties.                                                             *)

(* Credentials and activity belong to the row that exists now: after any   *)
(* interleaving of configurations, deletions and late touches, nothing is  *)
(* left behind under a userId that was removed, and no userId comes back.  *)
RowsConsistent ==
  /\ user \notin removed
  /\ user \in used \cup {NoUid}
  /\ creds \subseteq {user}
  /\ \A u \in Uids : last[u] # Never => u = user

(* The life of the userIds as the statements above leave it.              *)
Phase(u) == IF u \in removed THEN "deleted"
            ELSE IF u \in creds THEN "configured"
            ELSE IF user = u THEN "user" ELSE "unused"

(* The userId a request was accepted for, once ValidateToken said so.      *)
AcceptedFor(r) ==
  IF /\ KindOf[r] \in {"connect", "delete", "stations"}
     /\ pc[r] \in {"accepted", "close", "touching", "reading", "gone", "done"}
  THEN uid[r] ELSE NoUid

Life == INSTANCE UserLife WITH
  phase    <- [u \in Uids |-> Phase(u)],
  issued   <- tokens,
  fresh    <- {u \in Uids : Fresh(u)},
  accepted <- [r \in Requests |-> AcceptedFor(r)]

(* ValidateToken reads three tables at three moments, GenerateToken and    *)
(* the handlers before it two or three: all the same a request is accepted *)
(* as if at one moment, for a userId that exists then with its credentials *)
(* and a fresh activity, and a token is issued only for a configured one.  *)
(* A deleted userId stays deleted: nothing brings back its rows, its       *)
(* activity or its tokens, by a request that began before the deletion or  *)
(* after it, even when the username is configured again.                   *)
IsUserLife == Life!LifeSpec

(* A connection without application traffic is closed, whatever its        *)
(* siblings, the pings and the database do: README "Sessao".               *)
IdleConnectionsClose ==
  \A c \in Conns :
    []<><<Traffic(c)>>_vars \/ []<>(socket[c] # "open")

(* "Se outra conexao do mesmo user ainda teve trafego de app, nao          *)
(* invalida a sessao": a session whose activity is fresh is not cleared.   *)
(* The read and the clear are two statements.                              *)
FreshSessionSurvives ==
  [][\A u \in Uids :
       Fresh(u) /\ user = u /\ user' = u => last'[u] # Never]_vars

(* README: idle "invalida JWT".  An invalidated session stays so until a   *)
(* new token is issued.  A touch in flight when it was cleared revives it. *)
InvalidatedStaysInvalid == \A u \in void : last[u] = Never

(* DELETE "fecha imediatamente quaisquer conexoes WebSocket abertas desse  *)
(* usuario": none is open once the deletion has been answered.  A          *)
(* handshake validated before the deletion may register after the close.   *)
DeletedUserHasNoConnection ==
  \A r \in Requests, c \in Conns :
    KindOf[r] = "delete" /\ pc[r] = "done" /\ uid[r] \in removed
      /\ socket[c] = "open" => uid[c] # uid[r]
=============================================================================
