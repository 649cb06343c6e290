---------------------------- MODULE Credentials ----------------------------
(***************************************************************************)
(* The provider's access token of one user.  It is stored in the row of    *)
(* third_party_credentials; goroutines that list the stations read a copy  *)
(* of the row, log in again when the token is missing or about to expire,  *)
(* store the new one and use it (station_service.go).  Meanwhile POST      *)
(* /v1/config logs in and replaces the whole row, and DELETE removes it.   *)
(*                                                                         *)
(* Time is what is left until the expiry that is stored with a token: the  *)
(* expiresAt of the answer as the provider gives it, or 30 minutes from    *)
(* now.  How long the provider really honours the token is not known to    *)
(* the code, and the stored expiry says nothing about it.  A token is that *)
(* of a login with the credentials of one configuration; an empty one is   *)
(* what an answer 200 without accessToken leaves.                          *)
(***************************************************************************)
EXTENDS Naturals, SequencesExt

CONSTANTS
  Fetchers,     \* goroutines that list the stations, again and again
  Configs,      \* the requests POST /v1/config, by what they configure
  MaxAttempts,  \* attempts of Login (3 in the code)
  Life,         \* bound: ticks until the farthest expiry
  Margin,       \* a token with less left is renewed (5 min in the code)
  NoRow,        \* the user has no credentials
  NoToken       \* a process holds no token

Processes == Fetchers \cup Configs
Token == [of : Configs, left : 0..Life, empty : BOOLEAN]
Row   == [id : Configs, by : Configs, token : Token]
Copy  == [id : Configs, by : Configs]

ASSUME CredentialsAssumption ==
  /\ Fetchers \cap Configs = {}
  /\ NoToken \notin Token /\ NoRow \notin Row \cup Copy
  /\ MaxAttempts \in Nat \ {0}
  /\ Life \in Nat /\ Margin \in Nat /\ Margin <= Life

VARIABLES
  row,      \* the row: its id, whose credentials it holds, its token
  saved,    \* history: configurations saved since the row was inserted
  orphan,   \* configurations whose user was deleted while they were made
  up,       \* does the provider answer every call properly from now on?
  pc,       \* where each process is
  attempt,  \* failed attempts of its login
  copy,     \* the id and the credentials of the row a fetcher has read
  token     \* the token it holds

dbVars == <<row, saved, orphan>>
vars == <<dbVars, up, pc, attempt, copy, token>>

TypeOK ==
  /\ row \in Row \cup {NoRow}
  /\ saved \in Seq(Configs)
  /\ orphan \subseteq Configs
  /\ up \in BOOLEAN
  /\ pc \in [Processes -> {"idle", "login", "store", "list", "listed",
                           "dialled", "new", "save", "done", "failed"}]
  /\ attempt \in [Processes -> 0..(MaxAttempts - 1)]
  /\ copy \in [Fetchers -> Copy \cup {NoRow}]
  /\ token \in [Processes -> Token \cup {NoToken}]

Init ==
  /\ row = NoRow
  /\ saved = <<>>
  /\ orphan = {}
  /\ up = FALSE
  /\ pc = [p \in Processes |-> IF p \in Fetchers THEN "idle" ELSE "new"]
  /\ attempt = [p \in Processes |-> 0]
  /\ copy = [f \in Fetchers |-> NoRow]
  /\ token = [p \in Processes |-> NoToken]

(* A process goes on with a token, or without one when t is NoToken.       *)
Hold(p, step, t) ==
  /\ pc' = [pc EXCEPT ![p] = step]
  /\ token' = [token EXCEPT ![p] = t]

(* The call returns, with a result or an error: it forgets what it held.   *)
Leave(p, step) ==
  /\ Hold(p, step, NoToken)
  /\ attempt' = [attempt EXCEPT ![p] = 0]
  /\ copy' = [f \in Fetchers |-> IF f = p THEN NoRow ELSE copy[f]]

GiveUp(p) == Leave(p, IF p \in Fetchers THEN "idle" ELSE "failed")

-----------------------------------------------------------------------------
(* Login, for a fetcher with the copy it read or for a configuration.      *)

Account(p) == IF p \in Fetchers THEN copy[p].by ELSE p

(* 200: a token, or none in an answer that says no accessToken, with an    *)
(* expiry that may be as near as it likes, or past.                        *)
LoginAnswered(p) ==
  /\ pc[p] = "login"
  /\ \E left \in 0..Life, empty \in IF up THEN {FALSE} ELSE BOOLEAN :
       Hold(p, IF p \in Fetchers THEN "store" ELSE "save",
            [of |-> Account(p), left |-> left, empty |-> empty])
  /\ attempt' = [attempt EXCEPT ![p] = 0]
  /\ UNCHANGED <<dbVars, up, copy>>

LoginTransientOnceMore(p) ==  \* mutant: the last attempt is retried too
  /\ pc[p] = "login" /\ ~up
  /\ attempt[p] < MaxAttempts
  /\ attempt' = [attempt EXCEPT ![p] = @ + 1]
  /\ UNCHANGED <<dbVars, up, pc, copy, token>>

LoginTransientForever(p) ==  \* mutant: retries without end
  /\ pc[p] = "login" /\ ~up
  /\ attempt' = [attempt EXCEPT ![p] = (@ + 1) % MaxAttempts]
  /\ UNCHANGED <<dbVars, up, pc, copy, token>>

(* A timeout, a refused connection, 502, 503 or 504: again, after a delay. *)
LoginTransient(p) ==
  /\ pc[p] = "login" /\ ~up
  /\ attempt[p] < MaxAttempts - 1
  /\ attempt' = [attempt EXCEPT ![p] = @ + 1]
  /\ UNCHANGED <<dbVars, up, pc, copy, token>>

(* 401, 429, another error, the last attempt, or the end of the context,   *)
(* during a delay or in a call.                                            *)
LoginFails(p) ==
  /\ pc[p] = "login" /\ ~up
  /\ GiveUp(p)
  /\ UNCHANGED <<dbVars, up>>

-----------------------------------------------------------------------------
(* getStationsWithCreds.                                                   *)

NeedRefreshEmpty(t) == t.empty  \* mutant: the expiry is not looked at

NeedRefreshLate(t) == t.left < Margin  \* mutant: an empty token passes

NeedRefresh(t) == t.empty \/ t.left < Margin

(* The row of the userId is read and its token used, or a login begins.    *)
(* An empty token that is not renewed is an error.                         *)
ReadCredentials(f) ==
  /\ pc[f] = "idle" /\ row # NoRow
  /\ IF NeedRefresh(row.token) THEN Hold(f, "login", NoToken)
     ELSE ~row.token.empty /\ Hold(f, "list", row.token)
  /\ copy' = [copy EXCEPT ![f] = [id |-> row.id, by |-> row.by]]
  /\ UNCHANGED <<dbVars, up, attempt>>

(* The row that was read still exists.  Its userId has no other.           *)
RowIsThere(f) == row # NoRow /\ row.id = copy[f].id

(* What the caller does with the token once it was stored, or was not.     *)
Proceed(f) ==
  IF token[f].empty THEN GiveUp(f)
                    ELSE Hold(f, "list", token[f]) /\ UNCHANGED <<attempt, copy>>

StoreTokenWhole(f) ==  \* mutant: the copy is written back with the token
  /\ pc[f] = "store"
  /\ IF RowIsThere(f)
     THEN row' = [id |-> row.id, by |-> copy[f].by, token |-> token[f]]
     ELSE UNCHANGED row
  /\ Proceed(f)
  /\ UNCHANGED <<saved, orphan, up>>

StoreTokenOfUser(f) ==  \* mutant: by username, which a later row has too
  /\ pc[f] = "store"
  /\ IF row # NoRow
     THEN row' = [row EXCEPT !.token = token[f]]
     ELSE UNCHANGED row
  /\ Proceed(f)
  /\ UNCHANGED <<saved, orphan, up>>

(* UpdateToken: the token alone, in the row that was read, if it exists.   *)
StoreToken(f) ==
  /\ pc[f] = "store"
  /\ IF RowIsThere(f)
     THEN row' = [row EXCEPT !.token = token[f]]
     ELSE UNCHANGED row
  /\ Proceed(f)
  /\ UNCHANGED <<saved, orphan, up>>

(* Its error is ignored: the token is used and the row keeps its own.      *)
StoreFails(f) ==
  /\ pc[f] = "store"
  /\ Proceed(f)
  /\ UNCHANGED <<dbVars, up>>

(* GetChargePointList, after the wait for the shared limiter, which lasts  *)
(* as long as those before it in the queue make it last.                   *)
List(f) ==
  /\ pc[f] = "list"
  /\ \/ Hold(f, "listed", token[f]) /\ UNCHANGED <<attempt, copy>>
     \/ ~up /\ GiveUp(f)
  /\ UNCHANGED <<dbVars, up>>

(* The loop reads the row of its userId again for the token of its session *)
(* (a user configured anew has another userId); other callers are done.    *)
DialCSMS(f) ==
  /\ pc[f] = "listed"
  /\ RowIsThere(f) /\ ~row.token.empty
  /\ Leave(f, "dialled")
  /\ UNCHANGED <<dbVars, up>>

Done(f) ==
  /\ pc[f] \in {"listed", "dialled"}
  /\ GiveUp(f)
  /\ UNCHANGED <<dbVars, up>>

-----------------------------------------------------------------------------
(* Configure, and the deletion of the user with its row.                   *)

Configure(c) ==
  /\ pc[c] = "new"
  /\ pc' = [pc EXCEPT ![c] = "login"]
  /\ UNCHANGED <<dbVars, up, attempt, copy, token>>

(* Upsert: a row that exists keeps its id; the foreign key refuses a user  *)
(* that is gone.                                                           *)
SaveCredentials(c) ==
  /\ pc[c] = "save" /\ c \notin orphan
  /\ row' = [id |-> IF row = NoRow THEN c ELSE row.id, by |-> c, token |-> token[c]]
  /\ saved' = Append(saved, c)
  /\ Leave(c, "done")
  /\ UNCHANGED <<orphan, up>>

SaveFails(c) ==
  /\ pc[c] = "save"
  /\ GiveUp(c)
  /\ UNCHANGED <<dbVars, up>>

DeleteUser ==
  /\ row # NoRow
  /\ row' = NoRow
  /\ saved' = <<>>
  /\ orphan' = orphan \cup {c \in Configs : pc[c] \in {"login", "save"}}
  /\ UNCHANGED <<up, pc, attempt, copy, token>>

-----------------------------------------------------------------------------
(* The provider, which may do anything, comes to answer properly for good; *)
(* and time passes.                                                        *)

ProviderRecovers ==
  /\ ~up
  /\ up' = TRUE
  /\ UNCHANGED <<dbVars, pc, attempt, copy, token>>

Older(t) == IF t.left > 0 THEN [t EXCEPT !.left = @ - 1] ELSE t

(* Any time may pass in any step, also in the wait for the limiter.        *)
Tick ==
  /\ row' = IF row = NoRow THEN row ELSE [row EXCEPT !.token = Older(@)]
  /\ token' = [p \in Processes |-> IF token[p] = NoToken THEN NoToken ELSE Older(token[p])]
  /\ UNCHANGED <<saved, orphan, up, pc, attempt, copy>>

Login(p) == LoginAnswered(p) \/ LoginTransient(p) \/ LoginFails(p)

Fetch(f) ==
  \/ Login(f) \/ ReadCredentials(f) \/ StoreToken(f) \/ StoreFails(f)
  \/ List(f) \/ DialCSMS(f) \/ Done(f)

Saving(c) == Login(c) \/ SaveCredentials(c) \/ SaveFails(c)

Next ==
  \/ \E f \in Fetchers : Fetch(f)
  \/ \E c \in Configs : Configure(c) \/ Saving(c)
  \/ DeleteUser
  \/ ProviderRecovers
  \/ Tick

Spec == Init /\ [][Next]_vars

(* Goroutines go on and each call ends (timeouts of the clients).  Time is *)
(* not fair: LoginsEnd and ListsAgain may not count on an expiry.          *)
FairSpec ==
  /\ Spec
  /\ \A f \in Fetchers : WF_vars(Fetch(f))
  /\ \A c \in Configs : WF_vars(Saving(c))

-----------------------------------------------------------------------------
(* Properties.                                                             *)

(* credentials_repo.go: UpdateToken does not rewrite password and api_key. *)
(* A refresh that began before a configuration was saved never brings the  *)
(* older credentials back.                                                 *)
ConfigurationKept == row # NoRow => saved # <<>> /\ row.by = Last(saved)

(* A refresh that began before the user was deleted and configured again   *)
(* never puts its token in the new row.                                    *)
TokenOfRow == row # NoRow => row.token.of \in Range(saved)

(* Every login ends, whatever the provider answers.                        *)
LoginsEnd ==
  \A p \in Processes : pc[p] = "login" ~> pc[p] # "login"

(* Once the provider answers properly every fetcher lists again, whatever  *)
(* was stored while it did not, and without waiting for an expiry.         *)
ListsAgain ==
  <>[](up /\ row # NoRow) => \A f \in Fetchers : []<>(pc[f] = "listed")

(* A refresh that read the row before a configuration was saved may store  *)
(* the token of the older credentials after it, and a token may fail to be *)
(* stored, but not for ever: if time passes, and the database stores a     *)
(* token when it is asked again and again, then in the end the token in    *)
(* the row is one of the credentials beside it, and stays so.              *)
TimePasses == WF_vars(Tick)
TokensAreStored == \A f \in Fetchers : SF_vars(StoreToken(f))

RenewalCatchesUp ==
  TimePasses /\ TokensAreStored /\ <>[](up /\ row # NoRow)
    => <>[](row # NoRow /\ row.token.of = row.by)
=============================================================================
