------------------------- MODULE CredentialsProofs -------------------------
(***************************************************************************)
(* Proofs about Credentials: types, and that a refresh of the token undoes *)
(* no configuration and reaches no later row.                              *)
(***************************************************************************)
EXTENDS Credentials, SequenceTheorems, TLAPS

(* What a fetcher remembers: the row it read was inserted by a             *)
(* configuration that is done; while that row exists, its credentials were *)
(* saved in it; the token it stores is one of a login with them.           *)
FetcherInv(f) ==
  /\ pc[f] \in {"idle", "login", "store", "list", "listed", "dialled"}
  /\ pc[f] \in {"login", "store", "list", "listed"} => copy[f] # NoRow
  /\ copy[f] # NoRow => pc[copy[f].id] = "done"
  /\ copy[f] # NoRow /\ row # NoRow /\ copy[f].id = row.id =>
       copy[f].by \in Range(saved)
  /\ pc[f] \in {"store", "list", "listed"} => token[f] # NoToken
  /\ pc[f] = "store" => token[f].of = copy[f].by

(* A configuration saves a token of a login with its own credentials.      *)
ConfigInv(c) ==
  /\ pc[c] \in {"new", "login", "save", "done", "failed"}
  /\ pc[c] = "save" => token[c] # NoToken /\ token[c].of = c

RowInv ==
  /\ row # NoRow => pc[row.id] = "done"
  /\ ConfigurationKept
  /\ TokenOfRow

CredInv ==
  /\ TypeOK
  /\ \A f \in Fetchers : FetcherInv(f)
  /\ \A c \in Configs : ConfigInv(c)
  /\ RowInv

FetcherSteps == {"idle", "login", "store", "list", "listed", "dialled"}
ConfigSteps  == {"new", "login", "save", "done", "failed"}

(* The types of what a step of one process changes.                        *)
Held(p, step, t) ==
  /\ pc' = [pc EXCEPT ![p] = step]
  /\ token' = [token EXCEPT ![p] = t]
  /\ attempt' \in [Processes -> 0..(MaxAttempts - 1)]

-----------------------------------------------------------------------------
(* The initial states.                                                     *)
LEMMA InitCred == Init => CredInv
<1> SUFFICES ASSUME Init PROVE CredInv
    OBVIOUS
<1> USE CredentialsAssumption DEF Init, Processes
<1>1. TypeOK
  <2>1. saved \in Seq(Configs)
    OBVIOUS
  <2>2. attempt \in [Processes -> 0..(MaxAttempts - 1)]
    OBVIOUS
  <2> QED BY <2>1, <2>2 DEF TypeOK
<1>2. \A f \in Fetchers : FetcherInv(f)
  BY DEF FetcherInv
<1>3. \A c \in Configs : ConfigInv(c)
  BY DEF ConfigInv
<1>4. RowInv
  BY DEF RowInv, ConfigurationKept, TokenOfRow
<1> QED BY <1>1, <1>2, <1>3, <1>4 DEF CredInv

(* A step of a fetcher that leaves the credentials of the row and what was *)
(* saved alone: it keeps the invariant when the fetcher itself does, and   *)
(* the token it may have stored is one of a saved configuration.           *)
LEMMA FetcherStep ==
  ASSUME CredInv, NEW f \in Fetchers, NEW step \in FetcherSteps,
         NEW t \in Token \cup {NoToken}, NEW k \in Copy \cup {NoRow},
         Held(f, step, t), copy' = [copy EXCEPT ![f] = k],
         UNCHANGED <<saved, orphan, up>>,
         \/ row' = row
         \/ /\ row # NoRow
            /\ \E u \in Token : row' = [row EXCEPT !.token = u] /\ u.of \in Range(saved),
         step \in {"login", "store", "list", "listed"} => k # NoRow,
         k # NoRow => pc[k.id] = "done",
         k # NoRow /\ row # NoRow /\ k.id = row.id => k.by \in Range(saved),
         step \in {"store", "list", "listed"} => t # NoToken,
         step = "store" => t.of = k.by
  PROVE  CredInv'
<1> USE CredentialsAssumption
<1>0. f \notin Configs /\ f \in Processes
  BY DEF Processes
<1>1. /\ row' # NoRow <=> row # NoRow
      /\ row' \in Row \cup {NoRow}
      /\ row # NoRow => row'.id = row.id /\ row'.by = row.by /\ row.id \in Configs
  BY DEF CredInv, TypeOK, Row
<1>2. TypeOK'
  BY <1>0, <1>1 DEF CredInv, TypeOK, Held, FetcherSteps
<1>3. \A c \in Configs : pc'[c] = pc[c] /\ token'[c] = token[c]
  BY <1>0 DEF CredInv, TypeOK, Held, Processes
<1>4. ASSUME NEW g \in Fetchers PROVE FetcherInv(g)'
  <2>1. CASE g = f
    <3>1. pc'[g] = step /\ token'[g] = t /\ copy'[g] = k
      BY <2>1, <1>0 DEF CredInv, TypeOK, Held
    <3>2. k # NoRow => pc'[k.id] = "done"
      BY <1>3 DEF Copy
    <3> QED BY <3>1, <3>2, <1>1 DEF FetcherInv, FetcherSteps
  <2>2. CASE g # f
    <3>1. pc'[g] = pc[g] /\ token'[g] = token[g] /\ copy'[g] = copy[g]
      BY <2>2, <1>0 DEF CredInv, TypeOK, Held, Processes
    <3>2. copy[g] # NoRow => copy[g].id \in Configs
      BY DEF CredInv, TypeOK, Copy
    <3>3. FetcherInv(g)
      BY DEF CredInv
    <3> QED BY <3>1, <3>2, <3>3, <1>1, <1>3 DEF FetcherInv
  <2> QED BY <2>1, <2>2
<1>5. \A c \in Configs : ConfigInv(c)'
  BY <1>3 DEF CredInv, ConfigInv
<1>6. RowInv'
  <2>1. row # NoRow => pc'[row.id] = "done"
    BY <1>1, <1>3 DEF CredInv, RowInv
  <2>2. ConfigurationKept'
    BY <1>1 DEF CredInv, RowInv, ConfigurationKept
  <2>3. TokenOfRow'
    BY <1>1 DEF CredInv, RowInv, TokenOfRow, TypeOK, Row
  <2> QED BY <2>1, <2>2, <2>3, <1>1 DEF RowInv
<1> QED BY <1>2, <1>4, <1>5, <1>6 DEF CredInv

(* A step of a configuration before it is saved, or that fails.            *)
LEMMA ConfigStep ==
  ASSUME CredInv, NEW c \in Configs, NEW step \in ConfigSteps \ {"done"},
         NEW t \in Token \cup {NoToken},
         Held(c, step, t), pc[c] # "done",
         UNCHANGED <<dbVars, up, copy>>,
         step = "save" => t # NoToken /\ t.of = c
  PROVE  CredInv'
<1> USE CredentialsAssumption
<1>0. c \notin Fetchers /\ c \in Processes
  BY DEF Processes
<1>1. TypeOK'
  BY <1>0 DEF CredInv, TypeOK, Held, ConfigSteps, dbVars
<1>2. \A p \in Processes \ {c} : pc'[p] = pc[p] /\ token'[p] = token[p]
  BY DEF CredInv, TypeOK, Held
<1>3. \A d \in Configs : pc[d] = "done" => pc'[d] = "done"
  BY <1>2 DEF Processes
<1>4. ASSUME NEW f \in Fetchers PROVE FetcherInv(f)'
  <2>1. pc'[f] = pc[f] /\ token'[f] = token[f] /\ copy'[f] = copy[f]
    BY <1>0, <1>2 DEF Processes
  <2>2. copy[f] # NoRow => copy[f].id \in Configs
    BY DEF CredInv, TypeOK, Copy
  <2>3. FetcherInv(f)
    BY DEF CredInv
  <2> QED BY <2>1, <2>2, <2>3, <1>3 DEF FetcherInv, dbVars
<1>5. ASSUME NEW d \in Configs PROVE ConfigInv(d)'
  <2>1. CASE d = c
    <3>1. pc'[c] = step /\ token'[c] = t
      BY <1>0 DEF CredInv, TypeOK, Held
    <3> QED BY <2>1, <3>1 DEF ConfigInv, ConfigSteps
  <2>2. CASE d # c
    BY <2>2, <1>2 DEF CredInv, ConfigInv, Processes
  <2> QED BY <2>1, <2>2
<1>6. RowInv'
  <2>1. row # NoRow => row.id \in Configs
    BY DEF CredInv, TypeOK, Row
  <2> QED BY <2>1, <1>3 DEF CredInv, RowInv, ConfigurationKept, TokenOfRow, dbVars
<1> QED BY <1>1, <1>4, <1>5, <1>6 DEF CredInv

-----------------------------------------------------------------------------
(* The helpers of the actions.                                             *)

(* A process that goes on with a token, or without one, keeps its types.   *)
LEMMA HoldHolds ==
  ASSUME TypeOK, NEW p \in Processes, NEW step, NEW t \in Token \cup {NoToken},
         Hold(p, step, t)
  PROVE  /\ pc' = [pc EXCEPT ![p] = step]
         /\ token' = [token EXCEPT ![p] = t]
BY CredentialsAssumption DEF TypeOK, Hold

(* A call that returns keeps the types and forgets its copy.               *)
LEMMA LeaveHolds ==
  ASSUME TypeOK, NEW p \in Processes, NEW step, Leave(p, step)
  PROVE  /\ Held(p, step, NoToken)
         /\ p \in Fetchers => copy' = [copy EXCEPT ![p] = NoRow]
         /\ p \notin Fetchers => copy' = copy
<1>1. Hold(p, step, NoToken)
  BY DEF Leave
<1>2. attempt' \in [Processes -> 0..(MaxAttempts - 1)]
  BY CredentialsAssumption DEF TypeOK, Leave
<1>3. Held(p, step, NoToken)
  BY <1>1, <1>2, HoldHolds DEF Held
<1>4. copy \in [Fetchers -> Copy \cup {NoRow}]
  BY DEF TypeOK
<1>5. copy' = [f \in Fetchers |-> IF f = p THEN NoRow ELSE copy[f]]
  BY DEF Leave
<1> QED BY <1>3, <1>4, <1>5

(* A process that gives up.                                                *)
LEMMA GiveUpStep ==
  ASSUME CredInv, NEW p \in Processes, GiveUp(p), pc[p] # "done",
         UNCHANGED <<dbVars, up>>
  PROVE  CredInv'
<1>1. TypeOK
  BY DEF CredInv
<1>2. CASE p \in Fetchers
  <2>1. Leave(p, "idle")
    BY <1>2 DEF GiveUp
  <2>2. Held(p, "idle", NoToken) /\ copy' = [copy EXCEPT ![p] = NoRow]
    BY <1>1, <1>2, <2>1, LeaveHolds
  <2>4. "idle" \in FetcherSteps
    BY DEF FetcherSteps
  <2> QED BY <1>2, <2>2, <2>4, FetcherStep DEF dbVars
<1>3. CASE p \in Configs
  <2>1. p \notin Fetchers
    BY <1>3, CredentialsAssumption
  <2>2. Leave(p, "failed")
    BY <2>1 DEF GiveUp
  <2>3. Held(p, "failed", NoToken) /\ copy' = copy
    BY <1>1, <2>1, <2>2, LeaveHolds
  <2>4. "failed" \in ConfigSteps \ {"done"}
    BY DEF ConfigSteps
  <2> QED BY <1>3, <2>3, <2>4, ConfigStep
<1> QED BY <1>2, <1>3 DEF Processes

(* A step of a fetcher that keeps the copy it has read.                    *)
LEMMA FetcherKeepsCopy ==
  ASSUME CredInv, NEW f \in Fetchers, NEW step \in FetcherSteps,
         NEW t \in Token \cup {NoToken},
         Held(f, step, t), copy' = copy,
         UNCHANGED <<saved, orphan, up>>,
         \/ row' = row
         \/ /\ row # NoRow
            /\ \E u \in Token : row' = [row EXCEPT !.token = u] /\ u.of \in Range(saved),
         copy[f] # NoRow,
         step \in {"store", "list", "listed"} => t # NoToken,
         step = "store" => t.of = copy[f].by
  PROVE  CredInv'
<1>1. copy[f] \in Copy \cup {NoRow} /\ copy' = [copy EXCEPT ![f] = copy[f]]
  BY DEF CredInv, TypeOK
<1>2. FetcherInv(f)
  BY DEF CredInv
<1>3. pc[copy[f].id] = "done"
  BY <1>2 DEF FetcherInv
<1>4. row # NoRow /\ copy[f].id = row.id => copy[f].by \in Range(saved)
  BY <1>2 DEF FetcherInv
<1> QED BY <1>1, <1>3, <1>4, FetcherStep

-----------------------------------------------------------------------------
(* The actions.                                                            *)

(* A call of Login: a token of the account it was made for, or none.       *)
LEMMA LoginStep == ASSUME CredInv, NEW p \in Processes, Login(p) PROVE CredInv'
<1> USE CredentialsAssumption
<1>0. TypeOK /\ pc[p] = "login"
  BY DEF CredInv, Login, LoginAnswered, LoginTransient, LoginFails
<1>1. CASE LoginFails(p)
  BY <1>0, <1>1, GiveUpStep DEF LoginFails
<1>2. CASE LoginAnswered(p)
  <2>1. /\ attempt' \in [Processes -> 0..(MaxAttempts - 1)]
        /\ copy' = copy /\ UNCHANGED <<dbVars, up>>
    BY <1>0, <1>2 DEF LoginAnswered, TypeOK
  <2>2. PICK left \in 0..Life, empty \in BOOLEAN :
           Hold(p, IF p \in Fetchers THEN "store" ELSE "save",
                [of |-> Account(p), left |-> left, empty |-> empty])
    BY <1>2 DEF LoginAnswered
  <2> DEFINE t == [of |-> Account(p), left |-> left, empty |-> empty]
  <2>3. CASE p \in Fetchers
    <3>1. copy[p] # NoRow /\ copy[p].by \in Configs /\ Account(p) = copy[p].by
      BY <1>0, <2>3 DEF CredInv, FetcherInv, TypeOK, Copy, Account
    <3>2. t \in Token /\ t.of = copy[p].by
      BY <3>1 DEF Token
    <3>3. Held(p, "store", t)
      BY <1>0, <2>1, <2>2, <2>3, <3>2, HoldHolds DEF Held
    <3>4. row' = row /\ UNCHANGED <<saved, orphan, up>>
      BY <1>0, <2>1 DEF dbVars, TypeOK
    <3>5. "store" \in FetcherSteps
      BY DEF FetcherSteps
    <3> HIDE DEF t
    <3> QED BY <2>1, <2>3, <3>1, <3>2, <3>3, <3>4, <3>5, FetcherKeepsCopy
  <2>4. CASE p \in Configs
    <3>1. p \notin Fetchers /\ Account(p) = p
      BY <2>4 DEF Account
    <3>2. t \in Token /\ t.of = p
      BY <2>4, <3>1 DEF Token
    <3>3. Held(p, "save", t)
      BY <1>0, <2>1, <2>2, <3>1, <3>2, HoldHolds DEF Held
    <3>4. "save" \in ConfigSteps \ {"done"}
      BY DEF ConfigSteps
    <3> HIDE DEF t
    <3> QED BY <1>0, <2>1, <2>4, <3>2, <3>3, <3>4, ConfigStep
  <2> QED BY <2>3, <2>4 DEF Processes
<1>3. CASE LoginTransient(p)
  <2>1. /\ attempt' \in [Processes -> 0..(MaxAttempts - 1)]
        /\ UNCHANGED <<dbVars, up, pc, copy, token>>
    BY <1>0, <1>3 DEF LoginTransient, TypeOK
  <2>2. token[p] \in Token \cup {NoToken} /\ Held(p, "login", token[p])
    BY <1>0, <2>1 DEF Held, TypeOK
  <2>3. CASE p \in Fetchers
    <3>1. copy[p] # NoRow
      BY <1>0, <2>3 DEF CredInv, FetcherInv
    <3>2. row' = row /\ UNCHANGED <<saved, orphan, up>>
      BY <1>0, <2>1 DEF dbVars, TypeOK
    <3>3. "login" \in FetcherSteps
      BY DEF FetcherSteps
    <3> QED BY <2>1, <2>2, <2>3, <3>1, <3>2, <3>3, FetcherKeepsCopy
  <2>4. CASE p \in Configs
    <3>1. "login" \in ConfigSteps \ {"done"}
      BY DEF ConfigSteps
    <3> QED BY <1>0, <2>1, <2>2, <2>4, <3>1, ConfigStep
  <2> QED BY <2>3, <2>4 DEF Processes
<1> QED BY <1>1, <1>2, <1>3 DEF Login

(* getStationsWithCreds reads the row: the copy is of a row that exists.   *)
LEMMA ReadStep == ASSUME CredInv, NEW f \in Fetchers, ReadCredentials(f) PROVE CredInv'
<1> USE CredentialsAssumption
<1> DEFINE k == [id |-> row.id, by |-> row.by]
<1>1. /\ TypeOK /\ row # NoRow /\ f \in Processes
      /\ copy' = [copy EXCEPT ![f] = k] /\ UNCHANGED <<dbVars, up, attempt>>
  BY DEF CredInv, ReadCredentials, Processes
<1>2. row \in Row
  BY <1>1 DEF TypeOK
<1>3. k \in Copy /\ k.id = row.id /\ k.by = row.by
  BY <1>2 DEF Row, Copy
<1>4. PICK step \in {"login", "list"}, t \in Token \cup {NoToken} :
         Hold(f, step, t) /\ (step = "list" => t # NoToken)
  BY <1>2 DEF ReadCredentials, Row
<1>5. Held(f, step, t)
  BY <1>1, <1>4, HoldHolds DEF Held, TypeOK
<1>6. pc[k.id] = "done" /\ k.by \in Range(saved)
  <2>1. saved # <<>> /\ row.by = Last(saved) /\ pc[row.id] = "done"
    BY <1>1 DEF CredInv, RowInv, ConfigurationKept
  <2>2. Last(saved) \in Range(saved)
    BY <1>1, <2>1, Len(saved) \in DOMAIN saved DEF TypeOK, Last, Range
  <2> QED BY <1>3, <2>1, <2>2
<1>7. row' = row /\ UNCHANGED <<saved, orphan, up>>
  BY <1>1 DEF dbVars, TypeOK
<1>8. step \in FetcherSteps /\ step # "store" /\ step # "listed"
  BY DEF FetcherSteps
<1>9. k # NoRow
  BY <1>3
<1> HIDE DEF k
<1> QED BY <1>1, <1>3, <1>4, <1>5, <1>6, <1>7, <1>8, <1>9, FetcherStep

(* UpdateToken: it finds the row it read, or none.                         *)
LEMMA StoreStep ==
  ASSUME CredInv, NEW f \in Fetchers, StoreToken(f) \/ StoreFails(f) PROVE CredInv'
<1> USE CredentialsAssumption
<1>1. /\ TypeOK /\ f \in Processes /\ pc[f] = "store"
      /\ Proceed(f) /\ UNCHANGED <<saved, orphan, up>>
  BY DEF CredInv, StoreToken, StoreFails, Processes, dbVars
<1>2. copy[f] # NoRow /\ token[f] # NoToken /\ token[f] \in Token /\ token[f].of = copy[f].by
  BY <1>1 DEF CredInv, FetcherInv, TypeOK
<1>4. \/ row' = row
      \/ /\ row # NoRow
         /\ \E u \in Token : row' = [row EXCEPT !.token = u] /\ u.of \in Range(saved)
  <2>1. RowIsThere(f) => copy[f].by \in Range(saved)
    BY <1>2 DEF CredInv, FetcherInv, RowIsThere
  <2> QED BY <1>2, <2>1 DEF StoreToken, StoreFails, RowIsThere, dbVars
<1>5. CASE token[f].empty
  <2>1. Leave(f, "idle")
    BY <1>1, <1>5 DEF Proceed, GiveUp
  <2>2. Held(f, "idle", NoToken) /\ copy' = [copy EXCEPT ![f] = NoRow]
    BY <1>1, <2>1, LeaveHolds
  <2>3. "idle" \in FetcherSteps
    BY DEF FetcherSteps
  <2> QED BY <1>1, <1>4, <2>2, <2>3, FetcherStep
<1>6. CASE ~token[f].empty
  <2>1. Hold(f, "list", token[f]) /\ UNCHANGED <<attempt, copy>>
    BY <1>1, <1>6 DEF Proceed
  <2>2. Held(f, "list", token[f])
    BY <1>1, <1>2, <2>1, HoldHolds DEF Held, TypeOK
  <2>3. "list" \in FetcherSteps
    BY DEF FetcherSteps
  <2> QED BY <1>1, <1>2, <1>4, <2>1, <2>2, <2>3, FetcherKeepsCopy
<1> QED BY <1>5, <1>6

(* The list, the second read of the loop and the end of a fetch.           *)
LEMMA UseStep ==
  ASSUME CredInv, NEW f \in Fetchers, List(f) \/ DialCSMS(f) \/ Done(f) PROVE CredInv'
<1> USE CredentialsAssumption
<1>1. /\ TypeOK /\ f \in Processes /\ pc[f] \in {"list", "listed", "dialled"}
      /\ UNCHANGED <<dbVars, up>>
  BY DEF CredInv, List, DialCSMS, Done, Processes
<1>2. row' = row /\ UNCHANGED <<saved, orphan, up>>
  BY <1>1 DEF dbVars, TypeOK
<1>3. CASE GiveUp(f)
  BY <1>1, <1>3, GiveUpStep
<1>4. CASE pc[f] = "list" /\ Hold(f, "listed", token[f]) /\ UNCHANGED <<attempt, copy>>
  <2>1. copy[f] # NoRow /\ token[f] # NoToken /\ token[f] \in Token \cup {NoToken}
    BY <1>1, <1>4 DEF CredInv, FetcherInv, TypeOK
  <2>2. Held(f, "listed", token[f])
    BY <1>1, <1>4, <2>1, HoldHolds DEF Held, TypeOK
  <2>3. "listed" \in FetcherSteps
    BY DEF FetcherSteps
  <2> QED BY <1>2, <1>4, <2>1, <2>2, <2>3, FetcherKeepsCopy
<1>5. CASE DialCSMS(f)
  <2>1. Held(f, "dialled", NoToken) /\ copy' = [copy EXCEPT ![f] = NoRow]
    BY <1>1, <1>5, LeaveHolds DEF DialCSMS
  <2>2. "dialled" \in FetcherSteps
    BY DEF FetcherSteps
  <2> QED BY <1>2, <2>1, <2>2, FetcherStep
<1> QED BY <1>3, <1>4, <1>5 DEF List, Done

(* POST /v1/config begins.                                                 *)
LEMMA ConfigureStep == ASSUME CredInv, NEW c \in Configs, Configure(c) PROVE CredInv'
<1> USE CredentialsAssumption
<1>1. TypeOK /\ c \in Processes
  BY DEF CredInv, Processes
<1>2. token[c] \in Token \cup {NoToken} /\ Held(c, "login", token[c])
  BY <1>1 DEF Configure, Held, TypeOK
<1>3. "login" \in ConfigSteps \ {"done"}
  BY DEF ConfigSteps
<1> QED BY <1>2, <1>3, ConfigStep DEF Configure

(* The row keeps its id or gets that of c, which no fetcher has read.      *)
LEMMA SaveStep == ASSUME CredInv, NEW c \in Configs, SaveCredentials(c) PROVE CredInv'
<1> USE CredentialsAssumption
<1>1. /\ TypeOK /\ c \in Processes /\ c \notin Fetchers /\ pc[c] = "save"
      /\ saved' = Append(saved, c) /\ UNCHANGED <<orphan, up>>
      /\ row' = [id |-> IF row = NoRow THEN c ELSE row.id, by |-> c, token |-> token[c]]
  BY DEF CredInv, SaveCredentials, Processes
<1>2. Held(c, "done", NoToken) /\ copy' = copy
  BY <1>1, LeaveHolds DEF SaveCredentials
<1>3. token[c] \in Token /\ token[c].of = c
  BY <1>1 DEF CredInv, ConfigInv, TypeOK
<1>4. row' \in Row /\ row'.by = c /\ row'.token = token[c]
      /\ row'.id = (IF row = NoRow THEN c ELSE row.id)
  BY <1>1, <1>3 DEF TypeOK, Row
<1>5. /\ saved' \in Seq(Configs) /\ saved' # <<>> /\ Last(saved') = c
      /\ c \in Range(saved') /\ Range(saved) \subseteq Range(saved')
  <2>1. saved \in Seq(Configs)
    BY <1>1 DEF TypeOK
  <2>2. /\ saved' \in Seq(Configs) /\ Len(saved') = Len(saved) + 1
        /\ saved'[Len(saved')] = c
        /\ \A i \in 1..Len(saved) : saved'[i] = saved[i]
    BY <1>1, <2>1
  <2>3. Len(saved') \in DOMAIN saved' /\ \A i \in DOMAIN saved : i \in DOMAIN saved'
    BY <2>1, <2>2
  <2> QED BY <2>1, <2>2, <2>3 DEF Last, Range
<1>6. TypeOK'
  BY <1>1, <1>2, <1>4, <1>5 DEF TypeOK, Held
<1>7. \A p \in Processes \ {c} : pc'[p] = pc[p] /\ token'[p] = token[p]
  BY <1>1, <1>2 DEF TypeOK, Held
<1>8. pc'[c] = "done" /\ \A d \in Configs : pc[d] = "done" => pc'[d] = "done"
  BY <1>1, <1>2, <1>7 DEF TypeOK, Held, Processes
<1>9. ASSUME NEW f \in Fetchers PROVE FetcherInv(f)'
  <2>1. pc'[f] = pc[f] /\ token'[f] = token[f] /\ copy'[f] = copy[f]
    BY <1>2, <1>7 DEF Processes
  <2>2. copy[f] # NoRow => copy[f].id \in Configs /\ copy[f].id # c
    BY <1>1 DEF CredInv, FetcherInv, TypeOK, Copy
  <2>3. copy[f] # NoRow /\ copy[f].id = row'.id => copy[f].by \in Range(saved')
    BY <1>4, <1>5, <2>2 DEF CredInv, FetcherInv
  <2>4. FetcherInv(f)
    BY DEF CredInv
  <2> QED BY <2>1, <2>2, <2>3, <2>4, <1>8 DEF FetcherInv
<1>10. ASSUME NEW d \in Configs PROVE ConfigInv(d)'
  <2>1. CASE d = c
    BY <2>1, <1>8 DEF ConfigInv
  <2>2. CASE d # c
    BY <2>2, <1>7 DEF CredInv, ConfigInv, Processes
  <2> QED BY <2>1, <2>2
<1>11. RowInv'
  <2>1. pc'[row'.id] = "done"
    BY <1>1, <1>4, <1>8 DEF CredInv, RowInv, TypeOK, Row
  <2> QED BY <2>1, <1>3, <1>4, <1>5 DEF RowInv, ConfigurationKept, TokenOfRow
<1> QED BY <1>6, <1>9, <1>10, <1>11 DEF CredInv

(* DELETE /v1/config removes the row: no copy is of a row that exists.     *)
LEMMA DeleteStep == ASSUME CredInv, DeleteUser PROVE CredInv'
<1> USE CredentialsAssumption
<1>1. /\ row' = NoRow /\ saved' = <<>>
      /\ UNCHANGED <<up, pc, attempt, copy, token>>
  BY DEF DeleteUser
<1>2. TypeOK'
  <2>1. saved' \in Seq(Configs)
    BY <1>1
  <2>2. orphan' \subseteq Configs
    BY DEF DeleteUser, CredInv, TypeOK
  <2> QED BY <1>1, <2>1, <2>2 DEF CredInv, TypeOK
<1>3. \A f \in Fetchers : FetcherInv(f)'
  BY <1>1 DEF CredInv, FetcherInv
<1>4. \A c \in Configs : ConfigInv(c)'
  BY <1>1 DEF CredInv, ConfigInv
<1>5. RowInv'
  BY <1>1 DEF RowInv, ConfigurationKept, TokenOfRow
<1> QED BY <1>2, <1>3, <1>4, <1>5 DEF CredInv

(* A token that ages stays a token of the same login.                      *)
LEMMA OlderToken == ASSUME NEW t \in Token PROVE Older(t) \in Token /\ Older(t).of = t.of
BY CredentialsAssumption DEF Token, Older

(* Time passes: tokens age and nothing else changes.                       *)
LEMMA TickStep == ASSUME CredInv, Tick PROVE CredInv'
<1> USE CredentialsAssumption
<1>1. TypeOK /\ UNCHANGED <<saved, orphan, up, pc, attempt, copy>>
  BY DEF CredInv, Tick
<1>2. \/ row = NoRow /\ row' = NoRow
      \/ /\ row # NoRow /\ row' # NoRow /\ row' \in Row
         /\ row'.id = row.id /\ row'.by = row.by /\ row'.token.of = row.token.of
  <2>1. CASE row = NoRow
    BY <2>1 DEF Tick
  <2>2. CASE row # NoRow
    <3>1. row \in Row /\ row.token \in Token
      BY <1>1, <2>2 DEF TypeOK, Row
    <3>2. row' = [row EXCEPT !.token = Older(@)]
      BY <2>2 DEF Tick
    <3>3. row' = [id |-> row.id, by |-> row.by, token |-> Older(row.token)]
      BY <3>1, <3>2 DEF Row
    <3>4. Older(row.token) \in Token /\ Older(row.token).of = row.token.of
      BY <3>1, OlderToken
    <3>5. row.id \in Configs /\ row.by \in Configs
      BY <3>1 DEF Row
    <3>6. row' \in Row
      BY <3>3, <3>4, <3>5 DEF Row
    <3>7. row'.id = row.id /\ row'.by = row.by /\ row'.token = Older(row.token)
      BY <3>3
    <3>8. row' # NoRow
      BY <3>6
    <3> QED BY <2>2, <3>4, <3>6, <3>7, <3>8
  <2> QED BY <2>1, <2>2
<1>3. /\ token' \in [Processes -> Token \cup {NoToken}]
      /\ \A p \in Processes : /\ token'[p] = NoToken <=> token[p] = NoToken
                              /\ token[p] # NoToken => token'[p].of = token[p].of
  BY <1>1, OlderToken DEF Tick, TypeOK
<1>5. TypeOK'
  BY <1>1, <1>2, <1>3 DEF TypeOK
<1>6. \A f \in Fetchers : FetcherInv(f)'
  BY <1>1, <1>2, <1>3 DEF CredInv, FetcherInv, Processes
<1>7. \A c \in Configs : ConfigInv(c)'
  BY <1>1, <1>3 DEF CredInv, ConfigInv, Processes
<1>8. RowInv'
  BY <1>1, <1>2 DEF CredInv, RowInv, ConfigurationKept, TokenOfRow
<1> QED BY <1>5, <1>6, <1>7, <1>8 DEF CredInv

(* What the provider does from now on changes no state.                    *)
LEMMA IdleStep == ASSUME CredInv, UNCHANGED <<dbVars, pc, attempt, copy, token>>, up' \in BOOLEAN PROVE CredInv'
BY DEF CredInv, TypeOK, FetcherInv, ConfigInv, RowInv, ConfigurationKept, TokenOfRow, dbVars

(* Every step keeps the invariant.                                         *)
LEMMA NextCred == CredInv /\ [Next]_vars => CredInv'
<1> SUFFICES ASSUME CredInv, [Next]_vars PROVE CredInv'
    OBVIOUS
<1>1. ASSUME NEW f \in Fetchers, Fetch(f) PROVE CredInv'
  <2>1. f \in Processes
    BY DEF Processes
  <2> QED BY <1>1, <2>1, LoginStep, ReadStep, StoreStep, UseStep DEF Fetch
<1>2. ASSUME NEW c \in Configs, Saving(c) PROVE CredInv'
  <2>1. c \in Processes
    BY DEF Processes
  <2>2. SaveFails(c) => CredInv'
    BY <2>1, GiveUpStep DEF SaveFails
  <2> QED BY <1>2, <2>1, <2>2, LoginStep, SaveStep DEF Saving
<1>3. CASE ProviderRecovers
  BY <1>3, IdleStep DEF ProviderRecovers
<1>4. CASE UNCHANGED vars
  BY <1>4, IdleStep DEF vars, CredInv, TypeOK
<1> QED BY <1>1, <1>2, <1>3, <1>4, ConfigureStep, DeleteStep, TickStep DEF Next

-----------------------------------------------------------------------------
(* The theorems.                                                           *)

(* The invariant holds in every state.                                     *)
LEMMA CredAlways == Spec => []CredInv
<1> QED BY InitCred, NextCred, PTL DEF Spec

(* The types of the row, the copies and the tokens hold in every state.    *)
THEOREM CredTypeCorrect == Spec => []TypeOK
<1>1. CredInv => TypeOK
  BY DEF CredInv
<1> QED BY <1>1, CredAlways, PTL

(* UpdateToken, however late, never brings back credentials older than the *)
(* last configuration: any number of fetchers and configurations.          *)
THEOREM ConfigurationIsKept == Spec => []ConfigurationKept
<1>1. CredInv => ConfigurationKept
  BY DEF CredInv, RowInv
<1> QED BY <1>1, CredAlways, PTL

(* The token in the row is one of a login with credentials that were saved *)
(* in this row, not in a row of the user that was deleted.                 *)
THEOREM TokenStaysInRow == Spec => []TokenOfRow
<1>1. CredInv => TokenOfRow
  BY DEF CredInv, RowInv
<1> QED BY <1>1, CredAlways, PTL

=============================================================================
