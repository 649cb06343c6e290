------------------------------ MODULE RateLimit ------------------------------
(***************************************************************************)
(* RateLimitMiddleware (internal/api/ratelimit.go): a map from client IP   *)
(* to its limiter and the time it was last used, a handler that takes the  *)
(* entry under the mutex and asks the limiter after having released it,    *)
(* and a janitor that forgets the entries not used for 5 minutes.          *)
(*                                                                         *)
(* It implements TokenBucket: an IP that is forgotten and comes back finds *)
(* the bucket it would have had.  The limiter is golang.org/x/time/rate,   *)
(* whose refill, lazy there, is done by the clock here.                    *)
(***************************************************************************)
EXTENDS Integers

CONSTANTS
  Ips, Requests, Burst, Cost, MaxElapsed,  \* see TokenBucket
  NoIp,       \* the IP of a request that is not in flight
  Expire      \* ticks after which an entry may be forgotten (5 min)

ASSUME LimitAssumption ==
  /\ Burst \in Nat /\ Cost \in Nat \ {0}
  /\ MaxElapsed \in Nat
  /\ NoIp \notin Ips
  /\ Expire \in Nat /\ Expire >= Burst * Cost

VARIABLES
  clients,   \* the IPs that have an entry
  limiter,   \* parts of tokens of the limiter of an entry
  last,      \* age of e.last, capped at Expire + 1
  asking,    \* the IP of a request between Unlock and Allow, or NoIp
  answer,    \* its answer: "none" while it is in flight
  spent,     \* history: requests of each IP passed in the window
  elapsed    \* history: ticks since the window was opened

vars == <<clients, limiter, last, asking, answer, spent, elapsed>>

Full == Burst * Cost

(* The bucket of an IP: a new limiter, which a forgotten IP gets, is full. *)
Bucket == [ip \in Ips |-> IF ip \in clients THEN limiter[ip] ELSE Full]

Promise == INSTANCE TokenBucket WITH bucket <- Bucket

TypeOK ==
  /\ clients \subseteq Ips
  /\ limiter \in [Ips -> 0..Full]
  /\ last \in [Ips -> 0..(Expire + 1)]
  /\ asking \in [Requests -> Ips \cup {NoIp}]
  /\ answer \in [Requests -> Promise!Answers]
  /\ spent \in [Ips -> Nat]
  /\ elapsed \in 0..MaxElapsed

Init ==
  /\ clients = {}
  /\ limiter = [ip \in Ips |-> Full]
  /\ last = [ip \in Ips |-> 0]
  /\ asking = [r \in Requests |-> NoIp]
  /\ answer = [r \in Requests |-> "refused"]
  /\ spent = [ip \in Ips |-> 0]
  /\ elapsed = 0

(* The critical section of the handler: find or create the entry, and note *)
(* the time.                                                               *)
NewLimiterAlways(ip) ==  \* mutant: the map is not consulted
  limiter' = [limiter EXCEPT ![ip] = Full]

NewLimiter(ip) ==
  limiter' = IF ip \in clients THEN limiter ELSE [limiter EXCEPT ![ip] = Full]

Touch(ip) == last' = [last EXCEPT ![ip] = 0]

Lookup(r, ip) ==
  /\ answer[r] # "none"
  /\ answer' = [answer EXCEPT ![r] = "none"]
  /\ asking' = [asking EXCEPT ![r] = ip]
  /\ clients' = clients \cup {ip}
  /\ NewLimiter(ip)
  /\ Touch(ip)
  /\ UNCHANGED <<spent, elapsed>>

AllowAnyway(r) ==  \* mutant: the answer of the limiter is ignored
  LET ip == asking[r]
  IN  /\ ip # NoIp
      /\ asking' = [asking EXCEPT ![r] = NoIp]
      /\ limiter' = [limiter EXCEPT ![ip] = @ - Cost]
      /\ spent' = [spent EXCEPT ![ip] = @ + 1]
      /\ answer' = [answer EXCEPT ![r] = "pass"]
      /\ UNCHANGED <<clients, last, elapsed>>

(* lim.Allow(), after the mutex was released.                              *)
Allow(r) ==
  LET ip == asking[r]
  IN  /\ ip # NoIp
      /\ asking' = [asking EXCEPT ![r] = NoIp]
      /\ IF limiter[ip] >= Cost
         THEN /\ limiter' = [limiter EXCEPT ![ip] = @ - Cost]
              /\ spent' = [spent EXCEPT ![ip] = @ + 1]
              /\ answer' = [answer EXCEPT ![r] = "pass"]
         ELSE /\ answer' = [answer EXCEPT ![r] = "refused"]
              /\ UNCHANGED <<limiter, spent>>
      /\ UNCHANGED <<clients, last, elapsed>>

ExpiredEarly(ip) == last[ip] > Cost  \* mutant: forgets before the refill

Expired(ip) == last[ip] > Expire

(* Every 2 minutes in the code, at any time here.                          *)
Janitor ==
  /\ \E ip \in clients : Expired(ip)
  /\ clients' = {ip \in clients : ~Expired(ip)}
  /\ UNCHANGED <<limiter, last, asking, answer, spent, elapsed>>

Refill(parts) == IF parts < Full THEN parts + 1 ELSE parts

(* A tick is longer than a handler spends between Unlock and Allow.        *)
Tick ==
  /\ \A r \in Requests : asking[r] = NoIp
  /\ elapsed < MaxElapsed
  /\ elapsed' = elapsed + 1
  /\ limiter' = [ip \in Ips |-> Refill(limiter[ip])]
  /\ last' = [ip \in Ips |-> IF last[ip] > Expire THEN last[ip] ELSE last[ip] + 1]
  /\ UNCHANGED <<clients, asking, answer, spent>>

OpenWindow ==
  /\ elapsed' = 0
  /\ spent' = [ip \in Ips |-> 0]
  /\ UNCHANGED <<clients, limiter, last, asking, answer>>

Next ==
  \/ \E r \in Requests : Allow(r) \/ \E ip \in Ips : Lookup(r, ip)
  \/ Janitor
  \/ Tick
  \/ OpenWindow

Spec == Init /\ [][Next]_vars

-----------------------------------------------------------------------------
(* Properties.                                                             *)

(* A limiter has refilled as many parts as ticks have passed since it was  *)
(* last asked for, so that one that has expired is full: forgetting it     *)
(* loses nothing (the 5 minutes of the janitor against the 40 s of a       *)
(* refill).                                                                *)
ExpiredIsFull ==
  \A ip \in clients : limiter[ip] >= last[ip] \/ limiter[ip] = Full

(* The requests that found their entry are not forgotten with it.          *)
AskedIsKept ==
  \A r \in Requests :
    /\ asking[r] # NoIp <=> answer[r] = "none"
    /\ asking[r] # NoIp => asking[r] \in clients /\ last[asking[r]] = 0

(* The middleware, its map and its janitor implement one bucket per IP.    *)
IsTokenBucket == Promise!Spec

(* In every window an IP passes at most the burst and the refill.          *)
WindowBound == Promise!WindowBound
=============================================================================
