----------------------------- MODULE TokenBucket -----------------------------
(***************************************************************************)
(* What the rate limit of /v1 promises: one token bucket per client IP     *)
(* that is never forgotten.  A request is answered once, "pass" against a  *)
(* token or "refused" when there is none.  Tokens are counted in parts, so *)
(* that one part is refilled per tick and a request costs Cost of them.    *)
(***************************************************************************)
EXTENDS Integers

CONSTANTS
  Ips,        \* the client IPs
  Requests,   \* the requests that may be in flight at once
  Burst,      \* tokens of a full bucket (10 in the code)
  Cost,       \* ticks per token (4 s at 0.25 per second)
  MaxElapsed  \* bound: length of the window that is observed

VARIABLES
  bucket,   \* parts of tokens of each IP
  answer,   \* "none" while a request is in flight, "pass" or "refused"
  spent,    \* history: requests of each IP passed in the window
  elapsed   \* history: ticks since the window was opened

vars == <<bucket, answer, spent, elapsed>>

Full == Burst * Cost
Answers == {"none", "pass", "refused"}

TypeOK ==
  /\ bucket \in [Ips -> 0..Full]
  /\ answer \in [Requests -> Answers]
  /\ spent \in [Ips -> Nat]
  /\ elapsed \in 0..MaxElapsed

Init ==
  /\ bucket = [ip \in Ips |-> Full]
  /\ answer = [r \in Requests |-> "refused"]
  /\ spent = [ip \in Ips |-> 0]
  /\ elapsed = 0

Refill(parts) == IF parts < Full THEN parts + 1 ELSE parts

Arrive(r) ==
  /\ answer[r] # "none"
  /\ answer' = [answer EXCEPT ![r] = "none"]
  /\ UNCHANGED <<bucket, spent, elapsed>>

Pass(r, ip) ==
  /\ answer[r] = "none"
  /\ bucket[ip] >= Cost
  /\ bucket' = [bucket EXCEPT ![ip] = @ - Cost]
  /\ spent' = [spent EXCEPT ![ip] = @ + 1]
  /\ answer' = [answer EXCEPT ![r] = "pass"]
  /\ UNCHANGED elapsed

Refuse(r, ip) ==
  /\ answer[r] = "none"
  /\ bucket[ip] < Cost
  /\ answer' = [answer EXCEPT ![r] = "refused"]
  /\ UNCHANGED <<bucket, spent, elapsed>>

Tick ==
  /\ elapsed < MaxElapsed
  /\ elapsed' = elapsed + 1
  /\ bucket' = [ip \in Ips |-> Refill(bucket[ip])]
  /\ UNCHANGED <<answer, spent>>

(* Any moment may be the beginning of the window.                          *)
OpenWindow ==
  /\ elapsed' = 0
  /\ spent' = [ip \in Ips |-> 0]
  /\ UNCHANGED <<bucket, answer>>

Next ==
  \/ \E r \in Requests : Arrive(r) \/ \E ip \in Ips : Pass(r, ip) \/ Refuse(r, ip)
  \/ Tick
  \/ OpenWindow

Spec == Init /\ [][Next]_vars

(* In every window an IP passes at most the burst and what is refilled     *)
(* during the window, whatever happened before it.                         *)
WindowBound == \A ip \in Ips : spent[ip] * Cost <= Full + elapsed
=============================================================================
