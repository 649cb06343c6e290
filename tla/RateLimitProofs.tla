--------------------------- MODULE RateLimitProofs ---------------------------
(***************************************************************************)
(* Proofs about RateLimit, for every set of IPs and of requests and every  *)
(* burst, cost and expiry that satisfy LimitAssumption.                    *)
(***************************************************************************)
EXTENDS RateLimit, TLAPS

(* What an IP has spent in the window and what it has left never exceed    *)
(* the burst and the refill: WindowBound is not inductive without the      *)
(* second term.                                                            *)
Account == \A ip \in Ips : spent[ip] * Cost + Bucket[ip] <= Full + elapsed

LimitInv == TypeOK /\ ExpiredIsFull /\ AskedIsKept /\ Account

(* The size of a full bucket.                                              *)
LEMMA FullIsNat == Full \in Nat /\ Expire >= Full
  BY LimitAssumption DEF Full

(* One more token spent.                                                   *)
LEMMA OneMore == \A n \in Nat : n * Cost \in Nat /\ (n + 1) * Cost = n * Cost + Cost
  BY LimitAssumption, SMT

(* A refill adds one part, up to a full bucket.                            *)
LEMMA RefillIsBounded ==
  \A b \in 0..Full : /\ Refill(b) \in 0..Full
                     /\ Refill(b) >= b
                     /\ Refill(b) = Full \/ Refill(b) = b + 1
  BY FullIsNat DEF Refill

(* No IP has an entry at the start: all buckets are full.                  *)
LEMMA InitHolds == Init => LimitInv
  <1> SUFFICES ASSUME Init PROVE LimitInv
    OBVIOUS
  <1>0. MaxElapsed \in Nat /\ NoIp \notin Ips /\ Full \in Nat /\ Expire \in Nat
    BY LimitAssumption, FullIsNat
  <1>1. TypeOK
    BY <1>0 DEF Init, TypeOK, Promise!Answers
  <1>2. ExpiredIsFull
    BY DEF Init, ExpiredIsFull
  <1>3. AskedIsKept
    BY DEF Init, AskedIsKept
  <1>4. Account
    <2> SUFFICES ASSUME NEW ip \in Ips
                 PROVE spent[ip] * Cost + Bucket[ip] <= Full + elapsed
      BY DEF Account
    <2>1. spent[ip] = 0 /\ elapsed = 0 /\ Bucket[ip] = Full
      BY DEF Init, Bucket
    <2>2. 0 * Cost = 0
      BY LimitAssumption
    <2> QED BY <2>1, <2>2, <1>0
  <1> QED BY <1>1, <1>2, <1>3, <1>4 DEF LimitInv

(* Finding the entry of an IP: a new one is full, as a forgotten bucket is. *)
LEMMA LookupKeepsInv ==
  ASSUME LimitInv, NEW r \in Requests, NEW ip \in Ips, Lookup(r, ip)
  PROVE  LimitInv' /\ Bucket' = Bucket
PROOF
  <1> USE DEF LimitInv
  <1>0. Full \in Nat /\ Expire \in Nat /\ NoIp \notin Ips
    BY LimitAssumption, FullIsNat
  <1>1. TypeOK'
    BY <1>0 DEF TypeOK, Lookup, NewLimiter, Touch, Promise!Answers
  <1>2. ExpiredIsFull'
    BY <1>0 DEF TypeOK, ExpiredIsFull, Lookup, NewLimiter, Touch
  <1>3. AskedIsKept'
    BY <1>0 DEF TypeOK, AskedIsKept, Lookup, Touch
  <1>4. Bucket' = Bucket
    BY DEF TypeOK, Bucket, Lookup, NewLimiter
  <1>5. Account'
    BY <1>4 DEF Account, Lookup
  <1> QED BY <1>1, <1>2, <1>3, <1>4, <1>5

(* A token is taken from a limiter that was looked up in this very tick.   *)
LEMMA AllowKeepsInv ==
  ASSUME LimitInv, NEW r \in Requests, Allow(r)
  PROVE  LimitInv'
PROOF
  <1> USE DEF LimitInv
  <1>0. Full \in Nat /\ Expire \in Nat /\ Cost \in Nat \ {0} /\ NoIp \notin Ips
    BY LimitAssumption, FullIsNat
  <1> DEFINE ip == asking[r]
  <1>1. ip \in Ips /\ ip \in clients /\ last[ip] = 0
    BY DEF Allow, AskedIsKept, TypeOK
  <1>2. TypeOK'
    BY <1>0, <1>1 DEF TypeOK, Allow, Promise!Answers
  <1>3. ExpiredIsFull'
    BY <1>0, <1>1, <1>2 DEF TypeOK, ExpiredIsFull, Allow
  <1>4. AskedIsKept'
    BY <1>0, <1>1 DEF TypeOK, AskedIsKept, Allow
  <1>5. Account'
    <2> SUFFICES ASSUME NEW j \in Ips
                 PROVE spent'[j] * Cost + Bucket'[j] <= Full + elapsed'
      BY DEF Account
    <2>1. spent[j] * Cost + Bucket[j] <= Full + elapsed /\ elapsed' = elapsed
      BY DEF Account, Allow
    <2>2. CASE spent'[j] = spent[j] /\ Bucket'[j] = Bucket[j]
      BY <2>1, <2>2
    <2>3. CASE spent'[j] = spent[j] + 1 /\ Bucket'[j] = Bucket[j] - Cost
      <3>1. spent[j] \in Nat /\ Bucket[j] \in Nat
        BY <1>0 DEF TypeOK, Bucket
      <3>2. (spent[j] + 1) * Cost = spent[j] * Cost + Cost /\ spent[j] * Cost \in Nat
        BY <3>1, OneMore
      <3> QED BY <1>0, <2>1, <2>3, <3>1, <3>2
    <2>4. \/ spent'[j] = spent[j] /\ Bucket'[j] = Bucket[j]
          \/ spent'[j] = spent[j] + 1 /\ Bucket'[j] = Bucket[j] - Cost
      BY <1>1 DEF Allow, Bucket, TypeOK
    <2> QED BY <2>2, <2>3, <2>4
  <1> QED BY <1>2, <1>3, <1>4, <1>5

(* What is forgotten is a full bucket.                                     *)
LEMMA JanitorKeepsInv ==
  ASSUME LimitInv, Janitor
  PROVE  LimitInv' /\ Bucket' = Bucket
PROOF
  <1> USE DEF LimitInv
  <1>0. Full \in Nat /\ Expire \in Nat /\ Expire >= Full
    BY LimitAssumption, FullIsNat
  <1>1. TypeOK'
    BY DEF TypeOK, Janitor
  <1>2. ExpiredIsFull'
    BY DEF ExpiredIsFull, Janitor
  <1>3. AskedIsKept'
    BY <1>0 DEF AskedIsKept, Janitor, Expired
  <1>4. \A ip \in clients : Expired(ip) => limiter[ip] = Full
    BY <1>0 DEF ExpiredIsFull, Expired, TypeOK
  <1>5. Bucket' = Bucket
    BY <1>4 DEF Bucket, Janitor
  <1>6. Account'
    BY <1>5 DEF Account, Janitor
  <1> QED BY <1>1, <1>2, <1>3, <1>5, <1>6

(* Every bucket is refilled by a part, whether it has an entry or not.     *)
LEMMA TickRefills ==
  ASSUME LimitInv, Tick
  PROVE  Bucket' = [ip \in Ips |-> Refill(Bucket[ip])]
PROOF
  <1>1. Refill(Full) = Full
    BY FullIsNat DEF Refill
  <1> QED BY <1>1 DEF Tick, Bucket

(* A tick refills the limiters and ages the entries.                       *)
LEMMA TickKeepsInv ==
  ASSUME LimitInv, Tick
  PROVE  LimitInv'
PROOF
  <1> USE DEF LimitInv
  <1>0. Full \in Nat /\ Expire \in Nat /\ MaxElapsed \in Nat /\ Expire >= Full
    BY LimitAssumption, FullIsNat
  <1>1. TypeOK'
    <2>1. limiter' \in [Ips -> 0..Full]
      BY RefillIsBounded DEF TypeOK, Tick
    <2>2. last' \in [Ips -> 0..(Expire + 1)]
      BY <1>0 DEF TypeOK, Tick
    <2> QED BY <1>0, <2>1, <2>2 DEF TypeOK, Tick
  <1>2. ExpiredIsFull'
    <2> SUFFICES ASSUME NEW ip \in clients
                 PROVE limiter'[ip] >= last'[ip] \/ limiter'[ip] = Full
      BY DEF ExpiredIsFull, Tick
    <2>1. ip \in Ips /\ limiter[ip] \in 0..Full /\ last[ip] \in 0..(Expire + 1)
      BY DEF TypeOK
    <2>2. limiter'[ip] = Refill(limiter[ip])
      BY <2>1 DEF Tick
    <2>3. last'[ip] \in Nat /\ last'[ip] <= last[ip] + 1
      BY <1>0, <2>1 DEF Tick
    <2>4. limiter[ip] >= last[ip] \/ limiter[ip] = Full
      BY DEF ExpiredIsFull
    <2> QED BY <1>0, <2>1, <2>2, <2>3, <2>4 DEF Refill
  <1>3. AskedIsKept'
    BY DEF AskedIsKept, Tick
  <1>4. Account'
    <2> SUFFICES ASSUME NEW ip \in Ips
                 PROVE spent'[ip] * Cost + Bucket'[ip] <= Full + elapsed'
      BY DEF Account
    <2>1. spent[ip] \in Nat /\ Bucket[ip] \in 0..Full /\ elapsed \in Nat
      BY <1>0 DEF TypeOK, Bucket
    <2>2. spent'[ip] = spent[ip] /\ elapsed' = elapsed + 1
      BY DEF Tick
    <2>3. Bucket'[ip] = Refill(Bucket[ip])
      BY TickRefills
    <2>4. Refill(Bucket[ip]) <= Bucket[ip] + 1
      BY <2>1, <1>0 DEF Refill
    <2>5. spent[ip] * Cost \in Nat
      BY <2>1, OneMore
    <2>6. Refill(Bucket[ip]) \in Nat
      BY <2>1, RefillIsBounded, <1>0
    <2>7. spent[ip] * Cost + Bucket[ip] <= Full + elapsed
      BY DEF Account
    <2> QED BY <1>0, <2>1, <2>2, <2>3, <2>4, <2>5, <2>6, <2>7
  <1> QED BY <1>1, <1>2, <1>3, <1>4

(* A new window starts with nothing spent.                                 *)
LEMMA OpenWindowKeepsInv ==
  ASSUME LimitInv, OpenWindow
  PROVE  LimitInv'
PROOF
  <1> USE DEF LimitInv
  <1>0. Full \in Nat /\ MaxElapsed \in Nat
    BY LimitAssumption, FullIsNat
  <1>1. TypeOK' /\ ExpiredIsFull' /\ AskedIsKept'
    BY <1>0 DEF TypeOK, ExpiredIsFull, AskedIsKept, OpenWindow
  <1>2. Account'
    <2> SUFFICES ASSUME NEW ip \in Ips
                 PROVE spent'[ip] * Cost + Bucket'[ip] <= Full + elapsed'
      BY DEF Account
    <2>1. spent'[ip] = 0 /\ elapsed' = 0 /\ Bucket'[ip] = Bucket[ip]
      BY DEF OpenWindow, Bucket
    <2>2. Bucket[ip] \in 0..Full
      BY <1>0 DEF TypeOK, Bucket
    <2>3. 0 * Cost = 0
      BY LimitAssumption
    <2> QED BY <1>0, <2>1, <2>2, <2>3
  <1> QED BY <1>1, <1>2

(* The inductive invariant.                                                *)
THEOREM LimitInvariant == Spec => []LimitInv
PROOF
  <1>1. Init => LimitInv
    BY InitHolds
  <1>2. LimitInv /\ [Next]_vars => LimitInv'
    <2> SUFFICES ASSUME LimitInv, [Next]_vars PROVE LimitInv'
      OBVIOUS
    <2>1. ASSUME NEW r \in Requests, NEW ip \in Ips, Lookup(r, ip) PROVE LimitInv'
      BY <2>1, LookupKeepsInv
    <2>2. ASSUME NEW r \in Requests, Allow(r) PROVE LimitInv'
      BY <2>2, AllowKeepsInv
    <2>3. CASE Janitor
      BY <2>3, JanitorKeepsInv
    <2>4. CASE Tick
      BY <2>4, TickKeepsInv
    <2>5. CASE OpenWindow
      BY <2>5, OpenWindowKeepsInv
    <2>6. CASE UNCHANGED vars
      BY <2>6 DEF vars, LimitInv, TypeOK, ExpiredIsFull, AskedIsKept, Account, Bucket
    <2> QED BY <2>1, <2>2, <2>3, <2>4, <2>5, <2>6 DEF Next
  <1> QED BY <1>1, <1>2, PTL DEF Spec

(* The types of the variables.                                             *)
THEOREM LimitTypeCorrect == Spec => []TypeOK
  BY LimitInvariant, PTL DEF LimitInv

(* A limiter is forgotten only when it is full.                            *)
THEOREM ForgottenIsFull == Spec => []ExpiredIsFull
  BY LimitInvariant, PTL DEF LimitInv

(* No window of any length lets an IP pass more than burst and refill.     *)
THEOREM WindowIsBounded == Spec => []WindowBound
PROOF
  <1>1. LimitInv => WindowBound
    <2> SUFFICES ASSUME LimitInv, NEW ip \in Ips
                 PROVE spent[ip] * Cost <= Promise!Full + elapsed
      BY DEF WindowBound, Promise!WindowBound
    <2>1. spent[ip] * Cost \in Nat /\ Bucket[ip] \in Nat /\ elapsed \in Nat
      BY OneMore, FullIsNat, LimitAssumption DEF LimitInv, TypeOK, Bucket
    <2>2. spent[ip] * Cost + Bucket[ip] <= Full + elapsed
      BY DEF LimitInv, Account
    <2>3. Promise!Full = Full /\ Full \in Nat
      BY FullIsNat DEF Promise!Full, Full
    <2> QED BY <2>1, <2>2, <2>3
  <1> QED BY <1>1, LimitInvariant, PTL

(* The middleware implements one token bucket per IP: the map, the late    *)
(* call of Allow and the janitor cannot be observed.                       *)
THEOREM ImplementsTokenBucket == Spec => IsTokenBucket
PROOF
  <1>1. Init => Promise!Init
    BY DEF Init, Promise!Init, Bucket, Promise!Full, Full
  <1>2. LimitInv /\ [Next]_vars => [Promise!Next]_(Promise!vars)
    <2> SUFFICES ASSUME LimitInv, [Next]_vars
                 PROVE Promise!Next \/ UNCHANGED Promise!vars
      OBVIOUS
    <2>1. ASSUME NEW r \in Requests, NEW ip \in Ips, Lookup(r, ip)
          PROVE Promise!Next
      <3>1. Bucket' = Bucket
        BY <2>1, LookupKeepsInv
      <3>2. Promise!Arrive(r)
        BY <2>1, <3>1 DEF Lookup, Promise!Arrive
      <3> QED BY <3>2 DEF Promise!Next
    <2>2. ASSUME NEW r \in Requests, Allow(r)
          PROVE Promise!Next
      <3> DEFINE ip == asking[r]
      <3>1. ip \in Ips /\ ip \in clients /\ answer[r] = "none"
        BY <2>2 DEF LimitInv, AskedIsKept, TypeOK, Allow
      <3>2. Bucket[ip] = limiter[ip]
        BY <3>1 DEF Bucket
      <3>3. CASE limiter[ip] >= Cost
        <4>1. Bucket' = [Bucket EXCEPT ![ip] = @ - Cost]
          BY <2>2, <3>1, <3>3 DEF Allow, Bucket, LimitInv, TypeOK
        <4>2. Promise!Pass(r, ip)
          BY <2>2, <3>1, <3>2, <3>3, <4>1 DEF Allow, Promise!Pass
        <4> QED BY <3>1, <4>2 DEF Promise!Next
      <3>4. CASE ~(limiter[ip] >= Cost)
        <4>1. Bucket' = Bucket
          BY <2>2, <3>4 DEF Allow, Bucket
        <4>2. limiter[ip] < Cost
          BY <3>1, <3>4, FullIsNat, LimitAssumption DEF LimitInv, TypeOK
        <4>3. Promise!Refuse(r, ip)
          BY <2>2, <3>1, <3>2, <3>4, <4>1, <4>2 DEF Allow, Promise!Refuse
        <4> QED BY <3>1, <4>3 DEF Promise!Next
      <3> QED BY <3>3, <3>4
    <2>3. CASE Janitor
      BY <2>3, JanitorKeepsInv DEF Janitor, Promise!vars
    <2>4. CASE Tick
      <3>1. Bucket' = [ip \in Ips |-> Promise!Refill(Bucket[ip])]
        BY <2>4, TickRefills DEF Promise!Refill, Refill, Promise!Full, Full
      <3>2. Promise!Tick
        BY <2>4, <3>1 DEF Tick, Promise!Tick
      <3> QED BY <3>2 DEF Promise!Next
    <2>5. CASE OpenWindow
      <3>1. Promise!OpenWindow
        BY <2>5 DEF OpenWindow, Promise!OpenWindow, Bucket
      <3> QED BY <3>1 DEF Promise!Next
    <2>6. CASE UNCHANGED vars
      BY <2>6 DEF vars, Promise!vars, Bucket
    <2> QED BY <2>1, <2>2, <2>3, <2>4, <2>5, <2>6 DEF Next
  <1> QED BY <1>1, <1>2, LimitInvariant, PTL DEF Spec, IsTokenBucket, Promise!Spec
=============================================================================
