--------------------------- MODULE ReconcileProofs ---------------------------
(***************************************************************************)
(* The safety of Reconcile, for every set of users and of goroutines.  The *)
(* invariant adds to OneLoopPerUser what the query and its use tell of the *)
(* life of a user: whoever has a loop, or is on the list, was configured   *)
(* once, and whoever has a loop and is not on the list has been deleted.   *)
(***************************************************************************)
EXTENDS Reconcile, TLAPS

Known == {"configured", "deleted"}

ListInv ==
  /\ \A u \in Uids : runs[u] # NoLoop => phase[u] \in Known
  /\ round = "listed" =>
       /\ \A u \in want : phase[u] \in Known
       /\ \A u \in Uids \ want : runs[u] # NoLoop => phase[u] = "deleted"

IInv == TypeOK /\ OneLoopPerUser /\ ListInv

(* A deletion is final and a configuration is only undone by it.           *)
LEMMA RowsOnlyAdvance ==
  ASSUME phase \in [Uids -> Phases], RowsNext
  PROVE  /\ phase' \in [Uids -> Phases]
         /\ \A u \in Uids : phase[u] \in Known => phase'[u] \in Known
         /\ \A u \in Uids : phase[u] = "deleted" => phase'[u] = "deleted"
  BY DEF RowsNext, Insert, Configure, Delete, Enter, Phases, Known

-----------------------------------------------------------------------------
LEMMA InitInv == Init => IInv
  BY ReconcileAssumption
  DEF Init, RowsInit, IInv, TypeOK, OneLoopPerUser, ListInv, Runs, Phases, Known

LEMMA UserChangesInv == IInv /\ UserChanges => IInv'
<1> SUFFICES ASSUME IInv, UserChanges PROVE IInv'
  OBVIOUS
<1> USE DEF UserChanges, runVars, IInv
<1>1. TypeOK'
  BY RowsOnlyAdvance DEF TypeOK
<1>2. OneLoopPerUser'
  BY DEF OneLoopPerUser, Runs
<1>3. ListInv'
  BY RowsOnlyAdvance DEF TypeOK, ListInv
<1> QED
  BY <1>1, <1>2, <1>3

LEMMA ListUsersInv == IInv /\ ListUsers => IInv'
<1> SUFFICES ASSUME IInv, ListUsers PROVE IInv'
  OBVIOUS
<1> USE DEF ListUsers, IInv, Configured
<1>1. TypeOK'
  BY DEF TypeOK
<1>2. OneLoopPerUser'
  BY DEF OneLoopPerUser, Runs
<1>3. ListInv'
  BY DEF TypeOK, ListInv, Known
<1> QED
  BY <1>1, <1>2, <1>3

LEMMA LoopOverInv ==
  ASSUME NEW g \in Loops, IInv, LoopOver(g)
  PROVE  IInv'
<1> USE ReconcileAssumption DEF LoopOver, IInv
<1>1. TypeOK'
  BY DEF TypeOK
<1>2. OneLoopPerUser'
  <2> SUFFICES ASSUME NEW u \in Uids, NEW h \in Loops
               PROVE  Runs(u, h)' <=> runs[u] = h
    BY DEF OneLoopPerUser
  <2>1. CASE h = g
    BY <2>1 DEF OneLoopPerUser, Runs, TypeOK
  <2>2. CASE h # g
    BY <2>2 DEF OneLoopPerUser, Runs, TypeOK
  <2> QED
    BY <2>1, <2>2
<1>3. ListInv'
  BY DEF ListInv
<1> QED
  BY <1>1, <1>2, <1>3

-----------------------------------------------------------------------------
(* A goroutine that is started serves the user it is started for; the      *)
(* others keep theirs.                                                     *)
LEMMA ApplyOwners ==
  ASSUME IInv, Apply
  PROVE  \E f \in Starts :
           /\ runs' = RunsAfter(f)
           /\ \A u \in Missing : f[u] \in Loops /\ owner'[f[u]] = u
           /\ \A g \in Loops : (\A u \in Missing : f[u] # g) => owner'[g] = owner[g]
           /\ owner' \in [Loops -> Uids \cup {NoUid}]
           /\ over' = [g \in Loops |-> over[g] \/ \E u \in Gone : runs[u] = g]
<1> DEFINE Owners(f) == [g \in Loops |-> IF \E u \in Missing : f[u] = g
                                         THEN CHOOSE u \in Missing : f[u] = g
                                         ELSE owner[g]]
<1>1. PICK f \in Starts :
        /\ runs' = RunsAfter(f)
        /\ owner' = Owners(f)
        /\ over' = [g \in Loops |-> over[g] \/ \E u \in Gone : runs[u] = g]
  BY DEF Apply
<1>2. \A u \in Missing : f[u] \in Loops
  BY DEF Starts, Free
<1>3. \A u \in Missing : Owners(f)[f[u]] = u
  <2> TAKE u \in Missing
  <2>1. \A v \in Missing : f[v] = f[u] => v = u
    BY DEF Starts
  <2>2. Owners(f)[f[u]] = CHOOSE v \in Missing : f[v] = f[u]
    BY <1>2
  <2> QED
    BY <2>1, <2>2
<1>4. \A g \in Loops : (\A u \in Missing : f[u] # g) => Owners(f)[g] = owner[g]
  OBVIOUS
<1>5. Owners(f) \in [Loops -> Uids \cup {NoUid}]
  <2> SUFFICES ASSUME NEW g \in Loops PROVE Owners(f)[g] \in Uids \cup {NoUid}
    OBVIOUS
  <2>1. CASE \E u \in Missing : f[u] = g
    BY <2>1, <1>3 DEF Missing, IInv, TypeOK
  <2>2. CASE ~\E u \in Missing : f[u] = g
    BY <2>2 DEF IInv, TypeOK
  <2> QED
    BY <2>1, <2>2
<1> HIDE DEF Owners
<1> QED
  BY <1>1, <1>2, <1>3, <1>4, <1>5

LEMMA ApplyInv == IInv /\ Apply => IInv'
<1> SUFFICES ASSUME IInv, Apply PROVE IInv'
  OBVIOUS
<1>1. PICK f \in Starts :
        /\ runs' = RunsAfter(f)
        /\ \A u \in Missing : f[u] \in Loops /\ owner'[f[u]] = u
        /\ \A g \in Loops : (\A u \in Missing : f[u] # g) => owner'[g] = owner[g]
        /\ owner' \in [Loops -> Uids \cup {NoUid}]
        /\ over' = [g \in Loops |-> over[g] \/ \E u \in Gone : runs[u] = g]
  BY ApplyOwners
<1>2. /\ phase' = phase /\ round' = "waiting" /\ want' = {} /\ round = "listed"
  BY DEF Apply
<1>3. /\ Missing \subseteq Uids /\ Gone \subseteq Uids \ Missing
      /\ \A u \in Missing : owner[f[u]] = NoUid /\ ~over[f[u]]
  BY ReconcileAssumption DEF Missing, Gone, Starts, Free, IInv, TypeOK
<1>4. \A g \in Loops, u \in Uids : runs[u] = g => owner[g] = u /\ ~over[g]
  BY DEF IInv, OneLoopPerUser, Runs
<1>5. \A u \in Missing : \A v \in Uids : runs[v] # f[u]
  BY <1>1, <1>3, <1>4, ReconcileAssumption
<1>6. TypeOK'
  <2>1. runs' \in [Uids -> Loops \cup {NoLoop}]
    BY <1>1 DEF RunsAfter, IInv, TypeOK
  <2>2. \A g \in Loops : over'[g] => owner'[g] # NoUid
    BY <1>1, <1>3, <1>4, <1>5, ReconcileAssumption DEF IInv, TypeOK
  <2>3. over' \in [Loops -> BOOLEAN]
    BY <1>1 DEF IInv, TypeOK
  <2> QED
    BY <1>1, <1>2, <2>1, <2>2, <2>3 DEF IInv, TypeOK
<1>7. OneLoopPerUser'
  <2> SUFFICES ASSUME NEW u \in Uids, NEW g \in Loops
               PROVE  (owner'[g] = u /\ ~over'[g]) <=> runs'[u] = g
    BY DEF OneLoopPerUser, Runs
  <2>1. runs'[u] = IF u \in Missing THEN f[u]
                   ELSE IF u \in Gone THEN NoLoop ELSE runs[u]
    BY <1>1 DEF RunsAfter
  <2>2. over'[g] <=> over[g] \/ \E v \in Gone : runs[v] = g
    BY <1>1
  <2>3. CASE \E v \in Missing : f[v] = g
    <3>1. PICK v \in Missing : f[v] = g
      BY <2>3
    <3>2. owner'[g] = v /\ ~over'[g]
      BY <1>1, <1>3, <1>5, <2>2, <3>1
    <3>3. runs'[u] = g <=> u = v
      BY <1>1, <1>3, <1>5, <2>1, <3>1, <3>2, ReconcileAssumption
    <3> QED
      BY <3>2, <3>3
  <2>4. CASE \A v \in Missing : f[v] # g
    <3>1. owner'[g] = owner[g]
      BY <1>1, <2>4
    <3>2. CASE u \in Missing
      BY <3>1, <3>2, <2>1, <2>2, <2>4, ReconcileAssumption
         DEF Missing, IInv, OneLoopPerUser, Runs
    <3>3. CASE u \in Gone
      BY <3>1, <3>3, <1>3, <2>1, <2>2, ReconcileAssumption
         DEF IInv, OneLoopPerUser, Runs
    <3>4. CASE u \notin Missing /\ u \notin Gone
      BY <3>1, <3>4, <1>3, <1>4, <2>1, <2>2
         DEF IInv, OneLoopPerUser, Runs
    <3> QED
      BY <3>2, <3>3, <3>4
  <2> QED
    BY <2>3, <2>4
<1>8. ListInv'
  <2> SUFFICES ASSUME NEW u \in Uids, runs'[u] # NoLoop
               PROVE  phase[u] \in Known
    BY <1>2 DEF ListInv
  <2>1. CASE u \in Missing
    BY <1>2, <2>1 DEF Missing, IInv, ListInv
  <2>2. CASE u \notin Missing
    BY <1>1, <2>2 DEF RunsAfter, IInv, ListInv
  <2> QED
    BY <2>1, <2>2
<1> QED
  BY <1>6, <1>7, <1>8 DEF IInv

LEMMA StepInv == IInv /\ [Next]_vars => IInv'
<1> SUFFICES ASSUME IInv, [Next]_vars PROVE IInv'
  OBVIOUS
<1>1. CASE UserChanges
  BY <1>1, UserChangesInv
<1>2. CASE ListUsers
  BY <1>2, ListUsersInv
<1>3. CASE Apply
  BY <1>3, ApplyInv
<1>4. CASE \E g \in Loops : LoopOver(g)
  BY <1>4, LoopOverInv
<1>5. CASE UNCHANGED vars
  BY <1>5 DEF vars, runVars, IInv, TypeOK, OneLoopPerUser, ListInv, Runs
<1> QED
  BY <1>1, <1>2, <1>3, <1>4, <1>5 DEF Next

LEMMA SpecInv == Spec => []IInv
  BY InitInv, StepInv, PTL DEF Spec

-----------------------------------------------------------------------------
(* The map, the users and the goroutines keep their types, and no context  *)
(* is cancelled twice over.                                                *)
THEOREM ReconcileTypeCorrect == Spec => []TypeOK
  BY SpecInv, PTL DEF IInv

(* One loop for every user, and the map knows it, for any number of users  *)
(* and of cancelled loops that have not ended.                             *)
THEOREM LoopsAreUnique == Spec => []OneLoopPerUser
  BY SpecInv, PTL DEF IInv

(* No step cancels the loop of a user that is not deleted.                 *)
THEOREM LoopsAreKept == Spec => SteadyUsersKept
<1> DEFINE Kept == \A u \in Uids, g \in Loops :
                     Runs(u, g) /\ ~Runs(u, g)' => phase[u] = "deleted"
<1>1. IInv /\ [Next]_vars => [Kept]_vars
  <2> SUFFICES ASSUME IInv, Next, NEW u \in Uids, NEW g \in Loops,
                      Runs(u, g), ~Runs(u, g)'
               PROVE  phase[u] = "deleted"
    OBVIOUS
  <2>1. runs[u] = g /\ runs[u] # NoLoop
    BY ReconcileAssumption DEF IInv, OneLoopPerUser
  <2>2. CASE UserChanges
    BY <2>2 DEF UserChanges, runVars, Runs
  <2>3. CASE ListUsers
    BY <2>3 DEF ListUsers, Runs
  <2>4. CASE Apply
    <3>1. IInv'
      BY <2>4, ApplyInv
    <3>2. runs'[u] # g
      BY <3>1 DEF IInv, OneLoopPerUser, Runs
    <3>3. PICK f \in Starts : runs' = RunsAfter(f)
      BY <2>4 DEF Apply
    <3>4. u \in Gone
      BY <2>1, <3>2, <3>3 DEF RunsAfter, Missing, Gone
    <3> QED
      BY <2>1, <2>4, <3>4 DEF Apply, Gone, IInv, ListInv
  <2>5. ASSUME NEW h \in Loops, LoopOver(h)
        PROVE  phase[u] = "deleted"
    BY <2>5 DEF LoopOver, Runs, IInv, TypeOK
  <2> QED
    BY <2>2, <2>3, <2>4, <2>5 DEF Next
<1> QED
  BY <1>1, SpecInv, PTL DEF Spec, SteadyUsersKept
=============================================================================
