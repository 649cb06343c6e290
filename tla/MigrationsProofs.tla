-------------------------- MODULE MigrationsProofs --------------------------
(***************************************************************************)
(* Theorems of Migrations, for any number of processes and of crashes and  *)
(* any mixture of new and hand-made databases.                             *)
(***************************************************************************)
EXTENDS Migrations, TLAPS

(* What the tables look like when the files 1..n are recorded: on a new    *)
(* database each was applied, on one made by hand only 005 can have been.  *)
SchemaAt(sc, n) ==
  IF manual = 0
  THEN /\ sc.users <=> n >= 1
       /\ sc.activity <=> n >= 1
       /\ sc.unique <=> n >= 3
       /\ sc.webhooks = CASE n = 1 -> "jsonb" [] n \in {2, 3} -> "text"
                          [] OTHER -> "none"
  ELSE /\ sc.users /\ sc.unique
       /\ sc.activity <=> manual = 5 \/ n = 5
       /\ sc.webhooks = "none"

Prefix == \E n \in 0..LastFile : recorded = 1..n /\ SchemaAt(schema, n)

(* A process that is at a file has found, marked or applied the earlier    *)
(* ones; one past the baseline of a hand-made database has found 001.      *)
Position(p) ==
  /\ pc[p] \in {"mark", "check", "apply", "up"} => 1..(at[p] - 1) \subseteq recorded
  /\ pc[p] = "mark" => at[p] \in Legacy
  /\ pc[p] = "apply" => at[p] \in Files
  /\ pc[p] = "up" => at[p] = LastFile + 1

(* The baseline marks files of hand-made databases only, and no process    *)
(* applies 001 to one.                                                     *)
Baseline(p) ==
  /\ pc[p] = "count" => schema.users
  /\ pc[p] = "mark" => manual # 0
  /\ pc[p] \in {"check", "apply", "up"} /\ manual # 0 => 1 \in recorded

Inv ==
  /\ TypeOK
  /\ Prefix
  /\ \A p \in Procs : Position(p) /\ Baseline(p)

-----------------------------------------------------------------------------
(* The SQL of 001 on a new database.                                       *)
LEMMA EffectInit ==
  ASSUME NEW sc \in Schema, manual = 0, SchemaAt(sc, 0)
  PROVE  SchemaAt(Effect(1, sc), 1)
  <1> DEFINE sc1 == [sc EXCEPT !.users = TRUE, !.activity = @ \/ ~sc.users,
                               !.webhooks = IF @ = "none" THEN "jsonb" ELSE @]
  <1>1. Effect(1, sc) = sc1
    BY DEF Effect
  <1>2. ~sc.users /\ ~sc.unique /\ sc.webhooks = "none"
    BY DEF SchemaAt
  <1>3. sc1.users /\ (sc1.activity <=> sc.activity \/ ~sc.users)
    BY Zenon DEF Schema
  <1>4. (sc1.unique <=> sc.unique) /\ sc1.webhooks = "jsonb"
    BY <1>2 DEF Schema
  <1> HIDE DEF sc1
  <1>5. SchemaAt(sc1, 1)
    BY <1>2, <1>3, <1>4 DEF SchemaAt
  <1> QED
    BY <1>1, <1>5

(* A file that is applied next, and does not fail, leads from the schema   *)
(* of n files to that of n + 1: on a new database each of the five does,   *)
(* on one made by hand 005 alone.                                          *)
LEMMA EffectAt ==
  ASSUME NEW n \in 0..(LastFile - 1), NEW sc \in Schema, SchemaAt(sc, n),
         manual # 0 => n >= 1, ~Fails(n + 1, sc)
  PROVE  SchemaAt(Effect(n + 1, sc), n + 1)
  <1>1. CASE manual = 0 /\ n = 0
    BY <1>1, EffectInit
  <1>2. CASE manual = 0 /\ n # 0
    <2>1. n \in {1, 2, 3, 4}
      BY <1>2 DEF LastFile
    <2> QED
      BY <1>2, <2>1 DEF Effect, SchemaAt, Schema
  <1>3. CASE manual # 0
    BY <1>3 DEF Effect, Fails, SchemaAt, Schema, LastFile
  <1> QED
    BY <1>1, <1>2, <1>3

(* The SQL of a file leaves the schema of the type it has.                 *)
LEMMA EffectType ==
  ASSUME NEW f \in Files, NEW sc \in Schema
  PROVE  Effect(f, sc) \in Schema
  <1>1. CASE f = 1
    <2>1. (sc.activity \/ ~sc.users) \in BOOLEAN
      BY Zenon
    <2>2. ASSUME NEW b \in BOOLEAN
          PROVE  [sc EXCEPT !.users = TRUE, !.activity = b,
                            !.webhooks = IF @ = "none" THEN "jsonb" ELSE @] \in Schema
      BY DEF Schema
    <2>3. Effect(1, sc) = [sc EXCEPT
                             !.users = TRUE, !.activity = sc.activity \/ ~sc.users,
                             !.webhooks = IF @ = "none" THEN "jsonb" ELSE @]
      BY DEF Effect
    <2> QED
      BY <1>1, <2>1, <2>2, <2>3, Zenon
  <1>2. CASE f \in {2, 3, 4, 5}
    BY <1>2 DEF Effect, Schema
  <1> QED
    BY <1>1, <1>2 DEF Files, LastFile

(* Marking a legacy file that is next, on a database made by hand, leaves  *)
(* the schema what it is at that file.                                     *)
LEMMA MarkAt ==
  ASSUME NEW n \in 0..LastFile, NEW sc, SchemaAt(sc, n), manual # 0,
         n + 1 \in Legacy
  PROVE  SchemaAt(sc, n + 1)
  BY DEF SchemaAt, Legacy, LastFile

(* A record of the files in order: the file f after a prefix that holds    *)
(* all earlier ones is in it, or is the next.                              *)
LEMMA NextFile ==
  ASSUME NEW n \in 0..LastFile, NEW f \in Files, 1..(f - 1) \subseteq 1..n
  PROVE  /\ f \in 1..n \/ f = n + 1
         /\ (1..n) \cup {f} = IF f \in 1..n THEN 1..n ELSE 1..(n + 1)
  <1>1. f <= n + 1
    <2>1. CASE f = 1
      BY <2>1 DEF LastFile
    <2>2. CASE f # 1
      <3>1. f - 1 \in 1..(f - 1)
        BY <2>2 DEF Files, LastFile
      <3> QED
        BY <3>1 DEF Files, LastFile
    <2> QED
      BY <2>1, <2>2
  <1> QED
    BY <1>1 DEF Files, LastFile

-----------------------------------------------------------------------------
(* Each step keeps the invariant.                                          *)

(* No file is applied or marked before a process starts.                   *)
LEMMA InitInv == Init => Inv
  <1> SUFFICES ASSUME Init PROVE Inv
    OBVIOUS
  <1>1. manual \in {0} \cup 4..LastFile
    BY MigrationsAssumption DEF Init
  <1>2. /\ schema.users <=> manual >= 1
        /\ schema.activity <=> manual >= 5
        /\ schema.unique <=> manual >= 3
        /\ schema.webhooks = "none"
    BY Zenon DEF Init, HandMade
  <1>3. SchemaAt(schema, 0)
    BY <1>1, <1>2 DEF SchemaAt, LastFile
  <1>4. Prefix
    BY <1>3 DEF Prefix, Init, LastFile
  <1>5. schema \in Schema
    BY DEF Init, HandMade, Schema
  <1>6. TypeOK
    BY <1>5, MigrationsAssumption DEF TypeOK, Init, LastFile, Steps
  <1> QED
    BY <1>4, <1>6 DEF Inv, Init, Position, Baseline

(* A step that only moves a process keeps the invariant when the process   *)
(* is well placed afterwards.                                              *)
LEMMA GotoInv ==
  ASSUME Inv, NEW p \in Procs, NEW step \in Steps, NEW f \in 1..(LastFile + 1),
         Goto(p, step, f), UNCHANGED <<manual, schema, recorded>>,
         crashes' \in 0..MaxCrashes, (Position(p) /\ Baseline(p))'
  PROVE  Inv'
  <1>1. TypeOK'
    BY DEF Inv, TypeOK, Goto
  <1>2. Prefix'
    BY DEF Inv, Prefix, SchemaAt
  <1>3. ASSUME NEW q \in Procs PROVE (Position(q) /\ Baseline(q))'
    <2>1. CASE q = p
      BY <2>1
    <2>2. CASE q # p
      <3>1. pc'[q] = pc[q] /\ at'[q] = at[q]
        BY <2>2 DEF Inv, TypeOK, Goto
      <3> QED
        BY <3>1 DEF Inv, Position, Baseline
    <2> QED
      BY <2>1, <2>2
  <1> QED
    BY <1>1, <1>2, <1>3 DEF Inv

(* Recording one more file, with its effect, keeps the invariant when the  *)
(* process that did it is well placed afterwards.                          *)
LEMMA RecordInv ==
  ASSUME Inv, NEW p \in Procs, NEW step \in Steps, NEW f \in 1..(LastFile + 1),
         Goto(p, step, f), UNCHANGED <<manual, crashes>>,
         recorded \subseteq recorded', schema' \in Schema,
         schema.users => schema'.users,
         Prefix', (Position(p) /\ Baseline(p))'
  PROVE  Inv'
  <1>1. TypeOK'
    <2>1. recorded' \subseteq Files
      BY DEF Prefix, Files, LastFile
    <2> QED
      BY <2>1 DEF Inv, TypeOK, Goto
  <1>2. ASSUME NEW q \in Procs PROVE (Position(q) /\ Baseline(q))'
    <2>1. CASE q = p
      BY <2>1
    <2>2. CASE q # p
      <3>1. pc'[q] = pc[q] /\ at'[q] = at[q]
        BY <2>2 DEF Inv, TypeOK, Goto
      <3> QED
        BY <3>1 DEF Inv, Position, Baseline
    <2> QED
      BY <2>1, <2>2
  <1> QED
    BY <1>1, <1>2 DEF Inv

LEMMA StartInv == ASSUME Inv, NEW p \in Procs, Start(p) PROVE Inv'
  <1>1. (Position(p) /\ Baseline(p))'
    BY DEF Start, Goto, Position, Baseline, Inv, TypeOK
  <1> QED
    BY <1>1, GotoInv DEF Start, Inv, TypeOK, Steps, LastFile

(* A process that sees no users is on a new database.                      *)
LEMMA CheckUsersInv == ASSUME Inv, NEW p \in Procs, CheckUsers(p) PROVE Inv'
  <1>1. schema.users \/ manual = 0
    BY DEF Inv, Prefix, SchemaAt
  <1>2. (Position(p) /\ Baseline(p))'
    BY <1>1 DEF CheckUsers, Goto, Position, Baseline, Inv, TypeOK
  <1> QED
    BY <1>2, GotoInv DEF CheckUsers, Inv, TypeOK, Steps, LastFile

(* A process that counts no row has seen users, so that the database was   *)
(* made by hand: a new one has 001 recorded when it has users.             *)
LEMMA CountRecordedInv == ASSUME Inv, NEW p \in Procs, CountRecorded(p) PROVE Inv'
  <1>1. schema.users
    BY DEF Inv, Baseline, CountRecorded
  <1>2. PICK n \in 0..LastFile : recorded = 1..n /\ SchemaAt(schema, n)
    BY DEF Inv, Prefix
  <1>3. IF recorded = {} THEN manual # 0 ELSE 1 \in recorded
    BY <1>1, <1>2 DEF SchemaAt, LastFile
  <1>4. (Position(p) /\ Baseline(p))'
    BY <1>3 DEF CountRecorded, Goto, Position, Baseline, Legacy, Inv, TypeOK
  <1> QED
    BY <1>4, GotoInv DEF CountRecorded, Inv, TypeOK, Steps, LastFile

LEMMA MarkInv == ASSUME Inv, NEW p \in Procs, Mark(p) PROVE Inv'
  <1>1. PICK n \in 0..LastFile : recorded = 1..n /\ SchemaAt(schema, n)
    BY DEF Inv, Prefix
  <1>2. manual # 0 /\ at[p] \in Legacy /\ 1..(at[p] - 1) \subseteq 1..n
    BY <1>1 DEF Inv, Position, Baseline, Mark
  <1>3. /\ at[p] \in 1..n \/ at[p] = n + 1
        /\ recorded' = IF at[p] \in 1..n THEN 1..n ELSE 1..(n + 1)
    <2>1. at[p] \in Files
      BY <1>2 DEF Legacy, Files, LastFile
    <2>2. recorded' = (1..n) \cup {at[p]}
      BY <1>1 DEF Mark
    <2> QED
      BY <1>2, <2>1, <2>2, NextFile
  <1>4. Prefix'
    <2>1. CASE at[p] \in 1..n
      BY <1>1, <1>3, <2>1 DEF Prefix, SchemaAt, Mark
    <2>2. CASE at[p] \notin 1..n
      <3>1. n + 1 \in 0..LastFile /\ recorded' = 1..(n + 1)
        BY <1>2, <1>3, <2>2 DEF Legacy, LastFile
      <3>2. SchemaAt(schema', n + 1)
        BY <1>1, <1>2, <1>3, <2>2, MarkAt DEF Mark
      <3> QED
        BY <3>1, <3>2 DEF Prefix, SchemaAt, Mark
    <2> QED
      BY <2>1, <2>2
  <1>5. (Position(p) /\ Baseline(p))'
    <2>1. 1..at[p] \subseteq recorded'
      BY <1>2, <1>3 DEF Legacy, LastFile
    <2> QED
      BY <1>2, <2>1 DEF Mark, Goto, Position, Baseline, Legacy, Inv, TypeOK
  <1> QED
    BY <1>2, <1>4, <1>5, RecordInv DEF Mark, Legacy, Inv, TypeOK, Steps, LastFile

LEMMA CheckRecordedInv == ASSUME Inv, NEW p \in Procs, CheckRecorded(p) PROVE Inv'
  <1>1. at[p] \in 1..(LastFile + 1) /\ 1..(at[p] - 1) \subseteq recorded
    BY DEF Inv, TypeOK, Position, CheckRecorded
  <1>2. at[p] \in Files \/ at[p] = LastFile + 1
    BY <1>1 DEF Files, LastFile
  <1>3. CASE at[p] \notin Files
    <2>1. (Position(p) /\ Baseline(p))'
      BY <1>1, <1>2, <1>3
        DEF CheckRecorded, Goto, Position, Baseline, Inv, TypeOK
    <2> QED
      BY <1>1, <1>3, <2>1, GotoInv DEF CheckRecorded, Inv, TypeOK, Steps
  <1>4. CASE at[p] \in Files /\ at[p] \in recorded
    <2>1. 1..at[p] \subseteq recorded
      BY <1>1, <1>4 DEF Files, LastFile
    <2>2. at[p] + 1 \in 1..(LastFile + 1) /\ (at[p] + 1) - 1 = at[p]
      BY <1>4 DEF Files, LastFile
    <2>3. (Position(p) /\ Baseline(p))'
      BY <1>4, <2>1, <2>2
        DEF CheckRecorded, Goto, Position, Baseline, Inv, TypeOK
    <2> QED
      BY <1>4, <2>2, <2>3, GotoInv DEF CheckRecorded, Inv, TypeOK, Steps
  <1>5. CASE at[p] \in Files /\ at[p] \notin recorded
    <2>1. (Position(p) /\ Baseline(p))'
      BY <1>1, <1>5 DEF CheckRecorded, Goto, Position, Baseline, Inv, TypeOK
    <2> QED
      BY <1>1, <1>5, <2>1, GotoInv DEF CheckRecorded, Inv, TypeOK, Steps
  <1> QED
    BY <1>3, <1>4, <1>5

LEMMA ApplyFileInv == ASSUME Inv, NEW p \in Procs, ApplyFile(p) PROVE Inv'
  <1>1. PICK n \in 0..LastFile : recorded = 1..n /\ SchemaAt(schema, n)
    BY DEF Inv, Prefix
  <1>2. at[p] \in Files /\ 1..(at[p] - 1) \subseteq 1..n
    BY <1>1 DEF Inv, Position, ApplyFile
  <1>3. CASE Refused(at[p])
    <2>1. (Position(p) /\ Baseline(p))'
      BY <1>3 DEF ApplyFile, Goto, Position, Baseline, Inv, TypeOK
    <2> QED
      BY <1>3, <2>1, GotoInv DEF ApplyFile, Inv, TypeOK, Steps, LastFile
  <1>4. CASE ~Refused(at[p])
    <2>1. at[p] = n + 1 /\ recorded' = 1..(n + 1) /\ n + 1 \in Files
      BY <1>1, <1>2, <1>4, NextFile DEF ApplyFile, Refused
    <2>2. manual # 0 => n >= 1
      BY <1>1 DEF Inv, TypeOK, Baseline, ApplyFile, LastFile
    <2>3. SchemaAt(schema', n + 1)
      BY <1>1, <1>4, <2>1, <2>2, EffectAt
        DEF ApplyFile, Refused, Inv, TypeOK, Files, LastFile
    <2>4. Prefix'
      BY <2>1, <2>3 DEF Prefix, SchemaAt, ApplyFile, Files, LastFile
    <2>5. (Position(p) /\ Baseline(p))'
      BY <1>4, <2>1 DEF ApplyFile, Goto, Position, Baseline, Files, LastFile,
                        Inv, TypeOK
    <2>6. recorded \subseteq recorded' /\ schema'.users
      BY <1>1, <2>1, <2>3 DEF SchemaAt, Files, LastFile
    <2>7. schema' \in Schema
      BY <1>2, <1>4, EffectType DEF ApplyFile, Inv, TypeOK
    <2> QED
      BY <1>4, <2>1, <2>4, <2>5, <2>6, <2>7, RecordInv
        DEF ApplyFile, Steps, Files, LastFile
  <1> QED
    BY <1>3, <1>4

LEMMA CrashInv == ASSUME Inv, NEW p \in Procs, Crash(p) PROVE Inv'
  <1>1. (Position(p) /\ Baseline(p))'
    BY DEF Crash, Goto, Position, Baseline, Inv, TypeOK
  <1> QED
    BY <1>1, GotoInv, MigrationsAssumption DEF Crash, Inv, TypeOK, Steps, LastFile

LEMMA NextInv == Inv /\ [Next]_vars => Inv'
  <1> SUFFICES ASSUME Inv, [Next]_vars PROVE Inv'
    OBVIOUS
  <1>1. CASE Next
    BY <1>1, StartInv, CheckUsersInv, CountRecordedInv, MarkInv, CheckRecordedInv,
       ApplyFileInv, CrashInv DEF Next, Step
  <1>2. CASE UNCHANGED vars
    BY <1>2 DEF vars, Inv, TypeOK, Prefix, SchemaAt, Position, Baseline
  <1> QED
    BY <1>1, <1>2

(* The invariant holds in every state.                                     *)
THEOREM Invariant == Spec => []Inv
  BY InitInv, NextInv, PTL DEF Spec

-----------------------------------------------------------------------------
(* Every variable of the migrations keeps its type: in particular, no      *)
(* process looks for a file after the last one.                            *)
THEOREM TypeCorrect == Spec => []TypeOK
  <1>1. Inv => TypeOK
    BY DEF Inv
  <1> QED
    BY <1>1, Invariant, PTL

(* Whoever is recorded last, however many processes start, race and crash: *)
(* the files are recorded in order and their effect is in the schema.      *)
THEOREM InOrder == Spec => []RecordedInOrder
  <1>1. ASSUME Inv PROVE RecordedInOrder
    <2>1. PICK n \in 0..LastFile : recorded = 1..n /\ SchemaAt(schema, n)
      BY <1>1 DEF Inv, Prefix
    <2>2. /\ 3 \in recorded => schema.unique
          /\ 4 \in recorded => schema.webhooks = "none"
          /\ 5 \in recorded => schema.activity
      BY <2>1 DEF SchemaAt, LastFile
    <2> QED
      BY <2>1, <2>2 DEF RecordedInOrder
  <1> QED
    BY <1>1, Invariant, PTL

(* A process that serves requests has the complete schema, on a new        *)
(* database and on one made by hand, whoever started or crashed meanwhile. *)
THEOREM Complete == Spec => []UpIsComplete
  <1>1. ASSUME Inv, NEW p \in Procs, pc[p] = "up" PROVE schema = Target
    <2>1. PICK n \in 0..LastFile : recorded = 1..n /\ SchemaAt(schema, n)
      BY <1>1 DEF Inv, Prefix
    <2>2. at[p] - 1 = LastFile /\ 1..(at[p] - 1) \subseteq 1..n
      BY <1>1, <2>1 DEF Inv, Position, LastFile
    <2>3. n = 5
      BY <2>2 DEF LastFile
    <2> QED
      BY <1>1, <2>1, <2>3 DEF SchemaAt, Target, Schema, Inv, TypeOK
  <1>2. Inv => UpIsComplete
    BY <1>1 DEF UpIsComplete
  <1> QED
    BY <1>2, Invariant, PTL
=============================================================================
