----------------------------- MODULE Migrations -----------------------------
(***************************************************************************)
(* The migrations an API process applies when it starts (RunMigrations of  *)
(* internal/database/migrate.go), on a database that is new or that was    *)
(* created by hand before the automatic migrations existed.                *)
(*                                                                         *)
(* One action is one statement outside a transaction, or one transaction:  *)
(* the SQL of a file and its row in schema_migrations are committed        *)
(* together, and PostgreSQL serialises the DDL of two transactions.  The   *)
(* schema is abstracted to what the five files change and the code needs.  *)
(***************************************************************************)
EXTENDS Naturals

CONSTANTS
  Procs,      \* the API processes
  ByHand,     \* how many files were applied by hand: possible beginnings
  MaxCrashes  \* bound: crashes

LastFile == 5
Files  == 1..LastFile   \* 001_init ... 005_ws_session_activity
Legacy == 1..4          \* legacyBaseline

(* The baseline takes it that a database with users has all legacy files.  *)
ASSUME MigrationsAssumption ==
  /\ ByHand \subseteq {0} \cup 4..LastFile
  /\ MaxCrashes \in Nat

VARIABLES
  manual,    \* files applied by hand to this database
  schema,    \* what the tables look like
  recorded,  \* the rows of schema_migrations
  pc,        \* where each process stands
  at,        \* the file it is about to mark, check or apply
  crashes    \* crashes so far

vars == <<manual, schema, recorded, pc, at, crashes>>

(* users, its ws_last_activity_at, the unique index of the credentials,    *)
(* and the type of webhook_events.payload, "none" without the table.       *)
Schema == [users : BOOLEAN, activity : BOOLEAN, unique : BOOLEAN,
           webhooks : {"none", "jsonb", "text"}]
NoSchema == [users |-> FALSE, activity |-> FALSE, unique |-> FALSE,
             webhooks |-> "none"]
Target == [users |-> TRUE, activity |-> TRUE, unique |-> TRUE,
           webhooks |-> "none"]

(* The SQL of a file fails, or changes the schema.                         *)
Fails(f, sc) ==
  \/ f = 2 /\ sc.webhooks = "none"
  \/ f \in {3, 5} /\ ~sc.users

Effect(f, sc) ==
  CASE f = 1 -> [sc EXCEPT !.users = TRUE,
                           !.activity = @ \/ ~sc.users,
                           !.webhooks = IF @ = "none" THEN "jsonb" ELSE @]
    [] f = 2 -> [sc EXCEPT !.webhooks = "text"]
    [] f = 3 -> [sc EXCEPT !.unique = TRUE]
    [] f = 4 -> [sc EXCEPT !.webhooks = "none"]
    [] f = 5 -> [sc EXCEPT !.activity = TRUE]

(* The schema after the first n files, applied by hand when 001 did not    *)
(* have the column of 005 yet: 004 has dropped the tables of the webhooks. *)
HandMade(n) == [users |-> n >= 1, activity |-> n >= 5, unique |-> n >= 3,
                webhooks |-> "none"]

Steps == {"down", "checkUsers", "count", "mark", "check", "apply", "up"}

TypeOK ==
  /\ manual \in ByHand
  /\ schema \in Schema
  /\ recorded \subseteq Files
  /\ pc \in [Procs -> Steps]
  /\ at \in [Procs -> 1..(LastFile + 1)]
  /\ crashes \in 0..MaxCrashes

Init ==
  /\ manual \in ByHand
  /\ schema = HandMade(manual)
  /\ recorded = {}
  /\ pc = [p \in Procs |-> "down"]
  /\ at = [p \in Procs |-> 1]
  /\ crashes = 0

Goto(p, step, f) == pc' = [pc EXCEPT ![p] = step] /\ at' = [at EXCEPT ![p] = f]

(* CREATE TABLE IF NOT EXISTS schema_migrations.                           *)
Start(p) ==
  /\ pc[p] = "down"
  /\ Goto(p, "checkUsers", 1)
  /\ UNCHANGED <<manual, schema, recorded, crashes>>

-----------------------------------------------------------------------------
(* baselineExistingDatabase: with users and no recorded file, the files of *)
(* legacyBaseline are marked, one statement each.                          *)

CheckUsers(p) ==
  /\ pc[p] = "checkUsers"
  /\ Goto(p, IF schema.users THEN "count" ELSE "check", 1)
  /\ UNCHANGED <<manual, schema, recorded, crashes>>

CountAnyway(p) ==  \* mutant: recorded files do not stop the baseline
  /\ pc[p] = "count"
  /\ Goto(p, "mark", 1)
  /\ UNCHANGED <<manual, schema, recorded, crashes>>

CountRecorded(p) ==
  /\ pc[p] = "count"
  /\ Goto(p, IF recorded = {} THEN "mark" ELSE "check", 1)
  /\ UNCHANGED <<manual, schema, recorded, crashes>>

(* INSERT ... ON CONFLICT DO NOTHING.                                      *)
Mark(p) ==
  /\ pc[p] = "mark"
  /\ recorded' = recorded \cup {at[p]}
  /\ IF at[p] + 1 \in Legacy THEN Goto(p, "mark", at[p] + 1)
                             ELSE Goto(p, "check", 1)
  /\ UNCHANGED <<manual, schema, crashes>>

-----------------------------------------------------------------------------
(* The loop over the files, in alphabetical order.                         *)

CheckNothing(p) ==  \* mutant: the row of the file is not looked for
  /\ pc[p] = "check"
  /\ IF at[p] \in Files THEN Goto(p, "apply", at[p]) ELSE Goto(p, "up", at[p])
  /\ UNCHANGED <<manual, schema, recorded, crashes>>

CheckPastTheEnd(p) ==  \* mutant: off by one at the last file
  /\ pc[p] = "check"
  /\ CASE at[p] > LastFile + 1 -> Goto(p, "up", at[p])
       [] at[p] \in recorded \/ at[p] \notin Files -> Goto(p, "check", at[p] + 1)
       [] OTHER -> Goto(p, "apply", at[p])
  /\ UNCHANGED <<manual, schema, recorded, crashes>>

CheckRecorded(p) ==
  /\ pc[p] = "check"
  /\ CASE at[p] \notin Files -> Goto(p, "up", at[p])
       [] at[p] \in recorded -> Goto(p, "check", at[p] + 1)
       [] OTHER              -> Goto(p, "apply", at[p])
  /\ UNCHANGED <<manual, schema, recorded, crashes>>

(* The transaction: an error of the SQL, or a row another process has      *)
(* inserted, rolls it back and log.Fatalf ends the process.                *)
Refused(f) == Fails(f, schema) \/ f \in recorded

ApplyNonetheless(p) ==  \* mutant: an error is logged and the next file tried
  /\ pc[p] = "apply"
  /\ IF Refused(at[p])
     THEN UNCHANGED <<schema, recorded>>
     ELSE /\ schema' = Effect(at[p], schema)
          /\ recorded' = recorded \cup {at[p]}
  /\ Goto(p, "check", at[p] + 1)
  /\ UNCHANGED <<manual, crashes>>

ApplyFile(p) ==
  /\ pc[p] = "apply"
  /\ IF Refused(at[p])
     THEN Goto(p, "down", 1) /\ UNCHANGED <<schema, recorded>>
     ELSE /\ schema' = Effect(at[p], schema)
          /\ recorded' = recorded \cup {at[p]}
          /\ Goto(p, "check", at[p] + 1)
  /\ UNCHANGED <<manual, crashes>>

(* A process that is starting dies, or the database does not answer.       *)
Crash(p) ==
  /\ pc[p] \notin {"down", "up"}
  /\ crashes < MaxCrashes
  /\ crashes' = crashes + 1
  /\ Goto(p, "down", 1)
  /\ UNCHANGED <<manual, schema, recorded>>

Step(p) ==
  CheckUsers(p) \/ CountRecorded(p) \/ Mark(p) \/ CheckRecorded(p)
    \/ ApplyFile(p)

Next == \E p \in Procs : Start(p) \/ Step(p) \/ Crash(p)

(* A process that runs goes on; nobody has to start it again.              *)
Spec == Init /\ [][Next]_vars /\ \A p \in Procs : WF_vars(Step(p))

-----------------------------------------------------------------------------
(* Properties.                                                             *)

(* A process serves requests only on the complete schema: the unique index *)
(* the upsert of credentials needs, the column of the sessions, and no     *)
(* webhook tables, whoever else starts or crashes meanwhile.               *)
UpIsComplete == (\E p \in Procs : pc[p] = "up") => schema = Target

(* Files are recorded in order and without gaps, and what is recorded is   *)
(* in the schema: a crash loses no file and leaves none half applied.      *)
RecordedInOrder ==
  /\ \E n \in 0..LastFile : recorded = 1..n
  /\ 3 \in recorded => schema.unique
  /\ 4 \in recorded => schema.webhooks = "none"
  /\ 5 \in recorded => schema.activity

(* 001 is recorded, 002 is not and its table is gone.  A baseline passes   *)
(* through it between two of its marks; where it lasts, because the        *)
(* baseline was cut short there, 002 fails at every start.                 *)
Stuck == 1 \in recorded /\ 2 \notin recorded /\ schema.webhooks = "none"

(* A process that is started again whenever it has ended gets to serve in  *)
(* the end, although it crashes and races for the same file with others,   *)
(* unless a baseline was cut short and the database is stuck for good.     *)
EventuallyUp ==
  \A p \in Procs :
    []<>(pc[p] # "down") /\ ~<>[]Stuck => <>(pc[p] = "up")

(* README.md: on existing databases "so as novas (ex.: 005) rodam".  A     *)
(* crash in the baseline, or a second process that counts one row, makes   *)
(* an old file run again.                                                  *)
LegacyNotReplayed ==
  \A p \in Procs : pc[p] = "apply" /\ manual >= 4 => at[p] \notin Legacy
=============================================================================
