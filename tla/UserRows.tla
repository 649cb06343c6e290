------------------------------ MODULE UserRows ------------------------------
(***************************************************************************)
(* What the database promises of the users, as the parts that read it may  *)
(* rely on.  A userId is new when a row of users is inserted; it becomes   *)
(* configured when its credentials are stored, and a deletion takes both   *)
(* away for ever: the same username comes back under another userId.       *)
(***************************************************************************)
CONSTANT Uids    \* the userIds uuid.New may return

VARIABLE phase   \* where each userId is in its life

Phases == {"unused", "user", "configured", "deleted"}

RowsInit == phase = [u \in Uids |-> "unused"]

Enter(u, from, to) == phase[u] = from /\ phase' = [phase EXCEPT ![u] = to]

(* UpsertByUsername for a username without a row.                          *)
Insert(u) == Enter(u, "unused", "user")

(* Upsert of the first credentials of the userId.                          *)
Configure(u) == Enter(u, "user", "configured")

(* DELETE FROM users, whose cascade takes the credentials; only a token    *)
(* issued for a configured user reaches it.                                *)
Delete(u) == Enter(u, "configured", "deleted")

RowsNext == \E u \in Uids : Insert(u) \/ Configure(u) \/ Delete(u)

RowsSpec == RowsInit /\ [][RowsNext]_phase
=============================================================================
