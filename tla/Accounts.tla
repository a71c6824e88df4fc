------------------------------ MODULE Accounts ------------------------------
(***************************************************************************)
(* Users and roles: backend/app/api/users.py, services/db_utils.py and     *)
(* scripts/promote_admin.py.  Only the role of a users row is kept: no     *)
(* decision reads the name, the phone or last_seen_at.                     *)
(***************************************************************************)
EXTENDS Calls

CONSTANT Bootstrap   \* who has TELEGRAM_ADMIN_CHAT_ID: one person or nobody

ASSUME BootstrapAssumption == Bootstrap \subseteq People

VARIABLE users    \* users[p]: the role in p's row, or NoRow

-----------------------------------------------------------------------------
\* upsert_user.  get_or_create selects first; the insert is a step of its own.
UpsertProbe(h) ==
  LET role == users[call[h].who]
  IN  /\ At(h, "upsert")
      /\ IF role = NoRow THEN GoOn(h, call[h], "insert") ELSE Answer(h, role)
      /\ UNCHANGED users

RowTaken_NoConstraint(p) == FALSE

\* telegram_id is unique: somebody has inserted the row since the SELECT.
RowTaken(p) == users[p] # NoRow

NewRole_IntId(p) == "UNSET"

\* The role of a new row: is_bootstrap_admin compares chat ids.
NewRole(p) == IF p \in Bootstrap THEN "ADMIN" ELSE "UNSET"

\* The INSERT in its savepoint and the commit.
UpsertInsert(h) ==
  LET p == call[h].who
  IN  /\ At(h, "insert")
      /\ ~ RowTaken(p)
      /\ users' = [users EXCEPT ![p] = NewRole(p)]
      /\ Answer(h, NewRole(p))

\* The IntegrityError rolls back the savepoint only; the winner's row is read.
UpsertConflict(h) ==
  LET p == call[h].who
  IN  /\ At(h, "insert")
      /\ RowTaken(p)
      /\ Answer(h, users[p])
      /\ UNCHANGED users

MayChoose_Anybody(role) == role # NoRow

\* set_role finds the row, and it is not an admin's.
MayChoose(role) == role \notin {NoRow, "ADMIN"}

SetRoleRead(h) ==
  LET role == users[call[h].who]
  IN  /\ At(h, "set_role")
      /\ IF MayChoose(role)
           THEN GoOn(h, [call[h] EXCEPT !.seen = role], "write")
           ELSE Answer(h, "error")
      /\ UNCHANGED users

\* The UPDATE writes the column if the role differs from the one that was read,
\* whatever it has become since.
SetRoleWrite(h) ==
  LET c == call[h]
  IN  /\ At(h, "write")
      /\ users' = [users EXCEPT ![c.who] = IF c.role = c.seen THEN @ ELSE c.role]
      /\ Answer(h, "ok")

GetUser(h) ==
  /\ At(h, "get_user")
  /\ Answer(h, users[call[h].who])
  /\ UNCHANGED users

AccountStep(h) ==
  \/ UpsertProbe(h) \/ UpsertInsert(h) \/ UpsertConflict(h)
  \/ SetRoleRead(h) \/ SetRoleWrite(h) \/ GetUser(h)

\* The operator's script.  Its read decides only whether there is a row, its
\* write does not depend on the role read.
Promote(p) ==
  /\ users[p] \notin {NoRow, "ADMIN"}
  /\ users' = [users EXCEPT ![p] = "ADMIN"]
  /\ UNCHANGED call
=============================================================================
