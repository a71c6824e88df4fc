------------------------------ MODULE Sessions ------------------------------
(***************************************************************************)
(* Database sessions: PostgreSQL at READ COMMITTED as the backend uses it  *)
(* through SQLAlchemy (core/database.py: NullPool, expire_on_commit=False).*)
(*                                                                         *)
(* Every HTTP request and every worker pass runs in a session of its own.  *)
(* A session reads committed rows and its own pending writes.  A write of  *)
(* a row that another session has pending waits (the step is disabled); an *)
(* insert whose key has been committed meanwhile is an IntegrityError.     *)
(* Objects already loaded keep the values they were read with, across      *)
(* commits too: `memo` (loads) and `match` in a session's job.             *)
(***************************************************************************)
EXTENDS Schema

CONSTANTS
  SessionIds,   \* the requests and passes that can be in flight together
  MaxPushes,    \* bound: pushes and reminders are counted up to this number
  MaxCrashes    \* bound: how many sessions may die half-way in a behaviour

ASSUME BoundAssumption == MaxPushes \in Nat \ {0} /\ MaxCrashes \in Nat

VARIABLES
  db,          \* the committed tables
  tx,          \* tx[s]: the pending writes of session s
  pc,          \* pc[s]: what session s does next; "idle" when it is free
  job,         \* job[s]: the local variables of the request s is serving
  pushes,      \* pushes[k]: sends of notice k to Telegram, saturating
  reminders,   \* reminders[k]: delivered reminders that reuse row k, saturating
  revealed,    \* pairs whose phone numbers a message has carried
  crashes      \* sessions that died half-way

sessionVars == <<db, tx, pc, job>>
outside     == <<pushes, reminders, revealed>>
vars        == <<db, tx, pc, job, pushes, reminders, revealed, crashes>>

-----------------------------------------------------------------------------
None == "none"

Operations == {None, "create_load", "create_truck", "register_interest",
               "contact", "connect", "reject", "cancel_load",
               "resend_notification", "proactive", "reminders"}

Phases == {"idle", "search", "no_match", "audience", "broadcast",
           "probe_match", "insert_match", "mark_matched", "process_match",
           "record_interest", "notify", "send", "finish", "fetch_load", "act",
           "scan", "remind"}

Jobs == [op       : Operations,
         load     : Loads \cup {None},
         truck    : Trucks \cup {None},
         memo     : [Loads -> LoadStatus \cup {Absent, NoWrite}],
         match    : MatchStatus \cup {Absent},
         todo     : Seq(Notices),        \* notices still to create, in order
         after    : Phases,              \* where to go when todo is empty
         audience : SUBSET Users,        \* carriers still to broadcast to
         scan     : SUBSET Trucks,       \* trucks still to scan
         cand     : SUBSET Loads,        \* loads still to try for job.truck
         due      : SUBSET Notices]      \* broadcasts still to remind of

NoJob == [op |-> None, load |-> None, truck |-> None,
          memo |-> [l \in Loads |-> NoWrite], match |-> Absent,
          todo |-> <<>>, after |-> "idle",
          audience |-> {}, scan |-> {}, cand |-> {}, due |-> {}]

SessionsInit ==
  /\ db = EmptyTables
  /\ tx = [s \in SessionIds |-> NoWrites]
  /\ pc = [s \in SessionIds |-> "idle"]
  /\ job = [s \in SessionIds |-> NoJob]
  /\ pushes = [k \in Notices |-> 0]
  /\ reminders = [k \in Notices |-> 0]
  /\ revealed = {}
  /\ crashes = 0

-----------------------------------------------------------------------------
\* What a SELECT in session s sees.
View(s) == Overlay(db, tx[s])

\* No other session holds a row that w writes: PostgreSQL would not make s wait.
CanWrite(s, w) == \A o \in SessionIds \ {s} : ~ Overlaps(tx[o], w)

\* Flush: w are the writes of s from now on, still invisible to the others.
Stage(s, w) == CanWrite(s, w) /\ tx' = [tx EXCEPT ![s] = w] /\ UNCHANGED db

\* Flush and COMMIT.
Commit(s, w) ==
  /\ CanWrite(s, w)
  /\ db' = Overlay(db, w)
  /\ tx' = [tx EXCEPT ![s] = NoWrites]

\* Session s goes on with its job in phase p, or ends its request.
Goto(s, p, j) == pc' = [pc EXCEPT ![s] = p] /\ job' = [job EXCEPT ![s] = j]
Done(s)       == Goto(s, "idle", NoJob)

\* db.rollback() followed by the request's failure: the rollback discards every
\* write of the transaction and expires the session's objects, so the next
\* attribute the handler touches raises and the request answers 500.
Abandon(s) == tx' = [tx EXCEPT ![s] = NoWrites] /\ UNCHANGED db /\ Done(s)

\* The value session s has in memory for load l once it has selected the row.
Remember(s, l) ==
  LET j == job[s]
  IN  IF j.memo[l] = NoWrite
        THEN [j EXCEPT !.memo[l] = View(s).loads[l]] ELSE j

\* A session dies (process killed, connection lost): nothing more is written,
\* what Telegram already delivered stays delivered.
Crash(s) ==
  /\ pc[s] # "idle" /\ crashes < MaxCrashes
  /\ Abandon(s)
  /\ crashes' = crashes + 1
  /\ UNCHANGED outside

\* One more push, counted up to MaxPushes.
Counted(n) == IF n < MaxPushes THEN n + 1 ELSE n
=============================================================================
