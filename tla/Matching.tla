------------------------------ MODULE Matching ------------------------------
(***************************************************************************)
(* backend/app/services/matching.py, trusted_pairs.py and process_new_match*)
(* of notifications.py: the search for a partner, the race-safe creation   *)
(* of the match row, and the choice between the admin-mediated flow and    *)
(* the automatic connection of a trusted pair.                             *)
(***************************************************************************)
EXTENDS Notifications

\* score_match returns a result: same origin and destination.
Fits(l, t) == Score[<<l, t>>] > 0

\* find_candidate_trucks(...)[0]: a truck with the highest score; the order of
\* the rows breaks ties.
BestTrucks(l, ts) ==
  {t \in ts : Fits(l, t) /\ \A u \in ts : Score[<<l, u>>] <= Score[<<l, t>>]}

\* The loop of create_truck over the waiting loads.
BestLoads(t, ls) ==
  {l \in ls : Fits(l, t) /\ \A k \in ls : Score[<<k, t>>] <= Score[<<l, t>>]}

FreeTrucks == {t \in db.trucks : t \in Free}

WaitingLoads(s) == {l \in Loads : View(s).loads[l] = "WAITING_FOR_MATCH"}

IsTrusted_Contacted(s, m) ==
  \E n \in Matches : /\ PairOf(n) = PairOf(m)
                     /\ View(s).matches[n] = "ADMIN_CONTACTING"

\* is_trusted_pair
IsTrusted(s, m) == PairOf(m) \in View(s).trusted

-----------------------------------------------------------------------------
JobMatch(s) == <<job[s].load, job[s].truck>>

\* The request goes on without having created a match.
AfterExistingMatch(s) ==
  CASE job[s].op = "proactive"         -> Goto(s, "scan", job[s])
    [] job[s].op = "register_interest" -> Goto(s, "record_interest", job[s])
    [] OTHER                           -> Done(s)

\* create_match_safely, the SELECT: somebody already created the match.  The
\* transaction of create_load and create_truck has written nothing by then.
ProbeMatch(s) ==
  /\ pc[s] = "probe_match"
  /\ IF View(s).matches[JobMatch(s)] # Absent
       THEN AfterExistingMatch(s)
       ELSE Goto(s, "insert_match", job[s])
  /\ UNCHANGED <<db, tx, outside, crashes>>

MatchedStatus_WrongEnum(st) ==
  IF st \in {"NEW", "WAITING_FOR_MATCH"} THEN "PENDING" ELSE st
MatchedStatus_WaitingOnly(st) ==
  IF st = "WAITING_FOR_MATCH" THEN "MATCHED" ELSE st

\* The load's status as create_match_safely leaves it in memory.
MatchedStatus(st) ==
  IF st \in {"NEW", "WAITING_FOR_MATCH"} THEN "MATCHED" ELSE st

KeyTaken_NoConstraint(s) == FALSE

\* The unique constraint: the match has been committed since the SELECT.
KeyTaken(s) == db.matches[JobMatch(s)] # Absent

KeyWrites(s) == [tx[s] EXCEPT !.matches[JobMatch(s)] = "PENDING"]

\* create_match_safely, the INSERT: from here on s holds the key of the match.
InsertMatch(s) ==
  /\ pc[s] = "insert_match"
  /\ ~ KeyTaken(s)
  /\ Stage(s, KeyWrites(s))
  /\ Goto(s, "mark_matched", job[s])
  /\ UNCHANGED <<outside, crashes>>

\* The load's status, when the copy in memory says that it is still open.
MatchWrites(s) ==
  LET l == job[s].load
  IN  [tx[s] EXCEPT
         !.loads[l] = IF MatchedStatus(job[s].memo[l]) = job[s].memo[l]
                        THEN @ ELSE MatchedStatus(job[s].memo[l])]

SaveMatch_NoCommit(s)     == Stage(s, MatchWrites(s))
SaveMatch_AlwaysCommit(s) == Commit(s, MatchWrites(s))

\* create_load and create_truck commit the match before they announce it, the
\* other callers keep it in their transaction.
SaveMatch(s) ==
  IF job[s].op \in {"create_load", "create_truck"}
    THEN Commit(s, MatchWrites(s)) ELSE Stage(s, MatchWrites(s))

\* The load is MATCHED in memory at once, its row at the commit or at the next
\* query, which flushes it: s may wait for the load while it holds the match.
\* How each caller goes on.
MarkMatched(s) ==
  LET l == job[s].load
      j == [job[s] EXCEPT !.memo[l] = MatchedStatus(@)]
  IN  /\ pc[s] = "mark_matched"
      /\ SaveMatch(s)
      /\ \/ job[s].op \in {"create_load", "create_truck"} /\ Goto(s, "process_match", j)
         \/ job[s].op = "register_interest" /\ Goto(s, "record_interest", j)
         \/ /\ job[s].op = "proactive"
            /\ \E admin \in AdminChoices :
                 StartNotices(s, j,
                   MatchNotices(l, job[s].truck, admin, "PROACTIVE_MATCH"), "scan")
      /\ UNCHANGED <<outside, crashes>>

\* The IntegrityError handler rolls back the whole transaction and then reads
\* load.id of an expired object, which fails the request.
MatchConflict(s) ==
  /\ pc[s] = "insert_match"
  /\ KeyTaken(s)
  /\ Abandon(s)
  /\ UNCHANGED <<outside, crashes>>

-----------------------------------------------------------------------------
\* process_new_match for a trusted pair: the match and the load become
\* CONNECTED in the transaction that goes on to send the contact details.
AutoConnect(s) ==
  LET m == JobMatch(s)
      l == job[s].load
  IN  /\ pc[s] = "process_match"
      /\ IsTrusted(s, m)
      /\ Stage(s, [tx[s] EXCEPT !.matches[m] = "CONNECTED",
                                !.loads[l] = Assign(job[s].memo[l], "CONNECTED")])
      /\ \E admin \in AdminChoices :
           StartNotices(s, [job[s] EXCEPT !.memo[l] = "CONNECTED"],
             MatchNotices(l, job[s].truck, admin, "AUTO_CONNECTED"), "finish")
      /\ UNCHANGED <<outside, crashes>>

\* process_new_match otherwise: the admin-mediated MATCH_FOUND flow.
MediateMatch(s) ==
  /\ pc[s] = "process_match"
  /\ ~ IsTrusted(s, JobMatch(s))
  /\ \E admin \in AdminChoices :
       StartNotices(s, job[s],
         MatchNotices(job[s].load, job[s].truck, admin, "MATCH_FOUND"), "finish")
  /\ UNCHANGED <<db, tx, outside, crashes>>

MatchStep(s) ==
  \/ ProbeMatch(s) \/ InsertMatch(s) \/ MarkMatched(s) \/ MatchConflict(s)
  \/ AutoConnect(s) \/ MediateMatch(s)
=============================================================================
