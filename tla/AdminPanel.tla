----------------------------- MODULE AdminPanel -----------------------------
(***************************************************************************)
(* take_action of backend/app/api/admin.py: what the admin's buttons do to *)
(* a match and its load.                                                   *)
(*                                                                         *)
(* An action first loads the rows (db.get) and later writes what it        *)
(* decided from these copies; other requests commit in between.            *)
(***************************************************************************)
EXTENDS Matching

MatchActions == {"contact", "connect", "reject", "resend_notification"}

\* The row loaded first for a button of match m.
AdminFetch(s, act, m) ==
  /\ pc[s] = "idle" /\ act \in MatchActions
  /\ Admins # {}
  /\ db.matches[m] # Absent
  /\ Goto(s, "fetch_load", [NoJob EXCEPT !.op = act, !.load = m[1], !.truck = m[2],
                                         !.match = db.matches[m]])
  /\ UNCHANGED <<db, tx, outside, crashes>>

\* Then the row of its load.
AdminFetchNext(s) ==
  /\ pc[s] = "fetch_load"
  /\ Goto(s, "act", Remember(s, job[s].load))
  /\ UNCHANGED <<db, tx, outside, crashes>>

\* cancel_load names a load, not a match.
AdminFetchLoad(s, l) ==
  /\ pc[s] = "idle"
  /\ Admins # {}
  /\ db.loads[l] # Absent
  /\ Goto(s, "act", [NoJob EXCEPT !.op = "cancel_load", !.load = l,
                                  !.memo[l] = db.loads[l]])
  /\ UNCHANGED <<db, tx, outside, crashes>>

-----------------------------------------------------------------------------
Acting(s, act) == pc[s] = "act" /\ job[s].op = act

\* The match becomes ms and the load ls, as far as the copies in memory differ.
StatusWrites(s, ms, ls) ==
  LET m == JobMatch(s)
      l == job[s].load
  IN  [NoWrites EXCEPT !.matches[m] = Assign(job[s].match, ms),
                       !.loads[l] = Assign(job[s].memo[l], ls)]

\* contact: the admin is shown both parties' phone numbers.
AdminContact(s) ==
  /\ Acting(s, "contact")
  /\ Commit(s, StatusWrites(s, "ADMIN_CONTACTING", "ADMIN_CONTACTING"))
  /\ Done(s)
  /\ UNCHANGED <<outside, crashes>>

ConnectWrites_NoPair(s) == StatusWrites(s, "CONNECTED", "CONNECTED")
ConnectWrites_PairOnly(s) ==
  [NoWrites EXCEPT !.trusted = {PairOf(JobMatch(s))}]

\* connect: match, load and trusted pair in one transaction.
ConnectWrites(s) ==
  [StatusWrites(s, "CONNECTED", "CONNECTED") EXCEPT !.trusted = {PairOf(JobMatch(s))}]

AdminConnect(s) ==
  /\ Acting(s, "connect")
  /\ PairOf(JobMatch(s)) \notin db.trusted
  /\ Commit(s, ConnectWrites(s))
  /\ Done(s)
  /\ UNCHANGED <<outside, crashes>>

\* mark_trusted of a pair that is trusted already: the IntegrityError handler
\* rolls back the transaction, the new statuses with it, and the request fails
\* on the expired admin object.
ConnectConflict(s) ==
  /\ Acting(s, "connect")
  /\ PairOf(JobMatch(s)) \in db.trusted
  /\ CanWrite(s, StatusWrites(s, "CONNECTED", "CONNECTED"))
  /\ Abandon(s)
  /\ UNCHANGED <<outside, crashes>>

\* The load goes back to WAITING_FOR_MATCH unless it looked settled.
AdminReject(s) ==
  LET st == job[s].memo[job[s].load]
  IN  /\ Acting(s, "reject")
      /\ Commit(s, StatusWrites(s, "REJECTED",
                     IF st \in {"CONNECTED", "CONFIRMED", "COMPLETED"}
                       THEN st ELSE "WAITING_FOR_MATCH"))
      /\ Done(s)
      /\ UNCHANGED <<outside, crashes>>

AdminCancelLoad(s) ==
  LET l == job[s].load
  IN  /\ Acting(s, "cancel_load")
      /\ Commit(s, [NoWrites EXCEPT !.loads[l] = Assign(job[s].memo[l], "CANCELLED")])
      /\ Done(s)
      /\ UNCHANGED <<outside, crashes>>

\* resend_notification: notify_match_found once more, to the acting admin.
AdminResend(s) ==
  /\ Acting(s, "resend_notification")
  /\ \E a \in Admins :
       StartNotices(s, job[s],
         MatchNotices(job[s].load, job[s].truck, <<a>>, "MATCH_FOUND"), "finish")
  /\ UNCHANGED <<db, tx, outside, crashes>>

AdminStep(s) ==
  \/ AdminFetchNext(s) \/ AdminContact(s) \/ AdminConnect(s) \/ ConnectConflict(s)
  \/ AdminReject(s) \/ AdminCancelLoad(s) \/ AdminResend(s)
=============================================================================
