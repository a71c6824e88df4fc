---------------------------- MODULE Notifications ---------------------------
(***************************************************************************)
(* backend/app/services/notifications.py: the rows of the notifications    *)
(* table and the Telegram messages they stand for.                         *)
(*                                                                         *)
(* A notify_* function is a sequence of notices kept in job.todo.  Each    *)
(* notice is two steps, as in _create_notification_row: a SELECT that      *)
(* skips it when the row exists, then the INSERT, which is followed by the *)
(* push to Telegram inside the same, still uncommitted, transaction.       *)
(***************************************************************************)
EXTENDS Sessions

CONSTANT SendOutcomes   \* what send_message may return: "SENT" and/or "FAILED"

ASSUME SendAssumption == SendOutcomes \subseteq {"SENT", "FAILED"}

\* admin_id: one arbitrary ADMIN (LIMIT 1 without ORDER BY), or nobody.
AdminChoices == IF Admins = {} THEN {<<>>} ELSE {<<a>> : a \in Admins}

\* The notice of type `kind` about load l for each user of the sequence us.
NoticesFor(us, l, kind) == [i \in 1..Len(us) |-> <<us[i], l, kind>>]

\* notify_match_found, notify_proactive_match and notify_auto_connected:
\* shipper, then carrier, then admin.
MatchNotices(l, t, admin, kind) ==
  NoticesFor(<<ShipperOf[l], CarrierOf[t]>> \o admin, l, kind)

\* notify_interest: shipper, then admin.
InterestNotices(l, admin) ==
  NoticesFor(<<ShipperOf[l]>> \o admin, l, "INTEREST_RECEIVED")

\* Session s starts on a list of notices, and continues at `after`.
StartNotices(s, j, todo, after) ==
  Goto(s, "notify", [j EXCEPT !.todo = todo, !.after = after])

\* The head of the list is dealt with.
NextNotice(s) ==
  LET rest == Tail(job[s].todo)
  IN  Goto(s, IF rest = <<>> THEN job[s].after ELSE "notify",
              [job[s] EXCEPT !.todo = rest])

-----------------------------------------------------------------------------
ProbeNotice(s) ==
  /\ pc[s] = "notify"
  /\ IF View(s).notices[Head(job[s].todo)] # Absent
       THEN NextNotice(s)
       ELSE Goto(s, "send", job[s])
  /\ UNCHANGED <<db, tx, outside, crashes>>

NoticeTaken_NoConstraint(s) == FALSE

\* The unique constraint: the notice has been committed since the SELECT.
NoticeTaken(s) == db.notices[Head(job[s].todo)] # Absent

\* INSERT, push, and the status the push returned.  An AUTO_CONNECTED message
\* to either party carries the other one's name and phone.
SendNotice(s) ==
  LET k == Head(job[s].todo)
      parties == PairOf(<<job[s].load, job[s].truck>>)
  IN  /\ pc[s] = "send"
      /\ ~ NoticeTaken(s)
      /\ \E outcome \in SendOutcomes :
           Stage(s, [tx[s] EXCEPT !.notices[k] = outcome])
      /\ pushes' = [pushes EXCEPT ![k] = Counted(@)]
      /\ revealed' = IF k[3] = "AUTO_CONNECTED" /\ k[1] \in {parties[1], parties[2]}
                       THEN revealed \cup {parties} ELSE revealed
      /\ NextNotice(s)
      /\ UNCHANGED <<reminders, crashes>>

\* The handler of the IntegrityError rolls back the whole transaction, not just
\* the savepoint.
NoticeConflict(s) ==
  /\ pc[s] = "send"
  /\ NoticeTaken(s)
  /\ Abandon(s)
  /\ UNCHANGED <<outside, crashes>>

\* The commit every caller makes after its notify_* call.
Finish(s) ==
  /\ pc[s] = "finish"
  /\ Commit(s, tx[s])
  /\ Done(s)
  /\ UNCHANGED <<outside, crashes>>

NotifyStep(s) ==
  ProbeNotice(s) \/ SendNotice(s) \/ NoticeConflict(s) \/ Finish(s)
=============================================================================
