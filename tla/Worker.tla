------------------------------- MODULE Worker -------------------------------
(***************************************************************************)
(* The periodic passes of backend/app/workers/scheduler.py and             *)
(* services/proactive.py, run by the worker loop or by POST                *)
(* /internal/cron/tick.  Each pass is one transaction with one commit at   *)
(* its end, under an advisory lock per job: a pass that does not get the   *)
(* lock skips.  Which trucks are near their ETA and which broadcasts are   *)
(* old enough depends on the clock: any set may be, at any time.           *)
(***************************************************************************)
EXTENDS Matching

LockFree_Always(pass) == TRUE

\* pg_try_advisory_lock of the pass succeeds.
LockFree(pass) == \A o \in SessionIds : job[o].op # pass

-----------------------------------------------------------------------------
(* run_proactive_pass *)

StartProactive(s, near) ==
  /\ pc[s] = "idle"
  /\ LockFree("proactive")
  /\ near # {} /\ near \subseteq db.trucks \cap OnTrip
  /\ Goto(s, "scan", [NoJob EXCEPT !.op = "proactive", !.scan = near])
  /\ UNCHANGED <<db, tx, outside, crashes>>

\* The next truck: the waiting loads that start where its trip ends.
ScanTruck(s) ==
  /\ pc[s] = "scan" /\ job[s].cand = {}
  /\ \/ \E t \in job[s].scan :
          Goto(s, "scan",
            [job[s] EXCEPT !.truck = t, !.scan = @ \ {t},
                           !.cand = {l \in WaitingLoads(s) : <<l, t>> \in Backhaul},
                           !.memo = [l \in Loads |->
                              IF l \in WaitingLoads(s) /\ @[l] = NoWrite
                                THEN "WAITING_FOR_MATCH" ELSE @[l]]])
     \/ job[s].scan = {} /\ Goto(s, "finish", job[s])
  /\ UNCHANGED <<db, tx, outside, crashes>>

\* The next of these loads.
ScanLoad(s) ==
  /\ pc[s] = "scan"
  /\ \E l \in job[s].cand :
       Goto(s, "probe_match", [job[s] EXCEPT !.load = l, !.cand = @ \ {l}])
  /\ UNCHANGED <<db, tx, outside, crashes>>

-----------------------------------------------------------------------------
(* run_reminder_pass *)

\* Broadcast rows that are SENT and not reminded of yet.
Remindable ==
  {k \in Notices : /\ k[3] = "BROADCAST"
                   /\ db.notices[k] = "SENT"
                   /\ k \notin db.reminded}

StartReminders(s, old) ==
  /\ pc[s] = "idle"
  /\ LockFree("reminders")
  /\ old # {} /\ old \subseteq Remindable
  /\ Goto(s, "remind", [NoJob EXCEPT !.op = "reminders", !.due = old])
  /\ UNCHANGED <<db, tx, outside, crashes>>

\* The next row: its load is read now, unless it is the load of the row before,
\* which is still in memory; the row itself is not read again.  send_reminder
\* pushes when the load waits, and sets the flag if the push went through.
RemindNext(s) ==
  /\ pc[s] = "remind"
  /\ \E k \in job[s].due :
       LET j == [job[s] EXCEPT
                   !.due = @ \ {k},
                   !.memo = [NoJob.memo EXCEPT ![k[2]] = Remember(s, k[2]).memo[k[2]]]]
       IN  /\ Goto(s, IF j.due = {} THEN "finish" ELSE "remind", j)
           /\ IF j.memo[k[2]] = "WAITING_FOR_MATCH"
                THEN \/ /\ "SENT" \in SendOutcomes
                        /\ reminders' = [reminders EXCEPT ![k] = Counted(@)]
                        /\ Stage(s, [tx[s] EXCEPT !.reminded = @ \cup {k}])
                     \/ /\ "FAILED" \in SendOutcomes
                        /\ UNCHANGED <<db, tx, reminders>>
                ELSE UNCHANGED <<db, tx, reminders>>
  /\ UNCHANGED <<pushes, revealed, crashes>>

WorkerStep(s) == ScanTruck(s) \/ ScanLoad(s) \/ RemindNext(s)
=============================================================================
