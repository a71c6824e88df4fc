------------------------------ MODULE Requests ------------------------------
(***************************************************************************)
(* The endpoints the bot calls for shippers and carriers:                  *)
(* backend/app/api/loads.py, trucks.py and interests.py.                   *)
(***************************************************************************)
EXTENDS Matching

-----------------------------------------------------------------------------
(* create_load *)

\* A shipper's confirmed load: the row is committed as NEW before the search.
\* The id is fresh, so no other transaction can hold the row.
CreateLoad(s, l) ==
  /\ pc[s] = "idle"
  /\ db.loads[l] = Absent
  /\ Commit(s, [NoWrites EXCEPT !.loads[l] = "NEW"])
  /\ Goto(s, "search", [NoJob EXCEPT !.op = "create_load", !.load = l])
  /\ UNCHANGED <<outside, crashes>>

\* db.refresh(load), then find_best_match_for_load.
SearchTruck(s) ==
  LET l == job[s].load
      j == Remember(s, l)
      best == BestTrucks(l, FreeTrucks)
  IN  /\ pc[s] = "search" /\ job[s].op = "create_load"
      /\ \/ \E t \in best : Goto(s, "probe_match", [j EXCEPT !.truck = t])
         \/ best = {} /\ Goto(s, "no_match", j)
      /\ UNCHANGED <<db, tx, outside, crashes>>

\* No truck: the load waits, and the shipper gets the "still searching"
\* acknowledgement, a BROADCAST row of the shipper's own.
SetWaiting(s) ==
  LET l == job[s].load
  IN  /\ pc[s] = "no_match"
      /\ Commit(s, [NoWrites EXCEPT
                      !.loads[l] = Assign(job[s].memo[l], "WAITING_FOR_MATCH")])
      /\ StartNotices(s, [job[s] EXCEPT !.memo[l] = "WAITING_FOR_MATCH"],
           NoticesFor(<<ShipperOf[l]>>, l, "BROADCAST"), "audience")
      /\ UNCHANGED <<outside, crashes>>

\* _eligible_carriers_for_broadcast, after the acknowledgement is committed.
EligibleCarriers(l) ==
  {CarrierOf[t] : t \in {u \in FreeTrucks : <<l, u>> \in TypeFits}}

SelectAudience(s) ==
  /\ pc[s] = "audience"
  /\ Commit(s, tx[s])
  /\ Goto(s, "broadcast",
          [job[s] EXCEPT !.audience = EligibleCarriers(job[s].load)])
  /\ UNCHANGED <<outside, crashes>>

\* The loop over the carriers, in whatever order the SELECT returned them; one
\* commit after the last.
BroadcastNext(s) ==
  /\ pc[s] = "broadcast"
  /\ \/ \E u \in job[s].audience :
          StartNotices(s, [job[s] EXCEPT !.audience = @ \ {u}],
            NoticesFor(<<u>>, job[s].load, "BROADCAST"), "broadcast")
     \/ job[s].audience = {} /\ Goto(s, "finish", job[s])
  /\ UNCHANGED <<db, tx, outside, crashes>>

-----------------------------------------------------------------------------
(* create_truck *)

\* Only a truck that is AVAILABLE and available looks for a load at once.
CreateTruck(s, t) ==
  /\ pc[s] = "idle"
  /\ t \notin db.trucks
  /\ Commit(s, [NoWrites EXCEPT !.trucks = {t}])
  /\ IF t \in Free
       THEN Goto(s, "search", [NoJob EXCEPT !.op = "create_truck", !.truck = t])
       ELSE Done(s)
  /\ UNCHANGED <<outside, crashes>>

SearchLoad(s) ==
  LET best == BestLoads(job[s].truck, WaitingLoads(s))
  IN  /\ pc[s] = "search" /\ job[s].op = "create_truck"
      /\ \/ \E l \in best :
              Goto(s, "probe_match", [Remember(s, l) EXCEPT !.load = l])
         \/ best = {} /\ Done(s)
      /\ UNCHANGED <<db, tx, outside, crashes>>

-----------------------------------------------------------------------------
(* register_interest *)

\* The carrier u has a message with the "interested" button of load l: the
\* broadcast (the shipper's acknowledgement has no button) or a reminder.
HasButton(u, l) ==
  \/ pushes[<<u, l, "BROADCAST">>] > 0 /\ u # ShipperOf[l]
  \/ reminders[<<u, l, "BROADCAST">>] > 0

Closed == {"CANCELLED", "COMPLETED", "CONFIRMED"}

SaveInterest_Commit(s, m) == Commit(s, [NoWrites EXCEPT !.interests = {m}])

\* The interest waits in its transaction for the match it belongs to.
SaveInterest(s, m) == Stage(s, [NoWrites EXCEPT !.interests = {m}])

\* The checks and the INSERT of the interest.  A second press conflicts with
\* the first one's row and is answered "already registered".
PressInterest(s, l, t) ==
  LET m == <<l, t>>
      j == [NoJob EXCEPT !.op = "register_interest", !.load = l, !.truck = t,
                         !.memo[l] = db.loads[l]]
  IN  /\ pc[s] = "idle"
      /\ HasButton(CarrierOf[t], l)
      /\ t \in db.trucks
      /\ db.loads[l] \notin Closed \cup {Absent}
      /\ m \notin db.interests
      /\ SaveInterest(s, m)
      /\ Goto(s, "probe_match", j)
      /\ UNCHANGED <<outside, crashes>>

\* The carrier's broadcast row, if it is visible, is marked INTERESTED, and
\* everything is committed; then shipper and admin are told.
RecordInterest(s) ==
  LET l == job[s].load
      k == <<CarrierOf[job[s].truck], l, "BROADCAST">>
      w == [tx[s] EXCEPT
              !.notices[k] = IF db.notices[k] = Absent THEN NoWrite
                             ELSE Assign(db.notices[k], "INTERESTED")]
  IN  /\ pc[s] = "record_interest"
      /\ Commit(s, w)
      /\ \E admin \in AdminChoices :
           StartNotices(s, job[s], InterestNotices(l, admin), "finish")
      /\ UNCHANGED <<outside, crashes>>

-----------------------------------------------------------------------------
RequestStep(s) ==
  \/ SearchTruck(s) \/ SetWaiting(s) \/ SelectAudience(s) \/ BroadcastNext(s)
  \/ SearchLoad(s) \/ RecordInterest(s)
=============================================================================
