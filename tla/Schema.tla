------------------------------- MODULE Schema -------------------------------
(***************************************************************************)
(* The tables of backend/app/models/models.py, the rows a transaction can  *)
(* write, and how a committed transaction changes the tables.              *)
(*                                                                         *)
(* A primary key is a member of a constant set; a unique constraint is the *)
(* domain of a function: there is one match per (load, truck), one         *)
(* notification per (user, load, type), one trusted pair per (shipper,     *)
(* carrier).  City names, truck types and ETAs never change once a row     *)
(* exists, so what the code derives from them (route score, type fit,      *)
(* backhaul fit) is a constant relation between loads and trucks.          *)
(***************************************************************************)
EXTENDS Naturals, Sequences, FiniteSets

CONSTANTS
  Loads,       \* load ids, each created at most once
  Trucks,      \* truck ids, each registered at most once
  Users,       \* everybody with a users row
  Admins,      \* the users with role ADMIN
  ShipperOf,   \* the owner of each load
  CarrierOf,   \* the owner of each truck
  Score,       \* score_match of a load and a truck; 0 when the route differs
  TypeFits,    \* (load, truck) with compatible or unspecified truck types
  Backhaul,    \* (load, truck) where the truck's trip ends at the load's origin
  Free,        \* trucks registered AVAILABLE with available = True
  OnTrip       \* trucks registered with a current trip (ON_TRIP)

ASSUME SchemaAssumption ==
  /\ Admins \subseteq Users
  /\ ShipperOf \in [Loads -> Users]
  /\ CarrierOf \in [Trucks -> Users]
  /\ Score \in [Loads \X Trucks -> 0..100]
  /\ TypeFits \subseteq Loads \X Trucks
  /\ Backhaul \subseteq Loads \X Trucks
  /\ Free \subseteq Trucks
  /\ OnTrip \subseteq Trucks
  /\ Free \cap OnTrip = {}

-----------------------------------------------------------------------------
(* Column values.  Absent: the row does not exist.  NoWrite: a transaction  *)
(* leaves the row alone, and, for the copy of a row in a session's memory,  *)
(* that the session has not read it.                                        *)

Absent  == "absent"
NoWrite == "no write"

LoadStatus == {"NEW", "WAITING_FOR_MATCH", "MATCHED", "ADMIN_CONTACTING",
               "CONNECTED", "CONFIRMED", "CANCELLED", "COMPLETED"}

MatchStatus == {"PENDING", "INTERESTED", "ADMIN_CONTACTING", "CONNECTED",
                "CONFIRMED", "REJECTED", "CANCELLED"}

NotificationType == {"MATCH_FOUND", "BROADCAST", "PROACTIVE_MATCH",
                     "INTEREST_RECEIVED", "AUTO_CONNECTED"}

NotificationStatus == {"SENT", "INTERESTED", "FAILED"}

Matches == Loads \X Trucks                       \* uq_matches_load_truck
Notices == Users \X Loads \X NotificationType    \* uq_notif_user_load_type
Pairs   == Users \X Users                        \* uq_trusted_pair

\* The shipper and the carrier that a match brings together.
PairOf(m) == <<ShipperOf[m[1]], CarrierOf[m[2]]>>

-----------------------------------------------------------------------------
(* The tables.  `trucks`, `interests` and `trusted` are sets of keys (their *)
(* rows are only ever inserted); `reminded` is the reminder_sent column of  *)
(* the notifications table, kept apart because an UPDATE writes only the    *)
(* columns that changed.                                                    *)

Tables == [loads     : [Loads -> LoadStatus \cup {Absent}],
           trucks    : SUBSET Trucks,
           matches   : [Matches -> MatchStatus \cup {Absent}],
           interests : SUBSET Matches,
           trusted   : SUBSET Pairs,
           notices   : [Notices -> NotificationStatus \cup {Absent}],
           reminded  : SUBSET Notices]

EmptyTables == [loads     |-> [l \in Loads |-> Absent],
                trucks    |-> {},
                matches   |-> [m \in Matches |-> Absent],
                interests |-> {},
                trusted   |-> {},
                notices   |-> [k \in Notices |-> Absent],
                reminded  |-> {}]

\* What a transaction has written so far.
Writes == [loads     : [Loads -> LoadStatus \cup {NoWrite}],
           trucks    : SUBSET Trucks,
           matches   : [Matches -> MatchStatus \cup {NoWrite}],
           interests : SUBSET Matches,
           trusted   : SUBSET Pairs,
           notices   : [Notices -> NotificationStatus \cup {NoWrite}],
           reminded  : SUBSET Notices]

NoWrites == [loads     |-> [l \in Loads |-> NoWrite],
             trucks    |-> {},
             matches   |-> [m \in Matches |-> NoWrite],
             interests |-> {},
             trusted   |-> {},
             notices   |-> [k \in Notices |-> NoWrite],
             reminded  |-> {}]

\* The tables d with the writes w applied: what w's own transaction reads,
\* and what everybody reads after it commits.
Overlay(d, w) ==
  [loads     |-> [l \in Loads |->
                    IF w.loads[l] = NoWrite THEN d.loads[l] ELSE w.loads[l]],
   trucks    |-> d.trucks \cup w.trucks,
   matches   |-> [m \in Matches |->
                    IF w.matches[m] = NoWrite THEN d.matches[m] ELSE w.matches[m]],
   interests |-> d.interests \cup w.interests,
   trusted   |-> d.trusted \cup w.trusted,
   notices   |-> [k \in Notices |->
                    IF w.notices[k] = NoWrite THEN d.notices[k] ELSE w.notices[k]],
   reminded  |-> d.reminded \cup w.reminded]

\* Two transactions have written the same row, or inserted the same key.
Overlaps(v, w) ==
  \/ \E l \in Loads : v.loads[l] # NoWrite /\ w.loads[l] # NoWrite
  \/ \E m \in Matches : v.matches[m] # NoWrite /\ w.matches[m] # NoWrite
  \/ \E k \in Notices : v.notices[k] # NoWrite /\ w.notices[k] # NoWrite
  \/ v.interests \cap w.interests # {}
  \/ v.trusted \cap w.trusted # {}

\* Assigning `new` to an attribute whose value in memory is `old` produces an
\* UPDATE of that column only when the two differ.
Assign(old, new) == IF old = new THEN NoWrite ELSE new
=============================================================================
