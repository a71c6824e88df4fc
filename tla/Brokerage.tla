------------------------------ MODULE Brokerage -----------------------------
(***************************************************************************)
(* What the backend promises about loads, matches, interests and trust,    *)
(* seen from outside: no sessions, no messages, one atomic step for each   *)
(* thing a person or a pass achieves.  Marketplace implements it.          *)
(*                                                                         *)
(* A decision is taken on what somebody read earlier.  The load of a match *)
(* that is being decided therefore takes the decision's status, or keeps   *)
(* its own when the decider believed that it had that status already.      *)
(***************************************************************************)
EXTENDS Schema

VARIABLES
  loads,      \* status of each load
  matches,    \* status of each match
  interests,  \* matches in which a carrier pressed the button
  trusted     \* pairs that an admin has connected

brokerVars == <<loads, matches, interests, trusted>>

Init ==
  /\ loads = [l \in Loads |-> Absent]
  /\ matches = [m \in Matches |-> Absent]
  /\ interests = {}
  /\ trusted = {}

-----------------------------------------------------------------------------
\* A shipper posts a load; it is open once the search found no truck.  An admin
\* may have cancelled it in between, unnoticed.
Post(l) ==
  /\ loads[l] = Absent
  /\ loads' = [loads EXCEPT ![l] = "NEW"]
  /\ UNCHANGED <<matches, interests, trusted>>

Wait(l) ==
  /\ loads[l] \in {"NEW", "CANCELLED"}
  /\ loads' = [loads EXCEPT ![l] = "WAITING_FOR_MATCH"]
  /\ UNCHANGED <<matches, interests, trusted>>

\* New matches, each the first of its load and truck; those of their loads that
\* looked open are MATCHED.  `keen`: the one a carrier asked for.
Propose(new, open, keen) ==
  /\ new # {} /\ \A m \in new : matches[m] = Absent
  /\ open \subseteq {m[1] : m \in new}
  /\ keen \subseteq new
  /\ matches' = [m \in Matches |-> IF m \in new THEN "PENDING" ELSE matches[m]]
  /\ loads' = [l \in Loads |-> IF l \in open THEN "MATCHED" ELSE loads[l]]
  /\ interests' = interests \cup keen
  /\ UNCHANGED trusted

\* A carrier is interested in a match that is there already.
Express(m) ==
  /\ matches[m] # Absent
  /\ interests' = interests \cup {m}
  /\ UNCHANGED <<loads, matches, trusted>>

\* Match m and its load take the status of a decision, or keep their own.
Decide(m, ms, ls) ==
  /\ matches[m] # Absent
  /\ matches' \in {matches, [matches EXCEPT ![m] = ms]}
  /\ loads' \in {loads, [loads EXCEPT ![m[1]] = ls]}
  /\ UNCHANGED interests

Contact(m) == Decide(m, "ADMIN_CONTACTING", "ADMIN_CONTACTING") /\ UNCHANGED trusted
Reject(m)  == Decide(m, "REJECTED", "WAITING_FOR_MATCH") /\ UNCHANGED trusted

\* The admin connects two people for the first time, and they are trusted from
\* then on: the two are one step.
Connect(m) ==
  /\ PairOf(m) \notin trusted
  /\ Decide(m, "CONNECTED", "CONNECTED")
  /\ matches'[m] = "CONNECTED"
  /\ trusted' = trusted \cup {PairOf(m)}

\* A match of two people who are trusted connects by itself.
AutoConnect(m) ==
  /\ PairOf(m) \in trusted
  /\ Decide(m, "CONNECTED", "CONNECTED")
  /\ matches'[m] = "CONNECTED"
  /\ UNCHANGED trusted

Cancel(l) ==
  /\ loads[l] # Absent
  /\ loads' = [loads EXCEPT ![l] = "CANCELLED"]
  /\ UNCHANGED <<matches, interests, trusted>>

Next ==
  \/ \E l \in Loads : Post(l) \/ Wait(l) \/ Cancel(l)
  \/ \E new, keen \in SUBSET Matches, open \in SUBSET Loads : Propose(new, open, keen)
  \/ \E m \in Matches :
       Express(m) \/ Contact(m) \/ Reject(m) \/ Connect(m) \/ AutoConnect(m)

Spec == Init /\ [][Next]_brokerVars
=============================================================================
