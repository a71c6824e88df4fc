----------------------------- MODULE Marketplace ----------------------------
(***************************************************************************)
(* FreightAI's backend as a whole: the bot's requests, the admin's buttons *)
(* and the periodic passes, each in a database session of its own, over    *)
(* one database and one Telegram.                                          *)
(***************************************************************************)
EXTENDS Requests, AdminPanel, Worker

CONSTANT Workload   \* the operations the environment asks for in this instance

ASSUME WorkloadAssumption == Workload \subseteq Operations

\* A free session takes up a new request or pass.
Start(s) ==
  \/ "create_load" \in Workload /\ \E l \in Loads : CreateLoad(s, l)
  \/ "create_truck" \in Workload /\ \E t \in Trucks : CreateTruck(s, t)
  \/ "register_interest" \in Workload /\ \E l \in Loads, t \in Trucks : PressInterest(s, l, t)
  \/ \E act \in Workload, m \in Matches : AdminFetch(s, act, m)
  \/ "cancel_load" \in Workload /\ \E l \in Loads : AdminFetchLoad(s, l)
  \/ "proactive" \in Workload /\ \E near \in SUBSET Trucks : StartProactive(s, near)
  \/ "reminders" \in Workload /\ \E old \in SUBSET Remindable : StartReminders(s, old)

\* A busy session goes on.
Step(s) ==
  NotifyStep(s) \/ MatchStep(s) \/ RequestStep(s) \/ AdminStep(s) \/ WorkerStep(s)

Init == SessionsInit

Next == \E s \in SessionIds : Start(s) \/ Step(s) \/ Crash(s)

Spec == Init /\ [][Next]_vars

\* A request that can go on eventually does: the event loop runs it, PostgreSQL
\* grants a free row lock, Telegram answers or times out.  Nothing makes a
\* request start.
FairSpec == Spec /\ \A s \in SessionIds : WF_vars(Step(s))

-----------------------------------------------------------------------------
(* Invariants *)

\* Every variable holds a value of its type (all modules).
TypeOK ==
  /\ db \in Tables
  /\ tx \in [SessionIds -> Writes]
  /\ pc \in [SessionIds -> Phases]
  /\ job \in [SessionIds -> Jobs]
  /\ pushes \in [Notices -> Nat]
  /\ reminders \in [Notices -> Nat]
  /\ revealed \subseteq Pairs
  /\ crashes \in Nat

\* A match is CONNECTED only between a shipper and a carrier whom an admin has
\* connected: connect writes match and pair together, process_new_match
\* connects only what it finds trusted, and no rollback separates the two
\* (admin.py connect, notifications.process_new_match, trusted_pairs).
ConnectedOnlyIfTrusted ==
  \A m \in Matches : db.matches[m] = "CONNECTED" => PairOf(m) \in db.trusted

\* A message has carried the phone numbers of two parties only if they are a
\* committed trusted pair, although messages leave before the transaction they
\* belong to commits, if it ever does (notify_auto_connected).
RevealedOnlyIfTrusted == revealed \subseteq db.trusted

\* A MATCH_FOUND message is about a match that is really in the database, even
\* when the transaction that sent the message is lost: callers commit the match
\* before they call process_new_match.
MatchFoundHasMatch ==
  \A k \in Notices :
    k[3] = "MATCH_FOUND" /\ pushes[k] > 0 =>
      \E t \in Trucks : db.matches[<<k[2], t>>] # Absent

\* An interest is never stored without the match that puts it in front of the
\* admin: both are written in one transaction, whatever becomes of the race for
\* the match row (register_interest).
InterestHasMatch ==
  \A m \in db.interests : db.matches[m] # Absent

\* A backhaul match comes with the notices that announce it to its parties and
\* to an admin, or not at all: the pass commits them together, wherever it is
\* interrupted.  A truck on a trip gets matches only from the pass and from its
\* carrier's interest (run_proactive_scan, notify_proactive_match).
BackhaulAllOrNothing ==
  \A m \in Matches :
    m[2] \in OnTrip /\ db.matches[m] # Absent /\ m \notin db.interests =>
      \E admin \in AdminChoices :
        \A i \in DOMAIN MatchNotices(m[1], m[2], admin, "PROACTIVE_MATCH") :
          db.notices[MatchNotices(m[1], m[2], admin, "PROACTIVE_MATCH")[i]] # Absent

\* Nobody is pushed the same notice twice, except once more per session that
\* died, as long as no proactive pass runs and there is at most one admin: every
\* rollback that follows a conflict discards only rows whose messages were not
\* sent yet (_create_notification_row).
NoDuplicatePush == \A k \in Notices : pushes[k] <= 1 + crashes

\* No broadcast is reminded of twice, except once more per session that died:
\* the flag reminder_sent and the advisory lock see to it (run_reminder_pass).
RemindedOnce == \A k \in Notices : reminders[k] <= 1 + crashes

\* Every load that is still NEW is in the hands of the request that created it,
\* except for one per session that died: nothing else looks at NEW loads
\* (create_load).
Stranded ==
  {l \in Loads : /\ db.loads[l] = "NEW"
                 /\ \A s \in SessionIds : job[s].op # "create_load" \/ job[s].load # l}

NewLoadsAccountedFor == Cardinality(Stranded) <= crashes

\* The shipper of load l, and an admin if there is one, have a notice of one kind about it.
Announced(l) ==
  \E kind \in NotificationType \ {"BROADCAST"}, admin \in AdminChoices :
    \A u \in {ShipperOf[l]} \cup {admin[i] : i \in DOMAIN admin} :
      db.notices[<<u, l, kind>>] # Absent

\* Session s has committed match m, or found it, and is going to announce it.
Announcing(s, m) ==
  /\ JobMatch(s) = m
  /\ \/ pc[s] = "process_match"
     \/ /\ pc[s] \in {"notify", "send", "finish"} /\ job[s].after = "finish"
        /\ job[s].op \in {"create_load", "create_truck", "register_interest"}

\* Every match that is stored has been announced to its shipper and to an admin,
\* or a session is about to, except for one per session that died.
Unannounced ==
  {m \in Matches : /\ db.matches[m] # Absent /\ ~ Announced(m[1])
                   /\ \A s \in SessionIds : ~ Announcing(s, m)}

MatchesAnnounced == Cardinality(Unannounced) <= crashes

-----------------------------------------------------------------------------
(* Action properties *)

\* A pair becomes trusted only in a step that makes a match of that pair
\* CONNECTED: trust is never inferred, and no failed connect leaves it behind
\* (trusted_pairs.mark_trusted inside admin.py connect).
TrustComesWithConnection ==
  [][\A p \in Pairs :
       p \in db'.trusted /\ p \notin db.trusted =>
         \E m \in Matches : /\ PairOf(m) = p
                            /\ db.matches[m] # "CONNECTED"
                            /\ db'.matches[m] = "CONNECTED"]_vars

\* A match that an admin or process_new_match has decided about never becomes
\* PENDING or absent again, whatever races to create the same match
\* (create_match_safely and uq_matches_load_truck).  Another decision may follow.
DecisionsStay ==
  [][\A m \in Matches :
       db.matches[m] \notin {Absent, "PENDING"} =>
         db'.matches[m] \notin {Absent, "PENDING"}]_vars

-----------------------------------------------------------------------------
(* Refinement *)

Promise == INSTANCE Brokerage WITH
  loads <- db.loads, matches <- db.matches,
  interests <- db.interests, trusted <- db.trusted

\* Whatever requests, passes, conflicts, stale copies and crashes interleave,
\* the committed tables change only in the atomic steps that Brokerage allows:
\* no half of a connection, of an interest or of a proposal is ever visible.
KeepsPromise == Promise!Spec

-----------------------------------------------------------------------------
(* Liveness *)

\* Requests and passes that wait for each other's rows never wait in a circle:
\* every one of them ends.
RequestsEnd == \A s \in SessionIds : pc[s] # "idle" ~> pc[s] = "idle"

\* Unless its session dies, a load does not stay NEW, the status in which
\* neither trucks nor passes look at it (create_load).
NewLoadsAreSettled == \A l \in Loads : db.loads[l] = "NEW" ~> db.loads[l] # "NEW"
=============================================================================
