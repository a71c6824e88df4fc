------------------------------- MODULE Claims -------------------------------
(***************************************************************************)
(* Statements of the repository's documents, comments and messages that    *)
(* the code does not keep.  Each is refuted by a run of its own; the       *)
(* README tells the shortest behaviour of each.                            *)
(***************************************************************************)
EXTENDS Marketplace

Quiet == \A s \in SessionIds : pc[s] = "idle"

\* trusted_pairs.py:35: mark_trusted is "safe to call every time the admin
\* connects a match, even if this pair is already trusted".  So a connect that
\* is not cut short connects its match.
ConnectConnects ==
  [][\A s \in SessionIds :
       Acting(s, "connect") /\ pc'[s] = "idle" /\ crashes' = crashes =>
         db'.matches[JobMatch(s)] = "CONNECTED"]_vars

\* SECURITY.md:174-176: the loser of a race for a match "catches IntegrityError,
\* rolls back its SAVEPOINT, and fetches the row the winner created instead of
\* erroring".  So a carrier's press of the button survives losing that race.
LoserKeepsInterest ==
  [][\A s \in SessionIds :
       /\ job[s].op = "register_interest" /\ pc[s] = "insert_match"
       /\ pc'[s] = "idle" /\ crashes' = crashes
       => JobMatch(s) \in db'.interests]_vars

\* README.md:88: "one reminder to carriers who haven't responded".  So only
\* the owner of a truck is reminded.
OnlyCarriersReminded ==
  \A k \in Notices :
    reminders[k] > 0 => \E t \in Trucks : CarrierOf[t] = k[1]

\* README.md:89: "carrier presses interested -> admin + shipper notified".
\* Once nothing is going on, the admin got as many messages about a load as
\* carriers are interested in it.
EveryInterestReachesAdmin ==
  Quiet => \A a \in Admins, l \in Loads :
    LET interested == {t \in Trucks : <<l, t>> \in db.interests}
    IN  pushes[<<a, l, "INTEREST_RECEIVED">>] >= Cardinality(interested)

\* notifications.py:5: the unique constraint is "the actual guarantee against
\* duplicates [...] even if called concurrently or after a process
\* restart/retry".  Here with proactive passes, and without any crash.
NoDuplicateEver == \A k \in Notices : pushes[k] < 2
=============================================================================
