--------------------------- MODULE BrokerageProofs ---------------------------
(***************************************************************************)
(* Marketplace implements Brokerage, for any number of loads, trucks,      *)
(* users and concurrent sessions, and any workload.                        *)
(*                                                                         *)
(* What a session has pending is at every moment either incomplete, and    *)
(* then its next steps do not commit, or one of the three things that a    *)
(* commit of it would be for Brokerage: a proposal, an interest or a       *)
(* connection (Fit).  Its phase tells what it knows to be stored (Knows).  *)
(* Both survive the commits of others because a key that is pending is     *)
(* locked, and because rows stay.  That a load which finds no truck can    *)
(* only have been cancelled meanwhile needs that nobody has heard of it    *)
(* (NewbornInv).                                                           *)
(***************************************************************************)
EXTENDS MarketplaceProofs

-----------------------------------------------------------------------------
(* What a commit of the writes w would do to the tables d *)

\* Nothing that Brokerage sees.
Unseen(w) ==
  /\ \A l \in Loads : w.loads[l] = NoWrite
  /\ \A m \in Matches : w.matches[m] = NoWrite
  /\ w.interests = {}

\* Matches that are not there yet, and the status of their loads.
Proposal(w, d) ==
  /\ \A m \in Matches : w.matches[m] \in {NoWrite, "PENDING"}
  /\ \A m \in Matches : w.matches[m] = "PENDING" => d.matches[m] = Absent
  /\ \A l \in Loads : w.loads[l] \in {NoWrite, "MATCHED"}
  /\ \A l \in Loads : w.loads[l] = "MATCHED" =>
       \E t \in Trucks : w.matches[<<l, t>>] = "PENDING"

\* An interest in m, and nothing else.
Interest(w, m) ==
  /\ \A l \in Loads : w.loads[l] = NoWrite
  /\ \A n \in Matches : w.matches[n] = NoWrite
  /\ w.interests = {m}

\* Match m, whose parties are trusted, becomes CONNECTED with its load.
Connection(w, d, m) ==
  /\ d.matches[m] # Absent /\ PairOf(m) \in d.trusted
  /\ w.matches[m] = "CONNECTED"
  /\ \A n \in Matches \ {m} : w.matches[n] = NoWrite
  /\ w.loads[m[1]] \in {NoWrite, "CONNECTED"}
  /\ \A l \in Loads \ {m[1]} : w.loads[l] = NoWrite
  /\ w.interests = {}

\* Writes that are one step of Brokerage, or none.
Whole(w, d) ==
  \/ Proposal(w, d) /\ \A m \in w.interests : w.matches[m] = "PENDING"
  \/ \E m \in Matches : Interest(w, m) /\ d.matches[m] # Absent
  \/ \E m \in Matches : Connection(w, d, m)

-----------------------------------------------------------------------------
(* Sessions *)

MatchOf(j) == <<j.load, j.truck>>

\* The interest waits for its match.
Waiting(p, j) == j.op = "register_interest" /\ p \in {"probe_match", "insert_match"}

\* Job j goes on after a commit in phase p, with nothing pending.
Commits(p, j) == ~ Waiting(p, j) /\ p # "mark_matched"

\* What a session in phase p with job j may have pending.
Fit(p, j, w, d) ==
  /\ Waiting(p, j) => Interest(w, MatchOf(j))
  /\ ~ Waiting(p, j) => Whole(w, d)
  /\ j.op = "proactive" => Proposal(w, d) /\ w.interests = {}
  /\ p = "idle" => Unseen(w)
  /\ j.op \notin {"register_interest", "proactive"}
       /\ p \notin {"mark_matched", "notify", "send", "finish", "audience", "broadcast"}
       => Unseen(w)
  /\ p = "mark_matched" => w.matches[MatchOf(j)] = "PENDING"

\* What it knows to be stored, and what it has on its list.
Knows(p, j, d) ==
  /\ p = "process_match" =>
       j.op \in {"create_load", "create_truck"} /\ d.matches[MatchOf(j)] # Absent
  /\ p \in {"fetch_load", "act"} =>
       \/ j.op \in MatchActions /\ d.matches[MatchOf(j)] # Absent
       \/ j.op = "cancel_load" /\ d.loads[j.load] # Absent
  /\ j.op = "cancel_load" => p = "act"
  /\ p = "scan" => j.op = "proactive"
  /\ p \in {"notify", "send"} =>
       /\ j.after = "scan" => j.op = "proactive"
       /\ \A i \in 1..Len(j.todo) :
            /\ j.todo[i][2] = j.load
            /\ j.todo[i][3] = "MATCH_FOUND" =>
                 j.truck \in Trucks /\ d.matches[MatchOf(j)] # Absent

SessionsFit ==
  \A s \in SessionIds : Fit(pc[s], job[s], tx[s], db) /\ Knows(pc[s], job[s], db)

-----------------------------------------------------------------------------
(* Loads of which nobody has heard *)

\* create_load has stored the load, and not finished its search.
Early(p, j) == p = "no_match" \/ (p = "search" /\ j.op = "create_load")

\* The session works on load l.
About(p, j, l) == (p \in NeedLoad \/ Early(p, j)) /\ j.load = l

Newborn(l) ==
  \/ db.loads[l] = Absent
  \/ \E s \in SessionIds : Early(pc[s], job[s]) /\ job[s].load = l

Avoids(w, l) ==
  /\ w.loads[l] = NoWrite
  /\ \A m \in Matches : m[1] = l => w.matches[m] = NoWrite
  /\ \A k \in Notices : k[2] = l => w.notices[k] = NoWrite

\* No row mentions l, and no message.
NoRows(l) ==
  /\ db.loads[l] \in {Absent, "NEW", "CANCELLED"}
  /\ \A m \in Matches : m[1] = l => db.matches[m] = Absent
  /\ \A k \in Notices : k[2] = l =>
       db.notices[k] = Absent /\ pushes[k] = 0 /\ reminders[k] = 0

\* Nor does a session with writes w, unless it is l's own or an admin cancels l.
Ignores(p, j, w, d, l) ==
  /\ Avoids(w, l)
  /\ l \notin j.cand /\ \A k \in j.due : k[2] # l
  /\ About(p, j, l) => d.loads[l] # Absent /\ (j.op = "cancel_load" \/ Early(p, j))

Unheard(l) ==
  /\ NoRows(l)
  /\ \A s \in SessionIds : Ignores(pc[s], job[s], tx[s], db, l)
  /\ \A s, o \in SessionIds :
       /\ Early(pc[s], job[s]) /\ job[s].load = l
       /\ Early(pc[o], job[o]) /\ job[o].load = l
       => s = o

NewbornInv == \A l \in Loads : Newborn(l) => Unheard(l)

\* The invariant of the refinement.
BInv == SessionsFit /\ NewbornInv /\ InterestHasMatch /\ MatchFoundHasMatch
-----------------------------------------------------------------------------
(* Tables and writes *)

\* What a commit of w makes of the tables d: rows stay.
LEMMA Rows ==
  ASSUME NEW d \in Tables, NEW w \in Writes
  PROVE  /\ Overlay(d, w) \in Tables
         /\ Overlay(d, w).interests = d.interests \cup w.interests
         /\ Overlay(d, w).trusted = d.trusted \cup w.trusted
         /\ \A m \in Matches :
              Overlay(d, w).matches[m] =
                IF w.matches[m] = NoWrite THEN d.matches[m] ELSE w.matches[m]
         /\ \A l \in Loads :
              Overlay(d, w).loads[l] =
                IF w.loads[l] = NoWrite THEN d.loads[l] ELSE w.loads[l]
         /\ \A k \in Notices :
              Overlay(d, w).notices[k] =
                IF w.notices[k] = NoWrite THEN d.notices[k] ELSE w.notices[k]
         /\ \A m \in Matches : d.matches[m] # Absent => Overlay(d, w).matches[m] # Absent
         /\ \A l \in Loads : d.loads[l] # Absent => Overlay(d, w).loads[l] # Absent
<1>1. Overlay(d, w) \in Tables
  BY OverlayType
<1>2. \A m \in Matches : w.matches[m] # Absent
  BY DEF Writes, MatchStatus, NoWrite, Absent
<1>3. \A l \in Loads : w.loads[l] # Absent
  BY DEF Writes, LoadStatus, NoWrite, Absent
<1> QED BY <1>1, <1>2, <1>3 DEF Overlay

LEMMA UnseenWhole ==
  ASSUME NEW w, NEW d, Unseen(w)
  PROVE  Proposal(w, d) /\ Whole(w, d)
  BY DEF Unseen, Proposal, Whole, NoWrite

LEMMA NoWritesUnseen == Unseen(NoWrites) /\ NoWrites \in Writes
  BY NoWritesSafe DEF Unseen, NoWrites, SafeWrites

\* Pending writes remain whole when another session commits v: their keys are
\* locked, and what they rely on stays.
LEMMA ProposalStays ==
  ASSUME NEW d \in Tables, NEW v \in Writes, NEW w \in Writes, ~ Overlaps(w, v),
         Proposal(w, d)
  PROVE  Proposal(w, Overlay(d, v))
<1>1. ASSUME NEW m \in Matches, w.matches[m] = "PENDING"
      PROVE  Overlay(d, v).matches[m] = Absent
  <2>1. w.matches[m] # NoWrite
    BY <1>1 DEF NoWrite
  <2>2. v.matches[m] = NoWrite
    BY <2>1 DEF Overlaps
  <2> QED BY <1>1, <2>2, Rows DEF Proposal
<1> QED BY <1>1 DEF Proposal

LEMMA WholeStays ==
  ASSUME NEW d \in Tables, NEW v \in Writes, NEW w \in Writes, ~ Overlaps(w, v),
         Whole(w, d)
  PROVE  Whole(w, Overlay(d, v))
<1>1. CASE Proposal(w, d) /\ \A m \in w.interests : w.matches[m] = "PENDING"
  BY <1>1, ProposalStays DEF Whole
<1>2. CASE \E m \in Matches : Interest(w, m) /\ d.matches[m] # Absent
  BY <1>2, Rows DEF Whole
<1>3. CASE \E m \in Matches : Connection(w, d, m)
  <2>1. PICK m \in Matches : Connection(w, d, m)
    BY <1>3
  <2>2. Connection(w, Overlay(d, v), m)
    BY <2>1, Rows DEF Connection
  <2> QED BY <2>2 DEF Whole
<1> QED BY <1>1, <1>2, <1>3 DEF Whole

LEMMA FitStays ==
  ASSUME NEW d \in Tables, NEW v \in Writes, NEW w \in Writes, ~ Overlaps(w, v),
         NEW p, NEW j, Fit(p, j, w, d)
  PROVE  Fit(p, j, w, Overlay(d, v))
<1>1. Whole(w, d) => Whole(w, Overlay(d, v))
  BY WholeStays
<1>2. Proposal(w, d) => Proposal(w, Overlay(d, v))
  BY ProposalStays
<1> QED BY <1>1, <1>2 DEF Fit

LEMMA KnowsStays ==
  ASSUME NEW d \in Tables, NEW v \in Writes, NEW p, NEW j, NEW T, JobReady(p, j, T),
         Knows(p, j, d)
  PROVE  Knows(p, j, Overlay(d, v))
<1>1. p \in NeedLoad /\ j.truck \in Trucks => MatchOf(j) \in Matches
  BY DEF JobReady, MatchOf, Matches
<1>2. p \in {"process_match", "fetch_load", "act", "notify", "send"} => p \in NeedLoad /\ j.load \in Loads
  BY DEF JobReady, NeedLoad
<1>3. p = "process_match" => j.truck \in Trucks
  BY DEF JobReady, NeedTruck
<1>4. p \in {"fetch_load", "act"} /\ j.op \in MatchActions => j.truck \in Trucks
  BY DEF JobReady, MatchActions
<1>5. \A m \in Matches : d.matches[m] # Absent => Overlay(d, v).matches[m] # Absent
  BY Rows
<1>6. \A l \in Loads : d.loads[l] # Absent => Overlay(d, v).loads[l] # Absent
  BY Rows
<1> QED BY <1>1, <1>2, <1>3, <1>4, <1>5, <1>6 DEF Knows

-----------------------------------------------------------------------------
(* What a step does to the sessions *)

\* A session commits: the others remain whole.
LEMMA CommitFits ==
  ASSUME IInv, SessionsFit, NEW s \in SessionIds, NEW w \in Writes, Commit(s, w),
         NEW p, NEW j, Goto(s, p, j), Commits(p, j), Knows(p, j, db')
  PROVE  SessionsFit'
<1>1. db' = Overlay(db, w) /\ tx' = [tx EXCEPT ![s] = NoWrites] /\ CanWrite(s, w)
  BY DEF Commit
<1>2. pc' = [pc EXCEPT ![s] = p] /\ job' = [job EXCEPT ![s] = j]
  BY DEF Goto
<1>3. db \in Tables /\ tx \in [SessionIds -> Writes]
  BY DEF IInv, DataInv
<1>4. pc \in [SessionIds -> Phases] /\ job \in [SessionIds -> Jobs]
  BY DEF IInv, ControlInv
<1>5. ASSUME NEW o \in SessionIds, o # s
      PROVE  Fit(pc[o], job[o], tx[o], db') /\ Knows(pc[o], job[o], db')
  <2>1. ~ Overlaps(tx[o], w)
    BY <1>1, <1>5 DEF CanWrite
  <2>2. Fit(pc[o], job[o], tx[o], db) /\ Knows(pc[o], job[o], db)
    BY DEF SessionsFit
  <2>3. JobReady(pc[o], job[o], db.trusted)
    BY DEF IInv, ControlInv
  <2>4. tx[o] \in Writes
    BY <1>3
  <2> QED BY <1>1, <1>3, <2>1, <2>2, <2>3, <2>4, FitStays, KnowsStays
<1>6. Fit(p, j, NoWrites, db')
  <2>1. Unseen(NoWrites) /\ Proposal(NoWrites, db') /\ Whole(NoWrites, db')
    BY NoWritesUnseen, UnseenWhole
  <2> QED BY <2>1 DEF Fit, NoWrites, Commits
<1>7. ASSUME NEW o \in SessionIds
      PROVE  Fit(pc'[o], job'[o], tx'[o], db') /\ Knows(pc'[o], job'[o], db')
  <2>1. CASE o = s
    <3>1. pc'[o] = p /\ job'[o] = j /\ tx'[o] = NoWrites
      BY <1>1, <1>2, <1>3, <1>4, <2>1
    <3> QED BY <1>6, <3>1
  <2>2. CASE o # s
    <3>1. pc'[o] = pc[o] /\ job'[o] = job[o] /\ tx'[o] = tx[o]
      BY <1>1, <1>2, <1>3, <1>4, <2>2
    <3> QED BY <1>5, <2>2, <3>1
  <2> QED BY <2>1, <2>2
<1> QED BY <1>7 DEF SessionsFit

\* A session goes on with writes w that are not committed.
LEMMA StayFits ==
  ASSUME IInv, SessionsFit, NEW s \in SessionIds, NEW w, tx' = [tx EXCEPT ![s] = w],
         UNCHANGED db, NEW p, NEW j, Goto(s, p, j), Fit(p, j, w, db), Knows(p, j, db)
  PROVE  SessionsFit'
<1>1. tx \in [SessionIds -> Writes] /\ pc \in [SessionIds -> Phases] /\ job \in [SessionIds -> Jobs]
  BY DEF IInv, DataInv, ControlInv
<1>2. pc' = [pc EXCEPT ![s] = p] /\ job' = [job EXCEPT ![s] = j]
  BY DEF Goto
<1>3. ASSUME NEW o \in SessionIds
      PROVE  Fit(pc'[o], job'[o], tx'[o], db') /\ Knows(pc'[o], job'[o], db')
  <2>1. CASE o = s
    <3>1. pc'[o] = p /\ job'[o] = j /\ tx'[o] = w
      BY <1>1, <1>2, <2>1
    <3> QED BY <3>1
  <2>2. CASE o # s
    <3>1. pc'[o] = pc[o] /\ job'[o] = job[o] /\ tx'[o] = tx[o]
      BY <1>1, <1>2, <2>2
    <3> QED BY <3>1 DEF SessionsFit
  <2> QED BY <2>1, <2>2
<1> QED BY <1>3 DEF SessionsFit

LEMMA GotoFits ==
  ASSUME IInv, SessionsFit, NEW s \in SessionIds, UNCHANGED <<db, tx>>,
         NEW p, NEW j, Goto(s, p, j), Fit(p, j, tx[s], db), Knows(p, j, db)
  PROVE  SessionsFit'
<1>1. tx' = [tx EXCEPT ![s] = tx[s]]
  BY DEF IInv, DataInv
<1> QED BY <1>1, StayFits

\* A session that has given up or done its work may rest.
LEMMA RestFits ==
  ASSUME NEW w, Unseen(w), NEW d
  PROVE  Fit("idle", NoJob, w, d) /\ Knows("idle", NoJob, d)
  BY UnseenWhole DEF Fit, Knows, NoJob, Waiting, None
-----------------------------------------------------------------------------
(* What a step does for Brokerage *)

\* A step of Brokerage, or none.
Promised == Promise!Next \/ UNCHANGED Promise!brokerVars

LEMMA QuietPromised ==
  ASSUME UNCHANGED db
  PROVE  Promised
  BY DEF Promised, Promise!brokerVars

\* A commit writes the tables row by row.
LEMMA CommitRows ==
  ASSUME IInv, NEW s \in SessionIds, NEW w \in Writes, Commit(s, w)
  PROVE  /\ db \in Tables /\ db' \in Tables
         /\ \A l \in Loads :
              db'.loads[l] = IF w.loads[l] = NoWrite THEN db.loads[l] ELSE w.loads[l]
         /\ \A m \in Matches :
              db'.matches[m] = IF w.matches[m] = NoWrite THEN db.matches[m] ELSE w.matches[m]
         /\ \A k \in Notices :
              db'.notices[k] = IF w.notices[k] = NoWrite THEN db.notices[k] ELSE w.notices[k]
         /\ db'.interests = db.interests \cup w.interests
         /\ db'.trusted = db.trusted \cup w.trusted
         /\ \A l \in Loads : db.loads[l] # Absent => db'.loads[l] # Absent
         /\ \A m \in Matches : db.matches[m] # Absent => db'.matches[m] # Absent
<1>1. db \in Tables /\ db' = Overlay(db, w)
  BY DEF IInv, DataInv, Commit
<1> QED BY <1>1, Rows

\* Functions are equal if their values are.
LEMMA SameRows ==
  ASSUME NEW S, NEW T, NEW f \in [S -> T], NEW g \in [S -> T], \A x \in S : f[x] = g[x]
  PROVE  f = g
  OBVIOUS

LEMMA SameTables ==
  ASSUME NEW d \in Tables, NEW e \in Tables
  PROVE  /\ (\A l \in Loads : d.loads[l] = e.loads[l]) => d.loads = e.loads
         /\ (\A m \in Matches : d.matches[m] = e.matches[m]) => d.matches = e.matches
<1>1. /\ d.loads \in [Loads -> LoadStatus \cup {Absent}]
      /\ e.loads \in [Loads -> LoadStatus \cup {Absent}]
      /\ d.matches \in [Matches -> MatchStatus \cup {Absent}]
      /\ e.matches \in [Matches -> MatchStatus \cup {Absent}]
  BY DEF Tables
<1> QED BY <1>1, SameRows

\* Writes that Brokerage does not see are no step of it.
LEMMA UnseenPromised ==
  ASSUME IInv, NEW s \in SessionIds, NEW w \in Writes, Commit(s, w), w.trusted = {}, Unseen(w)
  PROVE  Promised
<1>1. db'.loads = db.loads /\ db'.matches = db.matches
  BY CommitRows, SameTables DEF Unseen
<1>2. db'.interests = db.interests /\ db'.trusted = db.trusted
  BY CommitRows DEF Unseen
<1> QED BY <1>1, <1>2 DEF Promised, Promise!brokerVars

LEMMA ProposalPromised ==
  ASSUME IInv, NEW s \in SessionIds, NEW w \in Writes, Commit(s, w), w.trusted = {},
         Proposal(w, db), \A m \in w.interests : w.matches[m] = "PENDING"
  PROVE  Promised
<1> DEFINE new  == {m \in Matches : w.matches[m] = "PENDING"}
           open == {l \in Loads : w.loads[l] = "MATCHED"}
           keen == w.interests
<1>1. keen \subseteq new
  BY DEF Writes
<1>2. CASE new = {}
  <2>1. \A m \in Matches : w.matches[m] = NoWrite
    BY <1>2 DEF Proposal
  <2>2. \A l \in Loads : w.loads[l] = NoWrite
    <3> SUFFICES ASSUME NEW l \in Loads, w.loads[l] = "MATCHED" PROVE FALSE
      BY DEF Proposal
    <3>1. PICK t \in Trucks : w.matches[<<l, t>>] = "PENDING"
      BY DEF Proposal
    <3> QED BY <1>2, <3>1 DEF Matches
  <2> QED BY <1>1, <1>2, <2>1, <2>2, UnseenPromised DEF Unseen
<1>3. CASE new # {}
  <2>1. \A m \in new : db.matches[m] = Absent
    BY DEF Proposal
  <2>2. open \subseteq {m[1] : m \in new}
    <3> SUFFICES ASSUME NEW l \in open PROVE \E m \in new : l = m[1]
      OBVIOUS
    <3>1. PICK t \in Trucks : w.matches[<<l, t>>] = "PENDING"
      BY DEF Proposal
    <3>2. <<l, t>> \in new
      BY <3>1 DEF Matches
    <3> QED BY <3>2
  <2>3. db'.matches = [m \in Matches |-> IF m \in new THEN "PENDING" ELSE db.matches[m]]
    <3>1. \A m \in Matches :
            (IF w.matches[m] = NoWrite THEN db.matches[m] ELSE w.matches[m])
              = (IF m \in new THEN "PENDING" ELSE db.matches[m])
      BY DEF Proposal, NoWrite
    <3>2. db' \in Tables /\ \A m \in Matches : db'.matches[m] = IF m \in new THEN "PENDING" ELSE db.matches[m]
      BY <3>1, CommitRows
    <3>3. db'.matches \in [Matches -> MatchStatus \cup {Absent}]
      BY <3>2 DEF Tables
    <3> HIDE DEF new
    <3> QED BY <3>2, <3>3
  <2>4. db'.loads = [l \in Loads |-> IF l \in open THEN "MATCHED" ELSE db.loads[l]]
    <3>1. \A l \in Loads :
            (IF w.loads[l] = NoWrite THEN db.loads[l] ELSE w.loads[l])
              = (IF l \in open THEN "MATCHED" ELSE db.loads[l])
      BY DEF Proposal, NoWrite
    <3>2. db' \in Tables /\ \A l \in Loads : db'.loads[l] = IF l \in open THEN "MATCHED" ELSE db.loads[l]
      BY <3>1, CommitRows
    <3>3. db'.loads \in [Loads -> LoadStatus \cup {Absent}]
      BY <3>2 DEF Tables
    <3> HIDE DEF open
    <3> QED BY <3>2, <3>3
  <2>5. db'.interests = db.interests \cup keen /\ db'.trusted = db.trusted
    BY CommitRows
  <2>6. keen \in SUBSET Matches /\ new \in SUBSET Matches /\ open \in SUBSET Loads
    BY <1>1
  <2> HIDE DEF new, open, keen
  <2>7. Promise!Propose(new, open, keen)
    BY <1>1, <1>3, <2>1, <2>2, <2>3, <2>4, <2>5
       DEF Promise!Propose, Promise!Matches, Matches, Promise!Absent, Absent
  <2> QED BY <2>6, <2>7 DEF Promised, Promise!Next, Promise!Matches, Matches
<1> QED BY <1>2, <1>3

LEMMA InterestPromised ==
  ASSUME IInv, NEW s \in SessionIds, NEW w \in Writes, Commit(s, w), w.trusted = {},
         NEW m \in Matches, Interest(w, m), db.matches[m] # Absent
  PROVE  Promised
<1>1. db'.loads = db.loads /\ db'.matches = db.matches
  BY CommitRows, SameTables DEF Interest
<1>2. db'.interests = db.interests \cup {m} /\ db'.trusted = db.trusted
  BY CommitRows DEF Interest
<1>3. Promise!Express(m)
  BY <1>1, <1>2 DEF Promise!Express, Promise!Absent, Absent
<1> QED BY <1>3 DEF Promised, Promise!Next, Promise!Matches, Matches

\* The writes of a decision on match m: its status and its load's, or neither.
Decision(w, m, ms, ls) ==
  /\ w.matches[m] \in {NoWrite, ms} /\ \A n \in Matches \ {m} : w.matches[n] = NoWrite
  /\ w.loads[m[1]] \in {NoWrite, ls} /\ \A l \in Loads \ {m[1]} : w.loads[l] = NoWrite
  /\ w.interests = {}

LEMMA DecisionPromised ==
  ASSUME IInv, NEW s \in SessionIds, NEW w \in Writes, Commit(s, w), NEW m \in Matches,
         NEW ms \in MatchStatus, NEW ls \in LoadStatus, Decision(w, m, ms, ls),
         db.matches[m] # Absent
  PROVE  Promise!Decide(m, ms, ls)
<1>1. m[1] \in Loads /\ ms # NoWrite /\ ls # NoWrite
  BY DEF Matches, MatchStatus, LoadStatus, NoWrite
<1>2. db \in Tables /\ db' \in Tables
  BY CommitRows
<1>3. /\ db.matches \in [Matches -> MatchStatus \cup {Absent}]
      /\ db'.matches \in [Matches -> MatchStatus \cup {Absent}]
      /\ db.loads \in [Loads -> LoadStatus \cup {Absent}]
      /\ db'.loads \in [Loads -> LoadStatus \cup {Absent}]
  BY <1>2 DEF Tables
<1>4. db'.matches \in {db.matches, [db.matches EXCEPT ![m] = ms]}
  <2>1. CASE w.matches[m] = NoWrite
    BY <1>2, <2>1, CommitRows, SameTables DEF Decision
  <2>2. CASE w.matches[m] = ms
    <3>1. \A n \in Matches : db'.matches[n] = [db.matches EXCEPT ![m] = ms][n]
      BY <1>1, <1>3, <2>2, CommitRows DEF Decision
    <3>2. [db.matches EXCEPT ![m] = ms] \in [Matches -> MatchStatus \cup {Absent}]
      BY <1>3
    <3> QED BY <1>3, <3>1, <3>2, SameRows
  <2> QED BY <2>1, <2>2 DEF Decision
<1>6. db'.loads \in {db.loads, [db.loads EXCEPT ![m[1]] = ls]}
  <2>1. CASE w.loads[m[1]] = NoWrite
    BY <1>1, <1>2, <2>1, CommitRows, SameTables DEF Decision
  <2>2. CASE w.loads[m[1]] = ls
    <3>1. \A l \in Loads : db'.loads[l] = [db.loads EXCEPT ![m[1]] = ls][l]
      BY <1>1, <1>3, <2>2, CommitRows DEF Decision
    <3>2. [db.loads EXCEPT ![m[1]] = ls] \in [Loads -> LoadStatus \cup {Absent}]
      BY <1>1, <1>3
    <3> QED BY <1>3, <3>1, <3>2, SameRows
  <2> QED BY <2>1, <2>2 DEF Decision
<1>5. db'.interests = db.interests
  BY CommitRows DEF Decision
<1> QED BY <1>4, <1>5, <1>6 DEF Promise!Decide, Promise!Absent, Absent

LEMMA ConnectionPromised ==
  ASSUME IInv, NEW s \in SessionIds, NEW w \in Writes, Commit(s, w), w.trusted = {},
         NEW m \in Matches, Connection(w, db, m)
  PROVE  Promised
<1>1. Decision(w, m, "CONNECTED", "CONNECTED")
  BY DEF Connection, Decision
<1>2. Promise!Decide(m, "CONNECTED", "CONNECTED")
  BY <1>1, DecisionPromised DEF Connection, MatchStatus, LoadStatus
<1>3. db'.matches[m] = "CONNECTED" /\ db'.trusted = db.trusted
  BY CommitRows DEF Connection, NoWrite
<1>4. Promise!AutoConnect(m)
  BY <1>2, <1>3 DEF Promise!AutoConnect, Promise!PairOf, PairOf, Connection
<1> QED BY <1>4 DEF Promised, Promise!Next, Promise!Matches, Matches

\* A commit of whole writes is a step of Brokerage.
LEMMA WholePromised ==
  ASSUME IInv, NEW s \in SessionIds, NEW w \in Writes, Commit(s, w), w.trusted = {}, Whole(w, db)
  PROVE  Promised
  BY ProposalPromised, InterestPromised, ConnectionPromised DEF Whole

-----------------------------------------------------------------------------
(* The two invariants that follow the rows *)

\* A commit of whole writes keeps interests with their matches.
LEMMA WholeInterests ==
  ASSUME IInv, InterestHasMatch, NEW s \in SessionIds, NEW w \in Writes, Commit(s, w), Whole(w, db)
  PROVE  InterestHasMatch'
<1> SUFFICES ASSUME NEW m \in Matches, m \in db'.interests PROVE db'.matches[m] # Absent
  BY CommitRows DEF InterestHasMatch, Tables
<1>1. db.matches[m] # Absent => db'.matches[m] # Absent
  BY CommitRows
<1>2. w.matches[m] = "PENDING" => db'.matches[m] # Absent
  BY CommitRows DEF Absent, NoWrite
<1>3. m \in db.interests => db.matches[m] # Absent
  BY DEF InterestHasMatch
<1>4. m \in w.interests => w.matches[m] = "PENDING" \/ db.matches[m] # Absent
  BY DEF Whole, Interest, Connection
<1> QED BY <1>1, <1>2, <1>3, <1>4, CommitRows

\* A commit keeps the matches that were announced, if nothing is pushed.
LEMMA CommitAnnounced ==
  ASSUME IInv, MatchFoundHasMatch, NEW s \in SessionIds, NEW w \in Writes, Commit(s, w), UNCHANGED pushes
  PROVE  MatchFoundHasMatch'
<1> SUFFICES ASSUME NEW k \in Notices, k[3] = "MATCH_FOUND", pushes[k] > 0
             PROVE  \E t \in Trucks : db'.matches[<<k[2], t>>] # Absent
  BY DEF MatchFoundHasMatch
<1>1. PICK t \in Trucks : db.matches[<<k[2], t>>] # Absent
  BY DEF MatchFoundHasMatch
<1>2. <<k[2], t>> \in Matches
  BY DEF Notices, Matches
<1> QED BY <1>1, <1>2, CommitRows

-----------------------------------------------------------------------------
(* What a step does to the newborn loads *)

\* A newborn load stays unheard of if the step stores nothing about it, and its
\* session ignores it.
LEMMA NewbornKept ==
  ASSUME IInv, NewbornInv, NEW s \in SessionIds, NEW w, tx' = [tx EXCEPT ![s] = w],
         NEW p, NEW j, Goto(s, p, j),
         \A l \in Loads : db.loads[l] # Absent => db'.loads[l] # Absent,
         Early(p, j) =>
           /\ Newborn(j.load)
           /\ \A o \in SessionIds \ {s} : ~ (Early(pc[o], job[o]) /\ job[o].load = j.load),
         \A l \in Loads : Newborn(l) /\ Newborn(l)' => NoRows(l)' /\ Ignores(p, j, w, db', l)
  PROVE  NewbornInv'
<1>1. /\ tx \in [SessionIds -> Writes]
      /\ pc \in [SessionIds -> Phases] /\ job \in [SessionIds -> Jobs]
  BY DEF IInv, DataInv, ControlInv
<1>2. pc'[s] = p /\ job'[s] = j /\ tx'[s] = w
  BY <1>1 DEF Goto
<1>3. \A o \in SessionIds \ {s} : pc'[o] = pc[o] /\ job'[o] = job[o] /\ tx'[o] = tx[o]
  BY <1>1 DEF Goto
<1> SUFFICES ASSUME NEW l \in Loads, Newborn(l)' PROVE Unheard(l)'
  BY DEF NewbornInv
<1>4. Newborn(l)
  <2>1. CASE db'.loads[l] = Absent
    BY <2>1 DEF Newborn
  <2>2. CASE \E o \in SessionIds : Early(pc'[o], job'[o]) /\ job'[o].load = l
    <3>1. PICK o \in SessionIds : Early(pc'[o], job'[o]) /\ job'[o].load = l
      BY <2>2
    <3>2. CASE o = s
      BY <1>2, <3>1, <3>2
    <3>3. CASE o # s
      BY <1>3, <3>1, <3>3 DEF Newborn
    <3> QED BY <3>2, <3>3
  <2> QED BY <2>1, <2>2 DEF Newborn
<1>5. Unheard(l)
  BY <1>4 DEF NewbornInv
<1>6. NoRows(l)' /\ Ignores(p, j, w, db', l)
  BY <1>4
<1>7. ASSUME NEW o \in SessionIds
      PROVE  Ignores(pc'[o], job'[o], tx'[o], db', l)
  <2>1. CASE o = s
    BY <1>2, <1>6, <2>1
  <2>2. CASE o # s
    <3>1. Ignores(pc[o], job[o], tx[o], db, l)
      BY <1>5 DEF Unheard
    <3>2. Ignores(pc[o], job[o], tx[o], db', l)
      BY <3>1 DEF Ignores
    <3> QED BY <1>3, <2>2, <3>2
  <2> QED BY <2>1, <2>2
<1>8. ASSUME NEW o \in SessionIds, NEW q \in SessionIds,
             Early(pc'[o], job'[o]), job'[o].load = l,
             Early(pc'[q], job'[q]), job'[q].load = l
      PROVE  o = q
  <2>1. CASE o # s /\ q # s
    BY <1>3, <1>5, <1>8, <2>1 DEF Unheard
  <2>2. CASE o = s /\ q # s
    BY <1>2, <1>3, <1>8, <2>2
  <2>3. CASE o # s /\ q = s
    BY <1>2, <1>3, <1>8, <2>3
  <2> QED BY <2>1, <2>2, <2>3
<1> QED BY <1>6, <1>7, <1>8 DEF Unheard

\* Writes that are not about newborn loads, and a phase that is not either.
OldWrites(w) == \A l \in Loads : Newborn(l) => Avoids(w, l)

OldJob(p, j) ==
  /\ ~ Early(p, j)
  /\ \A l \in Loads : Newborn(l) =>
       ~ About(p, j, l) /\ l \notin j.cand /\ \A k \in j.due : k[2] # l

\* What has left the backend says nothing more about newborn loads.
OldOutside ==
  \A k \in Notices : Newborn(k[2]) => pushes'[k] = pushes[k] /\ reminders'[k] = reminders[k]

LEMMA NewbornStay ==
  ASSUME IInv, NewbornInv, NEW s \in SessionIds, NEW w, OldWrites(w),
         tx' = [tx EXCEPT ![s] = w], UNCHANGED db,
         NEW p, NEW j, Goto(s, p, j), OldJob(p, j), OldOutside
  PROVE  NewbornInv'
<1>1. ASSUME NEW l \in Loads, Newborn(l)
      PROVE  NoRows(l)' /\ Ignores(p, j, w, db', l)
  <2>1. NoRows(l)
    BY <1>1 DEF NewbornInv, Unheard
  <2>2. NoRows(l)'
    BY <1>1, <2>1 DEF NoRows, OldOutside
  <2>3. Ignores(p, j, w, db', l)
    BY <1>1 DEF Ignores, OldJob, OldWrites
  <2> QED BY <2>2, <2>3
<1>2. ~ Early(p, j)
  BY DEF OldJob
<1> QED BY <1>1, <1>2, NewbornKept

LEMMA NewbornCommit ==
  ASSUME IInv, NewbornInv, NEW s \in SessionIds, NEW w \in Writes, OldWrites(w), Commit(s, w),
         NEW p, NEW j, Goto(s, p, j), OldJob(p, j), OldOutside
  PROVE  NewbornInv'
<1>1. ASSUME NEW l \in Loads, Newborn(l)
      PROVE  NoRows(l)' /\ Ignores(p, j, NoWrites, db', l)
  <2>1. NoRows(l)
    BY <1>1 DEF NewbornInv, Unheard
  <2>2. Avoids(w, l)
    BY <1>1 DEF OldWrites
  <2>3. NoRows(l)'
    BY <1>1, <2>1, <2>2, CommitRows DEF NoRows, OldOutside, Avoids
  <2>4. Avoids(NoWrites, l)
    BY DEF Avoids, NoWrites
  <2>5. Ignores(p, j, NoWrites, db', l)
    BY <1>1, <2>4 DEF Ignores, OldJob
  <2> QED BY <2>3, <2>5
<1>2. ~ Early(p, j)
  BY DEF OldJob
<1>3. tx' = [tx EXCEPT ![s] = NoWrites]
  BY DEF Commit
<1>4. \A l \in Loads : db.loads[l] # Absent => db'.loads[l] # Absent
  BY CommitRows
<1> QED BY <1>1, <1>2, <1>3, <1>4, NewbornKept

\* What a session has pending is not about newborn loads.
LEMMA PendingOld ==
  ASSUME NewbornInv, NEW s \in SessionIds
  PROVE  OldWrites(tx[s])
  BY DEF NewbornInv, Unheard, Ignores, OldWrites

LEMMA NothingOld == OldWrites(NoWrites)
  BY DEF OldWrites, Avoids, NoWrites

\* A session that has got further than its search works on an old load.
LEMMA LoadOld ==
  ASSUME IInv, BInv, NEW s \in SessionIds, pc[s] \in NeedLoad \ {"no_match"},
         job[s].op # "cancel_load"
  PROVE  job[s].load \in Loads /\ ~ Newborn(job[s].load)
<1>1. job[s].load \in Loads
  BY DEF IInv, ControlInv, JobReady
<1>2. About(pc[s], job[s], job[s].load) /\ ~ Early(pc[s], job[s])
  BY DEF About, Early, NeedLoad
<1> QED BY <1>1, <1>2 DEF BInv, NewbornInv, Unheard, Ignores

\* A phase on an old load, with nothing else on the job's lists than before.
LEMMA JobOld ==
  ASSUME NewbornInv, NEW s \in SessionIds, NEW p, NEW j, ~ Early(p, j),
         p \in NeedLoad => ~ Newborn(j.load),
         j.cand \subseteq job[s].cand, j.due \subseteq job[s].due
  PROVE  OldJob(p, j)
  BY DEF NewbornInv, Unheard, Ignores, OldJob, About

LEMMA RestOld == OldJob("idle", NoJob)
  BY DEF OldJob, NoJob, About, Early, NeedLoad

-----------------------------------------------------------------------------
(* What every action does, as a whole *)

\* A session goes on with uncommitted writes w.
LEMMA StageOn ==
  ASSUME IInv, BInv, NEW s \in SessionIds, NEW w, OldWrites(w),
         tx' = [tx EXCEPT ![s] = w], UNCHANGED db, OldOutside, MatchFoundHasMatch',
         NEW p, NEW j, Goto(s, p, j), OldJob(p, j), Fit(p, j, w, db), Knows(p, j, db)
  PROVE  BInv' /\ Promised
<1>1. SessionsFit'
  BY StayFits DEF BInv
<1>2. NewbornInv'
  BY NewbornStay DEF BInv
<1>3. InterestHasMatch'
  BY DEF BInv, InterestHasMatch
<1> QED BY <1>1, <1>2, <1>3, QuietPromised DEF BInv

\* Nothing is said in this step.
LEMMA Silence ==
  ASSUME MatchFoundHasMatch, UNCHANGED outside, UNCHANGED db
  PROVE  OldOutside /\ MatchFoundHasMatch'
  BY DEF OldOutside, MatchFoundHasMatch, outside

LEMMA GotoOn ==
  ASSUME IInv, BInv, NEW s \in SessionIds, UNCHANGED <<db, tx, outside, crashes>>,
         NEW p, NEW j, Goto(s, p, j), OldJob(p, j), Fit(p, j, tx[s], db), Knows(p, j, db)
  PROVE  BInv' /\ Promised
<1>1. OldOutside /\ MatchFoundHasMatch'
  BY Silence DEF BInv
<1>2. OldWrites(tx[s]) /\ tx' = [tx EXCEPT ![s] = tx[s]]
  BY PendingOld DEF BInv, IInv, DataInv
<1> QED BY <1>1, <1>2, StageOn

\* A session ends without a commit.
LEMMA AbandonOn ==
  ASSUME IInv, BInv, NEW s \in SessionIds, Abandon(s), UNCHANGED outside
  PROVE  BInv' /\ Promised
<1>1. OldOutside /\ MatchFoundHasMatch'
  BY Silence DEF BInv, Abandon
<1>2. Fit("idle", NoJob, NoWrites, db) /\ Knows("idle", NoJob, db)
  BY RestFits, NoWritesUnseen
<1> QED BY <1>1, <1>2, StageOn, NothingOld, RestOld DEF Abandon, Done

LEMMA DoneOn ==
  ASSUME IInv, BInv, NEW s \in SessionIds, UNCHANGED <<db, tx, outside, crashes>>, Done(s),
         Unseen(tx[s])
  PROVE  BInv' /\ Promised
<1>1. Fit("idle", NoJob, tx[s], db) /\ Knows("idle", NoJob, db)
  BY RestFits
<1> QED BY <1>1, GotoOn, RestOld DEF Done

\* A session commits and goes on.
LEMMA CommitLands ==
  ASSUME IInv, BInv, NEW s \in SessionIds, NEW w \in Writes, OldWrites(w), Commit(s, w),
         Whole(w, db) \/ w.interests = {}, UNCHANGED outside,
         NEW p, NEW j, Goto(s, p, j), OldJob(p, j), Commits(p, j), Knows(p, j, db')
  PROVE  BInv'
<1>1. OldOutside /\ UNCHANGED pushes
  BY DEF OldOutside, outside
<1>2. SessionsFit'
  BY CommitFits DEF BInv
<1>3. NewbornInv'
  BY <1>1, NewbornCommit DEF BInv
<1>4. MatchFoundHasMatch'
  BY <1>1, CommitAnnounced DEF BInv
<1>5. InterestHasMatch'
  <2>1. CASE w.interests = {}
    BY <2>1, CommitRows DEF BInv, InterestHasMatch, Tables
  <2>2. CASE Whole(w, db)
    BY <2>2, WholeInterests DEF BInv
  <2> QED BY <2>1, <2>2
<1> QED BY <1>2, <1>3, <1>4, <1>5 DEF BInv

LEMMA CommitOn ==
  ASSUME IInv, BInv, NEW s \in SessionIds, NEW w \in Writes, OldWrites(w), Commit(s, w),
         Whole(w, db), w.trusted = {}, UNCHANGED outside,
         NEW p, NEW j, Goto(s, p, j), OldJob(p, j), Commits(p, j),
         JobReady(p, j, db.trusted), Knows(p, j, db)
  PROVE  BInv' /\ Promised
<1>1. db \in Tables /\ db' = Overlay(db, w)
  BY DEF Commit, IInv, DataInv
<1>2. Knows(p, j, db')
  BY <1>1, KnowsStays
<1> QED BY <1>2, CommitLands, WholePromised

\* A session commits and ends.
LEMMA CommitRest ==
  ASSUME IInv, BInv, NEW s \in SessionIds, NEW w \in Writes, OldWrites(w), Commit(s, w),
         Whole(w, db) \/ w.interests = {}, UNCHANGED outside, Done(s)
  PROVE  BInv'
<1>1. Knows("idle", NoJob, db') /\ Commits("idle", NoJob)
  BY RestFits, NoWritesUnseen DEF Waiting, Commits
<1> QED BY <1>1, CommitLands, RestOld DEF Done

-----------------------------------------------------------------------------
(* Lists of notices *)

\* The notices of a list are about its load, and of its kind.
LEMMA NoticesAbout ==
  ASSUME NEW us \in Seq(Users), NEW l \in Loads, NEW kind \in NotificationType
  PROVE  \A i \in 1..Len(NoticesFor(us, l, kind)) :
           /\ NoticesFor(us, l, kind)[i][2] = l
           /\ NoticesFor(us, l, kind)[i][3] = kind
<1> DEFINE n == [i \in 1..Len(us) |-> <<us[i], l, kind>>]
<1>1. \A i \in 1..Len(us) : n[i][2] = l /\ n[i][3] = kind
  OBVIOUS
<1>2. Len(NoticesFor(us, l, kind)) = Len(us)
  BY NoticesForType
<1>3. NoticesFor(us, l, kind) = n
  BY DEF NoticesFor
<1> HIDE DEF n
<1> QED BY <1>1, <1>2, <1>3

LEMMA MatchNoticesAbout ==
  ASSUME NEW l \in Loads, NEW t \in Trucks, NEW admin \in Seq(Users),
         NEW kind \in NotificationType
  PROVE  \A i \in 1..Len(MatchNotices(l, t, admin, kind)) :
           /\ MatchNotices(l, t, admin, kind)[i][2] = l
           /\ MatchNotices(l, t, admin, kind)[i][3] = kind
<1> DEFINE us == <<ShipperOf[l], CarrierOf[t]>> \o admin
<1>1. us \in Seq(Users)
  BY Parties
<1> HIDE DEF us
<1>2. \A i \in 1..Len(NoticesFor(us, l, kind)) :
        /\ NoticesFor(us, l, kind)[i][2] = l
        /\ NoticesFor(us, l, kind)[i][3] = kind
  BY <1>1, NoticesAbout
<1> QED BY <1>2 DEF MatchNotices, us

LEMMA OwnNoticesAbout ==
  ASSUME NEW l \in Loads
  PROVE  /\ \A u \in Users : \A i \in 1..Len(NoticesFor(<<u>>, l, "BROADCAST")) :
              /\ NoticesFor(<<u>>, l, "BROADCAST")[i][2] = l
              /\ NoticesFor(<<u>>, l, "BROADCAST")[i][3] = "BROADCAST"
         /\ \A admin \in Seq(Users) : \A i \in 1..Len(InterestNotices(l, admin)) :
              /\ InterestNotices(l, admin)[i][2] = l
              /\ InterestNotices(l, admin)[i][3] = "INTEREST_RECEIVED"
<1>1. "BROADCAST" \in NotificationType /\ "INTEREST_RECEIVED" \in NotificationType
  BY DEF NotificationType
<1>2. \A u \in Users : <<u>> \in Seq(Users)
  OBVIOUS
<1>3. ASSUME NEW u \in Users, NEW i \in 1..Len(NoticesFor(<<u>>, l, "BROADCAST"))
      PROVE  /\ NoticesFor(<<u>>, l, "BROADCAST")[i][2] = l
             /\ NoticesFor(<<u>>, l, "BROADCAST")[i][3] = "BROADCAST"
  <2> DEFINE us == <<u>>
  <2>1. us \in Seq(Users)
    BY <1>2
  <2> HIDE DEF us
  <2>2. \A k \in 1..Len(NoticesFor(us, l, "BROADCAST")) :
          /\ NoticesFor(us, l, "BROADCAST")[k][2] = l
          /\ NoticesFor(us, l, "BROADCAST")[k][3] = "BROADCAST"
    BY <1>1, <2>1, NoticesAbout
  <2> QED BY <2>2 DEF us
<1>4. ASSUME NEW admin \in Seq(Users), NEW i \in 1..Len(InterestNotices(l, admin))
      PROVE  /\ InterestNotices(l, admin)[i][2] = l
             /\ InterestNotices(l, admin)[i][3] = "INTEREST_RECEIVED"
  <2> DEFINE us == <<ShipperOf[l]>> \o admin
  <2>1. us \in Seq(Users)
    BY Parties
  <2> HIDE DEF us
  <2>2. \A k \in 1..Len(NoticesFor(us, l, "INTEREST_RECEIVED")) :
          /\ NoticesFor(us, l, "INTEREST_RECEIVED")[k][2] = l
          /\ NoticesFor(us, l, "INTEREST_RECEIVED")[k][3] = "INTEREST_RECEIVED"
    BY <1>1, <2>1, NoticesAbout
  <2> QED BY <2>2 DEF InterestNotices, us
<1> QED BY <1>3, <1>4

\* A session that starts on a list about its old load.
LEMMA StartFits ==
  ASSUME NewbornInv, NEW s \in SessionIds, NEW j \in Jobs, ~ Newborn(j.load),
         j.cand \subseteq job[s].cand, j.due \subseteq job[s].due, j.op # "cancel_load",
         NEW todo \in Seq(Notices), NEW after \in Phases,
         NEW k, k = [j EXCEPT !.todo = todo, !.after = after],
         after = "scan" => j.op = "proactive",
         NEW d,
         \A i \in 1..Len(todo) :
           /\ todo[i][2] = j.load
           /\ todo[i][3] = "MATCH_FOUND" => j.truck \in Trucks /\ d.matches[MatchOf(j)] # Absent
  PROVE  OldJob("notify", k) /\ Knows("notify", k, d)
         /\ (\A w : Whole(w, d) /\ (j.op = "proactive" => Proposal(w, d) /\ w.interests = {})
                       => Fit("notify", k, w, d))
<1>1. /\ k.op = j.op /\ k.load = j.load /\ k.truck = j.truck /\ k.cand = j.cand
      /\ k.due = j.due /\ k.todo = todo /\ k.after = after
  BY DEF Jobs
<1>2. OldJob("notify", k)
  BY <1>1, JobOld DEF Early
<1>3. Knows("notify", k, d)
  BY <1>1 DEF Knows, MatchOf
<1>4. \A w : Whole(w, d) /\ (j.op = "proactive" => Proposal(w, d) /\ w.interests = {})
               => Fit("notify", k, w, d)
  BY <1>1 DEF Fit, Waiting
<1> QED BY <1>2, <1>3, <1>4

\* A session that goes on to the next notice of its list.
LEMMA NextFits ==
  ASSUME IInv, BInv, NEW s \in SessionIds, pc[s] \in {"notify", "send"}, NextNotice(s)
  PROVE  \E p, j : /\ Goto(s, p, j) /\ OldJob(p, j) /\ Knows(p, j, db)
                   /\ Fit(p, j, tx[s], db)
<1> DEFINE rest == Tail(job[s].todo)
           p == IF rest = <<>> THEN job[s].after ELSE "notify"
           j == [job[s] EXCEPT !.todo = rest]
<1>1. job[s] \in Jobs /\ NoticesReady(job[s], db.trusted) /\ job[s].todo \in Seq(Notices)
  BY DEF IInv, ControlInv, JobReady, Jobs
<1>2. /\ rest \in Seq(Notices) /\ Len(rest) = Len(job[s].todo) - 1
      /\ \A i \in 1..Len(rest) : rest[i] = job[s].todo[i + 1]
  BY <1>1 DEF NoticesReady
<1>3. /\ j.op = job[s].op /\ j.load = job[s].load /\ j.truck = job[s].truck
      /\ j.cand = job[s].cand /\ j.due = job[s].due /\ j.todo = rest /\ j.after = job[s].after
  BY <1>1 DEF Jobs
<1>4. Goto(s, p, j)
  BY DEF NextNotice
<1>5. Fit(pc[s], job[s], tx[s], db) /\ Knows(pc[s], job[s], db)
  BY DEF BInv, SessionsFit
<1>6. job[s].op # "cancel_load"
  BY <1>5 DEF Knows
<1>7. ~ Newborn(job[s].load)
  BY <1>6, LoadOld DEF NeedLoad
<1>8. p \in {"finish", "scan", "broadcast", "audience", "notify"} /\ (p = "scan" => j.op = "proactive")
  BY <1>1, <1>3, <1>5 DEF NoticesReady, Knows
<1>9. \A i \in 1..Len(rest) : i + 1 \in 1..Len(job[s].todo)
  BY <1>1, <1>2
<1> HIDE DEF p, j, rest
<1>10. OldJob(p, j)
  BY <1>3, <1>7, <1>8, JobOld DEF BInv, Early
<1>11. Knows(p, j, db)
  <2>1. ASSUME NEW i \in 1..Len(rest)
        PROVE  /\ rest[i][2] = j.load
               /\ rest[i][3] = "MATCH_FOUND" => j.truck \in Trucks /\ db.matches[MatchOf(j)] # Absent
    BY <1>2, <1>3, <1>5, <1>9 DEF Knows, MatchOf
  <2> QED BY <1>3, <1>5, <1>6, <1>8, <2>1 DEF Knows
<1>12. Fit(p, j, tx[s], db)
  BY <1>3, <1>5, <1>8 DEF Fit, Waiting
<1> QED BY <1>4, <1>10, <1>11, <1>12

-----------------------------------------------------------------------------
(* Notifications *)

LEMMA ProbeNoticePromised ==
  ASSUME IInv, BInv, NEW s \in SessionIds, ProbeNotice(s)
  PROVE  BInv' /\ Promised
<1>1. CASE NextNotice(s)
  <2>1. \E p, j : Goto(s, p, j) /\ OldJob(p, j) /\ Knows(p, j, db) /\ Fit(p, j, tx[s], db)
    BY <1>1, NextFits DEF ProbeNotice
  <2> QED BY <2>1, GotoOn DEF ProbeNotice
<1>2. CASE Goto(s, "send", job[s])
  <2>1. Fit("notify", job[s], tx[s], db) /\ Knows("notify", job[s], db)
    BY DEF BInv, SessionsFit, ProbeNotice
  <2>2. Fit("send", job[s], tx[s], db) /\ Knows("send", job[s], db)
    BY <2>1 DEF Fit, Knows, Waiting
  <2>3. ~ Newborn(job[s].load)
    BY <2>2, LoadOld DEF Knows, ProbeNotice, NeedLoad
  <2>4. OldJob("send", job[s])
    BY <2>3, JobOld DEF BInv, Early
  <2> QED BY <1>2, <2>2, <2>4, GotoOn DEF ProbeNotice
<1> QED BY <1>1, <1>2 DEF ProbeNotice

\* What Brokerage does not see does not matter to it.
LEMMA SameSeen ==
  ASSUME NEW v, NEW w, w.loads = v.loads, w.matches = v.matches, w.interests = v.interests,
         NEW d
  PROVE  /\ \A p, j : Fit(p, j, v, d) => Fit(p, j, w, d)
         /\ Whole(v, d) => Whole(w, d)
<1>1. /\ Unseen(v) => Unseen(w)
      /\ Proposal(v, d) => Proposal(w, d)
      /\ Whole(v, d) => Whole(w, d)
      /\ \A m : Interest(v, m) => Interest(w, m)
  BY DEF Unseen, Proposal, Whole, Interest, Connection
<1> QED BY <1>1 DEF Fit

\* A notice about an old load is no news of newborn ones.
LEMMA NoticeOld ==
  ASSUME NEW v \in Writes, OldWrites(v), NEW k \in Notices, ~ Newborn(k[2]),
         NEW st \in NotificationStatus \cup {NoWrite}
  PROVE  /\ [v EXCEPT !.notices[k] = st] \in Writes
         /\ OldWrites([v EXCEPT !.notices[k] = st])
<1> DEFINE w == [v EXCEPT !.notices[k] = st]
<1>1. /\ w \in Writes /\ w.loads = v.loads /\ w.matches = v.matches
      /\ \A n \in Notices \ {k} : w.notices[n] = v.notices[n]
  BY DEF Writes
<1> HIDE DEF w
<1>2. ASSUME NEW l \in Loads, Newborn(l)
      PROVE  Avoids(w, l)
  <2>1. Avoids(v, l)
    BY <1>2 DEF OldWrites
  <2>2. \A n \in Notices : n[2] = l => n # k
    BY <1>2
  <2> QED BY <1>1, <2>1, <2>2 DEF Avoids
<1>3. OldWrites(w)
  BY <1>2 DEF OldWrites
<1> QED BY <1>1, <1>3 DEF w

LEMMA SendNoticePromised ==
  ASSUME IInv, BInv, NEW s \in SessionIds, SendNotice(s)
  PROVE  BInv' /\ Promised
<1> DEFINE k == Head(job[s].todo)
           v == tx[s]
<1>1. /\ pc[s] = "send" /\ NextNotice(s) /\ UNCHANGED reminders
      /\ pushes' = [pushes EXCEPT ![k] = Counted(@)]
  BY DEF SendNotice
<1>2. PICK st \in SendOutcomes : Stage(s, [v EXCEPT !.notices[k] = st])
  BY DEF SendNotice
<1>3. /\ job[s].todo \in Seq(Notices) /\ job[s].todo # <<>>
      /\ v \in Writes /\ pushes \in [Notices -> Nat]
  BY <1>1 DEF IInv, ControlInv, DataInv, OutsideInv, JobReady, NoticesReady, Jobs
<1>4. k = job[s].todo[1] /\ k \in Notices /\ 1 \in 1..Len(job[s].todo)
  BY <1>3
<1> HIDE DEF k
<1>5. Knows("send", job[s], db)
  BY <1>1 DEF BInv, SessionsFit
<1>6. job[s].op # "cancel_load"
  BY <1>5 DEF Knows
<1>7. ~ Newborn(job[s].load)
  BY <1>1, <1>6, LoadOld DEF NeedLoad
<1>8. /\ k[2] = job[s].load
      /\ k[3] = "MATCH_FOUND" => job[s].truck \in Trucks /\ db.matches[MatchOf(job[s])] # Absent
  BY <1>4, <1>5 DEF Knows
<1> DEFINE w == [v EXCEPT !.notices[k] = st]
<1>9. w \in Writes /\ OldWrites(w)
  <2>1. OldWrites(v)
    BY PendingOld DEF BInv
  <2>2. st \in NotificationStatus \cup {NoWrite}
    BY SendAssumption DEF NotificationStatus
  <2> QED BY <1>3, <1>4, <1>7, <1>8, <2>1, <2>2, NoticeOld
<1>10. PICK p, j : Goto(s, p, j) /\ OldJob(p, j) /\ Knows(p, j, db) /\ Fit(p, j, v, db)
  BY <1>1, NextFits
<1>11. w.loads = v.loads /\ w.matches = v.matches /\ w.interests = v.interests
  BY <1>3 DEF Writes
<1>12. tx' = [tx EXCEPT ![s] = w] /\ UNCHANGED db
  BY <1>2 DEF Stage
<1> HIDE DEF w, v
<1>13. Fit(p, j, w, db)
  BY <1>10, <1>11, SameSeen
<1>14. OldOutside
  BY <1>1, <1>3, <1>4, <1>7, <1>8 DEF OldOutside
<1>15. MatchFoundHasMatch'
  <2> SUFFICES ASSUME NEW n \in Notices, n[3] = "MATCH_FOUND", pushes'[n] > 0
               PROVE  \E t \in Trucks : db'.matches[<<n[2], t>>] # Absent
    BY DEF MatchFoundHasMatch
  <2>1. CASE n = k
    BY <1>8, <1>12, <2>1 DEF MatchOf
  <2>2. CASE n # k
    BY <1>1, <1>3, <1>12, <2>2 DEF BInv, MatchFoundHasMatch
  <2> QED BY <2>1, <2>2
<1> QED BY <1>9, <1>10, <1>12, <1>13, <1>14, <1>15, StageOn

LEMMA FinishPromised ==
  ASSUME IInv, BInv, NEW s \in SessionIds, Finish(s)
  PROVE  BInv' /\ Promised
<1>1. tx[s] \in Writes /\ tx[s].trusted = {} /\ OldWrites(tx[s])
  BY PendingOld DEF IInv, DataInv, BInv
<1>2. Whole(tx[s], db)
  BY DEF BInv, SessionsFit, Fit, Waiting, Finish
<1> QED BY <1>1, <1>2, CommitRest, WholePromised DEF Finish

LEMMA NotifyPromised ==
  ASSUME IInv, BInv, NEW s \in SessionIds, NotifyStep(s)
  PROVE  BInv' /\ Promised
  BY ProbeNoticePromised, SendNoticePromised, FinishPromised, AbandonOn
     DEF NotifyStep, NoticeConflict

-----------------------------------------------------------------------------
(* Matches *)

LEMMA ProbeMatchPromised ==
  ASSUME IInv, BInv, NEW s \in SessionIds, ProbeMatch(s)
  PROVE  BInv' /\ Promised
<1>1. Fit("probe_match", job[s], tx[s], db) /\ Knows("probe_match", job[s], db)
  BY DEF BInv, SessionsFit, ProbeMatch
<1>2. job[s].op # "cancel_load"
  BY <1>1 DEF Knows
<1>3. job[s].load \in Loads /\ job[s].truck \in Trucks /\ ~ Newborn(job[s].load)
  BY <1>2, LoadOld, JobMatchType DEF ProbeMatch, NeedLoad, NeedTruck
<1>4. JobMatch(s) = MatchOf(job[s]) /\ JobMatch(s) \in Matches
  BY <1>3 DEF JobMatch, MatchOf, Matches
<1>5. \A p : ~ Early(p, job[s]) => OldJob(p, job[s])
  BY <1>3, JobOld DEF BInv
<1>6. CASE Goto(s, "insert_match", job[s])
  <2>1. Fit("insert_match", job[s], tx[s], db) /\ Knows("insert_match", job[s], db)
    BY <1>1, <1>2 DEF Fit, Knows, Waiting
  <2>2. OldJob("insert_match", job[s])
    BY <1>5 DEF Early
  <2> QED BY <1>6, <2>1, <2>2, GotoOn DEF ProbeMatch
<1>7. CASE View(s).matches[JobMatch(s)] # Absent /\ AfterExistingMatch(s)
  <2>1. CASE job[s].op = "proactive"
    <3>1. Fit("scan", job[s], tx[s], db) /\ Knows("scan", job[s], db)
      BY <1>1, <2>1 DEF Fit, Knows, Waiting
    <3>2. OldJob("scan", job[s])
      BY <1>5 DEF Early
    <3>3. Goto(s, "scan", job[s])
      BY <1>7, <2>1 DEF AfterExistingMatch
    <3> QED BY <3>1, <3>2, <3>3, GotoOn DEF ProbeMatch
  <2>2. CASE job[s].op = "register_interest"
    <3>1. Interest(tx[s], JobMatch(s))
      BY <1>1, <1>4, <2>2 DEF Fit, Waiting
    <3>2. db.matches[JobMatch(s)] # Absent
      BY <1>4, <1>7, <3>1 DEF View, Overlay, Interest
    <3>3. Whole(tx[s], db)
      BY <1>4, <3>1, <3>2 DEF Whole
    <3>4. Fit("record_interest", job[s], tx[s], db) /\ Knows("record_interest", job[s], db)
      BY <1>1, <2>2, <3>3 DEF Fit, Knows, Waiting
    <3>5. OldJob("record_interest", job[s])
      BY <1>5 DEF Early
    <3>6. Goto(s, "record_interest", job[s])
      BY <1>7, <2>2 DEF AfterExistingMatch
    <3> QED BY <3>4, <3>5, <3>6, GotoOn DEF ProbeMatch
  <2>3. CASE job[s].op \notin {"proactive", "register_interest"}
    <3>1. Unseen(tx[s])
      BY <1>1, <2>3 DEF Fit
    <3>2. Done(s)
      BY <1>7, <2>3 DEF AfterExistingMatch
    <3> QED BY <3>1, <3>2, DoneOn DEF ProbeMatch
  <2> QED BY <2>1, <2>2, <2>3
<1> QED BY <1>6, <1>7 DEF ProbeMatch

\* The writes v, with statuses for a match and its load.
With(v, l, t, ms, ls) == [v EXCEPT !.matches[<<l, t>>] = ms, !.loads[l] = ls]

\* Writes to a match and its load, both old.
LEMMA StatusOld ==
  ASSUME NEW v \in Writes, OldWrites(v), NEW l \in Loads, NEW t \in Trucks, ~ Newborn(l),
         NEW ms \in MatchStatus \cup {NoWrite}, NEW ls \in LoadStatus \cup {NoWrite}
  PROVE  LET w == With(v, l, t, ms, ls)
         IN  /\ w \in Writes /\ OldWrites(w)
             /\ w.matches[<<l, t>>] = ms /\ w.loads[l] = ls
             /\ \A m \in Matches \ {<<l, t>>} : w.matches[m] = v.matches[m]
             /\ \A k \in Loads \ {l} : w.loads[k] = v.loads[k]
             /\ w.interests = v.interests /\ w.trusted = v.trusted
<1> DEFINE w == With(v, l, t, ms, ls)
           wm == [v.matches EXCEPT ![<<l, t>>] = ms]
           wl == [v.loads EXCEPT ![l] = ls]
<1>1. v.matches \in [Matches -> MatchStatus \cup {NoWrite}]
      /\ v.loads \in [Loads -> LoadStatus \cup {NoWrite}] /\ <<l, t>> \in Matches
  BY DEF Writes, Matches
<1>2. /\ wm \in [Matches -> MatchStatus \cup {NoWrite}]
      /\ wl \in [Loads -> LoadStatus \cup {NoWrite}]
  BY <1>1
<1>3. w = [v EXCEPT !.matches = wm, !.loads = wl]
  BY DEF With
<1>4. /\ wm[<<l, t>>] = ms /\ wl[l] = ls
      /\ \A m \in Matches \ {<<l, t>>} : wm[m] = v.matches[m]
      /\ \A k \in Loads \ {l} : wl[k] = v.loads[k]
  BY <1>1
<1> HIDE DEF w, wm, wl
<1>5. /\ w \in Writes /\ w.matches = wm /\ w.loads = wl /\ w.interests = v.interests
      /\ w.trusted = v.trusted /\ w.notices = v.notices
  BY <1>2, <1>3 DEF Writes
<1>6. ASSUME NEW k \in Loads, Newborn(k)
      PROVE  Avoids(w, k)
  <2>1. Avoids(v, k) /\ k # l
    BY <1>6 DEF OldWrites
  <2>2. \A m \in Matches : m[1] = k => m # <<l, t>>
    BY <2>1
  <2> QED BY <1>4, <1>5, <2>1, <2>2 DEF Avoids
<1> QED BY <1>4, <1>5, <1>6 DEF OldWrites, w

\* A new match adds to a proposal, also to the empty one.
LEMMA ProposalGrows ==
  ASSUME NEW v, NEW d, Proposal(v, d), NEW l \in Loads, NEW t \in Trucks,
         d.matches[<<l, t>>] = Absent, NEW w,
         w.matches[<<l, t>>] = "PENDING",
         \A m \in Matches \ {<<l, t>>} : w.matches[m] = v.matches[m],
         w.loads[l] \in {v.loads[l], "MATCHED"},
         \A k \in Loads \ {l} : w.loads[k] = v.loads[k]
  PROVE  Proposal(w, d)
<1>1. \A m \in Matches : v.matches[m] = "PENDING" => w.matches[m] = "PENDING"
  OBVIOUS
<1>2. ASSUME NEW k \in Loads, w.loads[k] = "MATCHED"
      PROVE  \E u \in Trucks : w.matches[<<k, u>>] = "PENDING"
  <2>1. CASE k = l
    BY <2>1
  <2>2. CASE k # l
    <3>1. PICK u \in Trucks : v.matches[<<k, u>>] = "PENDING"
      BY <1>2, <2>2 DEF Proposal
    <3>2. <<k, u>> \in Matches
      BY DEF Matches
    <3> QED BY <1>1, <3>1, <3>2
  <2> QED BY <2>1, <2>2
<1> QED BY <1>2 DEF Proposal

\* Whole writes that make a match are a proposal.
LEMMA WholeProposes ==
  ASSUME NEW v, NEW d, Whole(v, d), NEW m \in Matches, v.matches[m] = "PENDING"
  PROVE  Proposal(v, d) /\ \A n \in v.interests : v.matches[n] = "PENDING"
<1>1. \A n \in Matches : ~ Interest(v, n) /\ ~ Connection(v, d, n)
  BY DEF Interest, Connection, NoWrite
<1> QED BY <1>1 DEF Whole

LEMMA InsertMatchPromised ==
  ASSUME IInv, BInv, NEW s \in SessionIds, InsertMatch(s)
  PROVE  BInv' /\ Promised
<1> DEFINE l == job[s].load
           t == job[s].truck
           v == tx[s]
           w == KeyWrites(s)
           ls == v.loads[l]
<1>1. job[s] \in Jobs /\ l \in Loads /\ t \in Trucks /\ JobMatch(s) = <<l, t>> /\ <<l, t>> \in Matches
  BY JobMatchType DEF InsertMatch, NeedTruck, JobMatch
<1>2. Fit("insert_match", job[s], v, db) /\ Knows("insert_match", job[s], db)
  BY DEF BInv, SessionsFit, InsertMatch
<1>3. job[s].op # "cancel_load" /\ ~ Newborn(l)
  <2>1. job[s].op # "cancel_load"
    BY <1>2 DEF Knows
  <2> QED BY <2>1, LoadOld DEF InsertMatch, NeedLoad
<1>4. v \in Writes /\ OldWrites(v) /\ v.trusted = {}
  BY PendingOld DEF IInv, DataInv, BInv
<1>5. w = With(v, l, t, "PENDING", ls)
  BY <1>1, <1>4 DEF KeyWrites, Writes, With
<1>6. /\ db.matches[<<l, t>>] = Absent /\ UNCHANGED outside
      /\ tx' = [tx EXCEPT ![s] = w] /\ UNCHANGED db
      /\ Goto(s, "mark_matched", job[s])
  BY <1>1 DEF InsertMatch, KeyTaken, Stage
<1>7. ls \in LoadStatus \cup {NoWrite}
  BY <1>1, <1>4 DEF Writes
<1>8. v.loads[l] = ls
  OBVIOUS
<1> HIDE DEF v, w, ls
<1>9. /\ w \in Writes /\ OldWrites(w)
      /\ w.matches[<<l, t>>] = "PENDING" /\ w.loads[l] = v.loads[l]
      /\ \A m \in Matches \ {<<l, t>>} : w.matches[m] = v.matches[m]
      /\ \A k \in Loads \ {l} : w.loads[k] = v.loads[k]
      /\ w.interests = v.interests /\ w.trusted = v.trusted
  <2>1. "PENDING" \in MatchStatus \cup {NoWrite}
    BY DEF MatchStatus
  <2> DEFINE x == With(v, l, t, "PENDING", ls)
  <2>2. /\ x \in Writes /\ OldWrites(x)
        /\ x.matches[<<l, t>>] = "PENDING" /\ x.loads[l] = ls
        /\ \A m \in Matches \ {<<l, t>>} : x.matches[m] = v.matches[m]
        /\ \A k \in Loads \ {l} : x.loads[k] = v.loads[k]
        /\ x.interests = v.interests /\ x.trusted = v.trusted
    BY <1>1, <1>3, <1>4, <1>7, <2>1, StatusOld
  <2> HIDE DEF x
  <2> QED BY <1>5, <1>8, <2>2 DEF x
<1>10. /\ Proposal(v, db)
       /\ job[s].op # "register_interest" => v.interests = {}
       /\ job[s].op = "register_interest" => v.interests = {<<l, t>>}
  <2>1. CASE job[s].op = "register_interest"
    BY <1>2, <2>1 DEF Fit, Waiting, MatchOf, Interest, Proposal, NoWrite
  <2>2. CASE job[s].op = "proactive"
    BY <1>2, <2>2 DEF Fit
  <2>3. CASE job[s].op \notin {"register_interest", "proactive"}
    <3>1. Unseen(v)
      BY <1>2, <2>3 DEF Fit
    <3> QED BY <2>3, <3>1, UnseenWhole DEF Unseen
  <2> QED BY <2>1, <2>2, <2>3
<1>11. Proposal(w, db)
  BY <1>1, <1>6, <1>9, <1>10, ProposalGrows
<1>12. Whole(w, db)
  BY <1>9, <1>10, <1>11 DEF Whole
<1>13. Fit("mark_matched", job[s], w, db) /\ Knows("mark_matched", job[s], db)
  BY <1>2, <1>9, <1>10, <1>11, <1>12 DEF Fit, Knows, Waiting, MatchOf
<1>14. OldJob("mark_matched", job[s])
  BY <1>1, <1>3, JobOld DEF BInv, Early
<1>15. OldOutside /\ MatchFoundHasMatch'
  BY <1>6, Silence DEF BInv
<1> QED BY <1>6, <1>9, <1>13, <1>14, <1>15, StageOn

LEMMA MarkMatchedPromised ==
  ASSUME IInv, BInv, NEW s \in SessionIds, MarkMatched(s)
  PROVE  BInv' /\ Promised
<1> DEFINE l == job[s].load
           t == job[s].truck
           v == tx[s]
           old == job[s].memo[l]
           ls == IF MatchedStatus(old) = old THEN v.loads[l] ELSE MatchedStatus(old)
           j == [job[s] EXCEPT !.memo[l] = MatchedStatus(@)]
           w == MatchWrites(s)
<1>1. job[s] \in Jobs /\ l \in Loads /\ t \in Trucks /\ JobMatch(s) = <<l, t>> /\ <<l, t>> \in Matches
  BY JobMatchType DEF MarkMatched, NeedTruck, JobMatch
<1>2. Fit("mark_matched", job[s], v, db) /\ Knows("mark_matched", job[s], db)
  BY DEF BInv, SessionsFit, MarkMatched
<1>3. job[s].op # "cancel_load" /\ ~ Newborn(l)
  <2>1. job[s].op # "cancel_load"
    BY <1>2 DEF Knows
  <2> QED BY <2>1, LoadOld DEF MarkMatched, NeedLoad
<1>4. v \in Writes /\ OldWrites(v) /\ v.trusted = {}
  BY PendingOld DEF IInv, DataInv, BInv
<1>5. ls \in LoadStatus \cup {NoWrite} /\ ls \in {v.loads[l], "MATCHED"}
  BY <1>1, <1>4 DEF MatchedStatus, LoadStatus, Writes
<1>6. w = With(v, l, t, "PENDING", ls)
  <2>1. v.matches = [v.matches EXCEPT ![<<l, t>>] = "PENDING"]
    BY <1>1, <1>2, <1>4 DEF Fit, MatchOf, Writes
  <2>2. w = [v EXCEPT !.loads[l] = ls]
    BY DEF MatchWrites
  <2>3. [v EXCEPT !.matches = v.matches] = v
    BY <1>4 DEF Writes
  <2> QED BY <2>1, <2>2, <2>3 DEF With
<1>7. j \in Jobs /\ j.op = job[s].op /\ j.load = l /\ j.truck = t /\ j.cand = job[s].cand /\ j.due = job[s].due
  BY <1>1 DEF Jobs, MatchedStatus, LoadStatus
<1>8. /\ db.matches[<<l, t>>] = Absent
      /\ Proposal(v, db) /\ \A m \in v.interests : v.matches[m] = "PENDING"
  <2>1. Whole(v, db) /\ v.matches[<<l, t>>] = "PENDING"
    BY <1>2 DEF Fit, Waiting, MatchOf
  <2>2. Proposal(v, db) /\ \A m \in v.interests : v.matches[m] = "PENDING"
    BY <1>1, <2>1, WholeProposes
  <2> QED BY <1>1, <2>1, <2>2 DEF Proposal
<1>9. UNCHANGED outside /\ SaveMatch(s)
  BY DEF MarkMatched
<1>10. \/ job[s].op \in {"create_load", "create_truck"} /\ Goto(s, "process_match", j)
       \/ job[s].op = "register_interest" /\ Goto(s, "record_interest", j)
       \/ /\ job[s].op = "proactive"
          /\ \E admin \in AdminChoices :
               StartNotices(s, j, MatchNotices(l, t, admin, "PROACTIVE_MATCH"), "scan")
  BY DEF MarkMatched
<1> HIDE DEF j, w, ls
<1>11. /\ w \in Writes /\ OldWrites(w)
       /\ w.matches[<<l, t>>] = "PENDING" /\ w.loads[l] = ls
       /\ \A m \in Matches \ {<<l, t>>} : w.matches[m] = v.matches[m]
       /\ \A k \in Loads \ {l} : w.loads[k] = v.loads[k]
       /\ w.interests = v.interests /\ w.trusted = v.trusted
  <2>1. "PENDING" \in MatchStatus \cup {NoWrite}
    BY DEF MatchStatus
  <2> DEFINE x == With(v, l, t, "PENDING", ls)
  <2>2. /\ x \in Writes /\ OldWrites(x)
        /\ x.matches[<<l, t>>] = "PENDING" /\ x.loads[l] = ls
        /\ \A m \in Matches \ {<<l, t>>} : x.matches[m] = v.matches[m]
        /\ \A k \in Loads \ {l} : x.loads[k] = v.loads[k]
        /\ x.interests = v.interests /\ x.trusted = v.trusted
    BY <1>1, <1>3, <1>4, <1>5, <2>1, StatusOld
  <2> HIDE DEF x
  <2> QED BY <1>6, <2>2 DEF x
<1>12. Proposal(w, db) /\ Whole(w, db)
  <2>1. Proposal(w, db)
    BY <1>1, <1>5, <1>8, <1>11, ProposalGrows
  <2>2. \A m \in w.interests : w.matches[m] = "PENDING"
    BY <1>4, <1>8, <1>11 DEF Writes
  <2> QED BY <2>1, <2>2 DEF Whole
<1>13. CASE job[s].op \in {"create_load", "create_truck"} /\ Goto(s, "process_match", j)
  <2>1. Commit(s, w)
    BY <1>9, <1>13 DEF SaveMatch, w
  <2>4. Whole(w, db)
    BY <1>12
  <2>5. db'.matches[<<l, t>>] # Absent
    BY <1>1, <1>11, <2>1, CommitRows DEF NoWrite, Absent
  <2>6. Knows("process_match", j, db')
    BY <1>7, <1>13, <2>5 DEF Knows, MatchOf
  <2>7. OldJob("process_match", j) /\ Commits("process_match", j)
    BY <1>3, <1>7, JobOld DEF BInv, Early, Waiting, Commits
  <2>8. BInv'
    BY <1>9, <1>11, <1>13, <2>1, <2>4, <2>6, <2>7, CommitLands
  <2>9. Promised
    BY <1>4, <1>11, <2>1, <2>4, WholePromised
  <2> QED BY <2>8, <2>9
<1>14. CASE job[s].op = "register_interest" /\ Goto(s, "record_interest", j)
  <2>1. tx' = [tx EXCEPT ![s] = w] /\ UNCHANGED db
    BY <1>9, <1>14 DEF SaveMatch, Stage, w
  <2>5. Whole(w, db)
    BY <1>12
  <2>6. Fit("record_interest", j, w, db) /\ Knows("record_interest", j, db)
    BY <1>7, <1>14, <2>5 DEF Fit, Knows, Waiting
  <2>7. OldJob("record_interest", j)
    BY <1>3, <1>7, JobOld DEF BInv, Early
  <2>8. OldOutside /\ MatchFoundHasMatch'
    BY <1>9, <2>1, Silence DEF BInv
  <2> QED BY <1>11, <1>14, <2>1, <2>6, <2>7, <2>8, StageOn
<1>15. CASE /\ job[s].op = "proactive"
            /\ \E admin \in AdminChoices :
                 StartNotices(s, j, MatchNotices(l, t, admin, "PROACTIVE_MATCH"), "scan")
  <2>1. tx' = [tx EXCEPT ![s] = w] /\ UNCHANGED db
    BY <1>9, <1>15 DEF SaveMatch, Stage, w
  <2>2. PICK admin \in AdminChoices :
          StartNotices(s, j, MatchNotices(l, t, admin, "PROACTIVE_MATCH"), "scan")
    BY <1>15
  <2> DEFINE todo == MatchNotices(l, t, admin, "PROACTIVE_MATCH")
             k == [j EXCEPT !.todo = todo, !.after = "scan"]
  <2>3. admin \in Seq(Users) /\ "PROACTIVE_MATCH" \in NotificationType /\ "scan" \in Phases
    BY Parties DEF NotificationType, Phases
  <2>4. todo \in Seq(Notices)
    BY <1>1, <2>3, MatchNoticesType
  <2>5. \A i \in 1..Len(todo) : todo[i][2] = l /\ todo[i][3] = "PROACTIVE_MATCH"
    BY <1>1, <2>3, MatchNoticesAbout
  <2>6. Goto(s, "notify", k)
    BY <2>2 DEF StartNotices
  <2> HIDE DEF todo
  <2>7. \A i \in 1..Len(todo) :
          /\ todo[i][2] = j.load
          /\ todo[i][3] = "MATCH_FOUND" => j.truck \in Trucks /\ db.matches[MatchOf(j)] # Absent
    BY <1>7, <2>5
  <2>8. /\ ~ Newborn(j.load) /\ j.cand \subseteq job[s].cand /\ j.due \subseteq job[s].due
        /\ j.op # "cancel_load" /\ j.op = "proactive"
    BY <1>3, <1>7, <1>15
  <2>9. Proposal(w, db) /\ w.interests = {} /\ Whole(w, db)
    BY <1>2, <1>11, <1>12, <1>15 DEF Fit, Whole
  <2>10. /\ OldJob("notify", k) /\ Knows("notify", k, db)
         /\ (\A x : Whole(x, db) /\ (j.op = "proactive" => Proposal(x, db) /\ x.interests = {})
                       => Fit("notify", k, x, db))
    BY <1>7, <2>3, <2>4, <2>7, <2>8, StartFits DEF BInv
  <2> HIDE DEF k
  <2>11. Fit("notify", k, w, db)
    BY <2>9, <2>10
  <2>12. OldOutside /\ MatchFoundHasMatch'
    BY <1>9, <2>1, Silence DEF BInv
  <2> QED BY <1>11, <2>1, <2>6, <2>10, <2>11, <2>12, StageOn
<1> QED BY <1>10, <1>13, <1>14, <1>15

\* A session starts on notices of a match that is stored, after writes w.
LEMMA MatchNoticesFit ==
  ASSUME IInv, BInv, NEW s \in SessionIds, NEW j \in Jobs,
         j.load \in Loads, j.truck \in Trucks, ~ Newborn(j.load),
         j.cand \subseteq job[s].cand, j.due \subseteq job[s].due,
         j.op \notin {"cancel_load", "proactive"}, db.matches[MatchOf(j)] # Absent,
         NEW kind \in {"MATCH_FOUND", "AUTO_CONNECTED"}, NEW admin \in Seq(Users),
         StartNotices(s, j, MatchNotices(j.load, j.truck, admin, kind), "finish"),
         NEW w, Whole(w, db)
  PROVE  \E k : /\ Goto(s, "notify", k) /\ OldJob("notify", k)
                /\ Knows("notify", k, db) /\ Fit("notify", k, w, db)
<1> DEFINE todo == MatchNotices(j.load, j.truck, admin, kind)
           k == [j EXCEPT !.todo = todo, !.after = "finish"]
<1>1. kind \in NotificationType /\ "finish" \in Phases
  BY DEF NotificationType, Phases
<1>2. todo \in Seq(Notices)
  BY <1>1, MatchNoticesType
<1>3. \A i \in 1..Len(todo) : todo[i][2] = j.load
  BY <1>1, MatchNoticesAbout
<1>4. Goto(s, "notify", k)
  BY DEF StartNotices
<1> HIDE DEF todo
<1>5. \A i \in 1..Len(todo) :
        /\ todo[i][2] = j.load
        /\ todo[i][3] = "MATCH_FOUND" => j.truck \in Trucks /\ db.matches[MatchOf(j)] # Absent
  BY <1>3
<1>6. /\ OldJob("notify", k) /\ Knows("notify", k, db)
      /\ (\A x : Whole(x, db) /\ (j.op = "proactive" => Proposal(x, db) /\ x.interests = {})
                    => Fit("notify", k, x, db))
  BY <1>1, <1>2, <1>5, StartFits DEF BInv
<1> HIDE DEF k
<1>7. Fit("notify", k, w, db)
  BY <1>6
<1> QED BY <1>4, <1>6, <1>7

LEMMA MediateMatchPromised ==
  ASSUME IInv, BInv, NEW s \in SessionIds, MediateMatch(s)
  PROVE  BInv' /\ Promised
<1>1. job[s] \in Jobs /\ job[s].load \in Loads /\ job[s].truck \in Trucks
  BY JobMatchType DEF MediateMatch, NeedTruck
<1>2. Fit("process_match", job[s], tx[s], db) /\ Knows("process_match", job[s], db)
  BY DEF BInv, SessionsFit, MediateMatch
<1>3. job[s].op \notin {"cancel_load", "proactive"} /\ db.matches[MatchOf(job[s])] # Absent
  BY <1>2 DEF Knows
<1>4. ~ Newborn(job[s].load) /\ Whole(tx[s], db)
  BY <1>2, <1>3, LoadOld DEF MediateMatch, NeedLoad, Fit, Waiting
<1>5. PICK admin \in AdminChoices :
        StartNotices(s, job[s],
          MatchNotices(job[s].load, job[s].truck, admin, "MATCH_FOUND"), "finish")
  BY DEF MediateMatch
<1>6. admin \in Seq(Users)
  BY Parties
<1>7. PICK k : /\ Goto(s, "notify", k) /\ OldJob("notify", k)
               /\ Knows("notify", k, db) /\ Fit("notify", k, tx[s], db)
  BY <1>1, <1>3, <1>4, <1>5, <1>6, MatchNoticesFit
<1> QED BY <1>7, GotoOn DEF MediateMatch

LEMMA AutoConnectPromised ==
  ASSUME IInv, BInv, NEW s \in SessionIds, AutoConnect(s)
  PROVE  BInv' /\ Promised
<1> DEFINE l == job[s].load
           t == job[s].truck
           j == [job[s] EXCEPT !.memo[l] = "CONNECTED"]
           v == tx[s]
           ls == Assign(job[s].memo[l], "CONNECTED")
           w == With(v, l, t, "CONNECTED", ls)
<1>1. job[s] \in Jobs /\ l \in Loads /\ t \in Trucks /\ JobMatch(s) = <<l, t>> /\ <<l, t>> \in Matches
  BY JobMatchType DEF AutoConnect, NeedTruck, JobMatch
<1>2. Fit("process_match", job[s], v, db) /\ Knows("process_match", job[s], db)
  BY DEF BInv, SessionsFit, AutoConnect
<1>3. /\ job[s].op \in {"create_load", "create_truck"}
      /\ db.matches[<<l, t>>] # Absent /\ Unseen(v)
  BY <1>2 DEF Knows, Fit, MatchOf
<1>4. ~ Newborn(l)
  BY <1>3, LoadOld DEF AutoConnect, NeedLoad
<1>5. v \in Writes /\ OldWrites(v) /\ v.trusted = {} /\ db \in Tables
  BY PendingOld DEF IInv, DataInv, BInv
<1>6. PairOf(<<l, t>>) \in db.trusted
  BY <1>1, <1>5, OverlayType DEF AutoConnect, IsTrusted, View
<1>7. ls \in {NoWrite, "CONNECTED"}
  BY DEF Assign
<1>8. tx' = [tx EXCEPT ![s] = w] /\ UNCHANGED db /\ UNCHANGED outside
  BY <1>1 DEF AutoConnect, Stage, With
<1>9. /\ j \in Jobs /\ j.op = job[s].op /\ j.load = l /\ j.truck = t
      /\ j.cand = job[s].cand /\ j.due = job[s].due
  BY <1>1 DEF Jobs, LoadStatus
<1>10. PICK admin \in AdminChoices :
         StartNotices(s, j, MatchNotices(l, t, admin, "AUTO_CONNECTED"), "finish")
  BY DEF AutoConnect
<1> HIDE DEF ls, w, j
<1>11. /\ w \in Writes /\ OldWrites(w)
       /\ w.matches[<<l, t>>] = "CONNECTED" /\ w.loads[l] = ls
       /\ \A m \in Matches \ {<<l, t>>} : w.matches[m] = v.matches[m]
       /\ \A k \in Loads \ {l} : w.loads[k] = v.loads[k]
       /\ w.interests = v.interests /\ w.trusted = v.trusted
  <2>1. "CONNECTED" \in MatchStatus \cup {NoWrite} /\ ls \in LoadStatus \cup {NoWrite}
    BY <1>7 DEF MatchStatus, LoadStatus
  <2> QED BY <1>1, <1>4, <1>5, <2>1, StatusOld DEF w
<1>12. Connection(w, db, <<l, t>>)
  BY <1>3, <1>6, <1>7, <1>11 DEF Connection, Unseen
<1>13. Whole(w, db)
  BY <1>1, <1>12 DEF Whole
<1>14. admin \in Seq(Users)
  BY Parties
<1>15. PICK k : /\ Goto(s, "notify", k) /\ OldJob("notify", k)
                /\ Knows("notify", k, db) /\ Fit("notify", k, w, db)
  <2>1. db.matches[MatchOf(j)] # Absent
    BY <1>3, <1>9 DEF MatchOf
  <2>2. j.op \notin {"cancel_load", "proactive"}
    BY <1>3, <1>9
  <2>3. j.load \in Loads /\ j.truck \in Trucks /\ ~ Newborn(j.load)
        /\ j.cand \subseteq job[s].cand /\ j.due \subseteq job[s].due
    BY <1>1, <1>4, <1>9
  <2>4. StartNotices(s, j, MatchNotices(j.load, j.truck, admin, "AUTO_CONNECTED"), "finish")
    BY <1>9, <1>10
  <2> QED BY <1>9, <1>13, <1>14, <2>1, <2>2, <2>3, <2>4, MatchNoticesFit
<1>16. OldOutside /\ MatchFoundHasMatch'
  BY <1>8, Silence DEF BInv
<1> QED BY <1>8, <1>11, <1>15, <1>16, StageOn

LEMMA MatchPromised ==
  ASSUME IInv, BInv, NEW s \in SessionIds, MatchStep(s)
  PROVE  BInv' /\ Promised
  BY ProbeMatchPromised, InsertMatchPromised, MarkMatchedPromised, AutoConnectPromised, MediateMatchPromised,
     AbandonOn DEF MatchStep, MatchConflict

-----------------------------------------------------------------------------
(* create_load *)

\* The writes of a load's status, and what a commit of them does.
OneLoad(l, st) == [NoWrites EXCEPT !.loads[l] = st]

LEMMA LoadWrites ==
  ASSUME NEW l \in Loads, NEW st \in LoadStatus \cup {NoWrite}
  PROVE  LET w == OneLoad(l, st)
         IN  /\ w \in Writes /\ w.trusted = {} /\ w.interests = {} /\ w.loads[l] = st
             /\ \A k \in Loads \ {l} : w.loads[k] = NoWrite
             /\ \A m \in Matches : w.matches[m] = NoWrite
             /\ \A k \in Notices : w.notices[k] = NoWrite
<1> DEFINE w == OneLoad(l, st)
<1>1. w \in Writes
  BY PlainWritesSafe DEF SafeWrites, OneLoad
<1>2. /\ w.trusted = {} /\ w.interests = {} /\ w.loads[l] = st
      /\ w.matches = NoWrites.matches /\ w.notices = NoWrites.notices
      /\ \A k \in Loads \ {l} : w.loads[k] = NoWrite
  BY DEF NoWrites, OneLoad
<1> HIDE DEF w
<1>3. /\ \A m \in Matches : w.matches[m] = NoWrite
      /\ \A k \in Notices : w.notices[k] = NoWrite
  BY <1>2 DEF NoWrites
<1> QED BY <1>1, <1>2, <1>3 DEF w

LEMMA LoadCommit ==
  ASSUME IInv, NEW s \in SessionIds, NEW l \in Loads, NEW st \in LoadStatus \cup {NoWrite},
         Commit(s, OneLoad(l, st))
  PROVE  /\ db'.loads = IF st = NoWrite THEN db.loads ELSE [db.loads EXCEPT ![l] = st]
         /\ db'.matches = db.matches /\ db'.interests = db.interests
         /\ db'.trusted = db.trusted
         /\ \A k \in Notices : db'.notices[k] = db.notices[k]
<1> DEFINE w == OneLoad(l, st)
<1>1. /\ w \in Writes /\ w.trusted = {} /\ w.interests = {} /\ w.loads[l] = st
      /\ \A k \in Loads \ {l} : w.loads[k] = NoWrite
      /\ \A m \in Matches : w.matches[m] = NoWrite
      /\ \A k \in Notices : w.notices[k] = NoWrite
  BY LoadWrites
<1>2. Commit(s, w)
  OBVIOUS
<1> HIDE DEF w
<1>3. db'.matches = db.matches /\ db'.interests = db.interests /\ db'.trusted = db.trusted
  <2>1. db \in Tables /\ db' \in Tables /\ \A m \in Matches : db'.matches[m] = db.matches[m]
    BY <1>1, <1>2, CommitRows
  <2>2. db'.interests = db.interests /\ db'.trusted = db.trusted
    BY <1>1, <1>2, CommitRows
  <2> QED BY <2>1, <2>2, SameTables
<1>4. \A k \in Notices : db'.notices[k] = db.notices[k]
  BY <1>1, <1>2, CommitRows
<1>5. db.loads \in [Loads -> LoadStatus \cup {Absent}] /\ db'.loads \in [Loads -> LoadStatus \cup {Absent}]
  BY <1>1, <1>2, CommitRows DEF Tables
<1>6. CASE st = NoWrite
  <2>1. \A k \in Loads : db'.loads[k] = db.loads[k]
    BY <1>1, <1>2, <1>6, CommitRows
  <2> QED BY <1>3, <1>4, <1>5, <1>6, <2>1, SameRows
<1>7. CASE st # NoWrite
  <2> DEFINE f == [db.loads EXCEPT ![l] = st]
  <2>1. f \in [Loads -> LoadStatus \cup {Absent}]
    BY <1>5, <1>7
  <2>2. \A k \in Loads : db'.loads[k] = f[k]
    BY <1>1, <1>2, <1>5, <1>7, CommitRows
  <2> HIDE DEF f
  <2>3. db'.loads = f
    BY <1>5, <2>1, <2>2, SameRows
  <2> QED BY <1>3, <1>4, <1>7, <2>3 DEF f
<1> QED BY <1>6, <1>7

\* create_load is alone with its load until it has finished its search.
LEMMA EarlyAlone ==
  ASSUME NewbornInv, NEW s \in SessionIds, Early(pc[s], job[s]), job[s].load \in Loads
  PROVE  /\ Newborn(job[s].load) /\ db.loads[job[s].load] \in {"NEW", "CANCELLED"}
         /\ \A o \in SessionIds \ {s} : ~ (Early(pc[o], job[o]) /\ job[o].load = job[s].load)
<1>1. Newborn(job[s].load)
  BY DEF Newborn
<1>2. Unheard(job[s].load)
  BY <1>1 DEF NewbornInv
<1>3. About(pc[s], job[s], job[s].load)
  BY DEF About
<1> QED BY <1>1, <1>2, <1>3 DEF Unheard, NoRows, Ignores

\* And then it has told somebody.
LEMMA Grown ==
  ASSUME IInv, NewbornInv, NEW s \in SessionIds, Early(pc[s], job[s]), job[s].load \in Loads,
         db'.loads[job[s].load] # Absent, NEW p, NEW j, Goto(s, p, j), ~ Early(p, j)
  PROVE  \A l \in Loads : l = job[s].load => ~ Newborn(l)'
<1> SUFFICES ASSUME NEW l \in Loads, l = job[s].load PROVE ~ Newborn(l)'
  OBVIOUS
<1>1. pc \in [SessionIds -> Phases] /\ job \in [SessionIds -> Jobs]
  BY DEF IInv, ControlInv
<1>2. pc'[s] = p /\ job'[s] = j /\ \A o \in SessionIds \ {s} : pc'[o] = pc[o] /\ job'[o] = job[o]
  BY <1>1 DEF Goto
<1>3. \A o \in SessionIds \ {s} : ~ (Early(pc[o], job[o]) /\ job[o].load = l)
  BY EarlyAlone
<1>4. ASSUME NEW o \in SessionIds, Early(pc'[o], job'[o]), job'[o].load = l
      PROVE  FALSE
  <2>1. CASE o = s
    BY <1>2, <1>4, <2>1
  <2>2. CASE o # s
    BY <1>2, <1>3, <1>4, <2>2
  <2> QED BY <2>1, <2>2
<1> QED BY <1>4 DEF Newborn

\* A commit of one load's status keeps the matches, interests and messages, and
\* the rows of the newborn loads but, perhaps, one.
LEMMA LoadCommitKeeps ==
  ASSUME IInv, BInv, NEW s \in SessionIds, NEW l \in Loads,
         NEW st \in LoadStatus \cup {NoWrite}, Commit(s, OneLoad(l, st)), UNCHANGED outside
  PROVE  /\ InterestHasMatch' /\ MatchFoundHasMatch'
         /\ \A k \in Loads : db.loads[k] # Absent => db'.loads[k] # Absent
         /\ \A k \in Loads \ {l} : db'.loads[k] = db.loads[k]
         /\ db'.loads[l] = IF st = NoWrite THEN db.loads[l] ELSE st
         /\ \A k \in Loads : Newborn(k) /\ db'.loads[k] \in {Absent, "NEW", "CANCELLED"} => NoRows(k)'
<1> DEFINE w == OneLoad(l, st)
<1>1. /\ w \in Writes /\ w.interests = {} /\ w.loads[l] = st
      /\ \A k \in Loads \ {l} : w.loads[k] = NoWrite
  BY LoadWrites
<1>2. Commit(s, w)
  OBVIOUS
<1> HIDE DEF w
<1>3. /\ db'.matches = db.matches /\ db'.interests = db.interests
      /\ \A k \in Notices : db'.notices[k] = db.notices[k]
  BY LoadCommit
<1>4. UNCHANGED <<pushes, reminders>>
  BY DEF outside
<1>5. InterestHasMatch' /\ MatchFoundHasMatch'
  BY <1>3, <1>4 DEF BInv, InterestHasMatch, MatchFoundHasMatch
<1>6. /\ \A k \in Loads : db.loads[k] # Absent => db'.loads[k] # Absent
      /\ \A k \in Loads \ {l} : db'.loads[k] = db.loads[k]
      /\ db'.loads[l] = IF st = NoWrite THEN db.loads[l] ELSE st
  BY <1>1, <1>2, CommitRows
<1>7. ASSUME NEW k \in Loads, Newborn(k), db'.loads[k] \in {Absent, "NEW", "CANCELLED"}
      PROVE  NoRows(k)'
  <2>1. NoRows(k)
    BY <1>7 DEF BInv, NewbornInv, Unheard
  <2> QED BY <1>3, <1>4, <1>7, <2>1 DEF NoRows
<1> QED BY <1>5, <1>6, <1>7

LEMMA CreateLoadPromised ==
  ASSUME IInv, BInv, NEW s \in SessionIds, NEW l \in Loads, CreateLoad(s, l)
  PROVE  BInv' /\ Promised
<1> DEFINE j == [NoJob EXCEPT !.op = "create_load", !.load = l]
<1>1. /\ db.loads[l] = Absent /\ Commit(s, OneLoad(l, "NEW")) /\ Goto(s, "search", j)
      /\ UNCHANGED outside
  BY DEF CreateLoad, OneLoad
<1>2. j.op = "create_load" /\ j.load = l /\ j.cand = {} /\ j.due = {}
  BY DEF NoJob
<1> HIDE DEF j
<1>3. "NEW" \in LoadStatus \cup {NoWrite} /\ "NEW" # NoWrite
  BY DEF LoadStatus, NoWrite
<1>4. /\ InterestHasMatch' /\ MatchFoundHasMatch'
      /\ \A k \in Loads : db.loads[k] # Absent => db'.loads[k] # Absent
      /\ \A k \in Loads \ {l} : db'.loads[k] = db.loads[k]
      /\ db'.loads[l] = "NEW"
      /\ \A k \in Loads : Newborn(k) /\ db'.loads[k] \in {Absent, "NEW", "CANCELLED"} => NoRows(k)'
  BY <1>1, <1>3, LoadCommitKeeps
<1>5. SessionsFit'
  <2>1. OneLoad(l, "NEW") \in Writes
    BY <1>3, LoadWrites
  <2>2. Knows("search", j, db') /\ Commits("search", j)
    BY <1>2 DEF Knows, Waiting, Commits
  <2> QED BY <1>1, <2>1, <2>2, CommitFits DEF BInv
<1>6. NewbornInv'
  <2>1. Early("search", j) /\ Newborn(l)
    BY <1>1, <1>2 DEF Early, Newborn
  <2>2. ASSUME NEW o \in SessionIds, Early(pc[o], job[o]), job[o].load = l
        PROVE  FALSE
    <3>1. About(pc[o], job[o], l)
      BY <2>2 DEF About
    <3> QED BY <1>1, <2>1, <3>1 DEF BInv, NewbornInv, Unheard, Ignores
  <2>3. ASSUME NEW k \in Loads, Newborn(k)
        PROVE  NoRows(k)' /\ Ignores("search", j, NoWrites, db', k)
    <3>1. NoRows(k)'
      <4>1. db.loads[k] \in {Absent, "NEW", "CANCELLED"}
        BY <2>3 DEF BInv, NewbornInv, Unheard, NoRows
      <4> QED BY <1>4, <2>3, <4>1
    <3>2. Avoids(NoWrites, k)
      BY DEF Avoids, NoWrites
    <3>3. About("search", j, k) => db'.loads[k] # Absent
      BY <1>2, <1>4 DEF About, Absent
    <3>4. Ignores("search", j, NoWrites, db', k)
      BY <1>2, <2>1, <3>2, <3>3 DEF Ignores
    <3> QED BY <3>1, <3>4
  <2>4. tx' = [tx EXCEPT ![s] = NoWrites]
    BY <1>1 DEF Commit
  <2>5. Newborn(j.load) /\ \A o \in SessionIds \ {s} : ~ (Early(pc[o], job[o]) /\ job[o].load = j.load)
    BY <1>2, <2>1, <2>2
  <2> QED BY <1>1, <1>4, <2>3, <2>4, <2>5, NewbornKept DEF BInv
<1>7. Promise!Post(l)
  BY <1>1, <1>3, LoadCommit DEF Promise!Post, Promise!Absent, Absent
<1> QED BY <1>4, <1>5, <1>6, <1>7 DEF BInv, Promised, Promise!Next

LEMMA SearchTruckPromised ==
  ASSUME IInv, BInv, NEW s \in SessionIds, SearchTruck(s)
  PROVE  BInv' /\ Promised
<1> DEFINE l == job[s].load
           r == Remember(s, l)
<1>1. job[s] \in Jobs /\ l \in Loads /\ Early(pc[s], job[s])
  BY DEF IInv, ControlInv, JobReady, SearchTruck, Early
<1>2. r \in Jobs /\ r = [job[s] EXCEPT !.memo = r.memo]
  BY <1>1, RememberType DEF IInv
<1>3. /\ r.op = "create_load" /\ r.load = l /\ r.cand = job[s].cand /\ r.due = job[s].due
  BY <1>1, <1>2 DEF Jobs, SearchTruck
<1>4. /\ \/ \E t : Goto(s, "probe_match", [r EXCEPT !.truck = t])
         \/ Goto(s, "no_match", r)
      /\ UNCHANGED <<db, tx, outside, crashes>>
  BY DEF SearchTruck
<1> HIDE DEF r
<1>5. PICK p, j : /\ p = "no_match" \/ p = "probe_match"
                  /\ Goto(s, p, j) /\ j.op = "create_load" /\ j.load = l
                  /\ j.cand = job[s].cand /\ j.due = job[s].due
  <2>1. CASE Goto(s, "no_match", r)
    BY <1>3, <2>1
  <2>2. CASE \E t : Goto(s, "probe_match", [r EXCEPT !.truck = t])
    <3>1. PICK t : Goto(s, "probe_match", [r EXCEPT !.truck = t])
      BY <2>2
    <3> DEFINE j == [r EXCEPT !.truck = t]
    <3>2. j.op = r.op /\ j.load = r.load /\ j.cand = r.cand /\ j.due = r.due
      BY <1>2 DEF Jobs
    <3> HIDE DEF j
    <3> QED BY <1>3, <3>1, <3>2 DEF j
  <2> QED BY <1>4, <2>1, <2>2
<1>6. /\ Newborn(l) /\ db.loads[l] \in {"NEW", "CANCELLED"}
      /\ \A o \in SessionIds \ {s} : ~ (Early(pc[o], job[o]) /\ job[o].load = l)
  BY <1>1, EarlyAlone DEF BInv
<1>7. OldOutside /\ MatchFoundHasMatch' /\ InterestHasMatch'
  BY <1>4, Silence DEF BInv, InterestHasMatch
<1>8. SessionsFit'
  <2>1. Fit("search", job[s], tx[s], db) /\ job[s].op = "create_load"
    BY DEF BInv, SessionsFit, SearchTruck
  <2>2. Fit(p, j, tx[s], db) /\ Knows(p, j, db)
    BY <1>5, <2>1 DEF Fit, Knows, Waiting
  <2> QED BY <1>4, <1>5, <2>2, GotoFits DEF BInv
<1>9. NewbornInv'
  <2>1. ASSUME NEW k \in Loads, Newborn(k), Newborn(k)'
        PROVE  NoRows(k)' /\ Ignores(p, j, tx[s], db', k)
    <3>1. NoRows(k) /\ Ignores(pc[s], job[s], tx[s], db, k)
      BY <2>1 DEF BInv, NewbornInv, Unheard
    <3>2. NoRows(k)'
      BY <1>4, <3>1 DEF NoRows, outside
    <3>3. CASE k = l
      <4>1. Early(p, j)
        <5>1. db'.loads[l] # Absent
          BY <1>4, <1>6 DEF Absent
        <5> QED BY <1>1, <1>5, <2>1, <3>3, <5>1, Grown DEF BInv
      <4>2. db'.loads[k] # Absent
        BY <1>4, <1>6, <3>3 DEF Absent
      <4> QED BY <1>5, <3>1, <3>2, <4>1, <4>2 DEF Ignores
    <3>4. CASE k # l
      <4>1. ~ About(p, j, k)
        BY <1>5, <3>4 DEF About
      <4> QED BY <1>5, <3>1, <3>2, <4>1 DEF Ignores
    <3> QED BY <3>3, <3>4
  <2>2. tx' = [tx EXCEPT ![s] = tx[s]]
    BY <1>4 DEF IInv, DataInv
  <2>3. \A k \in Loads : db.loads[k] # Absent => db'.loads[k] # Absent
    BY <1>4
  <2>4. Newborn(j.load) /\ \A o \in SessionIds \ {s} : ~ (Early(pc[o], job[o]) /\ job[o].load = j.load)
    BY <1>5, <1>6
  <2> QED BY <1>5, <2>1, <2>2, <2>3, <2>4, NewbornKept DEF BInv
<1> QED BY <1>4, <1>7, <1>8, <1>9, QuietPromised DEF BInv

LEMMA SetWaitingPromised ==
  ASSUME IInv, BInv, NEW s \in SessionIds, SetWaiting(s)
  PROVE  BInv' /\ Promised
<1> DEFINE l == job[s].load
           st == Assign(job[s].memo[l], "WAITING_FOR_MATCH")
           j == [job[s] EXCEPT !.memo[l] = "WAITING_FOR_MATCH"]
           todo == NoticesFor(<<ShipperOf[l]>>, l, "BROADCAST")
           k == [j EXCEPT !.todo = todo, !.after = "audience"]
<1>1. job[s] \in Jobs /\ l \in Loads /\ Early(pc[s], job[s])
  BY DEF IInv, ControlInv, JobReady, NeedLoad, SetWaiting, Early
<1>2. st \in LoadStatus \cup {NoWrite} /\ st \in {NoWrite, "WAITING_FOR_MATCH"}
  BY DEF Assign, LoadStatus
<1>3. j \in Jobs /\ j.op = job[s].op /\ j.load = l /\ j.cand = job[s].cand /\ j.due = job[s].due
  BY <1>1 DEF Jobs, LoadStatus
<1>4. todo \in Seq(Notices) /\ \A i \in 1..Len(todo) : todo[i][2] = l /\ todo[i][3] = "BROADCAST"
  BY <1>1, Parties, OneNoticeType, OwnNoticesAbout
<1>5. Commit(s, OneLoad(l, st)) /\ Goto(s, "notify", k) /\ UNCHANGED outside
  BY DEF SetWaiting, OneLoad, StartNotices
<1> HIDE DEF st, j, todo
<1>6. /\ k.op = job[s].op /\ k.load = l /\ k.cand = job[s].cand /\ k.due = job[s].due
      /\ k.todo = todo /\ k.after = "audience"
  BY <1>3, <1>4 DEF Jobs
<1> HIDE DEF k
<1>7. /\ InterestHasMatch' /\ MatchFoundHasMatch'
      /\ \A n \in Loads : db.loads[n] # Absent => db'.loads[n] # Absent
      /\ \A n \in Loads \ {l} : db'.loads[n] = db.loads[n]
      /\ \A n \in Loads : Newborn(n) /\ db'.loads[n] \in {Absent, "NEW", "CANCELLED"} => NoRows(n)'
  BY <1>1, <1>2, <1>5, LoadCommitKeeps
<1>8. Newborn(l) /\ db.loads[l] \in {"NEW", "CANCELLED"}
  BY <1>1, EarlyAlone DEF BInv
<1>9. SessionsFit'
  <2>1. OneLoad(l, st) \in Writes
    BY <1>1, <1>2, LoadWrites
  <2>2. job[s].op # "cancel_load"
    BY DEF BInv, SessionsFit, Knows, SetWaiting
  <2>3. Knows("notify", k, db') /\ Commits("notify", k)
    BY <1>4, <1>6, <2>2 DEF Knows, Waiting, Commits
  <2> QED BY <1>5, <2>1, <2>3, CommitFits DEF BInv
<1>10. NewbornInv'
  <2>1. ~ Early("notify", k)
    BY DEF Early
  <2>2. \A n \in Loads : n = l => ~ Newborn(n)'
    <3>1. db'.loads[l] # Absent
      BY <1>1, <1>7, <1>8 DEF Absent
    <3> QED BY <1>1, <1>5, <2>1, <3>1, Grown DEF BInv
  <2>3. ASSUME NEW n \in Loads, Newborn(n), Newborn(n)'
        PROVE  NoRows(n)' /\ Ignores("notify", k, NoWrites, db', n)
    <3>1. n # l
      BY <2>2, <2>3
    <3>2. NoRows(n) /\ Ignores(pc[s], job[s], tx[s], db, n)
      BY <2>3 DEF BInv, NewbornInv, Unheard
    <3>3. NoRows(n)'
      BY <1>7, <2>3, <3>1, <3>2 DEF NoRows
    <3>4. Avoids(NoWrites, n) /\ ~ About("notify", k, n)
      BY <1>6, <3>1 DEF Avoids, NoWrites, About
    <3> QED BY <1>6, <3>2, <3>3, <3>4 DEF Ignores
  <2>4. tx' = [tx EXCEPT ![s] = NoWrites]
    BY <1>5 DEF Commit
  <2> QED BY <1>5, <1>7, <2>1, <2>3, <2>4, NewbornKept DEF BInv
<1>11. /\ db'.loads = IF st = NoWrite THEN db.loads ELSE [db.loads EXCEPT ![l] = st]
       /\ db'.matches = db.matches /\ db'.interests = db.interests
       /\ db'.trusted = db.trusted
  BY <1>1, <1>2, <1>5, LoadCommit
<1>12. Promised
  <2>1. CASE st = NoWrite
    BY <1>11, <2>1 DEF Promised, Promise!brokerVars
  <2>2. CASE st # NoWrite
    <3>1. Promise!Wait(l)
      BY <1>2, <1>8, <1>11, <2>2 DEF Promise!Wait
    <3> QED BY <1>1, <3>1 DEF Promised, Promise!Next
  <2> QED BY <2>1, <2>2
<1> QED BY <1>7, <1>9, <1>10, <1>12 DEF BInv

LEMMA SelectAudiencePromised ==
  ASSUME IInv, BInv, NEW s \in SessionIds, SelectAudience(s)
  PROVE  BInv' /\ Promised
<1> DEFINE j == [job[s] EXCEPT !.audience = EligibleCarriers(job[s].load)]
<1>1. Fit("audience", job[s], tx[s], db) /\ Knows("audience", job[s], db)
  BY DEF BInv, SessionsFit, SelectAudience
<1>2. job[s].op # "cancel_load" /\ Whole(tx[s], db)
  BY <1>1 DEF Knows, Fit, Waiting
<1>3. job[s].load \in Loads /\ ~ Newborn(job[s].load)
  BY <1>2, LoadOld DEF SelectAudience, NeedLoad
<1>4. tx[s] \in Writes /\ tx[s].trusted = {} /\ OldWrites(tx[s])
  BY PendingOld DEF IInv, DataInv, BInv
<1>5. job[s] \in Jobs /\ (job[s].cand # {} => job[s].truck \in Trucks)
  BY DEF IInv, ControlInv, JobReady
<1>6. /\ j.op = job[s].op /\ j.load = job[s].load /\ j.truck = job[s].truck
      /\ j.cand = job[s].cand /\ j.due = job[s].due
  BY <1>5 DEF Jobs
<1>7. Commit(s, tx[s]) /\ Goto(s, "broadcast", j) /\ UNCHANGED outside
  BY DEF SelectAudience
<1> HIDE DEF j
<1>8. /\ JobReady("broadcast", j, db.trusted) /\ Knows("broadcast", j, db)
      /\ Commits("broadcast", j)
  BY <1>2, <1>3, <1>5, <1>6 DEF JobReady, NeedLoad, NeedTruck, Knows, Waiting, Commits
<1>9. OldJob("broadcast", j)
  BY <1>3, <1>6, JobOld DEF BInv, Early
<1> QED BY <1>2, <1>4, <1>7, <1>8, <1>9, CommitOn

LEMMA BroadcastNextPromised ==
  ASSUME IInv, BInv, NEW s \in SessionIds, BroadcastNext(s)
  PROVE  BInv' /\ Promised
<1>1. Fit("broadcast", job[s], tx[s], db) /\ Knows("broadcast", job[s], db)
  BY DEF BInv, SessionsFit, BroadcastNext
<1>2. job[s].op # "cancel_load" /\ Whole(tx[s], db)
  BY <1>1 DEF Knows, Fit, Waiting
<1>3. job[s] \in Jobs /\ job[s].load \in Loads /\ ~ Newborn(job[s].load)
  BY <1>2, LoadOld DEF BroadcastNext, NeedLoad, IInv, ControlInv
<1>4. CASE Goto(s, "finish", job[s])
  <2>1. Fit("finish", job[s], tx[s], db) /\ Knows("finish", job[s], db)
    BY <1>1, <1>2 DEF Fit, Knows, Waiting
  <2>2. OldJob("finish", job[s])
    BY <1>3, JobOld DEF BInv, Early
  <2> QED BY <1>4, <2>1, <2>2, GotoOn DEF BroadcastNext
<1>5. CASE \E u \in job[s].audience :
             StartNotices(s, [job[s] EXCEPT !.audience = @ \ {u}],
               NoticesFor(<<u>>, job[s].load, "BROADCAST"), "broadcast")
  <2>1. PICK u \in job[s].audience :
          StartNotices(s, [job[s] EXCEPT !.audience = @ \ {u}],
            NoticesFor(<<u>>, job[s].load, "BROADCAST"), "broadcast")
    BY <1>5
  <2> DEFINE j == [job[s] EXCEPT !.audience = @ \ {u}]
             todo == NoticesFor(<<u>>, job[s].load, "BROADCAST")
             k == [j EXCEPT !.todo = todo, !.after = "broadcast"]
  <2>2. u \in Users
    BY <1>3 DEF Jobs
  <2>3. todo \in Seq(Notices) /\ \A i \in 1..Len(todo) : todo[i][2] = job[s].load /\ todo[i][3] = "BROADCAST"
    BY <1>3, <2>2, OneNoticeType, OwnNoticesAbout
  <2>4. /\ j \in Jobs /\ j.op = job[s].op /\ j.load = job[s].load
        /\ j.cand = job[s].cand /\ j.due = job[s].due
    BY <1>3 DEF Jobs
  <2>5. Goto(s, "notify", k)
    BY <2>1 DEF StartNotices
  <2> HIDE DEF j, todo
  <2>6. "broadcast" \in Phases
    BY DEF Phases
  <2>7. \A i \in 1..Len(todo) :
          /\ todo[i][2] = j.load
          /\ todo[i][3] = "MATCH_FOUND" => j.truck \in Trucks /\ db.matches[MatchOf(j)] # Absent
    BY <2>3, <2>4
  <2>8. /\ OldJob("notify", k) /\ Knows("notify", k, db)
        /\ (\A x : Whole(x, db) /\ (j.op = "proactive" => Proposal(x, db) /\ x.interests = {})
                      => Fit("notify", k, x, db))
    BY <1>2, <1>3, <2>3, <2>4, <2>6, <2>7, StartFits DEF BInv
  <2> HIDE DEF k
  <2>9. Fit("notify", k, tx[s], db)
    BY <1>1, <1>2, <2>4, <2>8 DEF Fit
  <2> QED BY <2>5, <2>8, <2>9, GotoOn DEF BroadcastNext
<1> QED BY <1>4, <1>5 DEF BroadcastNext

-----------------------------------------------------------------------------
(* create_truck *)

LEMMA CreateTruckPromised ==
  ASSUME IInv, BInv, NEW s \in SessionIds, NEW t \in Trucks, CreateTruck(s, t)
  PROVE  BInv' /\ Promised
<1> DEFINE w == [NoWrites EXCEPT !.trucks = {t}]
           j == [NoJob EXCEPT !.op = "create_truck", !.truck = t]
<1>1. w \in Writes
  BY PlainWritesSafe DEF SafeWrites
<1>2. w.trusted = {} /\ w.loads = NoWrites.loads /\ w.matches = NoWrites.matches
      /\ w.notices = NoWrites.notices /\ w.interests = NoWrites.interests
  BY DEF NoWrites
<1>3. Commit(s, w) /\ (Goto(s, "search", j) \/ Done(s)) /\ UNCHANGED outside
  BY DEF CreateTruck
<1>4. j.op = "create_truck" /\ j.truck = t /\ j.cand = {} /\ j.due = {}
  BY DEF NoJob
<1> HIDE DEF w, j
<1>5. Unseen(w) /\ OldWrites(w)
  BY <1>2, NoWritesUnseen, NothingOld DEF Unseen, OldWrites, Avoids
<1>6. Whole(w, db)
  BY <1>5, UnseenWhole
<1>7. CASE Goto(s, "search", j)
  <2>1. /\ JobReady("search", j, db.trusted) /\ Knows("search", j, db)
        /\ Commits("search", j)
    BY <1>4 DEF JobReady, NeedLoad, NeedTruck, Knows, Waiting, Commits
  <2>2. OldJob("search", j)
    BY <1>4 DEF OldJob, Early, About, NeedLoad
  <2> QED BY <1>1, <1>2, <1>3, <1>5, <1>6, <1>7, <2>1, <2>2, CommitOn
<1>8. CASE Done(s)
  BY <1>1, <1>2, <1>3, <1>5, <1>6, <1>8, CommitRest, WholePromised
<1> QED BY <1>3, <1>7, <1>8

\* A load that somebody may find is no newborn.
LEMMA FoundOld ==
  ASSUME IInv, BInv, NEW s \in SessionIds, tx[s].loads \in [Loads -> {NoWrite, "MATCHED"}],
         NEW l \in WaitingLoads(s)
  PROVE  l \in Loads /\ ~ Newborn(l)
<1>1. l \in Loads /\ View(s).loads[l] = "WAITING_FOR_MATCH"
  BY DEF WaitingLoads
<1>2. db.loads[l] = "WAITING_FOR_MATCH"
  BY <1>1 DEF View, Overlay
<1> QED BY <1>1, <1>2 DEF BInv, NewbornInv, Unheard, NoRows, Absent

LEMMA SearchLoadPromised ==
  ASSUME IInv, BInv, NEW s \in SessionIds, SearchLoad(s)
  PROVE  BInv' /\ Promised
<1>1. job[s] \in Jobs /\ tx[s] \in Writes
  BY DEF IInv, ControlInv, DataInv
<1>2. Fit("search", job[s], tx[s], db) /\ job[s].op = "create_truck"
  BY DEF BInv, SessionsFit, SearchLoad
<1>3. Unseen(tx[s])
  BY <1>2 DEF Fit
<1>4. CASE Done(s)
  BY <1>3, <1>4, DoneOn DEF SearchLoad
<1>5. CASE \E l \in BestLoads(job[s].truck, WaitingLoads(s)) :
             Goto(s, "probe_match", [Remember(s, l) EXCEPT !.load = l])
  <2>1. PICK l \in WaitingLoads(s) : Goto(s, "probe_match", [Remember(s, l) EXCEPT !.load = l])
    BY <1>5 DEF BestLoads
  <2>2. l \in Loads /\ ~ Newborn(l)
    <3>1. tx[s].loads \in [Loads -> {NoWrite, "MATCHED"}]
      BY <1>1, <1>3 DEF Unseen, Writes
    <3> QED BY <3>1, FoundOld
  <2> DEFINE r == Remember(s, l)
             j == [r EXCEPT !.load = l]
  <2>3. r \in Jobs /\ r = [job[s] EXCEPT !.memo = r.memo]
    BY <2>2, RememberType DEF IInv
  <2>4. r.op = job[s].op /\ r.cand = job[s].cand /\ r.due = job[s].due
    BY <1>1, <2>3 DEF Jobs
  <2>5. Goto(s, "probe_match", j)
    BY <2>1
  <2> HIDE DEF r
  <2>6. j.op = "create_truck" /\ j.load = l /\ j.cand = job[s].cand /\ j.due = job[s].due
    BY <1>2, <2>3, <2>4 DEF Jobs
  <2> HIDE DEF j
  <2>7. Fit("probe_match", j, tx[s], db) /\ Knows("probe_match", j, db)
    BY <1>3, <2>6, UnseenWhole DEF Fit, Knows, Waiting
  <2>8. OldJob("probe_match", j)
    BY <2>2, <2>6, JobOld DEF BInv, Early
  <2> QED BY <2>5, <2>7, <2>8, GotoOn DEF SearchLoad
<1> QED BY <1>4, <1>5 DEF SearchLoad

-----------------------------------------------------------------------------
(* register_interest *)

\* Nobody has a button for a newborn load.
LEMMA ButtonOld ==
  ASSUME IInv, BInv, NEW u \in Users, NEW l \in Loads, HasButton(u, l)
  PROVE  ~ Newborn(l)
<1> DEFINE k == <<u, l, "BROADCAST">>
<1>1. k \in Notices /\ k[2] = l
  BY DEF Notices, NotificationType
<1>2. pushes[k] > 0 \/ reminders[k] > 0
  BY DEF HasButton
<1> QED BY <1>1, <1>2 DEF BInv, NewbornInv, Unheard, NoRows

LEMMA PressInterestPromised ==
  ASSUME IInv, BInv, NEW s \in SessionIds, NEW l \in Loads, NEW t \in Trucks,
         PressInterest(s, l, t)
  PROVE  BInv' /\ Promised
<1> DEFINE j == [NoJob EXCEPT !.op = "register_interest", !.load = l, !.truck = t,
                              !.memo[l] = db.loads[l]]
           m == <<l, t>>
           w == [NoWrites EXCEPT !.interests = {m}]
<1>1. tx' = [tx EXCEPT ![s] = w] /\ UNCHANGED db /\ UNCHANGED outside /\ Goto(s, "probe_match", j)
  BY DEF PressInterest, SaveInterest, Stage
<1>2. j.op = "register_interest" /\ j.load = l /\ j.truck = t /\ j.cand = {} /\ j.due = {}
  BY DEF NoJob
<1>3. w.loads = NoWrites.loads /\ w.matches = NoWrites.matches /\ w.notices = NoWrites.notices
      /\ w.interests = {m}
  BY DEF NoWrites
<1>4. ~ Newborn(l)
  BY Parties, ButtonOld DEF PressInterest
<1> HIDE DEF j, w
<1>5. Interest(w, m) /\ OldWrites(w)
  BY <1>3, NoWritesUnseen, NothingOld DEF Interest, Unseen, OldWrites, Avoids
<1>6. Fit("probe_match", j, w, db) /\ Knows("probe_match", j, db)
  BY <1>2, <1>5 DEF Fit, Knows, Waiting, MatchOf
<1>7. OldJob("probe_match", j)
  BY <1>2, <1>4, JobOld DEF BInv, Early
<1>8. OldOutside /\ MatchFoundHasMatch'
  BY <1>1, Silence DEF BInv
<1> QED BY <1>1, <1>5, <1>6, <1>7, <1>8, StageOn

LEMMA RecordInterestPromised ==
  ASSUME IInv, BInv, NEW s \in SessionIds, RecordInterest(s)
  PROVE  BInv' /\ Promised
<1> DEFINE l == job[s].load
           k == <<CarrierOf[job[s].truck], l, "BROADCAST">>
           st == IF db.notices[k] = Absent THEN NoWrite ELSE Assign(db.notices[k], "INTERESTED")
           w == [tx[s] EXCEPT !.notices[k] = st]
<1>1. job[s] \in Jobs /\ l \in Loads /\ job[s].truck \in Trucks
  BY JobMatchType DEF RecordInterest, NeedTruck
<1>2. Fit("record_interest", job[s], tx[s], db) /\ Knows("record_interest", job[s], db)
  BY DEF BInv, SessionsFit, RecordInterest
<1>3. job[s].op # "cancel_load" /\ Whole(tx[s], db) /\ (job[s].op = "proactive" => Proposal(tx[s], db))
  BY <1>2 DEF Knows, Fit, Waiting
<1>4. ~ Newborn(l)
  BY <1>3, LoadOld DEF RecordInterest, NeedLoad
<1>5. k \in Notices /\ k[2] = l /\ st \in NotificationStatus \cup {NoWrite}
  BY <1>1, Parties DEF Notices, NotificationType, Assign, NotificationStatus
<1>6. tx[s] \in Writes /\ tx[s].trusted = {} /\ OldWrites(tx[s])
  BY PendingOld DEF IInv, DataInv, BInv
<1>7. Commit(s, w) /\ UNCHANGED outside
  BY DEF RecordInterest
<1>8. PICK admin \in AdminChoices : StartNotices(s, job[s], InterestNotices(l, admin), "finish")
  BY DEF RecordInterest
<1> HIDE DEF st, k
<1>9. w \in Writes /\ OldWrites(w)
  BY <1>4, <1>5, <1>6, NoticeOld
<1>10. w.loads = tx[s].loads /\ w.matches = tx[s].matches /\ w.interests = tx[s].interests
       /\ w.trusted = {}
  BY <1>6 DEF Writes
<1> HIDE DEF w
<1>11. Whole(w, db)
  BY <1>3, <1>10, SameSeen
<1> DEFINE todo == InterestNotices(l, admin)
           n == [job[s] EXCEPT !.todo = todo, !.after = "finish"]
<1>12. admin \in Seq(Users) /\ "finish" \in Phases
  BY Parties DEF Phases
<1>13. todo \in Seq(Notices) /\ todo # <<>>
       /\ \A i \in 1..Len(todo) : todo[i][2] = l /\ todo[i][3] = "INTEREST_RECEIVED"
  BY <1>1, <1>12, InterestNoticesType, OwnNoticesAbout
<1>14. Goto(s, "notify", n)
  BY <1>8 DEF StartNotices
<1> HIDE DEF todo
<1>15. \A i \in 1..Len(todo) :
         /\ todo[i][2] = job[s].load
         /\ todo[i][3] = "MATCH_FOUND" => job[s].truck \in Trucks /\ db.matches[MatchOf(job[s])] # Absent
  BY <1>13
<1>16. OldJob("notify", n) /\ Knows("notify", n, db)
  BY <1>1, <1>3, <1>4, <1>12, <1>13, <1>15, StartFits DEF BInv
<1>17. JobReady("notify", n, db.trusted) /\ Commits("notify", n)
  <2>1. /\ n.load = l /\ n.truck = job[s].truck /\ n.cand = job[s].cand
        /\ n.todo = todo /\ n.after = "finish"
    BY <1>1, <1>12, <1>13 DEF Jobs
  <2> HIDE DEF n
  <2>2. Commits("notify", n)
    BY DEF Waiting, Commits
  <2>3. NoticesReady(n, db.trusted)
    BY <1>13, <2>1 DEF NoticesReady
  <2> QED BY <1>1, <2>1, <2>2, <2>3 DEF JobReady, NeedLoad, NeedTruck
<1> HIDE DEF n
<1> QED BY <1>7, <1>9, <1>10, <1>11, <1>14, <1>16, <1>17, CommitOn

LEMMA RequestPromised ==
  ASSUME IInv, BInv, NEW s \in SessionIds, RequestStep(s)
  PROVE  BInv' /\ Promised
  BY SearchTruckPromised, SetWaitingPromised, SelectAudiencePromised, BroadcastNextPromised,
     SearchLoadPromised, RecordInterestPromised DEF RequestStep

-----------------------------------------------------------------------------
(* The admin's actions *)

\* A free session has nothing pending.
LEMMA IdleUnseen ==
  ASSUME BInv, NEW s \in SessionIds, pc[s] = "idle"
  PROVE  Unseen(tx[s]) /\ Proposal(tx[s], db) /\ Whole(tx[s], db) /\ tx[s].interests = {}
<1>1. Unseen(tx[s])
  BY DEF BInv, SessionsFit, Fit
<1> QED BY <1>1, UnseenWhole DEF Unseen

LEMMA AdminFetchPromised ==
  ASSUME IInv, BInv, NEW s \in SessionIds, NEW act, NEW m \in Matches, AdminFetch(s, act, m)
  PROVE  BInv' /\ Promised
<1> DEFINE j == [NoJob EXCEPT !.op = act, !.load = m[1], !.truck = m[2],
                              !.match = db.matches[m]]
<1>1. m[1] \in Loads /\ m = <<m[1], m[2]>>
  BY DEF Matches
<1>2. act \in MatchActions /\ db.matches[m] # Absent /\ Goto(s, "fetch_load", j) /\ pc[s] = "idle"
  BY DEF AdminFetch
<1>3. j.op = act /\ j.load = m[1] /\ j.truck = m[2] /\ j.cand = {} /\ j.due = {}
  BY DEF NoJob
<1> HIDE DEF j
<1>4. ~ Newborn(m[1])
  BY <1>1, <1>2 DEF BInv, NewbornInv, Unheard, NoRows
<1>5. OldJob("fetch_load", j)
  BY <1>3, <1>4, JobOld DEF BInv, Early
<1>6. Knows("fetch_load", j, db)
  BY <1>1, <1>2, <1>3 DEF Knows, MatchOf, MatchActions
<1>7. Fit("fetch_load", j, tx[s], db)
  BY <1>2, IdleUnseen DEF Fit, Waiting
<1> QED BY <1>2, <1>5, <1>6, <1>7, GotoOn DEF AdminFetch

LEMMA AdminFetchNextPromised ==
  ASSUME IInv, BInv, NEW s \in SessionIds, AdminFetchNext(s)
  PROVE  BInv' /\ Promised
<1> DEFINE l == job[s].load
           j == Remember(s, l)
<1>1. job[s] \in Jobs /\ l \in Loads
  BY DEF AdminFetchNext, IInv, ControlInv, JobReady, NeedLoad
<1>2. /\ j.op = job[s].op /\ j.load = l /\ j.truck = job[s].truck
      /\ j.cand = job[s].cand /\ j.due = job[s].due
  BY <1>1 DEF Remember, Jobs
<1>3. Goto(s, "act", j) /\ UNCHANGED <<db, tx, outside, crashes>>
  BY DEF AdminFetchNext
<1> HIDE DEF j
<1>4. Fit("fetch_load", job[s], tx[s], db) /\ Knows("fetch_load", job[s], db)
  BY DEF BInv, SessionsFit, AdminFetchNext
<1>5. job[s].op # "cancel_load" /\ job[s].op \in MatchActions
  BY <1>4 DEF Knows
<1>6. ~ Newborn(l)
  BY <1>5, LoadOld DEF AdminFetchNext, NeedLoad
<1>7. OldJob("act", j)
  BY <1>1, <1>2, <1>6, JobOld DEF BInv, Early
<1>8. Fit("act", j, tx[s], db) /\ Knows("act", j, db)
  BY <1>2, <1>4, <1>5 DEF Fit, Knows, Waiting, MatchOf, MatchActions
<1> QED BY <1>3, <1>7, <1>8, GotoOn

\* An admin may look at a newborn load to cancel it.
LEMMA AdminFetchLoadPromised ==
  ASSUME IInv, BInv, NEW s \in SessionIds, NEW l \in Loads, AdminFetchLoad(s, l)
  PROVE  BInv' /\ Promised
<1> DEFINE j == [NoJob EXCEPT !.op = "cancel_load", !.load = l, !.memo[l] = db.loads[l]]
<1>1. /\ db.loads[l] # Absent /\ Goto(s, "act", j) /\ pc[s] = "idle"
      /\ UNCHANGED <<db, tx, outside, crashes>>
  BY DEF AdminFetchLoad
<1>2. j.op = "cancel_load" /\ j.load = l /\ j.cand = {} /\ j.due = {}
  BY DEF NoJob
<1> HIDE DEF j
<1>3. MatchFoundHasMatch' /\ InterestHasMatch'
  BY <1>1, Silence DEF BInv, InterestHasMatch
<1>4. SessionsFit'
  <2>1. Knows("act", j, db)
    BY <1>1, <1>2 DEF Knows
  <2>2. Fit("act", j, tx[s], db)
    BY <1>1, IdleUnseen DEF Fit, Waiting
  <2> QED BY <1>1, <2>1, <2>2, GotoFits DEF BInv
<1>5. NewbornInv'
  <2>1. ~ Early("act", j)
    BY DEF Early
  <2>2. ASSUME NEW k \in Loads, Newborn(k)
        PROVE  NoRows(k)' /\ Ignores("act", j, tx[s], db', k)
    <3>1. NoRows(k) /\ Avoids(tx[s], k)
      BY <2>2 DEF BInv, NewbornInv, Unheard, Ignores
    <3>2. About("act", j, k) => db'.loads[k] # Absent
      BY <1>1, <1>2 DEF About
    <3> QED BY <1>1, <1>2, <3>1, <3>2 DEF NoRows, Ignores, outside
  <2>3. tx' = [tx EXCEPT ![s] = tx[s]]
    BY <1>1 DEF IInv, DataInv
  <2>4. \A k \in Loads : db.loads[k] # Absent => db'.loads[k] # Absent
    BY <1>1
  <2> QED BY <1>1, <2>1, <2>2, <2>3, <2>4, NewbornKept DEF BInv
<1> QED BY <1>1, <1>3, <1>4, <1>5, QuietPromised DEF BInv

LEMMA AdminCancelLoadPromised ==
  ASSUME IInv, BInv, NEW s \in SessionIds, AdminCancelLoad(s)
  PROVE  BInv' /\ Promised
<1> DEFINE l == job[s].load
           st == Assign(job[s].memo[l], "CANCELLED")
<1>1. l \in Loads
  BY DEF IInv, ControlInv, JobReady, NeedLoad, AdminCancelLoad, Acting
<1>2. st \in LoadStatus \cup {NoWrite} /\ st \in {NoWrite, "CANCELLED"}
  BY DEF Assign, LoadStatus
<1>3. Commit(s, OneLoad(l, st)) /\ Goto(s, "idle", NoJob) /\ UNCHANGED outside
  BY DEF AdminCancelLoad, OneLoad, Done
<1>4. db.loads[l] # Absent
  BY DEF BInv, SessionsFit, Knows, AdminCancelLoad, Acting, MatchActions
<1> HIDE DEF st
<1>5. /\ InterestHasMatch' /\ MatchFoundHasMatch'
      /\ \A n \in Loads : db.loads[n] # Absent => db'.loads[n] # Absent
      /\ \A n \in Loads \ {l} : db'.loads[n] = db.loads[n]
      /\ db'.loads[l] = IF st = NoWrite THEN db.loads[l] ELSE st
      /\ \A n \in Loads : Newborn(n) /\ db'.loads[n] \in {Absent, "NEW", "CANCELLED"} => NoRows(n)'
  BY <1>1, <1>2, <1>3, LoadCommitKeeps
<1>6. SessionsFit'
  <2>1. OneLoad(l, st) \in Writes
    BY <1>1, <1>2, LoadWrites
  <2>2. Knows("idle", NoJob, db') /\ Commits("idle", NoJob)
    BY RestFits, NoWritesUnseen DEF Waiting, Commits
  <2> QED BY <1>3, <2>1, <2>2, CommitFits DEF BInv
<1>7. NewbornInv'
  <2>1. ~ Early("idle", NoJob)
    BY DEF Early
  <2>2. ASSUME NEW k \in Loads, Newborn(k)
        PROVE  NoRows(k)' /\ Ignores("idle", NoJob, NoWrites, db', k)
    <3>1. NoRows(k)
      BY <2>2 DEF BInv, NewbornInv, Unheard
    <3>2. NoRows(k)'
      BY <1>2, <1>5, <2>2, <3>1 DEF NoRows
    <3>3. Ignores("idle", NoJob, NoWrites, db', k)
      BY RestOld, NothingOld, <2>2 DEF OldJob, OldWrites, Ignores
    <3> QED BY <3>2, <3>3
  <2>3. tx' = [tx EXCEPT ![s] = NoWrites]
    BY <1>3 DEF Commit
  <2> QED BY <1>3, <1>5, <2>1, <2>2, <2>3, NewbornKept DEF BInv
<1>8. /\ db'.loads = IF st = NoWrite THEN db.loads ELSE [db.loads EXCEPT ![l] = st]
      /\ db'.matches = db.matches /\ db'.interests = db.interests
      /\ db'.trusted = db.trusted
  BY <1>1, <1>2, <1>3, LoadCommit
<1>9. Promised
  <2>1. CASE st = NoWrite
    BY <1>8, <2>1 DEF Promised, Promise!brokerVars
  <2>2. CASE st # NoWrite
    <3>1. Promise!Cancel(l)
      BY <1>2, <1>4, <1>8, <2>2 DEF Promise!Cancel, Promise!Absent, Absent
    <3> QED BY <1>1, <3>1 DEF Promised, Promise!Next
  <2> QED BY <2>1, <2>2
<1> QED BY <1>5, <1>6, <1>7, <1>9 DEF BInv

\* What an action on a match decides.
LEMMA ActingDecides ==
  ASSUME IInv, BInv, NEW s \in SessionIds, NEW act \in MatchActions, Acting(s, act)
  PROVE  /\ job[s] \in Jobs /\ job[s].load \in Loads /\ job[s].truck \in Trucks
         /\ ~ Newborn(job[s].load)
         /\ JobMatch(s) = <<job[s].load, job[s].truck>> /\ JobMatch(s) \in Matches
         /\ db.matches[JobMatch(s)] # Absent /\ Whole(tx[s], db)
<1>1. Fit("act", job[s], tx[s], db) /\ Knows("act", job[s], db) /\ job[s].op \in MatchActions
  BY DEF BInv, SessionsFit, Acting
<1>2. job[s].op # "cancel_load" /\ Whole(tx[s], db) /\ db.matches[MatchOf(job[s])] # Absent
  BY <1>1 DEF Knows, Fit, Waiting, MatchActions
<1>3. ~ Newborn(job[s].load)
  BY <1>2, LoadOld DEF Acting, NeedLoad
<1> QED BY <1>2, <1>3, ActingType DEF JobMatch, MatchOf

LEMMA WithDecides ==
  ASSUME NEW l \in Loads, NEW t \in Trucks, ~ Newborn(l),
         NEW ms \in MatchStatus, NEW ls \in LoadStatus,
         NEW mv \in MatchStatus \cup {NoWrite}, mv # NoWrite => mv = ms,
         NEW lv \in LoadStatus \cup {NoWrite}, lv # NoWrite => lv = ls
  PROVE  LET w == With(NoWrites, l, t, mv, lv)
         IN  /\ w \in Writes /\ OldWrites(w) /\ w.trusted = {} /\ w.interests = {}
             /\ Decision(w, <<l, t>>, ms, ls)
<1>1. NoWrites \in Writes /\ OldWrites(NoWrites)
  BY NoWritesUnseen, NothingOld
<1>2. /\ \A m \in Matches : NoWrites.matches[m] = NoWrite
      /\ \A k \in Loads : NoWrites.loads[k] = NoWrite
      /\ NoWrites.interests = {} /\ NoWrites.trusted = {}
  BY DEF NoWrites
<1> DEFINE w == With(NoWrites, l, t, mv, lv)
<1>3. /\ w \in Writes /\ OldWrites(w)
      /\ w.matches[<<l, t>>] = mv /\ w.loads[l] = lv
      /\ \A m \in Matches \ {<<l, t>>} : w.matches[m] = NoWrites.matches[m]
      /\ \A k \in Loads \ {l} : w.loads[k] = NoWrites.loads[k]
      /\ w.interests = NoWrites.interests /\ w.trusted = NoWrites.trusted
  BY <1>1, StatusOld
<1> HIDE DEF w
<1>4. Decision(w, <<l, t>>, ms, ls)
  BY <1>2, <1>3 DEF Decision
<1>5. w \in Writes /\ OldWrites(w) /\ w.trusted = {} /\ w.interests = {}
  BY <1>2, <1>3
<1> QED BY <1>4, <1>5 DEF w

LEMMA StatusDecides ==
  ASSUME NEW s \in SessionIds, NEW l \in Loads, NEW t \in Trucks, l = job[s].load,
         JobMatch(s) = <<l, t>>, ~ Newborn(l),
         NEW ms \in MatchStatus, NEW ls \in LoadStatus, NEW ld \in LoadStatus,
         ls \in {ld, job[s].memo[l]}
  PROVE  /\ StatusWrites(s, ms, ls) \in Writes /\ OldWrites(StatusWrites(s, ms, ls))
         /\ StatusWrites(s, ms, ls).trusted = {} /\ StatusWrites(s, ms, ls).interests = {}
         /\ Decision(StatusWrites(s, ms, ls), <<l, t>>, ms, ld)
<1> DEFINE mv == Assign(job[s].match, ms)
           lv == Assign(job[s].memo[l], ls)
           w  == With(NoWrites, l, t, mv, lv)
<1>1. /\ mv \in MatchStatus \cup {NoWrite} /\ (mv # NoWrite => mv = ms)
      /\ lv \in LoadStatus \cup {NoWrite} /\ (lv # NoWrite => lv = ld)
  BY DEF Assign
<1>2. StatusWrites(s, ms, ls) = w
  BY DEF StatusWrites, With
<1> HIDE DEF mv, lv
<1>3. /\ w \in Writes /\ OldWrites(w) /\ w.trusted = {} /\ w.interests = {}
      /\ Decision(w, <<l, t>>, ms, ld)
  BY <1>1, WithDecides
<1> HIDE DEF w
<1> QED BY <1>2, <1>3

LEMMA AdminContactPromised ==
  ASSUME IInv, BInv, NEW s \in SessionIds, AdminContact(s)
  PROVE  BInv' /\ Promised
<1> DEFINE w == StatusWrites(s, "ADMIN_CONTACTING", "ADMIN_CONTACTING")
           m == JobMatch(s)
<1>1. /\ job[s].load \in Loads /\ job[s].truck \in Trucks /\ ~ Newborn(job[s].load)
      /\ m = <<job[s].load, job[s].truck>> /\ m \in Matches /\ db.matches[m] # Absent
  BY ActingDecides DEF AdminContact, MatchActions
<1>2. "ADMIN_CONTACTING" \in MatchStatus /\ "ADMIN_CONTACTING" \in LoadStatus
  BY DEF MatchStatus, LoadStatus
<1>3. /\ w \in Writes /\ OldWrites(w) /\ w.trusted = {} /\ w.interests = {}
      /\ Decision(w, m, "ADMIN_CONTACTING", "ADMIN_CONTACTING")
  BY <1>1, <1>2, StatusDecides
<1>4. Commit(s, w) /\ Done(s) /\ UNCHANGED outside
  BY DEF AdminContact
<1> HIDE DEF w, m
<1>5. BInv'
  BY <1>3, <1>4, CommitRest
<1>6. Promise!Contact(m)
  <2>1. Promise!Decide(m, "ADMIN_CONTACTING", "ADMIN_CONTACTING")
    BY <1>1, <1>2, <1>3, <1>4, DecisionPromised
  <2>2. db'.trusted = db.trusted
    BY <1>3, <1>4, CommitRows
  <2> QED BY <2>1, <2>2 DEF Promise!Contact
<1> QED BY <1>1, <1>5, <1>6 DEF Promised, Promise!Next, Promise!Matches, Matches

LEMMA AdminRejectPromised ==
  ASSUME IInv, BInv, NEW s \in SessionIds, AdminReject(s)
  PROVE  BInv' /\ Promised
<1> DEFINE st == job[s].memo[job[s].load]
           ls == IF st \in {"CONNECTED", "CONFIRMED", "COMPLETED"}
                   THEN st ELSE "WAITING_FOR_MATCH"
           w == StatusWrites(s, "REJECTED", ls)
           m == JobMatch(s)
<1>1. /\ job[s].load \in Loads /\ job[s].truck \in Trucks /\ ~ Newborn(job[s].load)
      /\ m = <<job[s].load, job[s].truck>> /\ m \in Matches /\ db.matches[m] # Absent
  BY ActingDecides DEF AdminReject, MatchActions
<1>2. /\ "REJECTED" \in MatchStatus /\ "WAITING_FOR_MATCH" \in LoadStatus
      /\ ls \in LoadStatus /\ ls \in {"WAITING_FOR_MATCH", st}
  BY DEF MatchStatus, LoadStatus
<1>3. Commit(s, w) /\ Done(s) /\ UNCHANGED outside
  BY DEF AdminReject
<1> HIDE DEF ls
<1>4. /\ w \in Writes /\ OldWrites(w) /\ w.trusted = {} /\ w.interests = {}
      /\ Decision(w, m, "REJECTED", "WAITING_FOR_MATCH")
  BY <1>1, <1>2, StatusDecides
<1> HIDE DEF w, m
<1>5. BInv'
  BY <1>3, <1>4, CommitRest
<1>6. Promise!Reject(m)
  <2>1. Promise!Decide(m, "REJECTED", "WAITING_FOR_MATCH")
    BY <1>1, <1>2, <1>3, <1>4, DecisionPromised
  <2>2. db'.trusted = db.trusted
    BY <1>3, <1>4, CommitRows
  <2> QED BY <2>1, <2>2 DEF Promise!Reject
<1> QED BY <1>1, <1>5, <1>6 DEF Promised, Promise!Next, Promise!Matches, Matches

LEMMA AdminConnectPromised ==
  ASSUME IInv, BInv, NEW s \in SessionIds, AdminConnect(s)
  PROVE  BInv' /\ Promised
<1> DEFINE v == StatusWrites(s, "CONNECTED", "CONNECTED")
           w == ConnectWrites(s)
           m == JobMatch(s)
<1>1. /\ job[s].load \in Loads /\ job[s].truck \in Trucks /\ ~ Newborn(job[s].load)
      /\ m = <<job[s].load, job[s].truck>> /\ m \in Matches /\ db.matches[m] # Absent
  BY ActingDecides DEF AdminConnect, MatchActions
<1>2. "CONNECTED" \in MatchStatus /\ "CONNECTED" \in LoadStatus
  BY DEF MatchStatus, LoadStatus
<1>3. /\ v \in Writes /\ OldWrites(v) /\ v.interests = {}
      /\ Decision(v, m, "CONNECTED", "CONNECTED")
  BY <1>1, <1>2, StatusDecides
<1>4. PairOf(m) \in Pairs /\ PairOf(m) \notin db.trusted
  BY <1>1, Parties DEF PairOf, Pairs, AdminConnect
<1>5. w = [v EXCEPT !.trusted = {PairOf(m)}]
  BY DEF ConnectWrites
<1>6. Commit(s, w) /\ Done(s) /\ UNCHANGED outside
  BY DEF AdminConnect
<1>7. /\ db'.trusted = db.trusted \cup {PairOf(m)}
      /\ db'.matches[m] = "CONNECTED"
  BY ConnectMakesConnected
<1> HIDE DEF v, w, m
<1>8. /\ w \in Writes /\ w.matches = v.matches /\ w.loads = v.loads
      /\ w.interests = v.interests /\ w.notices = v.notices
  BY <1>3, <1>4, <1>5 DEF Writes
<1>9. OldWrites(w) /\ Decision(w, m, "CONNECTED", "CONNECTED")
  BY <1>3, <1>8 DEF OldWrites, Avoids, Decision
<1>10. BInv'
  BY <1>3, <1>6, <1>8, <1>9, CommitRest
<1>11. Promise!Connect(m)
  <2>1. Promise!Decide(m, "CONNECTED", "CONNECTED")
    BY <1>1, <1>2, <1>6, <1>8, <1>9, DecisionPromised
  <2> QED BY <1>4, <1>7, <2>1 DEF Promise!Connect, Promise!PairOf, PairOf
<1> QED BY <1>1, <1>10, <1>11 DEF Promised, Promise!Next, Promise!Matches, Matches

LEMMA AdminResendPromised ==
  ASSUME IInv, BInv, NEW s \in SessionIds, AdminResend(s)
  PROVE  BInv' /\ Promised
<1>1. /\ job[s] \in Jobs /\ job[s].load \in Loads /\ job[s].truck \in Trucks
      /\ ~ Newborn(job[s].load) /\ Whole(tx[s], db)
      /\ db.matches[MatchOf(job[s])] # Absent
  BY ActingDecides DEF AdminResend, MatchActions, MatchOf
<1>2. job[s].op \notin {"cancel_load", "proactive"}
  BY DEF AdminResend, Acting
<1>3. PICK a \in Admins :
        StartNotices(s, job[s],
          MatchNotices(job[s].load, job[s].truck, <<a>>, "MATCH_FOUND"), "finish")
  BY DEF AdminResend
<1> DEFINE admin == <<a>>
<1>4. admin \in Seq(Users)
  BY Parties
<1>5. StartNotices(s, job[s],
        MatchNotices(job[s].load, job[s].truck, admin, "MATCH_FOUND"), "finish")
  BY <1>3
<1> HIDE DEF admin
<1>6. PICK k : /\ Goto(s, "notify", k) /\ OldJob("notify", k)
               /\ Knows("notify", k, db) /\ Fit("notify", k, tx[s], db)
  BY <1>1, <1>2, <1>4, <1>5, MatchNoticesFit
<1> QED BY <1>6, GotoOn DEF AdminResend

LEMMA AdminPromised ==
  ASSUME IInv, BInv, NEW s \in SessionIds, AdminStep(s)
  PROVE  BInv' /\ Promised
  BY AdminFetchNextPromised, AdminContactPromised, AdminConnectPromised, AdminRejectPromised, AdminCancelLoadPromised,
     AdminResendPromised, AbandonOn DEF AdminStep, ConnectConflict

-----------------------------------------------------------------------------
(* The passes *)

LEMMA StartProactivePromised ==
  ASSUME IInv, BInv, NEW s \in SessionIds, NEW near, StartProactive(s, near)
  PROVE  BInv' /\ Promised
<1> DEFINE j == [NoJob EXCEPT !.op = "proactive", !.scan = near]
<1>1. Goto(s, "scan", j) /\ pc[s] = "idle"
  BY DEF StartProactive
<1>2. j.op = "proactive" /\ j.cand = {} /\ j.due = {}
  BY DEF NoJob
<1> HIDE DEF j
<1>3. Fit("scan", j, tx[s], db) /\ Knows("scan", j, db)
  BY <1>1, <1>2, IdleUnseen DEF Fit, Knows, Waiting
<1>4. OldJob("scan", j)
  BY <1>2 DEF OldJob, Early, About, NeedLoad
<1> QED BY <1>1, <1>3, <1>4, GotoOn DEF StartProactive

LEMMA StartRemindersPromised ==
  ASSUME IInv, BInv, NEW s \in SessionIds, NEW old, StartReminders(s, old)
  PROVE  BInv' /\ Promised
<1> DEFINE j == [NoJob EXCEPT !.op = "reminders", !.due = old]
<1>1. Goto(s, "remind", j) /\ pc[s] = "idle" /\ old \subseteq Remindable
  BY DEF StartReminders
<1>2. j.op = "reminders" /\ j.cand = {} /\ j.due = old
  BY DEF NoJob
<1> HIDE DEF j
<1>3. Fit("remind", j, tx[s], db) /\ Knows("remind", j, db)
  BY <1>1, <1>2, IdleUnseen DEF Fit, Knows, Waiting
<1>4. ASSUME NEW l \in Loads, Newborn(l), NEW k \in old
      PROVE  k[2] # l
  <2>1. k \in Notices /\ db.notices[k] = "SENT"
    BY <1>1 DEF Remindable
  <2>2. NoRows(l)
    BY <1>4 DEF BInv, NewbornInv, Unheard
  <2> QED BY <2>1, <2>2 DEF NoRows, Absent
<1>5. OldJob("remind", j)
  BY <1>2, <1>4 DEF OldJob, Early, About, NeedLoad
<1> QED BY <1>1, <1>3, <1>5, GotoOn DEF StartReminders

LEMMA ScanTruckPromised ==
  ASSUME IInv, BInv, NEW s \in SessionIds, ScanTruck(s)
  PROVE  BInv' /\ Promised
<1>1. job[s] \in Jobs /\ tx[s] \in Writes
  BY DEF IInv, ControlInv, DataInv
<1>2. Fit("scan", job[s], tx[s], db) /\ job[s].op = "proactive"
  BY DEF BInv, SessionsFit, Knows, ScanTruck
<1>3. Proposal(tx[s], db) /\ tx[s].interests = {} /\ Whole(tx[s], db)
  BY <1>2 DEF Fit, Waiting
<1>4. CASE \E t \in job[s].scan :
             Goto(s, "scan",
               [job[s] EXCEPT !.truck = t, !.scan = @ \ {t},
                              !.cand = {l \in WaitingLoads(s) : <<l, t>> \in Backhaul},
                              !.memo = [l \in Loads |->
                                 IF l \in WaitingLoads(s) /\ @[l] = NoWrite
                                   THEN "WAITING_FOR_MATCH" ELSE @[l]]])
  <2> DEFINE memo == [l \in Loads |->
                        IF l \in WaitingLoads(s) /\ job[s].memo[l] = NoWrite
                          THEN "WAITING_FOR_MATCH" ELSE job[s].memo[l]]
             cand(t) == {l \in WaitingLoads(s) : <<l, t>> \in Backhaul}
             j(t) == [job[s] EXCEPT !.truck = t, !.scan = @ \ {t},
                                    !.cand = cand(t), !.memo = memo]
  <2>1. PICK t \in job[s].scan : Goto(s, "scan", j(t))
    BY <1>4
  <2>2. cand(t) \subseteq WaitingLoads(s)
    OBVIOUS
  <2> HIDE DEF memo, cand
  <2>3. j(t).op = "proactive" /\ j(t).cand = cand(t) /\ j(t).due = job[s].due
    BY <1>1, <1>2 DEF Jobs
  <2> HIDE DEF j
  <2>4. Fit("scan", j(t), tx[s], db) /\ Knows("scan", j(t), db)
    BY <1>3, <2>3 DEF Fit, Knows, Waiting
  <2>5. tx[s].loads \in [Loads -> {NoWrite, "MATCHED"}]
    BY <1>1, <1>3 DEF Proposal, Writes
  <2>6. \A l \in Loads : Newborn(l) => l \notin cand(t) /\ \A k \in job[s].due : k[2] # l
    BY <2>2, <2>5, FoundOld DEF BInv, NewbornInv, Unheard, Ignores
  <2>7. OldJob("scan", j(t))
    BY <2>3, <2>6 DEF OldJob, Early, About, NeedLoad
  <2> QED BY <2>1, <2>4, <2>7, GotoOn DEF ScanTruck
<1>5. CASE Goto(s, "finish", job[s])
  <2>1. Fit("finish", job[s], tx[s], db) /\ Knows("finish", job[s], db)
    BY <1>2, <1>3 DEF Fit, Knows, Waiting
  <2>2. OldJob("finish", job[s])
    BY JobOld DEF BInv, Early, NeedLoad
  <2> QED BY <1>5, <2>1, <2>2, GotoOn DEF ScanTruck
<1> QED BY <1>4, <1>5 DEF ScanTruck

LEMMA ScanLoadPromised ==
  ASSUME IInv, BInv, NEW s \in SessionIds, ScanLoad(s)
  PROVE  BInv' /\ Promised
<1>1. PICK l \in job[s].cand :
        Goto(s, "probe_match", [job[s] EXCEPT !.load = l, !.cand = @ \ {l}])
  BY DEF ScanLoad
<1> DEFINE j == [job[s] EXCEPT !.load = l, !.cand = @ \ {l}]
<1>2. job[s] \in Jobs /\ l \in Loads
  BY DEF IInv, ControlInv, Jobs
<1>3. Fit("scan", job[s], tx[s], db) /\ job[s].op = "proactive"
  BY DEF BInv, SessionsFit, Knows, ScanLoad
<1>4. ~ Newborn(l)
  BY <1>1, <1>2 DEF BInv, NewbornInv, Unheard, Ignores
<1>5. /\ j.op = "proactive" /\ j.load = l
      /\ j.cand \subseteq job[s].cand /\ j.due \subseteq job[s].due
  BY <1>2, <1>3 DEF Jobs
<1>6. Goto(s, "probe_match", j)
  BY <1>1
<1> HIDE DEF j
<1>7. Fit("probe_match", j, tx[s], db) /\ Knows("probe_match", j, db)
  BY <1>3, <1>5 DEF Fit, Knows, Waiting
<1>8. OldJob("probe_match", j)
  BY <1>4, <1>5, JobOld DEF BInv, Early
<1> QED BY <1>6, <1>7, <1>8, GotoOn DEF ScanLoad

LEMMA RemindNextPromised ==
  ASSUME IInv, BInv, NEW s \in SessionIds, RemindNext(s)
  PROVE  BInv' /\ Promised
<1> DEFINE m(k) == [NoJob.memo EXCEPT ![k[2]] = Remember(s, k[2]).memo[k[2]]]
           j(k) == [job[s] EXCEPT !.due = @ \ {k}, !.memo = m(k)]
           p(k) == IF j(k).due = {} THEN "finish" ELSE "remind"
           w(k) == [tx[s] EXCEPT !.reminded = @ \cup {k}]
<1>1. PICK k \in job[s].due :
        /\ Goto(s, p(k), j(k))
        /\ \/ Stage(s, w(k)) /\ reminders' = [reminders EXCEPT ![k] = Counted(@)]
           \/ UNCHANGED <<db, tx, reminders>>
  BY DEF RemindNext
<1>2. /\ job[s] \in Jobs /\ k \in Notices /\ tx[s] \in Writes
      /\ reminders \in [Notices -> Nat] /\ UNCHANGED pushes
  BY DEF IInv, ControlInv, DataInv, OutsideInv, Jobs, RemindNext
<1>3. Fit("remind", job[s], tx[s], db) /\ Knows("remind", job[s], db)
  BY DEF BInv, SessionsFit, RemindNext
<1> HIDE DEF m
<1>4. /\ j(k).op = job[s].op /\ j(k).cand \subseteq job[s].cand
      /\ j(k).due \subseteq job[s].due
  BY <1>2 DEF Jobs
<1>5. p(k) \in {"finish", "remind"}
  OBVIOUS
<1>6. /\ w(k).loads = tx[s].loads /\ w(k).matches = tx[s].matches
      /\ w(k).interests = tx[s].interests /\ w(k).notices = tx[s].notices
  BY <1>2 DEF Writes
<1>7. tx' = [tx EXCEPT ![s] = w(k)] \/ tx' = [tx EXCEPT ![s] = tx[s]]
  BY <1>1 DEF Stage, IInv, DataInv
<1>8. UNCHANGED db
  BY <1>1 DEF Stage
<1>9. reminders' = [reminders EXCEPT ![k] = Counted(@)] \/ UNCHANGED reminders
  BY <1>1
<1> HIDE DEF p, j, w
<1>10. Fit(p(k), j(k), tx[s], db) /\ Knows(p(k), j(k), db)
  BY <1>3, <1>4, <1>5 DEF Fit, Knows, Waiting
<1>11. Fit(p(k), j(k), w(k), db)
  BY <1>6, <1>10, SameSeen
<1>12. OldJob(p(k), j(k))
  BY <1>4, <1>5, JobOld DEF BInv, Early, NeedLoad
<1>13. OldWrites(tx[s])
  BY PendingOld DEF BInv
<1>14. OldWrites(w(k))
  BY <1>6, <1>13 DEF OldWrites, Avoids
<1>15. \A l \in Loads : Newborn(l) => k[2] # l
  BY DEF BInv, NewbornInv, Unheard, Ignores
<1>16. OldOutside
  BY <1>2, <1>9, <1>15 DEF OldOutside, Notices
<1>17. MatchFoundHasMatch'
  BY <1>2, <1>8 DEF BInv, MatchFoundHasMatch
<1>18. Goto(s, p(k), j(k))
  BY <1>1
<1>19. CASE tx' = [tx EXCEPT ![s] = w(k)]
  BY <1>8, <1>10, <1>11, <1>12, <1>14, <1>16, <1>17, <1>18, <1>19, StageOn
<1>20. CASE tx' = [tx EXCEPT ![s] = tx[s]]
  BY <1>8, <1>10, <1>12, <1>13, <1>16, <1>17, <1>18, <1>20, StageOn
<1> QED BY <1>7, <1>19, <1>20

LEMMA WorkerPromised ==
  ASSUME IInv, BInv, NEW s \in SessionIds, WorkerStep(s)
  PROVE  BInv' /\ Promised
  BY ScanTruckPromised, ScanLoadPromised, RemindNextPromised DEF WorkerStep

-----------------------------------------------------------------------------
(* The theorems *)

\* The empty marketplace.
LEMMA InitPromised == Init => BInv /\ Promise!Init
<1> SUFFICES ASSUME Init PROVE BInv /\ Promise!Init
  OBVIOUS
<1>1. /\ \A l \in Loads : db.loads[l] = Absent
      /\ \A m \in Matches : db.matches[m] = Absent
      /\ \A k \in Notices : db.notices[k] = Absent /\ pushes[k] = 0 /\ reminders[k] = 0
      /\ db.interests = {} /\ db.trusted = {}
      /\ db.loads = [l \in Loads |-> Absent] /\ db.matches = [m \in Matches |-> Absent]
  BY DEF Init, SessionsInit, EmptyTables
<1>2. \A s \in SessionIds : tx[s] = NoWrites /\ pc[s] = "idle" /\ job[s] = NoJob
  BY DEF Init, SessionsInit
<1>3. SessionsFit
  <2>1. Fit("idle", NoJob, NoWrites, db) /\ Knows("idle", NoJob, db)
    BY RestFits, NoWritesUnseen
  <2> QED BY <1>2, <2>1 DEF SessionsFit
<1>4. NewbornInv
  <2> SUFFICES ASSUME NEW l \in Loads PROVE Unheard(l)
    BY DEF NewbornInv
  <2>1. NoRows(l)
    BY <1>1 DEF NoRows
  <2>2. ~ Early("idle", NoJob)
    BY DEF Early
  <2>3. Ignores("idle", NoJob, NoWrites, db, l)
    BY <2>2 DEF Ignores, Avoids, NoWrites, NoJob, About, NeedLoad
  <2> QED BY <1>2, <2>1, <2>2, <2>3 DEF Unheard
<1>5. InterestHasMatch /\ MatchFoundHasMatch
  BY <1>1 DEF InterestHasMatch, MatchFoundHasMatch
<1>6. Promise!Init
  BY <1>1 DEF Promise!Init, Promise!Matches, Matches, Promise!Absent, Absent
<1> QED BY <1>3, <1>4, <1>5, <1>6 DEF BInv

LEMMA StartPromised ==
  ASSUME IInv, BInv, NEW s \in SessionIds, Start(s)
  PROVE  BInv' /\ Promised
<1>1. CASE \E l \in Loads : CreateLoad(s, l)
  BY <1>1, CreateLoadPromised
<1>2. CASE \E t \in Trucks : CreateTruck(s, t)
  BY <1>2, CreateTruckPromised
<1>3. CASE \E l \in Loads, t \in Trucks : PressInterest(s, l, t)
  BY <1>3, PressInterestPromised
<1>4. CASE \E act \in Workload, m \in Matches : AdminFetch(s, act, m)
  BY <1>4, AdminFetchPromised
<1>5. CASE \E l \in Loads : AdminFetchLoad(s, l)
  BY <1>5, AdminFetchLoadPromised
<1>6. CASE \E near \in SUBSET Trucks : StartProactive(s, near)
  BY <1>6, StartProactivePromised
<1>7. CASE \E old \in SUBSET Remindable : StartReminders(s, old)
  BY <1>7, StartRemindersPromised
<1> QED BY <1>1, <1>2, <1>3, <1>4, <1>5, <1>6, <1>7 DEF Start

\* Every step of every session is one of Brokerage, or none.
LEMMA NextPromised == IInv /\ BInv /\ [Next]_vars => BInv' /\ Promised
<1> SUFFICES ASSUME IInv, BInv, [Next]_vars PROVE BInv' /\ Promised
  OBVIOUS
<1>1. CASE UNCHANGED vars
  <2>1. UNCHANGED <<db, tx, pc, job, pushes, reminders>>
    BY <1>1 DEF vars
  <2>2. SessionsFit' /\ InterestHasMatch' /\ MatchFoundHasMatch'
    BY <2>1 DEF BInv, SessionsFit, InterestHasMatch, MatchFoundHasMatch
  <2>3. NewbornInv'
    <3> SUFFICES ASSUME NEW l \in Loads, Newborn(l)' PROVE Unheard(l)'
      BY DEF NewbornInv
    <3>1. Newborn(l)
      BY <2>1 DEF Newborn
    <3>2. Unheard(l)
      BY <3>1 DEF BInv, NewbornInv
    <3> QED BY <2>1, <3>2 DEF Unheard, NoRows
  <2> QED BY <2>1, <2>2, <2>3, QuietPromised DEF BInv
<1>2. ASSUME NEW s \in SessionIds, Start(s) PROVE BInv' /\ Promised
  BY <1>2, StartPromised
<1>3. ASSUME NEW s \in SessionIds, Step(s) PROVE BInv' /\ Promised
  BY <1>3, NotifyPromised, MatchPromised, RequestPromised, AdminPromised, WorkerPromised DEF Step
<1>4. ASSUME NEW s \in SessionIds, Crash(s) PROVE BInv' /\ Promised
  BY <1>4, AbandonOn DEF Crash
<1> QED BY <1>1, <1>2, <1>3, <1>4 DEF Next

LEMMA BothAlways == Spec => [](IInv /\ BInv)
<1>1. Init => IInv /\ BInv
  BY InitInv, InitPromised
<1>2. (IInv /\ BInv) /\ [Next]_vars => (IInv /\ BInv)'
  BY NextInv, NextPromised
<1> QED BY <1>1, <1>2, PTL DEF Spec

\* The backend implements Brokerage: whatever requests, passes, conflicts, stale
\* copies and crashes interleave, what is stored changes only in the atomic
\* steps that Brokerage allows.
THEOREM BackendKeepsPromise == Spec => KeepsPromise
<1>1. Init => Promise!Init
  BY InitPromised
<1>2. IInv /\ BInv /\ [Next]_vars => [Promise!Next]_(Promise!brokerVars)
  BY NextPromised DEF Promised
<1> QED BY <1>1, <1>2, BothAlways, PTL DEF Spec, KeepsPromise, Promise!Spec

\* An interest is never stored without the match that puts it in front of the
\* admin.
THEOREM InterestsAreSeen == Spec => []InterestHasMatch
<1>1. BInv => InterestHasMatch
  BY DEF BInv
<1> QED BY <1>1, BothAlways, PTL

\* A MATCH_FOUND message is about a match that is stored, whatever becomes of
\* the transaction that sent it.
THEOREM MessagesAreTrue == Spec => []MatchFoundHasMatch
<1>1. BInv => MatchFoundHasMatch
  BY DEF BInv
<1> QED BY <1>1, BothAlways, PTL

\* A step of Brokerage makes no match undecided that was decided.
LEMMA BrokerageDecides ==
  ASSUME Promised, NEW m \in Matches, db.matches \in [Matches -> MatchStatus \cup {Absent}],
         db.matches[m] \notin {Absent, "PENDING"}
  PROVE  db'.matches[m] \notin {Absent, "PENDING"}
<1>1. CASE UNCHANGED Promise!brokerVars
  BY <1>1 DEF Promise!brokerVars
<1>2. CASE \E l \in Loads : Promise!Post(l) \/ Promise!Wait(l) \/ Promise!Cancel(l)
  BY <1>2 DEF Promise!Post, Promise!Wait, Promise!Cancel
<1>3. CASE \E new, keen \in SUBSET Matches, open \in SUBSET Loads :
             Promise!Propose(new, open, keen)
  BY <1>3 DEF Promise!Propose, Promise!Matches, Matches, Promise!Absent, Absent
<1>4. CASE \E n \in Matches : Promise!Express(n)
  BY <1>4 DEF Promise!Express
<1>5. CASE \E n \in Matches, ms \in MatchStatus \ {"PENDING"}, ls \in LoadStatus :
             Promise!Decide(n, ms, ls)
  BY <1>5 DEF Promise!Decide, MatchStatus, Absent
<1>6. CASE \E n \in Matches : Promise!Contact(n) \/ Promise!Reject(n)
                                \/ Promise!Connect(n) \/ Promise!AutoConnect(n)
  BY <1>5, <1>6 DEF Promise!Contact, Promise!Reject, Promise!Connect, Promise!AutoConnect,
                    MatchStatus, LoadStatus
<1> QED BY <1>1, <1>2, <1>3, <1>4, <1>6 DEF Promised, Promise!Next, Promise!Matches, Matches

\* No match that was decided about becomes PENDING or absent again, whatever races
\* to create it.
THEOREM DecisionsAreKept == Spec => DecisionsStay
<1> DEFINE Kept ==
      \A m \in Matches :
        db.matches[m] \notin {Absent, "PENDING"} =>
          db'.matches[m] \notin {Absent, "PENDING"}
<1>1. IInv /\ BInv /\ [Next]_vars => [Kept]_vars
  <2> SUFFICES ASSUME IInv, BInv, [Next]_vars PROVE Kept
    OBVIOUS
  <2>1. Promised /\ db.matches \in [Matches -> MatchStatus \cup {Absent}]
    BY NextPromised DEF IInv, DataInv, Tables
  <2> QED BY <2>1, BrokerageDecides
<1> QED BY <1>1, BothAlways, PTL DEF Spec, DecisionsStay
=============================================================================
