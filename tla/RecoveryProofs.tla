---------------------------- MODULE RecoveryProofs ---------------------------
(***************************************************************************)
(* What a request that dies leaves behind is all that is lost: at most one *)
(* load stays NEW for each session that died half-way.  No conflict, stale *)
(* copy or rollback does it.                                               *)
(***************************************************************************)
EXTENDS PassProofs, FiniteSetTheorems

-----------------------------------------------------------------------------
(* Loads *)

\* The load has been dealt with: it was stored, and is not NEW any more.
Settled(l, d) == d.loads[l] \notin {Absent, "NEW"}

\* create_load has stored the load, and not yet settled it.
Fresh(p, j) ==
  /\ j.op = "create_load"
  /\ p \in {"search", "no_match", "probe_match", "insert_match", "mark_matched"}

\* What is pending is about settled loads, and makes none NEW.
OnlySettled(w, d) ==
  /\ \A l \in Loads : w.loads[l] # "NEW"
  /\ \A m \in Matches : w.matches[m] # NoWrite => Settled(m[1], d)
  /\ \A k \in Notices : w.notices[k] # NoWrite => Settled(k[2], d)

\* The same, but for the match that the session has just inserted: its load is
\* settled with it.
PendingSettled(p, j, w, d) ==
  /\ \A l \in Loads : w.loads[l] # "NEW"
  /\ \A m \in Matches :
       w.matches[m] # NoWrite /\ ~ (p = "mark_matched" /\ m = MatchOf(j)) => Settled(m[1], d)
  /\ \A k \in Notices : w.notices[k] # NoWrite => Settled(k[2], d)

\* So is what a session works on, unless it has just created the load, or an
\* admin cancels it.  The creator has seen the load NEW, or it is settled.
JobSettled(p, j, d) ==
  /\ \A l \in j.cand : Settled(l, d)
  /\ \A k \in j.due : Settled(k[2], d)
  /\ p \in NeedLoad /\ ~ Fresh(p, j) /\ j.op # "cancel_load" => Settled(j.load, d)
  /\ p = "no_match" => j.op = "create_load"
  /\ j.op = "create_load" =>
       /\ j.load \in Loads /\ d.loads[j.load] # Absent
       /\ Fresh(p, j) \/ Settled(j.load, d)
       /\ p = "search" => j.memo[j.load] = NoWrite
       /\ Fresh(p, j) /\ p # "search" =>
            j.memo[j.load] # NoWrite /\ (j.memo[j.load] = "NEW" \/ Settled(j.load, d))

\* Nobody hears of a load before it is settled.
Heard ==
  /\ \A m \in Matches : db.matches[m] # Absent => Settled(m[1], db)
  /\ \A k \in Notices :
       db.notices[k] # Absent \/ pushes[k] > 0 \/ reminders[k] > 0 => Settled(k[2], db)

SettleInv ==
  /\ Heard
  /\ \A s \in SessionIds :
       PendingSettled(pc[s], job[s], tx[s], db) /\ JobSettled(pc[s], job[s], db)

\* What every step does, unless a session dies.
Settles == SettleInv' /\ Stranded' \subseteq Stranded /\ UNCHANGED crashes

\* A request that creates a load does not leave it before it is settled.
KeepsLoad(s, j, d) ==
  job[s].op = "create_load" =>
    \/ j.op = "create_load" /\ j.load = job[s].load
    \/ Settled(job[s].load, d)

\* Whoever has not just inserted a match has only settled loads pending.
LEMMA OwnSettled ==
  ASSUME SettleInv, NEW s \in SessionIds, pc[s] # "mark_matched"
  PROVE  OnlySettled(tx[s], db)
  BY DEF SettleInv, PendingSettled, OnlySettled

LEMMA SettledPending ==
  ASSUME NEW w, NEW d, OnlySettled(w, d)
  PROVE  \A p, j : PendingSettled(p, j, w, d)
  BY DEF PendingSettled, OnlySettled

\* Session s goes on with writes w, whatever it commits.
LEMMA StepSettles ==
  ASSUME IInv, SettleInv, NEW s \in SessionIds, NEW w, tx' = [tx EXCEPT ![s] = w],
         NEW p, NEW j, Goto(s, p, j), Heard', PendingSettled(p, j, w, db'), JobSettled(p, j, db'),
         \A l \in Loads : Settled(l, db) => Settled(l, db'),
         \A l \in Loads : db.loads[l] # Absent => db'.loads[l] # Absent,
         \A l \in Loads : db'.loads[l] = "NEW" =>
           db.loads[l] = "NEW" \/ (j.op = "create_load" /\ j.load = l),
         KeepsLoad(s, j, db'), UNCHANGED crashes
  PROVE  Settles
<1>1. tx \in [SessionIds -> Writes] /\ pc \in [SessionIds -> Phases] /\ job \in [SessionIds -> Jobs]
  BY DEF IInv, DataInv, ControlInv
<1>2. /\ \A o \in SessionIds \ {s} : pc'[o] = pc[o] /\ job'[o] = job[o] /\ tx'[o] = tx[o]
      /\ pc'[s] = p /\ job'[s] = j /\ tx'[s] = w
  BY <1>1 DEF Goto
<1>3. ASSUME NEW o \in SessionIds
      PROVE  PendingSettled(pc'[o], job'[o], tx'[o], db') /\ JobSettled(pc'[o], job'[o], db')
  <2>1. CASE o = s
    BY <1>2, <2>1
  <2>2. CASE o # s
    <3>1. PendingSettled(pc[o], job[o], tx[o], db) /\ JobSettled(pc[o], job[o], db) /\ job[o] \in Jobs
      BY <1>1 DEF SettleInv
    <3>2. PendingSettled(pc[o], job[o], tx[o], db')
      BY <3>1 DEF PendingSettled, Matches, Notices
    <3>3. job[o].cand \subseteq Loads /\ job[o].due \subseteq Notices
          /\ (pc[o] \in NeedLoad => job[o].load \in Loads)
      BY <3>1 DEF Jobs, IInv, ControlInv, JobReady
    <3>4. JobSettled(pc[o], job[o], db')
      BY <3>1, <3>3 DEF JobSettled, Notices
    <3> QED BY <1>2, <2>2, <3>2, <3>4
  <2> QED BY <2>1, <2>2
<1>4. SettleInv'
  BY <1>3 DEF SettleInv
<1>5. ASSUME NEW l \in Loads, l \in Stranded' PROVE l \in Stranded
  <2>1. db'.loads[l] = "NEW" /\ \A o \in SessionIds : job'[o].op # "create_load" \/ job'[o].load # l
    BY <1>5 DEF Stranded
  <2>2. db.loads[l] = "NEW"
    BY <1>2, <2>1
  <2>3. job[s].op # "create_load" \/ job[s].load # l
    BY <1>2, <2>1 DEF KeepsLoad, Settled
  <2> QED BY <1>2, <2>1, <2>2, <2>3 DEF Stranded
<1> QED BY <1>4, <1>5 DEF Settles, Stranded

\* A session goes on with what it has pending, or more,
LEMMA StaySettles ==
  ASSUME IInv, SettleInv, NEW s \in SessionIds, NEW w, tx' = [tx EXCEPT ![s] = w],
         UNCHANGED <<db, crashes>>, Heard',
         NEW p, NEW j, Goto(s, p, j), OnlySettled(w, db), JobSettled(p, j, db),
         KeepsLoad(s, j, db)
  PROVE  Settles
  BY SettledPending, StepSettles

\* or nothing more,
LEMMA GotoSettles ==
  ASSUME IInv, SettleInv, NEW s \in SessionIds, UNCHANGED <<db, tx, outside, crashes>>,
         pc[s] # "mark_matched",
         NEW p, NEW j, Goto(s, p, j), JobSettled(p, j, db), KeepsLoad(s, j, db)
  PROVE  Settles
<1>1. tx' = [tx EXCEPT ![s] = tx[s]] /\ OnlySettled(tx[s], db) /\ UNCHANGED <<pushes, reminders>>
  BY OwnSettled DEF IInv, DataInv, outside
<1>2. Heard'
  BY <1>1 DEF SettleInv, Heard
<1> QED BY <1>1, <1>2, StaySettles

LEMMA NothingSettles == \A d : OnlySettled(NoWrites, d) /\ JobSettled("idle", NoJob, d)
<1>1. NoJob.cand = {} /\ NoJob.due = {} /\ NoJob.op # "create_load"
  BY DEF NoJob, None
<1> QED BY <1>1 DEF OnlySettled, NoWrites, JobSettled, NeedLoad, NoWrite

\* or gives up,
LEMMA AbandonSettles ==
  ASSUME IInv, SettleInv, NEW s \in SessionIds, Abandon(s), UNCHANGED <<outside, crashes>>,
         job[s].op = "create_load" => Settled(job[s].load, db)
  PROVE  Settles
<1>1. UNCHANGED <<db, pushes, reminders>> /\ tx' = [tx EXCEPT ![s] = NoWrites]
      /\ Goto(s, "idle", NoJob)
  BY DEF Abandon, Done, outside
<1>2. Heard' /\ KeepsLoad(s, NoJob, db)
  BY <1>1 DEF SettleInv, Heard, KeepsLoad
<1> QED BY <1>1, <1>2, NothingSettles, StaySettles

\* Settled loads remain settled,
LEMMA CommitSettled ==
  ASSUME IInv, NEW s \in SessionIds, NEW w \in Writes, Commit(s, w),
         \A l \in Loads : w.loads[l] # "NEW"
  PROVE  /\ \A l \in Loads : Settled(l, db) => Settled(l, db')
         /\ \A l \in Loads : db.loads[l] # Absent => db'.loads[l] # Absent
         /\ \A l \in Loads : db'.loads[l] = "NEW" => db.loads[l] = "NEW"
         /\ \A l \in Loads : w.loads[l] # NoWrite => Settled(l, db')
<1>1. \A l \in Loads :
        db'.loads[l] = IF w.loads[l] = NoWrite THEN db.loads[l] ELSE w.loads[l]
  BY CommitRows
<1>2. \A l \in Loads : w.loads[l] \notin {Absent, "NEW"}
  BY DEF Writes, LoadStatus, Absent, NoWrite
<1> QED BY <1>1, <1>2 DEF Settled

\* when a session commits.
LEMMA CommitSettles ==
  ASSUME IInv, SettleInv, NEW s \in SessionIds, NEW w \in Writes, Commit(s, w),
         UNCHANGED <<outside, crashes>>, OnlySettled(w, db'),
         NEW p, NEW j, Goto(s, p, j), JobSettled(p, j, db'), KeepsLoad(s, j, db')
  PROVE  Settles
<1>1. /\ \A l \in Loads :
           db'.loads[l] = IF w.loads[l] = NoWrite THEN db.loads[l] ELSE w.loads[l]
      /\ \A m \in Matches :
           db'.matches[m] = IF w.matches[m] = NoWrite THEN db.matches[m] ELSE w.matches[m]
      /\ \A k \in Notices :
           db'.notices[k] = IF w.notices[k] = NoWrite THEN db.notices[k] ELSE w.notices[k]
  BY CommitRows
<1>2. \A l \in Loads : w.loads[l] \notin {Absent, "NEW"}
  BY DEF OnlySettled, Writes, LoadStatus, Absent, NoWrite
<1>3. \A l \in Loads : Settled(l, db) => Settled(l, db')
  BY <1>1, <1>2 DEF Settled
<1>4. \A l \in Loads : db.loads[l] # Absent => db'.loads[l] # Absent
  BY <1>1, <1>2
<1>5. \A l \in Loads : db'.loads[l] = "NEW" => db.loads[l] = "NEW"
  BY <1>1, <1>2
<1>6. Heard'
  <2>1. ASSUME NEW m \in Matches, db'.matches[m] # Absent PROVE Settled(m[1], db')
    <3>1. m[1] \in Loads
      BY DEF Matches
    <3> QED BY <1>1, <1>3, <2>1, <3>1 DEF SettleInv, Heard, OnlySettled
  <2>2. ASSUME NEW k \in Notices, db'.notices[k] # Absent \/ pushes'[k] > 0 \/ reminders'[k] > 0
        PROVE  Settled(k[2], db')
    <3>1. k[2] \in Loads /\ UNCHANGED <<pushes, reminders>>
      BY DEF Notices, outside
    <3> QED BY <1>1, <1>3, <2>2, <3>1 DEF SettleInv, Heard, OnlySettled
  <2> QED BY <2>1, <2>2 DEF Heard
<1>7. OnlySettled(NoWrites, db') /\ tx' = [tx EXCEPT ![s] = NoWrites]
  BY NothingSettles DEF Commit
<1> QED BY <1>3, <1>4, <1>5, <1>6, <1>7, SettledPending, StepSettles

\* A session goes on with the same work, once its load is settled.
LEMMA SameWork ==
  ASSUME IInv, SettleInv, NEW s \in SessionIds, NEW d,
         \A l \in Loads : Settled(l, db) => Settled(l, d), Settled(job[s].load, d),
         NEW p, p \notin {"search", "no_match", "probe_match", "insert_match", "mark_matched"},
         NEW j, j.op = job[s].op, j.load = job[s].load,
         j.cand \subseteq job[s].cand, j.due \subseteq job[s].due
  PROVE  JobSettled(p, j, d) /\ KeepsLoad(s, j, d)
<1>1. JobSettled(pc[s], job[s], db) /\ job[s].cand \subseteq Loads /\ job[s].due \subseteq Notices
  BY DEF SettleInv, IInv, ControlInv, Jobs
<1>2. \A l \in j.cand : Settled(l, d)
  BY <1>1 DEF JobSettled
<1>3. \A k \in j.due : Settled(k[2], d)
  BY <1>1 DEF JobSettled, Notices
<1> QED BY <1>1, <1>2, <1>3 DEF JobSettled, KeepsLoad, Settled, Fresh

\* The load is settled once a session is past the search for a partner.
LEMMA LoadSettled ==
  ASSUME IInv, BInv, SettleInv, NEW s \in SessionIds, pc[s] \in NeedLoad,
         ~ Fresh(pc[s], job[s]), job[s].op # "cancel_load"
  PROVE  job[s].load \in Loads /\ Settled(job[s].load, db) /\ job[s] \in Jobs
  BY DEF SettleInv, JobSettled, IInv, ControlInv, JobReady

-----------------------------------------------------------------------------
(* The actions *)

\* A session starts on a list.
LEMMA ListSettles ==
  ASSUME IInv, SettleInv, NEW s \in SessionIds, NEW d,
         \A l \in Loads : Settled(l, db) => Settled(l, d), Settled(job[s].load, d),
         NEW j \in Jobs, j.op = job[s].op, j.load = job[s].load,
         j.cand \subseteq job[s].cand, j.due \subseteq job[s].due,
         NEW todo, NEW after, StartNotices(s, j, todo, after)
  PROVE  \E i : Goto(s, "notify", i) /\ JobSettled("notify", i, d) /\ KeepsLoad(s, i, d)
<1> DEFINE i == [j EXCEPT !.todo = todo, !.after = after]
<1>1. i.op = j.op /\ i.load = j.load /\ i.cand = j.cand /\ i.due = j.due
  BY DEF Jobs
<1>2. Goto(s, "notify", i)
  BY DEF StartNotices
<1> HIDE DEF i
<1>3. JobSettled("notify", i, d) /\ KeepsLoad(s, i, d)
  BY <1>1, SameWork
<1> QED BY <1>2, <1>3

\* A session goes on in its list.
LEMMA NextSettles ==
  ASSUME IInv, BInv, SettleInv, NEW s \in SessionIds, pc[s] \in {"notify", "send"}, NextNotice(s)
  PROVE  \E p, j : Goto(s, p, j) /\ JobSettled(p, j, db) /\ KeepsLoad(s, j, db)
<1> DEFINE rest == Tail(job[s].todo)
           p == IF rest = <<>> THEN job[s].after ELSE "notify"
           j == [job[s] EXCEPT !.todo = rest]
<1>1. job[s].op # "cancel_load" /\ NoticesReady(job[s], db.trusted)
  BY DEF BInv, SessionsFit, Knows, IInv, ControlInv, JobReady
<1>2. Settled(job[s].load, db) /\ job[s] \in Jobs
  BY <1>1, LoadSettled DEF NeedLoad, Fresh
<1>3. j.op = job[s].op /\ j.load = job[s].load /\ j.cand = job[s].cand /\ j.due = job[s].due
  BY <1>2 DEF Jobs
<1>4. Goto(s, p, j) /\ p \in {"finish", "scan", "broadcast", "audience", "notify"}
  BY <1>1 DEF NextNotice, NoticesReady
<1> HIDE DEF j, p
<1>5. JobSettled(p, j, db) /\ KeepsLoad(s, j, db)
  BY <1>2, <1>3, <1>4, SameWork
<1> QED BY <1>4, <1>5

LEMMA NotifySettles ==
  ASSUME IInv, BInv, SettleInv, NEW s \in SessionIds, NotifyStep(s)
  PROVE  Settles
<1> DEFINE h == Head(job[s].todo)
<1>1. ASSUME pc[s] \in {"notify", "send"}
      PROVE  /\ job[s] \in Jobs /\ h \in Notices /\ h[2] \in Loads /\ Settled(h[2], db)
             /\ job[s].op = "create_load" => Settled(job[s].load, db)
             /\ JobSettled("send", job[s], db) /\ KeepsLoad(s, job[s], db)
  <2>1. job[s].op # "cancel_load" /\ NoticesReady(job[s], db.trusted)
        /\ \A i \in 1..Len(job[s].todo) : job[s].todo[i][2] = job[s].load
    BY <1>1 DEF BInv, SessionsFit, Knows, IInv, ControlInv, JobReady
  <2>2. Settled(job[s].load, db) /\ job[s] \in Jobs
    BY <1>1, <2>1, LoadSettled DEF NeedLoad, Fresh
  <2>3. job[s].todo \in Seq(Notices) /\ job[s].todo # <<>>
    BY <2>1, <2>2 DEF Jobs, NoticesReady
  <2>4. h \in Notices /\ h = job[s].todo[1] /\ 1 \in 1..Len(job[s].todo)
    BY <2>3
  <2>5. JobSettled("send", job[s], db) /\ KeepsLoad(s, job[s], db)
    BY <2>2, SameWork
  <2> QED BY <2>1, <2>2, <2>4, <2>5 DEF Notices
<1> HIDE DEF h
<1>3. CASE ProbeNotice(s)
  <2>1. NextNotice(s) \/ Goto(s, "send", job[s])
    BY <1>3 DEF ProbeNotice
  <2> QED BY <1>1, <1>3, <2>1, NextSettles, GotoSettles DEF ProbeNotice
<1>4. CASE SendNotice(s)
  <2>1. PICK outcome : Stage(s, [tx[s] EXCEPT !.notices[h] = outcome])
    BY <1>4 DEF SendNotice, h
  <2> DEFINE w == [tx[s] EXCEPT !.notices[h] = outcome]
  <2>2. tx' = [tx EXCEPT ![s] = w] /\ UNCHANGED <<db, reminders, crashes>>
        /\ pushes' = [pushes EXCEPT ![h] = Counted(@)] /\ pc[s] = "send" /\ NextNotice(s)
    BY <1>4, <2>1 DEF SendNotice, Stage, h
  <2>3. OnlySettled(w, db)
    <3>1. tx[s] \in Writes /\ OnlySettled(tx[s], db)
      BY <2>2, OwnSettled DEF IInv, DataInv
    <3>2. /\ w.loads = tx[s].loads /\ w.matches = tx[s].matches
          /\ \A k \in Notices : k # h => w.notices[k] = tx[s].notices[k]
      BY <3>1 DEF Writes
    <3> HIDE DEF w
    <3> QED BY <1>1, <2>2, <3>1, <3>2 DEF OnlySettled
  <2> HIDE DEF w
  <2>4. Heard'
    <3>1. \A k \in Notices : pushes'[k] > 0 => pushes[k] > 0 \/ k = h
      BY <2>2 DEF IInv, OutsideInv
    <3> QED BY <1>1, <2>2, <3>1 DEF SettleInv, Heard, Settled
  <2>5. PICK p, j : Goto(s, p, j) /\ JobSettled(p, j, db) /\ KeepsLoad(s, j, db)
    BY <2>2, NextSettles
  <2> QED BY <2>2, <2>3, <2>4, <2>5, StaySettles
<1>5. CASE NoticeConflict(s)
  BY <1>1, <1>5, AbandonSettles DEF NoticeConflict
<1>6. CASE Finish(s)
  <2>1. Commit(s, tx[s]) /\ Goto(s, "idle", NoJob) /\ UNCHANGED <<outside, crashes>>
        /\ tx[s] \in Writes /\ OnlySettled(tx[s], db) /\ pc[s] = "finish"
    BY <1>6, OwnSettled DEF Finish, Done, IInv, DataInv
  <2>2. \A l \in Loads : Settled(l, db) => Settled(l, db')
    BY <2>1, CommitSettled DEF OnlySettled
  <2>3. OnlySettled(tx[s], db')
    BY <2>1, <2>2 DEF OnlySettled, Matches, Notices
  <2>4. KeepsLoad(s, NoJob, db')
    BY <2>1, <2>2 DEF KeepsLoad, SettleInv, JobSettled, Fresh
  <2> QED BY <2>1, <2>3, <2>4, NothingSettles, CommitSettles
<1> QED BY <1>3, <1>4, <1>5, <1>6 DEF NotifyStep

LEMMA ProbeMatchSettles ==
  ASSUME IInv, BInv, SettleInv, NEW s \in SessionIds, ProbeMatch(s)
  PROVE  Settles
<1>1. /\ job[s] \in Jobs /\ job[s].load \in Loads /\ job[s].truck \in Trucks
      /\ JobMatch(s) \in Matches /\ JobMatch(s)[1] = job[s].load
      /\ JobSettled("probe_match", job[s], db) /\ Fit("probe_match", job[s], tx[s], db)
      /\ job[s].op # "cancel_load"
  BY JobMatchType DEF ProbeMatch, NeedTruck, JobMatch, BInv, SessionsFit, SettleInv, Knows
<1>2. CASE Goto(s, "insert_match", job[s])
  <2>1. JobSettled("insert_match", job[s], db) /\ KeepsLoad(s, job[s], db)
    BY <1>1 DEF JobSettled, KeepsLoad, NeedLoad, Fresh
  <2> QED BY <1>2, <2>1, GotoSettles DEF ProbeMatch
<1>3. CASE View(s).matches[JobMatch(s)] # Absent /\ AfterExistingMatch(s)
  <2>1. CASE job[s].op \in {"proactive", "register_interest"}
    <3>1. PICK p \in {"scan", "record_interest"} : Goto(s, p, job[s])
      BY <1>3, <2>1 DEF AfterExistingMatch
    <3>2. Settled(job[s].load, db)
      BY <2>1, LoadSettled DEF ProbeMatch, NeedLoad, Fresh
    <3>3. JobSettled(p, job[s], db) /\ KeepsLoad(s, job[s], db)
      BY <3>1, <3>2, SameWork
    <3> QED BY <3>1, <3>3, GotoSettles DEF ProbeMatch
  <2>2. CASE job[s].op \notin {"proactive", "register_interest"}
    <3>1. Unseen(tx[s])
      BY <1>1, <2>2 DEF Fit
    <3>2. db.matches[JobMatch(s)] # Absent
      BY <1>1, <1>3, <3>1 DEF Unseen, View, Overlay
    <3>3. Settled(job[s].load, db)
      BY <1>1, <3>2 DEF SettleInv, Heard
    <3>4. Goto(s, "idle", NoJob) /\ KeepsLoad(s, NoJob, db)
      BY <1>3, <2>2, <3>3 DEF AfterExistingMatch, Done, KeepsLoad
    <3> QED BY <3>4, NothingSettles, GotoSettles DEF ProbeMatch
  <2> QED BY <2>1, <2>2
<1> QED BY <1>2, <1>3 DEF ProbeMatch

\* From the insert on, the match of a load that is not settled yet is pending.
LEMMA InsertMatchSettles ==
  ASSUME IInv, BInv, SettleInv, NEW s \in SessionIds, InsertMatch(s)
  PROVE  Settles
<1> DEFINE w == KeyWrites(s)
<1>1. /\ job[s] \in Jobs /\ tx[s] \in Writes /\ JobMatch(s) = MatchOf(job[s])
      /\ JobSettled("insert_match", job[s], db) /\ OnlySettled(tx[s], db)
  BY OwnSettled DEF IInv, DataInv, ControlInv, SettleInv, InsertMatch, JobMatch, MatchOf
<1>2. /\ w.loads = tx[s].loads /\ w.notices = tx[s].notices
      /\ \A n \in Matches : n # MatchOf(job[s]) => w.matches[n] = tx[s].matches[n]
  BY <1>1 DEF KeyWrites, Writes
<1>3. /\ tx' = [tx EXCEPT ![s] = w] /\ Goto(s, "mark_matched", job[s])
      /\ UNCHANGED <<db, pushes, reminders, crashes>>
  BY DEF InsertMatch, Stage, outside
<1> HIDE DEF w
<1>4. PendingSettled("mark_matched", job[s], w, db)
  BY <1>1, <1>2 DEF OnlySettled, PendingSettled
<1>5. JobSettled("mark_matched", job[s], db) /\ KeepsLoad(s, job[s], db)
  BY <1>1 DEF JobSettled, KeepsLoad, NeedLoad, Fresh
<1>6. Heard'
  BY <1>3 DEF SettleInv, Heard
<1> QED BY <1>3, <1>4, <1>5, <1>6, StepSettles

\* The commit of the match settles a new load.
LEMMA MarkMatchedSettles ==
  ASSUME IInv, BInv, SettleInv, NEW s \in SessionIds, MarkMatched(s)
  PROVE  Settles
<1> DEFINE l == job[s].load
           m == JobMatch(s)
           w == MatchWrites(s)
           j == [job[s] EXCEPT !.memo[l] = MatchedStatus(@)]
           v == IF MatchedStatus(job[s].memo[l]) = job[s].memo[l]
                  THEN tx[s].loads[l] ELSE MatchedStatus(job[s].memo[l])
<1>1. /\ job[s] \in Jobs /\ l \in Loads /\ job[s].truck \in Trucks
      /\ m \in Matches /\ m[1] = l
      /\ JobSettled("mark_matched", job[s], db) /\ job[s].op # "cancel_load"
  BY JobMatchType DEF MarkMatched, NeedTruck, JobMatch, BInv, SessionsFit, SettleInv, Knows
<1>2. /\ tx[s] \in Writes /\ w \in Writes
      /\ \A k \in Loads : tx[s].loads[k] # "NEW"
      /\ \A n \in Matches : n # m /\ tx[s].matches[n] # NoWrite => Settled(n[1], db)
      /\ \A k \in Notices : tx[s].notices[k] # NoWrite => Settled(k[2], db)
  BY <1>1, MatchWritesSafe
     DEF IInv, DataInv, SettleInv, PendingSettled, MarkMatched, SafeWrites, MatchOf, JobMatch
<1>3. /\ \A k \in Loads : w.loads[k] = IF k = l THEN v ELSE tx[s].loads[k]
      /\ \A n \in Matches : n # m => w.matches[n] = tx[s].matches[n]
      /\ w.notices = tx[s].notices
  BY <1>1, <1>2 DEF MatchWrites, Writes
<1>4. v # "NEW"
  BY <1>1, <1>2 DEF MatchedStatus
<1>5. job[s].memo[l] = "NEW" => v = "MATCHED"
  BY DEF MatchedStatus
<1>6. j.op = job[s].op /\ j.load = l /\ j.cand = job[s].cand /\ j.due = job[s].due
  BY <1>1 DEF Jobs
<1>7. j \in Jobs
  BY <1>1 DEF Jobs, MatchedStatus, LoadStatus
<1>8. \A k \in Loads : w.loads[k] # "NEW"
  BY <1>2, <1>3, <1>4
<1> HIDE DEF v, w, j
<1>9. ASSUME NEW d, \A k \in Loads : Settled(k, db) => Settled(k, d), Settled(l, d)
      PROVE  OnlySettled(w, d)
  <2>1. \A n \in Matches : n[1] \in Loads
    BY DEF Matches
  <2>2. \A k \in Notices : k[2] \in Loads
    BY DEF Notices
  <2> QED BY <1>1, <1>2, <1>3, <1>8, <1>9, <2>1, <2>2 DEF OnlySettled
<1>10. /\ \/ job[s].op \in {"create_load", "create_truck"} /\ Goto(s, "process_match", j)
          \/ job[s].op = "register_interest" /\ Goto(s, "record_interest", j)
          \/ job[s].op = "proactive" /\ \E todo, after : StartNotices(s, j, todo, after)
       /\ UNCHANGED <<outside, crashes>>
  BY DEF MarkMatched, j
<1>11. ASSUME NEW d, \A k \in Loads : Settled(k, db) => Settled(k, d), Settled(l, d)
       PROVE  \E p, i : Goto(s, p, i) /\ JobSettled(p, i, d) /\ KeepsLoad(s, i, d)
  <2>1. ASSUME NEW p \in {"process_match", "record_interest"}, Goto(s, p, j)
        PROVE  \E q, i : Goto(s, q, i) /\ JobSettled(q, i, d) /\ KeepsLoad(s, i, d)
    <3>1. JobSettled(p, j, d) /\ KeepsLoad(s, j, d)
      BY <1>6, <1>11, <2>1, SameWork
    <3> QED BY <2>1, <3>1
  <2>2. ASSUME NEW todo, NEW after, StartNotices(s, j, todo, after)
        PROVE  \E q, i : Goto(s, q, i) /\ JobSettled(q, i, d) /\ KeepsLoad(s, i, d)
    <3>1. \E i : Goto(s, "notify", i) /\ JobSettled("notify", i, d) /\ KeepsLoad(s, i, d)
      BY <1>6, <1>7, <1>11, <2>2, ListSettles
    <3> QED BY <3>1
  <2> QED BY <1>10, <2>1, <2>2
<1>12. CASE job[s].op \in {"create_load", "create_truck"}
  <2>1. Commit(s, w)
    BY <1>12 DEF MarkMatched, SaveMatch, w
  <2>2. \A k \in Loads : Settled(k, db) => Settled(k, db')
    BY <1>2, <1>8, <2>1, CommitSettled
  <2>3. Settled(l, db')
    <3>1. CASE Settled(l, db)
      BY <1>1, <2>2, <3>1
    <3>2. CASE ~ Settled(l, db)
      <4>1. job[s].memo[l] = "NEW"
        BY <1>1, <1>12, <3>2 DEF JobSettled, NeedLoad, Fresh
      <4>2. w.loads[l] # NoWrite
        BY <1>1, <1>3, <1>5, <4>1 DEF NoWrite
      <4> QED BY <1>1, <1>2, <1>8, <2>1, <4>2, CommitSettled
    <3> QED BY <3>1, <3>2
  <2> QED BY <1>2, <1>9, <1>10, <1>11, <2>1, <2>2, <2>3, CommitSettles
<1>13. CASE job[s].op \notin {"create_load", "create_truck"}
  <2>1. Settled(l, db)
    BY <1>1, <1>13, LoadSettled DEF MarkMatched, NeedLoad, Fresh
  <2>2. tx' = [tx EXCEPT ![s] = w] /\ UNCHANGED <<db, pushes, reminders, crashes>>
    BY <1>10, <1>13 DEF MarkMatched, SaveMatch, Stage, outside, w
  <2>3. Heard'
    BY <2>2 DEF SettleInv, Heard
  <2>4. OnlySettled(w, db) /\ \E p, i : Goto(s, p, i) /\ JobSettled(p, i, db) /\ KeepsLoad(s, i, db)
    BY <1>9, <1>11, <2>1
  <2> QED BY <2>2, <2>3, <2>4, StaySettles
<1> QED BY <1>12, <1>13

LEMMA MatchSettles ==
  ASSUME IInv, BInv, SettleInv, NEW s \in SessionIds, MatchStep(s)
  PROVE  Settles
<1>1. CASE MatchConflict(s)
  <2>1. JobMatch(s) \in Matches /\ JobMatch(s)[1] = job[s].load
    BY <1>1, JobMatchType DEF MatchConflict, NeedTruck, JobMatch
  <2>2. Settled(job[s].load, db)
    BY <1>1, <2>1 DEF MatchConflict, KeyTaken, SettleInv, Heard
  <2> QED BY <1>1, <2>2, AbandonSettles DEF MatchConflict
<1>2. ASSUME pc[s] = "process_match"
      PROVE  /\ job[s] \in Jobs /\ job[s].load \in Loads /\ Settled(job[s].load, db)
             /\ JobMatch(s) \in Matches /\ JobMatch(s)[1] = job[s].load
             /\ tx[s] \in Writes /\ OnlySettled(tx[s], db)
  <2>1. job[s].op # "cancel_load"
    BY <1>2 DEF BInv, SessionsFit, Knows
  <2> QED BY <1>2, <2>1, LoadSettled, JobMatchType, OwnSettled
          DEF NeedLoad, NeedTruck, Fresh, JobMatch, IInv, DataInv
<1>3. CASE AutoConnect(s)
  <2> DEFINE m == JobMatch(s)
             l == job[s].load
             v == Assign(job[s].memo[l], "CONNECTED")
             w == [tx[s] EXCEPT !.matches[m] = "CONNECTED", !.loads[l] = v]
             j == [job[s] EXCEPT !.memo[l] = "CONNECTED"]
  <2>1. pc[s] = "process_match" /\ Stage(s, w) /\ UNCHANGED <<outside, crashes>>
        /\ \E todo, after : StartNotices(s, j, todo, after)
    BY <1>3 DEF AutoConnect
  <2>2. v # "NEW"
    BY DEF Assign, NoWrite
  <2> HIDE DEF v
  <2>3. OnlySettled(w, db)
    <3>1. /\ \A k \in Loads : w.loads[k] = IF k = l THEN v ELSE tx[s].loads[k]
          /\ \A n \in Matches : n # m => w.matches[n] = tx[s].matches[n]
          /\ w.notices = tx[s].notices
      BY <1>2, <2>1 DEF Writes
    <3> HIDE DEF w
    <3> QED BY <1>2, <2>1, <2>2, <3>1 DEF OnlySettled
  <2>4. j \in Jobs /\ j.op = job[s].op /\ j.load = l /\ j.cand = job[s].cand /\ j.due = job[s].due
    BY <1>2, <2>1 DEF Jobs, LoadStatus
  <2> HIDE DEF w, j
  <2>5. \E i : Goto(s, "notify", i) /\ JobSettled("notify", i, db) /\ KeepsLoad(s, i, db)
    BY <1>2, <2>1, <2>4, ListSettles
  <2>6. tx' = [tx EXCEPT ![s] = w] /\ UNCHANGED <<db, pushes, reminders, crashes>>
    BY <2>1 DEF Stage, outside
  <2>7. Heard'
    BY <2>6 DEF SettleInv, Heard
  <2> QED BY <2>3, <2>5, <2>6, <2>7, StaySettles
<1>4. CASE MediateMatch(s)
  <2>1. \E i : Goto(s, "notify", i) /\ JobSettled("notify", i, db) /\ KeepsLoad(s, i, db)
    BY <1>2, <1>4, ListSettles DEF MediateMatch
  <2> QED BY <1>4, <2>1, GotoSettles DEF MediateMatch
<1> QED BY <1>1, <1>3, <1>4, ProbeMatchSettles, InsertMatchSettles, MarkMatchedSettles
        DEF MatchStep

\* The creator of a load remembers it NEW, unless it is settled already.
LEMMA SearchTruckSettles ==
  ASSUME IInv, BInv, SettleInv, NEW s \in SessionIds, SearchTruck(s)
  PROVE  Settles
<1> DEFINE l == job[s].load
           r == Remember(s, l)
<1>1. /\ job[s] \in Jobs /\ job[s].op = "create_load" /\ pc[s] = "search" /\ l \in Loads
      /\ JobSettled("search", job[s], db) /\ Fit("search", job[s], tx[s], db)
  BY DEF IInv, ControlInv, SettleInv, JobSettled, BInv, SessionsFit, SearchTruck
<1>2. r \in Jobs /\ r = [job[s] EXCEPT !.memo = r.memo]
  BY <1>1, RememberType DEF IInv
<1>3. r.memo[l] = db.loads[l] /\ db.loads[l] \in LoadStatus
  <2>1. Unseen(tx[s]) /\ job[s].memo[l] = NoWrite /\ db.loads[l] # Absent
    BY <1>1 DEF Fit, JobSettled
  <2>2. View(s).loads[l] = db.loads[l]
    BY <1>1, <2>1 DEF Unseen, View, Overlay
  <2>3. r.memo[l] = View(s).loads[l]
    BY <1>1, <2>1 DEF Remember, Jobs
  <2> QED BY <1>1, <2>1, <2>2, <2>3 DEF IInv, DataInv, Tables
<1>4. r.op = "create_load" /\ r.load = l /\ r.cand = job[s].cand /\ r.due = job[s].due
  BY <1>1, <1>2 DEF Jobs
<1>5. (\E t : Goto(s, "probe_match", [r EXCEPT !.truck = t])) \/ Goto(s, "no_match", r)
  BY DEF SearchTruck
<1> HIDE DEF r
<1>6. PICK p, j :
        /\ p \in {"probe_match", "no_match"} /\ Goto(s, p, j) /\ j.op = "create_load" /\ j.load = l
        /\ j.cand = job[s].cand /\ j.due = job[s].due /\ j.memo = r.memo
  <2>1. CASE Goto(s, "no_match", r)
    BY <1>4, <2>1
  <2>2. CASE \E t : Goto(s, "probe_match", [r EXCEPT !.truck = t])
    <3>1. PICK t : Goto(s, "probe_match", [r EXCEPT !.truck = t])
      BY <2>2
    <3> DEFINE j == [r EXCEPT !.truck = t]
    <3>2. /\ j.op = r.op /\ j.load = r.load /\ j.cand = r.cand /\ j.due = r.due
          /\ j.memo = r.memo
      BY <1>2 DEF Jobs
    <3> HIDE DEF j
    <3> QED BY <1>4, <3>1, <3>2 DEF j
  <2> QED BY <1>5, <2>1, <2>2
<1>7. db.loads[l] # Absent /\ db.loads[l] # NoWrite
  BY <1>3 DEF LoadStatus, Absent, NoWrite
<1>8. JobSettled(p, j, db)
  BY <1>1, <1>3, <1>6, <1>7 DEF JobSettled, Fresh, Settled
<1>9. KeepsLoad(s, j, db)
  BY <1>6 DEF KeepsLoad
<1> QED BY <1>6, <1>8, <1>9, GotoSettles DEF SearchTruck

LEMMA SetWaitingSettles ==
  ASSUME IInv, BInv, SettleInv, NEW s \in SessionIds, SetWaiting(s)
  PROVE  Settles
<1> DEFINE l == job[s].load
           st == Assign(job[s].memo[l], "WAITING_FOR_MATCH")
           w == OneLoad(l, st)
           j == [job[s] EXCEPT !.memo[l] = "WAITING_FOR_MATCH"]
<1>1. job[s] \in Jobs /\ l \in Loads /\ JobSettled("no_match", job[s], db)
  BY DEF IInv, ControlInv, JobReady, NeedLoad, SettleInv, SetWaiting
<1>2. /\ st \in {NoWrite, "WAITING_FOR_MATCH"} /\ st \in LoadStatus \cup {NoWrite}
      /\ st = NoWrite => Settled(l, db)
  BY <1>1 DEF Assign, LoadStatus, NoWrite, JobSettled, Fresh
<1>3. Commit(s, w) /\ UNCHANGED <<outside, crashes>>
      /\ StartNotices(s, j, NoticesFor(<<ShipperOf[l]>>, l, "BROADCAST"), "audience")
  BY DEF SetWaiting, OneLoad
<1>4. j \in Jobs /\ j.op = job[s].op /\ j.load = l /\ j.cand = job[s].cand /\ j.due = job[s].due
  BY <1>1 DEF Jobs, LoadStatus
<1> HIDE DEF st, j
<1>5. /\ w \in Writes /\ w.loads[l] = st
      /\ \A k \in Loads \ {l} : w.loads[k] = NoWrite
      /\ \A m \in Matches : w.matches[m] = NoWrite
      /\ \A k \in Notices : w.notices[k] = NoWrite
  BY <1>1, <1>2, LoadWrites
<1> HIDE DEF w
<1>6. \A k \in Loads : w.loads[k] # "NEW"
  BY <1>2, <1>5 DEF NoWrite
<1>7. /\ \A k \in Loads : Settled(k, db) => Settled(k, db')
      /\ \A k \in Loads : w.loads[k] # NoWrite => Settled(k, db')
  BY <1>3, <1>5, <1>6, CommitSettled
<1>8. Settled(l, db')
  BY <1>1, <1>2, <1>5, <1>7
<1>9. OnlySettled(w, db')
  BY <1>5, <1>6 DEF OnlySettled
<1>10. \E i : Goto(s, "notify", i) /\ JobSettled("notify", i, db') /\ KeepsLoad(s, i, db')
  BY <1>3, <1>4, <1>7, <1>8, ListSettles
<1> QED BY <1>3, <1>5, <1>9, <1>10, CommitSettles

LEMMA BroadcastSettles ==
  ASSUME IInv, BInv, SettleInv, NEW s \in SessionIds, SelectAudience(s) \/ BroadcastNext(s)
  PROVE  Settles
<1>1. job[s].op # "cancel_load" /\ pc[s] \in {"audience", "broadcast"}
  BY DEF BInv, SessionsFit, Knows, SelectAudience, BroadcastNext
<1>2. job[s].load \in Loads /\ Settled(job[s].load, db) /\ job[s] \in Jobs
  BY <1>1, LoadSettled DEF NeedLoad, Fresh
<1>3. CASE SelectAudience(s)
  <2> DEFINE j == [job[s] EXCEPT !.audience = EligibleCarriers(job[s].load)]
  <2>1. /\ Commit(s, tx[s]) /\ Goto(s, "broadcast", j) /\ UNCHANGED <<outside, crashes>>
        /\ tx[s] \in Writes /\ OnlySettled(tx[s], db)
    BY <1>1, <1>3, OwnSettled DEF SelectAudience, IInv, DataInv
  <2>2. j.op = job[s].op /\ j.load = job[s].load /\ j.cand = job[s].cand /\ j.due = job[s].due
    BY <1>2 DEF Jobs
  <2> HIDE DEF j
  <2>3. \A l \in Loads : Settled(l, db) => Settled(l, db')
    BY <2>1, CommitSettled DEF OnlySettled
  <2>4. OnlySettled(tx[s], db')
    BY <2>1, <2>3 DEF OnlySettled, Matches, Notices
  <2>5. JobSettled("broadcast", j, db') /\ KeepsLoad(s, j, db')
    BY <1>2, <2>2, <2>3, SameWork
  <2> QED BY <2>1, <2>4, <2>5, CommitSettles
<1>4. CASE BroadcastNext(s)
  <2>1. CASE Goto(s, "finish", job[s])
    <3>1. JobSettled("finish", job[s], db) /\ KeepsLoad(s, job[s], db)
      BY <1>2, SameWork
    <3> QED BY <1>4, <2>1, <3>1, GotoSettles DEF BroadcastNext
  <2>2. CASE \E u \in job[s].audience :
               StartNotices(s, [job[s] EXCEPT !.audience = @ \ {u}],
                 NoticesFor(<<u>>, job[s].load, "BROADCAST"), "broadcast")
    <3>1. PICK u : StartNotices(s, [job[s] EXCEPT !.audience = @ \ {u}],
                     NoticesFor(<<u>>, job[s].load, "BROADCAST"), "broadcast")
      BY <2>2
    <3> DEFINE j == [job[s] EXCEPT !.audience = @ \ {u}]
    <3>2. /\ j \in Jobs /\ j.op = job[s].op /\ j.load = job[s].load
          /\ j.cand = job[s].cand /\ j.due = job[s].due
      BY <1>2 DEF Jobs
    <3> HIDE DEF j
    <3>3. \E i : Goto(s, "notify", i) /\ JobSettled("notify", i, db) /\ KeepsLoad(s, i, db)
      BY <1>2, <3>1, <3>2, ListSettles DEF j
    <3> QED BY <1>4, <3>3, GotoSettles DEF BroadcastNext
  <2> QED BY <1>4, <2>1, <2>2 DEF BroadcastNext
<1> QED BY <1>3, <1>4

\* A load that somebody finds waiting is settled.
LEMMA FoundSettled ==
  ASSUME NEW s \in SessionIds, tx[s].loads \in [Loads -> {NoWrite, "MATCHED"}],
         NEW l \in WaitingLoads(s)
  PROVE  l \in Loads /\ Settled(l, db)
<1>1. l \in Loads /\ View(s).loads[l] = "WAITING_FOR_MATCH"
  BY DEF WaitingLoads
<1>2. db.loads[l] = "WAITING_FOR_MATCH"
  BY <1>1 DEF View, Overlay
<1> QED BY <1>1, <1>2 DEF Settled, Absent

LEMMA SearchLoadSettles ==
  ASSUME IInv, BInv, SettleInv, NEW s \in SessionIds, SearchLoad(s)
  PROVE  Settles
<1>1. /\ job[s] \in Jobs /\ tx[s] \in Writes /\ job[s].op = "create_truck" /\ pc[s] = "search"
      /\ JobSettled("search", job[s], db) /\ Unseen(tx[s])
  BY DEF IInv, ControlInv, DataInv, SettleInv, BInv, SessionsFit, Fit, SearchLoad
<1>2. CASE Done(s)
  <2>1. Goto(s, "idle", NoJob) /\ KeepsLoad(s, NoJob, db)
    BY <1>1, <1>2 DEF Done, KeepsLoad
  <2> QED BY <2>1, NothingSettles, GotoSettles DEF SearchLoad
<1>3. CASE \E l \in BestLoads(job[s].truck, WaitingLoads(s)) :
             Goto(s, "probe_match", [Remember(s, l) EXCEPT !.load = l])
  <2>1. PICK l \in WaitingLoads(s) : Goto(s, "probe_match", [Remember(s, l) EXCEPT !.load = l])
    BY <1>3 DEF BestLoads
  <2>2. l \in Loads /\ Settled(l, db)
    <3>1. tx[s].loads \in [Loads -> {NoWrite, "MATCHED"}]
      BY <1>1 DEF Unseen, Writes
    <3> QED BY <3>1, FoundSettled
  <2> DEFINE r == Remember(s, l)
             j == [r EXCEPT !.load = l]
  <2>3. r \in Jobs /\ r = [job[s] EXCEPT !.memo = r.memo]
    BY <2>2, RememberType DEF IInv
  <2>4. r.op = job[s].op /\ r.cand = job[s].cand /\ r.due = job[s].due
    BY <1>1, <2>3 DEF Jobs
  <2>5. Goto(s, "probe_match", j)
    BY <2>1
  <2> HIDE DEF r
  <2>6. j.op = "create_truck" /\ j.load = l /\ j.cand = job[s].cand /\ j.due = job[s].due
    BY <1>1, <2>3, <2>4 DEF Jobs
  <2> HIDE DEF j
  <2>7. JobSettled("probe_match", j, db) /\ KeepsLoad(s, j, db)
    BY <1>1, <2>2, <2>6 DEF JobSettled, KeepsLoad
  <2> QED BY <2>5, <2>7, GotoSettles DEF SearchLoad
<1> QED BY <1>2, <1>3 DEF SearchLoad

LEMMA RecordInterestSettles ==
  ASSUME IInv, BInv, SettleInv, NEW s \in SessionIds, RecordInterest(s)
  PROVE  Settles
<1> DEFINE l == job[s].load
           k == <<CarrierOf[job[s].truck], l, "BROADCAST">>
           st == IF db.notices[k] = Absent THEN NoWrite ELSE Assign(db.notices[k], "INTERESTED")
           w == [tx[s] EXCEPT !.notices[k] = st]
<1>1. job[s].op # "cancel_load" /\ pc[s] = "record_interest"
  BY DEF BInv, SessionsFit, Knows, RecordInterest
<1>2. l \in Loads /\ Settled(l, db) /\ job[s] \in Jobs /\ job[s].truck \in Trucks
  BY <1>1, LoadSettled, JobMatchType DEF NeedLoad, NeedTruck, Fresh
<1>3. k \in Notices /\ k[2] = l /\ st \in NotificationStatus \cup {NoWrite}
  BY <1>2, Parties DEF Notices, NotificationType, Assign, NotificationStatus
<1>4. tx[s] \in Writes /\ OnlySettled(tx[s], db)
  BY <1>1, OwnSettled DEF IInv, DataInv
<1>5. Commit(s, w) /\ UNCHANGED <<outside, crashes>>
  BY DEF RecordInterest
<1>6. \E todo : StartNotices(s, job[s], todo, "finish")
  BY DEF RecordInterest
<1> HIDE DEF st, k
<1>7. /\ w \in Writes /\ w.loads = tx[s].loads /\ w.matches = tx[s].matches
      /\ \A n \in Notices : n # k => w.notices[n] = tx[s].notices[n]
  BY <1>3, <1>4 DEF Writes
<1> HIDE DEF w
<1>8. \A n \in Loads : Settled(n, db) => Settled(n, db')
  BY <1>4, <1>5, <1>7, CommitSettled DEF OnlySettled
<1>9. OnlySettled(w, db')
  BY <1>2, <1>3, <1>4, <1>7, <1>8 DEF OnlySettled, Matches, Notices
<1>10. \E i : Goto(s, "notify", i) /\ JobSettled("notify", i, db') /\ KeepsLoad(s, i, db')
  BY <1>2, <1>6, <1>8, ListSettles
<1> QED BY <1>5, <1>7, <1>9, <1>10, CommitSettles

LEMMA RequestSettles ==
  ASSUME IInv, BInv, SettleInv, NEW s \in SessionIds, RequestStep(s)
  PROVE  Settles
  BY SearchTruckSettles, SetWaitingSettles, BroadcastSettles, SearchLoadSettles,
     RecordInterestSettles DEF RequestStep

\* A session that did not create a load ends with a commit about a stored match.
LEMMA DecisionSettles ==
  ASSUME IInv, SettleInv, NEW s \in SessionIds, NEW w \in Writes, Commit(s, w), Done(s),
         UNCHANGED <<outside, crashes>>, job[s].op # "create_load",
         \A l \in Loads : w.loads[l] # "NEW",
         \A m \in Matches : w.matches[m] # NoWrite => db.matches[m] # Absent,
         \A k \in Notices : w.notices[k] = NoWrite
  PROVE  Settles
<1>1. \A l \in Loads : Settled(l, db) => Settled(l, db')
  BY CommitSettled
<1>2. OnlySettled(w, db')
  BY <1>1 DEF OnlySettled, SettleInv, Heard, Matches
<1>3. Goto(s, "idle", NoJob) /\ KeepsLoad(s, NoJob, db')
  BY DEF Done, KeepsLoad
<1> QED BY <1>2, <1>3, NothingSettles, CommitSettles

\* The statuses an admin gives a match and its load.
LEMMA StatusSettles ==
  ASSUME IInv, BInv, SettleInv, NEW s \in SessionIds,
         NEW act \in MatchActions, Acting(s, act),
         NEW ms \in MatchStatus, NEW ls \in LoadStatus, ls # "NEW",
         NEW w \in Writes, Commit(s, w), Done(s), UNCHANGED <<outside, crashes>>,
         w.loads = StatusWrites(s, ms, ls).loads, w.matches = StatusWrites(s, ms, ls).matches,
         w.notices = NoWrites.notices
  PROVE  Settles
<1> DEFINE l == job[s].load
           m == JobMatch(s)
           lv == Assign(job[s].memo[l], ls)
           mv == Assign(job[s].match, ms)
<1>1. l \in Loads /\ m \in Matches /\ db.matches[m] # Absent /\ job[s].op # "create_load"
  BY ActingDecides DEF Acting, MatchActions
<1>2. lv # "NEW"
  BY DEF Assign, NoWrite
<1>3. /\ w.loads = [NoWrites.loads EXCEPT ![l] = lv]
      /\ w.matches = [NoWrites.matches EXCEPT ![m] = mv]
  BY DEF StatusWrites, NoWrites
<1> HIDE DEF lv, mv, l, m
<1>4. \A k \in Loads : w.loads[k] # "NEW"
  BY <1>1, <1>2, <1>3 DEF NoWrites, NoWrite
<1>5. \A n \in Matches : w.matches[n] # NoWrite => n = m
  BY <1>1, <1>3 DEF NoWrites
<1>6. \A k \in Notices : w.notices[k] = NoWrite
  BY DEF NoWrites
<1> QED BY <1>1, <1>4, <1>5, <1>6, DecisionSettles

LEMMA AdminSettles ==
  ASSUME IInv, BInv, SettleInv, NEW s \in SessionIds, AdminStep(s)
  PROVE  Settles
<1>1. ASSUME NEW act \in MatchActions, Acting(s, act)
      PROVE  /\ job[s] \in Jobs /\ job[s].load \in Loads /\ JobMatch(s) \in Matches
             /\ db.matches[JobMatch(s)] # Absent /\ Settled(job[s].load, db)
             /\ \A ms \in MatchStatus, ls \in LoadStatus :
                  StatusWrites(s, ms, ls) \in Writes
  <2>1. /\ job[s] \in Jobs /\ job[s].load \in Loads /\ JobMatch(s) \in Matches
        /\ JobMatch(s)[1] = job[s].load /\ db.matches[JobMatch(s)] # Absent
    BY <1>1, ActingDecides DEF JobMatch
  <2> QED BY <2>1, StatusWritesType DEF SettleInv, Heard
<1>2. /\ "ADMIN_CONTACTING" \in MatchStatus /\ "ADMIN_CONTACTING" \in LoadStatus \ {"NEW"}
      /\ "CONNECTED" \in MatchStatus /\ "CONNECTED" \in LoadStatus \ {"NEW"}
      /\ "REJECTED" \in MatchStatus /\ "WAITING_FOR_MATCH" \in LoadStatus \ {"NEW"}
      /\ {"contact", "connect", "reject", "resend_notification"} = MatchActions
  BY DEF MatchStatus, LoadStatus, MatchActions
<1>3. \A ms, ls : StatusWrites(s, ms, ls).notices = NoWrites.notices
  BY DEF StatusWrites, NoWrites
<1>4. CASE AdminContact(s)
  BY <1>1, <1>2, <1>3, <1>4, StatusSettles DEF AdminContact
<1>5. CASE AdminReject(s)
  <2> DEFINE st == job[s].memo[job[s].load]
             kept == IF st \in {"CONNECTED", "CONFIRMED", "COMPLETED"}
                       THEN st ELSE "WAITING_FOR_MATCH"
  <2>1. /\ Commit(s, StatusWrites(s, "REJECTED", kept)) /\ Done(s) /\ Acting(s, "reject")
        /\ UNCHANGED <<outside, crashes>>
    BY <1>5 DEF AdminReject
  <2>2. kept \in LoadStatus /\ kept # "NEW"
    BY DEF LoadStatus
  <2> HIDE DEF kept, st
  <2> QED BY <1>1, <1>2, <1>3, <2>1, <2>2, StatusSettles
<1>6. CASE AdminConnect(s)
  <2> DEFINE v == StatusWrites(s, "CONNECTED", "CONNECTED")
             w == ConnectWrites(s)
  <2>1. Commit(s, w) /\ Done(s) /\ Acting(s, "connect") /\ UNCHANGED <<outside, crashes>>
    BY <1>6 DEF AdminConnect
  <2>2. v \in Writes /\ JobMatch(s) \in Matches /\ v.notices = NoWrites.notices
    BY <1>1, <1>2, <1>3, <2>1
  <2>3. w = [v EXCEPT !.trusted = {PairOf(JobMatch(s))}] /\ PairOf(JobMatch(s)) \in Pairs
    BY <2>2, Parties DEF ConnectWrites, PairOf, Pairs, Matches
  <2> HIDE DEF w
  <2>4. /\ w \in Writes /\ w.matches = v.matches /\ w.loads = v.loads
        /\ w.notices = v.notices
    BY <2>2, <2>3 DEF Writes
  <2> QED BY <1>2, <2>1, <2>2, <2>4, StatusSettles
<1>7. CASE ConnectConflict(s)
  <2>1. job[s].op # "create_load"
    BY <1>7 DEF ConnectConflict, Acting
  <2> QED BY <1>7, <2>1, AbandonSettles DEF ConnectConflict
<1>8. CASE AdminCancelLoad(s)
  <2> DEFINE l == job[s].load
             st == Assign(job[s].memo[l], "CANCELLED")
             w == OneLoad(l, st)
  <2>1. l \in Loads /\ job[s].op # "create_load"
    BY <1>8 DEF IInv, ControlInv, JobReady, NeedLoad, AdminCancelLoad, Acting
  <2>2. st \in LoadStatus \cup {NoWrite} /\ st # "NEW"
    BY DEF Assign, LoadStatus, NoWrite
  <2>3. Commit(s, w) /\ Done(s) /\ UNCHANGED <<outside, crashes>>
    BY <1>8 DEF AdminCancelLoad, OneLoad
  <2> HIDE DEF st
  <2>4. /\ w \in Writes /\ w.loads[l] = st
        /\ \A k \in Loads \ {l} : w.loads[k] = NoWrite
        /\ \A m \in Matches : w.matches[m] = NoWrite
        /\ \A k \in Notices : w.notices[k] = NoWrite
    BY <2>1, <2>2, LoadWrites
  <2> HIDE DEF w
  <2>5. \A k \in Loads : w.loads[k] # "NEW"
    BY <2>2, <2>4 DEF NoWrite
  <2> QED BY <2>1, <2>3, <2>4, <2>5, DecisionSettles
<1>9. CASE AdminResend(s)
  <2>1. \E todo : StartNotices(s, job[s], todo, "finish")
    BY <1>9 DEF AdminResend
  <2>2. job[s] \in Jobs /\ Settled(job[s].load, db)
    BY <1>1, <1>2, <1>9 DEF AdminResend
  <2>3. \E i : Goto(s, "notify", i) /\ JobSettled("notify", i, db) /\ KeepsLoad(s, i, db)
    BY <2>1, <2>2, ListSettles
  <2> QED BY <1>9, <2>3, GotoSettles DEF AdminResend, Acting
<1>10. CASE AdminFetchNext(s)
  <2> DEFINE r == Remember(s, job[s].load)
  <2>1. r.op = job[s].op /\ r.load = job[s].load /\ r.cand = job[s].cand /\ r.due = job[s].due
    BY DEF Remember, IInv, ControlInv, Jobs
  <2>2. pc[s] = "fetch_load" /\ Goto(s, "act", r) /\ UNCHANGED <<db, tx, outside, crashes>>
    BY <1>10 DEF AdminFetchNext
  <2> HIDE DEF r
  <2>3. JobSettled("fetch_load", job[s], db)
    BY <2>2 DEF SettleInv
  <2>4. JobSettled("act", r, db) /\ KeepsLoad(s, r, db)
    BY <2>1, <2>3 DEF JobSettled, KeepsLoad, NeedLoad, Fresh
  <2> QED BY <2>2, <2>4, GotoSettles
<1> QED BY <1>4, <1>5, <1>6, <1>7, <1>8, <1>9, <1>10 DEF AdminStep

\* The passes work on settled loads,
LEMMA ScanSettles ==
  ASSUME IInv, BInv, SettleInv, NEW s \in SessionIds, ScanTruck(s) \/ ScanLoad(s)
  PROVE  Settles
<1>1. /\ job[s] \in Jobs /\ tx[s] \in Writes /\ pc[s] = "scan" /\ job[s].op = "proactive"
      /\ JobSettled("scan", job[s], db) /\ Proposal(tx[s], db)
  BY DEF IInv, ControlInv, DataInv, SettleInv, BInv, SessionsFit, Fit, Knows, ScanTruck, ScanLoad
<1>2. ASSUME NEW p \in {"scan", "finish", "probe_match"}, NEW j, Goto(s, p, j), j.op = "proactive",
             \A l \in j.cand : Settled(l, db), j.due = job[s].due,
             p = "probe_match" => Settled(j.load, db)
      PROVE  Settles
  <2>1. JobSettled(p, j, db) /\ KeepsLoad(s, j, db)
    BY <1>1, <1>2 DEF JobSettled, KeepsLoad, NeedLoad
  <2> QED BY <1>2, <2>1, GotoSettles DEF ScanTruck, ScanLoad
<1>3. CASE ScanLoad(s)
  <2>1. PICK l \in job[s].cand :
          Goto(s, "probe_match", [job[s] EXCEPT !.load = l, !.cand = @ \ {l}])
    BY <1>3 DEF ScanLoad
  <2> DEFINE j == [job[s] EXCEPT !.load = l, !.cand = @ \ {l}]
  <2>2. j.op = "proactive" /\ j.load = l /\ j.cand \subseteq job[s].cand /\ j.due = job[s].due
    BY <1>1 DEF Jobs
  <2>3. Goto(s, "probe_match", j)
    BY <2>1
  <2> HIDE DEF j
  <2> QED BY <1>1, <1>2, <2>1, <2>2, <2>3 DEF JobSettled
<1>4. CASE ScanTruck(s)
  <2>1. CASE Goto(s, "finish", job[s])
    BY <1>1, <1>2, <2>1 DEF JobSettled
  <2>2. CASE \E t, mm :
               Goto(s, "scan", [job[s] EXCEPT !.truck = t, !.scan = @ \ {t},
                                  !.cand = {l \in WaitingLoads(s) : <<l, t>> \in Backhaul},
                                  !.memo = mm])
    <3>1. PICK t, mm :
                 Goto(s, "scan", [job[s] EXCEPT !.truck = t, !.scan = @ \ {t},
                                    !.cand = {l \in WaitingLoads(s) : <<l, t>> \in Backhaul},
                                    !.memo = mm])
      BY <2>2
    <3> DEFINE cand == {l \in WaitingLoads(s) : <<l, t>> \in Backhaul}
               j == [job[s] EXCEPT !.truck = t, !.scan = @ \ {t}, !.cand = cand, !.memo = mm]
    <3>2. tx[s].loads \in [Loads -> {NoWrite, "MATCHED"}]
      BY <1>1 DEF Proposal, Writes
    <3>3. \A l \in cand : Settled(l, db)
      BY <3>2, FoundSettled
    <3>4. Goto(s, "scan", j)
      BY <3>1
    <3> HIDE DEF cand
    <3>5. j.op = "proactive" /\ j.cand = cand /\ j.due = job[s].due
      BY <1>1 DEF Jobs
    <3> HIDE DEF j
    <3> QED BY <1>2, <3>3, <3>4, <3>5
  <2> QED BY <1>4, <2>1, <2>2 DEF ScanTruck
<1> QED BY <1>3, <1>4

\* and remind of them.
LEMMA RemindNextSettles ==
  ASSUME IInv, BInv, SettleInv, NEW s \in SessionIds, RemindNext(s)
  PROVE  Settles
<1>1. PICK k \in job[s].due : \E mm : LET j == [job[s] EXCEPT !.due = @ \ {k}, !.memo = mm] IN
        /\ Goto(s, IF j.due = {} THEN "finish" ELSE "remind", j)
        /\ \/ /\ reminders' = [reminders EXCEPT ![k] = Counted(@)]
              /\ Stage(s, [tx[s] EXCEPT !.reminded = @ \cup {k}])
           \/ UNCHANGED <<db, tx, reminders>>
  BY DEF RemindNext
<1>2. PICK mm : LET j == [job[s] EXCEPT !.due = @ \ {k}, !.memo = mm] IN
        /\ Goto(s, IF j.due = {} THEN "finish" ELSE "remind", j)
        /\ \/ /\ reminders' = [reminders EXCEPT ![k] = Counted(@)]
              /\ Stage(s, [tx[s] EXCEPT !.reminded = @ \cup {k}])
           \/ UNCHANGED <<db, tx, reminders>>
  BY <1>1
<1> DEFINE j == [job[s] EXCEPT !.due = @ \ {k}, !.memo = mm]
           p == IF j.due = {} THEN "finish" ELSE "remind"
           w == [tx[s] EXCEPT !.reminded = @ \cup {k}]
<1>3. /\ job[s] \in Jobs /\ tx[s] \in Writes /\ k \in Notices /\ reminders \in [Notices -> Nat]
      /\ JobSettled("remind", job[s], db) /\ OnlySettled(tx[s], db)
      /\ UNCHANGED <<pushes, crashes>>
  BY OwnSettled DEF IInv, DataInv, ControlInv, OutsideInv, Jobs, SettleInv, RemindNext
<1>4. /\ j.op = job[s].op /\ j.load = job[s].load /\ j.cand = job[s].cand
      /\ j.due \subseteq job[s].due
  BY <1>3 DEF Jobs
<1>5. w.loads = tx[s].loads /\ w.matches = tx[s].matches /\ w.notices = tx[s].notices
  BY <1>3 DEF Writes
<1>6. \/ tx' = [tx EXCEPT ![s] = w] /\ reminders' = [reminders EXCEPT ![k] = Counted(@)]
      \/ tx' = [tx EXCEPT ![s] = tx[s]] /\ UNCHANGED reminders
  BY <1>2 DEF Stage, IInv, DataInv
<1>7. UNCHANGED db /\ Goto(s, p, j) /\ p \in {"finish", "remind"}
  BY <1>2 DEF Stage
<1> HIDE DEF j, p, w
<1>8. JobSettled(p, j, db) /\ KeepsLoad(s, j, db)
  BY <1>3, <1>4, <1>7 DEF JobSettled, KeepsLoad, NeedLoad, Fresh
<1>9. OnlySettled(w, db)
  BY <1>3, <1>5 DEF OnlySettled
<1>10. Heard'
  <2>1. Settled(k[2], db)
    BY <1>3 DEF JobSettled
  <2>2. \A n \in Notices : reminders'[n] > 0 => reminders[n] > 0 \/ n = k
    BY <1>3, <1>6
  <2> QED BY <1>3, <1>7, <2>1, <2>2 DEF SettleInv, Heard, Settled
<1> QED BY <1>3, <1>6, <1>7, <1>8, <1>9, <1>10, StaySettles

LEMMA WorkerSettles ==
  ASSUME IInv, BInv, SettleInv, NEW s \in SessionIds, WorkerStep(s)
  PROVE  Settles
  BY ScanSettles, RemindNextSettles DEF WorkerStep

\* A free session leaves no load behind.
LEMMA FreeKeeps ==
  ASSUME SettleInv, NEW s \in SessionIds, pc[s] = "idle", NEW j, NEW d,
         \A l \in Loads : Settled(l, db) => Settled(l, d)
  PROVE  KeepsLoad(s, j, d)
  BY DEF SettleInv, JobSettled, Fresh, KeepsLoad

LEMMA CreateLoadSettles ==
  ASSUME IInv, SettleInv, NEW s \in SessionIds, NEW l \in Loads, CreateLoad(s, l)
  PROVE  Settles
<1> DEFINE j == [NoJob EXCEPT !.op = "create_load", !.load = l]
<1>1. /\ db.loads[l] = Absent /\ Commit(s, OneLoad(l, "NEW")) /\ Goto(s, "search", j)
      /\ UNCHANGED <<outside, crashes>> /\ pc[s] = "idle"
  BY DEF CreateLoad, OneLoad
<1>2. j.op = "create_load" /\ j.load = l /\ j.cand = {} /\ j.due = {} /\ j.memo[l] = NoWrite
  BY DEF NoJob
<1> HIDE DEF j
<1>3. "NEW" \in LoadStatus \cup {NoWrite} /\ "NEW" # NoWrite /\ "NEW" # Absent
  BY DEF LoadStatus, NoWrite, Absent
<1>4. /\ db'.loads = [db.loads EXCEPT ![l] = "NEW"] /\ db'.matches = db.matches
      /\ \A k \in Notices : db'.notices[k] = db.notices[k]
  BY <1>1, <1>3, LoadCommit
<1>5. db.loads \in [Loads -> LoadStatus \cup {Absent}] /\ tx' = [tx EXCEPT ![s] = NoWrites]
  BY <1>1 DEF IInv, DataInv, Tables, Commit
<1>6. \A k \in Loads : db'.loads[k] = IF k = l THEN "NEW" ELSE db.loads[k]
  BY <1>4, <1>5
<1>7. \A k \in Loads : Settled(k, db) => Settled(k, db')
  BY <1>1, <1>6 DEF Settled
<1>8. Heard'
  BY <1>1, <1>4, <1>7 DEF SettleInv, Heard, Matches, Notices, outside
<1>9. JobSettled("search", j, db')
  BY <1>2, <1>3, <1>6 DEF JobSettled, Fresh
<1>10. KeepsLoad(s, j, db')
  BY <1>1, <1>7, FreeKeeps
<1>11. PendingSettled("search", j, NoWrites, db')
  BY NothingSettles, SettledPending
<1>12. \A k \in Loads : db'.loads[k] = "NEW" =>
          db.loads[k] = "NEW" \/ (j.op = "create_load" /\ j.load = k)
  BY <1>2, <1>6
<1>13. \A k \in Loads : db.loads[k] # Absent => db'.loads[k] # Absent
  BY <1>3, <1>6
<1>14. Goto(s, "search", j) /\ UNCHANGED crashes
  BY <1>1
<1> QED BY <1>5, <1>7, <1>8, <1>9, <1>10, <1>11, <1>12, <1>13, <1>14, StepSettles

LEMMA CreateTruckSettles ==
  ASSUME IInv, SettleInv, NEW s \in SessionIds, NEW t \in Trucks, CreateTruck(s, t)
  PROVE  Settles
<1> DEFINE w == [NoWrites EXCEPT !.trucks = {t}]
           j == [NoJob EXCEPT !.op = "create_truck", !.truck = t]
<1>1. w \in Writes
  BY PlainWritesSafe DEF SafeWrites
<1>2. w.loads = NoWrites.loads /\ w.matches = NoWrites.matches /\ w.notices = NoWrites.notices
  BY DEF NoWrites
<1>3. /\ Commit(s, w) /\ (Goto(s, "search", j) \/ Goto(s, "idle", NoJob))
      /\ UNCHANGED <<outside, crashes>> /\ pc[s] = "idle"
  BY DEF CreateTruck, Done
<1>4. j.op = "create_truck" /\ j.cand = {} /\ j.due = {}
  BY DEF NoJob
<1> HIDE DEF w, j
<1>5. OnlySettled(w, db') /\ \A l \in Loads : w.loads[l] # "NEW"
  BY <1>2 DEF OnlySettled, NoWrites, NoWrite
<1>6. \A l \in Loads : Settled(l, db) => Settled(l, db')
  BY <1>1, <1>3, <1>5, CommitSettled
<1>7. JobSettled("search", j, db')
  BY <1>4 DEF JobSettled, NeedLoad
<1>8. KeepsLoad(s, j, db') /\ KeepsLoad(s, NoJob, db')
  BY <1>3, <1>6, FreeKeeps
<1>9. JobSettled("idle", NoJob, db')
  BY NothingSettles
<1> QED BY <1>1, <1>3, <1>5, <1>7, <1>8, <1>9, CommitSettles

\* Whoever has a button for a load has heard of it.
LEMMA PressInterestSettles ==
  ASSUME IInv, SettleInv, NEW s \in SessionIds, NEW l \in Loads, NEW t \in Trucks,
         PressInterest(s, l, t)
  PROVE  Settles
<1> DEFINE m == <<l, t>>
           k == <<CarrierOf[t], l, "BROADCAST">>
           w == [NoWrites EXCEPT !.interests = {m}]
           j == [NoJob EXCEPT !.op = "register_interest", !.load = l, !.truck = t,
                              !.memo[l] = db.loads[l]]
<1>1. /\ tx' = [tx EXCEPT ![s] = w] /\ UNCHANGED <<db, pushes, reminders, crashes>>
      /\ Goto(s, "probe_match", j) /\ pc[s] = "idle"
  BY DEF PressInterest, SaveInterest, Stage, outside
<1>2. j.op = "register_interest" /\ j.load = l /\ j.cand = {} /\ j.due = {}
  BY DEF NoJob
<1>3. w.loads = NoWrites.loads /\ w.matches = NoWrites.matches /\ w.notices = NoWrites.notices
  BY DEF NoWrites
<1>4. k \in Notices /\ k[2] = l /\ (pushes[k] > 0 \/ reminders[k] > 0)
  BY Parties DEF PressInterest, HasButton, Notices, NotificationType
<1> HIDE DEF j, w, k
<1>5. Settled(l, db)
  BY <1>4 DEF SettleInv, Heard
<1>6. OnlySettled(w, db)
  BY <1>3, NothingSettles DEF OnlySettled
<1>7. JobSettled("probe_match", j, db)
  BY <1>2, <1>5 DEF JobSettled
<1>8. KeepsLoad(s, j, db)
  BY <1>1, FreeKeeps
<1>9. Heard'
  BY <1>1 DEF SettleInv, Heard
<1> QED BY <1>1, <1>6, <1>7, <1>8, <1>9, StaySettles

LEMMA StartSettles ==
  ASSUME IInv, SettleInv, NEW s \in SessionIds, Start(s)
  PROVE  Settles
<1>1. pc[s] = "idle"
  BY DEF Start, CreateLoad, CreateTruck, PressInterest, AdminFetch, AdminFetchLoad, StartProactive,
         StartReminders
<1>2. ASSUME NEW p, NEW j, Goto(s, p, j), UNCHANGED <<db, tx, outside, crashes>>,
             j.cand = {}, j.op # "create_load", p # "no_match",
             \A k \in j.due : Settled(k[2], db),
             p \in NeedLoad /\ j.op # "cancel_load" => Settled(j.load, db)
      PROVE  Settles
  <2>1. JobSettled(p, j, db) /\ KeepsLoad(s, j, db)
    BY <1>1, <1>2, FreeKeeps DEF JobSettled
  <2> QED BY <1>1, <1>2, <2>1, GotoSettles
<1>3. CASE \E l \in Loads : CreateLoad(s, l)
  BY <1>3, CreateLoadSettles
<1>4. CASE \E t \in Trucks : CreateTruck(s, t)
  BY <1>4, CreateTruckSettles
<1>5. CASE \E l \in Loads, t \in Trucks : PressInterest(s, l, t)
  BY <1>5, PressInterestSettles
<1>6. CASE \E act \in Workload, m \in Matches : AdminFetch(s, act, m)
  <2>1. PICK act \in Workload, m \in Matches : AdminFetch(s, act, m)
    BY <1>6
  <2> DEFINE j == [NoJob EXCEPT !.op = act, !.load = m[1], !.truck = m[2],
                                !.match = db.matches[m]]
  <2>2. /\ Goto(s, "fetch_load", j) /\ UNCHANGED <<db, tx, outside, crashes>>
        /\ act \in MatchActions /\ db.matches[m] # Absent
    BY <2>1 DEF AdminFetch
  <2>3. j.op # "create_load" /\ j.cand = {} /\ j.due = {} /\ j.load = m[1]
    BY <2>2 DEF NoJob, MatchActions
  <2>4. Settled(m[1], db)
    BY <2>2 DEF SettleInv, Heard
  <2> HIDE DEF j
  <2> QED BY <1>2, <2>2, <2>3, <2>4
<1>7. CASE \E l \in Loads : AdminFetchLoad(s, l)
  <2>1. PICK l \in Loads : AdminFetchLoad(s, l)
    BY <1>7
  <2> DEFINE j == [NoJob EXCEPT !.op = "cancel_load", !.load = l, !.memo[l] = db.loads[l]]
  <2>2. Goto(s, "act", j) /\ UNCHANGED <<db, tx, outside, crashes>>
    BY <2>1 DEF AdminFetchLoad
  <2>3. j.op = "cancel_load" /\ j.cand = {} /\ j.due = {}
    BY DEF NoJob
  <2> HIDE DEF j
  <2> QED BY <1>2, <2>2, <2>3
<1>8. CASE \E near \in SUBSET Trucks : StartProactive(s, near)
  <2>1. PICK near \in SUBSET Trucks : StartProactive(s, near)
    BY <1>8
  <2> DEFINE j == [NoJob EXCEPT !.op = "proactive", !.scan = near]
  <2>2. j.op # "create_load" /\ j.cand = {} /\ j.due = {} /\ "scan" \notin NeedLoad
    BY DEF NoJob, NeedLoad
  <2>3. Goto(s, "scan", j) /\ UNCHANGED <<db, tx, outside, crashes>>
    BY <2>1 DEF StartProactive
  <2> HIDE DEF j
  <2> QED BY <1>2, <2>2, <2>3
<1>9. CASE \E old \in SUBSET Remindable : StartReminders(s, old)
  <2>1. PICK old \in SUBSET Remindable : StartReminders(s, old)
    BY <1>9
  <2> DEFINE j == [NoJob EXCEPT !.op = "reminders", !.due = old]
  <2>2. j.op # "create_load" /\ j.cand = {} /\ j.due = old /\ "remind" \notin NeedLoad
    BY DEF NoJob, NeedLoad
  <2>3. Goto(s, "remind", j) /\ UNCHANGED <<db, tx, outside, crashes>>
    BY <2>1 DEF StartReminders
  <2>4. \A k \in old : Settled(k[2], db)
    BY DEF Remindable, SettleInv, Heard, Absent
  <2> HIDE DEF j
  <2> QED BY <1>2, <2>2, <2>3, <2>4
<1> QED BY <1>3, <1>4, <1>5, <1>6, <1>7, <1>8, <1>9 DEF Start

\* A session that dies strands at most the load it created.
LEMMA CrashSettles ==
  ASSUME IInv, SettleInv, NEW s \in SessionIds, Crash(s)
  PROVE  SettleInv' /\ Stranded' \subseteq Stranded \cup {job[s].load} /\ crashes' = crashes + 1
<1>1. tx \in [SessionIds -> Writes] /\ pc \in [SessionIds -> Phases] /\ job \in [SessionIds -> Jobs]
  BY DEF IInv, DataInv, ControlInv
<1>2. /\ pc' = [pc EXCEPT ![s] = "idle"] /\ job' = [job EXCEPT ![s] = NoJob]
      /\ tx' = [tx EXCEPT ![s] = NoWrites] /\ UNCHANGED <<db, pushes, reminders>>
      /\ crashes' = crashes + 1
  BY DEF Crash, Abandon, Done, Goto, outside
<1>3. /\ \A o \in SessionIds \ {s} : pc'[o] = pc[o] /\ job'[o] = job[o] /\ tx'[o] = tx[o]
      /\ pc'[s] = "idle" /\ job'[s] = NoJob /\ tx'[s] = NoWrites
  BY <1>1, <1>2
<1>4. Heard'
  BY <1>2 DEF SettleInv, Heard
<1>5. ASSUME NEW o \in SessionIds
      PROVE  PendingSettled(pc'[o], job'[o], tx'[o], db') /\ JobSettled(pc'[o], job'[o], db')
  <2>1. CASE o = s
    BY <1>3, <2>1, NothingSettles, SettledPending
  <2>2. CASE o # s
    BY <1>2, <1>3, <2>2 DEF SettleInv
  <2> QED BY <2>1, <2>2
<1>6. Stranded' \subseteq Stranded \cup {job[s].load}
  BY <1>2, <1>3 DEF Stranded
<1> QED BY <1>2, <1>4, <1>5, <1>6 DEF SettleInv

\* A set that gains at most one element.
LEMMA OneMore ==
  ASSUME NEW S, IsFiniteSet(S), NEW x, NEW T, T \subseteq S \cup {x}
  PROVE  /\ IsFiniteSet(T) /\ Cardinality(T) <= Cardinality(S) + 1
         /\ Cardinality(S) \in Nat /\ Cardinality(T) \in Nat
<1>1. Cardinality(S) \in Nat
  BY FS_CardinalityType
<1>2. /\ IsFiniteSet(S \cup {x})
      /\ Cardinality(S \cup {x}) = IF x \in S THEN Cardinality(S) ELSE Cardinality(S) + 1
  BY FS_AddElement
<1>3. IsFiniteSet(T) /\ Cardinality(T) <= Cardinality(S \cup {x})
  BY <1>2, FS_Subset
<1>4. Cardinality(T) \in Nat
  BY <1>3, FS_CardinalityType
<1> QED BY <1>1, <1>2, <1>3, <1>4

\* Stranded loads are finitely many, and no more than the sessions that died.
FewStranded == IsFiniteSet(Stranded) /\ Cardinality(Stranded) <= crashes

LEMMA SettlesKeepsFew ==
  ASSUME FewStranded, crashes \in Nat, Settles
  PROVE  FewStranded'
<1>1. IsFiniteSet(Stranded') /\ Cardinality(Stranded') <= Cardinality(Stranded)
      /\ Cardinality(Stranded) \in Nat /\ Cardinality(Stranded') \in Nat
  BY FS_Subset, FS_CardinalityType DEF FewStranded, Settles
<1> QED BY <1>1 DEF FewStranded, Settles

LEMMA CrashKeepsFew ==
  ASSUME IInv, SettleInv, FewStranded, NEW s \in SessionIds, Crash(s)
  PROVE  FewStranded'
<1>1. Stranded' \subseteq Stranded \cup {job[s].load} /\ crashes' = crashes + 1 /\ crashes \in Nat
  BY CrashSettles DEF IInv, OutsideInv
<1>2. /\ IsFiniteSet(Stranded') /\ Cardinality(Stranded') <= Cardinality(Stranded) + 1
      /\ Cardinality(Stranded) \in Nat /\ Cardinality(Stranded') \in Nat
  BY <1>1, OneMore DEF FewStranded
<1> QED BY <1>1, <1>2 DEF FewStranded

\* Every load that is still NEW is in the hands of the request that created it,
\* except for one per session that died: no conflict or rollback strands one.
THEOREM LoadsAreNotLost == Spec => []NewLoadsAccountedFor
<1>1. Init => SettleInv /\ FewStranded
  <2> SUFFICES ASSUME Init PROVE SettleInv /\ FewStranded
    OBVIOUS
  <2>1. SettleInv
    BY NothingSettles, SettledPending DEF Init, SessionsInit, EmptyTables, SettleInv, Heard
  <2>2. Stranded = {} /\ crashes = 0
    BY DEF Init, SessionsInit, EmptyTables, Stranded, Absent
  <2>3. FewStranded
    BY <2>2, FS_EmptySet DEF FewStranded
  <2> QED BY <2>1, <2>3
<1>2. IInv /\ BInv /\ SettleInv /\ FewStranded /\ [Next]_vars => (SettleInv /\ FewStranded)'
  <2> SUFFICES ASSUME IInv, BInv, SettleInv, FewStranded, [Next]_vars
               PROVE  SettleInv' /\ FewStranded'
    OBVIOUS
  <2>1. CASE UNCHANGED vars
    BY <2>1 DEF vars, SettleInv, Heard, FewStranded, Stranded
  <2>2. ASSUME Settles PROVE SettleInv' /\ FewStranded'
    BY <2>2, SettlesKeepsFew DEF Settles, IInv, OutsideInv
  <2>3. ASSUME NEW s \in SessionIds, Start(s) PROVE Settles
    BY <2>3, StartSettles
  <2>4. ASSUME NEW s \in SessionIds, Step(s) PROVE Settles
    BY <2>4, NotifySettles, MatchSettles, RequestSettles, AdminSettles, WorkerSettles DEF Step
  <2>5. ASSUME NEW s \in SessionIds, Crash(s) PROVE SettleInv' /\ FewStranded'
    BY <2>5, CrashSettles, CrashKeepsFew
  <2> QED BY <2>1, <2>2, <2>3, <2>4, <2>5 DEF Next
<1>3. FewStranded => NewLoadsAccountedFor
  BY DEF FewStranded, NewLoadsAccountedFor
<1> QED BY <1>1, <1>2, <1>3, BothAlways, PTL DEF Spec
=============================================================================
