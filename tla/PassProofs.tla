----------------------------- MODULE PassProofs -----------------------------
(***************************************************************************)
(* The periodic passes tell what they do: a backhaul match is never stored *)
(* without the notices that announce it, and no broadcast is reminded of   *)
(* twice, except once more per session that died.                          *)
(***************************************************************************)
EXTENDS BrokerageProofs

-----------------------------------------------------------------------------
(* Backhaul matches *)

\* The notice exists, or w writes it.
Noted(k, w, d) == d.notices[k] # Absent \/ w.notices[k] # NoWrite

\* The notice is still on the list of the session.
Listed(k, p, j) ==
  p \in {"notify", "send"} /\ \E i \in 1..Len(j.todo) : j.todo[i] = k

News(m, admin) == MatchNotices(m[1], m[2], admin, "PROACTIVE_MATCH")

\* Every notice of match m exists, is written, or is on the list.
Told(m, p, j, w, d) ==
  \E admin \in AdminChoices : \A i \in 1..Len(News(m, admin)) :
    Noted(News(m, admin)[i], w, d) \/ Listed(News(m, admin)[i], p, j)

\* The session has just inserted match m, for which no carrier asked.
JustMade(m, p, j) == p = "mark_matched" /\ j.op # "register_interest" /\ m = MatchOf(j)

\* Every pending match of a truck on a trip is told of, or its carrier asked for it.
Tells(p, j, w, d) ==
  \A m \in Matches :
    /\ m[2] \in OnTrip /\ w.matches[m] = "PENDING" /\ m \notin w.interests
    /\ ~ JustMade(m, p, j)
    => Told(m, p, j, w, d)

\* Requests look for partners of free trucks only.
OffTrip(p, j) ==
  /\ p = "search" /\ j.op = "create_truck" => j.truck \notin OnTrip
  /\ p \in {"probe_match", "insert_match", "mark_matched"} /\ j.op \in {"create_load", "create_truck"} =>
       j.truck \notin OnTrip

\* The same, after the commit.
StoredTold ==
  \A m \in Matches :
    m[2] \in OnTrip /\ db.matches[m] # Absent /\ m \notin db.interests =>
      Told(m, "idle", NoJob, NoWrites, db)

TellInv ==
  /\ StoredTold
  /\ \A s \in SessionIds : Tells(pc[s], job[s], tx[s], db) /\ OffTrip(pc[s], job[s])

\* The notices of a match are of this kind.
LEMMA NewsType ==
  ASSUME NEW m \in Matches, NEW admin \in AdminChoices
  PROVE  /\ News(m, admin) \in Seq(Notices)
         /\ \A i \in 1..Len(News(m, admin)) :
              News(m, admin)[i] \in Notices /\ News(m, admin)[i][3] = "PROACTIVE_MATCH"
<1>1. m[1] \in Loads /\ m[2] \in Trucks /\ "PROACTIVE_MATCH" \in NotificationType
  BY DEF Matches, NotificationType
<1>2. News(m, admin) \in Seq(Notices)
  BY <1>1, Parties, MatchNoticesType DEF News
<1>3. \A i \in 1..Len(News(m, admin)) : News(m, admin)[i][3] = "PROACTIVE_MATCH"
  BY <1>1, Parties, MatchNoticesAbout DEF News
<1> HIDE DEF News
<1> QED BY <1>2, <1>3

LEMMA StoredToldMeans == StoredTold => BackhaulAllOrNothing
<1> SUFFICES ASSUME StoredTold, NEW m \in Matches, m[2] \in OnTrip, db.matches[m] # Absent,
                    m \notin db.interests
             PROVE  \E admin \in AdminChoices : \A i \in DOMAIN News(m, admin) :
                      db.notices[News(m, admin)[i]] # Absent
  BY DEF BackhaulAllOrNothing, News
<1>1. PICK admin \in AdminChoices : \A i \in 1..Len(News(m, admin)) :
        Noted(News(m, admin)[i], NoWrites, db) \/ Listed(News(m, admin)[i], "idle", NoJob)
  BY DEF StoredTold, Told
<1>2. DOMAIN News(m, admin) = 1..Len(News(m, admin))
  BY NewsType
<1>3. \A i \in 1..Len(News(m, admin)) : News(m, admin)[i] \in Notices
  BY NewsType
<1> HIDE DEF News
<1>4. \A i \in 1..Len(News(m, admin)) : db.notices[News(m, admin)[i]] # Absent
  BY <1>1, <1>3 DEF Noted, Listed, NoWrites
<1> QED BY <1>2, <1>4

\* What is told of remains told of when rows come, lists go on, and writes grow.
LEMMA ToldStays ==
  ASSUME NEW m \in Matches, NEW p, NEW j, NEW w, NEW d, Told(m, p, j, w, d),
         NEW q, NEW i, NEW v, NEW e,
         \A k \in Notices : k[3] = "PROACTIVE_MATCH" /\ Noted(k, w, d) => Noted(k, v, e),
         \A k \in Notices : Listed(k, p, j) => Noted(k, v, e) \/ Listed(k, q, i)
  PROVE  Told(m, q, i, v, e)
<1>1. PICK admin \in AdminChoices : \A n \in 1..Len(News(m, admin)) :
        Noted(News(m, admin)[n], w, d) \/ Listed(News(m, admin)[n], p, j)
  BY DEF Told
<1>2. \A n \in 1..Len(News(m, admin)) :
        News(m, admin)[n] \in Notices /\ News(m, admin)[n][3] = "PROACTIVE_MATCH"
  BY NewsType
<1> HIDE DEF News
<1>3. \A n \in 1..Len(News(m, admin)) :
        Noted(News(m, admin)[n], v, e) \/ Listed(News(m, admin)[n], q, i)
  BY <1>1, <1>2
<1> QED BY <1>3 DEF Told

-----------------------------------------------------------------------------
(* What a step does to the sessions *)

\* A session goes on with uncommitted writes w.
LEMMA StayTells ==
  ASSUME IInv, TellInv, NEW s \in SessionIds, NEW w, tx' = [tx EXCEPT ![s] = w], UNCHANGED db,
         NEW p, NEW j, Goto(s, p, j), Tells(p, j, w, db), OffTrip(p, j)
  PROVE  TellInv'
<1>1. tx \in [SessionIds -> Writes] /\ pc \in [SessionIds -> Phases] /\ job \in [SessionIds -> Jobs]
  BY DEF IInv, DataInv, ControlInv
<1>2. pc' = [pc EXCEPT ![s] = p] /\ job' = [job EXCEPT ![s] = j]
  BY DEF Goto
<1>3. ASSUME NEW o \in SessionIds
      PROVE  Tells(pc'[o], job'[o], tx'[o], db') /\ OffTrip(pc'[o], job'[o])
  <2>1. CASE o = s
    <3>1. pc'[o] = p /\ job'[o] = j /\ tx'[o] = w
      BY <1>1, <1>2, <2>1
    <3> QED BY <3>1
  <2>2. CASE o # s
    <3>1. pc'[o] = pc[o] /\ job'[o] = job[o] /\ tx'[o] = tx[o]
      BY <1>1, <1>2, <2>2
    <3> QED BY <3>1 DEF TellInv
  <2> QED BY <2>1, <2>2
<1>4. StoredTold'
  BY DEF TellInv, StoredTold
<1> QED BY <1>3, <1>4 DEF TellInv

\* A session that has no list goes on, whatever it does next.
LEMMA GotoTells ==
  ASSUME IInv, TellInv, NEW s \in SessionIds, UNCHANGED <<db, tx>>,
         NEW p, NEW j, Goto(s, p, j), OffTrip(p, j),
         pc[s] \notin {"notify", "send", "mark_matched"}
  PROVE  TellInv'
<1>1. tx' = [tx EXCEPT ![s] = tx[s]]
  BY DEF IInv, DataInv
<1>2. ASSUME NEW m \in Matches, Told(m, pc[s], job[s], tx[s], db)
      PROVE  Told(m, p, j, tx[s], db)
  BY <1>2, ToldStays DEF Listed
<1>3. Tells(p, j, tx[s], db)
  BY <1>2 DEF TellInv, Tells, JustMade
<1> QED BY <1>1, <1>3, StayTells

\* A session ends without a commit.
LEMMA AbandonTells ==
  ASSUME IInv, TellInv, NEW s \in SessionIds, Abandon(s)
  PROVE  TellInv'
<1>1. Tells("idle", NoJob, NoWrites, db)
  BY DEF Tells, NoWrites, NoWrite
<1>2. OffTrip("idle", NoJob)
  BY DEF OffTrip
<1> QED BY <1>1, <1>2, StayTells DEF Abandon, Done

\* A session commits writes that tell of their matches.
LEMMA CommitTells ==
  ASSUME IInv, TellInv, NEW s \in SessionIds, NEW w \in Writes, Commit(s, w),
         NEW p, NEW j, Goto(s, p, j), OffTrip(p, j),
         NEW q, q \notin {"notify", "send", "mark_matched"}, NEW i, Tells(q, i, w, db),
         \A m \in Matches : w.matches[m] \notin {NoWrite, "PENDING"} => db.matches[m] # Absent
  PROVE  TellInv'
<1>1. /\ \A m \in Matches :
           db'.matches[m] = IF w.matches[m] = NoWrite THEN db.matches[m] ELSE w.matches[m]
      /\ db'.interests = db.interests \cup w.interests
      /\ \A k \in Notices :
           db'.notices[k] = IF w.notices[k] = NoWrite THEN db.notices[k] ELSE w.notices[k]
  BY CommitRows
<1>2. \A k \in Notices : Noted(k, w, db) => db'.notices[k] # Absent
  <2>1. \A k \in Notices : w.notices[k] # Absent
    BY DEF Writes, NotificationStatus, Absent, NoWrite
  <2> QED BY <1>1, <2>1 DEF Noted
<1>3. \A k \in Notices : db.notices[k] # Absent => db'.notices[k] # Absent
  BY <1>2 DEF Noted
<1>4. tx \in [SessionIds -> Writes] /\ pc \in [SessionIds -> Phases] /\ job \in [SessionIds -> Jobs]
  BY DEF IInv, DataInv, ControlInv
<1>5. pc' = [pc EXCEPT ![s] = p] /\ job' = [job EXCEPT ![s] = j] /\ tx' = [tx EXCEPT ![s] = NoWrites]
  BY DEF Goto, Commit
<1>6. ASSUME NEW o \in SessionIds
      PROVE  Tells(pc'[o], job'[o], tx'[o], db') /\ OffTrip(pc'[o], job'[o])
  <2>1. CASE o = s
    <3>1. pc'[o] = p /\ job'[o] = j /\ tx'[o] = NoWrites
      BY <1>4, <1>5, <2>1
    <3>2. Tells(p, j, NoWrites, db')
      BY DEF Tells, NoWrites, NoWrite
    <3> QED BY <3>1, <3>2
  <2>2. CASE o # s
    <3>1. pc'[o] = pc[o] /\ job'[o] = job[o] /\ tx'[o] = tx[o]
      BY <1>4, <1>5, <2>2
    <3>2. ASSUME NEW m \in Matches, Told(m, pc[o], job[o], tx[o], db)
          PROVE  Told(m, pc[o], job[o], tx[o], db')
      <4>1. \A k \in Notices : Noted(k, tx[o], db) => Noted(k, tx[o], db')
        BY <1>3 DEF Noted
      <4> QED BY <3>2, <4>1, ToldStays
    <3>3. Tells(pc[o], job[o], tx[o], db')
      BY <3>2 DEF TellInv, Tells
    <3> QED BY <3>1, <3>3 DEF TellInv
  <2> QED BY <2>1, <2>2
<1>7. StoredTold'
  <2> SUFFICES ASSUME NEW m \in Matches, m[2] \in OnTrip, db'.matches[m] # Absent,
                      m \notin db'.interests
               PROVE  Told(m, "idle", NoJob, NoWrites, db')
    BY DEF StoredTold
  <2>1. m \notin db.interests /\ m \notin w.interests
    BY <1>1
  <2>2. CASE db.matches[m] # Absent
    <3>1. Told(m, "idle", NoJob, NoWrites, db)
      BY <2>1, <2>2 DEF TellInv, StoredTold
    <3>2. \A k \in Notices : Noted(k, NoWrites, db) => Noted(k, NoWrites, db')
      BY <1>3 DEF Noted
    <3> QED BY <3>1, <3>2, ToldStays
  <2>3. CASE db.matches[m] = Absent
    <3>1. w.matches[m] = "PENDING"
      BY <1>1, <2>3
    <3>2. Told(m, q, i, w, db)
      BY <2>1, <3>1 DEF Tells, JustMade
    <3>3. \A k \in Notices : Noted(k, w, db) => Noted(k, NoWrites, db')
      BY <1>2 DEF Noted
    <3>4. \A k \in Notices : ~ Listed(k, q, i)
      BY DEF Listed
    <3> QED BY <3>2, <3>3, <3>4, ToldStays
  <2> QED BY <2>2, <2>3
<1> QED BY <1>6, <1>7 DEF TellInv

-----------------------------------------------------------------------------
(* The actions *)

\* Writes without new matches have nothing to tell.
LEMMA NoNews ==
  ASSUME NEW w, \A m \in Matches : w.matches[m] # "PENDING"
  PROVE  \A q, i, d : Tells(q, i, w, d)
  BY DEF Tells

\* A session that commits what it has, and has no list.
LEMMA CommitOwnTells ==
  ASSUME IInv, BInv, TellInv, NEW s \in SessionIds, NEW w \in Writes, Commit(s, w),
         w.matches = tx[s].matches, w.interests = tx[s].interests,
         \A k \in Notices :
           k[3] = "PROACTIVE_MATCH" /\ tx[s].notices[k] # NoWrite => w.notices[k] # NoWrite,
         Whole(tx[s], db), pc[s] \notin {"notify", "send", "mark_matched"},
         NEW p, NEW j, Goto(s, p, j), OffTrip(p, j)
  PROVE  TellInv'
<1>1. \A m \in Matches : w.matches[m] \notin {NoWrite, "PENDING"} => db.matches[m] # Absent
  <2> SUFFICES ASSUME NEW m \in Matches, tx[s].matches[m] \notin {NoWrite, "PENDING"}
               PROVE  db.matches[m] # Absent
    OBVIOUS
  <2>1. \E n \in Matches : Connection(tx[s], db, n)
    BY DEF Whole, Proposal, Interest
  <2> QED BY <2>1 DEF Connection
<1>2. \A k \in Notices : k[3] = "PROACTIVE_MATCH" /\ Noted(k, tx[s], db) => Noted(k, w, db)
  BY DEF Noted
<1>3. ASSUME NEW m \in Matches, Told(m, pc[s], job[s], tx[s], db)
      PROVE  Told(m, pc[s], job[s], w, db)
  BY <1>2, <1>3, ToldStays
<1>4. Tells(pc[s], job[s], w, db)
  BY <1>3 DEF TellInv, Tells
<1> QED BY <1>1, <1>4, CommitTells

\* A session that commits no new matches.
LEMMA CommitPlainTells ==
  ASSUME IInv, TellInv, NEW s \in SessionIds, NEW w \in Writes, Commit(s, w),
         \A m \in Matches : w.matches[m] # NoWrite => w.matches[m] # "PENDING" /\ db.matches[m] # Absent,
         NEW p, NEW j, Goto(s, p, j), OffTrip(p, j)
  PROVE  TellInv'
<1>1. \A m \in Matches : w.matches[m] # "PENDING"
  BY DEF NoWrite
<1>2. Tells("idle", NoJob, w, db)
  BY <1>1, NoNews
<1> QED BY <1>2, CommitTells

\* The session goes on to the next notice: the one before is settled.
LEMMA NextTells ==
  ASSUME IInv, TellInv, NEW s \in SessionIds, pc[s] \in {"notify", "send"}, NextNotice(s),
         NEW w, tx' = [tx EXCEPT ![s] = w], UNCHANGED db,
         w.matches = tx[s].matches, w.interests = tx[s].interests,
         \A k \in Notices : tx[s].notices[k] # NoWrite => w.notices[k] # NoWrite,
         Noted(Head(job[s].todo), w, db)
  PROVE  TellInv'
<1> DEFINE rest == Tail(job[s].todo)
           p == IF rest = <<>> THEN job[s].after ELSE "notify"
           j == [job[s] EXCEPT !.todo = rest]
<1>1. job[s] \in Jobs /\ NoticesReady(job[s], db.trusted) /\ job[s].todo \in Seq(Notices)
  BY DEF IInv, ControlInv, JobReady, Jobs
<1>2. /\ rest \in Seq(Notices) /\ Len(rest) = Len(job[s].todo) - 1
      /\ \A i \in 1..Len(rest) : rest[i] = job[s].todo[i + 1]
  BY <1>1 DEF NoticesReady
<1>10. Head(job[s].todo) = job[s].todo[1]
  BY <1>1 DEF NoticesReady
<1>3. j.todo = rest /\ Goto(s, p, j)
  BY <1>1 DEF Jobs, NextNotice
<1>4. p \in {"finish", "scan", "broadcast", "audience", "notify"} /\ (rest # <<>> => p = "notify")
  BY <1>1 DEF NoticesReady
<1> HIDE DEF rest, p, j
<1>11. Len(rest) # 0 => rest # <<>>
  OBVIOUS
<1>5. OffTrip(p, j)
  BY <1>4 DEF OffTrip
<1>6. ASSUME NEW k \in Notices, Listed(k, pc[s], job[s])
      PROVE  Noted(k, w, db) \/ Listed(k, p, j)
  <2>1. PICK i \in 1..Len(job[s].todo) : job[s].todo[i] = k
    BY <1>6 DEF Listed
  <2>2. CASE i = 1
    BY <1>10, <2>1, <2>2
  <2>3. CASE i # 1
    <3>1. i - 1 \in 1..Len(rest) /\ rest[i - 1] = k
      BY <1>1, <1>2, <2>1, <2>3
    <3>2. p = "notify"
      BY <1>2, <1>4, <1>11, <3>1
    <3> QED BY <1>3, <3>1, <3>2 DEF Listed
  <2> QED BY <2>2, <2>3
<1>7. \A k \in Notices : Noted(k, tx[s], db) => Noted(k, w, db)
  BY DEF Noted
<1>8. ASSUME NEW m \in Matches, Told(m, pc[s], job[s], tx[s], db)
      PROVE  Told(m, p, j, w, db)
  BY <1>6, <1>7, <1>8, ToldStays
<1>9. Tells(p, j, w, db)
  BY <1>8 DEF TellInv, Tells, JustMade
<1> QED BY <1>3, <1>5, <1>9, StayTells

LEMMA NotifyTells ==
  ASSUME IInv, BInv, TellInv, NEW s \in SessionIds, NotifyStep(s)
  PROVE  TellInv'
<1> DEFINE k == Head(job[s].todo)
<1>1. tx[s] \in Writes /\ job[s] \in Jobs
  BY DEF IInv, DataInv, ControlInv
<1>2. ASSUME pc[s] \in {"notify", "send"} PROVE k \in Notices
  <2>1. job[s].todo \in Seq(Notices) /\ job[s].todo # <<>>
    BY <1>1, <1>2 DEF IInv, ControlInv, JobReady, NoticesReady, Jobs
  <2> QED BY <2>1
<1> HIDE DEF k
<1>3. CASE ProbeNotice(s)
  <2>1. CASE View(s).notices[k] # Absent /\ NextNotice(s)
    <3>1. Noted(k, tx[s], db)
      BY <1>2, <1>3, <2>1 DEF ProbeNotice, View, Overlay, Noted
    <3>2. tx' = [tx EXCEPT ![s] = tx[s]] /\ UNCHANGED db
      BY <1>3 DEF ProbeNotice, IInv, DataInv
    <3> QED BY <1>3, <2>1, <3>1, <3>2, NextTells DEF ProbeNotice, k
  <2>2. CASE Goto(s, "send", job[s])
    <3>1. tx' = [tx EXCEPT ![s] = tx[s]] /\ UNCHANGED db
      BY <1>3 DEF ProbeNotice, IInv, DataInv
    <3>2. ASSUME NEW m \in Matches, Told(m, pc[s], job[s], tx[s], db)
          PROVE  Told(m, "send", job[s], tx[s], db)
      BY <3>2, ToldStays DEF Listed
    <3>3. Tells("send", job[s], tx[s], db) /\ OffTrip("send", job[s])
      BY <1>3, <3>2 DEF TellInv, Tells, OffTrip, JustMade, ProbeNotice
    <3> QED BY <2>2, <3>1, <3>3, StayTells
  <2> QED BY <1>3, <2>1, <2>2 DEF ProbeNotice, k
<1>4. CASE SendNotice(s)
  <2>1. PICK st \in SendOutcomes : Stage(s, [tx[s] EXCEPT !.notices[k] = st])
    BY <1>4 DEF SendNotice, k
  <2> DEFINE w == [tx[s] EXCEPT !.notices[k] = st]
  <2>2. st # NoWrite
    BY SendAssumption DEF NoWrite
  <2>3. /\ w.matches = tx[s].matches /\ w.interests = tx[s].interests
        /\ \A n \in Notices : tx[s].notices[n] # NoWrite => w.notices[n] # NoWrite
        /\ w.notices[k] # NoWrite
    BY <1>1, <1>2, <1>4, <2>2 DEF Writes, SendNotice
  <2>4. tx' = [tx EXCEPT ![s] = w] /\ UNCHANGED db
    BY <2>1 DEF Stage
  <2> HIDE DEF w
  <2>5. Noted(Head(job[s].todo), w, db)
    BY <2>3 DEF Noted, k
  <2> QED BY <1>4, <2>3, <2>4, <2>5, NextTells DEF SendNotice
<1>5. CASE NoticeConflict(s)
  BY <1>5, AbandonTells DEF NoticeConflict
<1>6. CASE Finish(s)
  <2>1. Whole(tx[s], db)
    BY <1>6 DEF BInv, SessionsFit, Fit, Waiting, Finish
  <2>2. OffTrip("idle", NoJob)
    BY DEF OffTrip
  <2> QED BY <1>1, <1>6, <2>1, <2>2, CommitOwnTells DEF Finish, Done
<1> QED BY <1>3, <1>4, <1>5, <1>6 DEF NotifyStep

LEMMA InsertTells ==
  ASSUME IInv, BInv, TellInv, NEW s \in SessionIds, InsertMatch(s)
  PROVE  TellInv'
<1> DEFINE m == MatchOf(job[s])
           w == KeyWrites(s)
<1>1. job[s] \in Jobs /\ tx[s] \in Writes /\ JobMatch(s) = m /\ m \in Matches
  BY JobMatchType DEF IInv, DataInv, ControlInv, InsertMatch, NeedTruck, JobMatch, MatchOf
<1>2. /\ w.notices = tx[s].notices /\ w.interests = tx[s].interests
      /\ \A n \in Matches \ {m} : w.matches[n] = tx[s].matches[n]
  BY <1>1 DEF KeyWrites, Writes
<1>3. tx' = [tx EXCEPT ![s] = w] /\ UNCHANGED db /\ Goto(s, "mark_matched", job[s])
  BY DEF InsertMatch, Stage
<1> HIDE DEF w
<1>4. ASSUME NEW n \in Matches, Told(n, pc[s], job[s], tx[s], db)
      PROVE  Told(n, "mark_matched", job[s], w, db)
  <2>1. \A k \in Notices : Noted(k, tx[s], db) => Noted(k, w, db)
    BY <1>2 DEF Noted
  <2>2. \A k \in Notices : ~ Listed(k, pc[s], job[s])
    BY DEF Listed, InsertMatch
  <2> QED BY <1>4, <2>1, <2>2, ToldStays
<1>5. Tells("mark_matched", job[s], w, db)
  <2> SUFFICES ASSUME NEW n \in Matches, n[2] \in OnTrip, w.matches[n] = "PENDING",
                      n \notin w.interests, ~ JustMade(n, "mark_matched", job[s])
               PROVE  Told(n, "mark_matched", job[s], w, db)
    BY DEF Tells
  <2>1. n # m
    <3>1. CASE job[s].op = "register_interest"
      <4>1. Interest(tx[s], m)
        BY <3>1 DEF BInv, SessionsFit, InsertMatch, Fit, Waiting
      <4> QED BY <1>2, <4>1 DEF Interest
    <3>2. CASE job[s].op # "register_interest"
      BY <3>2 DEF JustMade
    <3> QED BY <3>1, <3>2
  <2>2. Told(n, pc[s], job[s], tx[s], db)
    BY <1>2, <2>1 DEF TellInv, Tells, JustMade, InsertMatch
  <2> QED BY <1>4, <2>2
<1>6. OffTrip("mark_matched", job[s])
  BY DEF TellInv, OffTrip, InsertMatch
<1> QED BY <1>3, <1>5, <1>6, StayTells

LEMMA MarkTells ==
  ASSUME IInv, BInv, TellInv, NEW s \in SessionIds, MarkMatched(s)
  PROVE  TellInv'
<1> DEFINE l == job[s].load
           t == job[s].truck
           m == <<l, t>>
           j == [job[s] EXCEPT !.memo[l] = MatchedStatus(@)]
           w == MatchWrites(s)
<1>1. job[s] \in Jobs /\ l \in Loads /\ t \in Trucks /\ MatchOf(job[s]) = m /\ m \in Matches
  BY JobMatchType DEF MarkMatched, NeedTruck, JobMatch, MatchOf
<1>2. Fit("mark_matched", job[s], tx[s], db) /\ tx[s] \in Writes
  BY DEF BInv, SessionsFit, MarkMatched, IInv, DataInv
<1>3. w \in Writes
  BY <1>1, MatchWritesSafe DEF MarkMatched, SafeWrites
<1>4. w.notices = tx[s].notices /\ w.interests = tx[s].interests /\ w.matches = tx[s].matches
  BY <1>2 DEF MatchWrites, Writes
<1>5. SaveMatch(s)
  BY DEF MarkMatched
<1>6. \/ job[s].op \in {"create_load", "create_truck"} /\ Goto(s, "process_match", j)
      \/ job[s].op = "register_interest" /\ Goto(s, "record_interest", j)
      \/ /\ job[s].op = "proactive"
         /\ \E admin \in AdminChoices :
              StartNotices(s, j, MatchNotices(l, t, admin, "PROACTIVE_MATCH"), "scan")
  BY DEF MarkMatched
<1> HIDE DEF w, j
<1>7. ASSUME NEW q, NEW i,
             m[2] \notin OnTrip \/ job[s].op = "register_interest" \/ Told(m, q, i, w, db)
      PROVE  Tells(q, i, w, db)
  <2> SUFFICES ASSUME NEW n \in Matches, n[2] \in OnTrip, w.matches[n] = "PENDING",
                      n \notin w.interests, ~ JustMade(n, pc[s], job[s])
               PROVE  Told(n, q, i, w, db)
    BY <1>1, <1>7 DEF Tells, JustMade
  <2>1. Told(n, pc[s], job[s], tx[s], db)
    BY <1>4 DEF TellInv, Tells
  <2>2. \A k \in Notices : Noted(k, tx[s], db) => Noted(k, w, db)
    BY <1>4 DEF Noted
  <2>3. \A k \in Notices : ~ Listed(k, pc[s], job[s])
    BY DEF Listed, MarkMatched
  <2> QED BY <2>1, <2>2, <2>3, ToldStays
<1>8. CASE job[s].op \in {"create_load", "create_truck"} /\ Goto(s, "process_match", j)
  <2>1. Commit(s, w)
    BY <1>5, <1>8 DEF SaveMatch, w
  <2>2. Tells("idle", NoJob, w, db)
    <3>1. m[2] \notin OnTrip
      BY <1>8 DEF TellInv, OffTrip, MarkMatched
    <3> QED BY <1>7, <3>1
  <2>3. \A n \in Matches : w.matches[n] \notin {NoWrite, "PENDING"} => db.matches[n] # Absent
    <3>1. Whole(tx[s], db) /\ tx[s].matches[m] = "PENDING"
      BY <1>1, <1>2 DEF Fit, Waiting
    <3>2. Proposal(tx[s], db)
      BY <1>1, <3>1, WholeProposes
    <3> QED BY <1>4, <3>2 DEF Proposal
  <2>4. OffTrip("process_match", j)
    BY DEF OffTrip
  <2> QED BY <1>3, <1>8, <2>1, <2>2, <2>3, <2>4, CommitTells
<1>9. CASE job[s].op = "register_interest" /\ Goto(s, "record_interest", j)
  <2>1. tx' = [tx EXCEPT ![s] = w] /\ UNCHANGED db
    BY <1>5, <1>9 DEF SaveMatch, Stage, w
  <2>2. Tells("record_interest", j, w, db)
    BY <1>7, <1>9
  <2>3. OffTrip("record_interest", j)
    BY DEF OffTrip
  <2> QED BY <1>9, <2>1, <2>2, <2>3, StayTells
<1>10. CASE /\ job[s].op = "proactive"
            /\ \E admin \in AdminChoices :
                 StartNotices(s, j, MatchNotices(l, t, admin, "PROACTIVE_MATCH"), "scan")
  <2>1. tx' = [tx EXCEPT ![s] = w] /\ UNCHANGED db
    BY <1>5, <1>10 DEF SaveMatch, Stage, w
  <2>2. PICK admin \in AdminChoices :
          StartNotices(s, j, MatchNotices(l, t, admin, "PROACTIVE_MATCH"), "scan")
    BY <1>10
  <2> DEFINE todo == MatchNotices(l, t, admin, "PROACTIVE_MATCH")
             k == [j EXCEPT !.todo = todo, !.after = "scan"]
  <2>3. Goto(s, "notify", k) /\ News(m, admin) = todo
    BY <2>2 DEF StartNotices, News
  <2> HIDE DEF todo
  <2>4. k.todo = todo
    <3>1. j = [job[s] EXCEPT !.memo = j.memo]
      BY <1>1 DEF j, Jobs
    <3> QED BY <1>1, <3>1 DEF Jobs
  <2> HIDE DEF k
  <2>5. Told(m, "notify", k, w, db)
    BY <2>3, <2>4 DEF Told, Listed
  <2>6. Tells("notify", k, w, db)
    BY <1>7, <2>5
  <2>7. OffTrip("notify", k)
    BY DEF OffTrip
  <2> QED BY <2>1, <2>3, <2>6, <2>7, StayTells
<1> QED BY <1>6, <1>8, <1>9, <1>10

LEMMA MatchTells ==
  ASSUME IInv, BInv, TellInv, NEW s \in SessionIds, MatchStep(s)
  PROVE  TellInv'
<1>1. tx[s] \in Writes /\ job[s] \in Jobs
  BY DEF IInv, DataInv, ControlInv
<1>2. CASE ProbeMatch(s)
  <2>1. (\E p : p \in {"insert_match", "scan", "record_interest"} /\ Goto(s, p, job[s])) \/ Done(s)
    BY <1>2 DEF ProbeMatch, AfterExistingMatch
  <2>2. OffTrip("probe_match", job[s])
    BY <1>2 DEF TellInv, ProbeMatch
  <2>3. \A p \in {"insert_match", "scan", "record_interest"} : OffTrip(p, job[s])
    BY <2>2 DEF OffTrip
  <2>4. OffTrip("idle", NoJob)
    BY DEF OffTrip
  <2> QED BY <1>2, <2>1, <2>3, <2>4, GotoTells DEF ProbeMatch, Done
<1>3. CASE MatchConflict(s)
  BY <1>3, AbandonTells DEF MatchConflict
<1>4. CASE MediateMatch(s)
  <2>1. PICK admin \in AdminChoices : StartNotices(s, job[s],
          MatchNotices(job[s].load, job[s].truck, admin, "MATCH_FOUND"), "finish")
    BY <1>4 DEF MediateMatch
  <2>2. \A j : OffTrip("notify", j)
    BY DEF OffTrip
  <2> QED BY <1>4, <2>1, <2>2, GotoTells DEF MediateMatch, StartNotices
<1>5. CASE AutoConnect(s)
  <2> DEFINE l == job[s].load
             m == JobMatch(s)
             st == Assign(job[s].memo[l], "CONNECTED")
             w == [tx[s] EXCEPT !.matches[m] = "CONNECTED", !.loads[l] = st]
  <2>1. PICK admin \in AdminChoices : StartNotices(s, [job[s] EXCEPT !.memo[l] = "CONNECTED"],
          MatchNotices(l, job[s].truck, admin, "AUTO_CONNECTED"), "finish")
    BY <1>5 DEF AutoConnect
  <2>2. tx' = [tx EXCEPT ![s] = w] /\ UNCHANGED db /\ pc[s] = "process_match"
    BY <1>5 DEF AutoConnect, Stage
  <2>3. m \in Matches
    BY <1>5, JobMatchType DEF AutoConnect, NeedTruck
  <2> HIDE DEF st, m
  <2>4. w.matches = [tx[s].matches EXCEPT ![m] = "CONNECTED"]
    BY <1>1 DEF Writes
  <2> HIDE DEF w
  <2>5. Unseen(tx[s])
    BY <2>2 DEF BInv, SessionsFit, Fit, Knows
  <2>6. \A n \in Matches : w.matches[n] # "PENDING"
    BY <1>1, <2>3, <2>4, <2>5 DEF Unseen, Writes, NoWrite
  <2>7. \A j : Tells("notify", j, w, db) /\ OffTrip("notify", j)
    BY <2>6, NoNews DEF OffTrip
  <2> QED BY <2>1, <2>2, <2>7, StayTells DEF StartNotices
<1> QED BY <1>2, <1>3, <1>4, <1>5, InsertTells, MarkTells DEF MatchStep

LEMMA CreateLoadTells ==
  ASSUME IInv, TellInv, NEW s \in SessionIds, NEW l \in Loads, CreateLoad(s, l)
  PROVE  TellInv'
<1> DEFINE j == [NoJob EXCEPT !.op = "create_load", !.load = l]
<1>1. Commit(s, OneLoad(l, "NEW")) /\ Goto(s, "search", j)
  BY DEF CreateLoad, OneLoad
<1>2. /\ OneLoad(l, "NEW") \in Writes
      /\ \A m \in Matches : OneLoad(l, "NEW").matches[m] = NoWrite
  BY LoadWrites DEF LoadStatus, Unseen, OneLoad, NoWrites
<1>3. OffTrip("search", j)
  BY DEF OffTrip, NoJob
<1> HIDE DEF j
<1> QED BY <1>1, <1>2, <1>3, CommitPlainTells

LEMMA CreateTruckTells ==
  ASSUME IInv, TellInv, NEW s \in SessionIds, NEW t \in Trucks, CreateTruck(s, t)
  PROVE  TellInv'
<1> DEFINE w == [NoWrites EXCEPT !.trucks = {t}]
           j == [NoJob EXCEPT !.op = "create_truck", !.truck = t]
<1>1. w \in Writes /\ \A m \in Matches : w.matches[m] = NoWrite
  BY PlainWritesSafe DEF SafeWrites, NoWrites
<1>2. Commit(s, w) /\ ((t \in Free /\ Goto(s, "search", j)) \/ Goto(s, "idle", NoJob))
  BY DEF CreateTruck, Done
<1>3. t \in Free => OffTrip("search", j)
  BY SchemaAssumption DEF OffTrip, NoJob
<1>4. OffTrip("idle", NoJob)
  BY DEF OffTrip
<1> HIDE DEF w, j
<1> QED BY <1>1, <1>2, <1>3, <1>4, CommitPlainTells

LEMMA SearchTells ==
  ASSUME IInv, TellInv, NEW s \in SessionIds, SearchTruck(s) \/ SearchLoad(s)
  PROVE  TellInv'
<1>1. job[s] \in Jobs /\ pc[s] = "search" /\ OffTrip("search", job[s])
  BY DEF IInv, ControlInv, TellInv, SearchTruck, SearchLoad
<1>2. CASE SearchTruck(s)
  <2> DEFINE l == job[s].load
             r == Remember(s, l)
  <2>1. \/ \E t \in BestTrucks(l, FreeTrucks) : Goto(s, "probe_match", [r EXCEPT !.truck = t])
        \/ Goto(s, "no_match", r)
    BY <1>2 DEF SearchTruck
  <2>2. r \in Jobs
    BY <1>1, <1>2, RememberType DEF SearchTruck, IInv, ControlInv, JobReady
  <2> HIDE DEF r
  <2>3. ASSUME NEW t \in BestTrucks(l, FreeTrucks)
        PROVE  OffTrip("probe_match", [r EXCEPT !.truck = t])
    <3>1. t \notin OnTrip
      BY <2>3, SchemaAssumption DEF BestTrucks, FreeTrucks
    <3>2. [r EXCEPT !.truck = t].truck = t
      BY <2>2 DEF Jobs
    <3> QED BY <3>1, <3>2 DEF OffTrip
  <2>4. OffTrip("no_match", r)
    BY DEF OffTrip
  <2> QED BY <1>1, <1>2, <2>1, <2>3, <2>4, GotoTells DEF SearchTruck
<1>3. CASE SearchLoad(s)
  <2>1. \/ \E l \in WaitingLoads(s) : Goto(s, "probe_match", [Remember(s, l) EXCEPT !.load = l])
        \/ Goto(s, "idle", NoJob)
    BY <1>3 DEF SearchLoad, BestLoads, Done
  <2>2. ASSUME NEW l \in WaitingLoads(s)
        PROVE  OffTrip("probe_match", [Remember(s, l) EXCEPT !.load = l])
    <3> DEFINE r == Remember(s, l)
    <3>1. r \in Jobs /\ r = [job[s] EXCEPT !.memo = r.memo]
      BY <2>2, RememberType DEF IInv, WaitingLoads
    <3> HIDE DEF r
    <3>2. [r EXCEPT !.load = l].truck = job[s].truck /\ [r EXCEPT !.load = l].op = "create_truck"
      BY <1>1, <1>3, <3>1 DEF Jobs, SearchLoad
    <3>3. OffTrip("probe_match", [r EXCEPT !.load = l])
      BY <1>1, <1>3, <3>2 DEF OffTrip, SearchLoad
    <3> QED BY <3>3 DEF r
  <2>3. OffTrip("idle", NoJob)
    BY DEF OffTrip
  <2> QED BY <1>1, <1>3, <2>1, <2>2, <2>3, GotoTells DEF SearchLoad
<1> QED BY <1>2, <1>3

LEMMA RequestTells ==
  ASSUME IInv, BInv, TellInv, NEW s \in SessionIds, RequestStep(s)
  PROVE  TellInv'
<1>1. tx[s] \in Writes /\ job[s] \in Jobs
  BY DEF IInv, DataInv, ControlInv
<1>2. \A j : OffTrip("notify", j) /\ OffTrip("broadcast", j) /\ OffTrip("finish", j)
  BY DEF OffTrip
<1>3. CASE SetWaiting(s)
  <2> DEFINE l == job[s].load
             st == Assign(job[s].memo[l], "WAITING_FOR_MATCH")
  <2>1. Commit(s, OneLoad(l, st)) /\ \E j : Goto(s, "notify", j)
    BY <1>3 DEF SetWaiting, OneLoad, StartNotices
  <2>2. l \in Loads /\ st \in LoadStatus \cup {NoWrite}
    BY <1>3 DEF IInv, ControlInv, JobReady, NeedLoad, SetWaiting, Assign, LoadStatus
  <2> HIDE DEF st
  <2>3. OneLoad(l, st) \in Writes /\ \A m \in Matches : OneLoad(l, st).matches[m] = NoWrite
    BY <2>2, LoadWrites DEF OneLoad, NoWrites
  <2> QED BY <1>2, <2>1, <2>3, CommitPlainTells
<1>4. CASE SelectAudience(s)
  <2>1. Whole(tx[s], db)
    BY <1>4 DEF BInv, SessionsFit, Fit, Waiting, SelectAudience
  <2> QED BY <1>1, <1>2, <1>4, <2>1, CommitOwnTells DEF SelectAudience
<1>5. CASE BroadcastNext(s)
  <2>1. \E p \in {"notify", "finish"} : \E j : Goto(s, p, j)
    BY <1>5 DEF BroadcastNext, StartNotices
  <2> QED BY <1>2, <1>5, <2>1, GotoTells DEF BroadcastNext
<1>6. CASE RecordInterest(s)
  <2> DEFINE k == <<CarrierOf[job[s].truck], job[s].load, "BROADCAST">>
             st == IF db.notices[k] = Absent THEN NoWrite ELSE Assign(db.notices[k], "INTERESTED")
             w == [tx[s] EXCEPT !.notices[k] = st]
  <2>1. Commit(s, w) /\ (\E j : Goto(s, "notify", j)) /\ pc[s] = "record_interest"
    BY <1>6 DEF RecordInterest, StartNotices
  <2>2. k \in Notices /\ k[3] # "PROACTIVE_MATCH"
    BY <1>6, Parties, JobMatchType DEF RecordInterest, NeedTruck, Notices, NotificationType
  <2>3. st \in NotificationStatus \cup {NoWrite}
    BY DEF Assign, NotificationStatus
  <2> HIDE DEF st, k
  <2>4. /\ w \in Writes /\ w.matches = tx[s].matches /\ w.interests = tx[s].interests
        /\ \A n \in Notices \ {k} : w.notices[n] = tx[s].notices[n]
    BY <1>1, <2>2, <2>3 DEF Writes
  <2> HIDE DEF w
  <2>5. Whole(tx[s], db)
    BY <2>1 DEF BInv, SessionsFit, Fit, Waiting
  <2> QED BY <1>2, <2>1, <2>2, <2>4, <2>5, CommitOwnTells
<1> QED BY <1>3, <1>4, <1>5, <1>6, SearchTells DEF RequestStep

\* A decision makes no match.
LEMMA DecisionTells ==
  ASSUME IInv, TellInv, NEW s \in SessionIds, NEW w \in Writes, Commit(s, w), Done(s),
         NEW m \in Matches, NEW ms \in MatchStatus \ {"PENDING"}, NEW ls \in LoadStatus,
         Decision(w, m, ms, ls), db.matches[m] # Absent
  PROVE  TellInv'
<1>1. \A n \in Matches : w.matches[n] # NoWrite => n = m /\ w.matches[n] = ms
  BY DEF Decision
<1>2. OffTrip("idle", NoJob)
  BY DEF OffTrip
<1> QED BY <1>1, <1>2, CommitPlainTells DEF Done

LEMMA AdminTells ==
  ASSUME IInv, BInv, TellInv, NEW s \in SessionIds, AdminStep(s)
  PROVE  TellInv'
<1> DEFINE m == JobMatch(s)
           st == job[s].memo[job[s].load]
           kept == IF st \in {"CONNECTED", "CONFIRMED", "COMPLETED"}
                     THEN st ELSE "WAITING_FOR_MATCH"
<1>1. ASSUME NEW act \in MatchActions, Acting(s, act)
      PROVE  /\ job[s].load \in Loads /\ job[s].truck \in Trucks /\ ~ Newborn(job[s].load)
             /\ m = <<job[s].load, job[s].truck>> /\ m \in Matches /\ db.matches[m] # Absent
  BY <1>1, ActingDecides
<1>2. ASSUME NEW ms \in MatchStatus \ {"PENDING"}, NEW ls \in LoadStatus, NEW ld \in LoadStatus,
             ls \in {ld, st}, NEW act \in MatchActions, Acting(s, act)
      PROVE  /\ StatusWrites(s, ms, ls) \in Writes
             /\ Decision(StatusWrites(s, ms, ls), m, ms, ld)
  BY <1>1, <1>2, StatusDecides
<1>3. /\ "ADMIN_CONTACTING" \in MatchStatus \ {"PENDING"} /\ "ADMIN_CONTACTING" \in LoadStatus
      /\ "CONNECTED" \in MatchStatus \ {"PENDING"} /\ "CONNECTED" \in LoadStatus
      /\ "REJECTED" \in MatchStatus \ {"PENDING"} /\ "WAITING_FOR_MATCH" \in LoadStatus
      /\ kept \in LoadStatus /\ kept \in {"WAITING_FOR_MATCH", st}
      /\ {"contact", "connect", "reject", "resend_notification"} = MatchActions
  BY DEF MatchStatus, LoadStatus, MatchActions
<1> HIDE DEF m
<1>4. CASE AdminContact(s)
  BY <1>1, <1>2, <1>3, <1>4, DecisionTells DEF AdminContact
<1>5. CASE AdminReject(s)
  <2>1. Commit(s, StatusWrites(s, "REJECTED", kept)) /\ Done(s) /\ Acting(s, "reject")
    BY <1>5 DEF AdminReject
  <2> HIDE DEF kept, st
  <2>2. /\ StatusWrites(s, "REJECTED", kept) \in Writes
        /\ Decision(StatusWrites(s, "REJECTED", kept), m, "REJECTED", "WAITING_FOR_MATCH")
        /\ m \in Matches /\ db.matches[m] # Absent
    BY <1>1, <1>2, <1>3, <2>1 DEF st
  <2> QED BY <1>3, <2>1, <2>2, DecisionTells
<1>6. CASE AdminConnect(s)
  <2> DEFINE v == StatusWrites(s, "CONNECTED", "CONNECTED")
             w == ConnectWrites(s)
  <2>1. Commit(s, w) /\ Done(s) /\ Acting(s, "connect")
    BY <1>6 DEF AdminConnect
  <2>2. v \in Writes /\ Decision(v, m, "CONNECTED", "CONNECTED") /\ m \in Matches
        /\ m = <<job[s].load, job[s].truck>> /\ db.matches[m] # Absent
        /\ job[s].load \in Loads /\ job[s].truck \in Trucks
    BY <1>1, <1>2, <1>3, <2>1
  <2>3. w = [v EXCEPT !.trusted = {PairOf(m)}]
    BY DEF ConnectWrites, m
  <2>4. PairOf(m) \in Pairs
    BY <2>2, Parties DEF PairOf, Pairs
  <2> HIDE DEF v, w
  <2>5. /\ w \in Writes /\ w.matches = v.matches /\ w.loads = v.loads
        /\ w.interests = v.interests
    BY <2>2, <2>3, <2>4 DEF Writes
  <2>6. Decision(w, m, "CONNECTED", "CONNECTED")
    BY <2>2, <2>5 DEF Decision
  <2> QED BY <1>3, <2>1, <2>2, <2>5, <2>6, DecisionTells
<1>7. CASE AdminCancelLoad(s)
  <2> DEFINE l == job[s].load
             new == Assign(job[s].memo[l], "CANCELLED")
  <2>1. Commit(s, OneLoad(l, new)) /\ Goto(s, "idle", NoJob)
    BY <1>7 DEF AdminCancelLoad, OneLoad, Done
  <2>2. l \in Loads /\ new \in LoadStatus \cup {NoWrite}
    BY <1>7 DEF IInv, ControlInv, JobReady, NeedLoad, AdminCancelLoad, Acting, Assign, LoadStatus
  <2> HIDE DEF new
  <2>3. OneLoad(l, new) \in Writes /\ \A n \in Matches : OneLoad(l, new).matches[n] = NoWrite
    BY <2>2, LoadWrites DEF OneLoad, NoWrites
  <2>4. OffTrip("idle", NoJob)
    BY DEF OffTrip
  <2> QED BY <2>1, <2>3, <2>4, CommitPlainTells
<1>8. CASE ConnectConflict(s)
  BY <1>8, AbandonTells DEF ConnectConflict
<1>9. CASE AdminResend(s)
  <2>1. \E j : Goto(s, "notify", j) /\ OffTrip("notify", j)
    BY <1>9 DEF AdminResend, StartNotices, OffTrip
  <2> QED BY <1>9, <2>1, GotoTells DEF AdminResend, Acting
<1>10. CASE AdminFetchNext(s)
  <2>1. \A j : OffTrip("act", j)
    BY DEF OffTrip
  <2> QED BY <1>10, <2>1, GotoTells DEF AdminFetchNext
<1> QED BY <1>4, <1>5, <1>6, <1>7, <1>8, <1>9, <1>10 DEF AdminStep

LEMMA WorkerTells ==
  ASSUME IInv, BInv, TellInv, NEW s \in SessionIds, WorkerStep(s)
  PROVE  TellInv'
<1>1. \A p \in {"scan", "finish", "remind"} : \A j : OffTrip(p, j)
  BY DEF OffTrip
<1>2. CASE ScanTruck(s)
  <2>1. \E p \in {"scan", "finish"} : \E j : Goto(s, p, j)
    BY <1>2 DEF ScanTruck
  <2> QED BY <1>1, <1>2, <2>1, GotoTells DEF ScanTruck
<1>3. CASE ScanLoad(s)
  <2>1. PICK l \in job[s].cand :
          Goto(s, "probe_match", [job[s] EXCEPT !.load = l, !.cand = @ \ {l}])
    BY <1>3 DEF ScanLoad
  <2> DEFINE j == [job[s] EXCEPT !.load = l, !.cand = @ \ {l}]
  <2>2. j.op = "proactive"
    BY <1>3 DEF BInv, SessionsFit, Knows, ScanLoad, IInv, ControlInv, Jobs
  <2>3. OffTrip("probe_match", j)
    BY <2>2 DEF OffTrip
  <2> QED BY <1>3, <2>1, <2>3, GotoTells DEF ScanLoad
<1>4. CASE RemindNext(s)
  <2>1. \E p \in {"remind", "finish"} : \E j : Goto(s, p, j)
    BY <1>4 DEF RemindNext
  <2>2. UNCHANGED db /\ \/ \E k : tx' = [tx EXCEPT ![s] = [tx[s] EXCEPT !.reminded = @ \cup {k}]]
                        \/ UNCHANGED tx
    BY <1>4 DEF RemindNext, Stage
  <2>3. tx[s] \in Writes /\ tx \in [SessionIds -> Writes]
    BY DEF IInv, DataInv
  <2>4. PICK w : /\ tx' = [tx EXCEPT ![s] = w] /\ w.matches = tx[s].matches
                 /\ w.interests = tx[s].interests /\ w.notices = tx[s].notices
    <3>1. CASE UNCHANGED tx
      <4>1. tx' = [tx EXCEPT ![s] = tx[s]]
        BY <2>3, <3>1
      <4> QED BY <4>1
    <3>2. CASE \E k : tx' = [tx EXCEPT ![s] = [tx[s] EXCEPT !.reminded = @ \cup {k}]]
      <4>1. PICK k : tx' = [tx EXCEPT ![s] = [tx[s] EXCEPT !.reminded = @ \cup {k}]]
        BY <3>2
      <4> DEFINE w == [tx[s] EXCEPT !.reminded = @ \cup {k}]
      <4>2. /\ w.matches = tx[s].matches /\ w.interests = tx[s].interests
            /\ w.notices = tx[s].notices /\ tx' = [tx EXCEPT ![s] = w]
        BY <2>3, <4>1 DEF Writes
      <4> HIDE DEF w
      <4> QED BY <4>2
    <3> QED BY <2>2, <3>1, <3>2
  <2>5. \A k \in Notices : /\ Noted(k, tx[s], db) => Noted(k, w, db)
                           /\ ~ Listed(k, pc[s], job[s])
    BY <1>4, <2>4 DEF Noted, Listed, RemindNext
  <2>6. ASSUME NEW p, NEW j, NEW m \in Matches, Told(m, pc[s], job[s], tx[s], db)
        PROVE  Told(m, p, j, w, db)
    BY <2>5, <2>6, ToldStays
  <2>7. \A p, j : Tells(p, j, w, db)
    BY <1>4, <2>4, <2>6 DEF TellInv, Tells, JustMade, RemindNext
  <2> QED BY <1>1, <2>1, <2>2, <2>4, <2>7, StayTells
<1> QED BY <1>2, <1>3, <1>4 DEF WorkerStep

LEMMA StartTells ==
  ASSUME IInv, TellInv, NEW s \in SessionIds, Start(s)
  PROVE  TellInv'
<1>1. CASE \E l \in Loads : CreateLoad(s, l)
  BY <1>1, CreateLoadTells
<1>2. CASE \E t \in Trucks : CreateTruck(s, t)
  BY <1>2, CreateTruckTells
<1>3. CASE \E l \in Loads, t \in Trucks : PressInterest(s, l, t)
  <2>1. PICK l \in Loads, t \in Trucks : PressInterest(s, l, t)
    BY <1>3
  <2> DEFINE w == [NoWrites EXCEPT !.interests = {<<l, t>>}]
             j == [NoJob EXCEPT !.op = "register_interest", !.load = l, !.truck = t,
                                !.memo[l] = db.loads[l]]
  <2>2. tx' = [tx EXCEPT ![s] = w] /\ UNCHANGED db /\ Goto(s, "probe_match", j)
    BY <2>1 DEF PressInterest, SaveInterest, Stage
  <2>3. j.op = "register_interest" /\ \A m \in Matches : w.matches[m] # "PENDING"
    BY DEF NoJob, NoWrites, NoWrite
  <2> HIDE DEF j, w
  <2>4. OffTrip("probe_match", j) /\ Tells("probe_match", j, w, db)
    BY <2>3, NoNews DEF OffTrip
  <2> QED BY <2>2, <2>4, StayTells
<1>4. CASE \/ \E act \in Workload, m \in Matches : AdminFetch(s, act, m)
           \/ \E l \in Loads : AdminFetchLoad(s, l)
           \/ \E near \in SUBSET Trucks : StartProactive(s, near)
           \/ \E old \in SUBSET Remindable : StartReminders(s, old)
  <2>1. /\ pc[s] = "idle" /\ UNCHANGED <<db, tx>>
        /\ \E p \in {"fetch_load", "act", "scan", "remind"} : \E j : Goto(s, p, j)
    BY <1>4 DEF AdminFetch, AdminFetchLoad, StartProactive, StartReminders
  <2>2. \A p \in {"fetch_load", "act", "scan", "remind"} : \A j : OffTrip(p, j)
    BY DEF OffTrip
  <2> QED BY <2>1, <2>2, GotoTells
<1> QED BY <1>1, <1>2, <1>3, <1>4 DEF Start

\* Whatever is stored or pending is told of.
LEMMA TellAlways == Spec => []TellInv
<1>1. Init => TellInv
  <2> SUFFICES ASSUME Init PROVE TellInv
    OBVIOUS
  <2>1. StoredTold
    BY DEF Init, SessionsInit, EmptyTables, StoredTold
  <2>2. Tells("idle", NoJob, NoWrites, db) /\ OffTrip("idle", NoJob)
    BY DEF Tells, OffTrip, NoWrites, NoWrite
  <2> QED BY <2>1, <2>2 DEF TellInv, Init, SessionsInit
<1>2. (IInv /\ BInv) /\ TellInv /\ [Next]_vars => TellInv'
  <2> SUFFICES ASSUME IInv, BInv, TellInv, [Next]_vars PROVE TellInv'
    OBVIOUS
  <2>1. CASE UNCHANGED vars
    BY <2>1 DEF vars, TellInv, StoredTold
  <2>2. ASSUME NEW s \in SessionIds, Start(s) PROVE TellInv'
    BY <2>2, StartTells
  <2>3. ASSUME NEW s \in SessionIds, Step(s) PROVE TellInv'
    BY <2>3, NotifyTells, MatchTells, RequestTells, AdminTells, WorkerTells DEF Step
  <2>4. ASSUME NEW s \in SessionIds, Crash(s) PROVE TellInv'
    BY <2>4, AbandonTells DEF Crash
  <2> QED BY <2>1, <2>2, <2>3, <2>4 DEF Next
<1> QED BY <1>1, <1>2, BothAlways, PTL DEF Spec

\* A backhaul match is stored with the notices that announce it or not at all,
\* wherever the pass that makes it is interrupted.
THEOREM BackhaulsAreTold == Spec => []BackhaulAllOrNothing
  BY TellAlways, StoredToldMeans, PTL DEF TellInv

-----------------------------------------------------------------------------
(* Reminders *)

\* What a session in phase p has to do with reminders: the pass alone sets
\* flags, and has none of them left to do.
RemindReady(p, j, w, d) ==
  /\ w.reminded # {} => j.op = "reminders"
  /\ j.op = "reminders" =>
       p \in {"remind", "finish"} /\ j.due \cap (d.reminded \cup w.reminded) = {}
  /\ p = "remind" => j.op = "reminders"

\* A reminder is sent at most once more than sessions died, and remembered, by
\* the table or by the pass, unless a session that died takes it with it.
Remembered ==
  \A k \in Notices :
    /\ reminders[k] <= 1 + crashes
    /\ reminders[k] > crashes => k \in db.reminded \/ \E s \in SessionIds : k \in tx[s].reminded

RemindInv ==
  /\ Remembered
  /\ \A s \in SessionIds : RemindReady(pc[s], job[s], tx[s], db)
  /\ \A s, o \in SessionIds : job[s].op = "reminders" /\ job[o].op = "reminders" => s = o

\* A step of another request: it sets no flag and does not become a pass.
Aside(s, w, p, j) ==
  /\ tx' = [tx EXCEPT ![s] = w] /\ w.reminded = {}
  /\ db'.reminded = db.reminded /\ UNCHANGED <<reminders, crashes>>
  /\ Goto(s, p, j) /\ p # "remind" /\ j.op # "reminders"

LEMMA AsideKeeps ==
  ASSUME IInv, RemindInv, NEW s \in SessionIds, job[s].op # "reminders",
         NEW w, NEW p, NEW j, Aside(s, w, p, j)
  PROVE  RemindInv'
<1>1. tx \in [SessionIds -> Writes] /\ pc \in [SessionIds -> Phases] /\ job \in [SessionIds -> Jobs]
  BY DEF IInv, DataInv, ControlInv
<1>2. pc' = [pc EXCEPT ![s] = p] /\ job' = [job EXCEPT ![s] = j] /\ tx' = [tx EXCEPT ![s] = w]
  BY DEF Aside, Goto
<1>3. /\ \A o \in SessionIds \ {s} : pc'[o] = pc[o] /\ job'[o] = job[o] /\ tx'[o] = tx[o]
      /\ pc'[s] = p /\ job'[s] = j /\ tx'[s] = w
  BY <1>1, <1>2
<1>4. tx[s].reminded = {}
  BY DEF RemindInv, RemindReady
<1>5. Remembered'
  BY <1>3, <1>4 DEF RemindInv, Remembered, Aside
<1>6. ASSUME NEW o \in SessionIds PROVE RemindReady(pc'[o], job'[o], tx'[o], db')
  BY <1>3 DEF RemindInv, RemindReady, Aside
<1>7. \A r, o \in SessionIds : job'[r].op = "reminders" /\ job'[o].op = "reminders" => r = o
  BY <1>3 DEF RemindInv, Aside
<1> QED BY <1>5, <1>6, <1>7 DEF RemindInv

\* Its kinds: it goes on, writes more, commits, or gives up.
LEMMA AsideGoto ==
  ASSUME IInv, RemindInv, NEW s \in SessionIds, job[s].op # "reminders",
         UNCHANGED <<db, tx, reminders, crashes>>,
         NEW p, p # "remind", NEW j, j.op # "reminders", Goto(s, p, j)
  PROVE  RemindInv'
<1>1. tx' = [tx EXCEPT ![s] = tx[s]] /\ tx[s].reminded = {}
  BY DEF IInv, DataInv, RemindInv, RemindReady
<1>2. Aside(s, tx[s], p, j)
  BY <1>1 DEF Aside
<1> QED BY <1>2, AsideKeeps

LEMMA AsideStage ==
  ASSUME IInv, RemindInv, NEW s \in SessionIds, job[s].op # "reminders",
         UNCHANGED <<db, reminders, crashes>>,
         NEW w, w.reminded = {}, tx' = [tx EXCEPT ![s] = w],
         NEW p, p # "remind", NEW j, j.op # "reminders", Goto(s, p, j)
  PROVE  RemindInv'
<1>1. Aside(s, w, p, j)
  BY DEF Aside
<1> QED BY <1>1, AsideKeeps

LEMMA AsideCommit ==
  ASSUME IInv, RemindInv, NEW s \in SessionIds, job[s].op # "reminders",
         UNCHANGED <<reminders, crashes>>,
         NEW w, w.reminded = {}, Commit(s, w),
         NEW p, p # "remind", NEW j, j.op # "reminders", Goto(s, p, j)
  PROVE  RemindInv'
<1>1. tx' = [tx EXCEPT ![s] = NoWrites] /\ db' = Overlay(db, w) /\ NoWrites.reminded = {}
  BY DEF Commit, NoWrites
<1>2. db'.reminded = db.reminded
  BY <1>1 DEF Overlay
<1>3. Aside(s, NoWrites, p, j)
  BY <1>1, <1>2 DEF Aside
<1> QED BY <1>3, AsideKeeps

LEMMA AsideAbandon ==
  ASSUME IInv, RemindInv, NEW s \in SessionIds, job[s].op # "reminders",
         UNCHANGED <<reminders, crashes>>, Abandon(s)
  PROVE  RemindInv'
<1>1. NoWrites.reminded = {} /\ NoJob.op # "reminders"
  BY DEF NoWrites, NoJob, None
<1> QED BY <1>1, AsideStage DEF Abandon, Done

\* Only the pass itself is in its phases.
LEMMA NotThePass ==
  ASSUME IInv, RemindInv, NEW s \in SessionIds, pc[s] \notin {"remind", "finish"}
  PROVE  job[s].op # "reminders" /\ tx[s].reminded = {} /\ job[s] \in Jobs /\ tx[s] \in Writes
  BY DEF RemindInv, RemindReady, IInv, DataInv, ControlInv

LEMMA NotifyReminds ==
  ASSUME IInv, RemindInv, NEW s \in SessionIds, ProbeNotice(s) \/ SendNotice(s) \/ NoticeConflict(s)
  PROVE  RemindInv'
<1>1. pc[s] \in {"notify", "send"}
  BY DEF ProbeNotice, SendNotice, NoticeConflict
<1>2. job[s].op # "reminders" /\ tx[s].reminded = {} /\ job[s] \in Jobs /\ tx[s] \in Writes
  BY <1>1, NotThePass
<1>3. ASSUME NextNotice(s)
      PROVE  \E p, j : Goto(s, p, j) /\ p # "remind" /\ j.op # "reminders"
  <2> DEFINE rest == Tail(job[s].todo)
             p == IF rest = <<>> THEN job[s].after ELSE "notify"
             j == [job[s] EXCEPT !.todo = rest]
  <2>1. Goto(s, p, j)
    BY <1>3 DEF NextNotice
  <2>2. job[s].after # "remind"
    BY <1>1 DEF IInv, ControlInv, JobReady, NoticesReady
  <2>3. j.op = job[s].op
    BY <1>2 DEF Jobs
  <2> QED BY <1>2, <2>1, <2>2, <2>3
<1>4. CASE ProbeNotice(s)
  <2>1. NextNotice(s) \/ Goto(s, "send", job[s])
    BY <1>4 DEF ProbeNotice
  <2>2. UNCHANGED <<db, tx, reminders, crashes>>
    BY <1>4 DEF ProbeNotice, outside
  <2> QED BY <1>2, <1>3, <2>1, <2>2, AsideGoto
<1>5. CASE SendNotice(s)
  <2>1. NextNotice(s) /\ UNCHANGED <<reminders, crashes>>
    BY <1>5 DEF SendNotice
  <2>2. PICK k, outcome : Stage(s, [tx[s] EXCEPT !.notices[k] = outcome])
    BY <1>5 DEF SendNotice
  <2>3. [tx[s] EXCEPT !.notices[k] = outcome].reminded = {}
    BY <1>2 DEF Writes
  <2> QED BY <1>2, <1>3, <2>1, <2>2, <2>3, AsideStage DEF Stage
<1>6. CASE NoticeConflict(s)
  BY <1>2, <1>6, AsideAbandon DEF NoticeConflict, outside
<1> QED BY <1>4, <1>5, <1>6

\* The commit at the end: what the pass remembers is in the table now.
LEMMA FinishReminds ==
  ASSUME IInv, RemindInv, NEW s \in SessionIds, Finish(s)
  PROVE  RemindInv'
<1>1. Commit(s, tx[s]) /\ Goto(s, "idle", NoJob) /\ UNCHANGED <<reminders, crashes>>
  BY DEF Finish, Done, outside
<1>2. NoJob.op # "reminders"
  BY DEF NoJob, None
<1>3. CASE job[s].op # "reminders"
  BY <1>1, <1>2, <1>3, AsideCommit DEF RemindInv, RemindReady
<1>4. CASE job[s].op = "reminders"
  <2>1. tx \in [SessionIds -> Writes] /\ pc \in [SessionIds -> Phases] /\ job \in [SessionIds -> Jobs]
    BY DEF IInv, DataInv, ControlInv
  <2>2. /\ pc' = [pc EXCEPT ![s] = "idle"] /\ job' = [job EXCEPT ![s] = NoJob]
        /\ tx' = [tx EXCEPT ![s] = NoWrites] /\ NoWrites.reminded = {}
    BY <1>1 DEF Goto, Commit, NoWrites
  <2>3. db'.reminded = db.reminded \cup tx[s].reminded
    BY <1>1 DEF Commit, Overlay
  <2>4. /\ \A o \in SessionIds \ {s} : pc'[o] = pc[o] /\ job'[o] = job[o] /\ tx'[o] = tx[o]
        /\ pc'[s] = "idle" /\ job'[s] = NoJob /\ tx'[s] = NoWrites
    BY <2>1, <2>2
  <2>5. \A o \in SessionIds \ {s} : job[o].op # "reminders"
    BY <1>4 DEF RemindInv
  <2>6. Remembered'
    BY <1>1, <2>2, <2>3, <2>4 DEF RemindInv, Remembered
  <2>7. ASSUME NEW o \in SessionIds PROVE RemindReady(pc'[o], job'[o], tx'[o], db')
    BY <1>2, <2>2, <2>4, <2>5 DEF RemindInv, RemindReady
  <2>8. \A r, o \in SessionIds : job'[r].op = "reminders" /\ job'[o].op = "reminders" => r = o
    BY <1>2, <2>4 DEF RemindInv
  <2> QED BY <2>6, <2>7, <2>8 DEF RemindInv
<1> QED BY <1>3, <1>4

LEMMA MatchReminds ==
  ASSUME IInv, RemindInv, NEW s \in SessionIds, MatchStep(s)
  PROVE  RemindInv'
<1>1. pc[s] \in {"probe_match", "insert_match", "mark_matched", "process_match"}
  BY DEF MatchStep, ProbeMatch, InsertMatch, MarkMatched, MatchConflict, AutoConnect, MediateMatch
<1>2. job[s].op # "reminders" /\ tx[s].reminded = {} /\ job[s] \in Jobs /\ tx[s] \in Writes
  BY <1>1, NotThePass
<1>3. NoJob.op # "reminders"
  BY DEF NoJob, None
<1>4. \A j \in Jobs : \A todo, after :
        j.op = job[s].op /\ StartNotices(s, j, todo, after) =>
          \E i : Goto(s, "notify", i) /\ i.op # "reminders"
  <2> SUFFICES ASSUME NEW j \in Jobs, NEW todo, NEW after, j.op = job[s].op,
                      StartNotices(s, j, todo, after)
               PROVE  \E i : Goto(s, "notify", i) /\ i.op # "reminders"
    OBVIOUS
  <2> DEFINE i == [j EXCEPT !.todo = todo, !.after = after]
  <2>1. i.op = j.op
    BY DEF Jobs
  <2> QED BY <1>2, <2>1 DEF StartNotices
<1>5. CASE ProbeMatch(s)
  <2>1. \E p, j : Goto(s, p, j) /\ p # "remind" /\ j.op # "reminders"
    BY <1>2, <1>3, <1>5 DEF ProbeMatch, AfterExistingMatch, Done
  <2> QED BY <1>2, <1>5, <2>1, AsideGoto DEF ProbeMatch, outside
<1>10. CASE InsertMatch(s)
  <2>1. KeyWrites(s).reminded = {}
    BY <1>2 DEF KeyWrites, Writes
  <2>2. tx' = [tx EXCEPT ![s] = KeyWrites(s)] /\ UNCHANGED <<db, reminders, crashes>>
    BY <1>10 DEF InsertMatch, Stage, outside
  <2> QED BY <1>2, <1>10, <2>1, <2>2, AsideStage DEF InsertMatch
<1>6. CASE MarkMatched(s)
  <2> DEFINE l == job[s].load
             j == [job[s] EXCEPT !.memo[l] = MatchedStatus(@)]
  <2>1. j.op = job[s].op
    BY <1>2 DEF Jobs
  <2>2. j.memo = [job[s].memo EXCEPT ![l] = MatchedStatus(@)] /\ j = [job[s] EXCEPT !.memo = j.memo]
    BY <1>2 DEF Jobs
  <2>3. j \in Jobs
    <3>1. j.memo \in [Loads -> LoadStatus \cup {Absent, NoWrite}]
      BY <1>2, <2>2 DEF Jobs, MatchedStatus, LoadStatus
    <3> QED BY <1>2, <2>2, <3>1 DEF Jobs
  <2>4. \E p, i : Goto(s, p, i) /\ p # "remind" /\ i.op # "reminders"
    <3>1. \/ Goto(s, "process_match", j) \/ Goto(s, "record_interest", j)
          \/ \E todo, after : StartNotices(s, j, todo, after)
      BY <1>6 DEF MarkMatched
    <3> HIDE DEF j
    <3> QED BY <1>2, <1>4, <2>1, <2>3, <3>1
  <2>5. MatchWrites(s).reminded = {}
    BY <1>2 DEF MatchWrites, Writes
  <2>6. UNCHANGED <<reminders, crashes>> /\ SaveMatch(s)
    BY <1>6 DEF MarkMatched, outside
  <2>7. CASE Commit(s, MatchWrites(s))
    BY <1>2, <2>4, <2>5, <2>6, <2>7, AsideCommit
  <2>8. CASE Stage(s, MatchWrites(s))
    BY <1>2, <2>4, <2>5, <2>6, <2>8, AsideStage DEF Stage
  <2> QED BY <2>6, <2>7, <2>8 DEF SaveMatch
<1>7. CASE MatchConflict(s)
  BY <1>2, <1>7, AsideAbandon DEF MatchConflict, outside
<1>8. CASE AutoConnect(s)
  <2> DEFINE m == JobMatch(s)
             l == job[s].load
             w == [tx[s] EXCEPT !.matches[m] = "CONNECTED",
                                !.loads[l] = Assign(job[s].memo[l], "CONNECTED")]
             j == [job[s] EXCEPT !.memo[l] = "CONNECTED"]
  <2>1. /\ Stage(s, w) /\ UNCHANGED <<reminders, crashes>>
        /\ \E todo, after : StartNotices(s, j, todo, after)
    BY <1>8 DEF AutoConnect, outside
  <2>2. w.reminded = {} /\ j.op = job[s].op
    BY <1>2 DEF Writes, Jobs
  <2>3. j \in Jobs
    <3>1. j.memo \in [Loads -> LoadStatus \cup {Absent, NoWrite}]
      BY <1>2 DEF Jobs, LoadStatus
    <3> QED BY <1>2, <3>1 DEF Jobs
  <2> HIDE DEF w, j
  <2>4. \E i : Goto(s, "notify", i) /\ i.op # "reminders"
    BY <1>4, <2>1, <2>2, <2>3
  <2> QED BY <1>2, <2>1, <2>2, <2>4, AsideStage DEF Stage
<1>9. CASE MediateMatch(s)
  <2>1. \E i : Goto(s, "notify", i) /\ i.op # "reminders"
    BY <1>2, <1>4, <1>9 DEF MediateMatch
  <2> QED BY <1>2, <1>9, <2>1, AsideGoto DEF MediateMatch, outside
<1> QED BY <1>5, <1>6, <1>7, <1>8, <1>9, <1>10 DEF MatchStep

LEMMA RequestReminds ==
  ASSUME IInv, RemindInv, NEW s \in SessionIds, RequestStep(s)
  PROVE  RemindInv'
<1>1. pc[s] \in {"search", "no_match", "audience", "broadcast", "record_interest"}
  BY DEF RequestStep, SearchTruck, SetWaiting, SelectAudience, BroadcastNext, SearchLoad, RecordInterest
<1>2. job[s].op # "reminders" /\ tx[s].reminded = {} /\ job[s] \in Jobs /\ tx[s] \in Writes
  BY <1>1, NotThePass
<1>3. NoJob.op # "reminders" /\ NoWrites.reminded = {}
  BY DEF NoJob, None, NoWrites
<1>4. \A l : Remember(s, l) = [job[s] EXCEPT !.memo = Remember(s, l).memo]
  BY <1>2 DEF Remember, Jobs
<1>5. CASE SearchTruck(s)
  <2> DEFINE r == Remember(s, job[s].load)
  <2>1. (\E t : Goto(s, "probe_match", [r EXCEPT !.truck = t])) \/ Goto(s, "no_match", r)
    BY <1>5 DEF SearchTruck
  <2>2. r.op = job[s].op /\ \A t : [r EXCEPT !.truck = t].op = job[s].op
    BY <1>2, <1>4 DEF Jobs
  <2> HIDE DEF r
  <2> QED BY <1>2, <1>5, <2>1, <2>2, AsideGoto DEF SearchTruck, outside
<1>6. CASE SearchLoad(s)
  <2>1. (\E l : Goto(s, "probe_match", [Remember(s, l) EXCEPT !.load = l])) \/ Goto(s, "idle", NoJob)
    BY <1>6 DEF SearchLoad, Done
  <2>2. \A l : [Remember(s, l) EXCEPT !.load = l].op = job[s].op
    BY <1>2, <1>4 DEF Jobs
  <2> QED BY <1>2, <1>3, <1>6, <2>1, <2>2, AsideGoto DEF SearchLoad, outside
<1>7. CASE SetWaiting(s)
  <2> DEFINE l == job[s].load
             w == [NoWrites EXCEPT !.loads[l] = Assign(job[s].memo[l], "WAITING_FOR_MATCH")]
             todo == NoticesFor(<<ShipperOf[l]>>, l, "BROADCAST")
             j == [[job[s] EXCEPT !.memo[l] = "WAITING_FOR_MATCH"]
                     EXCEPT !.todo = todo, !.after = "audience"]
  <2>1. Commit(s, w) /\ Goto(s, "notify", j) /\ UNCHANGED <<reminders, crashes>>
    BY <1>7 DEF SetWaiting, StartNotices, outside
  <2>2. w.reminded = {} /\ j.op = job[s].op
    BY <1>2 DEF Jobs, NoWrites
  <2> HIDE DEF w, j
  <2> QED BY <1>2, <2>1, <2>2, AsideCommit
<1>8. CASE SelectAudience(s)
  <2>1. \E a : Goto(s, "broadcast", [job[s] EXCEPT !.audience = a])
    BY <1>8 DEF SelectAudience
  <2>2. \A a : [job[s] EXCEPT !.audience = a].op = job[s].op
    BY <1>2 DEF Jobs
  <2> QED BY <1>2, <1>8, <2>1, <2>2, AsideCommit DEF SelectAudience, outside
<1>9. CASE BroadcastNext(s)
  <2>1. \/ \E a, todo : Goto(s, "notify", [[job[s] EXCEPT !.audience = a]
                                             EXCEPT !.todo = todo, !.after = "broadcast"])
        \/ Goto(s, "finish", job[s])
    BY <1>9 DEF BroadcastNext, StartNotices
  <2>2. \A a, todo : [[job[s] EXCEPT !.audience = a]
                        EXCEPT !.todo = todo, !.after = "broadcast"].op = job[s].op
    BY <1>2 DEF Jobs
  <2> QED BY <1>2, <1>9, <2>1, <2>2, AsideGoto DEF BroadcastNext, outside
<1>10. CASE RecordInterest(s)
  <2>1. \E k, st : Commit(s, [tx[s] EXCEPT !.notices[k] = st])
    BY <1>10 DEF RecordInterest
  <2>2. \E todo : Goto(s, "notify", [job[s] EXCEPT !.todo = todo, !.after = "finish"])
    BY <1>10 DEF RecordInterest, StartNotices
  <2>3. \A k, st : [tx[s] EXCEPT !.notices[k] = st].reminded = {}
    BY <1>2 DEF Writes
  <2>4. \A todo : [job[s] EXCEPT !.todo = todo, !.after = "finish"].op = job[s].op
    BY <1>2 DEF Jobs
  <2> QED BY <1>2, <1>10, <2>1, <2>2, <2>3, <2>4, AsideCommit DEF RecordInterest, outside
<1> QED BY <1>5, <1>6, <1>7, <1>8, <1>9, <1>10 DEF RequestStep

LEMMA AdminReminds ==
  ASSUME IInv, RemindInv, NEW s \in SessionIds, AdminStep(s)
  PROVE  RemindInv'
<1>1. pc[s] \in {"fetch_load", "act"}
  BY DEF AdminStep, Acting, AdminFetchNext, AdminContact, AdminConnect, ConnectConflict,
         AdminReject, AdminCancelLoad, AdminResend
<1>2. job[s].op # "reminders" /\ tx[s].reminded = {} /\ job[s] \in Jobs /\ tx[s] \in Writes
  BY <1>1, NotThePass
<1>3. NoJob.op # "reminders" /\ NoWrites.reminded = {}
  BY DEF NoJob, None, NoWrites
<1>4. \A ms, ls : StatusWrites(s, ms, ls).reminded = {}
  BY DEF StatusWrites, NoWrites
<1>5. ASSUME NEW w, w.reminded = {}, Commit(s, w), Done(s), UNCHANGED <<reminders, crashes>>
      PROVE  RemindInv'
  BY <1>2, <1>3, <1>5, AsideCommit DEF Done
<1>6. CASE AdminContact(s)
  BY <1>4, <1>5, <1>6 DEF AdminContact, outside
<1>7. CASE AdminConnect(s)
  <2>1. ConnectWrites(s).reminded = {}
    BY DEF ConnectWrites, StatusWrites, NoWrites
  <2> QED BY <1>5, <1>7, <2>1 DEF AdminConnect, outside
<1>8. CASE ConnectConflict(s)
  BY <1>2, <1>8, AsideAbandon DEF ConnectConflict, outside
<1>9. CASE AdminReject(s)
  <2>1. \E ms, ls : Commit(s, StatusWrites(s, ms, ls))
    BY <1>9 DEF AdminReject
  <2> QED BY <1>4, <1>5, <1>9, <2>1 DEF AdminReject, outside
<1>10. CASE AdminCancelLoad(s)
  <2>1. \E l, st : Commit(s, [NoWrites EXCEPT !.loads[l] = st])
    BY <1>10 DEF AdminCancelLoad
  <2>2. \A l, st : [NoWrites EXCEPT !.loads[l] = st].reminded = {}
    BY DEF NoWrites
  <2> QED BY <1>5, <1>10, <2>1, <2>2 DEF AdminCancelLoad, outside
<1>11. CASE AdminResend(s)
  <2>1. \E todo : Goto(s, "notify", [job[s] EXCEPT !.todo = todo, !.after = "finish"])
    BY <1>11 DEF AdminResend, StartNotices
  <2>2. \A todo : [job[s] EXCEPT !.todo = todo, !.after = "finish"].op = job[s].op
    BY <1>2 DEF Jobs
  <2> QED BY <1>2, <1>11, <2>1, <2>2, AsideGoto DEF AdminResend, outside
<1>12. CASE AdminFetchNext(s)
  <2>1. Remember(s, job[s].load).op = job[s].op
    BY <1>2 DEF Remember, Jobs
  <2> QED BY <1>2, <1>12, <2>1, AsideGoto DEF AdminFetchNext, outside
<1> QED BY <1>6, <1>7, <1>8, <1>9, <1>10, <1>11, <1>12 DEF AdminStep

\* The pass sends a reminder that nobody has sent, and remembers it.
LEMMA RemindNextReminds ==
  ASSUME IInv, RemindInv, NEW s \in SessionIds, RemindNext(s)
  PROVE  RemindInv'
<1>1. tx \in [SessionIds -> Writes] /\ pc \in [SessionIds -> Phases] /\ job \in [SessionIds -> Jobs]
  BY DEF IInv, DataInv, ControlInv
<1>2. job[s].op = "reminders" /\ \A o \in SessionIds \ {s} : job[o].op # "reminders"
  BY DEF RemindInv, RemindReady, RemindNext
<1>3. PICK k \in job[s].due : \E mm : LET j == [job[s] EXCEPT !.due = @ \ {k}, !.memo = mm] IN
        /\ Goto(s, IF j.due = {} THEN "finish" ELSE "remind", j)
        /\ \/ /\ reminders' = [reminders EXCEPT ![k] = Counted(@)]
              /\ Stage(s, [tx[s] EXCEPT !.reminded = @ \cup {k}])
           \/ UNCHANGED <<db, tx, reminders>>
  BY DEF RemindNext
<1>4. PICK mm : LET j == [job[s] EXCEPT !.due = @ \ {k}, !.memo = mm] IN
        /\ Goto(s, IF j.due = {} THEN "finish" ELSE "remind", j)
        /\ \/ /\ reminders' = [reminders EXCEPT ![k] = Counted(@)]
              /\ Stage(s, [tx[s] EXCEPT !.reminded = @ \cup {k}])
           \/ UNCHANGED <<db, tx, reminders>>
  BY <1>3
<1> DEFINE j == [job[s] EXCEPT !.due = @ \ {k}, !.memo = mm]
           p == IF j.due = {} THEN "finish" ELSE "remind"
           w == [tx[s] EXCEPT !.reminded = @ \cup {k}]
<1>5. j.op = "reminders" /\ j.due = job[s].due \ {k}
  BY <1>1, <1>2 DEF Jobs
<1>6. w.reminded = tx[s].reminded \cup {k}
  BY <1>1 DEF Writes
<1>7. k \in Notices /\ k \notin db.reminded /\ k \notin tx[s].reminded
  BY <1>1, <1>2 DEF RemindInv, RemindReady, Jobs
<1>8. pc' = [pc EXCEPT ![s] = p] /\ job' = [job EXCEPT ![s] = j] /\ p \in {"finish", "remind"}
  BY <1>4 DEF Goto
<1>9. UNCHANGED <<db, crashes>> /\ crashes \in Nat
  BY <1>4 DEF Stage, RemindNext, IInv, OutsideInv
<1>10. \/ tx' = [tx EXCEPT ![s] = w] /\ reminders' = [reminders EXCEPT ![k] = Counted(@)]
      \/ UNCHANGED <<tx, reminders>>
  BY <1>4 DEF Stage
<1> HIDE DEF j, p, w
<1>11. /\ \A o \in SessionIds \ {s} : pc'[o] = pc[o] /\ job'[o] = job[o] /\ tx'[o] = tx[o]
       /\ pc'[s] = p /\ job'[s] = j /\ tx'[s] \in {tx[s], w}
  BY <1>1, <1>8, <1>10
<1>12. reminders \in [Notices -> Nat] /\ reminders[k] <= crashes
  BY <1>2, <1>7, <1>9 DEF RemindInv, Remembered, RemindReady, IInv, OutsideInv
<1>13. Remembered'
  <2>1. CASE UNCHANGED <<tx, reminders>>
    BY <1>9, <2>1 DEF RemindInv, Remembered
  <2>2. CASE tx' = [tx EXCEPT ![s] = w] /\ reminders' = [reminders EXCEPT ![k] = Counted(@)]
    <3>1. reminders'[k] <= 1 + crashes /\ \A n \in Notices \ {k} : reminders'[n] = reminders[n]
      BY <1>7, <1>9, <1>12, <2>2, BoundAssumption DEF Counted
    <3>2. \A n \in Notices, o \in SessionIds : n \in tx[o].reminded => n \in tx'[o].reminded
      BY <1>1, <1>6, <2>2
    <3>3. k \in tx'[s].reminded
      BY <1>1, <1>6, <2>2
    <3>4. \A n \in Notices : reminders'[n] <= 1 + crashes
      BY <3>1 DEF RemindInv, Remembered
    <3> QED BY <1>9, <3>1, <3>2, <3>3, <3>4 DEF RemindInv, Remembered
  <2> QED BY <1>10, <2>1, <2>2
<1>14. ASSUME NEW o \in SessionIds PROVE RemindReady(pc'[o], job'[o], tx'[o], db')
  <2>1. CASE o = s
    <3>1. j.due \cap (db'.reminded \cup tx'[s].reminded) = {}
      BY <1>2, <1>5, <1>6, <1>9, <1>11 DEF RemindInv, RemindReady
    <3> QED BY <1>5, <1>8, <1>11, <2>1, <3>1 DEF RemindReady
  <2>2. CASE o # s
    BY <1>9, <1>11, <2>2 DEF RemindInv
  <2> QED BY <2>1, <2>2
<1>15. \A r, o \in SessionIds : job'[r].op = "reminders" /\ job'[o].op = "reminders" => r = o
  BY <1>2, <1>11
<1> QED BY <1>13, <1>14, <1>15 DEF RemindInv

LEMMA WorkerReminds ==
  ASSUME IInv, RemindInv, NEW s \in SessionIds, WorkerStep(s)
  PROVE  RemindInv'
<1>1. CASE ScanTruck(s) \/ ScanLoad(s)
  <2>1. job[s].op # "reminders" /\ job[s] \in Jobs
    BY <1>1, NotThePass DEF ScanTruck, ScanLoad
  <2>2. UNCHANGED <<db, tx, reminders, crashes>>
    BY <1>1 DEF ScanTruck, ScanLoad, outside
  <2>3. CASE ScanTruck(s)
    <3>1. \/ \E t, c, mm : Goto(s, "scan", [job[s] EXCEPT !.truck = t, !.scan = @ \ {t},
                                                         !.cand = c, !.memo = mm])
          \/ Goto(s, "finish", job[s])
      BY <2>3 DEF ScanTruck
    <3>2. \A t, c, mm : [job[s] EXCEPT !.truck = t, !.scan = @ \ {t},
                                       !.cand = c, !.memo = mm].op = job[s].op
      BY <2>1 DEF Jobs
    <3> QED BY <2>1, <2>2, <3>1, <3>2, AsideGoto
  <2>4. CASE ScanLoad(s)
    <3>1. \E l : Goto(s, "probe_match", [job[s] EXCEPT !.load = l, !.cand = @ \ {l}])
      BY <2>4 DEF ScanLoad
    <3>2. \A l : [job[s] EXCEPT !.load = l, !.cand = @ \ {l}].op = job[s].op
      BY <2>1 DEF Jobs
    <3> QED BY <2>1, <2>2, <3>1, <3>2, AsideGoto
  <2> QED BY <1>1, <2>3, <2>4
<1> QED BY <1>1, RemindNextReminds DEF WorkerStep

\* A pass starts with the rows that nobody is reminded of, and alone.
LEMMA StartRemindersReminds ==
  ASSUME IInv, RemindInv, NEW s \in SessionIds, NEW old \in SUBSET Remindable, StartReminders(s, old)
  PROVE  RemindInv'
<1> DEFINE j == [NoJob EXCEPT !.op = "reminders", !.due = old]
<1>1. tx \in [SessionIds -> Writes] /\ pc \in [SessionIds -> Phases] /\ job \in [SessionIds -> Jobs]
  BY DEF IInv, DataInv, ControlInv
<1>2. pc' = [pc EXCEPT ![s] = "remind"] /\ job' = [job EXCEPT ![s] = j]
      /\ UNCHANGED <<db, tx, reminders, crashes>> /\ \A o \in SessionIds : job[o].op # "reminders"
  BY DEF StartReminders, Goto, LockFree, outside
<1>3. j.op = "reminders" /\ j.due = old
  BY DEF NoJob
<1> HIDE DEF j
<1>4. /\ \A o \in SessionIds \ {s} : pc'[o] = pc[o] /\ job'[o] = job[o]
      /\ pc'[s] = "remind" /\ job'[s] = j
  BY <1>1, <1>2
<1>5. tx[s].reminded = {} /\ old \cap db.reminded = {}
  BY <1>2 DEF RemindInv, RemindReady, Remindable
<1>6. ASSUME NEW o \in SessionIds PROVE RemindReady(pc'[o], job'[o], tx'[o], db')
  BY <1>2, <1>3, <1>4, <1>5 DEF RemindInv, RemindReady
<1>7. \A r, o \in SessionIds : job'[r].op = "reminders" /\ job'[o].op = "reminders" => r = o
  BY <1>2, <1>4
<1> QED BY <1>2, <1>6, <1>7 DEF RemindInv, Remembered

LEMMA StartReminds ==
  ASSUME IInv, RemindInv, NEW s \in SessionIds, Start(s)
  PROVE  RemindInv'
<1>1. pc[s] = "idle"
  BY DEF Start, CreateLoad, CreateTruck, PressInterest, AdminFetch, AdminFetchLoad, StartProactive,
         StartReminders
<1>2. job[s].op # "reminders"
  BY <1>1, NotThePass
<1>3. NoJob.op # "reminders" /\ NoWrites.reminded = {}
  BY DEF NoJob, None, NoWrites
<1>4. CASE \E l \in Loads : CreateLoad(s, l)
  <2>1. PICK l \in Loads : CreateLoad(s, l)
    BY <1>4
  <2>2. [NoWrites EXCEPT !.loads[l] = "NEW"].reminded = {}
        /\ [NoJob EXCEPT !.op = "create_load", !.load = l].op # "reminders"
    BY DEF NoWrites, NoJob
  <2> QED BY <1>2, <2>1, <2>2, AsideCommit DEF CreateLoad, outside
<1>5. CASE \E t \in Trucks : CreateTruck(s, t)
  <2>1. PICK t \in Trucks : CreateTruck(s, t)
    BY <1>5
  <2>2. [NoWrites EXCEPT !.trucks = {t}].reminded = {}
        /\ [NoJob EXCEPT !.op = "create_truck", !.truck = t].op # "reminders"
    BY DEF NoWrites, NoJob
  <2> QED BY <1>2, <1>3, <2>1, <2>2, AsideCommit DEF CreateTruck, Done, outside
<1>6. CASE \E l \in Loads, t \in Trucks : PressInterest(s, l, t)
  <2>1. PICK l \in Loads, t \in Trucks : PressInterest(s, l, t)
    BY <1>6
  <2>2. /\ tx' = [tx EXCEPT ![s] = [NoWrites EXCEPT !.interests = {<<l, t>>}]]
        /\ UNCHANGED <<db, reminders, crashes>>
        /\ Goto(s, "probe_match", [NoJob EXCEPT !.op = "register_interest", !.load = l, !.truck = t,
                                                !.memo[l] = db.loads[l]])
    BY <2>1 DEF PressInterest, SaveInterest, Stage, outside
  <2>3. [NoWrites EXCEPT !.interests = {<<l, t>>}].reminded = {}
        /\ [NoJob EXCEPT !.op = "register_interest", !.load = l, !.truck = t,
                         !.memo[l] = db.loads[l]].op # "reminders"
    BY DEF NoWrites, NoJob
  <2> QED BY <1>2, <2>2, <2>3, AsideStage
<1>7. CASE \E act \in Workload, m \in Matches : AdminFetch(s, act, m)
  <2>1. PICK act \in Workload, m \in Matches : AdminFetch(s, act, m)
    BY <1>7
  <2> DEFINE j == [NoJob EXCEPT !.op = act, !.load = m[1], !.truck = m[2],
                                !.match = db.matches[m]]
  <2>2. Goto(s, "fetch_load", j) /\ act \in MatchActions /\ UNCHANGED <<db, tx, reminders, crashes>>
    BY <2>1 DEF AdminFetch, outside
  <2>3. j.op # "reminders"
    BY <2>2 DEF NoJob, MatchActions
  <2> HIDE DEF j
  <2> QED BY <1>2, <2>2, <2>3, AsideGoto
<1>8. CASE \E l \in Loads : AdminFetchLoad(s, l)
  <2>1. PICK l \in Loads : AdminFetchLoad(s, l)
    BY <1>8
  <2>2. [NoJob EXCEPT !.op = "cancel_load", !.load = l, !.memo[l] = db.loads[l]].op # "reminders"
    BY DEF NoJob
  <2> QED BY <1>2, <2>1, <2>2, AsideGoto DEF AdminFetchLoad, outside
<1>9. CASE \E near \in SUBSET Trucks : StartProactive(s, near)
  <2>1. PICK near \in SUBSET Trucks : StartProactive(s, near)
    BY <1>9
  <2>2. [NoJob EXCEPT !.op = "proactive", !.scan = near].op # "reminders"
    BY DEF NoJob
  <2> QED BY <1>2, <2>1, <2>2, AsideGoto DEF StartProactive, outside
<1>10. CASE \E old \in SUBSET Remindable : StartReminders(s, old)
  BY <1>10, StartRemindersReminds
<1> QED BY <1>4, <1>5, <1>6, <1>7, <1>8, <1>9, <1>10 DEF Start

\* A session dies: what it alone remembered may be sent once more.
LEMMA CrashReminds ==
  ASSUME IInv, RemindInv, NEW s \in SessionIds, Crash(s)
  PROVE  RemindInv'
<1>1. tx \in [SessionIds -> Writes] /\ pc \in [SessionIds -> Phases] /\ job \in [SessionIds -> Jobs]
  BY DEF IInv, DataInv, ControlInv
<1>2. /\ pc' = [pc EXCEPT ![s] = "idle"] /\ job' = [job EXCEPT ![s] = NoJob]
      /\ tx' = [tx EXCEPT ![s] = NoWrites] /\ UNCHANGED <<db, reminders>>
      /\ crashes' = crashes + 1
  BY DEF Crash, Abandon, Done, Goto, outside
<1>3. /\ \A o \in SessionIds \ {s} : pc'[o] = pc[o] /\ job'[o] = job[o] /\ tx'[o] = tx[o]
      /\ pc'[s] = "idle" /\ job'[s] = NoJob /\ tx'[s] = NoWrites
  BY <1>1, <1>2
<1>4. NoJob.op # "reminders" /\ NoWrites.reminded = {}
  BY DEF NoJob, None, NoWrites
<1>5. Remembered'
  <2>1. crashes \in Nat /\ reminders \in [Notices -> Nat]
    BY DEF IInv, OutsideInv
  <2>2. \A k \in Notices : reminders'[k] <= crashes'
    BY <1>2, <2>1 DEF RemindInv, Remembered
  <2> QED BY <1>2, <2>1, <2>2 DEF Remembered
<1>6. ASSUME NEW o \in SessionIds PROVE RemindReady(pc'[o], job'[o], tx'[o], db')
  BY <1>2, <1>3, <1>4 DEF RemindInv, RemindReady
<1>7. \A r, o \in SessionIds : job'[r].op = "reminders" /\ job'[o].op = "reminders" => r = o
  BY <1>3, <1>4 DEF RemindInv
<1> QED BY <1>5, <1>6, <1>7 DEF RemindInv

\* No broadcast is reminded of twice, except once more per session that died:
\* the lock and the flag see to it, whatever requests run beside the pass.
THEOREM RemindersOnce == Spec => []RemindedOnce
<1>1. Init => RemindInv
  <2> SUFFICES ASSUME Init PROVE RemindInv
    OBVIOUS
  <2>1. NoJob.op # "reminders" /\ NoWrites.reminded = {}
    BY DEF NoJob, None, NoWrites
  <2>2. Remembered
    BY DEF Init, SessionsInit, Remembered
  <2> QED BY <2>1, <2>2 DEF Init, SessionsInit, RemindInv, RemindReady
<1>2. IInv /\ RemindInv /\ [Next]_vars => RemindInv'
  <2> SUFFICES ASSUME IInv, RemindInv, [Next]_vars PROVE RemindInv'
    OBVIOUS
  <2>1. CASE UNCHANGED vars
    BY <2>1 DEF vars, outside, RemindInv, Remembered
  <2>2. ASSUME NEW s \in SessionIds, Start(s) PROVE RemindInv'
    BY <2>2, StartReminds
  <2>3. ASSUME NEW s \in SessionIds, Step(s) PROVE RemindInv'
    BY <2>3, NotifyReminds, FinishReminds, MatchReminds, RequestReminds, AdminReminds, WorkerReminds
       DEF Step, NotifyStep
  <2>4. ASSUME NEW s \in SessionIds, Crash(s) PROVE RemindInv'
    BY <2>4, CrashReminds
  <2> QED BY <2>1, <2>2, <2>3, <2>4 DEF Next
<1>3. RemindInv => RemindedOnce
  BY DEF RemindInv, Remembered, RemindedOnce
<1> QED BY <1>1, <1>2, <1>3, InvAlways, PTL DEF Spec
=============================================================================
