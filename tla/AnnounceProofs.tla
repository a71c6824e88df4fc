---------------------------- MODULE AnnounceProofs ---------------------------
(***************************************************************************)
(* Every stored match is announced to its shipper and to an admin, or some *)
(* session is about to, except for one per session that died.              *)
(*                                                                         *)
(* Who makes a match or finds it carries it: through the list of its       *)
(* notices to the commit of their rows.  A conflict on one of these        *)
(* notices ends the session, but then somebody has committed it, and with  *)
(* it the whole list it was on: the load has been announced already.       *)
(***************************************************************************)
EXTENDS RecoveryProofs

-----------------------------------------------------------------------------
(* Notices of load l of one kind *)

\* The shipper of the load, and the admin if there is one.
Invited(l, admin) == {ShipperOf[l]} \cup {admin[i] : i \in DOMAIN admin}

\* Both have the notice, or the writes or the list of a session have it for them.
Informed(l, kind, p, j, w, d) ==
  \E admin \in AdminChoices : \A u \in Invited(l, admin) :
    Noted(<<u, l, kind>>, w, d) \/ Listed(<<u, l, kind>>, p, j)

\* Job j in phase p carries the announcement of match m.
Carries(p, j, m) ==
  /\ MatchOf(j) = m
  /\ \/ p = "process_match"
     \/ /\ p \in {"notify", "send", "finish"} /\ j.after = "finish"
        /\ j.op \in {"create_load", "create_truck", "register_interest"}

\* A session that writes or lists a notice informs everybody, except by broadcasts.
InformsAll(p, j, w, d) ==
  \A k \in Notices :
    k[3] # "BROADCAST" /\ (w.notices[k] # NoWrite \/ Listed(k, p, j)) =>
      Informed(k[2], k[3], p, j, w, d)

\* A session that carries a match informs of it, and not by broadcasts.
InformsOfMatch(p, j, w, d) ==
  /\ p \in {"notify", "send", "finish"} /\ j.after = "finish"
       /\ j.op \in {"create_load", "create_truck", "register_interest"} =>
       /\ j.load \in Loads
       /\ \E kind \in NotificationType \ {"BROADCAST"} : Informed(j.load, kind, p, j, w, d)
  /\ p \in {"notify", "send"} /\ j.after = "finish" =>
       \A i \in 1..Len(j.todo) : j.todo[i][3] # "BROADCAST"
  /\ p \in {"audience", "broadcast", "remind"} => j.after # "finish"

\* A match is pending only just after its insert, for its interest, or with its
\* announcement.
InformsOnTime(p, j, w, d) ==
  \A m \in Matches : w.matches[m] = "PENDING" =>
    \/ p = "mark_matched" /\ m = MatchOf(j)
    \/ p = "record_interest" /\ j.op = "register_interest" /\ m = MatchOf(j)
    \/ j.op = "proactive" /\ Informed(m[1], "PROACTIVE_MATCH", p, j, w, d)

Informs(p, j, w, d) ==
  InformsAll(p, j, w, d) /\ InformsOfMatch(p, j, w, d) /\ InformsOnTime(p, j, w, d)

\* What is stored informs everybody.
StoredInforms ==
  \A k \in Notices : k[3] # "BROADCAST" /\ db.notices[k] # Absent =>
    Informed(k[2], k[3], "idle", NoJob, NoWrites, db)

AnnounceInv ==
  StoredInforms /\ \A s \in SessionIds : Informs(pc[s], job[s], tx[s], db)

-----------------------------------------------------------------------------
(* Informed *)

LEMMA InvitedType ==
  ASSUME NEW l \in Loads, NEW admin \in AdminChoices
  PROVE  Invited(l, admin) \subseteq Users
<1>1. admin \in Seq(Users) /\ ShipperOf[l] \in Users
  BY Parties
<1>2. \A i \in DOMAIN admin : admin[i] \in Users
  BY <1>1
<1> QED BY <1>1, <1>2 DEF Invited

\* Who is informed stays so when rows come, lists go on, and writes grow.
LEMMA InformedStays ==
  ASSUME NEW l \in Loads, NEW kind \in NotificationType \ {"BROADCAST"},
         NEW p, NEW j, NEW w, NEW d, Informed(l, kind, p, j, w, d),
         NEW q, NEW i, NEW v, NEW e,
         \A k \in Notices : k[3] # "BROADCAST" /\ Noted(k, w, d) => Noted(k, v, e),
         \A k \in Notices : Listed(k, p, j) => Noted(k, v, e) \/ Listed(k, q, i)
  PROVE  Informed(l, kind, q, i, v, e)
<1>1. PICK admin \in AdminChoices : \A u \in Invited(l, admin) :
        Noted(<<u, l, kind>>, w, d) \/ Listed(<<u, l, kind>>, p, j)
  BY DEF Informed
<1>2. \A u \in Invited(l, admin) : <<u, l, kind>> \in Notices /\ <<u, l, kind>>[3] # "BROADCAST"
  BY InvitedType DEF Notices
<1>3. \A u \in Invited(l, admin) :
        Noted(<<u, l, kind>>, v, e) \/ Listed(<<u, l, kind>>, q, i)
  BY <1>1, <1>2
<1> QED BY <1>3 DEF Informed

\* A list of notices of this kind that is for everybody.
Invites(todo, l, kind) ==
  /\ \A i \in 1..Len(todo) : todo[i][2] = l /\ todo[i][3] = kind
  /\ \E admin \in AdminChoices : \A u \in Invited(l, admin) :
       \E i \in 1..Len(todo) : todo[i] = <<u, l, kind>>

LEMMA ListFor ==
  ASSUME NEW l \in Loads, NEW admin \in AdminChoices, NEW kind \in NotificationType,
         NEW us \in Seq(Users), \A u \in Invited(l, admin) : \E i \in 1..Len(us) : us[i] = u
  PROVE  Invites(NoticesFor(us, l, kind), l, kind)
<1> DEFINE todo == NoticesFor(us, l, kind)
<1>1. Len(todo) = Len(us) /\ \A i \in 1..Len(us) : todo[i] = <<us[i], l, kind>>
  <2>1. Len(todo) = Len(us)
    BY NoticesForType
  <2> QED BY <2>1 DEF NoticesFor
<1> HIDE DEF todo
<1>2. \A i \in 1..Len(todo) : todo[i][2] = l /\ todo[i][3] = kind
  BY <1>1
<1>3. \A u \in Invited(l, admin) : \E i \in 1..Len(todo) : todo[i] = <<u, l, kind>>
  BY <1>1
<1>4. Invites(todo, l, kind)
  BY <1>2, <1>3 DEF Invites
<1> QED BY <1>4 DEF todo

LEMMA ListsInvite ==
  ASSUME NEW l \in Loads, NEW admin \in AdminChoices
  PROVE  /\ \A t \in Trucks, kind \in NotificationType :
              Invites(MatchNotices(l, t, admin, kind), l, kind)
         /\ Invites(InterestNotices(l, admin), l, "INTEREST_RECEIVED")
<1>1. admin \in Seq(Users) /\ ShipperOf[l] \in Users /\ \A t \in Trucks : CarrierOf[t] \in Users
  BY Parties
<1>2. ASSUME NEW t \in Trucks, NEW kind \in NotificationType
      PROVE  Invites(MatchNotices(l, t, admin, kind), l, kind)
  <2> DEFINE us == <<ShipperOf[l], CarrierOf[t]>> \o admin
  <2>1. us \in Seq(Users) /\ Len(us) = 2 + Len(admin)
    BY <1>1, <1>2
  <2>2. us[1] = ShipperOf[l] /\ \A i \in 1..Len(admin) : us[i + 2] = admin[i]
    BY <1>1, <1>2
  <2>3. DOMAIN admin = 1..Len(admin) /\ Len(admin) \in Nat
    BY <1>1
  <2> HIDE DEF us
  <2>4. ASSUME NEW u \in Invited(l, admin) PROVE \E i \in 1..Len(us) : us[i] = u
    <3>1. CASE u = ShipperOf[l]
      BY <2>1, <2>2, <2>3, <3>1
    <3>2. CASE \E i \in 1..Len(admin) : u = admin[i]
      <4>1. PICK i \in 1..Len(admin) : u = admin[i]
        BY <3>2
      <4>2. i + 2 \in 1..Len(us) /\ us[i + 2] = u
        BY <2>1, <2>2, <2>3, <4>1
      <4> QED BY <4>2
    <3> QED BY <2>3, <3>1, <3>2 DEF Invited
  <2>5. Invites(NoticesFor(us, l, kind), l, kind)
    BY <1>2, <2>1, <2>4, ListFor
  <2> QED BY <2>5 DEF MatchNotices, us
<1>3. Invites(InterestNotices(l, admin), l, "INTEREST_RECEIVED")
  <2> DEFINE us == <<ShipperOf[l]>> \o admin
  <2>1. us \in Seq(Users) /\ Len(us) = 1 + Len(admin) /\ "INTEREST_RECEIVED" \in NotificationType
    BY <1>1 DEF NotificationType
  <2>2. us[1] = ShipperOf[l] /\ \A i \in 1..Len(admin) : us[i + 1] = admin[i]
    BY <1>1
  <2>3. DOMAIN admin = 1..Len(admin) /\ Len(admin) \in Nat
    BY <1>1
  <2> HIDE DEF us
  <2>4. ASSUME NEW u \in Invited(l, admin) PROVE \E i \in 1..Len(us) : us[i] = u
    <3>1. CASE u = ShipperOf[l]
      BY <2>1, <2>2, <2>3, <3>1
    <3>2. CASE \E i \in 1..Len(admin) : u = admin[i]
      <4>1. PICK i \in 1..Len(admin) : u = admin[i]
        BY <3>2
      <4>2. i + 1 \in 1..Len(us) /\ us[i + 1] = u
        BY <2>1, <2>2, <2>3, <4>1
      <4> QED BY <4>2
    <3> QED BY <2>3, <3>1, <3>2 DEF Invited
  <2>5. Invites(NoticesFor(us, l, "INTEREST_RECEIVED"), l, "INTEREST_RECEIVED")
    BY <2>1, <2>4, ListFor
  <2> QED BY <2>5 DEF InterestNotices, us
<1> QED BY <1>2, <1>3

LEMMA InvitesInforms ==
  ASSUME NEW l, NEW kind, NEW j, Invites(j.todo, l, kind), NEW p \in {"notify", "send"}
  PROVE  \A w, d : Informed(l, kind, p, j, w, d)
  BY DEF Invites, Informed, Listed

-----------------------------------------------------------------------------
(* What a step does to the sessions *)

\* One session goes from p, j, w, d to q, i, v, e, and forgets nobody.
Remembers(p, j, w, d, q, i, v, e) ==
  /\ \A k \in Notices : k[3] # "BROADCAST" /\ Noted(k, w, d) => Noted(k, v, e)
  /\ \A k \in Notices : Listed(k, p, j) => Noted(k, v, e) \/ Listed(k, q, i)

LEMMA AllStays ==
  ASSUME NEW p, NEW j, NEW w, NEW d, InformsAll(p, j, w, d),
         NEW q, NEW i, NEW v, NEW e, Remembers(p, j, w, d, q, i, v, e),
         \A k \in Notices : k[3] # "BROADCAST" /\ (v.notices[k] # NoWrite \/ Listed(k, q, i)) =>
           \/ w.notices[k] # NoWrite \/ Listed(k, p, j)
           \/ Informed(k[2], k[3], q, i, v, e)
  PROVE  InformsAll(q, i, v, e)
<1> SUFFICES ASSUME NEW k \in Notices, k[3] # "BROADCAST",
                    w.notices[k] # NoWrite \/ Listed(k, p, j)
             PROVE  Informed(k[2], k[3], q, i, v, e)
  BY DEF InformsAll
<1>1. Informed(k[2], k[3], p, j, w, d) /\ k[2] \in Loads /\ k[3] \in NotificationType \ {"BROADCAST"}
  BY DEF InformsAll, Notices
<1> QED BY <1>1, InformedStays DEF Remembers

LEMMA OnTimeStays ==
  ASSUME NEW p, NEW j, NEW w, NEW d, InformsOnTime(p, j, w, d),
         NEW q, NEW i, NEW v, NEW e, Remembers(p, j, w, d, q, i, v, e),
         \A m \in Matches : v.matches[m] = "PENDING" =>
           /\ w.matches[m] = "PENDING" /\ i.op = j.op
           /\ p \in {"record_interest", "mark_matched"} => q = p /\ MatchOf(i) = MatchOf(j)
  PROVE  InformsOnTime(q, i, v, e)
<1> SUFFICES ASSUME NEW m \in Matches, v.matches[m] = "PENDING", i.op = "proactive",
                    Informed(m[1], "PROACTIVE_MATCH", p, j, w, d)
             PROVE  Informed(m[1], "PROACTIVE_MATCH", q, i, v, e)
  BY DEF InformsOnTime
<1>1. m[1] \in Loads /\ "PROACTIVE_MATCH" \in NotificationType \ {"BROADCAST"}
  BY DEF Matches, NotificationType
<1> QED BY <1>1, InformedStays DEF Remembers

\* Whoever is informed of a match stays so.
LEMMA OfMatchStays ==
  ASSUME NEW p, NEW j, NEW w, NEW d, NEW l \in Loads,
         \E kind \in NotificationType \ {"BROADCAST"} : Informed(l, kind, p, j, w, d),
         NEW q, NEW i, NEW v, NEW e, Remembers(p, j, w, d, q, i, v, e)
  PROVE  \E kind \in NotificationType \ {"BROADCAST"} : Informed(l, kind, q, i, v, e)
<1>1. PICK kind \in NotificationType \ {"BROADCAST"} : Informed(l, kind, p, j, w, d)
  OBVIOUS
<1>2. Informed(l, kind, q, i, v, e)
  BY <1>1, InformedStays DEF Remembers
<1> QED BY <1>2

\* Rows that come do not disturb a session.
LEMMA OthersInform ==
  ASSUME NEW p, NEW j, NEW w, NEW d, NEW e, Informs(p, j, w, d),
         \A k \in Notices : d.notices[k] # Absent => e.notices[k] # Absent
  PROVE  Informs(p, j, w, e)
<1>1. Remembers(p, j, w, d, p, j, w, e)
  BY DEF Remembers, Noted
<1>2. InformsAll(p, j, w, e)
  BY <1>1, AllStays DEF Informs
<1>3. InformsOnTime(p, j, w, e)
  BY <1>1, OnTimeStays DEF Informs
<1>4. InformsOfMatch(p, j, w, e)
  BY <1>1, OfMatchStays DEF Informs, InformsOfMatch
<1> QED BY <1>2, <1>3, <1>4 DEF Informs

\* The load is announced in the tables d.
AnnouncedIn(l, d) ==
  \E kind \in NotificationType \ {"BROADCAST"} : Informed(l, kind, "idle", NoJob, NoWrites, d)

LEMMA AnnouncedMeans ==
  ASSUME NEW l \in Loads
  PROVE  (Announced(l) <=> AnnouncedIn(l, db)) /\ (Announced(l)' <=> AnnouncedIn(l, db'))
<1>1. ASSUME NEW kind \in NotificationType, NEW admin \in AdminChoices, NEW u \in Invited(l, admin),
             NEW d
      PROVE  Noted(<<u, l, kind>>, NoWrites, d) \/ Listed(<<u, l, kind>>, "idle", NoJob)
               <=> d.notices[<<u, l, kind>>] # Absent
  <2>1. <<u, l, kind>> \in Notices
    BY InvitedType DEF Notices
  <2> QED BY <2>1 DEF Noted, Listed, NoWrites
<1>2. ASSUME NEW d
      PROVE  AnnouncedIn(l, d) <=>
               \E kind \in NotificationType \ {"BROADCAST"}, admin \in AdminChoices :
                 \A u \in Invited(l, admin) : d.notices[<<u, l, kind>>] # Absent
  BY <1>1 DEF AnnouncedIn, Informed
<1> QED BY <1>2 DEF Announced, Invited

LEMMA UnannouncedMeans ==
  ASSUME IInv
  PROVE  /\ Unannounced = {m \in Matches : /\ db.matches[m] # Absent /\ ~ AnnouncedIn(m[1], db)
                                           /\ \A s \in SessionIds : ~ Carries(pc[s], job[s], m)}
         /\ Unannounced' = {m \in Matches : /\ db'.matches[m] # Absent /\ ~ AnnouncedIn(m[1], db')
                                            /\ \A s \in SessionIds : ~ Carries(pc'[s], job'[s], m)}
<1>1. \A m \in Matches : m[1] \in Loads
  BY DEF Matches
<1>2. \A m \in Matches : /\ Announced(m[1]) <=> AnnouncedIn(m[1], db)
                         /\ Announced(m[1])' <=> AnnouncedIn(m[1], db')
  BY <1>1, AnnouncedMeans
<1>3. \A m, s : /\ Announcing(s, m) <=> Carries(pc[s], job[s], m)
                /\ Announcing(s, m)' <=> Carries(pc'[s], job'[s], m)
  BY DEF Announcing, Carries, JobMatch, MatchOf
<1> QED BY <1>2, <1>3 DEF Unannounced

\* What is announced stays so.
LEMMA AnnouncedStays ==
  ASSUME NEW l \in Loads, NEW d, NEW e, AnnouncedIn(l, d),
         \A k \in Notices : d.notices[k] # Absent => e.notices[k] # Absent
  PROVE  AnnouncedIn(l, e)
<1>1. Remembers("idle", NoJob, NoWrites, d, "idle", NoJob, NoWrites, e)
  BY DEF Remembers, Noted
<1> QED BY <1>1, OfMatchStays DEF AnnouncedIn

\* What every step does, unless a session dies.
Announces == AnnounceInv' /\ Unannounced' \subseteq Unannounced /\ UNCHANGED crashes

\* Session s goes on with writes w, whatever it commits.
LEMMA StepAnnounces ==
  ASSUME IInv, AnnounceInv, NEW s \in SessionIds, NEW w, tx' = [tx EXCEPT ![s] = w],
         NEW p, NEW j, Goto(s, p, j), Informs(p, j, w, db'), StoredInforms',
         \A k \in Notices : db.notices[k] # Absent => db'.notices[k] # Absent,
         \A m \in Matches :
           Carries(pc[s], job[s], m) \/ (db.matches[m] = Absent /\ db'.matches[m] # Absent) =>
             Carries(p, j, m) \/ AnnouncedIn(m[1], db'),
         UNCHANGED crashes
  PROVE  Announces
<1>1. tx \in [SessionIds -> Writes] /\ pc \in [SessionIds -> Phases] /\ job \in [SessionIds -> Jobs]
  BY DEF IInv, DataInv, ControlInv
<1>2. /\ \A o \in SessionIds \ {s} : pc'[o] = pc[o] /\ job'[o] = job[o] /\ tx'[o] = tx[o]
      /\ pc'[s] = p /\ job'[s] = j /\ tx'[s] = w
  BY <1>1 DEF Goto
<1>3. ASSUME NEW o \in SessionIds PROVE Informs(pc'[o], job'[o], tx'[o], db')
  <2>1. CASE o = s
    BY <1>2, <2>1
  <2>2. CASE o # s
    <3>1. Informs(pc[o], job[o], tx[o], db')
      BY OthersInform DEF AnnounceInv
    <3> QED BY <1>2, <2>2, <3>1
  <2> QED BY <2>1, <2>2
<1>4. AnnounceInv'
  BY <1>3 DEF AnnounceInv
<1>5. ASSUME NEW m \in Unannounced' PROVE m \in Unannounced
  <2>1. /\ m \in Matches /\ m[1] \in Loads /\ db'.matches[m] # Absent /\ ~ AnnouncedIn(m[1], db')
        /\ \A o \in SessionIds : ~ Carries(pc'[o], job'[o], m)
    BY <1>5, UnannouncedMeans DEF Matches
  <2>2. db.matches[m] # Absent /\ ~ Carries(pc[s], job[s], m)
    BY <1>2, <2>1
  <2>3. ~ AnnouncedIn(m[1], db)
    BY <2>1, AnnouncedStays
  <2>4. \A o \in SessionIds : ~ Carries(pc[o], job[o], m)
    BY <1>2, <2>1, <2>2
  <2> QED BY <2>1, <2>2, <2>3, <2>4, UnannouncedMeans
<1> QED BY <1>4, <1>5 DEF Announces

\* A session goes on without a commit.
LEMMA StayAnnounces ==
  ASSUME IInv, AnnounceInv, NEW s \in SessionIds, NEW w, tx' = [tx EXCEPT ![s] = w],
         UNCHANGED <<db, crashes>>,
         NEW p, NEW j, Goto(s, p, j), Informs(p, j, w, db),
         \A m \in Matches : Carries(pc[s], job[s], m) => Carries(p, j, m) \/ AnnouncedIn(m[1], db)
  PROVE  Announces
<1>1. StoredInforms'
  BY DEF AnnounceInv, StoredInforms
<1> QED BY <1>1, StepAnnounces

\* A session without a list goes on to a phase without one.
LEMMA PhaseAnnounces ==
  ASSUME IInv, AnnounceInv, NEW s \in SessionIds, UNCHANGED <<db, tx, crashes>>,
         pc[s] \notin {"mark_matched", "process_match", "notify", "send", "finish"},
         NEW p, p \notin {"process_match", "notify", "send"}, NEW j, Goto(s, p, j),
         p \in {"audience", "broadcast", "remind"} => j.after # "finish",
         p = "finish" => j.after # "finish" \/ j.op \in {"proactive", "reminders"},
         \A m \in Matches : tx[s].matches[m] = "PENDING" =>
           j.op = job[s].op /\ pc[s] # "record_interest"
  PROVE  Announces
<1>1. Informs(pc[s], job[s], tx[s], db) /\ tx' = [tx EXCEPT ![s] = tx[s]]
  BY DEF AnnounceInv, IInv, DataInv
<1>2. Remembers(pc[s], job[s], tx[s], db, p, j, tx[s], db)
  BY DEF Remembers, Listed
<1>3. InformsAll(p, j, tx[s], db)
  BY <1>1, <1>2, AllStays DEF Listed, Informs
<1>4. InformsOnTime(p, j, tx[s], db)
  BY <1>1, <1>2, OnTimeStays DEF Informs
<1>5. InformsOfMatch(p, j, tx[s], db)
  BY DEF InformsOfMatch
<1>6. \A m : ~ Carries(pc[s], job[s], m)
  BY DEF Carries
<1> QED BY <1>1, <1>3, <1>4, <1>5, <1>6, StayAnnounces DEF Informs

LEMMA NothingInforms ==
  ASSUME NEW p, p \notin {"notify", "send"}, NEW j,
         p \in {"finish", "audience", "broadcast", "remind"} => j.after # "finish"
  PROVE  \A w, d : (\A k \in Notices : k[3] # "BROADCAST" => w.notices[k] = NoWrite)
                     /\ (\A m \in Matches : w.matches[m] # "PENDING")
                   => Informs(p, j, w, d)
  BY DEF Informs, InformsAll, InformsOnTime, InformsOfMatch, Listed

LEMMA NoWritesInform ==
  /\ \A k \in Notices : NoWrites.notices[k] = NoWrite
  /\ \A m \in Matches : NoWrites.matches[m] = NoWrite /\ NoWrites.matches[m] # "PENDING"
  BY DEF NoWrites, NoWrite

\* A session ends without a commit.
LEMMA AbandonAnnounces ==
  ASSUME IInv, AnnounceInv, NEW s \in SessionIds, Abandon(s), UNCHANGED crashes,
         \A m \in Matches : Carries(pc[s], job[s], m) => AnnouncedIn(m[1], db)
  PROVE  Announces
<1>1. Informs("idle", NoJob, NoWrites, db)
  BY NothingInforms, NoWritesInform
<1> QED BY <1>1, StayAnnounces DEF Abandon, Done

\* A session commits writes that inform everybody.
LEMMA CommitAnnounces ==
  ASSUME IInv, AnnounceInv, NEW s \in SessionIds, NEW w \in Writes, Commit(s, w), UNCHANGED crashes,
         NEW q, q \notin {"notify", "send"}, NEW i, InformsAll(q, i, w, db),
         NEW p, NEW j, Goto(s, p, j), Informs(p, j, NoWrites, db'),
         \A m \in Matches : w.matches[m] \notin {NoWrite, "PENDING"} => db.matches[m] # Absent,
         \A m \in Matches : Carries(pc[s], job[s], m) \/ w.matches[m] = "PENDING" =>
           Carries(p, j, m) \/ AnnouncedIn(m[1], db')
  PROVE  Announces
<1>1. /\ \A m \in Matches :
           db'.matches[m] = IF w.matches[m] = NoWrite THEN db.matches[m] ELSE w.matches[m]
      /\ \A k \in Notices :
           db'.notices[k] = IF w.notices[k] = NoWrite THEN db.notices[k] ELSE w.notices[k]
  BY CommitRows
<1>2. \A k \in Notices : Noted(k, w, db) => db'.notices[k] # Absent
  <2>1. \A k \in Notices : w.notices[k] # Absent
    BY DEF Writes, NotificationStatus, Absent, NoWrite
  <2> QED BY <1>1, <2>1 DEF Noted
<1>3. \A k \in Notices : db.notices[k] # Absent => db'.notices[k] # Absent
  BY <1>2 DEF Noted
<1>4. StoredInforms'
  <2> SUFFICES ASSUME NEW k \in Notices, k[3] # "BROADCAST", db'.notices[k] # Absent
               PROVE  Informed(k[2], k[3], "idle", NoJob, NoWrites, db')
    BY DEF StoredInforms
  <2>1. k[2] \in Loads /\ k[3] \in NotificationType \ {"BROADCAST"}
    BY DEF Notices
  <2>2. CASE db.notices[k] # Absent
    <3>1. Informed(k[2], k[3], "idle", NoJob, NoWrites, db)
      BY <2>2 DEF AnnounceInv, StoredInforms
    <3>2. Remembers("idle", NoJob, NoWrites, db, "idle", NoJob, NoWrites, db')
      BY <1>3 DEF Remembers, Noted
    <3> QED BY <2>1, <3>1, <3>2, InformedStays DEF Remembers
  <2>3. CASE db.notices[k] = Absent
    <3>1. w.notices[k] # NoWrite
      BY <1>1, <2>3
    <3>2. Informed(k[2], k[3], q, i, w, db)
      BY <3>1 DEF InformsAll
    <3>3. Remembers(q, i, w, db, "idle", NoJob, NoWrites, db')
      BY <1>2 DEF Remembers, Noted, Listed
    <3> QED BY <2>1, <3>2, <3>3, InformedStays DEF Remembers
  <2> QED BY <2>2, <2>3
<1>5. \A m \in Matches : db.matches[m] = Absent /\ db'.matches[m] # Absent => w.matches[m] = "PENDING"
  BY <1>1
<1> QED BY <1>3, <1>4, <1>5, StepAnnounces DEF Commit

\* A session commits no new notices or matches, and carries none.
LEMMA PlainAnnounces ==
  ASSUME IInv, AnnounceInv, NEW s \in SessionIds, NEW w \in Writes, Commit(s, w), UNCHANGED crashes,
         \A k \in Notices : w.notices[k] = NoWrite,
         \A m \in Matches : w.matches[m] # NoWrite => w.matches[m] # "PENDING" /\ db.matches[m] # Absent,
         pc[s] \notin {"process_match", "notify", "send", "finish"},
         NEW p, NEW j, Goto(s, p, j), Informs(p, j, NoWrites, db')
  PROVE  Announces
<1>1. InformsAll("idle", NoJob, w, db)
  BY DEF InformsAll, Listed
<1>2. \A m \in Matches : ~ Carries(pc[s], job[s], m) /\ w.matches[m] # "PENDING"
  BY DEF Carries, NoWrite
<1> QED BY <1>1, <1>2, CommitAnnounces

\* A session that is about to commit what it has: all is written.
LEMMA OwnCommit ==
  ASSUME AnnounceInv, NEW s \in SessionIds, pc[s] \notin {"notify", "send"},
         NEW w, \A k \in Notices : k[3] # "BROADCAST" => w.notices[k] = tx[s].notices[k]
  PROVE  InformsAll(pc[s], job[s], w, db)
<1>1. Remembers(pc[s], job[s], tx[s], db, pc[s], job[s], w, db)
  BY DEF Remembers, Noted, Listed
<1> QED BY <1>1, AllStays DEF AnnounceInv, Informs, Listed

-----------------------------------------------------------------------------
(* The actions *)

\* Writes v are writes w with a row for notice k, or the same.
WritesOne(k, w, v) ==
  /\ v.matches = w.matches
  /\ \A n \in Notices : w.notices[n] # NoWrite => v.notices[n] # NoWrite
  /\ \A n \in Notices : n # k => v.notices[n] = w.notices[n]

\* The session goes on to the next notice: the one before is settled.
LEMMA NextAnnounces ==
  ASSUME IInv, AnnounceInv, NEW s \in SessionIds, pc[s] \in {"notify", "send"}, NextNotice(s),
         NEW w, tx' = [tx EXCEPT ![s] = w], UNCHANGED <<db, crashes>>,
         WritesOne(Head(job[s].todo), tx[s], w),
         Noted(Head(job[s].todo), w, db)
  PROVE  Announces
<1> DEFINE rest == Tail(job[s].todo)
           p == IF rest = <<>> THEN job[s].after ELSE "notify"
           j == [job[s] EXCEPT !.todo = rest]
<1>1. job[s] \in Jobs /\ NoticesReady(job[s], db.trusted) /\ job[s].todo \in Seq(Notices)
  BY DEF IInv, ControlInv, JobReady, Jobs
<1>2. /\ rest \in Seq(Notices) /\ Len(rest) = Len(job[s].todo) - 1
      /\ \A i \in 1..Len(rest) : rest[i] = job[s].todo[i + 1]
      /\ Head(job[s].todo) = job[s].todo[1] /\ 1 \in 1..Len(job[s].todo)
  BY <1>1 DEF NoticesReady
<1>3. /\ j.todo = rest /\ j.after = job[s].after /\ j.op = job[s].op /\ MatchOf(j) = MatchOf(job[s])
      /\ j.load = job[s].load /\ Goto(s, p, j)
  BY <1>1 DEF Jobs, NextNotice, MatchOf
<1>4. /\ p = "notify" \/ (p = job[s].after /\ p \in {"finish", "scan", "broadcast", "audience"})
      /\ rest # <<>> => p = "notify"
  BY <1>1 DEF NoticesReady
<1> HIDE DEF rest, p, j
<1>5. Informs(pc[s], job[s], tx[s], db)
  BY DEF AnnounceInv
<1>6. Remembers(pc[s], job[s], tx[s], db, p, j, w, db)
  <2>1. ASSUME NEW k \in Notices, Listed(k, pc[s], job[s])
        PROVE  Noted(k, w, db) \/ Listed(k, p, j)
    <3>1. PICK i \in 1..Len(job[s].todo) : job[s].todo[i] = k
      BY <2>1 DEF Listed
    <3>2. CASE i = 1
      BY <1>2, <3>1, <3>2
    <3>3. CASE i # 1
      <4>1. i - 1 \in 1..Len(rest) /\ rest[i - 1] = k
        BY <1>1, <1>2, <3>1, <3>3
      <4>2. p = "notify"
        BY <1>2, <1>4, <4>1
      <4> QED BY <1>3, <4>1, <4>2 DEF Listed
    <3> QED BY <3>2, <3>3
  <2> QED BY <2>1 DEF Remembers, Noted, WritesOne
<1>7. \A i \in 1..Len(rest) : \E n \in 1..Len(job[s].todo) : rest[i] = job[s].todo[n]
  BY <1>1, <1>2
<1>8. \A k \in Notices : w.notices[k] # NoWrite \/ Listed(k, p, j) =>
        tx[s].notices[k] # NoWrite \/ Listed(k, pc[s], job[s])
  BY <1>2, <1>3, <1>7 DEF Listed, WritesOne
<1>9. InformsAll(p, j, w, db)
  BY <1>5, <1>6, <1>8, AllStays DEF Informs
<1>10. InformsOnTime(p, j, w, db)
  BY <1>3, <1>5, <1>6, OnTimeStays DEF Informs, WritesOne
<1>11. InformsOfMatch(p, j, w, db)
  <2>1. ASSUME j.after = "finish", j.op \in {"create_load", "create_truck", "register_interest"}
        PROVE  /\ j.load \in Loads
               /\ \E kind \in NotificationType \ {"BROADCAST"} : Informed(j.load, kind, p, j, w, db)
    <3>1. /\ j.load \in Loads
          /\ \E kind \in NotificationType \ {"BROADCAST"} :
               Informed(j.load, kind, pc[s], job[s], tx[s], db)
      BY <1>3, <1>5, <2>1 DEF Informs, InformsOfMatch
    <3> QED BY <1>6, <3>1, OfMatchStays
  <2>2. ASSUME j.after = "finish" PROVE \A i \in 1..Len(j.todo) : j.todo[i][3] # "BROADCAST"
    BY <1>3, <1>5, <1>7, <2>2 DEF Informs, InformsOfMatch
  <2> QED BY <1>3, <1>4, <2>1, <2>2 DEF InformsOfMatch
<1>12. \A m : Carries(pc[s], job[s], m) => Carries(p, j, m)
  BY <1>3, <1>4 DEF Carries
<1> QED BY <1>3, <1>9, <1>10, <1>11, <1>12, StayAnnounces DEF Informs

\* A notice that exists was announced with the rest of its list.
LEMMA TakenMeansAnnounced ==
  ASSUME AnnounceInv, NEW k \in Notices, k[3] # "BROADCAST", db.notices[k] # Absent
  PROVE  AnnouncedIn(k[2], db)
  BY DEF AnnounceInv, StoredInforms, AnnouncedIn, Notices

\* What a session informs of when it commits is announced.
LEMMA InformedCommits ==
  ASSUME IInv, NEW s \in SessionIds, NEW w \in Writes, Commit(s, w),
         NEW q, q \notin {"notify", "send"}, NEW i, NEW l \in Loads,
         \E kind \in NotificationType \ {"BROADCAST"} : Informed(l, kind, q, i, w, db)
  PROVE  AnnouncedIn(l, db')
<1>1. \A k \in Notices :
        db'.notices[k] = IF w.notices[k] = NoWrite THEN db.notices[k] ELSE w.notices[k]
  BY CommitRows
<1>2. \A k \in Notices : w.notices[k] # Absent
  BY DEF Writes, NotificationStatus, Absent, NoWrite
<1>3. Remembers(q, i, w, db, "idle", NoJob, NoWrites, db')
  BY <1>1, <1>2 DEF Remembers, Noted, Listed
<1> QED BY <1>3, OfMatchStays DEF AnnouncedIn

\* Writes that are whole change only matches that exist, but for new ones.
LEMMA WholeMatches ==
  ASSUME NEW w, NEW d, Whole(w, d)
  PROVE  \A m \in Matches : w.matches[m] \notin {NoWrite, "PENDING"} => d.matches[m] # Absent
<1> SUFFICES ASSUME NEW m \in Matches, w.matches[m] \notin {NoWrite, "PENDING"}
             PROVE  d.matches[m] # Absent
  OBVIOUS
<1>1. \E n \in Matches : Connection(w, d, n)
  BY DEF Whole, Proposal, Interest
<1> QED BY <1>1 DEF Connection

LEMMA NotifyAnnounces ==
  ASSUME IInv, BInv, AnnounceInv, NEW s \in SessionIds, NotifyStep(s)
  PROVE  Announces
<1> DEFINE k == Head(job[s].todo)
<1>1. tx[s] \in Writes /\ job[s] \in Jobs /\ Informs(pc[s], job[s], tx[s], db)
  BY DEF IInv, DataInv, ControlInv, AnnounceInv
<1>2. ASSUME pc[s] \in {"notify", "send"}
      PROVE  /\ k \in Notices /\ k[2] = job[s].load
             /\ job[s].after = "finish" => k[3] # "BROADCAST"
  <2>1. job[s].todo \in Seq(Notices) /\ job[s].todo # <<>>
    BY <1>1, <1>2 DEF IInv, ControlInv, JobReady, NoticesReady, Jobs
  <2>2. k \in Notices /\ k = job[s].todo[1] /\ 1 \in 1..Len(job[s].todo)
    BY <2>1
  <2> HIDE DEF k
  <2> QED BY <1>1, <1>2, <2>2 DEF BInv, SessionsFit, Knows, Informs, InformsOfMatch
<1> HIDE DEF k
<1>3. CASE ProbeNotice(s)
  <2>1. tx' = [tx EXCEPT ![s] = tx[s]] /\ UNCHANGED <<db, crashes>> /\ pc[s] = "notify"
    BY <1>3 DEF ProbeNotice, IInv, DataInv
  <2>2. CASE View(s).notices[k] # Absent /\ NextNotice(s)
    <3>1. Noted(k, tx[s], db) /\ WritesOne(k, tx[s], tx[s])
      BY <1>2, <2>1, <2>2 DEF View, Overlay, Noted, WritesOne
    <3> QED BY <2>1, <2>2, <3>1, NextAnnounces DEF k
  <2>3. CASE Goto(s, "send", job[s])
    <3>1. Remembers(pc[s], job[s], tx[s], db, "send", job[s], tx[s], db)
      BY <2>1 DEF Remembers, Listed
    <3>2. InformsAll("send", job[s], tx[s], db)
      BY <1>1, <2>1, <3>1, AllStays DEF Informs, Listed
    <3>3. InformsOnTime("send", job[s], tx[s], db)
      BY <1>1, <2>1, <3>1, OnTimeStays DEF Informs
    <3>4. InformsOfMatch("send", job[s], tx[s], db)
      BY <1>1, <2>1, <3>1, OfMatchStays DEF Informs, InformsOfMatch
    <3>5. \A m : Carries(pc[s], job[s], m) => Carries("send", job[s], m)
      BY <2>1 DEF Carries
    <3> QED BY <2>1, <2>3, <3>2, <3>3, <3>4, <3>5, StayAnnounces DEF Informs
  <2> QED BY <1>3, <2>2, <2>3 DEF ProbeNotice, k
<1>4. CASE SendNotice(s)
  <2>1. PICK st \in SendOutcomes : Stage(s, [tx[s] EXCEPT !.notices[k] = st])
    BY <1>4 DEF SendNotice, k
  <2>2. PICK w : w = [tx[s] EXCEPT !.notices[k] = st]
    OBVIOUS
  <2>3. st # NoWrite
    BY SendAssumption DEF NoWrite
  <2>4. /\ w.matches = tx[s].matches
        /\ \A n \in Notices : tx[s].notices[n] # NoWrite => w.notices[n] # NoWrite
        /\ \A n \in Notices : n # k => w.notices[n] = tx[s].notices[n]
        /\ w.notices[k] # NoWrite
    BY <1>1, <1>2, <1>4, <2>2, <2>3 DEF Writes, SendNotice
  <2>5. tx' = [tx EXCEPT ![s] = w] /\ UNCHANGED <<db, crashes>>
    BY <1>4, <2>1, <2>2 DEF Stage, SendNotice
  <2>6. pc[s] \in {"notify", "send"} /\ NextNotice(s)
    BY <1>4 DEF SendNotice
  <2>7. Noted(k, w, db) /\ WritesOne(k, tx[s], w)
    BY <2>4 DEF Noted, WritesOne
  <2> QED BY <2>5, <2>6, <2>7, NextAnnounces DEF k
<1>5. CASE NoticeConflict(s)
  <2>1. /\ pc[s] = "send" /\ db.notices[k] # Absent /\ Abandon(s) /\ UNCHANGED crashes
    BY <1>5 DEF NoticeConflict, NoticeTaken, k
  <2>2. ASSUME NEW m \in Matches, Carries(pc[s], job[s], m) PROVE AnnouncedIn(m[1], db)
    <3>1. job[s].after = "finish" /\ m[1] = job[s].load
      BY <2>1, <2>2 DEF Carries, MatchOf
    <3> QED BY <1>2, <2>1, <3>1, TakenMeansAnnounced
  <2> QED BY <2>1, <2>2, AbandonAnnounces
<1>6. CASE Finish(s)
  <2>1. Commit(s, tx[s]) /\ Goto(s, "idle", NoJob) /\ UNCHANGED crashes /\ pc[s] = "finish"
    BY <1>6 DEF Finish, Done
  <2>2. Whole(tx[s], db)
    BY <2>1 DEF BInv, SessionsFit, Fit, Waiting
  <2>3. ASSUME NEW m \in Matches, Carries(pc[s], job[s], m) \/ tx[s].matches[m] = "PENDING"
        PROVE  AnnouncedIn(m[1], db')
    <3>1. m[1] \in Loads
      BY DEF Matches
    <3>2. \E kind \in NotificationType \ {"BROADCAST"} :
            Informed(m[1], kind, pc[s], job[s], tx[s], db)
      BY <1>1, <2>1, <2>3
         DEF Carries, MatchOf, Informs, InformsOfMatch, InformsOnTime, NotificationType
    <3> QED BY <1>1, <2>1, <3>1, <3>2, InformedCommits
  <2>4. Informs("idle", NoJob, NoWrites, db')
    BY NothingInforms, NoWritesInform
  <2>5. InformsAll(pc[s], job[s], tx[s], db)
    BY <1>1 DEF Informs
  <2> QED BY <1>1, <2>1, <2>2, <2>3, <2>4, <2>5, WholeMatches, CommitAnnounces
<1> QED BY <1>3, <1>4, <1>5, <1>6 DEF NotifyStep

-----------------------------------------------------------------------------
(* The lists that sessions start *)

LEMMA ListStarts ==
  ASSUME NEW s, NEW j \in Jobs, NEW todo, NEW after, StartNotices(s, j, todo, after)
  PROVE  \E i : /\ Goto(s, "notify", i) /\ i.todo = todo /\ i.after = after
                /\ i.op = j.op /\ i.load = j.load /\ MatchOf(i) = MatchOf(j)
<1> DEFINE i == [j EXCEPT !.todo = todo, !.after = after]
<1>1. /\ i.todo = todo /\ i.after = after
      /\ i.op = j.op /\ i.load = j.load /\ MatchOf(i) = MatchOf(j)
  BY DEF Jobs, MatchOf
<1>2. Goto(s, "notify", i)
  BY DEF StartNotices
<1> HIDE DEF i
<1> QED BY <1>1, <1>2

\* Writes v on tables e have the notices that writes w on tables d had, and no more.
SameNotices(w, d, v, e) ==
  /\ \A k \in Notices : k[3] # "BROADCAST" /\ Noted(k, w, d) => Noted(k, v, e)
  /\ \A k \in Notices : k[3] # "BROADCAST" /\ v.notices[k] # NoWrite => w.notices[k] # NoWrite

\* A list for everybody informs of its load.
LEMMA ListInforms ==
  ASSUME NEW p, p \notin {"notify", "send"}, NEW j, NEW w, NEW d, InformsAll(p, j, w, d),
         NEW v, NEW e, SameNotices(w, d, v, e), NEW i, NEW l \in Loads,
         NEW kind \in NotificationType \ {"BROADCAST"}, Invites(i.todo, l, kind),
         i.after = "finish" => i.load = l
  PROVE  /\ Remembers(p, j, w, d, "notify", i, v, e)
         /\ InformsAll("notify", i, v, e) /\ InformsOfMatch("notify", i, v, e)
<1>1. Remembers(p, j, w, d, "notify", i, v, e)
  BY DEF Remembers, SameNotices, Listed
<1>2. Informed(l, kind, "notify", i, v, e)
  BY InvitesInforms
<1>3. \A k \in Notices : Listed(k, "notify", i) => k[2] = l /\ k[3] = kind
  BY DEF Listed, Invites
<1>4. InformsAll("notify", i, v, e)
  BY <1>1, <1>2, <1>3, AllStays DEF SameNotices
<1>5. InformsOfMatch("notify", i, v, e)
  BY <1>2 DEF InformsOfMatch, Invites
<1> QED BY <1>1, <1>4, <1>5

\* A list of broadcasts informs nobody, and nobody counts on it.
LEMMA BroadcastInforms ==
  ASSUME NEW p, p \notin {"notify", "send"}, NEW j, NEW w, NEW d, InformsAll(p, j, w, d),
         NEW v, NEW e, SameNotices(w, d, v, e), NEW i, i.after # "finish",
         \A n \in 1..Len(i.todo) : i.todo[n][3] = "BROADCAST"
  PROVE  /\ Remembers(p, j, w, d, "notify", i, v, e)
         /\ InformsAll("notify", i, v, e) /\ InformsOfMatch("notify", i, v, e)
<1>1. Remembers(p, j, w, d, "notify", i, v, e)
  BY DEF Remembers, SameNotices, Listed
<1>2. \A k \in Notices : Listed(k, "notify", i) => k[3] = "BROADCAST"
  BY DEF Listed
<1>3. InformsAll("notify", i, v, e)
  BY <1>1, <1>2, AllStays DEF SameNotices
<1>4. InformsOfMatch("notify", i, v, e)
  BY DEF InformsOfMatch
<1> QED BY <1>1, <1>3, <1>4

\* A session that has just committed starts its list from nothing.
LEMMA NothingBefore ==
  \A d : /\ InformsAll("idle", NoJob, NoWrites, d) /\ SameNotices(NoWrites, d, NoWrites, d)
         /\ \A p, j : InformsOnTime(p, j, NoWrites, d)
  BY NoWritesInform DEF InformsAll, InformsOnTime, SameNotices, Listed

-----------------------------------------------------------------------------
(* Making matches *)

LEMMA ProbeMatchAnnounces ==
  ASSUME IInv, BInv, AnnounceInv, NEW s \in SessionIds, ProbeMatch(s)
  PROVE  Announces
<1>1. pc[s] = "probe_match" /\ UNCHANGED <<db, tx, crashes>>
  BY DEF ProbeMatch
<1>2. CASE \E p \in {"insert_match", "scan", "record_interest"} : Goto(s, p, job[s])
  BY <1>1, <1>2, PhaseAnnounces
<1>3. CASE job[s].op \notin {"proactive", "register_interest"} /\ Goto(s, "idle", NoJob)
  <2>1. Unseen(tx[s])
    BY <1>1, <1>3 DEF BInv, SessionsFit, Fit
  <2>2. \A m \in Matches : tx[s].matches[m] # "PENDING"
    BY <2>1 DEF Unseen, NoWrite
  <2> QED BY <1>1, <1>3, <2>2, PhaseAnnounces
<1> QED BY <1>2, <1>3 DEF ProbeMatch, AfterExistingMatch, Done

LEMMA InsertMatchAnnounces ==
  ASSUME IInv, BInv, AnnounceInv, NEW s \in SessionIds, InsertMatch(s)
  PROVE  Announces
<1> DEFINE m == JobMatch(s)
           w == KeyWrites(s)
<1>1. /\ m = MatchOf(job[s]) /\ tx[s] \in Writes /\ Fit("insert_match", job[s], tx[s], db)
      /\ Informs("insert_match", job[s], tx[s], db) /\ pc[s] = "insert_match"
  BY DEF InsertMatch, JobMatch, MatchOf, BInv, SessionsFit, IInv, DataInv, AnnounceInv
<1>2. /\ tx' = [tx EXCEPT ![s] = w] /\ UNCHANGED <<db, crashes>>
      /\ Goto(s, "mark_matched", job[s])
  BY DEF InsertMatch, Stage
<1>3. w.notices = tx[s].notices /\ \A n \in Matches : n # m => w.matches[n] = tx[s].matches[n]
  BY <1>1 DEF KeyWrites, Writes
<1> HIDE DEF w, m
<1>4. Remembers("insert_match", job[s], tx[s], db, "mark_matched", job[s], w, db)
  BY <1>3 DEF Remembers, Noted, Listed
<1>5. InformsAll("mark_matched", job[s], w, db)
  BY <1>1, <1>3, <1>4, AllStays DEF Listed, Informs
<1>6. InformsOnTime("mark_matched", job[s], w, db)
  <2> SUFFICES ASSUME NEW n \in Matches, w.matches[n] = "PENDING", n # m
               PROVE  /\ job[s].op = "proactive"
                      /\ Informed(n[1], "PROACTIVE_MATCH", "mark_matched", job[s], w, db)
    BY <1>1 DEF InformsOnTime
  <2>1. /\ job[s].op = "proactive" /\ n[1] \in Loads
        /\ Informed(n[1], "PROACTIVE_MATCH", "insert_match", job[s], tx[s], db)
    BY <1>1, <1>3 DEF Informs, InformsOnTime, Matches
  <2>2. "PROACTIVE_MATCH" \in NotificationType \ {"BROADCAST"}
    BY DEF NotificationType
  <2> QED BY <1>4, <2>1, <2>2, InformedStays DEF Remembers
<1>7. InformsOfMatch("mark_matched", job[s], w, db)
  BY DEF InformsOfMatch
<1>8. \A n : ~ Carries(pc[s], job[s], n)
  BY <1>1 DEF Carries
<1> QED BY <1>2, <1>5, <1>6, <1>7, <1>8, StayAnnounces DEF Informs

LEMMA MarkMatchedAnnounces ==
  ASSUME IInv, BInv, AnnounceInv, NEW s \in SessionIds, MarkMatched(s)
  PROVE  Announces
<1> DEFINE l == job[s].load
           t == job[s].truck
           m == JobMatch(s)
           j == [job[s] EXCEPT !.memo[l] = MatchedStatus(@)]
           w == MatchWrites(s)
<1>1. /\ job[s] \in Jobs /\ l \in Loads /\ t \in Trucks /\ m \in Matches /\ m[1] = l
      /\ MatchOf(job[s]) = m /\ pc[s] = "mark_matched"
  BY JobMatchType DEF MarkMatched, NeedTruck, JobMatch, MatchOf
<1>2. /\ Fit("mark_matched", job[s], tx[s], db) /\ tx[s] \in Writes
      /\ Informs("mark_matched", job[s], tx[s], db)
  BY <1>1 DEF BInv, SessionsFit, IInv, DataInv, AnnounceInv
<1>3. w \in Writes
  BY <1>1, MatchWritesSafe DEF SafeWrites
<1>4. w.notices = tx[s].notices /\ w.matches = tx[s].matches /\ w.matches[m] = "PENDING"
  BY <1>1, <1>2 DEF MatchWrites, Writes, Fit
<1>5. j \in Jobs /\ j.op = job[s].op /\ j.load = l /\ MatchOf(j) = m
  BY <1>1 DEF Jobs, MatchOf, MatchedStatus, LoadStatus
<1>6. SaveMatch(s) /\ UNCHANGED crashes
  BY DEF MarkMatched
<1>7. \/ job[s].op \in {"create_load", "create_truck"} /\ Goto(s, "process_match", j)
      \/ job[s].op = "register_interest" /\ Goto(s, "record_interest", j)
      \/ /\ job[s].op = "proactive"
         /\ \E admin \in AdminChoices :
              StartNotices(s, j, MatchNotices(l, t, admin, "PROACTIVE_MATCH"), "scan")
  BY DEF MarkMatched
<1> HIDE DEF w, j, m
<1>8. SameNotices(tx[s], db, w, db)
  BY <1>4 DEF SameNotices, Noted
<1>9. CASE job[s].op \in {"create_load", "create_truck"} /\ Goto(s, "process_match", j)
  <2>1. Commit(s, w)
    BY <1>6, <1>9 DEF SaveMatch, w
  <2>2. Proposal(tx[s], db)
    <3>1. Whole(tx[s], db)
      BY <1>2, <1>9 DEF Fit, Waiting
    <3> QED BY <1>1, <1>4, <3>1, WholeProposes
  <2>3. \A n \in Matches : w.matches[n] = "PENDING" => n = m
    BY <1>1, <1>2, <1>4, <1>9 DEF Informs, InformsOnTime
  <2>4. InformsAll("mark_matched", job[s], w, db)
    BY <1>1, <1>4, OwnCommit
  <2>5. Informs("process_match", j, NoWrites, db')
    BY NothingInforms, NoWritesInform
  <2>6. \A n \in Matches : Carries(pc[s], job[s], n) \/ w.matches[n] = "PENDING" =>
          Carries("process_match", j, n)
    BY <1>1, <1>5, <2>3 DEF Carries, NoWrite
  <2>7. \A n \in Matches : w.matches[n] \notin {NoWrite, "PENDING"} => db.matches[n] # Absent
    BY <1>4, <2>2 DEF Proposal
  <2> QED BY <1>3, <1>6, <1>9, <2>1, <2>4, <2>5, <2>6, <2>7, CommitAnnounces
<1>10. CASE job[s].op = "register_interest" /\ Goto(s, "record_interest", j)
  <2>1. tx' = [tx EXCEPT ![s] = w] /\ UNCHANGED <<db, crashes>>
    BY <1>6, <1>10 DEF SaveMatch, Stage, w
  <2>2. \A n \in Matches : w.matches[n] = "PENDING" => n = m
    BY <1>1, <1>2, <1>4, <1>10 DEF Informs, InformsOnTime
  <2>3. InformsAll("record_interest", j, w, db)
    <3>1. Remembers("mark_matched", job[s], tx[s], db, "record_interest", j, w, db)
      BY <1>8 DEF Remembers, SameNotices, Listed
    <3> QED BY <1>2, <1>4, <3>1, AllStays DEF Listed, Informs
  <2>4. InformsOnTime("record_interest", j, w, db)
    BY <1>4, <1>5, <1>10, <2>2 DEF InformsOnTime, NoWrite
  <2>5. InformsOfMatch("record_interest", j, w, db)
    BY DEF InformsOfMatch
  <2>6. \A n : ~ Carries(pc[s], job[s], n)
    BY <1>1 DEF Carries
  <2> QED BY <1>10, <2>1, <2>3, <2>4, <2>5, <2>6, StayAnnounces DEF Informs
<1>11. CASE /\ job[s].op = "proactive"
            /\ \E admin \in AdminChoices :
                 StartNotices(s, j, MatchNotices(l, t, admin, "PROACTIVE_MATCH"), "scan")
  <2>1. tx' = [tx EXCEPT ![s] = w] /\ UNCHANGED <<db, crashes>>
    BY <1>6, <1>11 DEF SaveMatch, Stage, w
  <2>2. PICK admin \in AdminChoices :
          StartNotices(s, j, MatchNotices(l, t, admin, "PROACTIVE_MATCH"), "scan")
    BY <1>11
  <2> DEFINE todo == MatchNotices(l, t, admin, "PROACTIVE_MATCH")
  <2>3. PICK i : Goto(s, "notify", i) /\ i.todo = todo /\ i.after = "scan" /\ i.op = j.op
    BY <1>5, <2>2, ListStarts
  <2>4. "PROACTIVE_MATCH" \in NotificationType \ {"BROADCAST"}
    BY DEF NotificationType
  <2>5. Invites(i.todo, l, "PROACTIVE_MATCH")
    BY <1>1, <2>3, <2>4, ListsInvite
  <2>6. /\ Remembers("mark_matched", job[s], tx[s], db, "notify", i, w, db)
        /\ InformsAll("notify", i, w, db) /\ InformsOfMatch("notify", i, w, db)
    BY <1>1, <1>2, <1>8, <2>3, <2>4, <2>5, ListInforms DEF Informs
  <2>7. ASSUME NEW n \in Matches, w.matches[n] = "PENDING"
        PROVE  Informed(n[1], "PROACTIVE_MATCH", "notify", i, w, db)
    <3>1. CASE n = m
      BY <1>1, <2>5, <3>1, InvitesInforms
    <3>2. CASE n # m
      <4>1. Informed(n[1], "PROACTIVE_MATCH", "mark_matched", job[s], tx[s], db) /\ n[1] \in Loads
        BY <1>1, <1>2, <1>4, <2>7, <3>2 DEF Informs, InformsOnTime, Matches
      <4> QED BY <2>4, <2>6, <4>1, InformedStays DEF Remembers
    <3> QED BY <3>1, <3>2
  <2>8. InformsOnTime("notify", i, w, db)
    BY <1>5, <1>11, <2>3, <2>7 DEF InformsOnTime
  <2>9. \A n : ~ Carries(pc[s], job[s], n)
    BY <1>1 DEF Carries
  <2> QED BY <2>1, <2>3, <2>6, <2>8, <2>9, StayAnnounces DEF Informs
<1> QED BY <1>7, <1>9, <1>10, <1>11

\* A session without matches of its own starts the list for its load.
LEMMA ListAnnounces ==
  ASSUME IInv, AnnounceInv, NEW s \in SessionIds, pc[s] \notin {"notify", "send"},
         NEW w, tx' = [tx EXCEPT ![s] = w], UNCHANGED <<db, crashes>>,
         w.notices = tx[s].notices, \A m \in Matches : w.matches[m] # "PENDING",
         NEW j \in Jobs, j.load \in Loads, MatchOf(j) = MatchOf(job[s]), NEW todo,
         StartNotices(s, j, todo, "finish"),
         NEW kind \in NotificationType \ {"BROADCAST"}, Invites(todo, j.load, kind),
         \A m \in Matches : Carries(pc[s], job[s], m) =>
           j.op \in {"create_load", "create_truck", "register_interest"}
  PROVE  Announces
<1>1. PICK i : /\ Goto(s, "notify", i) /\ i.todo = todo /\ i.after = "finish" /\ i.op = j.op
               /\ i.load = j.load /\ MatchOf(i) = MatchOf(j)
  BY ListStarts
<1>2. SameNotices(tx[s], db, w, db) /\ InformsAll(pc[s], job[s], tx[s], db)
  BY DEF SameNotices, Noted, AnnounceInv, Informs
<1>3. InformsAll("notify", i, w, db) /\ InformsOfMatch("notify", i, w, db)
  BY <1>1, <1>2, ListInforms
<1>4. InformsOnTime("notify", i, w, db)
  BY DEF InformsOnTime
<1>5. \A m \in Matches : Carries(pc[s], job[s], m) => Carries("notify", i, m)
  BY <1>1 DEF Carries
<1> QED BY <1>1, <1>3, <1>4, <1>5, StayAnnounces DEF Informs

LEMMA MatchAnnounces ==
  ASSUME IInv, BInv, AnnounceInv, NEW s \in SessionIds, MatchStep(s)
  PROVE  Announces
<1>1. CASE MatchConflict(s)
  <2>1. \A n : ~ Carries(pc[s], job[s], n)
    BY <1>1 DEF Carries, MatchConflict
  <2> QED BY <1>1, <2>1, AbandonAnnounces DEF MatchConflict
<1>2. ASSUME pc[s] = "process_match"
      PROVE  /\ job[s] \in Jobs /\ job[s].load \in Loads /\ job[s].truck \in Trucks
             /\ JobMatch(s) \in Matches /\ tx[s] \in Writes /\ Unseen(tx[s])
             /\ job[s].op \in {"create_load", "create_truck"}
  BY <1>2, JobMatchType DEF NeedTruck, IInv, DataInv, BInv, SessionsFit, Fit, Knows
<1>3. /\ "MATCH_FOUND" \in NotificationType \ {"BROADCAST"}
      /\ "AUTO_CONNECTED" \in NotificationType \ {"BROADCAST"}
  BY DEF NotificationType
<1>4. CASE MediateMatch(s)
  <2>1. /\ pc[s] = "process_match" /\ tx' = [tx EXCEPT ![s] = tx[s]] /\ UNCHANGED <<db, crashes>>
    BY <1>4 DEF MediateMatch, IInv, DataInv
  <2>2. PICK admin \in AdminChoices : StartNotices(s, job[s],
          MatchNotices(job[s].load, job[s].truck, admin, "MATCH_FOUND"), "finish")
    BY <1>4 DEF MediateMatch
  <2> DEFINE todo == MatchNotices(job[s].load, job[s].truck, admin, "MATCH_FOUND")
  <2>3. Invites(todo, job[s].load, "MATCH_FOUND")
    BY <1>2, <1>3, <2>1, ListsInvite
  <2>4. \A m \in Matches : tx[s].matches[m] # "PENDING"
    BY <1>2, <2>1 DEF Unseen, NoWrite
  <2>5. StartNotices(s, job[s], todo, "finish")
    BY <2>2
  <2> HIDE DEF todo
  <2> QED BY <1>2, <1>3, <2>1, <2>3, <2>4, <2>5, ListAnnounces
<1>5. CASE AutoConnect(s)
  <2> DEFINE l == job[s].load
             m == JobMatch(s)
             st == Assign(job[s].memo[l], "CONNECTED")
             w == [tx[s] EXCEPT !.matches[m] = "CONNECTED", !.loads[l] = st]
             j == [job[s] EXCEPT !.memo[l] = "CONNECTED"]
  <2>1. PICK admin \in AdminChoices :
          StartNotices(s, j, MatchNotices(l, job[s].truck, admin, "AUTO_CONNECTED"), "finish")
    BY <1>5 DEF AutoConnect
  <2>2. tx' = [tx EXCEPT ![s] = w] /\ UNCHANGED <<db, crashes>> /\ pc[s] = "process_match"
    BY <1>5 DEF AutoConnect, Stage
  <2> HIDE DEF st
  <2>3. /\ w.notices = tx[s].notices
        /\ \A n \in Matches : w.matches[n] = IF n = m THEN "CONNECTED" ELSE tx[s].matches[n]
    BY <1>2, <2>2 DEF Writes
  <2> HIDE DEF w
  <2>4. \A n \in Matches : w.matches[n] # "PENDING"
    BY <1>2, <2>2, <2>3 DEF Unseen, NoWrite
  <2>5. j \in Jobs /\ j.load = l /\ j.op = job[s].op /\ MatchOf(j) = MatchOf(job[s])
    BY <1>2, <2>2 DEF Jobs, LoadStatus, MatchOf
  <2> DEFINE todo == MatchNotices(l, job[s].truck, admin, "AUTO_CONNECTED")
  <2>6. Invites(todo, l, "AUTO_CONNECTED")
    BY <1>2, <1>3, <2>2, ListsInvite
  <2>7. StartNotices(s, j, todo, "finish")
    BY <2>1
  <2> HIDE DEF todo, j
  <2> QED BY <1>2, <1>3, <2>2, <2>3, <2>4, <2>5, <2>6, <2>7, ListAnnounces
<1> QED BY <1>1, <1>4, <1>5, ProbeMatchAnnounces, InsertMatchAnnounces,
           MarkMatchedAnnounces DEF MatchStep

-----------------------------------------------------------------------------
(* Requests *)

LEMMA SearchAnnounces ==
  ASSUME IInv, BInv, AnnounceInv, NEW s \in SessionIds, SearchTruck(s) \/ SearchLoad(s)
  PROVE  Announces
<1>1. /\ pc[s] = "search" /\ UNCHANGED <<db, tx, crashes>>
      /\ \E p \in {"probe_match", "no_match", "idle"} : \E j : Goto(s, p, j)
  BY DEF SearchTruck, SearchLoad, Done
<1>2. Unseen(tx[s])
  BY <1>1 DEF BInv, SessionsFit, Fit, SearchTruck, SearchLoad
<1>3. \A m \in Matches : tx[s].matches[m] # "PENDING"
  BY <1>2 DEF Unseen, NoWrite
<1> QED BY <1>1, <1>3, PhaseAnnounces

LEMMA SetWaitingAnnounces ==
  ASSUME IInv, AnnounceInv, NEW s \in SessionIds, SetWaiting(s)
  PROVE  Announces
<1> DEFINE l == job[s].load
           st == Assign(job[s].memo[l], "WAITING_FOR_MATCH")
           j == [job[s] EXCEPT !.memo[l] = "WAITING_FOR_MATCH"]
           todo == NoticesFor(<<ShipperOf[l]>>, l, "BROADCAST")
<1>1. /\ Commit(s, OneLoad(l, st)) /\ UNCHANGED crashes /\ pc[s] = "no_match"
      /\ StartNotices(s, j, todo, "audience")
  BY DEF SetWaiting, OneLoad
<1>2. l \in Loads /\ st \in LoadStatus \cup {NoWrite} /\ job[s] \in Jobs
  BY DEF IInv, ControlInv, JobReady, NeedLoad, SetWaiting, Assign, LoadStatus
<1>3. j \in Jobs
  BY <1>2 DEF Jobs, LoadStatus
<1>4. \A n \in 1..Len(todo) : todo[n][3] = "BROADCAST"
  BY <1>2, Parties, OwnNoticesAbout
<1> HIDE DEF st, j, todo
<1>5. /\ OneLoad(l, st) \in Writes /\ \A m \in Matches : OneLoad(l, st).matches[m] = NoWrite
      /\ \A k \in Notices : OneLoad(l, st).notices[k] = NoWrite
  BY <1>2, LoadWrites
<1>6. PICK i : Goto(s, "notify", i) /\ i.todo = todo /\ i.after = "audience"
  BY <1>1, <1>3, ListStarts
<1>7. InformsAll("notify", i, NoWrites, db') /\ InformsOfMatch("notify", i, NoWrites, db')
  BY <1>4, <1>6, NothingBefore, BroadcastInforms
<1>8. Informs("notify", i, NoWrites, db')
  BY <1>7, NothingBefore DEF Informs
<1> QED BY <1>1, <1>5, <1>6, <1>8, PlainAnnounces

\* What waits in a transaction outside record_interest is told when it is committed.
LEMMA PendingIsTold ==
  ASSUME IInv, AnnounceInv, NEW s \in SessionIds,
         pc[s] \notin {"mark_matched", "notify", "send"},
         NEW w \in Writes, Commit(s, w), NEW m \in Matches,
         tx[s].matches[m] = "PENDING", pc[s] # "record_interest" \/ job[s].op = "proactive",
         \A k \in Notices : k[3] # "BROADCAST" => w.notices[k] = tx[s].notices[k]
  PROVE  AnnouncedIn(m[1], db')
<1>1. Informed(m[1], "PROACTIVE_MATCH", pc[s], job[s], tx[s], db)
  BY DEF AnnounceInv, Informs, InformsOnTime
<1>2. m[1] \in Loads /\ "PROACTIVE_MATCH" \in NotificationType \ {"BROADCAST"}
  BY DEF Matches, NotificationType
<1>3. Informed(m[1], "PROACTIVE_MATCH", pc[s], job[s], w, db)
  <2>1. \A k \in Notices : k[3] # "BROADCAST" /\ Noted(k, tx[s], db) => Noted(k, w, db)
    BY DEF Noted
  <2> QED BY <1>1, <1>2, <2>1, InformedStays
<1> QED BY <1>2, <1>3, InformedCommits

LEMMA BroadcastAnnounces ==
  ASSUME IInv, BInv, AnnounceInv, NEW s \in SessionIds, SelectAudience(s) \/ BroadcastNext(s)
  PROVE  Announces
<1>1. /\ pc[s] \in {"audience", "broadcast"} /\ job[s] \in Jobs /\ tx[s] \in Writes
      /\ Informs(pc[s], job[s], tx[s], db) /\ job[s].after # "finish" /\ job[s].load \in Loads
  BY DEF SelectAudience, BroadcastNext, IInv, ControlInv, DataInv, AnnounceInv, Informs,
         InformsOfMatch, JobReady, NeedLoad
<1>2. CASE SelectAudience(s)
  <2> DEFINE j == [job[s] EXCEPT !.audience = EligibleCarriers(job[s].load)]
  <2>1. Commit(s, tx[s]) /\ Goto(s, "broadcast", j) /\ UNCHANGED crashes
    BY <1>2 DEF SelectAudience
  <2>2. j.after # "finish"
    BY <1>1 DEF Jobs
  <2> HIDE DEF j
  <2>3. Informs("broadcast", j, NoWrites, db')
    BY <2>2, NothingInforms, NoWritesInform
  <2>4. ASSUME NEW m \in Matches, Carries(pc[s], job[s], m) \/ tx[s].matches[m] = "PENDING"
        PROVE  AnnouncedIn(m[1], db')
    BY <1>1, <2>1, <2>4, PendingIsTold DEF Carries
  <2>5. Whole(tx[s], db)
    BY <1>1 DEF BInv, SessionsFit, Fit, Waiting
  <2> QED BY <1>1, <2>1, <2>3, <2>4, <2>5, WholeMatches, CommitAnnounces DEF Informs
<1>3. CASE BroadcastNext(s)
  <2>1. UNCHANGED <<db, tx, crashes>> /\ tx' = [tx EXCEPT ![s] = tx[s]] /\ pc[s] = "broadcast"
    BY <1>3 DEF BroadcastNext, IInv, DataInv
  <2>2. CASE Goto(s, "finish", job[s])
    BY <1>1, <2>1, <2>2, PhaseAnnounces
  <2>3. CASE \E u \in job[s].audience :
               StartNotices(s, [job[s] EXCEPT !.audience = @ \ {u}],
                 NoticesFor(<<u>>, job[s].load, "BROADCAST"), "broadcast")
    <3>1. PICK u \in job[s].audience :
            StartNotices(s, [job[s] EXCEPT !.audience = @ \ {u}],
              NoticesFor(<<u>>, job[s].load, "BROADCAST"), "broadcast")
      BY <2>3
    <3> DEFINE j == [job[s] EXCEPT !.audience = @ \ {u}]
               todo == NoticesFor(<<u>>, job[s].load, "BROADCAST")
    <3>2. j \in Jobs /\ j.op = job[s].op /\ u \in Users
      BY <1>1 DEF Jobs
    <3>3. \A n \in 1..Len(todo) : todo[n][3] = "BROADCAST"
      BY <1>1, <3>2, OwnNoticesAbout
    <3>4. StartNotices(s, j, todo, "broadcast")
      BY <3>1
    <3> HIDE DEF j, todo
    <3>5. PICK i : Goto(s, "notify", i) /\ i.todo = todo /\ i.after = "broadcast" /\ i.op = j.op
      BY <3>2, <3>4, ListStarts
    <3>6. SameNotices(tx[s], db, tx[s], db) /\ InformsAll("broadcast", job[s], tx[s], db)
      BY <1>1, <2>1 DEF SameNotices, Informs
    <3>7. /\ Remembers("broadcast", job[s], tx[s], db, "notify", i, tx[s], db)
          /\ InformsAll("notify", i, tx[s], db) /\ InformsOfMatch("notify", i, tx[s], db)
      BY <3>3, <3>5, <3>6, BroadcastInforms
    <3>8. InformsOnTime("notify", i, tx[s], db)
      BY <1>1, <2>1, <3>2, <3>5, <3>7, OnTimeStays DEF Informs
    <3>9. \A m : ~ Carries(pc[s], job[s], m)
      BY <2>1 DEF Carries
    <3> QED BY <2>1, <3>5, <3>7, <3>8, <3>9, StayAnnounces DEF Informs
  <2> QED BY <1>3, <2>2, <2>3 DEF BroadcastNext
<1> QED BY <1>2, <1>3

LEMMA RecordInterestAnnounces ==
  ASSUME IInv, BInv, AnnounceInv, NEW s \in SessionIds, RecordInterest(s)
  PROVE  Announces
<1> DEFINE l == job[s].load
           k == <<CarrierOf[job[s].truck], l, "BROADCAST">>
           st == IF db.notices[k] = Absent THEN NoWrite ELSE Assign(db.notices[k], "INTERESTED")
           w == [tx[s] EXCEPT !.notices[k] = st]
<1>1. Commit(s, w) /\ pc[s] = "record_interest" /\ UNCHANGED crashes
  BY DEF RecordInterest
<1>2. PICK admin \in AdminChoices : StartNotices(s, job[s], InterestNotices(l, admin), "finish")
  BY DEF RecordInterest
<1>3. /\ k \in Notices /\ k[3] = "BROADCAST" /\ l \in Loads /\ job[s] \in Jobs /\ tx[s] \in Writes
  BY <1>1, Parties, JobMatchType DEF NeedTruck, Notices, NotificationType, IInv, DataInv
<1>4. st \in NotificationStatus \cup {NoWrite}
  BY DEF Assign, NotificationStatus
<1> HIDE DEF st, k
<1>5. /\ w \in Writes /\ w.matches = tx[s].matches
      /\ \A n \in Notices : n[3] # "BROADCAST" => w.notices[n] = tx[s].notices[n]
  BY <1>3, <1>4 DEF Writes
<1> HIDE DEF w
<1>6. InformsAll("record_interest", job[s], w, db)
  BY <1>1, <1>5, OwnCommit
<1>7. PICK i : /\ Goto(s, "notify", i) /\ i.todo = InterestNotices(l, admin)
               /\ i.after = "finish" /\ i.op = job[s].op /\ i.load = l
               /\ MatchOf(i) = MatchOf(job[s])
  BY <1>2, <1>3, ListStarts
<1>8. "INTEREST_RECEIVED" \in NotificationType \ {"BROADCAST"}
  BY DEF NotificationType
<1>9. Invites(i.todo, l, "INTEREST_RECEIVED")
  BY <1>3, <1>7, ListsInvite
<1>10. InformsAll("notify", i, NoWrites, db') /\ InformsOfMatch("notify", i, NoWrites, db')
  BY <1>3, <1>7, <1>8, <1>9, NothingBefore, ListInforms
<1>11. Informs("notify", i, NoWrites, db')
  BY <1>10, NothingBefore DEF Informs
<1>12. ASSUME NEW m \in Matches, Carries(pc[s], job[s], m) \/ w.matches[m] = "PENDING"
       PROVE  Carries("notify", i, m) \/ AnnouncedIn(m[1], db')
  <2>1. tx[s].matches[m] = "PENDING"
    BY <1>1, <1>5, <1>12 DEF Carries
  <2>2. CASE job[s].op = "proactive"
    BY <1>1, <1>5, <2>1, <2>2, PendingIsTold
  <2>3. CASE job[s].op # "proactive"
    <3>1. job[s].op = "register_interest" /\ m = MatchOf(job[s])
      BY <1>1, <2>1, <2>3 DEF AnnounceInv, Informs, InformsOnTime
    <3> QED BY <1>7, <3>1 DEF Carries
  <2> QED BY <2>2, <2>3
<1>13. Whole(tx[s], db)
  BY <1>1 DEF BInv, SessionsFit, Fit, Waiting
<1>14. \A m \in Matches : w.matches[m] \notin {NoWrite, "PENDING"} => db.matches[m] # Absent
  BY <1>5, <1>13, WholeMatches
<1> QED BY <1>1, <1>5, <1>6, <1>7, <1>11, <1>12, <1>14, CommitAnnounces

LEMMA RequestAnnounces ==
  ASSUME IInv, BInv, AnnounceInv, NEW s \in SessionIds, RequestStep(s)
  PROVE  Announces
  BY SearchAnnounces, SetWaitingAnnounces, BroadcastAnnounces, RecordInterestAnnounces
     DEF RequestStep

-----------------------------------------------------------------------------
(* Admins, passes, and new work *)

\* A decision about a stored match is no news.
LEMMA DecisionAnnounces ==
  ASSUME IInv, AnnounceInv, NEW s \in SessionIds, NEW w \in Writes, Commit(s, w), Done(s),
         UNCHANGED crashes, pc[s] = "act", NEW m \in Matches, db.matches[m] # Absent,
         NEW ms \in MatchStatus \ {"PENDING"}, NEW ls \in LoadStatus, Decision(w, m, ms, ls),
         w.notices = NoWrites.notices
  PROVE  Announces
<1>1. \A n \in Matches : w.matches[n] # NoWrite => n = m /\ w.matches[n] = ms
  BY DEF Decision
<1>2. \A k \in Notices : w.notices[k] = NoWrite
  BY DEF NoWrites
<1>3. Informs("idle", NoJob, NoWrites, db')
  BY NothingInforms, NoWritesInform
<1> QED BY <1>1, <1>2, <1>3, PlainAnnounces DEF Done

LEMMA AdminAnnounces ==
  ASSUME IInv, BInv, AnnounceInv, NEW s \in SessionIds, AdminStep(s)
  PROVE  Announces
<1> DEFINE m == JobMatch(s)
           st == job[s].memo[job[s].load]
           kept == IF st \in {"CONNECTED", "CONFIRMED", "COMPLETED"}
                     THEN st ELSE "WAITING_FOR_MATCH"
<1>1. ASSUME NEW act \in MatchActions, Acting(s, act)
      PROVE  /\ job[s].load \in Loads /\ job[s].truck \in Trucks /\ ~ Newborn(job[s].load)
             /\ m = <<job[s].load, job[s].truck>> /\ m \in Matches /\ db.matches[m] # Absent
             /\ pc[s] = "act" /\ job[s] \in Jobs
  BY <1>1, ActingDecides DEF Acting
<1>2. ASSUME NEW ms \in MatchStatus \ {"PENDING"}, NEW ls \in LoadStatus, NEW ld \in LoadStatus,
             ls \in {ld, st}, NEW act \in MatchActions, Acting(s, act)
      PROVE  /\ StatusWrites(s, ms, ls) \in Writes
             /\ Decision(StatusWrites(s, ms, ls), m, ms, ld)
  BY <1>1, <1>2, StatusDecides
<1>3. /\ "ADMIN_CONTACTING" \in MatchStatus \ {"PENDING"} /\ "ADMIN_CONTACTING" \in LoadStatus
      /\ "CONNECTED" \in MatchStatus \ {"PENDING"} /\ "CONNECTED" \in LoadStatus
      /\ "REJECTED" \in MatchStatus \ {"PENDING"} /\ "WAITING_FOR_MATCH" \in LoadStatus
      /\ kept \in LoadStatus /\ kept \in {"WAITING_FOR_MATCH", st}
      /\ {"contact", "connect", "reject", "resend_notification"} = MatchActions
  BY DEF MatchStatus, LoadStatus, MatchActions
<1>4. \A ms, ls : StatusWrites(s, ms, ls).notices = NoWrites.notices
  BY DEF StatusWrites, NoWrites
<1> HIDE DEF m
<1>5. CASE AdminContact(s)
  BY <1>1, <1>2, <1>3, <1>4, <1>5, DecisionAnnounces DEF AdminContact
<1>6. CASE AdminReject(s)
  <2>1. /\ Commit(s, StatusWrites(s, "REJECTED", kept)) /\ Done(s) /\ Acting(s, "reject")
        /\ UNCHANGED crashes
    BY <1>6 DEF AdminReject
  <2> HIDE DEF kept, st
  <2>2. /\ StatusWrites(s, "REJECTED", kept) \in Writes
        /\ Decision(StatusWrites(s, "REJECTED", kept), m, "REJECTED", "WAITING_FOR_MATCH")
        /\ m \in Matches /\ db.matches[m] # Absent /\ pc[s] = "act"
    BY <1>1, <1>2, <1>3, <2>1 DEF st
  <2> QED BY <1>3, <1>4, <2>1, <2>2, DecisionAnnounces
<1>7. CASE AdminConnect(s)
  <2> DEFINE v == StatusWrites(s, "CONNECTED", "CONNECTED")
             w == ConnectWrites(s)
  <2>1. Commit(s, w) /\ Done(s) /\ Acting(s, "connect") /\ UNCHANGED crashes
    BY <1>7 DEF AdminConnect
  <2>2. v \in Writes /\ Decision(v, m, "CONNECTED", "CONNECTED") /\ m \in Matches
        /\ m = <<job[s].load, job[s].truck>> /\ db.matches[m] # Absent /\ pc[s] = "act"
        /\ job[s].load \in Loads /\ job[s].truck \in Trucks /\ v.notices = NoWrites.notices
    BY <1>1, <1>2, <1>3, <1>4, <2>1
  <2>3. w = [v EXCEPT !.trusted = {PairOf(m)}]
    BY DEF ConnectWrites, m
  <2>4. PairOf(m) \in Pairs
    BY <2>2, Parties DEF PairOf, Pairs
  <2> HIDE DEF v, w
  <2>5. /\ w \in Writes /\ w.matches = v.matches /\ w.loads = v.loads
        /\ w.interests = v.interests /\ w.notices = v.notices
    BY <2>2, <2>3, <2>4 DEF Writes
  <2>6. Decision(w, m, "CONNECTED", "CONNECTED")
    BY <2>2, <2>5 DEF Decision
  <2> QED BY <1>3, <2>1, <2>2, <2>5, <2>6, DecisionAnnounces
<1>8. CASE AdminCancelLoad(s)
  <2> DEFINE l == job[s].load
             new == Assign(job[s].memo[l], "CANCELLED")
  <2>1. Commit(s, OneLoad(l, new)) /\ Goto(s, "idle", NoJob) /\ UNCHANGED crashes /\ pc[s] = "act"
    BY <1>8 DEF AdminCancelLoad, OneLoad, Done, Acting
  <2>2. l \in Loads /\ new \in LoadStatus \cup {NoWrite}
    BY <1>8 DEF IInv, ControlInv, JobReady, NeedLoad, AdminCancelLoad, Acting, Assign, LoadStatus
  <2> HIDE DEF new
  <2>3. /\ OneLoad(l, new) \in Writes /\ \A n \in Matches : OneLoad(l, new).matches[n] = NoWrite
        /\ \A k \in Notices : OneLoad(l, new).notices[k] = NoWrite
    BY <2>2, LoadWrites
  <2>4. Informs("idle", NoJob, NoWrites, db')
    BY NothingInforms, NoWritesInform
  <2> QED BY <2>1, <2>3, <2>4, PlainAnnounces
<1>9. CASE ConnectConflict(s)
  <2>1. \A n : ~ Carries(pc[s], job[s], n)
    BY <1>9 DEF Carries, ConnectConflict, Acting
  <2> QED BY <1>9, <2>1, AbandonAnnounces DEF ConnectConflict
<1>10. CASE AdminResend(s)
  <2>1. PICK a \in Admins : StartNotices(s, job[s],
          MatchNotices(job[s].load, job[s].truck, <<a>>, "MATCH_FOUND"), "finish")
    BY <1>10 DEF AdminResend
  <2>2. /\ pc[s] = "act" /\ job[s].op = "resend_notification" /\ UNCHANGED <<db, crashes>>
        /\ tx' = [tx EXCEPT ![s] = tx[s]]
        /\ job[s] \in Jobs /\ job[s].load \in Loads /\ job[s].truck \in Trucks
    BY <1>1, <1>3, <1>10 DEF AdminResend, Acting, IInv, DataInv
  <2>3. Unseen(tx[s])
    BY <2>2 DEF BInv, SessionsFit, Fit
  <2>4. \A n \in Matches : tx[s].matches[n] # "PENDING"
    BY <2>3 DEF Unseen, NoWrite
  <2>5. "MATCH_FOUND" \in NotificationType \ {"BROADCAST"} /\ <<a>> \in AdminChoices
    BY DEF NotificationType, AdminChoices
  <2> DEFINE todo == MatchNotices(job[s].load, job[s].truck, <<a>>, "MATCH_FOUND")
  <2>6. Invites(todo, job[s].load, "MATCH_FOUND")
    BY <2>2, <2>5, ListsInvite
  <2>7. StartNotices(s, job[s], todo, "finish")
    BY <2>1
  <2>8. \A n : ~ Carries(pc[s], job[s], n)
    BY <2>2 DEF Carries
  <2> HIDE DEF todo
  <2> QED BY <2>2, <2>4, <2>5, <2>6, <2>7, <2>8, ListAnnounces
<1>11. CASE AdminFetchNext(s)
  <2> DEFINE j == Remember(s, job[s].load)
  <2>1. pc[s] = "fetch_load" /\ UNCHANGED <<db, tx, crashes>> /\ Goto(s, "act", j)
    BY <1>11 DEF AdminFetchNext
  <2>2. j.op = job[s].op
    BY DEF Remember, IInv, ControlInv, Jobs
  <2> HIDE DEF j
  <2> QED BY <2>1, <2>2, PhaseAnnounces
<1> QED BY <1>5, <1>6, <1>7, <1>8, <1>9, <1>10, <1>11 DEF AdminStep

LEMMA ScanAnnounces ==
  ASSUME IInv, BInv, AnnounceInv, NEW s \in SessionIds, ScanTruck(s) \/ ScanLoad(s)
  PROVE  Announces
<1>1. /\ pc[s] = "scan" /\ job[s].op = "proactive" /\ job[s] \in Jobs
      /\ UNCHANGED <<db, tx, crashes>>
  BY DEF ScanTruck, ScanLoad, BInv, SessionsFit, Knows, IInv, ControlInv
<1>2. PICK p, j : Goto(s, p, j) /\ p \in {"scan", "finish", "probe_match"} /\ j.op = "proactive"
  <2>1. CASE ScanTruck(s)
    <3>1. CASE Goto(s, "finish", job[s])
      BY <1>1, <3>1
    <3>2. CASE \E t, cc, mm :
                 Goto(s, "scan", [job[s] EXCEPT !.truck = t, !.scan = @ \ {t}, !.cand = cc,
                                                !.memo = mm])
      <4>1. PICK t, cc, mm :
              Goto(s, "scan", [job[s] EXCEPT !.truck = t, !.scan = @ \ {t}, !.cand = cc,
                                             !.memo = mm])
        BY <3>2
      <4> DEFINE j == [job[s] EXCEPT !.truck = t, !.scan = @ \ {t}, !.cand = cc, !.memo = mm]
      <4>2. j.op = "proactive"
        BY <1>1 DEF Jobs
      <4> HIDE DEF j
      <4> QED BY <4>1, <4>2 DEF j
    <3> QED BY <2>1, <3>1, <3>2 DEF ScanTruck
  <2>2. CASE ScanLoad(s)
    <3>1. PICK l \in job[s].cand :
            Goto(s, "probe_match", [job[s] EXCEPT !.load = l, !.cand = @ \ {l}])
      BY <2>2 DEF ScanLoad
    <3> DEFINE j == [job[s] EXCEPT !.load = l, !.cand = @ \ {l}]
    <3>2. j.op = "proactive"
      BY <1>1 DEF Jobs
    <3> HIDE DEF j
    <3> QED BY <3>1, <3>2 DEF j
  <2> QED BY <2>1, <2>2
<1> QED BY <1>1, <1>2, PhaseAnnounces

LEMMA RemindNextAnnounces ==
  ASSUME IInv, BInv, AnnounceInv, NEW s \in SessionIds, RemindNext(s)
  PROVE  Announces
<1>1. /\ pc[s] = "remind" /\ job[s] \in Jobs /\ tx[s] \in Writes /\ UNCHANGED <<db, crashes>>
      /\ Informs("remind", job[s], tx[s], db) /\ job[s].after # "finish"
  BY DEF RemindNext, Stage, IInv, DataInv, ControlInv, AnnounceInv, Informs, InformsOfMatch
<1>2. PICK k \in job[s].due : \E mm : LET j == [job[s] EXCEPT !.due = @ \ {k}, !.memo = mm] IN
        /\ Goto(s, IF j.due = {} THEN "finish" ELSE "remind", j)
        /\ \/ Stage(s, [tx[s] EXCEPT !.reminded = @ \cup {k}])
           \/ UNCHANGED <<db, tx, reminders>>
  BY DEF RemindNext
<1>3. PICK mm : LET j == [job[s] EXCEPT !.due = @ \ {k}, !.memo = mm] IN
        /\ Goto(s, IF j.due = {} THEN "finish" ELSE "remind", j)
        /\ \/ Stage(s, [tx[s] EXCEPT !.reminded = @ \cup {k}])
           \/ UNCHANGED <<db, tx, reminders>>
  BY <1>2
<1> DEFINE j == [job[s] EXCEPT !.due = @ \ {k}, !.memo = mm]
           p == IF j.due = {} THEN "finish" ELSE "remind"
           u == [tx[s] EXCEPT !.reminded = @ \cup {k}]
<1>4. j.after = job[s].after /\ j.op = job[s].op
  BY <1>1 DEF Jobs
<1>5. u.notices = tx[s].notices /\ u.matches = tx[s].matches
  BY <1>1 DEF Writes
<1>6. tx' = [tx EXCEPT ![s] = u] \/ tx' = [tx EXCEPT ![s] = tx[s]]
  BY <1>3 DEF Stage, IInv, DataInv
<1>7. Goto(s, p, j) /\ p \in {"finish", "remind"}
  BY <1>3
<1> HIDE DEF j, p, u
<1>8. PICK w : /\ tx' = [tx EXCEPT ![s] = w]
               /\ w.notices = tx[s].notices /\ w.matches = tx[s].matches
  BY <1>5, <1>6
<1>9. Remembers("remind", job[s], tx[s], db, p, j, w, db)
  BY <1>8 DEF Remembers, Noted, Listed
<1>10. InformsAll(p, j, w, db)
  BY <1>1, <1>7, <1>8, <1>9, AllStays DEF Informs, Listed
<1>11. InformsOnTime(p, j, w, db)
  BY <1>1, <1>4, <1>8, <1>9, OnTimeStays DEF Informs
<1>12. InformsOfMatch(p, j, w, db)
  BY <1>1, <1>4, <1>7 DEF InformsOfMatch
<1>13. \A m : ~ Carries(pc[s], job[s], m)
  BY <1>1 DEF Carries
<1> QED BY <1>1, <1>7, <1>8, <1>10, <1>11, <1>12, <1>13, StayAnnounces DEF Informs

LEMMA StartAnnounces ==
  ASSUME IInv, BInv, AnnounceInv, NEW s \in SessionIds, Start(s)
  PROVE  Announces
<1>1. pc[s] = "idle"
  BY DEF Start, CreateLoad, CreateTruck, PressInterest, AdminFetch, AdminFetchLoad, StartProactive,
         StartReminders
<1>2. Unseen(tx[s])
  BY <1>1 DEF BInv, SessionsFit, Fit
<1>3. CASE \E l \in Loads : CreateLoad(s, l)
  <2>1. PICK l \in Loads : CreateLoad(s, l)
    BY <1>3
  <2>2. Commit(s, OneLoad(l, "NEW")) /\ UNCHANGED crashes /\ \E j : Goto(s, "search", j)
    BY <2>1 DEF CreateLoad, OneLoad
  <2>3. /\ OneLoad(l, "NEW") \in Writes /\ \A m \in Matches : OneLoad(l, "NEW").matches[m] = NoWrite
        /\ \A k \in Notices : OneLoad(l, "NEW").notices[k] = NoWrite
    BY LoadWrites DEF LoadStatus
  <2>4. \A j : Informs("search", j, NoWrites, db')
    BY NothingInforms, NoWritesInform
  <2> QED BY <1>1, <2>2, <2>3, <2>4, PlainAnnounces
<1>4. CASE \E t \in Trucks : CreateTruck(s, t)
  <2>1. PICK t \in Trucks : CreateTruck(s, t)
    BY <1>4
  <2> DEFINE w == [NoWrites EXCEPT !.trucks = {t}]
  <2>2. /\ Commit(s, w) /\ UNCHANGED crashes
        /\ \E p \in {"search", "idle"} : \E j : Goto(s, p, j)
    BY <2>1 DEF CreateTruck, Done
  <2>3. w \in Writes /\ w.matches = NoWrites.matches /\ w.notices = NoWrites.notices
    BY PlainWritesSafe DEF SafeWrites, NoWrites
  <2> HIDE DEF w
  <2>4. \A m \in Matches : w.matches[m] = NoWrite
    BY <2>3, NoWritesInform
  <2>5. \A k \in Notices : w.notices[k] = NoWrite
    BY <2>3, NoWritesInform
  <2>6. \A p \in {"search", "idle"} : \A j : Informs(p, j, NoWrites, db')
    BY NothingInforms, NoWritesInform
  <2> QED BY <1>1, <2>2, <2>3, <2>4, <2>5, <2>6, PlainAnnounces
<1>5. CASE \E l \in Loads, t \in Trucks : PressInterest(s, l, t)
  <2>1. PICK l \in Loads, t \in Trucks : PressInterest(s, l, t)
    BY <1>5
  <2>2. PICK w : /\ tx' = [tx EXCEPT ![s] = w]
                 /\ w.matches = NoWrites.matches /\ w.notices = NoWrites.notices
    <3> DEFINE w == [NoWrites EXCEPT !.interests = {<<l, t>>}]
    <3>1. tx' = [tx EXCEPT ![s] = w]
      BY <2>1 DEF PressInterest, SaveInterest, Stage
    <3>2. w.matches = NoWrites.matches /\ w.notices = NoWrites.notices
      BY DEF NoWrites
    <3> HIDE DEF w
    <3> QED BY <3>1, <3>2
  <2>3. UNCHANGED <<db, crashes>> /\ \E j : Goto(s, "probe_match", j)
    BY <2>1 DEF PressInterest, SaveInterest, Stage
  <2>4. \A j : Informs("probe_match", j, w, db)
    BY <2>2, NothingInforms, NoWritesInform
  <2>5. \A m : ~ Carries(pc[s], job[s], m)
    BY <1>1 DEF Carries
  <2> QED BY <2>2, <2>3, <2>4, <2>5, StayAnnounces
<1>6. CASE \/ \E act \in Workload, m \in Matches : AdminFetch(s, act, m)
           \/ \E l \in Loads : AdminFetchLoad(s, l)
           \/ \E near \in SUBSET Trucks : StartProactive(s, near)
  <2>1. /\ UNCHANGED <<db, tx, crashes>>
        /\ \E p \in {"fetch_load", "act", "scan"} : \E j : Goto(s, p, j)
    BY <1>6 DEF AdminFetch, AdminFetchLoad, StartProactive
  <2>2. \A m \in Matches : tx[s].matches[m] # "PENDING"
    BY <1>2 DEF Unseen, NoWrite
  <2> QED BY <1>1, <2>1, <2>2, PhaseAnnounces
<1>7. CASE \E old \in SUBSET Remindable : StartReminders(s, old)
  <2>1. PICK old \in SUBSET Remindable : StartReminders(s, old)
    BY <1>7
  <2> DEFINE j == [NoJob EXCEPT !.op = "reminders", !.due = old]
  <2>2. UNCHANGED <<db, tx, crashes>> /\ Goto(s, "remind", j)
    BY <2>1 DEF StartReminders
  <2>3. j.after # "finish"
    BY DEF NoJob
  <2> HIDE DEF j
  <2>4. \A m \in Matches : tx[s].matches[m] # "PENDING"
    BY <1>2 DEF Unseen, NoWrite
  <2> QED BY <1>1, <2>2, <2>3, <2>4, PhaseAnnounces
<1> QED BY <1>3, <1>4, <1>5, <1>6, <1>7 DEF Start

-----------------------------------------------------------------------------
(* A death leaves one match unannounced at most *)

LEMMA CrashAnnounces ==
  ASSUME IInv, AnnounceInv, NEW s \in SessionIds, Crash(s)
  PROVE  /\ AnnounceInv' /\ crashes' = crashes + 1
         /\ Unannounced' \subseteq Unannounced \cup {MatchOf(job[s])}
<1>1. tx \in [SessionIds -> Writes] /\ pc \in [SessionIds -> Phases] /\ job \in [SessionIds -> Jobs]
  BY DEF IInv, DataInv, ControlInv
<1>2. /\ pc' = [pc EXCEPT ![s] = "idle"] /\ job' = [job EXCEPT ![s] = NoJob]
      /\ tx' = [tx EXCEPT ![s] = NoWrites] /\ UNCHANGED db /\ crashes' = crashes + 1
  BY DEF Crash, Abandon, Done, Goto
<1>3. /\ \A o \in SessionIds \ {s} : pc'[o] = pc[o] /\ job'[o] = job[o] /\ tx'[o] = tx[o]
      /\ pc'[s] = "idle" /\ job'[s] = NoJob /\ tx'[s] = NoWrites
  BY <1>1, <1>2
<1>4. Informs("idle", NoJob, NoWrites, db)
  BY NothingInforms, NoWritesInform
<1>5. \A o \in SessionIds : Informs(pc'[o], job'[o], tx'[o], db)
  BY <1>3, <1>4 DEF AnnounceInv
<1>6. AnnounceInv'
  BY <1>2, <1>5 DEF AnnounceInv, StoredInforms
<1>7. ASSUME NEW m \in Unannounced', m # MatchOf(job[s])
      PROVE  m \in Unannounced
  <2>1. /\ m \in Matches /\ db'.matches[m] # Absent /\ ~ AnnouncedIn(m[1], db')
        /\ \A o \in SessionIds : ~ Carries(pc'[o], job'[o], m)
    BY <1>7, UnannouncedMeans
  <2>2. ~ Carries(pc[s], job[s], m)
    BY <1>7 DEF Carries
  <2>3. \A o \in SessionIds : ~ Carries(pc[o], job[o], m)
    BY <1>3, <2>1, <2>2
  <2> QED BY <1>2, <2>1, <2>3, UnannouncedMeans
<1> QED BY <1>2, <1>6, <1>7

\* Unannounced matches are finitely many, and no more than the sessions that died.
FewUnannounced == IsFiniteSet(Unannounced) /\ Cardinality(Unannounced) <= crashes

LEMMA AnnouncesKeepsFew ==
  ASSUME FewUnannounced, crashes \in Nat, Announces
  PROVE  FewUnannounced'
<1>1. /\ IsFiniteSet(Unannounced') /\ Cardinality(Unannounced') <= Cardinality(Unannounced)
      /\ Cardinality(Unannounced) \in Nat /\ Cardinality(Unannounced') \in Nat
  BY FS_Subset, FS_CardinalityType DEF FewUnannounced, Announces
<1> QED BY <1>1 DEF FewUnannounced, Announces

LEMMA CrashKeepsAnnounced ==
  ASSUME IInv, AnnounceInv, FewUnannounced, NEW s \in SessionIds, Crash(s)
  PROVE  FewUnannounced'
<1>1. /\ Unannounced' \subseteq Unannounced \cup {MatchOf(job[s])}
      /\ crashes' = crashes + 1 /\ crashes \in Nat
  BY CrashAnnounces DEF IInv, OutsideInv
<1>2. /\ IsFiniteSet(Unannounced') /\ Cardinality(Unannounced') <= Cardinality(Unannounced) + 1
      /\ Cardinality(Unannounced) \in Nat /\ Cardinality(Unannounced') \in Nat
  BY <1>1, OneMore DEF FewUnannounced
<1> QED BY <1>1, <1>2 DEF FewUnannounced

\* Every match that is stored has been announced to its shipper and to an admin,
\* or a session is about to, except for one per session that died: a notice that
\* conflicts with another session's ends the request, but leaves nobody out
\* (notifications.create_notification and process_new_match).
THEOREM MatchesAreAnnounced == Spec => []MatchesAnnounced
<1>1. Init => AnnounceInv /\ FewUnannounced
  <2> SUFFICES ASSUME Init PROVE AnnounceInv /\ FewUnannounced
    OBVIOUS
  <2>1. Informs("idle", NoJob, NoWrites, db)
    BY NothingInforms, NoWritesInform
  <2>2. StoredInforms
    BY DEF Init, SessionsInit, EmptyTables, StoredInforms
  <2>3. AnnounceInv
    BY <2>1, <2>2 DEF Init, SessionsInit, AnnounceInv
  <2>4. Unannounced = {} /\ crashes = 0
    BY DEF Init, SessionsInit, EmptyTables, Unannounced
  <2>5. FewUnannounced
    BY <2>4, FS_EmptySet DEF FewUnannounced
  <2> QED BY <2>3, <2>5
<1>2. IInv /\ BInv /\ AnnounceInv /\ FewUnannounced /\ [Next]_vars
        => (AnnounceInv /\ FewUnannounced)'
  <2> SUFFICES ASSUME IInv, BInv, AnnounceInv, FewUnannounced, [Next]_vars
               PROVE  AnnounceInv' /\ FewUnannounced'
    OBVIOUS
  <2>1. CASE UNCHANGED vars
    <3>1. UNCHANGED <<db, tx, pc, job, crashes>>
      BY <2>1 DEF vars
    <3>2. Unannounced' = Unannounced
      BY <3>1, UnannouncedMeans
    <3> QED BY <3>1, <3>2 DEF AnnounceInv, StoredInforms, FewUnannounced
  <2>2. ASSUME Announces PROVE AnnounceInv' /\ FewUnannounced'
    BY <2>2, AnnouncesKeepsFew DEF Announces, IInv, OutsideInv
  <2>3. ASSUME NEW s \in SessionIds, Start(s) PROVE Announces
    BY <2>3, StartAnnounces
  <2>4. ASSUME NEW s \in SessionIds, Step(s) PROVE Announces
    BY <2>4, NotifyAnnounces, MatchAnnounces, RequestAnnounces, AdminAnnounces, ScanAnnounces,
       RemindNextAnnounces DEF Step, WorkerStep
  <2>5. ASSUME NEW s \in SessionIds, Crash(s) PROVE AnnounceInv' /\ FewUnannounced'
    BY <2>5, CrashAnnounces, CrashKeepsAnnounced
  <2> QED BY <2>1, <2>2, <2>3, <2>4, <2>5 DEF Next
<1>3. FewUnannounced => MatchesAnnounced
  BY DEF FewUnannounced, MatchesAnnounced
<1> QED BY <1>1, <1>2, <1>3, BothAlways, PTL DEF Spec
=============================================================================
