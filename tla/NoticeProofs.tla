---------------------------- MODULE NoticeProofs ----------------------------
(***************************************************************************)
(* Nobody is pushed the same notice twice, for any number of loads, trucks *)
(* and requests, except once more per session that died, as long as no     *)
(* proactive pass runs, and there is at most one admin.                    *)
(*                                                                         *)
(* A notice is pushed while its row is pending, so it is pushed again if   *)
(* the row is rolled back.  The point is that a conflict on one notice of  *)
(* a list finds no earlier one pending: the shipper's row, with which all  *)
(* lists of a kind about a load begin, is a lock for the rest.             *)
(***************************************************************************)
EXTENDS PassProofs, SequenceTheorems

-----------------------------------------------------------------------------
(* The invariant *)

\* The notice is among the writes w.
Wrote(k, w) == w.notices[k] # NoWrite
Blank(w) == \A k \in Notices : ~ Wrote(k, w)

\* The notice with which every list about this load and of this kind begins.
First(k) == <<ShipperOf[k[2]], k[2], k[3]>>

AdminRow(a, k) == <<a, k[2], k[3]>>

\* A list that begins with the shipper and ends with the admin.  Before its
\* first notice nothing is pending.  After it, nothing is pending but what is
\* behind the shipper's row, or the admin's turn has come.
InOrder(p, j, w, d) ==
  LET h == j.todo[1]
  IN  \/ /\ Blank(w) /\ h = First(h)
         /\ \A i \in 3..Len(j.todo) : j.todo[i][1] \in Admins
      \/ /\ Noted(First(h), w, d)
         /\ \A i \in 2..Len(j.todo) : j.todo[i][1] \in Admins
         /\ Blank(w) \/ Wrote(First(h), w) \/ (p = "notify" /\ h[1] \in Admins)

\* What a session has on its list, and pending while it goes through it.
ListReady(p, j, w, d) ==
  LET h == j.todo[1]
  IN  /\ \A i \in 1..Len(j.todo) : j.todo[i][2] = h[2] /\ j.todo[i][3] = h[3]
      /\ \A k \in Notices : Wrote(k, w) => k[2] = h[2] /\ k[3] = h[3]
      /\ p = "send" => ~ Wrote(h, w)
      /\ h[3] = "BROADCAST" =>
           /\ j.op = "create_load" /\ j.load = h[2]
           /\ j.after \in {"audience", "broadcast"}
           /\ p = "send" => d.notices[h] = Absent
      /\ h[3] # "BROADCAST" =>
           /\ j.after = "finish"
           /\ \A a \in Admins : Noted(AdminRow(a, h), w, d) \/ Listed(AdminRow(a, h), p, j)
           /\ InOrder(p, j, w, d)

\* What a session has pending are rows that do not exist yet.
PendingReady(j, w, d) ==
  \A k \in Notices : Wrote(k, w) =>
    /\ d.notices[k] = Absent
    /\ k[3] = "BROADCAST" => j.op = "create_load" /\ j.load = k[2]
    /\ k[3] # "BROADCAST" => Noted(First(k), w, d)

PushReady(p, j, w, d) ==
  /\ j.op # "proactive"
  /\ j.op = "create_load" => j.load \in Loads /\ d.loads[j.load] # Absent
  /\ p \in {"no_match", "audience", "broadcast"} => j.op = "create_load"
  /\ p \in {"audience", "broadcast"} => \A k \in Notices : Wrote(k, w) => k[3] = "BROADCAST"
  /\ p = "finish" =>
       \A k \in Notices : Wrote(k, w) /\ k[3] # "BROADCAST" =>
         \A a \in Admins : Noted(AdminRow(a, k), w, d)
  /\ p \notin {"notify", "send", "finish", "audience", "broadcast"} => Blank(w)
  /\ p \in {"notify", "send"} => ListReady(p, j, w, d)
  /\ PendingReady(j, w, d)

\* Stored notices come with those to the shipper and the admin.
StoredInOrder ==
  \A k \in Notices : k[3] # "BROADCAST" /\ db.notices[k] # Absent =>
    /\ db.notices[First(k)] # Absent
    /\ \A a \in Admins : db.notices[AdminRow(a, k)] # Absent

\* A notice is pushed at most once more than sessions died, and what was pushed
\* is stored, or pending in one transaction, unless a session that died took it.
PushedOnce ==
  \A k \in Notices :
    /\ pushes[k] <= 1 + crashes
    /\ pushes[k] > crashes => db.notices[k] # Absent \/ \E s \in SessionIds : Wrote(k, tx[s])

Apart ==
  \A s, o \in SessionIds : s # o =>
    /\ \A k \in Notices : ~ (Wrote(k, tx[s]) /\ Wrote(k, tx[o]))
    /\ job[s].op = "create_load" /\ job[o].op = "create_load" => job[s].load # job[o].load

PushInv ==
  /\ PushedOnce /\ StoredInOrder /\ Apart
  /\ \A s \in SessionIds : PushReady(pc[s], job[s], tx[s], db)

-----------------------------------------------------------------------------
(* What a step does to the sessions *)

\* What a session has on its list and pending stays right when others commit.
LEMMA PushReadyStays ==
  ASSUME NEW p, NEW j, NEW w, NEW d, PushReady(p, j, w, d), NEW e,
         \A l \in Loads : d.loads[l] # Absent => e.loads[l] # Absent,
         \A k \in Notices : d.notices[k] # Absent => e.notices[k] # Absent,
         \A k \in Notices : Wrote(k, w) => e.notices[k] = Absent,
         p = "send" /\ j.todo[1][3] = "BROADCAST" => e.notices[j.todo[1]] = Absent,
         p \in {"notify", "send"} => j.todo[1] \in Notices
  PROVE  PushReady(p, j, w, e)
<1>1. \A k \in Notices : First(k) \in Notices /\ \A a \in Admins : AdminRow(a, k) \in Notices
  BY Parties, SchemaAssumption DEF First, AdminRow, Notices
<1>2. \A k \in Notices : Noted(k, w, d) => Noted(k, w, e)
  BY DEF Noted
<1>3. PendingReady(j, w, e)
  BY <1>1, <1>2 DEF PushReady, PendingReady
<1>4. ASSUME p \in {"notify", "send"} PROVE ListReady(p, j, w, e)
  <2> DEFINE h == j.todo[1]
  <2>1. h \in Notices /\ ListReady(p, j, w, d)
    BY <1>4 DEF PushReady
  <2>2. h[3] # "BROADCAST" => InOrder(p, j, w, e)
    BY <1>1, <1>2, <2>1 DEF ListReady, InOrder
  <2>3. h[3] # "BROADCAST" =>
          \A a \in Admins : Noted(AdminRow(a, h), w, e) \/ Listed(AdminRow(a, h), p, j)
    BY <1>1, <1>2, <2>1 DEF ListReady
  <2> QED BY <2>1, <2>2, <2>3 DEF ListReady
<1>5. ASSUME p = "finish", NEW k \in Notices, Wrote(k, w), k[3] # "BROADCAST", NEW a \in Admins
      PROVE  Noted(AdminRow(a, k), w, e)
  BY <1>1, <1>2, <1>5 DEF PushReady
<1> QED BY <1>3, <1>4, <1>5 DEF PushReady

\* There is a notice on a list in work.
LEMMA Heads ==
  ASSUME IInv, NEW s \in SessionIds, pc[s] \in {"notify", "send"}
  PROVE  /\ job[s] \in Jobs /\ job[s].todo \in Seq(Notices) /\ Len(job[s].todo) > 0
         /\ job[s].todo[1] \in Notices /\ Head(job[s].todo) = job[s].todo[1]
<1> DEFINE todo == job[s].todo
<1>1. job[s] \in Jobs /\ todo # <<>>
  BY DEF IInv, ControlInv, JobReady, NoticesReady
<1>2. todo \in Seq(Notices)
  BY <1>1 DEF Jobs
<1> HIDE DEF todo
<1>3. Len(todo) > 0 /\ todo[1] \in Notices /\ Head(todo) = todo[1]
  BY <1>1, <1>2 DEF todo
<1> QED BY <1>1, <1>2, <1>3 DEF todo

\* A session goes on with the same notices pending.
LEMMA StayPushes ==
  ASSUME IInv, PushInv, NEW s \in SessionIds, NEW w, tx' = [tx EXCEPT ![s] = w],
         \A k \in Notices : Wrote(k, w) <=> Wrote(k, tx[s]),
         UNCHANGED <<db, pushes, crashes>>, NEW p, NEW j, Goto(s, p, j), PushReady(p, j, w, db),
         j.op = "create_load" => job[s].op = "create_load" /\ j.load = job[s].load
  PROVE  PushInv'
<1>1. tx \in [SessionIds -> Writes] /\ pc \in [SessionIds -> Phases] /\ job \in [SessionIds -> Jobs]
  BY DEF IInv, DataInv, ControlInv
<1>2. /\ \A o \in SessionIds \ {s} : pc'[o] = pc[o] /\ job'[o] = job[o] /\ tx'[o] = tx[o]
      /\ pc'[s] = p /\ job'[s] = j /\ tx'[s] = w
  BY <1>1 DEF Goto
<1>3. \A o \in SessionIds : \A k \in Notices : Wrote(k, tx'[o]) <=> Wrote(k, tx[o])
  BY <1>2
<1>4. PushedOnce'
  BY <1>3 DEF PushInv, PushedOnce
<1>5. StoredInOrder'
  BY DEF PushInv, StoredInOrder
<1>6. Apart'
  BY <1>2, <1>3 DEF PushInv, Apart
<1>7. \A o \in SessionIds : PushReady(pc'[o], job'[o], tx'[o], db')
  BY <1>2 DEF PushInv
<1> QED BY <1>4, <1>5, <1>6, <1>7 DEF PushInv

\* A session commits what it has pending, and rows that exist already.
LEMMA CommitPushes ==
  ASSUME IInv, PushInv, NEW s \in SessionIds, NEW w \in Writes, Commit(s, w),
         UNCHANGED <<pushes, crashes>>,
         \A k \in Notices : Wrote(k, tx[s]) => Wrote(k, w),
         \A k \in Notices : Wrote(k, w) => Wrote(k, tx[s]) \/ db.notices[k] # Absent,
         \A k \in Notices : Wrote(k, w) /\ k[3] # "BROADCAST" =>
           Noted(First(k), w, db) /\ \A a \in Admins : Noted(AdminRow(a, k), w, db),
         NEW p, NEW j, Goto(s, p, j), PushReady(p, j, NoWrites, db'),
         j.op = "create_load" =>
           \/ job[s].op = "create_load" /\ j.load = job[s].load
           \/ \A o \in SessionIds : job[o].op = "create_load" => job[o].load # j.load
  PROVE  PushInv'
<1>1. tx \in [SessionIds -> Writes] /\ pc \in [SessionIds -> Phases] /\ job \in [SessionIds -> Jobs]
  BY DEF IInv, DataInv, ControlInv
<1>2. /\ \A o \in SessionIds \ {s} : pc'[o] = pc[o] /\ job'[o] = job[o] /\ tx'[o] = tx[o]
      /\ pc'[s] = p /\ job'[s] = j /\ tx'[s] = NoWrites
  BY <1>1 DEF Goto, Commit
<1>3. /\ \A k \in Notices :
           db'.notices[k] = IF w.notices[k] = NoWrite THEN db.notices[k] ELSE w.notices[k]
      /\ \A l \in Loads : db.loads[l] # Absent => db'.loads[l] # Absent
  BY CommitRows
<1>4. \A k \in Notices : Wrote(k, w) => w.notices[k] # Absent
  BY DEF Writes, NotificationStatus, Absent, NoWrite, Wrote
<1>5. \A k \in Notices : db'.notices[k] # Absent <=> Noted(k, w, db)
  BY <1>3, <1>4 DEF Noted, Wrote
<1>6. \A k \in Notices : First(k) \in Notices /\ \A a \in Admins : AdminRow(a, k) \in Notices
  BY Parties, SchemaAssumption DEF First, AdminRow, Notices
<1>7. \A k \in Notices : ~ Wrote(k, NoWrites)
  BY DEF Wrote, NoWrites
<1>8. PushedOnce'
  <2> SUFFICES ASSUME NEW k \in Notices
               PROVE  /\ pushes'[k] <= 1 + crashes'
                      /\ pushes'[k] > crashes' =>
                           db'.notices[k] # Absent \/ \E o \in SessionIds : Wrote(k, tx'[o])
    BY DEF PushedOnce
  <2>1. pushes[k] > crashes => db.notices[k] # Absent \/ \E o \in SessionIds : Wrote(k, tx[o])
    BY DEF PushInv, PushedOnce
  <2>2. db.notices[k] # Absent \/ Wrote(k, tx[s]) => db'.notices[k] # Absent
    BY <1>5 DEF Noted, Wrote
  <2> QED BY <1>2, <2>1, <2>2 DEF PushInv, PushedOnce
<1>9. StoredInOrder'
  <2> SUFFICES ASSUME NEW k \in Notices, k[3] # "BROADCAST", db'.notices[k] # Absent
               PROVE  /\ db'.notices[First(k)] # Absent
                      /\ \A a \in Admins : db'.notices[AdminRow(a, k)] # Absent
    BY DEF StoredInOrder
  <2>1. CASE db.notices[k] # Absent
    <3>1. /\ Noted(First(k), w, db)
          /\ \A a \in Admins : Noted(AdminRow(a, k), w, db)
      BY <2>1 DEF PushInv, StoredInOrder, Noted
    <3> QED BY <1>5, <1>6, <3>1
  <2>2. CASE Wrote(k, w)
    BY <1>5, <1>6, <2>2
  <2> QED BY <1>5, <2>1, <2>2 DEF Noted, Wrote
<1>10. Apart'
  BY <1>2, <1>7 DEF PushInv, Apart
<1>11. ASSUME NEW o \in SessionIds \ {s} PROVE PushReady(pc[o], job[o], tx[o], db')
  <2>1. PushReady(pc[o], job[o], tx[o], db) /\ PushReady(pc[s], job[s], tx[s], db)
    BY DEF PushInv
  <2>2. \A k \in Notices : Wrote(k, tx[o]) => ~ Wrote(k, w)
    BY DEF Commit, CanWrite, Overlaps, Wrote
  <2>3. \A k \in Notices : Wrote(k, tx[o]) => db'.notices[k] = Absent
    BY <1>5, <2>1, <2>2 DEF PushReady, PendingReady, Noted, Wrote
  <2>4. pc[o] \in {"notify", "send"} => job[o].todo[1] \in Notices
    BY Heads
  <2>5. ASSUME pc[o] = "send", job[o].todo[1][3] = "BROADCAST"
        PROVE  db'.notices[job[o].todo[1]] = Absent
    <3> DEFINE h == job[o].todo[1]
    <3>1. /\ h \in Notices /\ db.notices[h] = Absent
          /\ job[o].op = "create_load" /\ job[o].load = h[2]
      BY <2>1, <2>4, <2>5 DEF PushReady, ListReady
    <3>2. ~ Wrote(h, tx[s])
      BY <2>1, <2>5, <3>1 DEF PushReady, PendingReady, PushInv, Apart
    <3> HIDE DEF h
    <3>3. db'.notices[h] = Absent
      BY <1>5, <3>1, <3>2 DEF Noted, Wrote
    <3> QED BY <3>3 DEF h
  <2>6. \A k \in Notices : db.notices[k] # Absent => db'.notices[k] # Absent
    BY <1>5 DEF Noted
  <2> QED BY <1>3, <2>1, <2>3, <2>4, <2>5, <2>6, PushReadyStays
<1>12. \A o \in SessionIds : PushReady(pc'[o], job'[o], tx'[o], db')
  BY <1>2, <1>11
<1> QED BY <1>8, <1>9, <1>10, <1>12 DEF PushInv

ListPhases == {"notify", "send", "finish", "audience", "broadcast"}

\* The job is that of the session still, or none that the invariant is about.
SameJob(s, j) ==
  \/ j.op \notin {"create_load", "proactive"}
  \/ j.op = job[s].op /\ j.load = job[s].load

LEMMA Blanks ==
  ASSUME IInv, PushInv, NEW s \in SessionIds, pc[s] \notin ListPhases
  PROVE  Blank(tx[s])
  BY DEF PushInv, PushReady, ListPhases

LEMMA BlankWrites == Blank(NoWrites)
  BY DEF Blank, Wrote, NoWrites

\* A session without a list, and with nothing pending, is in order.
LEMMA PlainReady ==
  ASSUME PushInv, NEW s \in SessionIds, NEW p, p \notin ListPhases \ {"finish"}, NEW j,
         NEW w, Blank(w), NEW d,
         \A l \in Loads : db.loads[l] # Absent => d.loads[l] # Absent,
         SameJob(s, j), p = "no_match" => j.op = "create_load"
  PROVE  PushReady(p, j, w, d)
<1>1. j.op # "proactive" /\ (j.op = "create_load" => j.load \in Loads /\ d.loads[j.load] # Absent)
  BY DEF PushInv, PushReady, SameJob
<1> QED BY <1>1 DEF PushReady, PendingReady, Blank, ListPhases

\* Such a session goes on,
LEMMA PlainGoto ==
  ASSUME IInv, PushInv, NEW s \in SessionIds, pc[s] \notin ListPhases,
         UNCHANGED <<db, pushes, crashes>>, NEW w, Blank(w), tx' = [tx EXCEPT ![s] = w],
         NEW p, p \notin ListPhases \ {"finish"}, NEW j, Goto(s, p, j), SameJob(s, j),
         p = "no_match" => j.op = "create_load"
  PROVE  PushInv'
<1>1. Blank(tx[s])
  BY Blanks
<1>2. \A k \in Notices : Wrote(k, w) <=> Wrote(k, tx[s])
  BY <1>1 DEF Blank
<1>3. PushReady(p, j, w, db)
  BY PlainReady
<1>4. j.op = "create_load" => job[s].op = "create_load" /\ j.load = job[s].load
  BY DEF SameJob
<1> QED BY <1>2, <1>3, <1>4, StayPushes

\* starts on a list,
LEMMA PlainList ==
  ASSUME IInv, PushInv, NEW s \in SessionIds, pc[s] \notin ListPhases,
         UNCHANGED <<db, pushes, crashes>>, NEW w, Blank(w), tx' = [tx EXCEPT ![s] = w],
         NEW j, Goto(s, "notify", j), SameJob(s, j), ListReady("notify", j, w, db)
  PROVE  PushInv'
<1>1. Blank(tx[s])
  BY Blanks
<1>2. \A k \in Notices : Wrote(k, w) <=> Wrote(k, tx[s])
  BY <1>1 DEF Blank
<1>3. j.op = "create_load" => job[s].op = "create_load" /\ j.load = job[s].load
  BY DEF SameJob
<1>4. j.op # "proactive" /\ (j.op = "create_load" => j.load \in Loads /\ db.loads[j.load] # Absent)
  BY DEF PushInv, PushReady, SameJob
<1>5. PushReady("notify", j, w, db)
  BY <1>4 DEF PushReady, PendingReady, Blank
<1> QED BY <1>2, <1>3, <1>5, StayPushes

\* gives up,
LEMMA BlankAbandon ==
  ASSUME IInv, PushInv, NEW s \in SessionIds, Blank(tx[s]), Abandon(s),
         UNCHANGED <<pushes, crashes>>
  PROVE  PushInv'
<1>1. \A k \in Notices : Wrote(k, NoWrites) <=> Wrote(k, tx[s])
  BY BlankWrites DEF Blank
<1>2. SameJob(s, NoJob) /\ NoJob.op # "create_load"
  BY DEF SameJob, NoJob, None
<1>3. PushReady("idle", NoJob, NoWrites, db)
  BY <1>2, BlankWrites, PlainReady DEF ListPhases
<1> QED BY <1>1, <1>2, <1>3, StayPushes DEF Abandon, Done

\* or commits.
LEMMA PlainCommit ==
  ASSUME IInv, PushInv, NEW s \in SessionIds, pc[s] \notin ListPhases,
         NEW w \in Writes, Blank(w), Commit(s, w), UNCHANGED <<pushes, crashes>>,
         NEW p, p \notin ListPhases, NEW j, Goto(s, p, j), SameJob(s, j),
         p = "no_match" => j.op = "create_load"
  PROVE  PushInv'
<1>1. Blank(tx[s])
  BY Blanks
<1>2. \A l \in Loads : db.loads[l] # Absent => db'.loads[l] # Absent
  BY CommitRows
<1>3. PushReady(p, j, NoWrites, db')
  BY <1>2, BlankWrites, PlainReady
<1>4. j.op = "create_load" => job[s].op = "create_load" /\ j.load = job[s].load
  BY DEF SameJob
<1> QED BY <1>1, <1>3, <1>4, CommitPushes DEF Blank

-----------------------------------------------------------------------------
(* The beginning of a list *)

\* A list of notices that begins with the shipper and ends with the admin.
LEMMA ShipperList ==
  ASSUME NEW us \in Seq(Users), NEW l \in Loads, NEW kind \in NotificationType \ {"BROADCAST"},
         Len(us) > 0, us[1] = ShipperOf[l], \A i \in 3..Len(us) : us[i] \in Admins,
         \A a \in Admins : \E i \in 1..Len(us) : us[i] = a,
         NEW j, j.todo = NoticesFor(us, l, kind), j.after = "finish", NEW w, Blank(w), NEW d
  PROVE  ListReady("notify", j, w, d)
<1> DEFINE todo == NoticesFor(us, l, kind)
<1>1. Len(todo) = Len(us) /\ \A i \in 1..Len(us) : todo[i] = <<us[i], l, kind>>
  BY DEF NoticesFor
<1> HIDE DEF todo
<1>2. todo[1] = <<ShipperOf[l], l, kind>>
  BY <1>1
<1>3. \A i \in 1..Len(todo) : todo[i][1] = us[i] /\ todo[i][2] = l /\ todo[i][3] = kind
  BY <1>1
<1>4. todo[1][2] = l /\ todo[1][3] = kind /\ todo[1] = First(todo[1])
  BY <1>2 DEF First
<1>5. \A a \in Admins : Listed(AdminRow(a, todo[1]), "notify", j)
  <2> SUFFICES ASSUME NEW a \in Admins PROVE Listed(AdminRow(a, todo[1]), "notify", j)
    OBVIOUS
  <2>1. PICK i \in 1..Len(us) : us[i] = a
    OBVIOUS
  <2>2. todo[i] = AdminRow(a, todo[1])
    BY <1>1, <1>4, <2>1 DEF AdminRow
  <2> QED BY <1>1, <2>2 DEF Listed, todo
<1>6. InOrder("notify", j, w, d)
  BY <1>1, <1>3, <1>4 DEF InOrder, todo
<1> QED BY <1>3, <1>4, <1>5, <1>6 DEF ListReady, Blank, todo

\* With a second admin the shipper's row may be there, and the last one not.
OneAdmin == \A a, b \in Admins : a = b

\* What the lists are made of.
LEMMA MatchList ==
  ASSUME NEW l \in Loads, NEW t \in Trucks, OneAdmin,
         NEW admin, admin \in AdminChoices \/ \E a \in Admins : admin = <<a>>,
         NEW kind \in NotificationType \ {"BROADCAST"},
         NEW j, j.todo = MatchNotices(l, t, admin, kind), j.after = "finish",
         NEW w, Blank(w), NEW d
  PROVE  ListReady("notify", j, w, d)
<1> DEFINE us == <<ShipperOf[l], CarrierOf[t]>> \o admin
<1>1. (Admins = {} /\ admin = <<>>) \/ \E a \in Admins : admin = <<a>>
  BY DEF AdminChoices
<1>2. ShipperOf[l] \in Users /\ CarrierOf[t] \in Users /\ Admins \subseteq Users
  BY Parties, SchemaAssumption
<1>3. /\ us \in Seq(Users) /\ Len(us) > 0 /\ us[1] = ShipperOf[l]
      /\ \A i \in 3..Len(us) : us[i] \in Admins
      /\ \A a \in Admins : \E i \in 1..Len(us) : us[i] = a
  <2>1. CASE Admins = {} /\ admin = <<>>
    BY <1>2, <2>1
  <2>2. CASE \E a \in Admins : admin = <<a>>
    <3>1. PICK a \in Admins : admin = <<a>>
      BY <2>2
    <3> DEFINE f == <<ShipperOf[l], CarrierOf[t]>>
               g == <<a>>
    <3>2. /\ f \in Seq(Users) /\ Len(f) = 2 /\ f[1] = ShipperOf[l]
          /\ g \in Seq(Users) /\ Len(g) = 1 /\ g[1] = a /\ us = f \o g
      BY <1>2, <3>1
    <3> HIDE DEF us, f, g
    <3>3. /\ f \o g \in Seq(Users) /\ Len(f \o g) = Len(f) + Len(g)
          /\ \A i \in 1..Len(f) + Len(g) :
               (f \o g)[i] = IF i <= Len(f) THEN f[i] ELSE g[i - Len(f)]
      BY <3>2, ConcatProperties
    <3>4. Len(us) = 3 /\ us[1] = ShipperOf[l] /\ us[3] = a /\ us \in Seq(Users)
      BY <3>2, <3>3
    <3>5. \A b \in Admins : us[3] = b
      BY <3>4 DEF OneAdmin
    <3>6. \A i \in 3..Len(us) : us[i] \in Admins
      BY <3>4
    <3>7. 3 \in 1..Len(us)
      BY <3>4
    <3> QED BY <3>4, <3>5, <3>6, <3>7
  <2> QED BY <1>1, <2>1, <2>2
<1>4. j.todo = NoticesFor(us, l, kind)
  BY DEF MatchNotices
<1> HIDE DEF us
<1> QED BY <1>3, <1>4, ShipperList

LEMMA InterestList ==
  ASSUME NEW l \in Loads, OneAdmin, NEW admin \in AdminChoices,
         NEW j, j.todo = InterestNotices(l, admin), j.after = "finish",
         NEW w, Blank(w), NEW d
  PROVE  ListReady("notify", j, w, d)
<1> DEFINE us == <<ShipperOf[l]>> \o admin
<1>1. (Admins = {} /\ admin = <<>>) \/ \E a \in Admins : admin = <<a>>
  BY DEF AdminChoices
<1>2. ShipperOf[l] \in Users /\ Admins \subseteq Users
  BY Parties, SchemaAssumption
<1>3. /\ us \in Seq(Users) /\ Len(us) > 0 /\ us[1] = ShipperOf[l]
      /\ \A i \in 3..Len(us) : us[i] \in Admins
      /\ \A a \in Admins : \E i \in 1..Len(us) : us[i] = a
  <2>1. CASE Admins = {} /\ admin = <<>>
    BY <1>2, <2>1
  <2>2. CASE \E a \in Admins : admin = <<a>>
    <3>1. PICK a \in Admins : admin = <<a>>
      BY <2>2
    <3> DEFINE f == <<ShipperOf[l]>>
               g == <<a>>
    <3>2. /\ f \in Seq(Users) /\ Len(f) = 1 /\ f[1] = ShipperOf[l]
          /\ g \in Seq(Users) /\ Len(g) = 1 /\ g[1] = a /\ us = f \o g
      BY <1>2, <3>1
    <3> HIDE DEF us, f, g
    <3>3. /\ f \o g \in Seq(Users) /\ Len(f \o g) = Len(f) + Len(g)
          /\ \A i \in 1..Len(f) + Len(g) :
               (f \o g)[i] = IF i <= Len(f) THEN f[i] ELSE g[i - Len(f)]
      BY <3>2, ConcatProperties
    <3>4. Len(us) = 2 /\ us[1] = ShipperOf[l] /\ us[2] = a /\ us \in Seq(Users)
      BY <3>2, <3>3
    <3>5. \A b \in Admins : us[2] = b
      BY <3>4 DEF OneAdmin
    <3>6. \A i \in 3..Len(us) : us[i] \in Admins
      BY <3>4
    <3>7. 2 \in 1..Len(us)
      BY <3>4
    <3> QED BY <3>4, <3>5, <3>6, <3>7
  <2> QED BY <1>1, <2>1, <2>2
<1>4. "INTEREST_RECEIVED" \in NotificationType \ {"BROADCAST"}
  BY DEF NotificationType
<1>5. j.todo = NoticesFor(us, l, "INTEREST_RECEIVED")
  BY DEF InterestNotices
<1> HIDE DEF us
<1> QED BY <1>3, <1>4, <1>5, ShipperList

-----------------------------------------------------------------------------
(* Notices *)

\* The head of a list is stored, or pending by now: the session may go on.
LEMMA NextPushes ==
  ASSUME IInv, NEW s \in SessionIds, pc[s] \in {"notify", "send"}, NextNotice(s),
         PushReady(pc[s], job[s], tx[s], db), NEW w, NEW h, h = job[s].todo[1], Noted(h, w, db),
         Wrote(h, w) => db.notices[h] = Absent,
         \A k \in Notices : Wrote(k, tx[s]) => Wrote(k, w),
         \A k \in Notices : Wrote(k, w) => Wrote(k, tx[s]) \/ k = h
  PROVE  \E p, j : Goto(s, p, j) /\ j.op = job[s].op /\ j.load = job[s].load /\ PushReady(p, j, w, db)
<1> DEFINE todo == job[s].todo
           rest == Tail(todo)
           p == IF rest = <<>> THEN job[s].after ELSE "notify"
           j == [job[s] EXCEPT !.todo = rest]
<1>1. job[s] \in Jobs /\ todo \in Seq(Notices) /\ Len(todo) > 0 /\ h \in Notices /\ h = todo[1]
  BY Heads
<1>2. /\ rest \in Seq(Notices) /\ Len(rest) = Len(todo) - 1
      /\ \A i \in 1..Len(rest) : rest[i] = todo[i + 1]
  BY <1>1
<1>3. /\ j.op = job[s].op /\ j.load = job[s].load /\ j.todo = rest /\ j.after = job[s].after
  BY <1>1 DEF Jobs
<1>4. Goto(s, p, j)
  BY DEF NextNotice
<1>5. ListReady(pc[s], job[s], tx[s], db) /\ PendingReady(job[s], tx[s], db)
  BY DEF PushReady
<1> HIDE DEF j, p, rest, todo
<1>6. rest = <<>> => Len(todo) = 1
  BY <1>1, <1>2
<1>7. rest # <<>> => Len(rest) > 0
  BY <1>2
<1>8. \A k \in Notices : Wrote(k, w) => k[2] = h[2] /\ k[3] = h[3]
  BY <1>5 DEF ListReady
<1>9. \A k \in Notices : Noted(k, tx[s], db) => Noted(k, w, db)
  BY DEF Noted, Wrote
<1>10. First(h) \in Notices /\ \A a \in Admins : AdminRow(a, h) \in Notices
  BY <1>1, Parties, SchemaAssumption DEF First, AdminRow, Notices
<1>11. h[3] # "BROADCAST" =>
        /\ InOrder(pc[s], job[s], tx[s], db) /\ job[s].after = "finish"
        /\ \A a \in Admins :
             Noted(AdminRow(a, h), tx[s], db) \/ Listed(AdminRow(a, h), pc[s], job[s])
  BY <1>5 DEF ListReady
<1>12. h[3] # "BROADCAST" => Noted(First(h), w, db)
  BY <1>9, <1>10, <1>11 DEF InOrder
<1>13. \A k \in Notices : Wrote(k, w) =>
         First(k) = First(h) /\ \A a \in Admins : AdminRow(a, k) = AdminRow(a, h)
  BY <1>8 DEF First, AdminRow
<1>14. PendingReady(j, w, db)
  <2> SUFFICES ASSUME NEW k \in Notices, Wrote(k, w)
               PROVE  /\ db.notices[k] = Absent
                      /\ k[3] = "BROADCAST" => j.op = "create_load" /\ j.load = k[2]
                      /\ k[3] # "BROADCAST" => Noted(First(k), w, db)
    BY DEF PendingReady
  <2>1. db.notices[k] = Absent
    BY <1>5 DEF PendingReady
  <2>2. k[3] # "BROADCAST" => Noted(First(k), w, db)
    BY <1>8, <1>12, <1>13
  <2>3. k[3] = "BROADCAST" => j.op = "create_load" /\ j.load = k[2]
    BY <1>3, <1>5, <1>8 DEF ListReady
  <2> QED BY <2>1, <2>2, <2>3
<1>15. j.op # "proactive" /\ (j.op = "create_load" => j.load \in Loads /\ db.loads[j.load] # Absent)
  BY <1>3 DEF PushReady
<1>16. CASE rest = <<>>
  <2>1. p = job[s].after
    BY <1>16 DEF p
  <2>2. CASE h[3] = "BROADCAST"
    <3>1. p \in {"audience", "broadcast"} /\ j.op = "create_load"
      BY <1>3, <1>5, <2>1, <2>2 DEF ListReady
    <3>2. PushReady(p, j, w, db)
      BY <1>8, <1>14, <1>15, <2>2, <3>1 DEF PushReady
    <3> QED BY <1>3, <1>4, <3>2
  <2>3. CASE h[3] # "BROADCAST"
    <3>1. p = "finish"
      BY <1>11, <2>1, <2>3
    <3>2. ASSUME NEW a \in Admins PROVE Noted(AdminRow(a, h), w, db)
      <4>1. CASE Noted(AdminRow(a, h), tx[s], db)
        BY <1>9, <1>10, <4>1
      <4>2. CASE Listed(AdminRow(a, h), pc[s], job[s])
        <5>1. PICK i \in 1..Len(todo) : todo[i] = AdminRow(a, h)
          BY <4>2 DEF Listed, todo
        <5>2. Len(todo) = 1
          BY <1>16, <1>6
        <5>3. i = 1
          BY <5>1, <5>2
        <5> QED BY <1>1, <5>1, <5>3
      <4> QED BY <1>11, <2>3, <4>1, <4>2
    <3>3. PushReady(p, j, w, db)
      BY <1>13, <1>14, <1>15, <3>1, <3>2 DEF PushReady
    <3> QED BY <1>3, <1>4, <3>3
  <2> QED BY <2>2, <2>3
<1>17. CASE rest # <<>>
  <2> DEFINE g == rest[1]
  <2>1. p = "notify" /\ Len(rest) > 0 /\ g = todo[2] /\ 2 \in 1..Len(todo)
    BY <1>1, <1>2, <1>17, <1>7 DEF p
  <2>2. \A i \in 1..Len(todo) : todo[i][2] = h[2] /\ todo[i][3] = h[3]
    BY <1>5 DEF ListReady, todo
  <2>3. g[2] = h[2] /\ g[3] = h[3]
    BY <2>1, <2>2
  <2>4. First(g) = First(h) /\ \A a \in Admins : AdminRow(a, g) = AdminRow(a, h)
    BY <2>3 DEF First, AdminRow
  <2>5. \A i \in 1..Len(rest) : rest[i][2] = g[2] /\ rest[i][3] = g[3]
    <3> SUFFICES ASSUME NEW i \in 1..Len(rest) PROVE rest[i][2] = g[2] /\ rest[i][3] = g[3]
      OBVIOUS
    <3>1. i + 1 \in 1..Len(todo) /\ rest[i] = todo[i + 1]
      BY <1>1, <1>2
    <3> QED BY <2>2, <2>3, <3>1
  <2> HIDE DEF g
  <2>6. ASSUME h[3] # "BROADCAST", NEW a \in Admins
        PROVE  Noted(AdminRow(a, g), w, db) \/ Listed(AdminRow(a, g), "notify", j)
    <3>1. CASE Noted(AdminRow(a, h), tx[s], db)
      BY <1>9, <1>10, <2>4, <3>1
    <3>2. CASE Listed(AdminRow(a, h), pc[s], job[s])
      <4>1. PICK i \in 1..Len(todo) : todo[i] = AdminRow(a, h)
        BY <3>2 DEF Listed, todo
      <4>2. CASE i = 1
        BY <1>1, <2>4, <4>1, <4>2
      <4>3. CASE i # 1
        <5>1. i - 1 \in 1..Len(rest) /\ rest[i - 1] = todo[i]
          BY <1>1, <1>2, <4>3
        <5> QED BY <1>3, <2>4, <4>1, <5>1 DEF Listed
      <4> QED BY <4>2, <4>3
    <3> QED BY <1>11, <2>6, <3>1, <3>2
  <2>7. ASSUME h[3] # "BROADCAST" PROVE InOrder("notify", j, w, db)
    <3>1. \A i \in 2..Len(rest) : i + 1 \in 3..Len(todo) /\ rest[i] = todo[i + 1]
      BY <1>1, <1>2
    <3>2. Noted(First(g), w, db)
      BY <1>12, <2>4, <2>7
    <3>3. CASE /\ Blank(tx[s]) /\ h = First(h)
               /\ \A i \in 3..Len(todo) : todo[i][1] \in Admins
      <4>1. Blank(w) \/ Wrote(First(g), w)
        BY <2>4, <3>3 DEF Blank
      <4>2. \A i \in 2..Len(rest) : rest[i][1] \in Admins
        BY <3>1, <3>3
      <4> QED BY <1>3, <3>2, <4>1, <4>2 DEF InOrder, g
    <3>4. CASE \A i \in 2..Len(todo) : todo[i][1] \in Admins
      <4>1. g[1] \in Admins
        BY <1>1, <2>1, <3>4
      <4>2. \A i \in 2..Len(rest) : rest[i][1] \in Admins
        <5> SUFFICES ASSUME NEW i \in 2..Len(rest) PROVE rest[i][1] \in Admins
          OBVIOUS
        <5>1. i + 1 \in 2..Len(todo) /\ rest[i] = todo[i + 1]
          BY <3>1
        <5> QED BY <3>4, <5>1
      <4> QED BY <1>3, <3>2, <4>1, <4>2 DEF InOrder, g
    <3> QED BY <1>1, <1>11, <2>7, <3>3, <3>4 DEF InOrder, todo
  <2>8. ListReady("notify", j, w, db)
    <3>1. \A k \in Notices : Wrote(k, w) => k[2] = g[2] /\ k[3] = g[3]
      BY <1>8, <2>3
    <3>2. h[3] = "BROADCAST" =>
            /\ j.op = "create_load" /\ j.load = g[2]
            /\ j.after \in {"audience", "broadcast"}
      BY <1>3, <1>5, <2>3 DEF ListReady
    <3>3. h[3] # "BROADCAST" => j.after = "finish"
      BY <1>3, <1>11
    <3> QED BY <1>3, <2>3, <2>5, <2>6, <2>7, <3>1, <3>2, <3>3 DEF ListReady, g
  <2>9. PushReady(p, j, w, db)
    BY <1>14, <1>15, <2>1, <2>8 DEF PushReady
  <2> QED BY <1>3, <1>4, <2>9
<1> QED BY <1>16, <1>17

LEMMA ProbeNoticePushes ==
  ASSUME IInv, PushInv, NEW s \in SessionIds, ProbeNotice(s)
  PROVE  PushInv'
<1> DEFINE h == job[s].todo[1]
<1>1. /\ job[s] \in Jobs /\ h \in Notices /\ Head(job[s].todo) = h /\ pc[s] = "notify"
      /\ tx[s] \in Writes /\ PushReady(pc[s], job[s], tx[s], db)
  BY Heads DEF ProbeNotice, IInv, DataInv, PushInv
<1>2. View(s).notices[h] # Absent <=> Noted(h, tx[s], db)
  BY <1>1 DEF View, Overlay, Noted, Writes, NotificationStatus, Absent, NoWrite
<1>3. UNCHANGED <<db, tx, pushes, crashes>> /\ tx' = [tx EXCEPT ![s] = tx[s]]
  BY DEF ProbeNotice, outside, IInv, DataInv
<1>4. CASE Noted(h, tx[s], db)
  <2>1. NextNotice(s)
    BY <1>1, <1>2, <1>4 DEF ProbeNotice
  <2>2. Wrote(h, tx[s]) => db.notices[h] = Absent
    BY <1>1 DEF PushReady, PendingReady
  <2>3. PICK p, j : Goto(s, p, j) /\ j.op = job[s].op /\ j.load = job[s].load /\ PushReady(p, j, tx[s], db)
    BY <1>1, <1>4, <2>1, <2>2, NextPushes
  <2> QED BY <1>3, <2>3, StayPushes
<1>5. CASE ~ Noted(h, tx[s], db)
  <2>1. Goto(s, "send", job[s])
    BY <1>1, <1>2, <1>5 DEF ProbeNotice
  <2>2. ListReady("notify", job[s], tx[s], db)
    BY <1>1 DEF PushReady
  <2>3. \A k : Listed(k, "notify", job[s]) => Listed(k, "send", job[s])
    BY DEF Listed
  <2>4. h[3] # "BROADCAST" => InOrder("send", job[s], tx[s], db)
    <3> SUFFICES ASSUME h[3] # "BROADCAST" PROVE InOrder("send", job[s], tx[s], db)
      OBVIOUS
    <3>1. First(h) \in Notices /\ First(h)[3] = h[3] /\ AdminRow(h[1], First(h)) = h
      BY <1>1, Parties DEF First, AdminRow, Notices
    <3>2. InOrder("notify", job[s], tx[s], db)
      BY <2>2 DEF ListReady
    <3>3. h[1] \in Admins => db.notices[First(h)] = Absent
      BY <1>5, <3>1 DEF PushInv, StoredInOrder, Noted
    <3> QED BY <3>2, <3>3 DEF InOrder, Noted, Wrote
  <2>5. ListReady("send", job[s], tx[s], db)
    BY <1>5, <2>2, <2>3, <2>4 DEF ListReady, Noted, Wrote
  <2>6. PushReady("send", job[s], tx[s], db)
    BY <1>1, <2>5 DEF PushReady
  <2> QED BY <1>3, <2>1, <2>6, StayPushes
<1> QED BY <1>4, <1>5

\* The shipper's row is a lock: a conflict finds nothing pending.
LEMMA ConflictIsEarly ==
  ASSUME IInv, PushInv, NEW s \in SessionIds, pc[s] = "send", NoticeTaken(s)
  PROVE  Blank(tx[s])
<1> DEFINE h == job[s].todo[1]
<1>1. h \in Notices /\ db.notices[h] # Absent /\ PushReady("send", job[s], tx[s], db)
  BY Heads DEF NoticeTaken, PushInv
<1>2. ListReady("send", job[s], tx[s], db) /\ PendingReady(job[s], tx[s], db)
  BY <1>1 DEF PushReady
<1>3. h[3] # "BROADCAST" /\ InOrder("send", job[s], tx[s], db)
  BY <1>1, <1>2 DEF ListReady
<1>4. First(h) \in Notices /\ db.notices[First(h)] # Absent
  BY <1>1, <1>3, Parties DEF PushInv, StoredInOrder, First, Notices
<1>5. ~ Wrote(First(h), tx[s])
  BY <1>2, <1>4 DEF PendingReady
<1> QED BY <1>3, <1>5 DEF InOrder

LEMMA SendNoticePushes ==
  ASSUME IInv, PushInv, NEW s \in SessionIds, SendNotice(s)
  PROVE  PushInv'
<1> DEFINE h == job[s].todo[1]
<1>1. /\ job[s] \in Jobs /\ h \in Notices /\ Head(job[s].todo) = h /\ pc[s] = "send"
      /\ tx[s] \in Writes /\ PushReady(pc[s], job[s], tx[s], db)
      /\ db.notices[h] = Absent /\ NextNotice(s)
  BY Heads DEF SendNotice, IInv, DataInv, PushInv, NoticeTaken
<1>2. /\ tx \in [SessionIds -> Writes] /\ pc \in [SessionIds -> Phases]
      /\ job \in [SessionIds -> Jobs] /\ pushes \in [Notices -> Nat]
  BY DEF IInv, DataInv, ControlInv, OutsideInv
<1>3. PICK outcome \in SendOutcomes : Stage(s, [tx[s] EXCEPT !.notices[h] = outcome])
  BY <1>1 DEF SendNotice
<1> DEFINE w == [tx[s] EXCEPT !.notices[h] = outcome]
<1>4. outcome # NoWrite
  BY SendAssumption DEF NoWrite
<1>5. \A k \in Notices : w.notices[k] = IF k = h THEN outcome ELSE tx[s].notices[k]
  BY <1>1 DEF Writes
<1>6. /\ tx' = [tx EXCEPT ![s] = w] /\ UNCHANGED db
      /\ pushes' = [pushes EXCEPT ![h] = Counted(@)]
      /\ \A o \in SessionIds \ {s} : ~ Overlaps(tx[o], w)
  BY <1>1, <1>3 DEF SendNotice, Stage, CanWrite
<1> HIDE DEF w, h
<1>7. /\ Noted(h, w, db) /\ Wrote(h, w)
      /\ \A k \in Notices : Wrote(k, tx[s]) => Wrote(k, w)
      /\ \A k \in Notices : Wrote(k, w) => Wrote(k, tx[s]) \/ k = h
  BY <1>1, <1>4, <1>5 DEF Noted, Wrote
<1>8. \A o \in SessionIds \ {s} : \A k \in Notices : ~ (Wrote(k, tx[o]) /\ Wrote(k, w))
  BY <1>6 DEF Overlaps, Wrote
<1>9. PICK p, j : Goto(s, p, j) /\ j.op = job[s].op /\ j.load = job[s].load /\ PushReady(p, j, w, db)
  BY <1>1, <1>7, NextPushes DEF h
<1>10. /\ \A o \in SessionIds \ {s} : pc'[o] = pc[o] /\ job'[o] = job[o] /\ tx'[o] = tx[o]
       /\ pc'[s] = p /\ job'[s] = j /\ tx'[s] = w
  BY <1>2, <1>6, <1>9 DEF Goto
<1>11. ~ Wrote(h, tx[s])
  BY <1>1 DEF PushReady, ListReady, h
<1>12. PushedOnce'
  <2>1. pushes[h] <= crashes /\ crashes \in Nat /\ UNCHANGED crashes
    BY <1>1, <1>2, <1>7, <1>8, <1>11 DEF PushInv, PushedOnce, IInv, OutsideInv, SendNotice
  <2>2. pushes'[h] <= 1 + crashes /\ \A k \in Notices \ {h} : pushes'[k] = pushes[k]
    BY <1>1, <1>2, <1>6, <2>1, BoundAssumption DEF Counted
  <2>3. ASSUME NEW k \in Notices, pushes'[k] > crashes
        PROVE  db'.notices[k] # Absent \/ \E o \in SessionIds : Wrote(k, tx'[o])
    <3>1. CASE k = h
      BY <1>7, <1>10, <3>1
    <3>2. CASE k # h
      BY <1>6, <1>7, <1>10, <2>2, <2>3, <3>2 DEF PushInv, PushedOnce
    <3> QED BY <3>1, <3>2
  <2>4. \A k \in Notices : pushes'[k] <= 1 + crashes
    BY <2>2 DEF PushInv, PushedOnce
  <2> QED BY <2>1, <2>3, <2>4 DEF PushedOnce
<1>13. StoredInOrder'
  BY <1>6 DEF PushInv, StoredInOrder
<1>14. Apart'
  BY <1>8, <1>9, <1>10 DEF PushInv, Apart
<1>15. \A o \in SessionIds : PushReady(pc'[o], job'[o], tx'[o], db')
  BY <1>6, <1>9, <1>10 DEF PushInv
<1> QED BY <1>12, <1>13, <1>14, <1>15 DEF PushInv

LEMMA FinishPushes ==
  ASSUME IInv, PushInv, NEW s \in SessionIds, Finish(s)
  PROVE  PushInv'
<1>1. /\ Commit(s, tx[s]) /\ Goto(s, "idle", NoJob) /\ UNCHANGED <<pushes, crashes>>
      /\ tx[s] \in Writes /\ PushReady("finish", job[s], tx[s], db)
  BY DEF Finish, Done, outside, IInv, DataInv, PushInv
<1>2. \A k \in Notices : Wrote(k, tx[s]) /\ k[3] # "BROADCAST" =>
        Noted(First(k), tx[s], db) /\ \A a \in Admins : Noted(AdminRow(a, k), tx[s], db)
  BY <1>1 DEF PushReady, PendingReady
<1>3. SameJob(s, NoJob) /\ NoJob.op # "create_load"
  BY DEF SameJob, NoJob, None
<1>4. \A l \in Loads : db.loads[l] # Absent => db'.loads[l] # Absent
  BY <1>1, CommitRows
<1>5. PushReady("idle", NoJob, NoWrites, db')
  BY <1>3, <1>4, BlankWrites, PlainReady DEF ListPhases
<1> QED BY <1>1, <1>2, <1>3, <1>5, CommitPushes

LEMMA NotifyPushes ==
  ASSUME IInv, PushInv, NEW s \in SessionIds, NotifyStep(s)
  PROVE  PushInv'
<1>1. CASE NoticeConflict(s)
  BY <1>1, ConflictIsEarly, BlankAbandon DEF NoticeConflict, outside
<1> QED BY <1>1, ProbeNoticePushes, SendNoticePushes, FinishPushes DEF NotifyStep

-----------------------------------------------------------------------------
(* Matches and requests *)

\* A session without a list commits nothing new about notices, and starts one.
LEMMA CommitList ==
  ASSUME IInv, PushInv, NEW s \in SessionIds, pc[s] \notin ListPhases,
         NEW w \in Writes, Commit(s, w),
         UNCHANGED <<pushes, crashes>>,
         \A k \in Notices : Wrote(k, w) => db.notices[k] # Absent /\ k[3] = "BROADCAST",
         NEW j, Goto(s, "notify", j), SameJob(s, j), ListReady("notify", j, NoWrites, db')
  PROVE  PushInv'
<1>1. Blank(tx[s])
  BY Blanks
<1>2. \A l \in Loads : db.loads[l] # Absent => db'.loads[l] # Absent
  BY CommitRows
<1>3. j.op # "proactive" /\ (j.op = "create_load" => j.load \in Loads /\ db'.loads[j.load] # Absent)
  BY <1>2 DEF PushInv, PushReady, SameJob
<1>4. PushReady("notify", j, NoWrites, db')
  BY <1>3, BlankWrites DEF PushReady, PendingReady, Blank
<1>5. j.op = "create_load" => job[s].op = "create_load" /\ j.load = job[s].load
  BY DEF SameJob
<1> QED BY <1>1, <1>4, <1>5, CommitPushes DEF Blank

LEMMA MatchPushes ==
  ASSUME IInv, PushInv, OneAdmin, NEW s \in SessionIds, MatchStep(s)
  PROVE  PushInv'
<1>1. pc[s] \in {"probe_match", "insert_match", "mark_matched", "process_match"}
  BY DEF MatchStep, ProbeMatch, InsertMatch, MarkMatched, MatchConflict, AutoConnect, MediateMatch
<1>2. /\ job[s] \in Jobs /\ job[s].load \in Loads /\ job[s].truck \in Trucks
      /\ JobMatch(s) \in Matches /\ pc[s] \notin ListPhases
  BY <1>1, JobMatchType DEF NeedTruck, ListPhases
<1>3. Blank(tx[s]) /\ tx[s] \in Writes /\ job[s].op # "proactive"
  BY <1>2, Blanks DEF IInv, DataInv, PushInv, PushReady
<1>4. SameJob(s, job[s]) /\ SameJob(s, NoJob) /\ NoJob.op = "none"
  BY DEF SameJob, NoJob, None
<1>5. CASE ProbeMatch(s)
  <2>1. \E p \in {"insert_match", "record_interest", "scan"} : Goto(s, p, job[s]) \/ Goto(s, "idle", NoJob)
    BY <1>5 DEF ProbeMatch, AfterExistingMatch, Done
  <2>2. UNCHANGED <<db, pushes, crashes>> /\ tx' = [tx EXCEPT ![s] = tx[s]]
    BY <1>5 DEF ProbeMatch, outside, IInv, DataInv
  <2> QED BY <1>2, <1>3, <1>4, <2>1, <2>2, PlainGoto DEF ListPhases
<1>10. CASE InsertMatch(s)
  <2>1. KeyWrites(s).notices = tx[s].notices
    BY <1>3 DEF KeyWrites, Writes
  <2>2. Blank(KeyWrites(s))
    BY <1>3, <2>1 DEF Blank, Wrote
  <2>3. tx' = [tx EXCEPT ![s] = KeyWrites(s)] /\ UNCHANGED <<db, pushes, crashes>>
        /\ Goto(s, "mark_matched", job[s])
    BY <1>10 DEF InsertMatch, Stage, outside
  <2> QED BY <1>2, <1>4, <2>2, <2>3, PlainGoto DEF ListPhases
<1>6. CASE MarkMatched(s)
  <2> DEFINE l == job[s].load
             j == [job[s] EXCEPT !.memo[l] = MatchedStatus(@)]
  <2>1. SameJob(s, j)
    BY <1>2 DEF Jobs, SameJob
  <2>2. \E p \in {"process_match", "record_interest"} : Goto(s, p, j)
    BY <1>3, <1>6 DEF MarkMatched
  <2>3. MatchWrites(s) \in Writes /\ Blank(MatchWrites(s))
    <3>1. MatchWrites(s).notices = tx[s].notices
      BY <1>3 DEF MatchWrites, Writes
    <3> QED BY <1>3, <1>6, <3>1, MatchWritesSafe DEF Blank, Wrote, SafeWrites, MarkMatched
  <2>4. UNCHANGED <<pushes, crashes>> /\ (Commit(s, MatchWrites(s)) \/ Stage(s, MatchWrites(s)))
    BY <1>6 DEF MarkMatched, SaveMatch, outside
  <2> HIDE DEF j
  <2>5. CASE Commit(s, MatchWrites(s))
    BY <1>2, <2>1, <2>2, <2>3, <2>4, <2>5, PlainCommit DEF ListPhases
  <2>6. CASE Stage(s, MatchWrites(s))
    BY <1>2, <2>1, <2>2, <2>3, <2>4, <2>6, PlainGoto DEF ListPhases, Stage
  <2> QED BY <2>4, <2>5, <2>6
<1>7. CASE MatchConflict(s)
  BY <1>3, <1>7, BlankAbandon DEF MatchConflict, outside
<1>8. CASE AutoConnect(s)
  <2> DEFINE m == JobMatch(s)
             l == job[s].load
             w == [tx[s] EXCEPT !.matches[m] = "CONNECTED",
                                !.loads[l] = Assign(job[s].memo[l], "CONNECTED")]
  <2>1. PICK admin \in AdminChoices :
          StartNotices(s, [job[s] EXCEPT !.memo[l] = "CONNECTED"],
                       MatchNotices(l, job[s].truck, admin, "AUTO_CONNECTED"), "finish")
    BY <1>8 DEF AutoConnect
  <2> DEFINE todo == MatchNotices(l, job[s].truck, admin, "AUTO_CONNECTED")
             j == [[job[s] EXCEPT !.memo[l] = "CONNECTED"] EXCEPT !.todo = todo, !.after = "finish"]
  <2>2. Goto(s, "notify", j) /\ tx' = [tx EXCEPT ![s] = w] /\ UNCHANGED <<db, pushes, crashes>>
    BY <1>8, <2>1 DEF AutoConnect, StartNotices, Stage, outside
  <2>3. w.notices = tx[s].notices
    BY <1>3 DEF Writes
  <2>4. j.op = job[s].op /\ j.load = job[s].load /\ j.todo = todo /\ j.after = "finish"
    BY <1>2 DEF Jobs
  <2> HIDE DEF w, j, todo
  <2>5. Blank(w)
    BY <1>3, <2>3 DEF Blank, Wrote
  <2>6. "AUTO_CONNECTED" \in NotificationType \ {"BROADCAST"}
    BY DEF NotificationType
  <2>7. ListReady("notify", j, w, db)
    BY <1>2, <2>4, <2>5, <2>6, MatchList DEF todo
  <2> QED BY <1>2, <2>2, <2>4, <2>5, <2>7, PlainList DEF SameJob
<1>9. CASE MediateMatch(s)
  <2>1. PICK admin \in AdminChoices :
          StartNotices(s, job[s],
                       MatchNotices(job[s].load, job[s].truck, admin, "MATCH_FOUND"), "finish")
    BY <1>9 DEF MediateMatch
  <2> DEFINE todo == MatchNotices(job[s].load, job[s].truck, admin, "MATCH_FOUND")
             j == [job[s] EXCEPT !.todo = todo, !.after = "finish"]
  <2>2. Goto(s, "notify", j) /\ tx' = [tx EXCEPT ![s] = tx[s]] /\ UNCHANGED <<db, pushes, crashes>>
    BY <1>9, <2>1 DEF MediateMatch, StartNotices, outside, IInv, DataInv
  <2>3. j.op = job[s].op /\ j.load = job[s].load /\ j.todo = todo /\ j.after = "finish"
    BY <1>2 DEF Jobs
  <2> HIDE DEF j, todo
  <2>4. "MATCH_FOUND" \in NotificationType \ {"BROADCAST"}
    BY DEF NotificationType
  <2>5. ListReady("notify", j, tx[s], db)
    BY <1>2, <1>3, <2>3, <2>4, MatchList DEF todo
  <2> QED BY <1>2, <1>3, <2>2, <2>3, <2>5, PlainList DEF SameJob
<1> QED BY <1>5, <1>6, <1>7, <1>8, <1>9, <1>10 DEF MatchStep

\* A broadcast of the session's own load to one user.
LEMMA OwnBroadcast ==
  ASSUME NEW u \in Users, NEW l \in Loads, NEW w,
         \A k \in Notices : Wrote(k, w) => k[2] = l /\ k[3] = "BROADCAST", NEW d,
         NEW j, j.op = "create_load", j.load = l, j.after \in {"audience", "broadcast"},
         j.todo = NoticesFor(<<u>>, l, "BROADCAST")
  PROVE  ListReady("notify", j, w, d)
<1>1. Len(j.todo) = 1 /\ j.todo[1] = <<u, l, "BROADCAST">>
  BY DEF NoticesFor
<1>2. j.todo[1][2] = l /\ j.todo[1][3] = "BROADCAST"
  BY <1>1
<1>3. 1..Len(j.todo) = {1}
  BY <1>1
<1> QED BY <1>2, <1>3 DEF ListReady

\* A session that goes on with its search, or another task, remembers a load.
LEMMA RememberSame ==
  ASSUME IInv, NEW s \in SessionIds, NEW l \in Loads
  PROVE  /\ Remember(s, l).op = job[s].op /\ Remember(s, l).load = job[s].load
         /\ \A t : [Remember(s, l) EXCEPT !.truck = t].op = job[s].op
                   /\ [Remember(s, l) EXCEPT !.truck = t].load = job[s].load
         /\ \A m : [Remember(s, l) EXCEPT !.load = m].op = job[s].op
<1>1. /\ job[s] \in Jobs /\ Remember(s, l) \in Jobs
      /\ Remember(s, l) = [job[s] EXCEPT !.memo = Remember(s, l).memo]
  BY RememberType DEF IInv, ControlInv
<1> DEFINE r == Remember(s, l)
<1>2. r \in Jobs /\ r.op = job[s].op /\ r.load = job[s].load
  BY <1>1 DEF Jobs
<1> HIDE DEF r
<1>3. /\ \A t : [r EXCEPT !.truck = t].op = r.op /\ [r EXCEPT !.truck = t].load = r.load
      /\ \A m : [r EXCEPT !.load = m].op = r.op
  BY <1>2 DEF Jobs
<1> QED BY <1>2, <1>3 DEF r

LEMMA SearchPushes ==
  ASSUME IInv, PushInv, NEW s \in SessionIds, SearchTruck(s) \/ SearchLoad(s)
  PROVE  PushInv'
<1>1. /\ pc[s] = "search" /\ pc[s] \notin ListPhases /\ UNCHANGED <<db, pushes, crashes>>
      /\ tx' = [tx EXCEPT ![s] = tx[s]]
  BY DEF SearchTruck, SearchLoad, ListPhases, outside, IInv, DataInv
<1>2. Blank(tx[s])
  BY <1>1, Blanks
<1>3. "probe_match" \notin ListPhases /\ "no_match" \notin ListPhases /\ "idle" \notin ListPhases
  BY DEF ListPhases
<1>4. CASE SearchTruck(s)
  <2> DEFINE r == Remember(s, job[s].load)
  <2>1. job[s].op = "create_load" /\ job[s].load \in Loads
    BY <1>1, <1>4 DEF SearchTruck, PushInv, PushReady
  <2>2. (\E t : Goto(s, "probe_match", [r EXCEPT !.truck = t])) \/ Goto(s, "no_match", r)
    BY <1>4 DEF SearchTruck
  <2>3. /\ r.op = "create_load" /\ SameJob(s, r)
        /\ \A t : SameJob(s, [r EXCEPT !.truck = t])
    BY <2>1, RememberSame DEF SameJob
  <2> HIDE DEF r
  <2>4. CASE Goto(s, "no_match", r)
    BY <1>1, <1>2, <1>3, <2>3, <2>4, PlainGoto
  <2>5. CASE \E t : Goto(s, "probe_match", [r EXCEPT !.truck = t])
    <3>1. PICK t : Goto(s, "probe_match", [r EXCEPT !.truck = t])
      BY <2>5
    <3> DEFINE j == [r EXCEPT !.truck = t]
    <3>2. SameJob(s, j) /\ Goto(s, "probe_match", j)
      BY <2>3, <3>1
    <3> HIDE DEF j
    <3> QED BY <1>1, <1>2, <1>3, <3>2, PlainGoto
  <2> QED BY <2>2, <2>4, <2>5
<1>5. CASE SearchLoad(s)
  <2>1. CASE Goto(s, "idle", NoJob)
    <3>1. SameJob(s, NoJob)
      BY DEF SameJob, NoJob, None
    <3> QED BY <1>1, <1>2, <1>3, <2>1, <3>1, PlainGoto
  <2>2. CASE \E l \in BestLoads(job[s].truck, WaitingLoads(s)) :
               Goto(s, "probe_match", [Remember(s, l) EXCEPT !.load = l])
    <3>1. PICK l \in BestLoads(job[s].truck, WaitingLoads(s)) :
                 Goto(s, "probe_match", [Remember(s, l) EXCEPT !.load = l])
      BY <2>2
    <3> DEFINE j == [Remember(s, l) EXCEPT !.load = l]
    <3>2. l \in Loads
      BY <3>1 DEF BestLoads, WaitingLoads
    <3>3. j.op = "create_truck"
      BY <1>5, <3>2, RememberSame DEF SearchLoad
    <3>4. SameJob(s, j) /\ Goto(s, "probe_match", j)
      BY <3>1, <3>3 DEF SameJob
    <3> HIDE DEF j
    <3> QED BY <1>1, <1>2, <1>3, <3>4, PlainGoto
  <2> QED BY <1>5, <2>1, <2>2 DEF SearchLoad, Done
<1> QED BY <1>4, <1>5

\* The acknowledgement, after the commit of the waiting load.
LEMMA SetWaitingPushes ==
  ASSUME IInv, PushInv, NEW s \in SessionIds, SetWaiting(s)
  PROVE  PushInv'
<1> DEFINE l == job[s].load
           v == Assign(job[s].memo[l], "WAITING_FOR_MATCH")
           todo == NoticesFor(<<ShipperOf[l]>>, l, "BROADCAST")
           j == [[job[s] EXCEPT !.memo[l] = "WAITING_FOR_MATCH"]
                   EXCEPT !.todo = todo, !.after = "audience"]
<1>1. /\ pc[s] = "no_match" /\ pc[s] \notin ListPhases /\ UNCHANGED <<pushes, crashes>>
      /\ Commit(s, OneLoad(l, v)) /\ Goto(s, "notify", j)
  BY DEF SetWaiting, StartNotices, ListPhases, outside, OneLoad
<1>2. job[s] \in Jobs /\ job[s].op = "create_load" /\ l \in Loads /\ ShipperOf[l] \in Users
  BY <1>1, Parties DEF PushInv, PushReady, IInv, ControlInv
<1>3. v \in LoadStatus \cup {NoWrite}
  BY AssignType DEF LoadStatus
<1>4. j.op = "create_load" /\ j.load = l /\ j.after = "audience" /\ j.todo = todo
  BY <1>2 DEF Jobs
<1> HIDE DEF j, v, todo
<1>5. OneLoad(l, v) \in Writes /\ Blank(OneLoad(l, v))
  BY <1>2, <1>3, LoadWrites DEF Blank, Wrote
<1>6. ListReady("notify", j, NoWrites, db')
  BY <1>2, <1>4, BlankWrites, OwnBroadcast DEF Blank, todo
<1>7. SameJob(s, j)
  BY <1>2, <1>4 DEF SameJob
<1> QED BY <1>1, <1>5, <1>6, <1>7, CommitList DEF Blank

\* The commit of the acknowledgement.
LEMMA SelectAudiencePushes ==
  ASSUME IInv, PushInv, NEW s \in SessionIds, SelectAudience(s)
  PROVE  PushInv'
<1> DEFINE j == [job[s] EXCEPT !.audience = EligibleCarriers(job[s].load)]
<1>1. /\ pc[s] = "audience" /\ UNCHANGED <<pushes, crashes>>
      /\ Commit(s, tx[s]) /\ Goto(s, "broadcast", j)
      /\ PushReady(pc[s], job[s], tx[s], db) /\ tx[s] \in Writes /\ job[s] \in Jobs
  BY DEF SelectAudience, outside, PushInv, IInv, DataInv, ControlInv
<1>2. /\ job[s].op = "create_load" /\ job[s].load \in Loads /\ db.loads[job[s].load] # Absent
      /\ \A k \in Notices : Wrote(k, tx[s]) => k[3] = "BROADCAST"
  BY <1>1 DEF PushReady
<1>3. j.op = "create_load" /\ j.load = job[s].load
  BY <1>1, <1>2 DEF Jobs
<1> HIDE DEF j
<1>4. db'.loads[j.load] # Absent
  BY <1>1, <1>2, <1>3, CommitRows
<1>5. PushReady("broadcast", j, NoWrites, db')
  BY <1>2, <1>3, <1>4, BlankWrites DEF PushReady, PendingReady, Blank
<1> QED BY <1>1, <1>2, <1>3, <1>5, CommitPushes

\* The next broadcast, or the last commit.
LEMMA BroadcastNextPushes ==
  ASSUME IInv, PushInv, NEW s \in SessionIds, BroadcastNext(s)
  PROVE  PushInv'
<1>1. /\ pc[s] = "broadcast" /\ UNCHANGED <<db, pushes, crashes>> /\ tx' = [tx EXCEPT ![s] = tx[s]]
      /\ PushReady(pc[s], job[s], tx[s], db) /\ job[s] \in Jobs
  BY DEF BroadcastNext, outside, PushInv, IInv, DataInv, ControlInv
<1>2. /\ job[s].op = "create_load" /\ job[s].load \in Loads /\ db.loads[job[s].load] # Absent
      /\ PendingReady(job[s], tx[s], db)
      /\ \A k \in Notices : Wrote(k, tx[s]) => k[3] = "BROADCAST" /\ k[2] = job[s].load
  BY <1>1 DEF PushReady, PendingReady
<1>3. CASE Goto(s, "finish", job[s])
  <2>1. PushReady("finish", job[s], tx[s], db)
    BY <1>2 DEF PushReady
  <2> QED BY <1>1, <1>3, <2>1, StayPushes
<1>4. CASE \E u \in job[s].audience :
             StartNotices(s, [job[s] EXCEPT !.audience = @ \ {u}],
               NoticesFor(<<u>>, job[s].load, "BROADCAST"), "broadcast")
  <2>1. PICK u \in job[s].audience :
               StartNotices(s, [job[s] EXCEPT !.audience = @ \ {u}],
                 NoticesFor(<<u>>, job[s].load, "BROADCAST"), "broadcast")
    BY <1>4
  <2> DEFINE todo == NoticesFor(<<u>>, job[s].load, "BROADCAST")
             j == [[job[s] EXCEPT !.audience = @ \ {u}] EXCEPT !.todo = todo, !.after = "broadcast"]
  <2>2. u \in Users /\ Goto(s, "notify", j)
    BY <1>1, <2>1 DEF Jobs, StartNotices
  <2>3. j.op = "create_load" /\ j.load = job[s].load /\ j.after = "broadcast" /\ j.todo = todo
    BY <1>1, <1>2 DEF Jobs
  <2> HIDE DEF j, todo
  <2>4. ListReady("notify", j, tx[s], db)
    BY <1>2, <2>2, <2>3, OwnBroadcast DEF todo
  <2>5. PushReady("notify", j, tx[s], db)
    BY <1>2, <2>3, <2>4 DEF PushReady, PendingReady
  <2> QED BY <1>1, <1>2, <2>2, <2>3, <2>5, StayPushes
<1> QED BY <1>3, <1>4 DEF BroadcastNext

\* The interest is stored, and the carrier's broadcast marked.
LEMMA RecordInterestPushes ==
  ASSUME IInv, PushInv, OneAdmin, NEW s \in SessionIds, RecordInterest(s)
  PROVE  PushInv'
<1> DEFINE l == job[s].load
           k == <<CarrierOf[job[s].truck], l, "BROADCAST">>
           v == IF db.notices[k] = Absent THEN NoWrite
                ELSE Assign(db.notices[k], "INTERESTED")
           w == [tx[s] EXCEPT !.notices[k] = v]
<1>1. /\ pc[s] = "record_interest" /\ pc[s] \notin ListPhases
      /\ UNCHANGED <<pushes, crashes>> /\ Commit(s, w)
      /\ tx[s] \in Writes
  BY DEF RecordInterest, ListPhases, outside, IInv, DataInv
<1>2. job[s] \in Jobs /\ l \in Loads /\ job[s].truck \in Trucks
  BY JobMatchType DEF RecordInterest, NeedTruck
<1>3. k \in Notices /\ k[3] = "BROADCAST"
  BY <1>2, Parties DEF Notices, NotificationType
<1>4. v \in NotificationStatus \cup {NoWrite} /\ (v # NoWrite => db.notices[k] # Absent)
  BY DEF Assign, NotificationStatus
<1>5. Blank(tx[s])
  BY <1>1, Blanks
<1> HIDE DEF v, k
<1>6. w \in Writes /\ \A n \in Notices : w.notices[n] = IF n = k THEN v ELSE tx[s].notices[n]
  BY <1>1, <1>3, <1>4 DEF Writes
<1> HIDE DEF w
<1>7. \A n \in Notices : Wrote(n, w) => db.notices[n] # Absent /\ n[3] = "BROADCAST"
  BY <1>3, <1>4, <1>5, <1>6 DEF Blank, Wrote
<1>8. PICK admin \in AdminChoices :
        StartNotices(s, job[s], InterestNotices(l, admin), "finish")
  BY DEF RecordInterest
<1> DEFINE todo == InterestNotices(l, admin)
           j == [job[s] EXCEPT !.todo = todo, !.after = "finish"]
<1>9. Goto(s, "notify", j)
  BY <1>8 DEF StartNotices
<1>10. j.op = job[s].op /\ j.load = l /\ j.after = "finish" /\ j.todo = todo
  BY <1>2 DEF Jobs
<1> HIDE DEF j, todo
<1>11. ListReady("notify", j, NoWrites, db')
  BY <1>2, <1>10, BlankWrites, InterestList DEF todo
<1>12. SameJob(s, j)
  BY <1>10 DEF SameJob
<1> QED BY <1>1, <1>6, <1>7, <1>9, <1>11, <1>12, CommitList

LEMMA RequestPushes ==
  ASSUME IInv, PushInv, OneAdmin, NEW s \in SessionIds, RequestStep(s)
  PROVE  PushInv'
  BY SearchPushes, SetWaitingPushes, SelectAudiencePushes, BroadcastNextPushes, RecordInterestPushes
  DEF RequestStep

-----------------------------------------------------------------------------
(* The admin, the passes, new requests *)

\* A session with no job is in no list's way.
LEMMA RestSame == \A s \in SessionIds : SameJob(s, NoJob)
  BY DEF SameJob, NoJob, None

LEMMA AdminPushes ==
  ASSUME IInv, PushInv, OneAdmin, NEW s \in SessionIds, AdminStep(s)
  PROVE  PushInv'
<1>1. /\ pc[s] \in {"fetch_load", "act"} /\ pc[s] \notin ListPhases
      /\ "idle" \notin ListPhases
  BY DEF AdminStep, Acting, AdminFetchNext, AdminContact, AdminConnect, ConnectConflict,
         AdminReject, AdminCancelLoad, AdminResend, ListPhases
<1>2. ASSUME NEW w \in Writes, w.notices = NoWrites.notices, Commit(s, w), Done(s),
             UNCHANGED <<pushes, crashes>>
      PROVE  PushInv'
  <2>1. Blank(w)
    BY <1>2, BlankWrites DEF Blank, Wrote
  <2> QED BY <1>1, <1>2, <2>1, RestSame, PlainCommit DEF Done
<1>3. \A ms, ls : StatusWrites(s, ms, ls).notices = NoWrites.notices
  BY DEF StatusWrites, NoWrites
<1>4. CASE AdminContact(s)
  <2>1. StatusWrites(s, "ADMIN_CONTACTING", "ADMIN_CONTACTING") \in Writes
    BY <1>4, ActingType, StatusWritesType DEF AdminContact, MatchActions, MatchStatus, LoadStatus
  <2> QED BY <1>2, <1>3, <1>4, <2>1 DEF AdminContact, outside
<1>5. CASE AdminConnect(s)
  <2> DEFINE v == StatusWrites(s, "CONNECTED", "CONNECTED")
             w == ConnectWrites(s)
  <2>1. job[s].load \in Loads /\ job[s].truck \in Trucks /\ JobMatch(s) \in Matches
    BY <1>5, ActingType DEF AdminConnect, MatchActions
  <2>2. PairOf(JobMatch(s)) \in Pairs
    BY <2>1, Parties DEF PairOf, JobMatch, Pairs
  <2>3. v \in Writes
    BY <2>1, StatusWritesType DEF MatchStatus, LoadStatus
  <2>4. w = [v EXCEPT !.trusted = {PairOf(JobMatch(s))}] /\ v.notices = NoWrites.notices
    BY <1>3 DEF ConnectWrites
  <2>5. Commit(s, w) /\ Done(s) /\ UNCHANGED <<pushes, crashes>>
    BY <1>5 DEF AdminConnect, outside
  <2> HIDE DEF v, w
  <2>6. w \in Writes /\ w.notices = NoWrites.notices
    BY <2>2, <2>3, <2>4 DEF Writes
  <2> QED BY <1>2, <2>5, <2>6
<1>6. CASE ConnectConflict(s)
  BY <1>1, <1>6, Blanks, BlankAbandon DEF ConnectConflict, outside
<1>7. CASE AdminReject(s)
  <2> DEFINE st == job[s].memo[job[s].load]
             ls == IF st \in {"CONNECTED", "CONFIRMED", "COMPLETED"}
                     THEN st ELSE "WAITING_FOR_MATCH"
  <2>1. ls \in LoadStatus /\ "REJECTED" \in MatchStatus
    BY DEF LoadStatus, MatchStatus
  <2>2. Commit(s, StatusWrites(s, "REJECTED", ls)) /\ Done(s) /\ UNCHANGED <<pushes, crashes>>
    BY <1>7 DEF AdminReject, outside
  <2> HIDE DEF ls
  <2>3. StatusWrites(s, "REJECTED", ls) \in Writes
    BY <1>7, <2>1, ActingType, StatusWritesType DEF AdminReject, MatchActions
  <2> QED BY <1>2, <1>3, <2>2, <2>3
<1>8. CASE AdminCancelLoad(s)
  <2> DEFINE l == job[s].load
             v == Assign(job[s].memo[l], "CANCELLED")
  <2>1. l \in Loads
    BY <1>8 DEF IInv, ControlInv, JobReady, NeedLoad, AdminCancelLoad, Acting
  <2>2. v \in LoadStatus \cup {NoWrite}
    BY AssignType DEF LoadStatus
  <2>3. Commit(s, OneLoad(l, v)) /\ Done(s) /\ UNCHANGED <<pushes, crashes>>
    BY <1>8 DEF AdminCancelLoad, OneLoad, outside
  <2> HIDE DEF v
  <2>4. OneLoad(l, v) \in Writes /\ OneLoad(l, v).notices = NoWrites.notices
    BY <2>1, <2>2, LoadWrites DEF OneLoad, NoWrites
  <2> QED BY <1>2, <2>3, <2>4
<1>9. CASE AdminResend(s)
  <2>1. PICK a \in Admins :
          StartNotices(s, job[s],
            MatchNotices(job[s].load, job[s].truck, <<a>>, "MATCH_FOUND"), "finish")
    BY <1>9 DEF AdminResend
  <2>2. job[s] \in Jobs /\ job[s].load \in Loads /\ job[s].truck \in Trucks
    BY <1>9, ActingType DEF AdminResend, MatchActions
  <2> DEFINE todo == MatchNotices(job[s].load, job[s].truck, <<a>>, "MATCH_FOUND")
             j == [job[s] EXCEPT !.todo = todo, !.after = "finish"]
  <2>3. Goto(s, "notify", j) /\ tx' = [tx EXCEPT ![s] = tx[s]] /\ UNCHANGED <<db, pushes, crashes>>
    BY <1>9, <2>1 DEF AdminResend, StartNotices, outside, IInv, DataInv
  <2>4. j.op = job[s].op /\ j.load = job[s].load /\ j.todo = todo /\ j.after = "finish"
    BY <2>2 DEF Jobs
  <2> HIDE DEF j, todo
  <2>5. "MATCH_FOUND" \in NotificationType \ {"BROADCAST"} /\ Blank(tx[s])
    BY <1>1, Blanks DEF NotificationType
  <2>6. ListReady("notify", j, tx[s], db)
    BY <2>2, <2>4, <2>5, MatchList DEF todo
  <2> QED BY <1>1, <2>3, <2>4, <2>5, <2>6, PlainList DEF SameJob
<1>10. CASE AdminFetchNext(s)
  <2>1. SameJob(s, Remember(s, job[s].load))
    BY DEF Remember, SameJob, IInv, ControlInv, Jobs
  <2>2. Goto(s, "act", Remember(s, job[s].load)) /\ UNCHANGED <<db, pushes, crashes>>
        /\ tx' = [tx EXCEPT ![s] = tx[s]]
    BY <1>10 DEF AdminFetchNext, outside, IInv, DataInv
  <2>3. Blank(tx[s])
    BY <1>1, Blanks
  <2> QED BY <1>1, <2>1, <2>2, <2>3, PlainGoto DEF ListPhases
<1> QED BY <1>4, <1>5, <1>6, <1>7, <1>8, <1>9, <1>10 DEF AdminStep

\* Only the proactive pass scans.
LEMMA WorkerPushes ==
  ASSUME IInv, BInv, PushInv, NEW s \in SessionIds, WorkerStep(s)
  PROVE  PushInv'
<1>1. pc[s] # "scan"
  BY DEF BInv, SessionsFit, Knows, PushInv, PushReady
<1>2. RemindNext(s)
  BY <1>1 DEF WorkerStep, ScanTruck, ScanLoad
<1>3. pc[s] \notin ListPhases /\ Blank(tx[s]) /\ tx[s] \in Writes /\ job[s] \in Jobs
  BY <1>2, Blanks DEF RemindNext, ListPhases, IInv, DataInv, ControlInv
<1>4. PICK k \in job[s].due : \E mm : LET j == [job[s] EXCEPT !.due = @ \ {k}, !.memo = mm] IN
        /\ Goto(s, IF j.due = {} THEN "finish" ELSE "remind", j)
        /\ \/ Stage(s, [tx[s] EXCEPT !.reminded = @ \cup {k}])
           \/ UNCHANGED <<db, tx>>
  BY <1>2 DEF RemindNext
<1>5. PICK mm : LET j == [job[s] EXCEPT !.due = @ \ {k}, !.memo = mm] IN
        /\ Goto(s, IF j.due = {} THEN "finish" ELSE "remind", j)
        /\ \/ Stage(s, [tx[s] EXCEPT !.reminded = @ \cup {k}])
           \/ UNCHANGED <<db, tx>>
  BY <1>4
<1> DEFINE j == [job[s] EXCEPT !.due = @ \ {k}, !.memo = mm]
           p == IF j.due = {} THEN "finish" ELSE "remind"
           w == [tx[s] EXCEPT !.reminded = @ \cup {k}]
<1>6. SameJob(s, j)
  BY <1>3 DEF Jobs, SameJob
<1>7. Goto(s, p, j) /\ UNCHANGED <<db, pushes, crashes>> /\ p \in {"finish", "remind"}
  BY <1>2, <1>5 DEF Stage, RemindNext
<1>8. Blank(w)
  BY <1>3 DEF Blank, Wrote, Writes
<1>9. tx' = [tx EXCEPT ![s] = w] \/ tx' = [tx EXCEPT ![s] = tx[s]]
  BY <1>5 DEF Stage, IInv, DataInv
<1> HIDE DEF j, p, w
<1> QED BY <1>3, <1>6, <1>7, <1>8, <1>9, PlainGoto DEF ListPhases

\* A new load belongs to its request alone.
LEMMA CreateLoadPushes ==
  ASSUME IInv, PushInv, NEW s \in SessionIds, NEW l \in Loads, CreateLoad(s, l)
  PROVE  PushInv'
<1> DEFINE w == OneLoad(l, "NEW")
           j == [NoJob EXCEPT !.op = "create_load", !.load = l]
<1>1. /\ pc[s] = "idle" /\ db.loads[l] = Absent /\ Commit(s, w) /\ Goto(s, "search", j)
      /\ UNCHANGED <<pushes, crashes>>
  BY DEF CreateLoad, OneLoad, outside
<1>2. w \in Writes /\ Blank(w) /\ w.loads[l] = "NEW"
  BY LoadWrites DEF Blank, Wrote, LoadStatus
<1>3. j.op = "create_load" /\ j.load = l
  BY DEF NoJob
<1> HIDE DEF j, w
<1>4. db'.loads[l] = "NEW"
  BY <1>1, <1>2, CommitRows DEF NoWrite
<1>5. PushReady("search", j, NoWrites, db')
  BY <1>3, <1>4, BlankWrites DEF PushReady, PendingReady, Blank, Absent
<1>6. \A o \in SessionIds : job[o].op = "create_load" => job[o].load # l
  BY <1>1 DEF PushInv, PushReady
<1>7. Blank(tx[s])
  BY <1>1, Blanks DEF ListPhases
<1> QED BY <1>1, <1>2, <1>3, <1>5, <1>6, <1>7, CommitPushes DEF Blank

LEMMA StartPushes ==
  ASSUME IInv, PushInv, "proactive" \notin Workload, NEW s \in SessionIds, Start(s)
  PROVE  PushInv'
<1>1. pc[s] = "idle" /\ pc[s] \notin ListPhases
  BY DEF Start, CreateLoad, CreateTruck, PressInterest, AdminFetch, AdminFetchLoad, StartProactive,
         StartReminders, ListPhases
<1>2. Blank(tx[s])
  BY <1>1, Blanks
<1>3. /\ "idle" \notin ListPhases /\ "search" \notin ListPhases /\ "probe_match" \notin ListPhases
      /\ "act" \notin ListPhases /\ "fetch_load" \notin ListPhases /\ "remind" \notin ListPhases
  BY DEF ListPhases
<1>4. CASE \E l \in Loads : CreateLoad(s, l)
  BY <1>4, CreateLoadPushes
<1>5. CASE \E t \in Trucks : CreateTruck(s, t)
  <2>1. PICK t \in Trucks : CreateTruck(s, t)
    BY <1>5
  <2> DEFINE w == [NoWrites EXCEPT !.trucks = {t}]
             j == [NoJob EXCEPT !.op = "create_truck", !.truck = t]
  <2>2. w \in Writes
    BY PlainWritesSafe DEF SafeWrites
  <2>3. Blank(w)
    BY BlankWrites DEF Blank, Wrote, NoWrites
  <2>4. j.op = "create_truck"
    BY DEF NoJob
  <2>5. /\ Commit(s, w) /\ UNCHANGED <<pushes, crashes>>
        /\ (Goto(s, "search", j) \/ Goto(s, "idle", NoJob))
    BY <2>1 DEF CreateTruck, Done, outside
  <2> HIDE DEF j, w
  <2>6. SameJob(s, j) /\ SameJob(s, NoJob)
    BY <2>4, RestSame DEF SameJob
  <2> QED BY <1>1, <1>3, <2>2, <2>3, <2>5, <2>6, PlainCommit
<1>6. CASE \E l \in Loads, t \in Trucks : PressInterest(s, l, t)
  <2>1. PICK l \in Loads, t \in Trucks : PressInterest(s, l, t)
    BY <1>6
  <2> DEFINE w == [NoWrites EXCEPT !.interests = {<<l, t>>}]
             j == [NoJob EXCEPT !.op = "register_interest", !.load = l, !.truck = t,
                                !.memo[l] = db.loads[l]]
  <2>2. tx' = [tx EXCEPT ![s] = w] /\ UNCHANGED <<db, pushes, crashes>> /\ Goto(s, "probe_match", j)
    BY <2>1 DEF PressInterest, SaveInterest, Stage, outside
  <2>3. Blank(w)
    BY BlankWrites DEF Blank, Wrote, NoWrites
  <2>4. j.op = "register_interest"
    BY DEF NoJob
  <2> HIDE DEF j, w
  <2>5. SameJob(s, j)
    BY <2>4 DEF SameJob
  <2> QED BY <1>1, <1>3, <2>2, <2>3, <2>5, PlainGoto
<1>7. ASSUME NEW p \in {"fetch_load", "act", "remind"}, NEW j, j.op \notin {"create_load", "proactive"},
             Goto(s, p, j), UNCHANGED <<db, tx, pushes, crashes>>
      PROVE  PushInv'
  <2>1. tx' = [tx EXCEPT ![s] = tx[s]]
    BY <1>7 DEF IInv, DataInv
  <2> QED BY <1>1, <1>2, <1>3, <1>7, <2>1, PlainGoto DEF SameJob
<1>8. CASE \E act \in Workload, m \in Matches : AdminFetch(s, act, m)
  <2>1. PICK act \in Workload, m \in Matches : AdminFetch(s, act, m)
    BY <1>8
  <2> DEFINE j == [NoJob EXCEPT !.op = act, !.load = m[1], !.truck = m[2],
                                !.match = db.matches[m]]
  <2>2. Goto(s, "fetch_load", j) /\ act \in MatchActions /\ UNCHANGED <<db, tx, pushes, crashes>>
    BY <2>1 DEF AdminFetch, outside
  <2>3. j.op \notin {"create_load", "proactive"}
    BY <2>2 DEF NoJob, MatchActions
  <2> HIDE DEF j
  <2> QED BY <1>7, <2>2, <2>3
<1>9. CASE \E l \in Loads : AdminFetchLoad(s, l)
  <2>1. PICK l \in Loads : AdminFetchLoad(s, l)
    BY <1>9
  <2>2. [NoJob EXCEPT !.op = "cancel_load", !.load = l, !.memo[l] = db.loads[l]].op
          \notin {"create_load", "proactive"}
    BY DEF NoJob
  <2> QED BY <1>7, <2>1, <2>2 DEF AdminFetchLoad, outside
<1>10. CASE \E old \in SUBSET Remindable : StartReminders(s, old)
  <2>1. PICK old \in SUBSET Remindable : StartReminders(s, old)
    BY <1>10
  <2>2. [NoJob EXCEPT !.op = "reminders", !.due = old].op \notin {"create_load", "proactive"}
    BY DEF NoJob
  <2> QED BY <1>7, <2>1, <2>2 DEF StartReminders, outside
<1> QED BY <1>4, <1>5, <1>6, <1>8, <1>9, <1>10 DEF Start

\* A session dies: what it alone had pending may be pushed once more.
LEMMA CrashPushes ==
  ASSUME IInv, PushInv, NEW s \in SessionIds, Crash(s)
  PROVE  PushInv'
<1>1. tx \in [SessionIds -> Writes] /\ pc \in [SessionIds -> Phases] /\ job \in [SessionIds -> Jobs]
  BY DEF IInv, DataInv, ControlInv
<1>2. UNCHANGED <<db, pushes>> /\ crashes' = crashes + 1
  BY DEF Crash, Abandon, outside
<1>3. /\ \A o \in SessionIds \ {s} : pc'[o] = pc[o] /\ job'[o] = job[o] /\ tx'[o] = tx[o]
      /\ pc'[s] = "idle" /\ job'[s] = NoJob /\ tx'[s] = NoWrites
  BY <1>1 DEF Crash, Abandon, Done, Goto
<1>4. NoJob.op # "create_load" /\ SameJob(s, NoJob)
  BY RestSame DEF NoJob, None
<1>5. PushedOnce'
  <2>1. crashes \in Nat /\ pushes \in [Notices -> Nat]
    BY DEF IInv, OutsideInv
  <2>2. \A k \in Notices : pushes'[k] <= crashes'
    BY <1>2, <2>1 DEF PushInv, PushedOnce
  <2> QED BY <1>2, <2>1, <2>2 DEF PushedOnce
<1>6. StoredInOrder'
  BY <1>2 DEF PushInv, StoredInOrder
<1>7. Apart'
  BY <1>3, <1>4, BlankWrites DEF PushInv, Apart, Blank
<1>8. PushReady("idle", NoJob, NoWrites, db)
  BY <1>4, BlankWrites, PlainReady DEF ListPhases
<1>9. \A o \in SessionIds : PushReady(pc'[o], job'[o], tx'[o], db')
  BY <1>2, <1>3, <1>8 DEF PushInv
<1> QED BY <1>5, <1>6, <1>7, <1>9 DEF PushInv

-----------------------------------------------------------------------------
\* Nobody is pushed the same notice twice, except once more per session that
\* died, as long as no proactive pass runs and there is at most one admin: the
\* shipper's row is a lock for the rest of a list, so that every rollback that
\* follows a conflict discards nothing that was sent (_create_notification_row).
THEOREM NoNoticeTwice ==
  ASSUME "proactive" \notin Workload, OneAdmin
  PROVE  Spec => []NoDuplicatePush
<1>1. Init => PushInv
  <2> SUFFICES ASSUME Init PROVE PushInv
    OBVIOUS
  <2>1. PushReady("idle", NoJob, NoWrites, db)
    BY BlankWrites DEF PushReady, PendingReady, Blank, NoJob, None
  <2>2. PushedOnce /\ StoredInOrder
    BY DEF Init, SessionsInit, EmptyTables, PushedOnce, StoredInOrder
  <2>3. Apart
    BY BlankWrites DEF Init, SessionsInit, Apart, Blank, NoJob, None
  <2> QED BY <2>1, <2>2, <2>3 DEF Init, SessionsInit, PushInv
<1>2. (IInv /\ BInv) /\ PushInv /\ [Next]_vars => PushInv'
  <2> SUFFICES ASSUME IInv, BInv, PushInv, [Next]_vars PROVE PushInv'
    OBVIOUS
  <2>1. CASE UNCHANGED vars
    BY <2>1 DEF vars, outside, PushInv, PushedOnce, StoredInOrder, Apart
  <2>2. ASSUME NEW s \in SessionIds, Start(s) PROVE PushInv'
    BY <2>2, StartPushes
  <2>3. ASSUME NEW s \in SessionIds, Step(s) PROVE PushInv'
    BY <2>3, NotifyPushes, MatchPushes, RequestPushes, AdminPushes, WorkerPushes DEF Step
  <2>4. ASSUME NEW s \in SessionIds, Crash(s) PROVE PushInv'
    BY <2>4, CrashPushes
  <2> QED BY <2>1, <2>2, <2>3, <2>4 DEF Next
<1>3. PushInv => NoDuplicatePush
  BY DEF PushInv, PushedOnce, NoDuplicatePush
<1> QED BY <1>1, <1>2, <1>3, BothAlways, PTL DEF Spec
=============================================================================
