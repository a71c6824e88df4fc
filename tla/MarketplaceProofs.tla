-------------------------- MODULE MarketplaceProofs --------------------------
(***************************************************************************)
(* Theorems of Marketplace, for any number of loads, trucks, users and     *)
(* concurrent sessions, and any workload.                                  *)
(*                                                                         *)
(* The inductive invariant IInv has three parts.  DataInv is about the     *)
(* committed tables and the pending writes, ControlInv about what each     *)
(* session is doing, OutsideInv about what has left the backend.  A step   *)
(* commits, stages or discards writes, and sends its session to a phase    *)
(* with a job: the lemmas below say what the writes and the job must       *)
(* satisfy for the parts to survive, and the proof of each action shows    *)
(* that its own writes and job do.                                         *)
(***************************************************************************)
EXTENDS Marketplace, TLAPS

\* Writes that may become visible: a match is made CONNECTED only for a pair
\* that is trusted, or becomes trusted by the same writes.
SafeWrites(w) ==
  /\ w \in Writes
  /\ \A m \in Matches :
       w.matches[m] = "CONNECTED" => PairOf(m) \in db.trusted \cup w.trusted

\* Every transaction could commit at once, and none has a trusted pair pending.
DataInv ==
  /\ db \in Tables
  /\ tx \in [SessionIds -> Writes]
  /\ ConnectedOnlyIfTrusted
  /\ \A s \in SessionIds : SafeWrites(tx[s]) /\ tx[s].trusted = {}

-----------------------------------------------------------------------------
NeedLoad  == {"no_match", "audience", "broadcast", "probe_match", "insert_match",
              "mark_matched", "process_match", "record_interest", "notify", "send",
              "fetch_load", "act"}
NeedTruck == {"probe_match", "insert_match", "mark_matched", "process_match",
              "record_interest"}

\* A list of notices in work: it is not empty, the phase after it is one the
\* job is ready for, and contact details are only for a trusted pair.
NoticesReady(j, trusted) ==
  /\ j.todo # <<>>
  /\ j.after \in {"finish", "scan", "broadcast", "audience"}
  /\ \A i \in 1..Len(j.todo) :
       j.todo[i][3] = "AUTO_CONNECTED" =>
         j.truck \in Trucks /\ PairOf(<<j.load, j.truck>>) \in trusted

\* What job j must be for a session to be in phase p.
JobReady(p, j, trusted) ==
  /\ p \in NeedLoad => j.load \in Loads
  /\ p \in NeedTruck => j.truck \in Trucks
  /\ p = "search" /\ j.op = "create_load" => j.load \in Loads
  /\ p = "search" /\ j.op = "create_truck" => j.truck \in Trucks
  /\ p \in {"fetch_load", "act"} /\ j.op # "cancel_load" =>
       /\ j.truck \in Trucks
       /\ j.match = "CONNECTED" => PairOf(<<j.load, j.truck>>) \in trusted
  /\ j.cand # {} => j.truck \in Trucks
  /\ p \in {"notify", "send"} => NoticesReady(j, trusted)

ControlInv ==
  /\ pc \in [SessionIds -> Phases]
  /\ job \in [SessionIds -> Jobs]
  /\ \A s \in SessionIds : JobReady(pc[s], job[s], db.trusted)

OutsideInv ==
  /\ pushes \in [Notices -> Nat]
  /\ reminders \in [Notices -> Nat]
  /\ RevealedOnlyIfTrusted
  /\ crashes \in Nat

\* The inductive invariant.
IInv == DataInv /\ ControlInv /\ OutsideInv

-----------------------------------------------------------------------------
(* Reading and writing the tables. *)

\* Applying writes to the tables gives tables.
LEMMA OverlayType ==
  ASSUME NEW d \in Tables, NEW w \in Writes
  PROVE  /\ Overlay(d, w) \in Tables
         /\ Overlay(d, w).trusted = d.trusted \cup w.trusted
         /\ \A m \in Matches :
              Overlay(d, w).matches[m] =
                IF w.matches[m] = NoWrite THEN d.matches[m] ELSE w.matches[m]
  BY DEF Overlay, Tables, Writes

\* Writing nothing is always safe.
LEMMA NoWritesSafe == SafeWrites(NoWrites) /\ NoWrites.trusted = {}
  BY DEF SafeWrites, NoWrites, Writes, NoWrite

\* A session may commit safe writes.
LEMMA CommitSafe ==
  ASSUME DataInv, NEW s \in SessionIds, NEW w, SafeWrites(w), Commit(s, w)
  PROVE  DataInv' /\ db.trusted \subseteq db'.trusted
<1>1. w \in Writes /\ db \in Tables
  BY DEF DataInv, SafeWrites
<1>2. db' = Overlay(db, w) /\ tx' = [tx EXCEPT ![s] = NoWrites]
  BY DEF Commit
<1>3. db' \in Tables /\ db'.trusted = db.trusted \cup w.trusted
  BY <1>1, <1>2, OverlayType
<1>4. ConnectedOnlyIfTrusted'
  <2> SUFFICES ASSUME NEW m \in Matches, db'.matches[m] = "CONNECTED"
               PROVE  PairOf(m) \in db'.trusted
    BY DEF ConnectedOnlyIfTrusted
  <2>1. CASE w.matches[m] = NoWrite
    BY <1>1, <1>2, <1>3, <2>1, OverlayType DEF DataInv, ConnectedOnlyIfTrusted
  <2>2. CASE w.matches[m] # NoWrite
    BY <1>1, <1>2, <1>3, <2>2, OverlayType DEF SafeWrites
  <2> QED BY <2>1, <2>2
<1>5. tx' \in [SessionIds -> Writes]
  BY <1>2, NoWritesSafe DEF DataInv, SafeWrites
<1>6. \A o \in SessionIds : SafeWrites(tx[o])' /\ tx'[o].trusted = {}
  <2> SUFFICES ASSUME NEW o \in SessionIds
               PROVE  SafeWrites(tx[o])' /\ tx'[o].trusted = {}
    OBVIOUS
  <2>1. tx'[o] = NoWrites \/ tx'[o] = tx[o]
    BY <1>2 DEF DataInv
  <2>2. SafeWrites(tx[o]) /\ tx[o].trusted = {}
    BY DEF DataInv
  <2> QED BY <1>3, <2>1, <2>2, NoWritesSafe DEF SafeWrites
<1> QED BY <1>3, <1>4, <1>5, <1>6 DEF DataInv

\* A session may hold safe writes that trust nobody.
LEMMA StageSafe ==
  ASSUME DataInv, NEW s \in SessionIds, NEW w, SafeWrites(w), w.trusted = {},
         Stage(s, w)
  PROVE  DataInv' /\ db' = db
<1>1. db' = db /\ tx' = [tx EXCEPT ![s] = w]
  BY DEF Stage
<1>2. tx' \in [SessionIds -> Writes]
  BY <1>1 DEF DataInv, SafeWrites
<1>3. ASSUME NEW o \in SessionIds
      PROVE  SafeWrites(tx[o])' /\ tx'[o].trusted = {}
  <2>1. tx'[o] = w \/ tx'[o] = tx[o]
    BY <1>1 DEF DataInv
  <2> QED BY <1>1, <2>1 DEF DataInv, SafeWrites
<1> QED BY <1>1, <1>2, <1>3 DEF DataInv, ConnectedOnlyIfTrusted

\* A session may give its writes up.
LEMMA DropSafe ==
  ASSUME DataInv, NEW s \in SessionIds,
         tx' = [tx EXCEPT ![s] = NoWrites], UNCHANGED db
  PROVE  DataInv'
<1>1. tx' \in [SessionIds -> Writes]
  BY NoWritesSafe DEF DataInv, SafeWrites
<1>2. ASSUME NEW o \in SessionIds
      PROVE  SafeWrites(tx[o])' /\ tx'[o].trusted = {}
  <2>1. tx'[o] = NoWrites \/ tx'[o] = tx[o]
    BY DEF DataInv
  <2> QED BY <2>1, NoWritesSafe DEF DataInv, SafeWrites
<1> QED BY <1>1, <1>2 DEF DataInv, ConnectedOnlyIfTrusted

\* A step may leave the data alone.
LEMMA DataKept ==
  ASSUME DataInv, UNCHANGED <<db, tx>>
  PROVE  DataInv'
  BY DEF DataInv, ConnectedOnlyIfTrusted, SafeWrites

-----------------------------------------------------------------------------
(* Phases and jobs. *)

\* What a job was ready for stays so: trust is never withdrawn.
LEMMA ReadyStays ==
  ASSUME NEW p, NEW j, NEW T, NEW U, T \subseteq U, JobReady(p, j, T)
  PROVE  JobReady(p, j, U)
  BY DEF JobReady, NoticesReady

\* A session may go to a phase with a job that is ready for it.
LEMMA GotoReady ==
  ASSUME ControlInv, NEW s \in SessionIds, NEW p \in Phases, NEW j \in Jobs,
         JobReady(p, j, db'.trusted), Goto(s, p, j), db.trusted \subseteq db'.trusted
  PROVE  ControlInv'
<1>1. pc' = [pc EXCEPT ![s] = p] /\ job' = [job EXCEPT ![s] = j]
  BY DEF Goto
<1>2. pc' \in [SessionIds -> Phases] /\ job' \in [SessionIds -> Jobs]
  BY <1>1 DEF ControlInv
<1>3. ASSUME NEW o \in SessionIds
      PROVE  JobReady(pc'[o], job'[o], db'.trusted)
  <2>1. CASE o = s
    BY <1>1, <2>1 DEF ControlInv
  <2>2. CASE o # s
    <3>1. JobReady(pc[o], job[o], db'.trusted)
      BY ReadyStays DEF ControlInv
    <3> QED BY <1>1, <2>2, <3>1 DEF ControlInv
  <2> QED BY <2>1, <2>2
<1> QED BY <1>2, <1>3 DEF ControlInv

\* A free session has nothing to remember.
LEMMA NoJobType == NoJob \in Jobs /\ "idle" \in Phases
<1>1. <<>> \in Seq(Notices)
  OBVIOUS
<1> QED BY <1>1 DEF NoJob, Jobs, Phases, Operations, MatchStatus

\* A session may end its request.
LEMMA DoneReady ==
  ASSUME ControlInv, NEW s \in SessionIds, Done(s), db.trusted \subseteq db'.trusted
  PROVE  ControlInv'
<1>1. JobReady("idle", NoJob, db'.trusted)
  BY DEF JobReady, NoJob, NeedLoad, NeedTruck
<1> QED BY <1>1, NoJobType, GotoReady DEF Done

\* What a session remembers of a load is a load's status.
LEMMA RememberType ==
  ASSUME DataInv, ControlInv, NEW s \in SessionIds, NEW l \in Loads
  PROVE  /\ Remember(s, l) \in Jobs
         /\ Remember(s, l) = [job[s] EXCEPT !.memo = Remember(s, l).memo]
<1>1. View(s) \in Tables
  BY OverlayType DEF View, DataInv
<1>2. View(s).loads[l] \in LoadStatus \cup {Absent, NoWrite}
  BY <1>1 DEF Tables
<1>3. job[s] \in Jobs
  BY DEF ControlInv
<1> QED BY <1>2, <1>3 DEF Remember, Jobs

-----------------------------------------------------------------------------
(* Lists of notices. *)

\* What NoticesFor makes of a list of users.
LEMMA NoticesForType ==
  ASSUME NEW us \in Seq(Users), NEW l \in Loads, NEW kind \in NotificationType
  PROVE  /\ NoticesFor(us, l, kind) \in Seq(Notices)
         /\ Len(NoticesFor(us, l, kind)) = Len(us)
         /\ \A i \in 1..Len(us) : NoticesFor(us, l, kind)[i][3] = kind
<1>1. \A i \in 1..Len(us) : <<us[i], l, kind>> \in Notices
  BY DEF Notices
<1>2. Len(us) \in Nat
  OBVIOUS
<1> DEFINE n == [i \in 1..Len(us) |-> <<us[i], l, kind>>]
<1>3. n \in [1..Len(us) -> Notices]
  BY <1>1
<1>4. n \in Seq(Notices) /\ Len(n) = Len(us)
  BY <1>2, <1>3
<1> QED BY <1>4 DEF NoticesFor

\* The parties of a load and a truck are users, and so is the admin, if any.
LEMMA Parties ==
  /\ \A l \in Loads : ShipperOf[l] \in Users
  /\ \A t \in Trucks : CarrierOf[t] \in Users
  /\ AdminChoices \subseteq Seq(Users)
  /\ \A a \in Admins : <<a>> \in Seq(Users)
<1>1. Admins \subseteq Users
  BY SchemaAssumption
<1>2. \A a \in Admins : <<a>> \in Seq(Users)
  BY <1>1
<1>3. <<>> \in Seq(Users)
  OBVIOUS
<1>4. AdminChoices \subseteq Seq(Users)
  <2>1. CASE Admins = {}
    BY <1>3, <2>1 DEF AdminChoices
  <2>2. CASE Admins # {}
    BY <1>2, <2>2 DEF AdminChoices
  <2> QED BY <2>1, <2>2
<1> QED BY <1>2, <1>4, SchemaAssumption

\* The notices of a match.
LEMMA MatchNoticesType ==
  ASSUME NEW l \in Loads, NEW t \in Trucks, NEW admin \in Seq(Users),
         NEW kind \in NotificationType
  PROVE  /\ MatchNotices(l, t, admin, kind) \in Seq(Notices)
         /\ MatchNotices(l, t, admin, kind) # <<>>
         /\ \A i \in 1..Len(MatchNotices(l, t, admin, kind)) :
              MatchNotices(l, t, admin, kind)[i][3] = kind
<1> DEFINE us == <<ShipperOf[l], CarrierOf[t]>> \o admin
<1>1. us \in Seq(Users) /\ Len(us) = 2 + Len(admin)
  BY Parties
<1>2. /\ NoticesFor(us, l, kind) \in Seq(Notices)
      /\ Len(NoticesFor(us, l, kind)) = Len(us)
      /\ \A i \in 1..Len(us) : NoticesFor(us, l, kind)[i][3] = kind
  BY <1>1, NoticesForType
<1>3. NoticesFor(us, l, kind) # <<>>
  BY <1>1, <1>2
<1> QED BY <1>2, <1>3 DEF MatchNotices

\* The notices of an interest.
LEMMA InterestNoticesType ==
  ASSUME NEW l \in Loads, NEW admin \in Seq(Users)
  PROVE  /\ InterestNotices(l, admin) \in Seq(Notices)
         /\ InterestNotices(l, admin) # <<>>
         /\ \A i \in 1..Len(InterestNotices(l, admin)) :
              InterestNotices(l, admin)[i][3] = "INTEREST_RECEIVED"
<1> DEFINE us == <<ShipperOf[l]>> \o admin
<1>1. us \in Seq(Users) /\ Len(us) = 1 + Len(admin)
  BY Parties
<1>2. "INTEREST_RECEIVED" \in NotificationType
  BY DEF NotificationType
<1>3. /\ NoticesFor(us, l, "INTEREST_RECEIVED") \in Seq(Notices)
      /\ Len(NoticesFor(us, l, "INTEREST_RECEIVED")) = Len(us)
      /\ \A i \in 1..Len(us) :
           NoticesFor(us, l, "INTEREST_RECEIVED")[i][3] = "INTEREST_RECEIVED"
  BY <1>1, <1>2, NoticesForType
<1>4. NoticesFor(us, l, "INTEREST_RECEIVED") # <<>>
  BY <1>1, <1>3
<1> QED BY <1>3, <1>4 DEF InterestNotices

\* A broadcast to one user.
LEMMA OneNoticeType ==
  ASSUME NEW l \in Loads, NEW u \in Users
  PROVE  /\ NoticesFor(<<u>>, l, "BROADCAST") \in Seq(Notices)
         /\ NoticesFor(<<u>>, l, "BROADCAST") # <<>>
         /\ \A i \in 1..Len(NoticesFor(<<u>>, l, "BROADCAST")) :
              NoticesFor(<<u>>, l, "BROADCAST")[i][3] = "BROADCAST"
<1>1. <<u>> \in Seq(Users) /\ Len(<<u>>) = 1 /\ "BROADCAST" \in NotificationType
  BY DEF NotificationType
<1>2. /\ NoticesFor(<<u>>, l, "BROADCAST") \in Seq(Notices)
      /\ Len(NoticesFor(<<u>>, l, "BROADCAST")) = 1
      /\ \A i \in 1..1 : NoticesFor(<<u>>, l, "BROADCAST")[i][3] = "BROADCAST"
  BY <1>1, NoticesForType
<1> QED BY <1>2

\* A session may start on a list of notices; contact details need trust.
LEMMA StartReady ==
  ASSUME ControlInv, NEW s \in SessionIds, NEW j \in Jobs, j.load \in Loads,
         j.cand # {} => j.truck \in Trucks,
         NEW todo \in Seq(Notices), todo # <<>>,
         NEW after \in {"finish", "scan", "broadcast", "audience"},
         \A i \in 1..Len(todo) :
           todo[i][3] = "AUTO_CONNECTED" =>
             j.truck \in Trucks /\ PairOf(<<j.load, j.truck>>) \in db'.trusted,
         StartNotices(s, j, todo, after), db.trusted \subseteq db'.trusted
  PROVE  ControlInv'
<1> DEFINE k == [j EXCEPT !.todo = todo, !.after = after]
<1>1. k \in Jobs /\ "notify" \in Phases
  BY DEF Jobs, Phases
<1>2. /\ k.load = j.load /\ k.truck = j.truck /\ k.cand = j.cand
      /\ k.todo = todo /\ k.after = after
  BY DEF Jobs
<1>3. JobReady("notify", k, db'.trusted)
  BY <1>2 DEF JobReady, NoticesReady, NeedLoad, NeedTruck
<1>4. Goto(s, "notify", k)
  BY DEF StartNotices
<1> QED BY <1>1, <1>3, <1>4, GotoReady

\* A session may go on to the next notice of its list.
LEMMA NextReady ==
  ASSUME ControlInv, NEW s \in SessionIds, pc[s] \in {"notify", "send"},
         NextNotice(s), db.trusted \subseteq db'.trusted
  PROVE  ControlInv'
<1> DEFINE rest == Tail(job[s].todo)
           p == IF rest = <<>> THEN job[s].after ELSE "notify"
           j == [job[s] EXCEPT !.todo = rest]
<1>1. job[s] \in Jobs /\ JobReady(pc[s], job[s], db'.trusted)
  BY ReadyStays DEF ControlInv
<1>2. job[s].todo \in Seq(Notices) /\ NoticesReady(job[s], db'.trusted) /\ job[s].load \in Loads
  BY <1>1 DEF JobReady, NeedLoad, Jobs
<1>3. /\ rest \in Seq(Notices) /\ Len(rest) = Len(job[s].todo) - 1
      /\ \A i \in 1..Len(rest) : rest[i] = job[s].todo[i + 1]
  BY <1>2 DEF NoticesReady
<1>4. j \in Jobs /\ p \in Phases
  BY <1>1, <1>2, <1>3 DEF Jobs, NoticesReady, Phases
<1>5. /\ j.load = job[s].load /\ j.truck = job[s].truck /\ j.cand = job[s].cand
      /\ j.todo = rest /\ j.after = job[s].after
  BY <1>1 DEF Jobs
<1>6. rest # <<>> => NoticesReady(j, db'.trusted)
  <2> SUFFICES ASSUME rest # <<>> PROVE NoticesReady(j, db'.trusted)
    OBVIOUS
  <2>1. ASSUME NEW i \in 1..Len(rest), rest[i][3] = "AUTO_CONNECTED"
        PROVE  j.truck \in Trucks /\ PairOf(<<j.load, j.truck>>) \in db'.trusted
    <3>1. i + 1 \in 1..Len(job[s].todo) /\ job[s].todo[i + 1][3] = "AUTO_CONNECTED"
      BY <1>2, <1>3, <2>1
    <3> QED BY <1>2, <1>5, <3>1 DEF NoticesReady
  <2> QED BY <1>2, <1>5, <2>1 DEF NoticesReady
<1>7. JobReady(p, j, db'.trusted)
  BY <1>1, <1>2, <1>5, <1>6 DEF JobReady, NoticesReady, NeedTruck
<1>8. Goto(s, p, j)
  BY DEF NextNotice
<1> QED BY <1>4, <1>7, <1>8, GotoReady

-----------------------------------------------------------------------------
(* What every action does to the invariant as a whole. *)

\* Nothing left the backend in this step.
LEMMA OutsideKept ==
  ASSUME OutsideInv, UNCHANGED <<outside, crashes>>, db.trusted \subseteq db'.trusted
  PROVE  OutsideInv'
  BY DEF OutsideInv, RevealedOnlyIfTrusted, outside

\* A session only goes on.
LEMMA GotoStep ==
  ASSUME IInv, NEW s \in SessionIds, NEW p \in Phases, NEW j \in Jobs,
         JobReady(p, j, db.trusted), Goto(s, p, j),
         UNCHANGED <<db, tx, outside, crashes>>
  PROVE  IInv'
<1>1. DataInv'
  BY DataKept DEF IInv
<1>2. ControlInv'
  BY GotoReady DEF IInv
<1>3. OutsideInv'
  BY OutsideKept DEF IInv
<1> QED BY <1>1, <1>2, <1>3 DEF IInv

\* A session only ends its request.
LEMMA DoneStep ==
  ASSUME IInv, NEW s \in SessionIds, Done(s), UNCHANGED <<db, tx, outside, crashes>>
  PROVE  IInv'
<1>1. DataInv'
  BY DataKept DEF IInv
<1>2. ControlInv'
  BY DoneReady DEF IInv
<1>3. OutsideInv'
  BY OutsideKept DEF IInv
<1> QED BY <1>1, <1>2, <1>3 DEF IInv

\* A session commits and goes on.
LEMMA CommitStep ==
  ASSUME IInv, NEW s \in SessionIds, NEW w, SafeWrites(w), Commit(s, w),
         NEW p \in Phases, NEW j \in Jobs, JobReady(p, j, db.trusted), Goto(s, p, j),
         UNCHANGED <<outside, crashes>>
  PROVE  IInv'
<1>1. DataInv' /\ db.trusted \subseteq db'.trusted
  BY CommitSafe DEF IInv
<1>2. ControlInv'
  BY <1>1, GotoReady, ReadyStays DEF IInv
<1>3. OutsideInv'
  BY <1>1, OutsideKept DEF IInv
<1> QED BY <1>1, <1>2, <1>3 DEF IInv

\* A session commits and ends its request.
LEMMA CommitDoneStep ==
  ASSUME IInv, NEW s \in SessionIds, NEW w, SafeWrites(w), Commit(s, w), Done(s),
         UNCHANGED <<outside, crashes>>
  PROVE  IInv'
<1>1. DataInv' /\ db.trusted \subseteq db'.trusted
  BY CommitSafe DEF IInv
<1>2. ControlInv'
  BY <1>1, DoneReady DEF IInv
<1>3. OutsideInv'
  BY <1>1, OutsideKept DEF IInv
<1> QED BY <1>1, <1>2, <1>3 DEF IInv

\* A session flushes and goes on.
LEMMA StageStep ==
  ASSUME IInv, NEW s \in SessionIds, NEW w, SafeWrites(w), w.trusted = {}, Stage(s, w),
         NEW p \in Phases, NEW j \in Jobs, JobReady(p, j, db.trusted), Goto(s, p, j),
         UNCHANGED <<outside, crashes>>
  PROVE  IInv'
<1>1. DataInv' /\ db' = db
  BY StageSafe DEF IInv
<1>2. ControlInv'
  BY <1>1, GotoReady DEF IInv
<1>3. OutsideInv'
  BY <1>1, OutsideKept DEF IInv
<1> QED BY <1>1, <1>2, <1>3 DEF IInv

\* A session gives up its transaction.
LEMMA AbandonStep ==
  ASSUME IInv, NEW s \in SessionIds, Abandon(s), UNCHANGED outside, crashes' \in Nat
  PROVE  IInv'
<1>1. db' = db /\ DataInv'
  BY DropSafe DEF IInv, Abandon
<1>2. ControlInv'
  BY <1>1, DoneReady DEF IInv, Abandon
<1>3. OutsideInv'
  BY <1>1 DEF IInv, OutsideInv, RevealedOnlyIfTrusted, outside
<1> QED BY <1>1, <1>2, <1>3 DEF IInv

-----------------------------------------------------------------------------
(* Notifications *)

LEMMA ProbeNoticeKeeps ==
  ASSUME IInv, NEW s \in SessionIds, ProbeNotice(s)
  PROVE  IInv'
<1>1. CASE NextNotice(s)
  <2>1. ControlInv'
    BY <1>1, NextReady DEF IInv, ProbeNotice
  <2>2. DataInv' /\ OutsideInv'
    BY DataKept, OutsideKept DEF IInv, ProbeNotice
  <2> QED BY <2>1, <2>2 DEF IInv
<1>2. CASE Goto(s, "send", job[s])
  <2>1. JobReady("send", job[s], db.trusted) /\ job[s] \in Jobs /\ "send" \in Phases
    BY DEF IInv, ControlInv, ProbeNotice, JobReady, NeedLoad, NeedTruck, Phases
  <2> QED BY <1>2, <2>1, GotoStep DEF ProbeNotice
<1> QED BY <1>1, <1>2 DEF ProbeNotice

\* A message with contact details is to parties who are trusted already.
LEMMA SendNoticeKeeps ==
  ASSUME IInv, NEW s \in SessionIds, SendNotice(s)
  PROVE  IInv'
<1> DEFINE k == Head(job[s].todo)
           parties == PairOf(<<job[s].load, job[s].truck>>)
<1>1. NoticesReady(job[s], db.trusted) /\ job[s] \in Jobs
  BY DEF IInv, ControlInv, JobReady, SendNotice
<1>2. k = job[s].todo[1] /\ 1 \in 1..Len(job[s].todo) /\ k \in Notices
  BY <1>1 DEF NoticesReady, Jobs
<1>3. k[3] = "AUTO_CONNECTED" => parties \in db.trusted
  BY <1>1, <1>2 DEF NoticesReady
<1>4. PICK outcome \in SendOutcomes : Stage(s, [tx[s] EXCEPT !.notices[k] = outcome])
  BY DEF SendNotice
<1> DEFINE w == [tx[s] EXCEPT !.notices[k] = outcome]
<1>5. SafeWrites(w) /\ w.trusted = {}
  <2>1. outcome \in NotificationStatus
    BY SendAssumption DEF NotificationStatus
  <2>2. SafeWrites(tx[s]) /\ tx[s].trusted = {}
    BY DEF IInv, DataInv
  <2> QED BY <1>2, <2>1, <2>2 DEF SafeWrites, Writes
<1>6. DataInv' /\ db' = db
  BY <1>4, <1>5, StageSafe DEF IInv
<1>7. ControlInv'
  BY <1>6, NextReady DEF IInv, SendNotice
<1>8. OutsideInv'
  <2>1. pushes' \in [Notices -> Nat]
    BY <1>2, BoundAssumption DEF IInv, OutsideInv, SendNotice, Counted
  <2>2. revealed' \subseteq db'.trusted
    BY <1>3, <1>6 DEF IInv, OutsideInv, SendNotice, RevealedOnlyIfTrusted
  <2> QED BY <2>1, <2>2 DEF IInv, OutsideInv, SendNotice, RevealedOnlyIfTrusted
<1> QED BY <1>6, <1>7, <1>8 DEF IInv

LEMMA NotifyKeeps ==
  ASSUME IInv, NEW s \in SessionIds, NotifyStep(s)
  PROVE  IInv'
<1>1. CASE ProbeNotice(s)
  BY <1>1, ProbeNoticeKeeps
<1>2. CASE SendNotice(s)
  BY <1>2, SendNoticeKeeps
<1>3. CASE NoticeConflict(s)
  BY <1>3, AbandonStep DEF NoticeConflict, IInv, OutsideInv
<1>4. CASE Finish(s)
  BY <1>4, CommitDoneStep DEF Finish, IInv, DataInv
<1> QED BY <1>1, <1>2, <1>3, <1>4 DEF NotifyStep

-----------------------------------------------------------------------------
(* Matching *)

\* A request that works on a match knows its load and truck.
LEMMA JobMatchType ==
  ASSUME IInv, NEW s \in SessionIds, pc[s] \in NeedTruck
  PROVE  /\ job[s] \in Jobs /\ job[s].load \in Loads /\ job[s].truck \in Trucks
         /\ JobMatch(s) \in Matches
  BY DEF IInv, ControlInv, JobReady, NeedLoad, NeedTruck, JobMatch, Matches

LEMMA ProbeMatchKeeps ==
  ASSUME IInv, NEW s \in SessionIds, ProbeMatch(s)
  PROVE  IInv'
<1>1. job[s] \in Jobs /\ job[s].load \in Loads /\ job[s].truck \in Trucks
  BY JobMatchType DEF ProbeMatch, NeedTruck
<1>2. /\ JobReady("scan", job[s], db.trusted)
      /\ JobReady("record_interest", job[s], db.trusted)
      /\ JobReady("insert_match", job[s], db.trusted)
      /\ {"scan", "record_interest", "insert_match"} \subseteq Phases
  BY <1>1 DEF JobReady, NeedLoad, NeedTruck, Phases
<1>3. \/ \E p \in {"scan", "record_interest", "insert_match"} : Goto(s, p, job[s])
      \/ Done(s)
  BY DEF ProbeMatch, AfterExistingMatch
<1> QED BY <1>1, <1>2, <1>3, GotoStep, DoneStep DEF ProbeMatch

\* A new match is PENDING, so its key connects nobody.
LEMMA KeyWritesSafe ==
  ASSUME IInv, NEW s \in SessionIds, pc[s] = "insert_match"
  PROVE  SafeWrites(KeyWrites(s)) /\ KeyWrites(s).trusted = {}
<1>1. JobMatch(s) \in Matches /\ "PENDING" \in MatchStatus
  BY JobMatchType DEF NeedTruck, MatchStatus
<1>2. SafeWrites(tx[s]) /\ tx[s].trusted = {}
  BY DEF IInv, DataInv
<1>3. KeyWrites(s) \in Writes /\ KeyWrites(s).trusted = {}
  BY <1>1, <1>2 DEF KeyWrites, SafeWrites, Writes
<1>4. ASSUME NEW m \in Matches, KeyWrites(s).matches[m] = "CONNECTED"
      PROVE  tx[s].matches[m] = "CONNECTED"
  BY <1>1, <1>2, <1>4 DEF KeyWrites, SafeWrites, Writes
<1> QED BY <1>2, <1>3, <1>4 DEF SafeWrites

LEMMA InsertMatchKeeps ==
  ASSUME IInv, NEW s \in SessionIds, InsertMatch(s)
  PROVE  IInv'
<1>1. job[s] \in Jobs /\ job[s].load \in Loads /\ job[s].truck \in Trucks
  BY JobMatchType DEF InsertMatch, NeedTruck
<1>2. SafeWrites(KeyWrites(s)) /\ KeyWrites(s).trusted = {}
  BY KeyWritesSafe DEF InsertMatch
<1>3. DataInv' /\ db' = db
  BY <1>2, StageSafe DEF IInv, InsertMatch
<1>4. JobReady("mark_matched", job[s], db'.trusted) /\ "mark_matched" \in Phases
  BY <1>1 DEF JobReady, NeedLoad, NeedTruck, Phases
<1>5. ControlInv'
  BY <1>1, <1>3, <1>4, GotoReady DEF IInv, InsertMatch
<1>6. OutsideInv'
  BY <1>3, OutsideKept DEF IInv, InsertMatch
<1> QED BY <1>3, <1>5, <1>6 DEF IInv

\* Nor does the status of its load.
LEMMA MatchWritesSafe ==
  ASSUME IInv, NEW s \in SessionIds, pc[s] = "mark_matched"
  PROVE  SafeWrites(MatchWrites(s)) /\ MatchWrites(s).trusted = {}
<1>1. job[s] \in Jobs /\ job[s].load \in Loads /\ JobMatch(s) \in Matches
  BY JobMatchType DEF NeedTruck
<1>2. SafeWrites(tx[s]) /\ tx[s].trusted = {}
  BY DEF IInv, DataInv
<1> DEFINE v == IF MatchedStatus(job[s].memo[job[s].load]) = job[s].memo[job[s].load]
                  THEN tx[s].loads[job[s].load]
                  ELSE MatchedStatus(job[s].memo[job[s].load])
<1>3. v \in LoadStatus \cup {NoWrite}
  BY <1>1, <1>2 DEF MatchedStatus, LoadStatus, SafeWrites, Writes
<1>4. MatchWrites(s) = [tx[s] EXCEPT !.loads[job[s].load] = v]
  BY DEF MatchWrites, SafeWrites, Writes
<1> HIDE DEF v
<1>5. MatchWrites(s) \in Writes /\ MatchWrites(s).trusted = {}
  <2>1. tx[s] \in Writes
    BY <1>2 DEF SafeWrites
  <2> DEFINE ls == [tx[s].loads EXCEPT ![job[s].load] = v]
  <2>2. ls \in [Loads -> LoadStatus \cup {NoWrite}]
    BY <1>3, <2>1 DEF Writes
  <2>3. MatchWrites(s) = [tx[s] EXCEPT !.loads = ls]
    BY <1>4
  <2> HIDE DEF ls
  <2> QED BY <1>2, <2>1, <2>2, <2>3 DEF Writes
<1>6. ASSUME NEW m \in Matches, MatchWrites(s).matches[m] = "CONNECTED"
      PROVE  tx[s].matches[m] = "CONNECTED"
  BY <1>1, <1>2, <1>4, <1>6 DEF SafeWrites, Writes
<1> QED BY <1>2, <1>5, <1>6 DEF SafeWrites

LEMMA MarkMatchedKeeps ==
  ASSUME IInv, NEW s \in SessionIds, MarkMatched(s)
  PROVE  IInv'
<1> DEFINE l == job[s].load
           j == [job[s] EXCEPT !.memo[l] = MatchedStatus(@)]
           w == MatchWrites(s)
<1>1. job[s] \in Jobs /\ l \in Loads /\ job[s].truck \in Trucks
  BY JobMatchType DEF MarkMatched, NeedTruck
<1>2. SafeWrites(w) /\ w.trusted = {}
  BY MatchWritesSafe DEF MarkMatched
<1>3. Commit(s, w) \/ Stage(s, w)
  BY DEF MarkMatched, SaveMatch
<1>4. DataInv' /\ db.trusted \subseteq db'.trusted
  BY <1>2, <1>3, CommitSafe, StageSafe DEF IInv
<1>5. OutsideInv'
  BY <1>4, OutsideKept DEF IInv, MarkMatched
<1>6. j \in Jobs /\ j.load = l /\ j.truck = job[s].truck
  BY <1>1 DEF Jobs, MatchedStatus, LoadStatus
<1>7. CASE \E p \in {"process_match", "record_interest"} : Goto(s, p, j)
  <2>1. PICK p \in {"process_match", "record_interest"} : Goto(s, p, j)
    BY <1>7
  <2>2. JobReady(p, j, db'.trusted) /\ p \in Phases
    BY <1>1, <1>6 DEF JobReady, NeedLoad, NeedTruck, Phases
  <2>3. ControlInv'
    BY <1>4, <1>6, <2>1, <2>2, GotoReady DEF IInv
  <2> QED BY <1>4, <1>5, <2>3 DEF IInv
<1>8. CASE \E admin \in AdminChoices :
             StartNotices(s, j,
               MatchNotices(l, job[s].truck, admin, "PROACTIVE_MATCH"), "scan")
  <2>1. PICK admin \in AdminChoices :
               StartNotices(s, j,
                 MatchNotices(l, job[s].truck, admin, "PROACTIVE_MATCH"), "scan")
    BY <1>8
  <2> DEFINE todo == MatchNotices(l, job[s].truck, admin, "PROACTIVE_MATCH")
  <2>2. /\ todo \in Seq(Notices) /\ todo # <<>>
        /\ \A i \in 1..Len(todo) : todo[i][3] = "PROACTIVE_MATCH"
    BY <1>1, Parties, MatchNoticesType DEF NotificationType
  <2>3. ControlInv'
    BY <1>1, <1>4, <1>6, <2>1, <2>2, StartReady DEF IInv
  <2> QED BY <1>4, <1>5, <2>3 DEF IInv
<1> QED BY <1>7, <1>8 DEF MarkMatched

\* A pair that is found trusted is in the committed table.
LEMMA AutoConnectKeeps ==
  ASSUME IInv, NEW s \in SessionIds, AutoConnect(s)
  PROVE  IInv'
<1> DEFINE l == job[s].load
           m == JobMatch(s)
           j == [job[s] EXCEPT !.memo[l] = "CONNECTED"]
           v == Assign(job[s].memo[l], "CONNECTED")
           w == [tx[s] EXCEPT !.matches[m] = "CONNECTED", !.loads[l] = v]
<1>1. job[s] \in Jobs /\ l \in Loads /\ job[s].truck \in Trucks /\ m \in Matches
  BY JobMatchType DEF AutoConnect, NeedTruck
<1>2. SafeWrites(tx[s]) /\ tx[s].trusted = {} /\ db \in Tables
  BY DEF IInv, DataInv
<1>3. PairOf(m) \in db.trusted
  <2>1. tx[s] \in Writes
    BY <1>2 DEF SafeWrites
  <2> QED BY <1>2, <2>1, OverlayType DEF AutoConnect, IsTrusted, View
<1>4. v \in LoadStatus \cup {NoWrite}
  BY DEF Assign, LoadStatus
<1>5. w \in Writes /\ w.trusted = {}
  BY <1>1, <1>2, <1>4 DEF SafeWrites, Writes, MatchStatus
<1>6. SafeWrites(w)
  <2> SUFFICES ASSUME NEW n \in Matches, w.matches[n] = "CONNECTED"
               PROVE  PairOf(n) \in db.trusted
    BY <1>5 DEF SafeWrites
  <2>1. n = m \/ tx[s].matches[n] = "CONNECTED"
    BY <1>1, <1>2 DEF SafeWrites, Writes
  <2> QED BY <1>2, <1>3, <2>1 DEF SafeWrites
<1>7. Stage(s, w)
  BY DEF AutoConnect
<1>8. DataInv' /\ db' = db
  BY <1>5, <1>6, <1>7, StageSafe DEF IInv
<1>9. j \in Jobs /\ j.load = l /\ j.truck = job[s].truck /\ j.cand = job[s].cand
  BY <1>1 DEF Jobs, LoadStatus
<1>10. PICK admin \in AdminChoices :
              StartNotices(s, j,
                MatchNotices(l, job[s].truck, admin, "AUTO_CONNECTED"), "finish")
  BY DEF AutoConnect
<1> DEFINE todo == MatchNotices(l, job[s].truck, admin, "AUTO_CONNECTED")
<1>11. todo \in Seq(Notices) /\ todo # <<>>
  BY <1>1, Parties, MatchNoticesType DEF NotificationType
<1>12. ControlInv'
  BY <1>1, <1>3, <1>8, <1>9, <1>10, <1>11, StartReady DEF IInv, JobMatch
<1>13. OutsideInv'
  BY <1>8, OutsideKept DEF IInv, AutoConnect
<1> QED BY <1>8, <1>12, <1>13 DEF IInv

LEMMA MediateMatchKeeps ==
  ASSUME IInv, NEW s \in SessionIds, MediateMatch(s)
  PROVE  IInv'
<1>1. job[s] \in Jobs /\ job[s].load \in Loads /\ job[s].truck \in Trucks
  BY JobMatchType DEF MediateMatch, NeedTruck
<1>2. PICK admin \in AdminChoices :
             StartNotices(s, job[s],
               MatchNotices(job[s].load, job[s].truck, admin, "MATCH_FOUND"), "finish")
  BY DEF MediateMatch
<1> DEFINE todo == MatchNotices(job[s].load, job[s].truck, admin, "MATCH_FOUND")
<1>3. /\ todo \in Seq(Notices) /\ todo # <<>>
      /\ \A i \in 1..Len(todo) : todo[i][3] = "MATCH_FOUND"
  <2>1. admin \in Seq(Users) /\ "MATCH_FOUND" \in NotificationType
    BY Parties DEF NotificationType
  <2> QED BY <1>1, <2>1, MatchNoticesType
<1>4. ControlInv'
  BY <1>1, <1>2, <1>3, StartReady DEF IInv, MediateMatch
<1>5. DataInv' /\ OutsideInv'
  BY DataKept, OutsideKept DEF IInv, MediateMatch
<1> QED BY <1>4, <1>5 DEF IInv

LEMMA MatchKeeps ==
  ASSUME IInv, NEW s \in SessionIds, MatchStep(s)
  PROVE  IInv'
<1>1. CASE MatchConflict(s)
  BY <1>1, AbandonStep DEF MatchConflict, IInv, OutsideInv
<1> QED BY <1>1, ProbeMatchKeeps, InsertMatchKeeps, MarkMatchedKeeps, AutoConnectKeeps,
           MediateMatchKeeps
        DEF MatchStep

-----------------------------------------------------------------------------
(* Requests *)

\* Writing only a load's status, or only a truck or an interest, is safe.
LEMMA PlainWritesSafe ==
  /\ \A l \in Loads, v \in LoadStatus \cup {NoWrite} :
       SafeWrites([NoWrites EXCEPT !.loads[l] = v])
  /\ \A t \in Trucks : SafeWrites([NoWrites EXCEPT !.trucks = {t}])
  /\ \A m \in Matches :
       SafeWrites([NoWrites EXCEPT !.interests = {m}])
       /\ [NoWrites EXCEPT !.interests = {m}].trusted = {}
  BY DEF SafeWrites, NoWrites, Writes, NoWrite

LEMMA AssignType ==
  /\ \A old, new : new \in LoadStatus => Assign(old, new) \in LoadStatus \cup {NoWrite}
  /\ \A old, new : new \in MatchStatus => Assign(old, new) \in MatchStatus \cup {NoWrite}
  BY DEF Assign

LEMMA CreateLoadKeeps ==
  ASSUME IInv, NEW s \in SessionIds, NEW l \in Loads, CreateLoad(s, l)
  PROVE  IInv'
<1> DEFINE j == [NoJob EXCEPT !.op = "create_load", !.load = l]
           w == [NoWrites EXCEPT !.loads[l] = "NEW"]
<1>1. j \in Jobs /\ "search" \in Phases
  BY NoJobType DEF Jobs, Operations, Phases
<1>2. JobReady("search", j, db.trusted)
  BY DEF JobReady, NoJob, NeedLoad, NeedTruck
<1>3. SafeWrites(w)
  BY PlainWritesSafe DEF LoadStatus
<1> QED BY <1>1, <1>2, <1>3, CommitStep DEF CreateLoad

LEMMA CreateTruckKeeps ==
  ASSUME IInv, NEW s \in SessionIds, NEW t \in Trucks, CreateTruck(s, t)
  PROVE  IInv'
<1> DEFINE j == [NoJob EXCEPT !.op = "create_truck", !.truck = t]
           w == [NoWrites EXCEPT !.trucks = {t}]
<1>1. j \in Jobs /\ "search" \in Phases
  BY NoJobType DEF Jobs, Operations, Phases
<1>2. JobReady("search", j, db.trusted)
  BY DEF JobReady, NoJob, NeedLoad, NeedTruck
<1>3. SafeWrites(w)
  BY PlainWritesSafe
<1>4. Goto(s, "search", j) \/ Done(s)
  BY DEF CreateTruck
<1> QED BY <1>1, <1>2, <1>3, <1>4, CommitStep, CommitDoneStep DEF CreateTruck

LEMMA SearchTruckKeeps ==
  ASSUME IInv, NEW s \in SessionIds, SearchTruck(s)
  PROVE  IInv'
<1> DEFINE l == job[s].load
           j == Remember(s, l)
<1>1. job[s] \in Jobs /\ l \in Loads
  BY DEF IInv, ControlInv, JobReady, SearchTruck
<1>2. j \in Jobs /\ j = [job[s] EXCEPT !.memo = j.memo]
  BY <1>1, RememberType DEF IInv
<1>3. j.load = l /\ j.cand = job[s].cand /\ j.truck = job[s].truck
  BY <1>1, <1>2 DEF Jobs
<1>4. job[s].cand # {} => job[s].truck \in Trucks
  BY DEF IInv, ControlInv, JobReady
<1> HIDE DEF j
<1>5. CASE \E t \in BestTrucks(l, FreeTrucks) : Goto(s, "probe_match", [j EXCEPT !.truck = t])
  <2>1. PICK t \in BestTrucks(l, FreeTrucks) : Goto(s, "probe_match", [j EXCEPT !.truck = t])
    BY <1>5
  <2>2. t \in Trucks
    BY <2>1 DEF BestTrucks, FreeTrucks, IInv, DataInv, Tables
  <2>3. [j EXCEPT !.truck = t] \in Jobs /\ "probe_match" \in Phases
    BY <1>2, <2>2 DEF Jobs, Phases
  <2>4. JobReady("probe_match", [j EXCEPT !.truck = t], db.trusted)
    BY <1>1, <1>2, <1>3, <2>2 DEF JobReady, Jobs, NeedLoad, NeedTruck
  <2> QED BY <2>1, <2>3, <2>4, GotoStep DEF SearchTruck
<1>6. CASE Goto(s, "no_match", j)
  <2>1. JobReady("no_match", j, db.trusted) /\ "no_match" \in Phases
    BY <1>1, <1>3, <1>4 DEF JobReady, NeedLoad, NeedTruck, Phases
  <2> QED BY <1>2, <1>6, <2>1, GotoStep DEF SearchTruck
<1> QED BY <1>5, <1>6 DEF SearchTruck, j

LEMMA SearchLoadKeeps ==
  ASSUME IInv, NEW s \in SessionIds, SearchLoad(s)
  PROVE  IInv'
<1>1. job[s] \in Jobs /\ job[s].truck \in Trucks
  BY DEF IInv, ControlInv, JobReady, SearchLoad
<1>2. CASE \E l \in BestLoads(job[s].truck, WaitingLoads(s)) :
             Goto(s, "probe_match", [Remember(s, l) EXCEPT !.load = l])
  <2>1. PICK l \in BestLoads(job[s].truck, WaitingLoads(s)) :
               Goto(s, "probe_match", [Remember(s, l) EXCEPT !.load = l])
    BY <1>2
  <2>2. l \in Loads
    BY <2>1 DEF BestLoads, WaitingLoads
  <2> DEFINE r == Remember(s, l)
             j == [r EXCEPT !.load = l]
  <2>3. r \in Jobs /\ r = [job[s] EXCEPT !.memo = r.memo]
    BY <2>2, RememberType DEF IInv
  <2>4. r.truck = job[s].truck
    BY <1>1, <2>3 DEF Jobs
  <2> HIDE DEF r
  <2>5. j \in Jobs /\ j.load = l /\ j.truck = job[s].truck /\ "probe_match" \in Phases
    BY <2>2, <2>3, <2>4 DEF Jobs, Phases
  <2>6. JobReady("probe_match", j, db.trusted)
    BY <1>1, <2>2, <2>5 DEF JobReady, NeedLoad, NeedTruck
  <2> QED BY <2>1, <2>5, <2>6, GotoStep DEF SearchLoad, r
<1> QED BY <1>2, DoneStep DEF SearchLoad

LEMMA SetWaitingKeeps ==
  ASSUME IInv, NEW s \in SessionIds, SetWaiting(s)
  PROVE  IInv'
<1> DEFINE l == job[s].load
           v == Assign(job[s].memo[l], "WAITING_FOR_MATCH")
           j == [job[s] EXCEPT !.memo[l] = "WAITING_FOR_MATCH"]
           todo == NoticesFor(<<ShipperOf[l]>>, l, "BROADCAST")
<1>1. job[s] \in Jobs /\ l \in Loads /\ (job[s].cand # {} => job[s].truck \in Trucks)
  BY DEF IInv, ControlInv, JobReady, NeedLoad, SetWaiting
<1>2. SafeWrites([NoWrites EXCEPT !.loads[l] = v])
  BY <1>1, PlainWritesSafe, AssignType DEF LoadStatus
<1>3. DataInv' /\ db.trusted \subseteq db'.trusted
  BY <1>2, CommitSafe DEF IInv, SetWaiting
<1>4. OutsideInv'
  BY <1>3, OutsideKept DEF IInv, SetWaiting
<1>5. j \in Jobs /\ j.load = l /\ j.truck = job[s].truck /\ j.cand = job[s].cand
  BY <1>1 DEF Jobs, LoadStatus
<1>6. /\ todo \in Seq(Notices) /\ todo # <<>>
      /\ \A i \in 1..Len(todo) : todo[i][3] = "BROADCAST"
  BY <1>1, Parties, OneNoticeType
<1>7. StartNotices(s, j, todo, "audience")
  BY DEF SetWaiting
<1> HIDE DEF j, todo
<1>8. ControlInv'
  BY <1>1, <1>3, <1>5, <1>6, <1>7, StartReady DEF IInv
<1> QED BY <1>3, <1>4, <1>8 DEF IInv

LEMMA SelectAudienceKeeps ==
  ASSUME IInv, NEW s \in SessionIds, SelectAudience(s)
  PROVE  IInv'
<1> DEFINE j == [job[s] EXCEPT !.audience = EligibleCarriers(job[s].load)]
<1>1. /\ job[s] \in Jobs /\ job[s].load \in Loads
      /\ job[s].cand # {} => job[s].truck \in Trucks
  BY DEF IInv, ControlInv, JobReady, NeedLoad, SelectAudience
<1>2. FreeTrucks \subseteq Trucks
  BY DEF FreeTrucks, IInv, DataInv, Tables
<1>3. EligibleCarriers(job[s].load) \subseteq Users
  BY <1>2, Parties DEF EligibleCarriers
<1>4. /\ j \in Jobs /\ j.load = job[s].load
      /\ j.truck = job[s].truck /\ j.cand = job[s].cand
  BY <1>1, <1>3 DEF Jobs
<1>5. JobReady("broadcast", j, db.trusted) /\ "broadcast" \in Phases
  BY <1>1, <1>4 DEF JobReady, NeedLoad, NeedTruck, Phases
<1>6. SafeWrites(tx[s])
  BY DEF IInv, DataInv
<1> QED BY <1>4, <1>5, <1>6, CommitStep DEF SelectAudience

LEMMA BroadcastNextKeeps ==
  ASSUME IInv, NEW s \in SessionIds, BroadcastNext(s)
  PROVE  IInv'
<1>1. /\ job[s] \in Jobs /\ job[s].load \in Loads
      /\ job[s].cand # {} => job[s].truck \in Trucks
  BY DEF IInv, ControlInv, JobReady, NeedLoad, BroadcastNext
<1>2. CASE \E u \in job[s].audience :
             StartNotices(s, [job[s] EXCEPT !.audience = @ \ {u}],
               NoticesFor(<<u>>, job[s].load, "BROADCAST"), "broadcast")
  <2>1. PICK u \in job[s].audience :
               StartNotices(s, [job[s] EXCEPT !.audience = @ \ {u}],
                 NoticesFor(<<u>>, job[s].load, "BROADCAST"), "broadcast")
    BY <1>2
  <2> DEFINE j == [job[s] EXCEPT !.audience = @ \ {u}]
             todo == NoticesFor(<<u>>, job[s].load, "BROADCAST")
  <2>2. u \in Users
    BY <1>1 DEF Jobs
  <2>3. /\ todo \in Seq(Notices) /\ todo # <<>>
        /\ \A i \in 1..Len(todo) : todo[i][3] = "BROADCAST"
    BY <1>1, <2>2, OneNoticeType
  <2>4. /\ j \in Jobs /\ j.load = job[s].load
        /\ j.truck = job[s].truck /\ j.cand = job[s].cand
    BY <1>1 DEF Jobs
  <2>5. ControlInv'
    <3> HIDE DEF j, todo
    <3> QED BY <1>1, <2>1, <2>3, <2>4, StartReady DEF IInv, BroadcastNext, j, todo
  <2>6. DataInv' /\ OutsideInv'
    BY DataKept, OutsideKept DEF IInv, BroadcastNext
  <2> QED BY <2>5, <2>6 DEF IInv
<1>3. CASE Goto(s, "finish", job[s])
  <2>1. JobReady("finish", job[s], db.trusted) /\ "finish" \in Phases
    BY <1>1 DEF JobReady, NeedLoad, NeedTruck, Phases
  <2> QED BY <1>1, <1>3, <2>1, GotoStep DEF BroadcastNext
<1> QED BY <1>2, <1>3 DEF BroadcastNext

LEMMA PressInterestKeeps ==
  ASSUME IInv, NEW s \in SessionIds, NEW l \in Loads, NEW t \in Trucks,
         PressInterest(s, l, t)
  PROVE  IInv'
<1> DEFINE j == [NoJob EXCEPT !.op = "register_interest", !.load = l, !.truck = t,
                              !.memo[l] = db.loads[l]]
           w == [NoWrites EXCEPT !.interests = {<<l, t>>}]
<1>1. db.loads[l] \in LoadStatus \cup {Absent}
  BY DEF IInv, DataInv, Tables
<1>2. j \in Jobs /\ "probe_match" \in Phases
  BY <1>1, NoJobType DEF Jobs, Operations, Phases
<1>3. JobReady("probe_match", j, db.trusted)
  BY DEF JobReady, NoJob, NeedLoad, NeedTruck
<1>4. <<l, t>> \in Matches
  BY DEF Matches
<1>5. SafeWrites(w) /\ w.trusted = {}
  BY <1>4, PlainWritesSafe
<1>6. Stage(s, w) /\ Goto(s, "probe_match", j)
  BY DEF PressInterest, SaveInterest
<1> HIDE DEF j, w
<1> QED BY <1>2, <1>3, <1>5, <1>6, StageStep DEF PressInterest

LEMMA RecordInterestKeeps ==
  ASSUME IInv, NEW s \in SessionIds, RecordInterest(s)
  PROVE  IInv'
<1> DEFINE l == job[s].load
           k == <<CarrierOf[job[s].truck], l, "BROADCAST">>
           v == IF db.notices[k] = Absent THEN NoWrite
                ELSE Assign(db.notices[k], "INTERESTED")
           w == [tx[s] EXCEPT !.notices[k] = v]
<1>1. job[s] \in Jobs /\ l \in Loads /\ job[s].truck \in Trucks
  BY JobMatchType DEF RecordInterest, NeedTruck
<1>2. k \in Notices
  BY <1>1, Parties DEF Notices, NotificationType
<1>3. v \in NotificationStatus \cup {NoWrite}
  BY DEF Assign, NotificationStatus
<1>4. SafeWrites(w)
  <2>1. SafeWrites(tx[s])
    BY DEF IInv, DataInv
  <2> HIDE DEF v
  <2> QED BY <1>2, <1>3, <2>1 DEF SafeWrites, Writes
<1>5. DataInv' /\ db.trusted \subseteq db'.trusted
  BY <1>4, CommitSafe DEF IInv, RecordInterest
<1>6. OutsideInv'
  BY <1>5, OutsideKept DEF IInv, RecordInterest
<1>7. PICK admin \in AdminChoices :
             StartNotices(s, job[s], InterestNotices(l, admin), "finish")
  BY DEF RecordInterest
<1>8. /\ InterestNotices(l, admin) \in Seq(Notices) /\ InterestNotices(l, admin) # <<>>
      /\ \A i \in 1..Len(InterestNotices(l, admin)) :
           InterestNotices(l, admin)[i][3] = "INTEREST_RECEIVED"
  BY <1>1, Parties, InterestNoticesType
<1>9. ControlInv'
  BY <1>1, <1>5, <1>7, <1>8, StartReady DEF IInv
<1> QED BY <1>5, <1>6, <1>9 DEF IInv

LEMMA RequestKeeps ==
  ASSUME IInv, NEW s \in SessionIds, RequestStep(s)
  PROVE  IInv'
  BY SearchTruckKeeps, SetWaitingKeeps, SelectAudienceKeeps, BroadcastNextKeeps,
     SearchLoadKeeps, RecordInterestKeeps DEF RequestStep

-----------------------------------------------------------------------------
(* The admin's actions *)

\* A match is CONNECTED in memory only if its pair is trusted: what was read
\* may be stale, but trust is never withdrawn.
LEMMA AdminFetchKeeps ==
  ASSUME IInv, NEW s \in SessionIds, NEW act, NEW m \in Matches, AdminFetch(s, act, m)
  PROVE  IInv'
<1> DEFINE j == [NoJob EXCEPT !.op = act, !.load = m[1], !.truck = m[2],
                              !.match = db.matches[m]]
<1>1. m[1] \in Loads /\ m[2] \in Trucks /\ m = <<m[1], m[2]>>
  BY DEF Matches
<1>2. db.matches[m] \in MatchStatus \cup {Absent}
  BY <1>1 DEF IInv, DataInv, Tables
<1>3. act \in Operations
  BY DEF AdminFetch, MatchActions, Operations
<1>4. j \in Jobs /\ "fetch_load" \in Phases
  BY <1>1, <1>2, <1>3, NoJobType DEF Jobs, Phases
<1>5. j.match = "CONNECTED" => PairOf(m) \in db.trusted
  BY DEF NoJob, IInv, DataInv, ConnectedOnlyIfTrusted
<1>6. j.load = m[1] /\ j.truck = m[2] /\ j.cand = {}
  BY DEF NoJob
<1> HIDE DEF j
<1>7. JobReady("fetch_load", j, db.trusted)
  BY <1>1, <1>5, <1>6 DEF JobReady, NeedLoad, NeedTruck
<1> QED BY <1>4, <1>7, GotoStep DEF AdminFetch, j

LEMMA AdminFetchNextKeeps ==
  ASSUME IInv, NEW s \in SessionIds, AdminFetchNext(s)
  PROVE  IInv'
<1> DEFINE l == job[s].load
           j == Remember(s, l)
<1>1. job[s] \in Jobs /\ l \in Loads
  BY DEF AdminFetchNext, IInv, ControlInv, JobReady, NeedLoad
<1>2. j \in Jobs
  BY <1>1, RememberType DEF IInv
<1>3. /\ j.op = job[s].op /\ j.load = l /\ j.truck = job[s].truck
      /\ j.match = job[s].match /\ j.cand = job[s].cand
  BY <1>1 DEF Remember, Jobs
<1> HIDE DEF j
<1>4. JobReady("fetch_load", job[s], db.trusted)
  BY DEF AdminFetchNext, IInv, ControlInv
<1>5. JobReady("act", j, db.trusted) /\ "act" \in Phases
  BY <1>3, <1>4 DEF JobReady, NeedLoad, NeedTruck, Phases
<1> QED BY <1>2, <1>5, GotoStep DEF AdminFetchNext, j

LEMMA AdminFetchLoadKeeps ==
  ASSUME IInv, NEW s \in SessionIds, NEW l \in Loads, AdminFetchLoad(s, l)
  PROVE  IInv'
<1> DEFINE j == [NoJob EXCEPT !.op = "cancel_load", !.load = l, !.memo[l] = db.loads[l]]
<1>1. db.loads[l] \in LoadStatus \cup {Absent}
  BY DEF IInv, DataInv, Tables
<1>2. j \in Jobs /\ "act" \in Phases
  BY <1>1, NoJobType DEF Jobs, Operations, Phases
<1>3. JobReady("act", j, db.trusted)
  BY DEF JobReady, NoJob, NeedLoad, NeedTruck
<1> QED BY <1>2, <1>3, GotoStep DEF AdminFetchLoad

\* An action on a match knows its load and truck.
LEMMA ActingType ==
  ASSUME IInv, NEW s \in SessionIds, NEW act \in MatchActions, Acting(s, act)
  PROVE  /\ job[s] \in Jobs /\ job[s].load \in Loads /\ job[s].truck \in Trucks
         /\ JobMatch(s) \in Matches
         /\ job[s].match = "CONNECTED" => PairOf(JobMatch(s)) \in db.trusted
         /\ job[s].cand # {} => job[s].truck \in Trucks
<1>1. job[s].op # "cancel_load"
  BY DEF Acting, MatchActions
<1> QED BY <1>1 DEF Acting, IInv, ControlInv, JobReady, NeedLoad, JobMatch, Matches

\* The writes of a status change connect at most the job's match, and trust
\* nobody.
LEMMA StatusWritesType ==
  ASSUME NEW s \in SessionIds, job[s].load \in Loads, JobMatch(s) \in Matches,
         NEW ms \in MatchStatus, NEW ls \in LoadStatus
  PROVE  /\ StatusWrites(s, ms, ls) \in Writes
         /\ StatusWrites(s, ms, ls).trusted = {}
         /\ \A m \in Matches :
              StatusWrites(s, ms, ls).matches[m] = "CONNECTED" =>
                m = JobMatch(s) /\ ms = "CONNECTED"
<1> DEFINE mv == Assign(job[s].match, ms)
           lv == Assign(job[s].memo[job[s].load], ls)
           w  == StatusWrites(s, ms, ls)
           ws == [[m \in Matches |-> NoWrite] EXCEPT ![JobMatch(s)] = mv]
           wl == [[l \in Loads |-> NoWrite] EXCEPT ![job[s].load] = lv]
<1>1. mv \in MatchStatus \cup {NoWrite} /\ lv \in LoadStatus \cup {NoWrite}
  BY AssignType
<1>2. mv = "CONNECTED" => ms = "CONNECTED"
  BY DEF Assign, NoWrite
<1> HIDE DEF mv, lv
<1>3. w = [NoWrites EXCEPT !.matches = ws, !.loads = wl]
  BY DEF StatusWrites, NoWrites, mv, lv
<1>4. ws \in [Matches -> MatchStatus \cup {NoWrite}] /\ wl \in [Loads -> LoadStatus \cup {NoWrite}]
  BY <1>1
<1>5. \A m \in Matches : ws[m] = "CONNECTED" => m = JobMatch(s) /\ mv = "CONNECTED"
  BY DEF NoWrite
<1> HIDE DEF w, ws, wl
<1>6. w \in Writes /\ w.trusted = {} /\ w.matches = ws
  BY <1>3, <1>4 DEF NoWrites, Writes
<1> QED BY <1>2, <1>5, <1>6 DEF w

LEMMA AdminContactKeeps ==
  ASSUME IInv, NEW s \in SessionIds, AdminContact(s)
  PROVE  IInv'
<1>1. job[s].load \in Loads /\ JobMatch(s) \in Matches
  BY ActingType DEF AdminContact, MatchActions
<1>2. SafeWrites(StatusWrites(s, "ADMIN_CONTACTING", "ADMIN_CONTACTING"))
  BY <1>1, StatusWritesType DEF SafeWrites, MatchStatus, LoadStatus
<1> QED BY <1>2, CommitDoneStep DEF AdminContact

\* The match becomes CONNECTED together with the pair's trust.
LEMMA AdminConnectKeeps ==
  ASSUME IInv, NEW s \in SessionIds, AdminConnect(s)
  PROVE  IInv'
<1>1. job[s].load \in Loads /\ job[s].truck \in Trucks /\ JobMatch(s) \in Matches
  BY ActingType DEF AdminConnect, MatchActions
<1>2. PairOf(JobMatch(s)) \in Pairs
  BY <1>1, Parties DEF PairOf, JobMatch, Pairs
<1> DEFINE v == StatusWrites(s, "CONNECTED", "CONNECTED")
           w == ConnectWrites(s)
<1>3. /\ v \in Writes
      /\ \A m \in Matches : v.matches[m] = "CONNECTED" => m = JobMatch(s)
  BY <1>1, StatusWritesType DEF MatchStatus, LoadStatus
<1>4. w = [v EXCEPT !.trusted = {PairOf(JobMatch(s))}]
  BY DEF ConnectWrites
<1> HIDE DEF v, w
<1>5. w \in Writes /\ w.matches = v.matches /\ w.trusted = {PairOf(JobMatch(s))}
  BY <1>2, <1>3, <1>4 DEF Writes
<1>6. SafeWrites(ConnectWrites(s))
  BY <1>3, <1>5 DEF SafeWrites, w
<1> QED BY <1>6, CommitDoneStep DEF AdminConnect

LEMMA AdminRejectKeeps ==
  ASSUME IInv, NEW s \in SessionIds, AdminReject(s)
  PROVE  IInv'
<1> DEFINE st == job[s].memo[job[s].load]
           ls == IF st \in {"CONNECTED", "CONFIRMED", "COMPLETED"}
                   THEN st ELSE "WAITING_FOR_MATCH"
<1>1. job[s].load \in Loads /\ JobMatch(s) \in Matches
  BY ActingType DEF AdminReject, MatchActions
<1>2. ls \in LoadStatus /\ "REJECTED" \in MatchStatus \ {"CONNECTED"}
  BY DEF LoadStatus, MatchStatus
<1>3. Commit(s, StatusWrites(s, "REJECTED", ls))
  BY DEF AdminReject
<1> HIDE DEF ls
<1>4. SafeWrites(StatusWrites(s, "REJECTED", ls))
  BY <1>1, <1>2, StatusWritesType DEF SafeWrites
<1> QED BY <1>3, <1>4, CommitDoneStep DEF AdminReject

LEMMA AdminCancelLoadKeeps ==
  ASSUME IInv, NEW s \in SessionIds, AdminCancelLoad(s)
  PROVE  IInv'
<1>1. job[s].load \in Loads
  BY DEF IInv, ControlInv, JobReady, NeedLoad, AdminCancelLoad, Acting
<1>2. Assign(job[s].memo[job[s].load], "CANCELLED") \in LoadStatus \cup {NoWrite}
  BY AssignType DEF LoadStatus
<1>3. SafeWrites([NoWrites EXCEPT !.loads[job[s].load] =
                    Assign(job[s].memo[job[s].load], "CANCELLED")])
  BY <1>1, <1>2, PlainWritesSafe
<1> QED BY <1>3, CommitDoneStep DEF AdminCancelLoad

LEMMA AdminResendKeeps ==
  ASSUME IInv, NEW s \in SessionIds, AdminResend(s)
  PROVE  IInv'
<1>1. /\ job[s] \in Jobs /\ job[s].load \in Loads /\ job[s].truck \in Trucks
  BY ActingType DEF AdminResend, MatchActions
<1>2. PICK a \in Admins :
             StartNotices(s, job[s],
               MatchNotices(job[s].load, job[s].truck, <<a>>, "MATCH_FOUND"), "finish")
  BY DEF AdminResend
<1> DEFINE todo == MatchNotices(job[s].load, job[s].truck, <<a>>, "MATCH_FOUND")
<1>3. /\ todo \in Seq(Notices) /\ todo # <<>>
      /\ \A i \in 1..Len(todo) : todo[i][3] = "MATCH_FOUND"
  <2>1. <<a>> \in Seq(Users) /\ "MATCH_FOUND" \in NotificationType
    BY Parties DEF NotificationType
  <2> QED BY <1>1, <2>1, MatchNoticesType
<1>4. ControlInv'
  BY <1>1, <1>2, <1>3, StartReady DEF IInv, AdminResend
<1>5. DataInv' /\ OutsideInv'
  BY DataKept, OutsideKept DEF IInv, AdminResend
<1> QED BY <1>4, <1>5 DEF IInv

LEMMA AdminKeeps ==
  ASSUME IInv, NEW s \in SessionIds, AdminStep(s)
  PROVE  IInv'
<1>1. CASE ConnectConflict(s)
  BY <1>1, AbandonStep DEF ConnectConflict, IInv, OutsideInv
<1> QED BY <1>1, AdminFetchNextKeeps, AdminContactKeeps, AdminConnectKeeps,
           AdminRejectKeeps, AdminCancelLoadKeeps, AdminResendKeeps DEF AdminStep

-----------------------------------------------------------------------------
(* The passes of the worker *)

LEMMA StartProactiveKeeps ==
  ASSUME IInv, NEW s \in SessionIds, NEW near, StartProactive(s, near)
  PROVE  IInv'
<1> DEFINE j == [NoJob EXCEPT !.op = "proactive", !.scan = near]
<1>1. near \subseteq Trucks
  BY DEF StartProactive, IInv, DataInv, Tables
<1>2. j \in Jobs /\ "scan" \in Phases
  BY <1>1, NoJobType DEF Jobs, Operations, Phases
<1>3. JobReady("scan", j, db.trusted)
  BY DEF JobReady, NoJob, NeedLoad, NeedTruck
<1> QED BY <1>2, <1>3, GotoStep DEF StartProactive

LEMMA StartRemindersKeeps ==
  ASSUME IInv, NEW s \in SessionIds, NEW old, StartReminders(s, old)
  PROVE  IInv'
<1> DEFINE j == [NoJob EXCEPT !.op = "reminders", !.due = old]
<1>1. old \subseteq Notices
  BY DEF StartReminders, Remindable
<1>2. j \in Jobs /\ "remind" \in Phases
  BY <1>1, NoJobType DEF Jobs, Operations, Phases
<1>3. JobReady("remind", j, db.trusted)
  BY DEF JobReady, NoJob, NeedLoad, NeedTruck
<1> QED BY <1>2, <1>3, GotoStep DEF StartReminders

LEMMA ScanTruckKeeps ==
  ASSUME IInv, NEW s \in SessionIds, ScanTruck(s)
  PROVE  IInv'
<1>1. job[s] \in Jobs /\ job[s].cand = {}
  BY DEF IInv, ControlInv, ScanTruck
<1>2. "scan" \in Phases /\ "finish" \in Phases
  BY DEF Phases
<1> DEFINE cand(t) == {l \in WaitingLoads(s) : <<l, t>> \in Backhaul}
           memo == [l \in Loads |->
                      IF l \in WaitingLoads(s) /\ job[s].memo[l] = NoWrite
                        THEN "WAITING_FOR_MATCH" ELSE job[s].memo[l]]
           j(t) == [job[s] EXCEPT !.truck = t, !.scan = @ \ {t},
                                  !.cand = cand(t), !.memo = memo]
<1>3. CASE \E t \in job[s].scan : Goto(s, "scan", j(t))
  <2>1. PICK t \in job[s].scan : Goto(s, "scan", j(t))
    BY <1>3
  <2>2. t \in Trucks
    BY <1>1 DEF Jobs
  <2>3. cand(t) \in SUBSET Loads
    BY DEF WaitingLoads
  <2>4. memo \in [Loads -> LoadStatus \cup {Absent, NoWrite}]
    BY <1>1 DEF Jobs, LoadStatus
  <2> HIDE DEF cand, memo
  <2>5. j(t) \in Jobs /\ j(t).truck = t
    BY <1>1, <2>2, <2>3, <2>4 DEF Jobs
  <2>6. JobReady("scan", j(t), db.trusted)
    BY <2>2, <2>5 DEF JobReady, NeedLoad, NeedTruck
  <2> QED BY <1>2, <2>1, <2>5, <2>6, GotoStep DEF ScanTruck
<1>4. CASE Goto(s, "finish", job[s])
  <2>1. JobReady("finish", job[s], db.trusted)
    BY <1>1 DEF JobReady, NeedLoad, NeedTruck
  <2> QED BY <1>1, <1>2, <1>4, <2>1, GotoStep DEF ScanTruck
<1>5. (\E t \in job[s].scan : Goto(s, "scan", j(t))) \/ Goto(s, "finish", job[s])
  BY DEF ScanTruck
<1> QED BY <1>3, <1>4, <1>5

LEMMA ScanLoadKeeps ==
  ASSUME IInv, NEW s \in SessionIds, ScanLoad(s)
  PROVE  IInv'
<1>1. PICK l \in job[s].cand :
             Goto(s, "probe_match", [job[s] EXCEPT !.load = l, !.cand = @ \ {l}])
  BY DEF ScanLoad
<1> DEFINE j == [job[s] EXCEPT !.load = l, !.cand = @ \ {l}]
<1>2. job[s] \in Jobs /\ job[s].truck \in Trucks
  BY <1>1 DEF IInv, ControlInv, JobReady
<1>3. /\ j \in Jobs /\ j.load \in Loads /\ j.truck \in Trucks
      /\ "probe_match" \in Phases
  BY <1>1, <1>2 DEF Jobs, Phases
<1>4. JobReady("probe_match", j, db.trusted)
  BY <1>3 DEF JobReady, NeedLoad, NeedTruck
<1> QED BY <1>1, <1>3, <1>4, GotoStep DEF ScanLoad

LEMMA RemindNextKeeps ==
  ASSUME IInv, NEW s \in SessionIds, RemindNext(s)
  PROVE  IInv'
<1> DEFINE r(k) == Remember(s, k[2]).memo[k[2]]
           m(k) == [NoJob.memo EXCEPT ![k[2]] = r(k)]
           j(k) == [job[s] EXCEPT !.due = @ \ {k}, !.memo = m(k)]
           p(k) == IF j(k).due = {} THEN "finish" ELSE "remind"
           w(k) == [tx[s] EXCEPT !.reminded = @ \cup {k}]
<1>1. PICK k \in job[s].due :
        /\ Goto(s, p(k), j(k))
        /\ \/ Stage(s, w(k)) /\ reminders' = [reminders EXCEPT ![k] = Counted(@)]
           \/ UNCHANGED <<db, tx, reminders>>
  BY DEF RemindNext
<1>2. /\ job[s] \in Jobs /\ k \in Notices /\ k[2] \in Loads
      /\ job[s].cand # {} => job[s].truck \in Trucks
  BY DEF IInv, ControlInv, JobReady, Jobs, Notices
<1>3. r(k) \in LoadStatus \cup {Absent, NoWrite}
  <2>1. Remember(s, k[2]) \in Jobs
    BY <1>2, RememberType DEF IInv
  <2> QED BY <1>2, <2>1 DEF Jobs
<1> HIDE DEF r
<1>4. m(k) \in [Loads -> LoadStatus \cup {Absent, NoWrite}]
  BY <1>3 DEF NoJob
<1> HIDE DEF m
<1>5. j(k) \in Jobs /\ j(k).cand = job[s].cand /\ j(k).truck = job[s].truck
  BY <1>2, <1>4 DEF Jobs
<1> HIDE DEF j
<1>6. JobReady(p(k), j(k), db.trusted) /\ p(k) \in Phases
  BY <1>2, <1>5 DEF JobReady, NeedLoad, NeedTruck, Phases
<1>7. DataInv' /\ db' = db
  <2>1. CASE UNCHANGED <<db, tx, reminders>>
    BY <2>1, DataKept DEF IInv
  <2>2. CASE Stage(s, w(k))
    <3>1. SafeWrites(w(k)) /\ w(k).trusted = {}
      BY <1>2 DEF IInv, DataInv, SafeWrites, Writes
    <3> QED BY <2>2, <3>1, StageSafe DEF IInv
  <2> QED BY <1>1, <2>1, <2>2
<1>8. ControlInv'
  BY <1>1, <1>5, <1>6, <1>7, GotoReady DEF IInv
<1>9. OutsideInv'
  <2>1. reminders' \in [Notices -> Nat]
    BY <1>1, <1>2, BoundAssumption DEF IInv, OutsideInv, Counted
  <2> QED BY <1>7, <2>1 DEF IInv, OutsideInv, RevealedOnlyIfTrusted, RemindNext
<1> QED BY <1>7, <1>8, <1>9 DEF IInv

-----------------------------------------------------------------------------
(* The theorems *)

\* IInv holds at the start: no session is busy, nothing is stored.
LEMMA InitInv == Init => IInv
<1> SUFFICES ASSUME Init PROVE IInv
  OBVIOUS
<1>1. DataInv
  <2>1. db \in Tables
    BY DEF Init, SessionsInit, EmptyTables, Tables
  <2>2. ConnectedOnlyIfTrusted
    BY DEF Init, SessionsInit, EmptyTables, ConnectedOnlyIfTrusted, Absent
  <2> QED BY <2>1, <2>2, NoWritesSafe DEF Init, SessionsInit, DataInv, SafeWrites
<1>2. ControlInv
  <2>1. JobReady("idle", NoJob, db.trusted)
    BY DEF JobReady, NoJob, NeedLoad, NeedTruck
  <2> QED BY <2>1, NoJobType DEF Init, SessionsInit, ControlInv
<1>3. OutsideInv
  BY DEF Init, SessionsInit, OutsideInv, RevealedOnlyIfTrusted
<1> QED BY <1>1, <1>2, <1>3 DEF IInv

\* Every step of every session keeps IInv.
LEMMA NextInv == IInv /\ [Next]_vars => IInv'
<1> SUFFICES ASSUME IInv, [Next]_vars PROVE IInv'
  OBVIOUS
<1>1. CASE UNCHANGED vars
  <2>1. DataInv' /\ OutsideInv'
    BY <1>1, DataKept, OutsideKept DEF IInv, vars, outside
  <2> QED BY <1>1, <2>1 DEF IInv, ControlInv, vars
<1>2. ASSUME NEW s \in SessionIds, Start(s) PROVE IInv'
  <2>1. CASE \E l \in Loads : CreateLoad(s, l)
    BY <2>1, CreateLoadKeeps
  <2>2. CASE \E t \in Trucks : CreateTruck(s, t)
    BY <2>2, CreateTruckKeeps
  <2>3. CASE \E l \in Loads, t \in Trucks : PressInterest(s, l, t)
    BY <2>3, PressInterestKeeps
  <2>4. CASE \E act \in Workload, m \in Matches : AdminFetch(s, act, m)
    BY <2>4, AdminFetchKeeps
  <2>5. CASE \E l \in Loads : AdminFetchLoad(s, l)
    BY <2>5, AdminFetchLoadKeeps
  <2>6. CASE \E near \in SUBSET Trucks : StartProactive(s, near)
    BY <2>6, StartProactiveKeeps
  <2>7. CASE \E old \in SUBSET Remindable : StartReminders(s, old)
    BY <2>7, StartRemindersKeeps
  <2> QED BY <1>2, <2>1, <2>2, <2>3, <2>4, <2>5, <2>6, <2>7 DEF Start
<1>3. ASSUME NEW s \in SessionIds, Step(s) PROVE IInv'
  BY <1>3, NotifyKeeps, MatchKeeps, RequestKeeps, AdminKeeps,
     ScanTruckKeeps, ScanLoadKeeps, RemindNextKeeps DEF Step, WorkerStep
<1>4. ASSUME NEW s \in SessionIds, Crash(s) PROVE IInv'
  BY <1>4, AbandonStep DEF Crash, IInv, OutsideInv
<1> QED BY <1>1, <1>2, <1>3, <1>4 DEF Next

LEMMA InvAlways == Spec => []IInv
  BY InitInv, NextInv, PTL DEF Spec

\* Every variable always holds a value of its type.
THEOREM TypeCorrect == Spec => []TypeOK
<1>1. IInv => TypeOK
  BY DEF IInv, DataInv, ControlInv, OutsideInv, RevealedOnlyIfTrusted, TypeOK, Tables
<1> QED BY <1>1, InvAlways, PTL

\* Every CONNECTED match is between two people an admin has connected.
THEOREM ConnectedAreTrusted == Spec => []ConnectedOnlyIfTrusted
<1>1. IInv => ConnectedOnlyIfTrusted
  BY DEF IInv, DataInv
<1> QED BY <1>1, InvAlways, PTL

\* Phone numbers reach only people whose trust is committed, whatever becomes
\* of the transaction that sent them.
THEOREM RevealedAreTrusted == Spec => []RevealedOnlyIfTrusted
<1>1. IInv => RevealedOnlyIfTrusted
  BY DEF IInv, OutsideInv
<1> QED BY <1>1, InvAlways, PTL

-----------------------------------------------------------------------------
(* Trust *)

\* A commit trusts the pairs its writes name.
LEMMA CommitTrusts ==
  ASSUME IInv, NEW s \in SessionIds, NEW w \in Writes, Commit(s, w)
  PROVE  db'.trusted = db.trusted \cup w.trusted
  BY OverlayType DEF Commit, IInv, DataInv

\* Only the admin's connect makes anybody trusted.
LEMMA OnlyConnectTrusts ==
  ASSUME IInv, NEW s \in SessionIds, Start(s) \/ Step(s) \/ Crash(s), ~ AdminConnect(s)
  PROVE  db'.trusted = db.trusted
<1>1. tx[s] \in Writes /\ tx[s].trusted = {}
  BY DEF IInv, DataInv
<1>2. CASE Crash(s)
  BY <1>2 DEF Crash, Abandon
<1>3. CASE Start(s)
  <2>1. ASSUME NEW l \in Loads, CreateLoad(s, l) PROVE db'.trusted = db.trusted
    <3>1. [NoWrites EXCEPT !.loads[l] = "NEW"] \in Writes
      BY PlainWritesSafe DEF SafeWrites, LoadStatus
    <3> QED BY <2>1, <3>1, CommitTrusts DEF CreateLoad, NoWrites
  <2>2. ASSUME NEW t \in Trucks, CreateTruck(s, t) PROVE db'.trusted = db.trusted
    <3>1. [NoWrites EXCEPT !.trucks = {t}] \in Writes
      BY PlainWritesSafe DEF SafeWrites
    <3> QED BY <2>2, <3>1, CommitTrusts DEF CreateTruck, NoWrites
  <2>3. ASSUME NEW l \in Loads, NEW t \in Trucks, PressInterest(s, l, t)
        PROVE  db'.trusted = db.trusted
    BY <2>3 DEF PressInterest, SaveInterest, Stage
  <2>4. ASSUME NEW act, NEW m \in Matches, AdminFetch(s, act, m)
        PROVE  db'.trusted = db.trusted
    BY <2>4 DEF AdminFetch
  <2>5. ASSUME NEW l \in Loads, AdminFetchLoad(s, l) PROVE db'.trusted = db.trusted
    BY <2>5 DEF AdminFetchLoad
  <2>6. ASSUME NEW near, StartProactive(s, near) PROVE db'.trusted = db.trusted
    BY <2>6 DEF StartProactive
  <2>7. ASSUME NEW old, StartReminders(s, old) PROVE db'.trusted = db.trusted
    BY <2>7 DEF StartReminders
  <2> QED BY <1>3, <2>1, <2>2, <2>3, <2>4, <2>5, <2>6, <2>7 DEF Start
<1>4. CASE NotifyStep(s)
  <2>1. CASE ProbeNotice(s)
    BY <2>1 DEF ProbeNotice
  <2>2. CASE SendNotice(s)
    BY <2>2 DEF SendNotice, Stage
  <2>3. CASE NoticeConflict(s)
    BY <2>3 DEF NoticeConflict, Abandon
  <2>4. CASE Finish(s)
    BY <1>1, <2>4, CommitTrusts DEF Finish
  <2> QED BY <1>4, <2>1, <2>2, <2>3, <2>4 DEF NotifyStep
<1>5. CASE MatchStep(s)
  <2>1. CASE MarkMatched(s)
    <3>1. MatchWrites(s) \in Writes /\ MatchWrites(s).trusted = {}
      BY <2>1, MatchWritesSafe DEF MarkMatched, SafeWrites
    <3> QED BY <2>1, <3>1, CommitTrusts DEF MarkMatched, SaveMatch, Stage
  <2>2. CASE ~ MarkMatched(s)
    BY <1>5, <2>2 DEF MatchStep, ProbeMatch, InsertMatch, MatchConflict, Abandon, AutoConnect,
                      Stage, MediateMatch
  <2> QED BY <2>1, <2>2
<1>6. CASE RequestStep(s)
  <2>1. CASE SetWaiting(s)
    <3> DEFINE v == Assign(job[s].memo[job[s].load], "WAITING_FOR_MATCH")
    <3>1. job[s].load \in Loads
      BY <2>1 DEF SetWaiting, IInv, ControlInv, JobReady, NeedLoad
    <3>2. v \in LoadStatus \cup {NoWrite}
      BY AssignType DEF LoadStatus
    <3> HIDE DEF v
    <3>3. [NoWrites EXCEPT !.loads[job[s].load] = v] \in Writes
      BY <3>1, <3>2, PlainWritesSafe DEF SafeWrites
    <3> QED BY <2>1, <3>3, CommitTrusts DEF SetWaiting, NoWrites, v
  <2>2. CASE SelectAudience(s)
    BY <1>1, <2>2, CommitTrusts DEF SelectAudience
  <2>3. CASE RecordInterest(s)
    <3> DEFINE k == <<CarrierOf[job[s].truck], job[s].load, "BROADCAST">>
               v == IF db.notices[k] = Absent THEN NoWrite
                    ELSE Assign(db.notices[k], "INTERESTED")
               w == [tx[s] EXCEPT !.notices[k] = v]
    <3>1. v \in NotificationStatus \cup {NoWrite}
      BY DEF Assign, NotificationStatus
    <3>2. Commit(s, w)
      BY <2>3 DEF RecordInterest
    <3> HIDE DEF v, k
    <3>3. w \in Writes /\ w.trusted = {}
      BY <1>1, <3>1 DEF Writes
    <3> QED BY <3>2, <3>3, CommitTrusts
  <2>4. CASE SearchTruck(s) \/ BroadcastNext(s) \/ SearchLoad(s)
    BY <2>4 DEF SearchTruck, BroadcastNext, SearchLoad
  <2> QED BY <1>6, <2>1, <2>2, <2>3, <2>4 DEF RequestStep
<1>7. CASE AdminStep(s)
  <2>1. CASE AdminContact(s)
    <3>1. job[s].load \in Loads /\ JobMatch(s) \in Matches
      BY <2>1, ActingType DEF AdminContact, MatchActions
    <3>2. /\ StatusWrites(s, "ADMIN_CONTACTING", "ADMIN_CONTACTING") \in Writes
          /\ StatusWrites(s, "ADMIN_CONTACTING", "ADMIN_CONTACTING").trusted = {}
      BY <3>1, StatusWritesType DEF MatchStatus, LoadStatus
    <3> QED BY <2>1, <3>2, CommitTrusts DEF AdminContact
  <2>2. CASE AdminReject(s)
    <3> DEFINE st == job[s].memo[job[s].load]
               ls == IF st \in {"CONNECTED", "CONFIRMED", "COMPLETED"}
                       THEN st ELSE "WAITING_FOR_MATCH"
    <3>1. job[s].load \in Loads /\ JobMatch(s) \in Matches
      BY <2>2, ActingType DEF AdminReject, MatchActions
    <3>2. ls \in LoadStatus /\ "REJECTED" \in MatchStatus
      BY DEF LoadStatus, MatchStatus
    <3>3. Commit(s, StatusWrites(s, "REJECTED", ls))
      BY <2>2 DEF AdminReject
    <3> HIDE DEF ls
    <3>4. /\ StatusWrites(s, "REJECTED", ls) \in Writes
          /\ StatusWrites(s, "REJECTED", ls).trusted = {}
      BY <3>1, <3>2, StatusWritesType
    <3> QED BY <3>3, <3>4, CommitTrusts
  <2>3. CASE AdminCancelLoad(s)
    <3> DEFINE v == Assign(job[s].memo[job[s].load], "CANCELLED")
    <3>1. job[s].load \in Loads
      BY <2>3 DEF IInv, ControlInv, JobReady, NeedLoad, AdminCancelLoad, Acting
    <3>2. v \in LoadStatus \cup {NoWrite}
      BY AssignType DEF LoadStatus
    <3>3. Commit(s, [NoWrites EXCEPT !.loads[job[s].load] = v])
      BY <2>3 DEF AdminCancelLoad
    <3> HIDE DEF v
    <3>4. [NoWrites EXCEPT !.loads[job[s].load] = v] \in Writes
      BY <3>1, <3>2, PlainWritesSafe DEF SafeWrites
    <3> QED BY <3>3, <3>4, CommitTrusts DEF NoWrites
  <2>4. CASE AdminFetchNext(s) \/ ConnectConflict(s) \/ AdminResend(s)
    BY <2>4 DEF AdminFetchNext, ConnectConflict, Abandon, AdminResend
  <2> QED BY <1>7, <2>1, <2>2, <2>3, <2>4 DEF AdminStep
<1>8. CASE WorkerStep(s)
  BY <1>8 DEF WorkerStep, ScanTruck, ScanLoad, RemindNext, Stage
<1> QED BY <1>2, <1>3, <1>4, <1>5, <1>6, <1>7, <1>8 DEF Step

\* The pair that connect makes trusted is the pair of a match that was not
\* CONNECTED, and now is.
LEMMA ConnectMakesConnected ==
  ASSUME IInv, NEW s \in SessionIds, AdminConnect(s)
  PROVE  /\ db'.trusted = db.trusted \cup {PairOf(JobMatch(s))}
         /\ JobMatch(s) \in Matches
         /\ db.matches[JobMatch(s)] # "CONNECTED"
         /\ db'.matches[JobMatch(s)] = "CONNECTED"
<1> DEFINE m == JobMatch(s)
           w == ConnectWrites(s)
           v == StatusWrites(s, "CONNECTED", "CONNECTED")
<1>1. /\ job[s].load \in Loads /\ job[s].truck \in Trucks /\ m \in Matches
      /\ job[s].match = "CONNECTED" => PairOf(m) \in db.trusted
  BY ActingType DEF AdminConnect, MatchActions
<1>2. PairOf(m) \notin db.trusted /\ Commit(s, w)
  BY DEF AdminConnect
<1>3. v.matches[m] = "CONNECTED"
  BY <1>1, <1>2 DEF StatusWrites, Assign, NoWrites
<1>4. v \in Writes
  BY <1>1, StatusWritesType DEF MatchStatus, LoadStatus
<1>5. PairOf(m) \in Pairs
  BY <1>1, Parties DEF PairOf, JobMatch, Pairs
<1>6. w = [v EXCEPT !.trusted = {PairOf(m)}]
  BY DEF ConnectWrites
<1> HIDE DEF v, w
<1>7. w \in Writes /\ w.matches[m] = "CONNECTED" /\ w.trusted = {PairOf(m)}
  BY <1>3, <1>4, <1>5, <1>6 DEF Writes
<1>8. db'.trusted = db.trusted \cup {PairOf(m)}
  BY <1>2, <1>7, CommitTrusts
<1>9. db'.matches[m] = "CONNECTED"
  <2>1. db \in Tables /\ db' = Overlay(db, w)
    BY <1>2 DEF Commit, IInv, DataInv
  <2>2. \A n \in Matches :
          Overlay(db, w).matches[n] =
            IF w.matches[n] = NoWrite THEN db.matches[n] ELSE w.matches[n]
    BY <1>7, <2>1, OverlayType
  <2>3. w.matches[m] # NoWrite
    BY <1>7 DEF NoWrite
  <2> QED BY <1>1, <1>7, <2>1, <2>2, <2>3
<1>10. db.matches[m] # "CONNECTED"
  BY <1>1, <1>2 DEF IInv, DataInv, ConnectedOnlyIfTrusted
<1> QED BY <1>1, <1>8, <1>9, <1>10

\* Nobody becomes trusted but by a step that connects a match of theirs.
THEOREM TrustIsEarned == Spec => TrustComesWithConnection
<1> DEFINE Earned ==
      \A p \in Pairs :
        p \in db'.trusted /\ p \notin db.trusted =>
          \E m \in Matches : /\ PairOf(m) = p
                             /\ db.matches[m] # "CONNECTED"
                             /\ db'.matches[m] = "CONNECTED"
<1>1. IInv /\ [Next]_vars => [Earned]_vars
  <2> SUFFICES ASSUME IInv, Next PROVE Earned
    OBVIOUS
  <2>1. PICK s \in SessionIds : Start(s) \/ Step(s) \/ Crash(s)
    BY DEF Next
  <2>2. CASE AdminConnect(s)
    BY <2>2, ConnectMakesConnected
  <2>3. CASE ~ AdminConnect(s)
    BY <2>1, <2>3, OnlyConnectTrusts
  <2> QED BY <2>2, <2>3
<1> QED BY <1>1, InvAlways, PTL DEF Spec, TrustComesWithConnection
=============================================================================
