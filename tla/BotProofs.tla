------------------------------ MODULE BotProofs -----------------------------
(***************************************************************************)
(* Theorems about Bot, for any people, updates, slots, limits and bounds.  *)
(***************************************************************************)
EXTENDS Bot, Integers, TLAPS

-----------------------------------------------------------------------------
(* The inductive invariant *)

\* A request in the backend knows what its next step needs; set_role has found
\* somebody whose role may be chosen.
CallReady(c) ==
  c.at \notin {None, "answered"} =>
    /\ c.who \in People
    /\ c.at \in {"set_role", "write"} => c.role \in Roles
    /\ c.at = "write" => c.seen \in Roles \cup {"UNSET"}
    /\ c.at \in {"incr", "expire"} => c.bucket <= MaxClock

Has(b, X) == \E i \in DOMAIN b.todo : b.todo[i] \in X

\* A handler at work knows whom it serves, and the role where it needs one.
BotReady(b) ==
  b # NoBot =>
    /\ b.who \in People
    /\ b.update \in Updates
    /\ Has(b, {"set_role", "extract"}) => b.role \in Roles

\* The reply to an update that was taken up belongs to a person.
ReplyReady(r) == r.offers # "nothing" => r.to \in People

\* A message on its way has failed so far, and its copies are those whose
\* answers were lost.
SendReady(h) ==
  At(h, "send") =>
    /\ sends[h].result = "trying"
    /\ sends[h].copies = sends[h].lost
    /\ sends[h].copies <= sends[h].attempts
    /\ sends[h].attempts < MaxAttempts

CallsOK ==
  /\ call \in [Slots -> CallRecords]
  /\ \A h \in Slots : CallReady(call[h])

LimitsOK ==
  /\ clock \in 0..MaxClock
  /\ counters \in [Keys -> [count : Nat, expires : Nat]]
  /\ admitted \in [Keys -> Nat]

SendsOK ==
  /\ sends \in [Slots -> Sends]
  /\ \A h \in Slots : SendReady(h)

DialogueOK ==
  /\ fsm \in [People -> States]
  /\ data \in [People -> Data]
  /\ bot \in [Slots -> Bots]
  /\ reply \in [Updates -> Replies]
  /\ \A h \in Slots : BotReady(bot[h])
  /\ \A h \in Slots : bot[h] # NoBot => reply[bot[h].update].to \in People
  /\ \A u \in Updates : ReplyReady(reply[u])

TypeInv ==
  /\ CallsOK
  /\ users \in [People -> UserRole \cup {NoRow}]
  /\ LimitsOK
  /\ SendsOK
  /\ saves \in [Updates \X Updates -> Nat]
  /\ DialogueOK
  /\ timeouts \in 0..MaxTimeouts
  /\ faults \in 0..MaxFaults

\* A choice of role that the backend serves is not an admin's.
RoleInv ==
  /\ BootstrapAdminStays
  /\ \A h \in Slots : At(h, "write") =>
       call[h].who \notin Bootstrap /\ users[call[h].who] # NoRow

-----------------------------------------------------------------------------
(* The part about the Confirm button *)

Keyboards == {"show", "roles", "yes_no"}

\* After an offer, a handler only changes the state.
OfferOnce(todo) ==
  \A i, j \in DOMAIN todo : i < j /\ todo[i] \in Keyboards => todo[j] \in States

\* What the handler of a Confirm button has left to do, and its request.
ConfirmShape(h) ==
  bot[h].on = "confirm" =>
    \/ bot[h].todo \in {<<"strip", "get", "create">>, <<"get", "create">>} /\ call[h] = NoCall
    \/ bot[h].todo = <<"create">> /\ (call[h] = NoCall \/ call[h].heard)
    \/ bot[h].todo = <<"awaiting_request">>

Offered(u) == reply[u].offers # "nothing"

\* Only Confirm submits, for an update that was answered with a summary; and who
\* has answered only changes the state any more.
HandlerFine(h) ==
  /\ OfferOnce(bot[h].todo)
  /\ Has(bot[h], {"create"}) => bot[h].on = "confirm"
  /\ ConfirmShape(h)
  /\ bot[h].on = "confirm" => bot[h].button \in Updates /\ Offered(bot[h].button)
  /\ bot[h] # NoBot /\ Offered(bot[h].update) =>
       \A i \in DOMAIN bot[h].todo : bot[h].todo[i] \in States

HandlerInv == \A h \in Slots : HandlerFine(h)

\* No two handlers work for one update.
OwnUpdates ==
  \A g, h \in Slots :
    g # h /\ bot[g] # NoBot /\ bot[h] # NoBot => bot[g].update # bot[h].update

\* The handler or the request in slot h may still make a row for summary u.
Submitting(h, u) ==
  \/ /\ call[h] = NoCall /\ bot[h].on = "confirm" /\ bot[h].button = u
     /\ bot[h].todo \in {<<"get", "create">>, <<"create">>}
  \/ At(h, "create") /\ call[h].button = u

Saved(u) == \E c \in Updates : saves[<<u, c>>] > 0

\* As long as the keyboard is there, nobody submits and nothing is saved; then
\* one handler does, and once something is saved nobody does any more.
SaveInv ==
  \A u \in Updates :
    /\ \A g, h \in Slots : Submitting(g, u) /\ Submitting(h, u) => g = h
    /\ \A h \in Slots : Submitting(h, u) =>
         ~ reply[u].live /\ Offered(u) /\ ~ Saved(u)
    /\ Saved(u) => ~ reply[u].live /\ Offered(u)

-----------------------------------------------------------------------------
(* The part about the limit *)

\* The end of window b.
Ends(b) == (b + 1) * Window

\* Whoever made counter k 1 and has not judged it yet.
Holds(h, k) == At(h, "expire") /\ <<call[h].who, call[h].bucket>> = k

\* A request counts in the present window, or in an earlier one.
Counting(h) == At(h, "incr") \/ At(h, "expire")

\* In its window, a counter lives and has counted what was admitted; who made it 1
\* is alone and can still be admitted.
KeyFine(k) ==
  /\ counters[k].expires = Never \/ counters[k].expires >= Ends(k[2])
  /\ clock < Ends(k[2]) =>
       /\ admitted[k] <= counters[k].count
       /\ \A g, h \in Slots : Holds(g, k) /\ Holds(h, k) => g = h
       /\ \A h \in Slots : Holds(h, k) =>
            admitted[k] < counters[k].count /\ (Limit = 0 \/ admitted[k] < Limit)

LimitInv ==
  /\ WithinLimit
  /\ \A h \in Slots : Counting(h) => Ends(call[h].bucket) <= clock + Window
  /\ \A k \in Keys : KeyFine(k)

-----------------------------------------------------------------------------
(* What the steps of a request do to `call` *)

LEMMA TypesImplied == TypeInv => BotTypeOK
BY DEF TypeInv, BotTypeOK, CallsOK, LimitsOK, SendsOK, DialogueOK

\* A request that ends is in no step of the backend any more.
LEMMA AnswerEffect ==
  ASSUME CallsOK, NEW h \in Slots, NEW a \in Answers, Answer(h, a)
  PROVE  /\ CallsOK'
         /\ \/ call'[h] = NoCall
            \/ call[h].heard /\ call'[h].heard /\ call'[h].at = "answered"
         /\ \A g \in Slots \ {h} : call'[g] = call[g]
<1>1. call[h] \in CallRecords
  BY DEF CallsOK
<1>2. [call[h] EXCEPT !.at = "answered", !.answer = a] \in CallRecords
  BY <1>1 DEF CallRecords, Places
<1>3. NoCall \in CallRecords
  BY DEF NoCall, CallRecords, Places
<1>4. call' \in [Slots -> CallRecords]
  BY <1>1, <1>2, <1>3 DEF CallsOK, Answer
<1>5. call'[h] = IF call[h].heard
                   THEN [call[h] EXCEPT !.at = "answered", !.answer = a] ELSE NoCall
  BY DEF CallsOK, Answer
<1>6. \A g \in Slots \ {h} : call'[g] = call[g]
  BY DEF CallsOK, Answer
<1>7. \/ call'[h] = NoCall
      \/ call[h].heard /\ call'[h].heard /\ call'[h].at = "answered"
  BY <1>1, <1>5 DEF CallRecords
<1>8. CallReady(call'[h])
  BY <1>7 DEF CallReady, NoCall
<1>. QED
  BY <1>4, <1>6, <1>7, <1>8 DEF CallsOK

LEMMA GoOnEffect ==
  ASSUME CallsOK, NEW h \in Slots, NEW c \in CallRecords, NEW p \in Places,
         GoOn(h, c, p), CallReady([c EXCEPT !.at = p])
  PROVE  /\ CallsOK'
         /\ call'[h] = [c EXCEPT !.at = p]
         /\ \A g \in Slots \ {h} : call'[g] = call[g]
<1>1. [c EXCEPT !.at = p] \in CallRecords
  BY DEF CallRecords
<1>. QED
  BY <1>1 DEF CallsOK, GoOn

-----------------------------------------------------------------------------
(* Type correctness: what the backend does *)

\* Messages are as they were, and no request begins to send.
LEMMA SendsFrame ==
  ASSUME SendsOK, UNCHANGED sends, \A g \in Slots : At(g, "send")' => At(g, "send")
  PROVE  SendsOK'
BY DEF SendsOK, SendReady, At

LEMMA AnswerKeepsSends ==
  ASSUME CallsOK, SendsOK, NEW h \in Slots, NEW a \in Answers, Answer(h, a),
         UNCHANGED sends
  PROVE  SendsOK'
<1>1. \A g \in Slots : At(g, "send")' => At(g, "send")
  BY AnswerEffect DEF At, NoCall, None
<1>. QED
  BY <1>1, SendsFrame

LEMMA GoOnKeepsSends ==
  ASSUME CallsOK, SendsOK, NEW h \in Slots, NEW c \in CallRecords,
         NEW p \in Places \ {"send"},
         GoOn(h, c, p), CallReady([c EXCEPT !.at = p]), UNCHANGED sends
  PROVE  SendsOK'
<1>1. \A g \in Slots : At(g, "send")' => At(g, "send")
  BY GoOnEffect DEF At, CallRecords
<1>. QED
  BY <1>1, SendsFrame

LEMMA AccountsType ==
  ASSUME TypeInv, NEW h \in Slots, AccountStep(h), UNCHANGED sends
  PROVE  CallsOK' /\ SendsOK' /\ users' \in [People -> UserRole \cup {NoRow}]
<1> DEFINE c == call[h]
           p == call[h].who
<1>1. c \in CallRecords /\ CallReady(c) /\ CallsOK /\ SendsOK
  BY DEF TypeInv, CallsOK
<1>2. UserRole \cup {NoRow, "ok", "error"} \subseteq Answers
  BY DEF Answers
<1>3. At(h, "upsert") \/ At(h, "insert") \/ At(h, "set_role") \/ At(h, "write")
        \/ At(h, "get_user") => p \in People /\ users[p] \in UserRole \cup {NoRow}
  BY <1>1 DEF CallReady, At, TypeInv, None
<1>4. CASE UpsertProbe(h)
  <2>1. CASE users[p] = NoRow
    <3>1. GoOn(h, c, "insert") /\ UNCHANGED users /\ p \in People
      BY <1>3, <1>4, <2>1 DEF UpsertProbe
    <3>2. CallReady([c EXCEPT !.at = "insert"])
      BY <1>1, <3>1 DEF CallReady, CallRecords
    <3>. QED
      BY <1>1, <3>1, <3>2, GoOnEffect, GoOnKeepsSends DEF Places, TypeInv
  <2>2. CASE users[p] # NoRow
    <3>1. Answer(h, users[p]) /\ UNCHANGED users /\ users[p] \in Answers
      BY <1>2, <1>3, <1>4, <2>2 DEF UpsertProbe
    <3>. QED
      BY <1>1, <3>1, AnswerEffect, AnswerKeepsSends DEF TypeInv
  <2>. QED
    BY <2>1, <2>2
<1>5. CASE UpsertInsert(h)
  <2>1. NewRole(p) \in UserRole
    BY DEF NewRole, UserRole
  <2>2. Answer(h, NewRole(p)) /\ users' = [users EXCEPT ![p] = NewRole(p)]
    BY <1>5 DEF UpsertInsert
  <2>. QED
    BY <1>1, <1>2, <2>1, <2>2, AnswerEffect, AnswerKeepsSends DEF TypeInv
<1>6. CASE UpsertConflict(h)
  <2>1. Answer(h, users[p]) /\ UNCHANGED users /\ users[p] \in Answers
    BY <1>2, <1>3, <1>6 DEF UpsertConflict
  <2>. QED
    BY <1>1, <2>1, AnswerEffect, AnswerKeepsSends DEF TypeInv
<1>7. CASE SetRoleRead(h)
  <2>1. CASE MayChoose(users[p])
    <3> DEFINE d == [c EXCEPT !.seen = users[p]]
    <3>1. GoOn(h, d, "write") /\ UNCHANGED users /\ p \in People
      BY <1>3, <1>7, <2>1 DEF SetRoleRead
    <3>2. users[p] \in Roles \cup {"UNSET"} /\ c.role \in Roles
      BY <1>1, <1>3, <1>7, <2>1 DEF SetRoleRead, MayChoose, UserRole, CallReady, At, None
    <3>3. d \in CallRecords /\ CallReady([d EXCEPT !.at = "write"])
      BY <1>1, <3>1, <3>2 DEF CallReady, CallRecords, UserRole
    <3>. QED
      BY <1>1, <3>1, <3>3, GoOnEffect, GoOnKeepsSends DEF Places, TypeInv
  <2>2. CASE ~ MayChoose(users[p])
    <3>1. Answer(h, "error") /\ UNCHANGED users
      BY <1>7, <2>2 DEF SetRoleRead
    <3>. QED
      BY <1>1, <1>2, <3>1, AnswerEffect, AnswerKeepsSends DEF TypeInv
  <2>. QED
    BY <2>1, <2>2
<1>8. CASE SetRoleWrite(h)
  <2>1. c.role \in Roles
    BY <1>1, <1>8 DEF SetRoleWrite, CallReady, At, None
  <2>2. Answer(h, "ok")
    BY <1>8 DEF SetRoleWrite
  <2>3. users' \in [People -> UserRole \cup {NoRow}]
    BY <1>8, <2>1 DEF SetRoleWrite, UserRole, TypeInv
  <2>. QED
    BY <1>1, <1>2, <2>2, <2>3, AnswerEffect, AnswerKeepsSends
<1>9. CASE GetUser(h)
  <2>1. Answer(h, users[p]) /\ UNCHANGED users /\ users[p] \in Answers
    BY <1>2, <1>3, <1>9 DEF GetUser
  <2>. QED
    BY <1>1, <2>1, AnswerEffect, AnswerKeepsSends DEF TypeInv
<1>. QED
  BY <1>4, <1>5, <1>6, <1>7, <1>8, <1>9 DEF AccountStep

\* Windows: what division does.
LEMMA Windows ==
  ASSUME NEW t \in Nat, NEW w \in Nat \ {0}
  PROVE  /\ t \div w \in Nat
         /\ t \div w <= t
         /\ (t \div w) * w <= t
         /\ t < ((t \div w) + 1) * w
<1> DEFINE q == t \div w
<1>1. q \in Int
  OBVIOUS
<1>2. t = w * q + (t % w) /\ 0 <= t % w /\ t % w < w
  BY SMTT(20)
<1>. QED
  BY <1>1, <1>2, SMTT(20)

LEMMA JudgeType ==
  ASSUME CallsOK, SendsOK, admitted \in [Keys -> Nat], NEW h \in Slots,
         NEW k \in Keys, NEW n \in Nat, Judge(h, k, n), UNCHANGED sends,
         call[h].at \notin {None, "answered"}
  PROVE  CallsOK' /\ SendsOK' /\ admitted' \in [Keys -> Nat]
<1>1. CASE n > Limit
  <2>1. Answer(h, "error") /\ UNCHANGED admitted /\ "error" \in Answers
    BY <1>1 DEF Judge, Answers
  <2>. QED
    BY <2>1, AnswerEffect, AnswerKeepsSends
<1>2. CASE ~ n > Limit
  <2>1. GoOn(h, call[h], "ai")
    BY <1>2 DEF Judge
  <2>2. call[h] \in CallRecords /\ CallReady([call[h] EXCEPT !.at = "ai"])
    BY DEF CallsOK, CallReady, CallRecords, None
  <2>3. admitted' \in [Keys -> Nat]
    BY <1>2 DEF Judge
  <2>. QED
    BY <2>1, <2>2, <2>3, GoOnEffect, GoOnKeepsSends DEF Places
<1>. QED
  BY <1>1, <1>2

\* The key that a request counts in.
LEMMA KeyOf ==
  ASSUME TypeInv, NEW h \in Slots, At(h, "incr") \/ At(h, "expire")
  PROVE  <<call[h].who, call[h].bucket>> \in Keys
<1>1. call[h] \in CallRecords /\ CallReady(call[h])
  BY DEF TypeInv, CallsOK
<1>2. call[h].who \in People /\ call[h].bucket \in Nat /\ call[h].bucket <= MaxClock
  BY <1>1 DEF CallReady, At, None, CallRecords
<1>. QED
  BY <1>2, RateAssumption DEF Keys

LEMMA RateType ==
  ASSUME TypeInv, NEW h \in Slots, RateStep(h), UNCHANGED sends
  PROVE  CallsOK' /\ SendsOK' /\ LimitsOK'
<1> DEFINE c == call[h]
           k == <<c.who, c.bucket>>
<1>1. c \in CallRecords /\ CallReady(c) /\ CallsOK /\ SendsOK /\ LimitsOK
  BY DEF TypeInv, CallsOK
<1>2. CASE Stamp(h)
  <2> DEFINE d == [c EXCEPT !.bucket = WindowOf(clock)]
  <2>1. WindowOf(clock) \in Nat /\ WindowOf(clock) <= MaxClock
    BY <1>1, Windows, RateAssumption DEF WindowOf, LimitsOK
  <2>2. d \in CallRecords /\ CallReady([d EXCEPT !.at = "incr"])
    BY <1>1, <1>2, <2>1 DEF Stamp, At, CallReady, CallRecords, None
  <2>3. GoOn(h, d, "incr") /\ UNCHANGED limitVars
    BY <1>2 DEF Stamp
  <2>. QED
    BY <1>1, <2>2, <2>3, GoOnEffect, GoOnKeepsSends DEF Places, LimitsOK, limitVars
<1>3. CASE Count(h)
  <2>1. k \in Keys /\ At(h, "incr")
    BY <1>3, KeyOf DEF Count
  <2>2. Incr(k) \in Nat /\ counters[k].expires \in Nat
    BY <1>1, <2>1 DEF LimitsOK, Incr, Value
  <2>3. Never \in Nat
    BY RateAssumption DEF Never
  <2>4. counters' \in [Keys -> [count : Nat, expires : Nat]] /\ UNCHANGED clock
    BY <1>1, <1>3, <2>1, <2>2, <2>3 DEF Count, LimitsOK
  <2>5. CASE Incr(k) = 1
    <3>1. GoOn(h, c, "expire") /\ UNCHANGED admitted
      BY <1>3, <2>5 DEF Count
    <3>2. CallReady([c EXCEPT !.at = "expire"])
      BY <1>1, <2>1 DEF At, CallReady, CallRecords, None
    <3>. QED
      BY <1>1, <2>4, <3>1, <3>2, GoOnEffect, GoOnKeepsSends DEF Places, LimitsOK
  <2>6. CASE Incr(k) # 1
    <3>1. Judge(h, k, Incr(k))
      BY <1>3, <2>6 DEF Count
    <3>2. call[h].at \notin {None, "answered"}
      BY <2>1 DEF At, None
    <3>. QED
      BY <1>1, <2>1, <2>2, <2>4, <3>1, <3>2, JudgeType DEF LimitsOK
  <2>. QED
    BY <2>5, <2>6
<1>4. CASE SetExpiry(h)
  <2>1. k \in Keys /\ At(h, "expire")
    BY <1>4, KeyOf DEF SetExpiry
  <2>2. Expiry(clock) \in Nat
    BY <1>1, RateAssumption DEF LimitsOK, Expiry
  <2>3. counters' \in [Keys -> [count : Nat, expires : Nat]] /\ UNCHANGED clock
    BY <1>1, <1>4, <2>1, <2>2 DEF SetExpiry, LimitsOK
  <2>4. Judge(h, k, 1) /\ call[h].at \notin {None, "answered"}
    BY <1>4, <2>1 DEF SetExpiry, At, None
  <2>. QED
    BY <1>1, <2>1, <2>3, <2>4, JudgeType DEF LimitsOK
<1>5. CASE Extract(h)
  <2>1. PICK x \in Understood : Answer(h, x)
    BY <1>5 DEF Extract
  <2>. QED
    BY <1>1, <1>5, <2>1, AnswerEffect, AnswerKeepsSends
    DEF Extract, Answers, LimitsOK, limitVars
<1>. QED
  BY <1>2, <1>3, <1>4, <1>5 DEF RateStep

LEMMA ReturnType ==
  ASSUME CallsOK, SendsOK, NEW h \in Slots, At(h, "send"), NEW s \in Sends,
         NEW r \in {"true", "false", "raised"}, Return(h, s, r)
  PROVE  CallsOK' /\ SendsOK'
<1>1. sends' \in [Slots -> Sends] /\ \A g \in Slots \ {h} : sends'[g] = sends[g]
  BY DEF Return, SendsOK, Sends
<1>2. CallsOK' /\ call'[h].at # "send" /\ \A g \in Slots \ {h} : call'[g] = call[g]
  <2>1. CASE r = "raised"
    <3>1. Answer(h, "error") /\ "error" \in Answers
      BY <2>1 DEF Return, Answers
    <3>. QED
      BY <3>1, AnswerEffect DEF NoCall, None
  <2>2. CASE r # "raised"
    <3>1. GoOn(h, call[h], "thank")
      BY <2>2 DEF Return
    <3>2. call[h] \in CallRecords /\ CallReady([call[h] EXCEPT !.at = "thank"])
      BY DEF CallsOK, CallReady, CallRecords, At, None
    <3>. QED
      BY <3>1, <3>2, GoOnEffect DEF Places, CallRecords
  <2>. QED
    BY <2>1, <2>2
<1>. QED
  BY <1>1, <1>2 DEF SendsOK, SendReady, At

LEMMA RetryType ==
  ASSUME CallsOK, SendsOK, NEW h \in Slots, At(h, "send"), NEW s \in Sends,
         s.attempts = sends[h].attempts, s.result = "trying", s.copies = s.lost,
         s.copies <= s.attempts + 1, Retry(h, s)
  PROVE  CallsOK' /\ SendsOK'
<1>1. CASE LastAttempt(h)
  BY <1>1, ReturnType DEF Retry
<1>2. CASE ~ LastAttempt(h)
  <2> DEFINE r == [s EXCEPT !.attempts = @ + 1]
  <2>1. sends' = [sends EXCEPT ![h] = r] /\ UNCHANGED call
    BY <1>2 DEF Retry
  <2>2. s.attempts + 1 < MaxAttempts /\ s.attempts \in Nat /\ s.copies \in Nat
    BY <1>2, AttemptsAssumption DEF LastAttempt, Sends
  <2>3. r \in Sends
    BY <2>2, AttemptsAssumption DEF Sends
  <2>4. sends' \in [Slots -> Sends] /\ sends'[h] = r
        /\ \A g \in Slots \ {h} : sends'[g] = sends[g]
    BY <2>1, <2>3 DEF SendsOK
  <2>5. r.result = "trying" /\ r.copies = r.lost /\ r.copies <= r.attempts
        /\ r.attempts < MaxAttempts
    BY <2>2 DEF Sends
  <2>. QED
    BY <2>1, <2>4, <2>5 DEF SendsOK, SendReady, CallsOK, At
<1>. QED
  BY <1>1, <1>2

LEMMA SendType ==
  ASSUME TypeInv, NEW h \in Slots, SendStep(h)
  PROVE  CallsOK' /\ SendsOK'
<1> DEFINE s == sends[h]
<1>1. CallsOK /\ SendsOK /\ At(h, "send") /\ s \in Sends
  BY DEF TypeInv, SendsOK, SendStep, Accepted, Rejected, Undelivered, AnswerLost,
         ProtocolBroken
<1>2. s.result = "trying" /\ s.copies = s.lost /\ s.copies <= s.attempts
      /\ s.attempts < MaxAttempts /\ s.copies \in Nat /\ s.lost \in Nat
      /\ s.attempts \in Nat
  BY <1>1, AttemptsAssumption DEF SendsOK, SendReady, Sends
<1>3. CASE Accepted(h)
  <2>1. [s EXCEPT !.copies = @ + 1] \in Sends
    BY <1>1, <1>2, AttemptsAssumption DEF Sends
  <2>. QED
    BY <1>1, <1>3, <2>1, ReturnType DEF Accepted
<1>4. CASE Rejected(h)
  BY <1>1, <1>4, ReturnType DEF Rejected
<1>5. CASE Undelivered(h)
  BY <1>1, <1>2, <1>5, RetryType DEF Undelivered
<1>6. CASE AnswerLost(h)
  <2> DEFINE r == [s EXCEPT !.copies = @ + 1, !.lost = @ + 1]
  <2>1. s.copies + 1 \in 0..MaxAttempts /\ s.lost + 1 \in 0..MaxAttempts
    BY <1>2, AttemptsAssumption
  <2>2. r \in Sends
    BY <1>1, <2>1 DEF Sends
  <2>3. /\ r.attempts = s.attempts /\ r.result = "trying"
        /\ r.copies = r.lost /\ r.copies <= r.attempts + 1
    BY <1>1, <1>2 DEF Sends
  <2>4. Retry(h, r)
    BY <1>6 DEF AnswerLost
  <2>. QED
    BY <1>1, <2>2, <2>3, <2>4, RetryType
<1>7. CASE ProtocolBroken(h)
  BY <1>1, <1>7, ReturnType DEF ProtocolBroken
<1>. QED
  BY <1>3, <1>4, <1>5, <1>6, <1>7 DEF SendStep

LEMMA CreateType ==
  ASSUME TypeInv, NEW h \in Slots, CreateRow(h) \/ CreateDone(h)
  PROVE  CallsOK' /\ SendsOK' /\ saves' \in [Updates \X Updates -> Nat]
<1> DEFINE c == call[h]
<1>1. CallsOK /\ SendsOK /\ c \in CallRecords /\ CallReady(c) /\ {"ok", "error"} \subseteq Answers
  BY DEF TypeInv, CallsOK, Answers
<1>2. CASE CreateRow(h) /\ Acceptable(c)
  <2>1. PICK p \in {"send", "thank"} : GoOn(h, c, p)
    BY <1>2 DEF CreateRow
  <2>2. CallReady([c EXCEPT !.at = p])
    BY <1>1, <1>2 DEF CreateRow, At, CallReady, CallRecords, None
  <2>3. CallsOK' /\ \A g \in Slots \ {h} : call'[g] = call[g]
    BY <1>1, <2>1, <2>2, GoOnEffect DEF Places
  <2>4. sends' = [sends EXCEPT ![h] = NewSend] /\ NewSend \in Sends
    BY <1>2, AttemptsAssumption DEF CreateRow, NewSend, Sends
  <2>5. SendsOK'
    BY <1>1, <2>3, <2>4, AttemptsAssumption DEF SendsOK, SendReady, NewSend, At
  <2>6. saves' \in [Updates \X Updates -> Nat]
    BY <1>2 DEF CreateRow, TypeInv
  <2>. QED
    BY <2>3, <2>5, <2>6
<1>3. CASE CreateRow(h) /\ ~ Acceptable(c)
  <2>1. Answer(h, "error") /\ UNCHANGED <<saves, sends>>
    BY <1>3 DEF CreateRow
  <2>. QED
    BY <1>1, <2>1, AnswerEffect, AnswerKeepsSends DEF TypeInv
<1>4. CASE CreateDone(h)
  <2>1. Answer(h, "ok") /\ UNCHANGED <<saves, sends>>
    BY <1>4 DEF CreateDone, backendVars
  <2>. QED
    BY <1>1, <2>1, AnswerEffect, AnswerKeepsSends DEF TypeInv
<1>. QED
  BY <1>2, <1>3, <1>4

LEMMA LimitsFrame == LimitsOK /\ UNCHANGED limitVars => LimitsOK'
BY DEF LimitsOK, limitVars

LEMMA DialogueFrame == DialogueOK /\ UNCHANGED dialogueVars => DialogueOK'
BY DEF DialogueOK, dialogueVars

LEMMA BackendType ==
  ASSUME TypeInv, NEW h \in Slots, BackendStep(h),
         UNCHANGED <<dialogueVars, timeouts, faults>>
  PROVE  TypeInv'
<1>1. DialogueOK' /\ UNCHANGED <<timeouts, faults>>
  BY DialogueFrame DEF TypeInv
<1>2. CASE AccountStep(h) /\ UNCHANGED <<limitVars, sends, saves>>
  BY <1>1, <1>2, AccountsType, LimitsFrame DEF TypeInv
<1>3. CASE RateStep(h) /\ UNCHANGED <<users, sends, saves>>
  BY <1>1, <1>3, RateType DEF TypeInv
<1>4. CASE SendStep(h) /\ UNCHANGED <<users, limitVars, saves>>
  BY <1>1, <1>4, SendType, LimitsFrame DEF TypeInv
<1>5. CASE CreateRow(h) \/ CreateDone(h)
  <2>1. UNCHANGED <<users, limitVars>>
    BY <1>5 DEF CreateRow, CreateDone, backendVars
  <2>. QED
    BY <1>1, <1>5, <2>1, CreateType, LimitsFrame DEF TypeInv
<1>. QED
  BY <1>2, <1>3, <1>4, <1>5 DEF BackendStep

\* A request that dies has no effect but on the one who waits for it.
LEMMA DeathType ==
  ASSUME TypeInv, NEW h \in Slots, BackendDies(h), UNCHANGED <<dialogueVars, timeouts>>,
         faults' \in 0..MaxFaults
  PROVE  TypeInv'
<1>1. Answer(h, "error") /\ "error" \in Answers /\ CallsOK /\ SendsOK
      /\ UNCHANGED <<users, limitVars, sends, saves>>
  BY DEF BackendDies, backendVars, Answers, TypeInv
<1>. QED
  BY <1>1, AnswerEffect, AnswerKeepsSends, LimitsFrame, DialogueFrame DEF TypeInv

-----------------------------------------------------------------------------
(* Type correctness: what the bot does *)

\* The handler of slot h is b afterwards, or has ended.
LEMMA BecomeType ==
  ASSUME bot \in [Slots -> Bots], \A g \in Slots : BotReady(bot[g]), NEW h \in Slots,
         NEW b \in Bots, BotReady(b), Become(h, b)
  PROVE  /\ bot' \in [Slots -> Bots]
         /\ \A g \in Slots : BotReady(bot'[g])
         /\ bot'[h] \in {b, NoBot}
         /\ \A g \in Slots \ {h} : bot'[g] = bot[g]
<1>1. NoBot \in Bots /\ BotReady(NoBot)
  BY DEF NoBot, Bots, NoData, Data, NoPatch, Patches, BotReady, Has
<1>. QED
  BY <1>1 DEF Become

LEMMA RaiseType ==
  ASSUME bot \in [Slots -> Bots], \A g \in Slots : BotReady(bot[g]), NEW h \in Slots,
         Raise(h)
  PROVE  /\ bot' \in [Slots -> Bots]
         /\ \A g \in Slots : BotReady(bot'[g])
         /\ bot'[h] = NoBot
         /\ \A g \in Slots \ {h} : bot'[g] = bot[g]
<1>1. NoBot \in Bots /\ BotReady(NoBot)
  BY DEF NoBot, Bots, NoData, Data, NoPatch, Patches, BotReady, Has
<1>. QED
  BY <1>1 DEF Raise

\* What a handler has left to do after its next await.
LEMMA TailOf ==
  ASSUME NEW b \in Bots, b.todo # <<>>
  PROVE  /\ Tail(b.todo) \in Seq(Awaits)
         /\ Head(b.todo) = b.todo[1] /\ 1 \in DOMAIN b.todo
         /\ \A i \in DOMAIN Tail(b.todo) :
              i \in Nat /\ i + 1 \in DOMAIN b.todo /\ Tail(b.todo)[i] = b.todo[i + 1]
<1>1. b.todo \in Seq(Awaits)
  BY DEF Bots
<1>. QED
  BY <1>1

LEMMA AtWork ==
  ASSUME DialogueOK, NEW h \in Slots, bot[h].todo # <<>>
  PROVE  /\ bot[h] # NoBot /\ bot[h] \in Bots /\ BotReady(bot[h])
         /\ bot[h].who \in People /\ bot[h].update \in Updates
BY DEF DialogueOK, BotReady, NoBot

\* A step of a handler that keeps its update, and takes no reply from anybody.
LEMMA DialogueStep ==
  ASSUME DialogueOK, NEW h \in Slots, bot[h].todo # <<>>,
         NEW b \in Bots, BotReady(b), b.update = bot[h].update,
         Become(h, b) \/ Raise(h),
         fsm' \in [People -> States], data' \in [People -> Data],
         reply' \in [Updates -> Replies],
         \A u \in Updates : ReplyReady(reply'[u]) /\ reply'[u].to = reply[u].to
  PROVE  DialogueOK'
<1>1. /\ bot' \in [Slots -> Bots]
      /\ \A g \in Slots : BotReady(bot'[g])
      /\ bot'[h] \in {b, NoBot}
      /\ \A g \in Slots \ {h} : bot'[g] = bot[g]
  BY BecomeType, RaiseType DEF DialogueOK
<1>2. ASSUME NEW g \in Slots, bot'[g] # NoBot
      PROVE  reply'[bot'[g].update].to \in People
  <2>1. bot[g] # NoBot /\ bot'[g].update = bot[g].update
    BY <1>1, <1>2, AtWork
  <2>2. bot[g].update \in Updates
    BY <2>1 DEF DialogueOK, BotReady
  <2>. QED
    BY <2>1, <2>2 DEF DialogueOK
<1>. QED
  BY <1>1, <1>2 DEF DialogueOK

\* The handler goes on after an await.
LEMMA ContinueStep ==
  ASSUME DialogueOK, NEW h \in Slots, bot[h].todo # <<>>,
         NEW b \in Bots, b.who = bot[h].who, b.update = bot[h].update,
         b.role = bot[h].role, b.todo = bot[h].todo, Continue(h, b),
         fsm' \in [People -> States], data' \in [People -> Data],
         reply' \in [Updates -> Replies],
         \A u \in Updates : ReplyReady(reply'[u]) /\ reply'[u].to = reply[u].to
  PROVE  DialogueOK'
<1> DEFINE d == [b EXCEPT !.todo = Tail(b.todo)]
<1>1. d \in Bots /\ d.todo = Tail(b.todo)
  BY TailOf DEF Bots
<1>2. d.who = bot[h].who /\ d.update = bot[h].update /\ d.role = bot[h].role
  BY DEF Bots
<1>3. ASSUME Has(d, {"set_role", "extract"})
      PROVE  d.role \in Roles
  BY <1>1, <1>2, <1>3, TailOf, AtWork DEF Has, BotReady
<1>4. BotReady(d)
  BY <1>2, <1>3, AtWork DEF BotReady
<1>5. Become(h, d)
  BY DEF Continue
<1>. QED
  BY <1>1, <1>2, <1>4, <1>5, DialogueStep

\* The handler goes on with other awaits.
LEMMA GoStep ==
  ASSUME DialogueOK, NEW h \in Slots, bot[h].todo # <<>>,
         NEW todo \in Seq(Awaits), NEW patch \in Patches,
         \A i \in DOMAIN todo : todo[i] \notin {"set_role", "extract"},
         Go(h, todo, patch), UNCHANGED <<fsm, data, reply>>
  PROVE  DialogueOK'
<1> DEFINE d == [bot[h] EXCEPT !.todo = todo, !.patch = patch]
<1>1. d \in Bots /\ d.todo = todo /\ d.who = bot[h].who /\ d.update = bot[h].update
  BY AtWork DEF Bots
<1>2. BotReady(d)
  BY <1>1, AtWork DEF BotReady, Has
<1>3. Become(h, d)
  BY DEF Go
<1>4. \A u \in Updates : ReplyReady(reply'[u]) /\ reply'[u].to = reply[u].to
  BY DEF DialogueOK
<1>. QED
  BY <1>1, <1>2, <1>3, <1>4, DialogueStep DEF DialogueOK

LEMMA AwaitType ==
  ASSUME TypeInv, NEW h \in Slots, AwaitStep(h)
  PROVE  DialogueOK'
<1> DEFINE b == bot[h]
<1>1. DialogueOK /\ \A u \in Updates : ReplyReady(reply[u])
  BY DEF TypeInv, DialogueOK
<1>2. b.todo # <<>> /\ b \in Bots /\ b.who \in People /\ b.update \in Updates
  BY <1>1, AtWork DEF AwaitStep, SetState, GetData, SetData, Offer, Edit, Does
<1>3. CASE SetState(h)
  <2>1. fsm' \in [People -> States] /\ Continue(h, b) /\ UNCHANGED <<data, reply>>
    BY <1>1, <1>2, <1>3 DEF SetState, DialogueOK
  <2>. QED
    BY <1>1, <1>2, <2>1, ContinueStep DEF DialogueOK
<1>4. CASE GetData(h)
  <2> DEFINE d == data[b.who]
             b1 == [b EXCEPT !.copy = d]
             b2 == [b EXCEPT !.patch.role = d.role]
  <2>1. d \in Data
    BY <1>1, <1>2 DEF DialogueOK
  <2>2. b1 \in Bots /\ b1.who = b.who /\ b1.update = b.update /\ b1.role = b.role
        /\ b1.todo = b.todo
    BY <1>2, <2>1 DEF Bots
  <2>3. b2 \in Bots /\ b2.who = b.who /\ b2.update = b.update /\ b2.role = b.role
        /\ b2.todo = b.todo
    BY <1>2, <2>1 DEF Bots, Data, Patches
  <2>4. (Continue(h, b1) \/ Continue(h, b2)) /\ UNCHANGED <<fsm, data, reply>>
    BY <1>4 DEF GetData
  <2>. QED
    BY <1>1, <1>2, <2>2, <2>3, <2>4, ContinueStep DEF DialogueOK
<1>5. CASE SetData(h)
  <2>1. b.copy \in Data /\ NoData \in Data /\ b.patch \in Patches
    BY <1>2 DEF Bots, NoData, Data
  <2>2. Patched(b.copy, b.patch) \in Data
    BY <2>1 DEF Patched, Data, Patches, Same
  <2>3. data' \in [People -> Data]
    BY <1>1, <1>5, <2>1, <2>2 DEF SetData, DialogueOK
  <2>4. Continue(h, b) /\ UNCHANGED <<fsm, reply>>
    BY <1>5 DEF SetData
  <2>. QED
    BY <1>1, <1>2, <2>3, <2>4, ContinueStep DEF DialogueOK
<1>6. CASE Offer(h)
  <2>0. PICK kb \in {<<"show", "summary">>, <<"roles", "roles">>, <<"yes_no", "yes_no">>} :
          reply' = [reply EXCEPT ![b.update].offers = kb[2], ![b.update].live = TRUE]
    BY <1>6 DEF Offer
  <2>1. PICK o \in {"summary", "roles", "yes_no"} : o = kb[2]
    BY <2>0
  <2>2. reply' = [reply EXCEPT ![b.update] = [reply[b.update] EXCEPT !.offers = o, !.live = TRUE]]
    BY <1>1, <1>2, <2>0, <2>1 DEF DialogueOK, Replies
  <2>3. reply[b.update] \in Replies /\ reply[b.update].to \in People
    BY <1>1, <1>2, AtWork DEF DialogueOK
  <2>4. reply' \in [Updates -> Replies]
    BY <1>1, <2>2, <2>3 DEF DialogueOK, Replies
  <2>5. \A u \in Updates : ReplyReady(reply'[u]) /\ reply'[u].to = reply[u].to
    BY <1>1, <2>2, <2>3 DEF DialogueOK, Replies, ReplyReady
  <2>6. Continue(h, b) /\ UNCHANGED <<fsm, data>>
    BY <1>6 DEF Offer
  <2>. QED
    BY <1>1, <1>2, <2>4, <2>5, <2>6, ContinueStep DEF DialogueOK
<1>7. CASE Edit(h)
  <2>1. reply' = [reply EXCEPT ![b.button].live = FALSE] \/ UNCHANGED reply
    BY <1>7 DEF Edit
  <2>2. reply' \in [Updates -> Replies]
    BY <1>1, <2>1 DEF DialogueOK, Replies
  <2>3. \A u \in Updates : ReplyReady(reply'[u]) /\ reply'[u].to = reply[u].to
    BY <1>1, <2>1 DEF DialogueOK, Replies, ReplyReady
  <2>4. UNCHANGED <<fsm, data>>
    BY <1>7 DEF Edit
  <2>5. CASE Continue(h, b)
    BY <1>1, <1>2, <2>2, <2>3, <2>4, <2>5, ContinueStep DEF DialogueOK
  <2>6. CASE Raise(h)
    BY <1>1, <1>2, <2>2, <2>3, <2>4, <2>6, AtWork, DialogueStep DEF DialogueOK
  <2>. QED
    BY <1>7, <2>5, <2>6 DEF Edit
<1>. QED
  BY <1>3, <1>4, <1>5, <1>6, <1>7 DEF AwaitStep

LEMMA DecideType ==
  ASSUME TypeInv, NEW h \in Slots, Decide(h)
  PROVE  DialogueOK'
<1> DEFINE b == bot[h]
<1>1. DialogueOK /\ UNCHANGED <<fsm, data, reply>> /\ b.todo # <<>>
  BY DEF TypeInv, Decide, Does
<1>2. b \in Bots /\ b.update \in Updates /\ BotReady(b)
  BY <1>1, AtWork
<1>3. NoPatch \in Patches /\ Parsed(b.update, "SHIPPER") \in Patches
  BY <1>2 DEF NoPatch, Parsed, Patches, Roles
<1>4. CASE DecideRole(h)
  <2>1. CASE b.copy.role \in Roles
    <3> DEFINE t == <<"extract">>
               d == [b EXCEPT !.role = b.copy.role, !.todo = t]
    <3>1. Become(h, d)
      BY <1>4, <2>1 DEF DecideRole
    <3>2. t \in Seq(Awaits)
      BY DEF Awaits, CallOps
    <3>. HIDE DEF t
    <3>3. d \in Bots /\ d.update = b.update /\ d.who = b.who /\ d.role \in Roles
      BY <1>2, <2>1, <3>2 DEF Bots
    <3>4. BotReady(d)
      BY <1>1, <3>3, AtWork DEF BotReady
    <3>. QED
      BY <1>1, <3>1, <3>3, <3>4, DialogueStep DEF DialogueOK
  <2>2. CASE b.copy.role \notin Roles
    <3> DEFINE t == <<"get_user">>
    <3>1. Go(h, t, NoPatch)
      BY <1>4, <2>2 DEF DecideRole
    <3>2. t \in Seq(Awaits) /\ \A i \in DOMAIN t : t[i] \notin {"set_role", "extract"}
      BY DEF Awaits, CallOps
    <3>. HIDE DEF t
    <3>. QED
      BY <1>1, <1>3, <3>1, <3>2, GoStep
  <2>. QED
    BY <2>1, <2>2
<1>5. CASE DecideDestination(h)
  <2> DEFINE t(st) == <<"get", "keep", st>>
  <2>1. PICK st \in {"truck_count", "truck_type"} : Go(h, t(st), NoPatch)
    BY <1>5 DEF DecideDestination
  <2>2. t(st) \in Seq(Awaits) /\ \A i \in DOMAIN t(st) : t(st)[i] \notin {"set_role", "extract"}
    BY DEF Awaits, States, TextStates
  <2>. HIDE DEF t
  <2>. QED
    BY <1>1, <1>3, <2>1, <2>2, GoStep
<1>6. CASE DecideTruckType(h)
  <2> DEFINE t == <<"get", "keep", "get", "put", "show", "reviewing">>
             v == <<"get", "keep", "yes_no", "has_trip">>
  <2>1. Go(h, t, Parsed(b.update, "SHIPPER")) \/ Go(h, v, NoPatch)
    BY <1>6 DEF DecideTruckType
  <2>2. /\ t \in Seq(Awaits) /\ \A i \in DOMAIN t : t[i] \notin {"set_role", "extract"}
        /\ v \in Seq(Awaits) /\ \A i \in DOMAIN v : v[i] \notin {"set_role", "extract"}
    BY DEF Awaits, States, TextStates
  <2>. HIDE DEF t, v
  <2>. QED
    BY <1>1, <1>3, <2>1, <2>2, GoStep
<1>. QED
  BY <1>4, <1>5, <1>6 DEF Decide

LEMMA CallType ==
  ASSUME TypeInv, NEW h \in Slots, CallBackend(h)
  PROVE  CallsOK' /\ SendsOK' /\ DialogueOK'
<1> DEFINE b == bot[h]
<1>1. CallsOK /\ SendsOK /\ DialogueOK /\ b.todo # <<>>
  BY DEF TypeInv, CallBackend, Does
<1>2. b \in Bots /\ b.who \in People /\ BotReady(b)
  BY <1>1, AtWork
<1>3. PICK op \in CallOps :
        /\ Does(h, op)
        /\ call' = [call EXCEPT ![h] =
             [NoCall EXCEPT !.op = op, !.at = op, !.who = b.who, !.heard = TRUE,
                !.role = IF op = "create" /\ b.copy.role # "CARRIER"
                           THEN "SHIPPER"
                           ELSE IF op = "create" THEN "CARRIER" ELSE b.role,
                !.button = IF op = "create" THEN b.button ELSE None,
                !.parsed = IF op = "create" THEN b.copy.parsed ELSE None,
                !.about = IF op = "create" THEN b.copy.about ELSE None]]
  BY DEF CallBackend
<1> DEFINE r == [NoCall EXCEPT !.op = op, !.at = op, !.who = b.who, !.heard = TRUE,
                  !.role = IF op = "create" /\ b.copy.role # "CARRIER"
                             THEN "SHIPPER"
                             ELSE IF op = "create" THEN "CARRIER" ELSE b.role,
                  !.button = IF op = "create" THEN b.button ELSE None,
                  !.parsed = IF op = "create" THEN b.copy.parsed ELSE None,
                  !.about = IF op = "create" THEN b.copy.about ELSE None]
<1>4. b.copy.parsed \in Updates \cup {None} /\ b.copy.about \in Roles \cup {None}
      /\ b.button \in Updates \cup {None} /\ b.role \in Roles \cup {None}
  BY <1>2 DEF Bots, Data
<1>5. r \in CallRecords
  BY <1>2, <1>4 DEF CallRecords, NoCall, Places, Roles
<1>6. r.at = op /\ r.who = b.who /\ (op = "set_role" => r.role = b.role)
  BY DEF NoCall
<1>7. op = "set_role" => b.role \in Roles
  BY <1>1, <1>2, <1>3, TailOf, AtWork DEF BotReady, Has, Does
<1>8. CallReady(r)
  BY <1>2, <1>6, <1>7 DEF CallReady, CallOps
<1>9. call'[h] = r /\ \A g \in Slots \ {h} : call'[g] = call[g]
  BY <1>1, <1>3 DEF CallsOK
<1>10. CallsOK'
  BY <1>1, <1>3, <1>5, <1>8, <1>9 DEF CallsOK
<1>11. SendsOK'
  <2>1. \A g \in Slots : At(g, "send")' => At(g, "send")
    BY <1>6, <1>9 DEF At, CallOps
  <2>. QED
    BY <1>1, <2>1, SendsFrame DEF CallBackend, backendVars
<1>. QED
  BY <1>1, <1>10, <1>11, DialogueFrame DEF CallBackend

LEMMA HearsType ==
  ASSUME CallsOK, SendsOK, timeouts \in 0..MaxTimeouts, UNCHANGED sends,
         NEW h \in Slots, NEW a \in Answers, Hears(h, a)
  PROVE  /\ CallsOK' /\ SendsOK' /\ timeouts' \in 0..MaxTimeouts
         /\ call'[h] \in {NoCall, [call[h] EXCEPT !.heard = FALSE]}
         /\ \A g \in Slots \ {h} : call'[g] = call[g]
<1> DEFINE r == [call[h] EXCEPT !.heard = FALSE]
<1>1. call[h] \in CallRecords /\ CallReady(call[h]) /\ call \in [Slots -> CallRecords]
  BY DEF CallsOK
<1>2. NoCall \in CallRecords /\ CallReady(NoCall) /\ NoCall.at = None
  BY DEF NoCall, CallRecords, Places, CallReady
<1>3. r \in CallRecords /\ CallReady(r) /\ r.at = call[h].at
  BY <1>1 DEF CallRecords, CallReady
<1>4. call' = [call EXCEPT ![h] = NoCall] \/ call' = [call EXCEPT ![h] = r]
  BY <1>1 DEF Hears
<1>5. timeouts' \in 0..MaxTimeouts
  BY DialogueAssumption DEF Hears
<1>6. call'[h] \in {NoCall, r} /\ \A g \in Slots \ {h} : call'[g] = call[g]
  BY <1>1, <1>4
<1>7. CallsOK'
  BY <1>1, <1>2, <1>3, <1>4 DEF CallsOK
<1>8. \A g \in Slots : At(g, "send")' => At(g, "send")
  BY <1>2, <1>3, <1>6 DEF At, None
<1>9. SendsOK'
  BY <1>8, SendsFrame
<1>. QED
  BY <1>5, <1>6, <1>7, <1>9

\* What a handler does with an answer.
LEMMA AfterType ==
  ASSUME DialogueOK, NEW h \in Slots, NEW a \in Answers, UNCHANGED <<fsm, data, reply>>,
         \/ AfterUpsert(h, a) \/ AfterSetRole(h, a) \/ AfterGetUser(h, a)
         \/ AfterExtract(h, a) \/ AfterCreate(h, a)
  PROVE  DialogueOK'
<1> DEFINE b == bot[h]
           Plain(t) == t \in Seq(Awaits)
                       /\ \A i \in DOMAIN t : t[i] \notin {"set_role", "extract"}
<1>1. b.todo # <<>>
  BY DEF AfterUpsert, AfterSetRole, AfterGetUser, AfterExtract, AfterCreate, Does
<1>2. b \in Bots /\ b.update \in Updates /\ BotReady(b) /\ NoPatch \in Patches
      /\ fsm' \in [People -> States] /\ data' \in [People -> Data]
      /\ reply' \in [Updates -> Replies]
      /\ \A u \in Updates : ReplyReady(reply'[u]) /\ reply'[u].to = reply[u].to
  BY <1>1, AtWork DEF NoPatch, Patches, DialogueOK
<1>3. ASSUME Raise(h)
      PROVE  DialogueOK'
  BY <1>1, <1>2, <1>3, DialogueStep
<1>4. CASE AfterUpsert(h, a)
  <2> DEFINE t(x) == <<x>>
  <2>1. Raise(h) \/ \E x \in {"awaiting_request", "roles", "phone"} : Go(h, t(x), NoPatch)
    BY <1>4 DEF AfterUpsert
  <2>2. \A x \in {"awaiting_request", "roles", "phone"} : Plain(t(x))
    BY DEF Awaits, States, TextStates
  <2>. HIDE DEF t
  <2>. QED
    BY <1>1, <1>2, <1>3, <2>1, <2>2, GoStep
<1>5. CASE AfterSetRole(h, a)
  <2> DEFINE t == <<"edit">>
             v == <<"get", "put", "edit", "name">>
             patch == [NoPatch EXCEPT !.role = b.role]
  <2>1. Go(h, t, NoPatch) \/ Go(h, v, patch)
    BY <1>5 DEF AfterSetRole
  <2>2. Plain(t) /\ Plain(v)
    BY DEF Awaits, States, TextStates
  <2>3. patch \in Patches
    BY <1>2 DEF Patches, Bots
  <2>. HIDE DEF t, v, patch
  <2>. QED
    BY <1>1, <1>2, <2>1, <2>2, <2>3, GoStep
<1>6. CASE AfterGetUser(h, a)
  <2> DEFINE t == <<"extract">>
             d == [b EXCEPT !.role = a, !.todo = t]
  <2>1. CASE a \in Roles
    <3>1. Become(h, d) /\ t \in Seq(Awaits)
      BY <1>6, <2>1 DEF AfterGetUser, Awaits, CallOps
    <3>. HIDE DEF t
    <3>2. d \in Bots /\ d.update = b.update /\ d.who = b.who /\ d.role \in Roles
      BY <1>2, <2>1, <3>1 DEF Bots
    <3>3. BotReady(d)
      BY <1>1, <3>2, AtWork DEF BotReady
    <3>. QED
      BY <1>1, <1>2, <3>1, <3>2, <3>3, DialogueStep
  <2>2. CASE a \notin Roles
    BY <1>3, <1>6, <2>2 DEF AfterGetUser
  <2>. QED
    BY <2>1, <2>2
<1>7. CASE AfterExtract(h, a)
  <2> DEFINE kind == IF b.role = "CARRIER" THEN "truck" ELSE "load"
             t == <<"get", "put", "show", "reviewing">>
             v(st) == <<"get", "put", st>>
             patch == [NoPatch EXCEPT !.entry = kind]
  <2>1. \/ Go(h, t, Parsed(b.update, b.role))
        \/ \E st \in {"destination", "current_city"} : Go(h, v(st), patch)
    BY <1>7 DEF AfterExtract
  <2>2. Plain(t) /\ \A st \in {"destination", "current_city"} : Plain(v(st))
    BY DEF Awaits, States, TextStates
  <2>3. b.role \in Roles
    BY <1>1, <1>2, <1>7, TailOf, AtWork DEF AfterExtract, Does, BotReady, Has
  <2>4. patch \in Patches /\ Parsed(b.update, b.role) \in Patches
    BY <1>2, <2>3 DEF Patches, Parsed
  <2>. HIDE DEF t, v, patch
  <2>. QED
    BY <1>1, <2>1, <2>2, <2>4, GoStep
<1>8. CASE AfterCreate(h, a)
  <2> DEFINE t == <<"awaiting_request">>
  <2>1. Go(h, t, NoPatch)
    BY <1>8 DEF AfterCreate
  <2>2. Plain(t)
    BY DEF Awaits, States, TextStates
  <2>. HIDE DEF t
  <2>. QED
    BY <1>1, <1>2, <2>1, <2>2, GoStep
<1>. QED
  BY <1>4, <1>5, <1>6, <1>7, <1>8

LEMMA HearType ==
  ASSUME TypeInv, NEW h \in Slots, HearAnswer(h)
  PROVE  TypeInv'
<1>1. PICK a \in Answers :
        /\ Hears(h, a)
        /\ \/ AfterUpsert(h, a) \/ AfterSetRole(h, a) \/ AfterGetUser(h, a)
           \/ AfterExtract(h, a) \/ AfterCreate(h, a)
  BY DEF HearAnswer
<1>2. UNCHANGED <<users, limitVars, sends, saves, fsm, data, reply, faults>>
  BY DEF HearAnswer, backendVars
<1>. QED
  BY <1>1, <1>2, HearsType, AfterType, LimitsFrame DEF TypeInv

LEMMA BotType ==
  ASSUME TypeInv, NEW h \in Slots, BotStep(h)
  PROVE  TypeInv'
<1>1. CASE AwaitStep(h) \/ Decide(h)
  <2>1. UNCHANGED <<call, users, limitVars, sends, saves, timeouts, faults>>
    BY <1>1 DEF AwaitStep, Decide, backendVars
  <2>2. CallsOK' /\ SendsOK'
    BY <2>1 DEF TypeInv, CallsOK, SendsOK, SendReady, At
  <2>. QED
    BY <1>1, <2>1, <2>2, AwaitType, DecideType, LimitsFrame DEF TypeInv
<1>2. CASE CallBackend(h)
  <2>1. UNCHANGED <<users, limitVars, saves, timeouts, faults>>
    BY <1>2 DEF CallBackend, backendVars
  <2>. QED
    BY <1>2, <2>1, CallType, LimitsFrame DEF TypeInv
<1>3. CASE HearAnswer(h)
  BY <1>3, HearType
<1>. QED
  BY <1>1, <1>2, <1>3 DEF BotStep

LEMMA HandlerDiesType ==
  ASSUME TypeInv, NEW h \in Slots, HandlerDies(h), UNCHANGED timeouts,
         faults' \in 0..MaxFaults
  PROVE  TypeInv'
<1> DEFINE r == [call[h] EXCEPT !.heard = FALSE]
<1>1. call[h] \in CallRecords /\ CallReady(call[h]) /\ call \in [Slots -> CallRecords]
  BY DEF TypeInv, CallsOK
<1>2. NoCall \in CallRecords /\ CallReady(NoCall) /\ NoCall.at = None
  BY DEF NoCall, CallRecords, Places, CallReady
<1>3. r \in CallRecords /\ CallReady(r) /\ r.at = call[h].at
  BY <1>1 DEF CallRecords, CallReady
<1>4. call' = [call EXCEPT ![h] = NoCall] \/ call' = [call EXCEPT ![h] = r]
  BY <1>1 DEF HandlerDies
<1>5. CallsOK'
  BY <1>1, <1>2, <1>3, <1>4 DEF CallsOK, TypeInv
<1>6. UNCHANGED <<users, limitVars, sends, saves, fsm, data, reply>>
  BY DEF HandlerDies, backendVars
<1>7. SendsOK'
  <2>1. \A g \in Slots : At(g, "send")' => At(g, "send")
    BY <1>1, <1>2, <1>3, <1>4 DEF At, None
  <2>. QED
    BY <1>6, <2>1, SendsFrame DEF TypeInv
<1>8. DialogueOK'
  BY <1>6, RaiseType DEF HandlerDies, TypeInv, DialogueOK
<1>. QED
  BY <1>5, <1>6, <1>7, <1>8, LimitsFrame DEF TypeInv

-----------------------------------------------------------------------------
(* Type correctness: updates that arrive *)

\* A handler's first list of awaits: only Confirm submits, only a role button
\* sets a role, and after an offer only the state changes.
LEMMA ScriptOf ==
  ASSUME NEW on \in Handlers
  PROVE  /\ Script(on) \in Seq(Awaits)
         /\ on = "confirm" => Script(on) = <<"strip", "get", "create">>
         /\ \A i \in DOMAIN Script(on) :
              /\ Script(on)[i] = "set_role" => on = "role"
              /\ Script(on)[i] # "extract"
              /\ Script(on)[i] = "create" => on = "confirm"
         /\ \A i, j \in DOMAIN Script(on) :
              i < j /\ Script(on)[i] \in {"show", "roles", "yes_no"} =>
                Script(on)[j] \in States
<1> USE DEF Awaits, CallOps, States, TextStates
<1> DEFINE Good(t) ==
      /\ t \in Seq(Awaits)
      /\ on = "confirm" => t = <<"strip", "get", "create">>
      /\ \A i \in DOMAIN t :
           /\ t[i] = "set_role" => on = "role"
           /\ t[i] # "extract"
           /\ t[i] = "create" => on = "confirm"
      /\ \A i, j \in DOMAIN t :
           i < j /\ t[i] \in {"show", "roles", "yes_no"} => t[j] \in States
<1>0. SUFFICES Good(Script(on))
  OBVIOUS
<1>1. CASE on = "start"
  <2>1. Script(on) = <<"no_state", "clear", "upsert">>
    BY <1>1 DEF Script
  <2>2. Good(<<"no_state", "clear", "upsert">>)
    BY <1>1
  <2>. HIDE DEF Good
  <2>. QED
    BY <2>1, <2>2
<1>2. CASE on = "role"
  <2>1. Script(on) = <<"set_role">>
    BY <1>2 DEF Script
  <2>2. Good(<<"set_role">>)
    BY <1>2
  <2>. HIDE DEF Good
  <2>. QED
    BY <2>1, <2>2
<1>3. CASE on = "name" \/ on = "phone"
  <2>1. Script(on) = <<"get", "keep", "upsert">>
    <3>1. CASE on = "name"
      BY <3>1 DEF Script
    <3>2. CASE on = "phone"
      BY <3>2 DEF Script
    <3>. QED
      BY <1>3, <3>1, <3>2
  <2>2. Good(<<"get", "keep", "upsert">>)
    BY <1>3
  <2>. HIDE DEF Good
  <2>. QED
    BY <2>1, <2>2
<1>4. CASE on = "awaiting_request" \/ on = "destination" \/ on = "truck_type"
  <2>1. Script(on) = <<"get", "decide">>
    <3>1. CASE on = "awaiting_request"
      BY <3>1 DEF Script
    <3>2. CASE on = "destination"
      BY <3>2 DEF Script
    <3>3. CASE on = "truck_type"
      BY <3>3 DEF Script
    <3>. QED
      BY <1>4, <3>1, <3>2, <3>3
  <2>2. Good(<<"get", "decide">>)
    BY <1>4
  <2>. HIDE DEF Good
  <2>. QED
    BY <2>1, <2>2
<1>5. CASE on = "current_city"
  <2>1. Script(on) = <<"get", "keep", "destination">>
    BY <1>5 DEF Script
  <2>2. Good(<<"get", "keep", "destination">>)
    BY <1>5
  <2>. HIDE DEF Good
  <2>. QED
    BY <2>1, <2>2
<1>6. CASE on = "truck_count"
  <2>1. Script(on) = <<"get", "keep", "truck_type">>
    BY <1>6 DEF Script
  <2>2. Good(<<"get", "keep", "truck_type">>)
    BY <1>6
  <2>. HIDE DEF Good
  <2>. QED
    BY <2>1, <2>2
<1>7. CASE on = "trip_destination"
  <2>1. Script(on) = <<"get", "keep", "trip_eta">>
    BY <1>7 DEF Script
  <2>2. Good(<<"get", "keep", "trip_eta">>)
    BY <1>7
  <2>. HIDE DEF Good
  <2>. QED
    BY <2>1, <2>2
<1>8. CASE on = "trip_eta"
  <2>1. Script(on) = <<"get", "put", "show", "reviewing">>
    BY <1>8 DEF Script
  <2>2. Good(<<"get", "put", "show", "reviewing">>)
    BY <1>8
  <2>. HIDE DEF Good
  <2>. QED
    BY <2>1, <2>2
<1>9. CASE on = "yes"
  <2>1. Script(on) = <<"get", "keep", "strip", "trip_destination">>
    BY <1>9 DEF Script
  <2>2. Good(<<"get", "keep", "strip", "trip_destination">>)
    BY <1>9
  <2>. HIDE DEF Good
  <2>. QED
    BY <2>1, <2>2
<1>10. CASE on = "no"
  <2>1. Script(on) = <<"get", "keep", "strip", "get", "put", "show", "reviewing">>
    BY <1>10 DEF Script
  <2>2. Good(<<"get", "keep", "strip", "get", "put", "show", "reviewing">>)
    BY <1>10
  <2>. HIDE DEF Good
  <2>. QED
    BY <2>1, <2>2
<1>11. CASE on = "confirm"
  <2>1. Script(on) = <<"strip", "get", "create">>
    BY <1>11 DEF Script, ConfirmScript
  <2>2. Good(<<"strip", "get", "create">>)
    BY <1>11
  <2>. HIDE DEF Good
  <2>. QED
    BY <2>1, <2>2
<1>12. CASE on = "revise"
  <2>1. Script(on) = <<"remember", "strip", "awaiting_request", "get", "put">>
    BY <1>12 DEF Script
  <2>2. Good(<<"remember", "strip", "awaiting_request", "get", "put">>)
    BY <1>12
  <2>. HIDE DEF Good
  <2>. QED
    BY <2>1, <2>2
<1>. HIDE DEF Good
<1>. QED
  BY <1>1, <1>2, <1>3, <1>4, <1>5, <1>6, <1>7, <1>8, <1>9, <1>10, <1>11, <1>12 DEF Handlers

LEMMA HandleType ==
  ASSUME TypeInv, NEW h \in Slots, NEW u \in Updates, NEW p \in People,
         NEW on \in Handlers, NEW button \in Updates \cup {None},
         NEW role \in Roles \cup {None}, on = "role" => role \in Roles,
         Handle(h, u, p, on, button, role)
  PROVE  TypeInv'
<1> DEFINE b == [NoBot EXCEPT !.on = on, !.who = p, !.update = u, !.button = button,
                     !.role = role, !.patch = FirstPatch(on, u), !.todo = Script(on)]
           r == [NoReply EXCEPT !.to = p]
<1>1. DialogueOK /\ bot' = [bot EXCEPT ![h] = b] /\ reply' = [reply EXCEPT ![u] = r]
      /\ UNCHANGED <<call, users, limitVars, sends, saves, fsm, data, timeouts, faults>>
  BY DEF Handle, TypeInv, backendVars
<1>2. FirstPatch(on, u) \in Patches
  BY DEF FirstPatch, Parsed, NoPatch, Patches, Roles
<1>3. b \in Bots
  BY <1>2, ScriptOf DEF Bots, NoBot, NoData, Data
<1>4. b.who = p /\ b.update = u /\ b.role = role /\ b.todo = Script(on)
  BY DEF NoBot
<1>5. BotReady(b)
  BY <1>4, ScriptOf DEF BotReady, Has
<1>6. r \in Replies /\ r.to = p /\ r.offers = "nothing"
  BY DEF NoReply, Replies
<1>7. bot' \in [Slots -> Bots] /\ reply' \in [Updates -> Replies]
  BY <1>1, <1>3, <1>6 DEF DialogueOK
<1>8. \A g \in Slots : BotReady(bot'[g])
  BY <1>1, <1>5 DEF DialogueOK
<1>9. \A v \in Updates : ReplyReady(reply'[v])
  BY <1>1, <1>6 DEF DialogueOK, ReplyReady
<1>10. ASSUME NEW g \in Slots, bot'[g] # NoBot
       PROVE  reply'[bot'[g].update].to \in People
  <2>1. CASE g = h
    BY <1>1, <1>4, <1>6, <2>1 DEF DialogueOK
  <2>2. CASE g # h
    <3>1. bot'[g] = bot[g] /\ bot[g].update \in Updates /\ reply[bot[g].update].to \in People
      BY <1>1, <1>10, <2>2 DEF DialogueOK, BotReady
    <3>. QED
      BY <1>1, <1>6, <3>1 DEF DialogueOK
  <2>. QED
    BY <2>1, <2>2
<1>11. DialogueOK'
  BY <1>1, <1>7, <1>8, <1>9, <1>10 DEF DialogueOK
<1>12. CallsOK' /\ SendsOK'
  BY <1>1 DEF TypeInv, CallsOK, SendsOK, SendReady, At
<1>. QED
  BY <1>1, <1>11, <1>12, LimitsFrame DEF TypeInv

\* Whatever arrives is handled for somebody, with a role if it needs one; a
\* Confirm belongs to a button below a summary.
LEMMA ArriveCases ==
  ASSUME TypeInv, NEW h \in Slots, Arrive(h)
  PROVE  \E u \in Updates, p \in People, on \in Handlers,
            button \in Updates \cup {None}, role \in Roles \cup {None} :
           /\ on = "role" => role \in Roles
           /\ on = "confirm" => button \in Updates /\ reply[button].offers = "summary"
           /\ Handle(h, u, p, on, button, role)
<1>1. PICK u \in Updates :
        \/ \E p \in People : StartCommand(h, u, p) \/ Text(h, u, p)
        \/ \E b \in Updates : Press(h, u, b)
  BY DEF Arrive
<1>2. CASE \E p \in People : StartCommand(h, u, p) \/ Text(h, u, p)
  <2>1. PICK p \in People, on \in TextStates \cup {"start"} : Handle(h, u, p, on, None, None)
    BY <1>2 DEF StartCommand, Text
  <2>2. on \in Handlers /\ on \notin {"role", "confirm"}
    BY DEF Handlers, TextStates
  <2>. QED
    BY <2>1, <2>2
<1>3. CASE \E b \in Updates : Press(h, u, b)
  <2>1. PICK b \in Updates : Press(h, u, b)
    BY <1>3
  <2> DEFINE p == reply[b].to
  <2>2. p \in People
    BY <2>1 DEF Press, TypeInv, DialogueOK, ReplyReady
  <2>3. CASE \E r \in Roles : Handle(h, u, p, "role", b, r)
    BY <2>2, <2>3 DEF Handlers
  <2>4. CASE \E on \in {"yes", "no", "revise"} : Handle(h, u, p, on, b, None)
    BY <2>2, <2>4 DEF Handlers
  <2>5. CASE reply[b].offers = "summary" /\ Handle(h, u, p, "confirm", b, None)
    BY <2>2, <2>5 DEF Handlers
  <2>. QED
    BY <2>1, <2>3, <2>4, <2>5 DEF Press
<1>. QED
  BY <1>1, <1>2, <1>3

-----------------------------------------------------------------------------
(* Type correctness: the theorem *)

LEMMA InitType == Init => TypeInv
<1> SUFFICES ASSUME Init PROVE TypeInv
  OBVIOUS
<1>1. PICK b \in [People -> UNION {Beginnings[p] : p \in People}] :
        /\ \A p \in People : b[p] \in Beginnings[p]
        /\ users = [p \in People |-> b[p].role]
        /\ fsm = [p \in People |-> b[p].fsm]
        /\ data = [p \in People |-> b[p].data]
  BY DEF Init
<1>2. \A p \in People : /\ b[p].role \in UserRole \cup {NoRow}
                        /\ b[p].fsm \in States /\ b[p].data \in Data
  BY <1>1, BeginningsAssumption
<1>3. NoCall \in CallRecords /\ NoCall.at = None
  BY DEF NoCall, CallRecords, Places
<1>4. CallsOK
  BY <1>3 DEF Init, BackendInit, CallsInit, CallsOK, CallReady
<1>5. LimitsOK
  BY RateAssumption DEF Init, BackendInit, RateInit, LimitsOK, Never
<1>6. SendsOK
  BY <1>3, AttemptsAssumption
  DEF Init, BackendInit, DeliveryInit, CallsInit, SendsOK, SendReady, NewSend, Sends, At, None
<1>7. NoBot \in Bots /\ NoReply \in Replies /\ NoReply.offers = "nothing"
  BY DEF NoBot, Bots, NoData, Data, NoPatch, Patches, NoReply, Replies
<1>8. DialogueOK
  BY <1>1, <1>2, <1>7 DEF Init, DialogueOK, BotReady, ReplyReady
<1>9. users \in [People -> UserRole \cup {NoRow}]
  BY <1>1, <1>2
<1>10. /\ saves \in [Updates \X Updates -> Nat]
       /\ timeouts \in 0..MaxTimeouts /\ faults \in 0..MaxFaults
  BY DialogueAssumption DEF Init, BackendInit
<1>. QED
  BY <1>4, <1>5, <1>6, <1>8, <1>9, <1>10 DEF TypeInv

LEMMA NextType == TypeInv /\ [Next]_vars => TypeInv'
<1> SUFFICES ASSUME TypeInv, [Next]_vars PROVE TypeInv'
  OBVIOUS
<1>1. ASSUME NEW h \in Slots, Arrive(h)
      PROVE  TypeInv'
  BY <1>1, ArriveCases, HandleType
<1>2. ASSUME NEW h \in Slots, Work(h)
      PROVE  TypeInv'
  BY <1>2, BotType, BackendType DEF Work
<1>3. ASSUME NEW h \in Slots, Fault(h)
      PROVE  TypeInv'
  <2>1. faults' \in 0..MaxFaults
    BY <1>3, DialogueAssumption DEF Fault, TypeInv
  <2>. QED
    BY <1>3, <2>1, HandlerDiesType, DeathType DEF Fault
<1>4. CASE Operator
  <2>1. /\ users' \in [People -> UserRole \cup {NoRow}]
        /\ UNCHANGED <<call, limitVars, sends, saves, dialogueVars, timeouts, faults>>
    BY <1>4 DEF Operator, Promote, TypeInv, UserRole
  <2>2. CallsOK' /\ SendsOK'
    BY <2>1 DEF TypeInv, CallsOK, SendsOK, SendReady, At
  <2>. QED
    BY <2>1, <2>2, LimitsFrame, DialogueFrame DEF TypeInv
<1>5. CASE Time
  <2>1. /\ clock' = clock + 1 /\ clock < MaxClock
        /\ UNCHANGED <<call, counters, admitted, users, sends, saves, dialogueVars,
                       timeouts, faults>>
    BY <1>5 DEF Time, Tick
  <2>2. CallsOK' /\ SendsOK' /\ LimitsOK'
    BY <2>1, RateAssumption DEF TypeInv, CallsOK, SendsOK, SendReady, LimitsOK, At
  <2>. QED
    BY <2>1, <2>2, DialogueFrame DEF TypeInv
<1>6. CASE UNCHANGED vars
  <2>1. UNCHANGED <<call, users, limitVars, sends, saves, dialogueVars, timeouts, faults>>
    BY <1>6 DEF vars, backendVars
  <2>2. CallsOK' /\ SendsOK'
    BY <2>1 DEF TypeInv, CallsOK, SendsOK, SendReady, At
  <2>. QED
    BY <2>1, <2>2, LimitsFrame, DialogueFrame DEF TypeInv
<1>. QED
  BY <1>1, <1>2, <1>3, <1>4, <1>5, <1>6 DEF Next

LEMMA TypeInvariant == Spec => []TypeInv
BY InitType, NextType, PTL DEF Spec

\* Every variable of the bot's side always has its type: in particular no
\* message is tried more often than its backoffs allow.
THEOREM BotTypeCorrect == Spec => []BotTypeOK
BY TypeInvariant, TypesImplied, PTL

-----------------------------------------------------------------------------
(* Who moves what *)

\* In a step, the request of a slot stays, is given up, ends, begins, or takes
\* a step of its own.
LEMMA CallMoves ==
  ASSUME TypeInv, [Next]_vars, NEW g \in Slots
  PROVE  \/ call'[g] = call[g]
         \/ Pending(g) /\ call'[g] = [call[g] EXCEPT !.heard = FALSE]
         \/ call'[g] = NoCall
         \/ call[g].heard /\ call'[g].heard /\ call'[g].at = "answered"
         \/ CallBackend(g)
         \/ AccountStep(g) \/ RateStep(g) \/ SendStep(g) \/ CreateRow(g)
<1> DEFINE Moves(f) ==
      \/ call'[f] = call[f]
      \/ Pending(f) /\ call'[f] = [call[f] EXCEPT !.heard = FALSE]
      \/ call'[f] = NoCall
      \/ call[f].heard /\ call'[f].heard /\ call'[f].at = "answered"
      \/ CallBackend(f)
      \/ AccountStep(f) \/ RateStep(f) \/ SendStep(f) \/ CreateRow(f)
<1>0. CallsOK /\ DialogueOK /\ call \in [Slots -> CallRecords]
  BY DEF TypeInv, CallsOK
<1>1. CASE UNCHANGED call
  BY <1>1
<1>2. ASSUME NEW h \in Slots, BotStep(h)
      PROVE  Moves(g)
  <2>1. CASE AwaitStep(h) \/ Decide(h)
    BY <1>1, <2>1 DEF AwaitStep, Decide
  <2>2. CASE CallBackend(h)
    <3>1. \E r : call' = [call EXCEPT ![h] = r]
      BY <2>2 DEF CallBackend
    <3>2. h # g => call'[g] = call[g]
      BY <1>0, <3>1
    <3>. QED
      BY <2>2, <3>2
  <2>3. CASE HearAnswer(h)
    BY <1>0, <2>3 DEF HearAnswer, Hears
  <2>. QED
    BY <1>2, <2>1, <2>2, <2>3 DEF BotStep
<1>3. ASSUME NEW h \in Slots, BackendStep(h)
      PROVE  Moves(g)
  <2>1. CASE h = g
    <3>1. CASE CreateDone(h)
      BY <1>0, <2>1, <3>1, AnswerEffect DEF CreateDone, Answers
    <3>. QED
      BY <1>3, <2>1, <3>1 DEF BackendStep
  <2>2. CASE h # g
    BY <1>0, <1>3, <2>2
    DEF BackendStep, AccountStep, UpsertProbe, UpsertInsert, UpsertConflict, SetRoleRead,
        SetRoleWrite, GetUser, RateStep, Stamp, Count, SetExpiry, Extract, Judge, SendStep,
        Accepted, Rejected, Undelivered, AnswerLost, ProtocolBroken, Retry, Return,
        CreateRow, CreateDone, GoOn, Answer
  <2>. QED
    BY <2>1, <2>2
<1>4. ASSUME NEW h \in Slots, Fault(h)
      PROVE  Moves(g)
  <2>1. CASE HandlerDies(h)
    BY <1>0, <2>1 DEF HandlerDies
  <2>2. CASE BackendDies(h)
    BY <1>0, <2>2, AnswerEffect DEF BackendDies, Answers
  <2>. QED
    BY <1>4, <2>1, <2>2 DEF Fault
<1>5. ASSUME NEW h \in Slots, Arrive(h)
      PROVE  UNCHANGED call
  BY <1>5 DEF Arrive, StartCommand, Text, Press, Handle
<1>6. CASE Operator \/ Time \/ UNCHANGED vars
  BY <1>1, <1>6 DEF Operator, Promote, Time, Tick, vars
<1>. QED
  BY <1>1, <1>2, <1>3, <1>4, <1>5, <1>6 DEF Next, Work

\* Where a step leaves the request.
LEMMA AnswerAt ==
  ASSUME CallsOK, NEW g \in Slots, NEW a, Answer(g, a)
  PROVE  call'[g].at \in {None, "answered"}
<1>1. call[g] \in CallRecords /\ NoCall.at = None
  BY DEF CallsOK, NoCall
<1>2. [call[g] EXCEPT !.at = "answered", !.answer = a].at = "answered"
  BY <1>1 DEF CallRecords
<1>. QED
  BY <1>1, <1>2 DEF CallsOK, Answer

LEMMA GoOnAt ==
  ASSUME CallsOK, NEW g \in Slots, NEW c \in CallRecords, NEW p, GoOn(g, c, p)
  PROVE  call'[g] = [c EXCEPT !.at = p] /\ call'[g].at = p
BY DEF CallsOK, GoOn, CallRecords

LEMMA StepPlaces ==
  ASSUME TypeInv, NEW g \in Slots
  PROVE  /\ AccountStep(g) => SetRoleRead(g) \/ call'[g].at \in {None, "answered", "insert"}
         /\ SetRoleRead(g) => \/ call'[g].at \in {None, "answered"}
                              \/ /\ MayChoose(users[call[g].who])
                                 /\ call'[g].at = "write" /\ call'[g].who = call[g].who
         /\ RateStep(g) => \/ Stamp(g) /\ call'[g].at = "incr"
                           \/ Count(g) /\ call'[g].at = "expire"
                           \/ call'[g].at \in {None, "answered", "ai"}
         /\ SendStep(g) => call'[g].at \in {None, "answered", "send", "thank"}
         /\ CreateRow(g) => call'[g].at \in {None, "answered", "send", "thank"}
<1> DEFINE c == call[g]
<1>1. CallsOK /\ c \in CallRecords
  BY DEF TypeInv, CallsOK
<1>2. AccountStep(g) => SetRoleRead(g) \/ call'[g].at \in {None, "answered", "insert"}
  BY <1>1, AnswerAt, GoOnAt
  DEF AccountStep, UpsertProbe, UpsertInsert, UpsertConflict, SetRoleWrite, GetUser
<1>3. ASSUME SetRoleRead(g)
      PROVE  \/ call'[g].at \in {None, "answered"}
             \/ /\ MayChoose(users[c.who]) /\ call'[g].at = "write" /\ call'[g].who = c.who
  <2> DEFINE d == [c EXCEPT !.seen = users[c.who]]
  <2>1. CASE MayChoose(users[c.who])
    <3>1. GoOn(g, d, "write")
      BY <1>3, <2>1 DEF SetRoleRead
    <3>2. users[c.who] \in UserRole
      BY <1>1, <1>3, <2>1
      DEF SetRoleRead, At, TypeInv, CallsOK, CallReady, None, MayChoose
    <3>3. d \in CallRecords /\ d.who = c.who
      BY <1>1, <3>2 DEF CallRecords
    <3> HIDE DEF d
    <3>4. call'[g] = [d EXCEPT !.at = "write"]
      BY <1>1, <3>1, <3>3, GoOnAt
    <3>5. call'[g].who = d.who /\ call'[g].at = "write"
      BY <3>3, <3>4 DEF CallRecords
    <3>. QED
      BY <2>1, <3>3, <3>5
  <2>2. CASE ~ MayChoose(users[c.who])
    BY <1>1, <1>3, <2>2, AnswerAt DEF SetRoleRead
  <2>. QED
    BY <2>1, <2>2
<1>4. ASSUME RateStep(g)
      PROVE  \/ Stamp(g) /\ call'[g].at = "incr"
             \/ Count(g) /\ call'[g].at = "expire"
             \/ call'[g].at \in {None, "answered", "ai"}
  <2>1. ASSUME NEW k, NEW n, Judge(g, k, n)
        PROVE  call'[g].at \in {None, "answered", "ai"}
    BY <1>1, <2>1, AnswerAt, GoOnAt DEF Judge
  <2>2. CASE Stamp(g)
    <3> DEFINE d == [c EXCEPT !.bucket = WindowOf(clock)]
    <3>1. GoOn(g, d, "incr")
      BY <2>2 DEF Stamp
    <3>2. clock \in Nat
      BY RateAssumption DEF TypeInv, LimitsOK
    <3>3. WindowOf(clock) \in Nat
      BY <3>2, Windows, RateAssumption DEF WindowOf
    <3>4. d \in CallRecords
      BY <1>1, <3>3 DEF CallRecords
    <3>5. Stamp(g)
      BY <2>2
    <3> HIDE DEF d, c
    <3>6. call'[g].at = "incr"
      BY <1>1, <3>1, <3>4, GoOnAt
    <3>. QED
      BY <3>5, <3>6
  <2>3. CASE Count(g)
    BY <1>1, <2>1, <2>3, GoOnAt DEF Count
  <2>4. CASE SetExpiry(g)
    BY <2>1, <2>4 DEF SetExpiry
  <2>5. CASE Extract(g)
    BY <1>1, <2>5, AnswerAt DEF Extract
  <2>. QED
    BY <1>4, <2>2, <2>3, <2>4, <2>5 DEF RateStep
<1>5. ASSUME SendStep(g)
      PROVE  call'[g].at \in {None, "answered", "send", "thank"}
  <2>1. ASSUME NEW s, NEW r, Return(g, s, r)
        PROVE  call'[g].at \in {None, "answered", "thank"}
    BY <1>1, <2>1, AnswerAt, GoOnAt DEF Return
  <2>2. ASSUME NEW s, Retry(g, s)
        PROVE  call'[g].at \in {None, "answered", "thank"} \/ UNCHANGED call
    BY <2>1, <2>2 DEF Retry
  <2>. QED
    BY <1>1, <1>5, <2>1, <2>2
    DEF SendStep, Accepted, Rejected, Undelivered, AnswerLost, ProtocolBroken, At
<1>6. CreateRow(g) => call'[g].at \in {None, "answered", "send", "thank"}
  BY <1>1, AnswerAt, GoOnAt DEF CreateRow
<1>. QED
  BY <1>2, <1>3, <1>4, <1>5, <1>6

\* The users table changes by an insert, by a choice of role, or by the operator.
LEMMA UsersMove ==
  ASSUME [Next]_vars
  PROVE  \/ UNCHANGED users
         \/ \E h \in Slots : UpsertInsert(h) \/ SetRoleWrite(h)
         \/ \E p \in Promotable : Promote(p)
<1>1. ASSUME NEW h \in Slots, BotStep(h)
      PROVE  UNCHANGED users
  BY <1>1 DEF BotStep, AwaitStep, Decide, CallBackend, HearAnswer, backendVars
<1>2. ASSUME NEW h \in Slots, BackendStep(h)
      PROVE  UNCHANGED users \/ UpsertInsert(h) \/ SetRoleWrite(h)
  BY <1>2 DEF BackendStep, AccountStep, UpsertProbe, UpsertConflict, SetRoleRead, GetUser,
              CreateRow, CreateDone, backendVars
<1>3. ASSUME NEW h \in Slots, Fault(h) \/ Arrive(h)
      PROVE  UNCHANGED users
  BY <1>3 DEF Fault, HandlerDies, BackendDies, Arrive, StartCommand, Text, Press, Handle,
              backendVars
<1>4. CASE Operator
  BY <1>4 DEF Operator
<1>5. CASE Time \/ UNCHANGED vars
  BY <1>5 DEF Time, vars, backendVars
<1>. QED
  BY <1>1, <1>2, <1>3, <1>4, <1>5 DEF Next, Work

-----------------------------------------------------------------------------
(* Roles *)

\* Only a choice of role that was found in order comes to be written.
LEMMA ToWrite ==
  ASSUME TypeInv, [Next]_vars, NEW g \in Slots, At(g, "write")'
  PROVE  \/ At(g, "write") /\ call'[g].who = call[g].who
         \/ SetRoleRead(g) /\ call'[g].who = call[g].who /\ MayChoose(users[call[g].who])
<1> DEFINE c == call[g]
<1>1. CallsOK /\ c \in CallRecords /\ call \in [Slots -> CallRecords]
  BY DEF TypeInv, CallsOK
<1>2. call'[g].at = "write"
  BY DEF At
<1>3. CASE call'[g] = c \/ call'[g] = [c EXCEPT !.heard = FALSE]
  BY <1>1, <1>2, <1>3 DEF At, CallRecords
<1>4. CASE CallBackend(g)
  BY <1>1, <1>2, <1>4 DEF CallBackend, CallOps
<1>5. CASE AccountStep(g) \/ RateStep(g) \/ SendStep(g) \/ CreateRow(g)
  BY <1>2, <1>5, StepPlaces DEF None
<1>. QED
  BY <1>2, <1>3, <1>4, <1>5, CallMoves DEF NoCall, None

\* What becomes of a person's role in a step.
LEMMA RoleStep ==
  ASSUME TypeInv, [Next]_vars, NEW p \in People
  PROVE  \/ users'[p] = users[p]
         \/ users[p] = NoRow /\ users'[p] = NewRole(p)
         \/ users'[p] \in Roles /\ \E h \in Slots : At(h, "write") /\ call[h].who = p
         \/ users[p] # NoRow /\ users'[p] = "ADMIN"
<1>0. users \in [People -> UserRole \cup {NoRow}]
  BY DEF TypeInv
<1>1. CASE UNCHANGED users
  BY <1>1
<1>2. CASE \E h \in Slots : UpsertInsert(h)
  BY <1>0, <1>2 DEF UpsertInsert, RowTaken
<1>3. CASE \E h \in Slots : SetRoleWrite(h)
  <2>1. PICK h \in Slots : SetRoleWrite(h)
    BY <1>3
  <2>2. At(h, "write") /\ call[h].role \in Roles
    BY <2>1 DEF SetRoleWrite, TypeInv, CallsOK, CallReady, At, None
  <2>. QED
    BY <1>0, <2>1, <2>2 DEF SetRoleWrite
<1>4. CASE \E q \in Promotable : Promote(q)
  BY <1>0, <1>4 DEF Promote
<1>. QED
  BY <1>1, <1>2, <1>3, <1>4, UsersMove

LEMMA InitRole == Init => RoleInv
<1> SUFFICES ASSUME Init PROVE RoleInv
  OBVIOUS
<1>1. \A p \in Bootstrap : users[p] \in {NoRow, "ADMIN"}
  BY BeginningsAssumption, BootstrapAssumption DEF Init
<1>2. \A h \in Slots : ~ At(h, "write")
  BY DEF Init, BackendInit, CallsInit, At, NoCall, None
<1>. QED
  BY <1>1, <1>2 DEF RoleInv, BootstrapAdminStays

LEMMA NextRole == TypeInv /\ RoleInv /\ [Next]_vars => RoleInv'
<1> SUFFICES ASSUME TypeInv, RoleInv, [Next]_vars PROVE RoleInv'
  OBVIOUS
<1>1. ASSUME NEW p \in Bootstrap
      PROVE  users'[p] \in {NoRow, "ADMIN"}
  <2>1. p \in People /\ users[p] \in {NoRow, "ADMIN"}
    BY <1>1, BootstrapAssumption DEF RoleInv, BootstrapAdminStays
  <2>2. \A h \in Slots : At(h, "write") => call[h].who # p
    BY <1>1 DEF RoleInv
  <2>. QED
    BY <1>1, <2>1, <2>2, RoleStep DEF NewRole
<1>2. ASSUME NEW g \in Slots, At(g, "write")'
      PROVE  call'[g].who \notin Bootstrap /\ users'[call'[g].who] # NoRow
  <2> DEFINE p == call'[g].who
  <2>1. p \in People
    BY <1>2, NextType DEF TypeInv, CallsOK, CallReady, At, None
  <2>2. p \notin Bootstrap /\ users[p] # NoRow
    BY <1>2, ToWrite DEF RoleInv, BootstrapAdminStays, MayChoose
  <2>3. users'[p] # NoRow
    BY <2>1, <2>2, RoleStep DEF Roles, NoRow
  <2>. QED
    BY <2>2, <2>3
<1>. QED
  BY <1>1, <1>2 DEF RoleInv, BootstrapAdminStays

LEMMA RoleInvariant == Spec => [](TypeInv /\ RoleInv)
BY InitType, InitRole, NextType, NextRole, PTL DEF Spec

\* Whoever races to register, chooses roles or is promoted: the row of the
\* person with TELEGRAM_ADMIN_CHAT_ID is an admin's from its insert on.
THEOREM BootstrapStaysAdmin == Spec => []BootstrapAdminStays
BY RoleInvariant, PTL DEF RoleInv

\* No interleaving of registrations, choices and promotions makes a row
\* disappear or a chosen role UNSET again.
THEOREM RolesStay == Spec => RoleNeverFallsBack
<1>1. TypeInv /\ RoleInv /\ [Next]_vars =>
        [\A p \in People :
           /\ users[p] # NoRow => users'[p] # NoRow
           /\ users[p] \in Roles \cup {"ADMIN"} => users'[p] # "UNSET"]_vars
  <2> SUFFICES ASSUME TypeInv, RoleInv, [Next]_vars, NEW p \in People
               PROVE  /\ users[p] # NoRow => users'[p] # NoRow
                      /\ users[p] \in Roles \cup {"ADMIN"} => users'[p] # "UNSET"
    OBVIOUS
  <2>. QED
    BY RoleStep DEF NewRole, Roles, NoRow
<1>. QED
  BY <1>1, RoleInvariant, PTL DEF Spec, RoleNeverFallsBack

\* An admin is only demoted by a choice of role that the backend had begun to
\* serve when the person was no admin yet.
THEOREM DemotionIsStale == Spec => OnlyStaleChoiceDemotes
<1>1. TypeInv /\ [Next]_vars =>
        [\A p \in People :
           users[p] = "ADMIN" /\ users'[p] # "ADMIN" =>
             \E h \in Slots : At(h, "write") /\ call[h].who = p /\ call[h].seen # "ADMIN"]_vars
  <2> SUFFICES ASSUME TypeInv, [Next]_vars, NEW p \in People,
                      users[p] = "ADMIN", users'[p] # "ADMIN"
               PROVE  \E h \in Slots :
                        At(h, "write") /\ call[h].who = p /\ call[h].seen # "ADMIN"
    OBVIOUS
  <2>1. PICK h \in Slots : At(h, "write") /\ call[h].who = p
    BY RoleStep DEF NoRow
  <2>2. call[h].seen # "ADMIN"
    BY <2>1 DEF TypeInv, CallsOK, CallReady, At, None, Roles
  <2>. QED
    BY <2>1, <2>2
<1>. QED
  BY <1>1, TypeInvariant, PTL DEF Spec, OnlyStaleChoiceDemotes

-----------------------------------------------------------------------------
(* Messages *)

\* The record of a message changes when its request sends, or makes a new one.
LEMMA SendsMove ==
  ASSUME [Next]_vars
  PROVE  UNCHANGED sends \/ \E h \in Slots : SendStep(h) \/ CreateRow(h)
<1>1. ASSUME NEW h \in Slots, BotStep(h)
      PROVE  UNCHANGED sends
  BY <1>1 DEF BotStep, AwaitStep, Decide, CallBackend, HearAnswer, backendVars
<1>2. ASSUME NEW h \in Slots, BackendStep(h)
      PROVE  UNCHANGED sends \/ SendStep(h) \/ CreateRow(h)
  BY <1>2 DEF BackendStep, CreateDone, backendVars
<1>3. ASSUME NEW h \in Slots, Fault(h) \/ Arrive(h)
      PROVE  UNCHANGED sends
  BY <1>3 DEF Fault, HandlerDies, BackendDies, Arrive, StartCommand, Text, Press, Handle,
              backendVars
<1>4. CASE Operator \/ Time \/ UNCHANGED vars
  BY <1>4 DEF Operator, Time, vars, backendVars
<1>. QED
  BY <1>1, <1>2, <1>3, <1>4 DEF Next, Work

LEMMA NextCopies == TypeInv /\ CopiesAccountedFor /\ [Next]_vars => CopiesAccountedFor'
<1> SUFFICES ASSUME TypeInv, CopiesAccountedFor, [Next]_vars PROVE CopiesAccountedFor'
  OBVIOUS
<1> DEFINE Fine(s) == s.copies <= s.lost + 1 /\ (s.result = "true" => s.copies = s.lost + 1)
<1>1. sends \in [Slots -> Sends] /\ \A h \in Slots : Fine(sends[h])
  BY DEF TypeInv, SendsOK, CopiesAccountedFor
<1>2. CASE UNCHANGED sends
  BY <1>2 DEF CopiesAccountedFor
<1>3. ASSUME NEW h \in Slots, SendStep(h)
      PROVE  CopiesAccountedFor'
  <2>1. At(h, "send") /\ sends[h] \in Sends
    BY <1>1, <1>3 DEF SendStep, Accepted, Rejected, Undelivered, AnswerLost, ProtocolBroken
  <2>2. sends[h].result = "trying" /\ sends[h].copies = sends[h].lost /\ sends[h].copies \in Nat
    BY <2>1, AttemptsAssumption DEF TypeInv, SendsOK, SendReady, Sends
  <2>3. \A g \in Slots \ {h} : sends'[g] = sends[g]
    BY <1>1, <1>3 DEF SendStep, Accepted, Rejected, Undelivered, AnswerLost, ProtocolBroken,
                      Retry, Return
  <2>4. Fine(sends'[h])
    <3>1. CASE Accepted(h)
      BY <1>1, <2>1, <2>2, <3>1 DEF Accepted, Return, Sends
    <3>2. CASE Rejected(h) \/ ProtocolBroken(h)
      BY <1>1, <2>1, <2>2, <3>2 DEF Rejected, ProtocolBroken, Return, Sends
    <3>3. CASE Undelivered(h)
      BY <1>1, <2>1, <2>2, <3>3 DEF Undelivered, Retry, Return, Sends
    <3>4. CASE AnswerLost(h)
      <4> DEFINE s == [sends[h] EXCEPT !.copies = @ + 1, !.lost = @ + 1]
                 t == [s EXCEPT !.result = "false"]
                 r == [s EXCEPT !.attempts = @ + 1]
      <4>1. s.copies = s.lost /\ s.copies \in Nat /\ s.result = "trying"
        BY <2>1, <2>2 DEF Sends
      <4>2. Fine(t) /\ Fine(r)
        BY <2>1, <4>1 DEF Sends
      <4>3. sends' = [sends EXCEPT ![h] = t] \/ sends' = [sends EXCEPT ![h] = r]
        BY <3>4 DEF AnswerLost, Retry, Return
      <4>. QED
        BY <1>1, <4>2, <4>3
    <3>. QED
      BY <1>3, <3>1, <3>2, <3>3, <3>4 DEF SendStep
  <2>. QED
    BY <1>1, <2>3, <2>4 DEF CopiesAccountedFor
<1>4. ASSUME NEW h \in Slots, CreateRow(h)
      PROVE  CopiesAccountedFor'
  <2>1. UNCHANGED sends \/ sends' = [sends EXCEPT ![h] = NewSend]
    BY <1>4 DEF CreateRow
  <2>2. Fine(NewSend)
    BY DEF NewSend
  <2>. QED
    BY <1>1, <2>1, <2>2 DEF CopiesAccountedFor
<1>. QED
  BY <1>2, <1>3, <1>4, SendsMove

\* Copies of a message are explained by lost answers, however many attempts are
\* configured, and True is only returned for a message that is in the chat.
THEOREM CopiesExplained == Spec => []CopiesAccountedFor
<1>1. Init => CopiesAccountedFor
  BY DEF Init, BackendInit, DeliveryInit, NewSend, CopiesAccountedFor
<1>. QED
  BY <1>1, TypeInvariant, NextCopies, PTL DEF Spec

-----------------------------------------------------------------------------
(* The extraction limit *)

\* The present window ends after the present moment, and within its length.
LEMMA EndsNow ==
  ASSUME clock \in Nat
  PROVE  /\ WindowOf(clock) \in Nat
         /\ clock < Ends(WindowOf(clock))
         /\ Ends(WindowOf(clock)) <= clock + Window
<1> DEFINE q == clock \div Window
<1>1. q \in Nat /\ q * Window <= clock /\ clock < (q + 1) * Window
  BY Windows, RateAssumption
<1>2. (q + 1) * Window = q * Window + Window
  BY <1>1, RateAssumption, SMTT(20)
<1>3. q * Window \in Nat
  BY <1>1, RateAssumption, SMTT(20)
<1>. QED
  BY <1>1, <1>2, <1>3, RateAssumption DEF WindowOf, Ends

LEMMA EndsNat ==
  ASSUME NEW b \in Nat
  PROVE  Ends(b) \in Nat
BY RateAssumption, SMTT(20) DEF Ends

\* A step of somebody's request to extract, or one that leaves the counters, and
\* the requests that count, alone.
LEMMA CountsMove ==
  ASSUME TypeInv, [Next]_vars
  PROVE  \/ \E h \in Slots : RateStep(h) /\ \A g \in Slots \ {h} : call'[g] = call[g]
         \/ /\ UNCHANGED <<counters, admitted>>
            /\ clock' = clock \/ clock' = clock + 1
            /\ \A g \in Slots : Counting(g)' =>
                 /\ call'[g].at = call[g].at /\ call'[g].who = call[g].who
                 /\ call'[g].bucket = call[g].bucket
<1>0. CallsOK /\ call \in [Slots -> CallRecords]
  BY DEF TypeInv, CallsOK
<1>1. ASSUME NEW h \in Slots, RateStep(h)
      PROVE  \A g \in Slots \ {h} : call'[g] = call[g]
  BY <1>0, <1>1 DEF RateStep, Stamp, Count, SetExpiry, Extract, Judge, GoOn, Answer
<1>2. CASE \E h \in Slots : RateStep(h)
  BY <1>1, <1>2
<1>3. CASE ~ \E h \in Slots : RateStep(h)
  <2>1. UNCHANGED <<counters, admitted>> /\ (clock' = clock \/ clock' = clock + 1)
    <3>1. ASSUME NEW h \in Slots, BotStep(h)
          PROVE  UNCHANGED limitVars
      BY <3>1 DEF BotStep, AwaitStep, Decide, CallBackend, HearAnswer, backendVars
    <3>2. ASSUME NEW h \in Slots, BackendStep(h)
          PROVE  UNCHANGED limitVars
      BY <1>3, <3>2 DEF BackendStep, CreateRow, CreateDone, backendVars
    <3>3. ASSUME NEW h \in Slots, Fault(h) \/ Arrive(h)
          PROVE  UNCHANGED limitVars
      BY <3>3 DEF Fault, HandlerDies, BackendDies, Arrive, StartCommand, Text, Press, Handle,
                  backendVars
    <3>4. CASE Time
      BY <3>4 DEF Time, Tick
    <3>5. CASE Operator \/ UNCHANGED vars
      BY <3>5 DEF Operator, vars, backendVars, limitVars
    <3>. QED
      BY <3>1, <3>2, <3>3, <3>4, <3>5 DEF Next, Work, limitVars
  <2>2. ASSUME NEW g \in Slots, Counting(g)'
        PROVE  /\ call'[g].at = call[g].at /\ call'[g].who = call[g].who
               /\ call'[g].bucket = call[g].bucket
    <3>1. call'[g].at \in {"incr", "expire"} /\ call[g] \in CallRecords
      BY <1>0, <2>2 DEF Counting, At
    <3>2. CASE call'[g] = call[g] \/ call'[g] = [call[g] EXCEPT !.heard = FALSE]
      BY <3>1, <3>2 DEF CallRecords
    <3>3. CASE CallBackend(g)
      BY <1>0, <3>1, <3>3 DEF CallBackend, CallOps
    <3>4. CASE AccountStep(g) \/ SendStep(g) \/ CreateRow(g)
      BY <3>1, <3>4, StepPlaces DEF None
    <3>5. CASE call'[g] = NoCall \/ call'[g].at = "answered"
      BY <3>1, <3>5 DEF NoCall, None
    <3>. QED
      BY <1>3, <3>2, <3>3, <3>4, <3>5, CallMoves
  <2>. QED
    BY <2>1, <2>2
<1>. QED
  BY <1>2, <1>3

LEMMA InitLimit == Init => LimitInv
<1> SUFFICES ASSUME Init PROVE LimitInv
  OBVIOUS
<1>1. \A h \in Slots : ~ Counting(h) /\ ~ At(h, "expire")
  BY DEF Init, BackendInit, CallsInit, NoCall, Counting, At, None
<1>2. \A k \in Keys : admitted[k] = 0 /\ counters[k].count = 0 /\ counters[k].expires = Never
  BY DEF Init, BackendInit, RateInit
<1>. QED
  BY <1>1, <1>2, RateAssumption DEF LimitInv, WithinLimit, KeyFine, Holds

\* Time passes, and somebody does something else.
LEMMA QuietLimit ==
  ASSUME TypeInv, TypeInv', LimitInv,
         UNCHANGED <<counters, admitted>>, clock' = clock \/ clock' = clock + 1,
         \A g \in Slots : Counting(g)' =>
           /\ call'[g].at = call[g].at /\ call'[g].who = call[g].who
           /\ call'[g].bucket = call[g].bucket
  PROVE  LimitInv'
<1>1. WithinLimit'
  BY DEF LimitInv, WithinLimit
<1>2. clock \in Nat /\ clock' \in Nat /\ clock <= clock'
  BY RateAssumption DEF TypeInv, LimitsOK
<1>3. ASSUME NEW h \in Slots, Counting(h)'
      PROVE  (Ends(call[h].bucket) <= clock + Window)'
  <2>1. Counting(h) /\ call[h].bucket \in Nat
    BY <1>3 DEF Counting, At, TypeInv, CallsOK, CallRecords
  <2>2. Ends(call[h].bucket) <= clock + Window /\ Ends(call[h].bucket) \in Nat
    BY <2>1, EndsNat DEF LimitInv
  <2>. QED
    BY <1>2, <1>3, <2>2, RateAssumption DEF Ends
<1>4. ASSUME NEW k \in Keys
      PROVE  KeyFine(k)'
  <2>1. \A h \in Slots : Holds(h, k)' => Holds(h, k)
    BY DEF Holds, Counting, At
  <2>2. k[2] \in Nat /\ Ends(k[2]) \in Nat
    BY EndsNat, RateAssumption DEF Keys
  <2>3. clock' < Ends(k[2]) => clock < Ends(k[2])
    BY <1>2, <2>2
  <2>4. KeyFine(k) /\ Ends(k[2])' = Ends(k[2]) /\ Never' = Never
    BY DEF LimitInv, Ends, Never
  <2>. QED
    BY <2>1, <2>3, <2>4 DEF KeyFine
<1>. QED
  BY <1>1, <1>3, <1>4 DEF LimitInv

\* What a request does when it is judged with the count of its window.
LEMMA JudgeEffect ==
  ASSUME TypeInv, NEW h \in Slots, NEW k \in Keys, NEW n \in Nat, Judge(h, k, n)
  PROVE  /\ call'[h].at \in {None, "answered", "ai"}
         /\ \/ UNCHANGED admitted
            \/ /\ n <= Limit /\ k[2] = WindowOf(clock)
               /\ admitted' = [admitted EXCEPT ![k] = @ + 1]
<1>1. CallsOK /\ call[h] \in CallRecords
  BY DEF TypeInv, CallsOK
<1>2. CASE n > Limit
  BY <1>1, <1>2, AnswerAt DEF Judge
<1>3. CASE ~ n > Limit
  <2>1. n <= Limit
    BY <1>3, RateAssumption
  <2>2. call'[h].at = "ai"
    BY <1>1, <1>3, GoOnAt DEF Judge
  <2>. QED
    BY <1>3, <2>1, <2>2 DEF Judge
<1>. QED
  BY <1>2, <1>3

\* INCR.
LEMMA CountLimit ==
  ASSUME TypeInv, TypeInv', LimitInv, NEW h \in Slots, Count(h),
         NEW k \in Keys, k = <<call[h].who, call[h].bucket>>,
         NEW n, n = Incr(k),
         \A g \in Slots \ {h} : call'[g] = call[g]
  PROVE  LimitInv'
<1>1. k[2] = call[h].bucket /\ call[h].bucket \in Nat /\ clock \in Nat
  BY RateAssumption DEF TypeInv, CallsOK, CallRecords, LimitsOK
<1>2. /\ counters \in [Keys -> [count : Nat, expires : Nat]]
      /\ admitted \in [Keys -> Nat] /\ admitted' \in [Keys -> Nat]
  BY DEF TypeInv, LimitsOK
<1>3. n \in Nat \ {0} /\ At(h, "incr") /\ clock' = clock
  BY <1>1, <1>2 DEF Count, Incr, Value
<1>4. counters' = [counters EXCEPT ![k] =
                     [count |-> n, expires |-> IF n = 1 THEN Never ELSE @.expires]]
  BY DEF Count
<1>5. KeyFine(k) /\ Never \in Nat /\ Never > clock
  BY <1>1, RateAssumption DEF LimitInv, Never, TypeInv, LimitsOK
<1>6. Ends(k[2]) \in Nat
  BY <1>1, EndsNat
<1>7. clock < Ends(k[2]) => n = counters[k].count + 1 /\ admitted[k] < n
  BY <1>1, <1>2, <1>5, <1>6 DEF KeyFine, Incr, Value
<1>8. \/ n = 1 /\ GoOn(h, call[h], "expire") /\ UNCHANGED admitted
      \/ n # 1 /\ Judge(h, k, n)
  BY DEF Count
<1>9. /\ n = 1 => call'[h] = [call[h] EXCEPT !.at = "expire"] /\ UNCHANGED admitted
      /\ n # 1 => ~ Counting(h)'
      /\ \/ UNCHANGED admitted
         \/ /\ n <= Limit /\ k[2] = WindowOf(clock) /\ n # 1
            /\ admitted' = [admitted EXCEPT ![k] = @ + 1]
  BY <1>1, <1>3, <1>8, JudgeEffect, GoOnAt DEF TypeInv, CallsOK, Counting, At, None
<1>10. \A l \in Keys \ {k} : counters'[l] = counters[l] /\ admitted'[l] = admitted[l]
  BY <1>2, <1>4, <1>9
<1>11. counters'[k].count = n
       /\ counters'[k].expires = IF n = 1 THEN Never ELSE counters[k].expires
  BY <1>1, <1>2, <1>4
<1>12. \/ admitted'[k] = admitted[k]
       \/ n <= Limit /\ clock < Ends(k[2]) /\ n # 1 /\ admitted'[k] = admitted[k] + 1
  <2>1. k[2] = WindowOf(clock) => clock < Ends(k[2])
    BY <1>1, EndsNow
  <2>2. CASE UNCHANGED admitted
    BY <2>2
  <2>3. CASE /\ n <= Limit /\ k[2] = WindowOf(clock) /\ n # 1
             /\ admitted' = [admitted EXCEPT ![k] = @ + 1]
    <3>1. admitted'[k] = admitted[k] + 1
      BY <1>2, <2>3
    <3>. QED
      BY <2>1, <2>3, <3>1
  <2>. QED
    BY <1>9, <2>2, <2>3
<1>13. ASSUME NEW l \in Keys
       PROVE  admitted'[l] <= Limit
  <2>1. admitted[l] <= Limit /\ admitted[l] \in Nat
    BY <1>2 DEF LimitInv, WithinLimit
  <2>2. CASE l # k
    BY <1>10, <2>1, <2>2
  <2>3. CASE l = k
    <3>1. CASE admitted'[k] = admitted[k]
      BY <2>1, <2>3, <3>1
    <3>2. CASE n <= Limit /\ clock < Ends(k[2]) /\ admitted'[k] = admitted[k] + 1
      BY <1>3, <1>7, <2>1, <2>3, <3>2, RateAssumption
    <3>. QED
      BY <1>12, <3>1, <3>2
  <2>. QED
    BY <2>2, <2>3
<1>14. ASSUME NEW g \in Slots, Counting(g)'
       PROVE  (Ends(call[g].bucket) <= clock + Window)'
  <2>1. call'[g].bucket = call[g].bucket /\ Counting(g)
    BY <1>1, <1>3, <1>9, <1>14 DEF Counting, At, TypeInv, CallsOK, CallRecords
  <2>. QED
    BY <1>3, <2>1 DEF LimitInv, Ends
<1>15. ASSUME NEW l \in Keys, l # k
       PROVE  KeyFine(l)'
  <2>1. \A g \in Slots : Holds(g, l)' => Holds(g, l)
    <3>1. ASSUME Holds(h, l)'
          PROVE  FALSE
      <4>1. n = 1 /\ call'[h].who = call[h].who /\ call'[h].bucket = call[h].bucket
        BY <1>1, <1>3, <1>9, <3>1 DEF Holds, Counting, At, TypeInv, CallsOK, CallRecords
      <4>. QED
        BY <1>15, <3>1, <4>1 DEF Holds
    <3>. QED
      BY <3>1 DEF Holds, At
  <2>2. KeyFine(l)
    BY DEF LimitInv
  <2>. QED
    BY <1>3, <1>10, <1>15, <2>1, <2>2 DEF KeyFine, Ends, Never
<1>16. KeyFine(k)'
  <2>1. counters'[k].expires = Never \/ counters'[k].expires >= Ends(k[2])
    BY <1>5, <1>11 DEF KeyFine
  <2>2. ASSUME clock < Ends(k[2])
        PROVE  /\ admitted'[k] <= n
               /\ \A f, g \in Slots : Holds(f, k)' /\ Holds(g, k)' => f = g
               /\ \A g \in Slots : Holds(g, k)' =>
                    admitted'[k] < n /\ (Limit = 0 \/ admitted'[k] < Limit)
    <3>1. CASE n = 1
      <4>1. counters[k].count = 0 /\ admitted[k] = 0 /\ admitted'[k] = 0
        BY <1>1, <1>2, <1>7, <1>9, <2>2, <3>1
      <4>2. \A g \in Slots : ~ Holds(g, k)
        BY <1>1, <1>2, <1>5, <2>2, <4>1 DEF KeyFine
      <4>3. \A g \in Slots : Holds(g, k)' => g = h
        BY <4>2 DEF Holds, At
      <4>4. admitted'[k] <= n /\ admitted'[k] < n /\ (Limit = 0 \/ admitted'[k] < Limit)
        BY <3>1, <4>1, RateAssumption
      <4>. QED
        BY <4>3, <4>4
    <3>2. CASE n # 1
      <4>1. \A g \in Slots : Holds(g, k)' => Holds(g, k)
        BY <1>9, <3>2 DEF Holds, At, Counting
      <4>2. KeyFine(k) /\ n = counters[k].count + 1 /\ admitted[k] \in Nat
            /\ counters[k].count \in Nat
        BY <1>1, <1>2, <1>5, <1>7, <2>2
      <4>3. \A g \in Slots : Holds(g, k) =>
              admitted[k] < counters[k].count /\ (Limit = 0 \/ admitted[k] < Limit)
        BY <2>2, <4>2 DEF KeyFine
      <4>4. \A f, g \in Slots : Holds(f, k) /\ Holds(g, k) => f = g
        BY <2>2, <4>2 DEF KeyFine
      <4>5. admitted'[k] <= n
        BY <1>7, <1>12, <2>2, <4>2, <1>3
      <4>6. ASSUME NEW g \in Slots, Holds(g, k)'
            PROVE  admitted'[k] < n /\ (Limit = 0 \/ admitted'[k] < Limit)
        BY <1>3, <1>12, <4>1, <4>2, <4>3, <4>6, RateAssumption
      <4>. QED
        BY <4>1, <4>4, <4>5, <4>6
    <3>. QED
      BY <3>1, <3>2
  <2>. QED
    BY <1>3, <1>11, <2>1, <2>2 DEF KeyFine, Ends, Never
<1>. QED
  BY <1>13, <1>14, <1>15, <1>16 DEF LimitInv, WithinLimit

\* EXPIRE, and the first extraction of a window.
LEMMA ExpiryLimit ==
  ASSUME TypeInv, TypeInv', LimitInv, NEW h \in Slots, SetExpiry(h),
         NEW k \in Keys, k = <<call[h].who, call[h].bucket>>,
         \A g \in Slots \ {h} : call'[g] = call[g]
  PROVE  LimitInv'
<1>1. k[2] = call[h].bucket /\ call[h].bucket \in Nat /\ clock \in Nat
  BY RateAssumption DEF TypeInv, CallsOK, CallRecords, LimitsOK
<1>2. /\ counters \in [Keys -> [count : Nat, expires : Nat]]
      /\ admitted \in [Keys -> Nat] /\ admitted' \in [Keys -> Nat]
  BY DEF TypeInv, LimitsOK
<1>3. /\ At(h, "expire") /\ Holds(h, k) /\ clock' = clock /\ Judge(h, k, 1)
      /\ counters' = [counters EXCEPT ![k].expires = clock + Window]
  BY DEF SetExpiry, Holds, Expiry
<1>4. Ends(k[2]) <= clock + Window /\ Ends(k[2]) \in Nat /\ KeyFine(k)
  BY <1>1, <1>3, EndsNat DEF LimitInv, Counting
<1>5. /\ ~ Counting(h)'
      /\ \/ UNCHANGED admitted
         \/ /\ 1 <= Limit /\ k[2] = WindowOf(clock)
            /\ admitted' = [admitted EXCEPT ![k] = @ + 1]
  BY <1>1, <1>3, JudgeEffect DEF Counting, At, None
<1>6. \A l \in Keys \ {k} : counters'[l] = counters[l] /\ admitted'[l] = admitted[l]
  BY <1>2, <1>3, <1>5
<1>7. counters'[k].count = counters[k].count /\ counters'[k].expires = clock + Window
  BY <1>1, <1>2, <1>3
<1>8. admitted'[k] = admitted[k]
      \/ /\ clock < Ends(k[2]) /\ admitted'[k] = admitted[k] + 1
         /\ admitted[k] < counters[k].count /\ admitted[k] < Limit
  <2>1. CASE UNCHANGED admitted
    BY <2>1
  <2>2. CASE 1 <= Limit /\ k[2] = WindowOf(clock) /\ admitted' = [admitted EXCEPT ![k] = @ + 1]
    <3>1. clock < Ends(k[2])
      BY <1>1, <2>2, EndsNow
    <3>2. admitted[k] < counters[k].count /\ (Limit = 0 \/ admitted[k] < Limit)
      BY <1>3, <1>4, <3>1 DEF KeyFine
    <3>3. admitted[k] < Limit
      BY <2>2, <3>2, RateAssumption
    <3>4. admitted'[k] = admitted[k] + 1
      BY <1>2, <2>2
    <3>. QED
      BY <3>1, <3>2, <3>3, <3>4
  <2>. QED
    BY <1>5, <2>1, <2>2
<1>9. ASSUME NEW l \in Keys
      PROVE  admitted'[l] <= Limit
  <2>1. admitted[l] <= Limit /\ admitted[l] \in Nat
    BY <1>2 DEF LimitInv, WithinLimit
  <2>2. CASE l # k
    BY <1>6, <2>1, <2>2
  <2>3. CASE l = k
    BY <1>8, <2>1, <2>3, RateAssumption
  <2>. QED
    BY <2>2, <2>3
<1>10. \A g \in Slots : Counting(g)' => g # h /\ Counting(g) /\ call'[g] = call[g]
  BY <1>5 DEF Counting, At
<1>11. \A g \in Slots, l \in Keys : Holds(g, l)' => g # h /\ Holds(g, l)
  BY <1>10 DEF Holds, Counting, At
<1>12. ASSUME NEW g \in Slots, Counting(g)'
       PROVE  (Ends(call[g].bucket) <= clock + Window)'
  BY <1>3, <1>10, <1>12 DEF LimitInv, Ends
<1>13. ASSUME NEW l \in Keys, l # k
       PROVE  KeyFine(l)'
  <2>1. KeyFine(l)
    BY DEF LimitInv
  <2>. QED
    BY <1>3, <1>6, <1>11, <1>13, <2>1 DEF KeyFine, Ends, Never
<1>14. KeyFine(k)'
  <2>1. \A g \in Slots : clock < Ends(k[2]) => ~ Holds(g, k)'
    BY <1>3, <1>4, <1>11 DEF KeyFine
  <2>2. clock < Ends(k[2]) => admitted'[k] <= counters'[k].count
    BY <1>1, <1>2, <1>4, <1>7, <1>8 DEF KeyFine
  <2>. QED
    BY <1>1, <1>3, <1>4, <1>7, <2>1, <2>2 DEF KeyFine, Ends, Never
<1>. QED
  BY <1>9, <1>12, <1>13, <1>14 DEF LimitInv, WithinLimit

LEMMA NextLimit == TypeInv /\ TypeInv' /\ LimitInv /\ [Next]_vars => LimitInv'
<1> SUFFICES ASSUME TypeInv, TypeInv', LimitInv, [Next]_vars PROVE LimitInv'
  OBVIOUS
<1>1. ASSUME NEW h \in Slots, RateStep(h), \A g \in Slots \ {h} : call'[g] = call[g]
      PROVE  LimitInv'
  <2>1. CASE Count(h)
    <3>1. <<call[h].who, call[h].bucket>> \in Keys
      BY <2>1, KeyOf DEF Count
    <3>. QED
      BY <1>1, <2>1, <3>1, CountLimit
  <2>2. CASE SetExpiry(h)
    <3>1. <<call[h].who, call[h].bucket>> \in Keys
      BY <2>2, KeyOf DEF SetExpiry
    <3>. QED
      BY <1>1, <2>2, <3>1, ExpiryLimit
  <2>3. CASE Extract(h)
    <3>1. ~ Counting(h)' /\ UNCHANGED limitVars
      BY <2>3, AnswerAt DEF Extract, Counting, At, None, TypeInv
    <3>2. \A g \in Slots : Counting(g)' => call'[g] = call[g]
      BY <1>1, <3>1
    <3>. QED
      BY <3>1, <3>2, QuietLimit DEF limitVars
  <2>4. CASE Stamp(h)
    <3> DEFINE d == [call[h] EXCEPT !.bucket = WindowOf(clock)]
    <3>1. clock \in Nat /\ call[h] \in CallRecords /\ CallsOK
      BY RateAssumption DEF TypeInv, LimitsOK, CallsOK
    <3>2. d \in CallRecords /\ d.bucket = WindowOf(clock)
      BY <3>1, EndsNow DEF CallRecords
    <3>3. GoOn(h, d, "incr") /\ UNCHANGED limitVars
      BY <2>4 DEF Stamp
    <3> HIDE DEF d
    <3>4. call'[h] = [d EXCEPT !.at = "incr"]
      BY <3>1, <3>2, <3>3, GoOnAt
    <3>5. call'[h].at = "incr" /\ call'[h].bucket = WindowOf(clock)
      BY <3>2, <3>4 DEF CallRecords
    <3>6. \A g \in Slots, k \in Keys : Holds(g, k)' => Holds(g, k)
      BY <1>1, <3>5 DEF Holds, At
    <3>7. ASSUME NEW g \in Slots, Counting(g)'
          PROVE  (Ends(call[g].bucket) <= clock + Window)'
      <4>1. CASE g = h
        BY <3>1, <3>3, <3>5, <4>1, EndsNow DEF limitVars, Ends
      <4>2. CASE g # h
        BY <1>1, <3>3, <3>7, <4>2 DEF limitVars, LimitInv, Counting, At, Ends
      <4>. QED
        BY <4>1, <4>2
    <3>8. ASSUME NEW k \in Keys
          PROVE  KeyFine(k)'
      BY <3>3, <3>6 DEF LimitInv, KeyFine, limitVars, Ends, Never
    <3>. QED
      BY <3>3, <3>7, <3>8 DEF LimitInv, WithinLimit, limitVars
  <2>. QED
    BY <1>1, <2>1, <2>2, <2>3, <2>4 DEF RateStep
<1>. QED
  BY <1>1, CountsMove, QuietLimit

\* For any limit, any length of the window and any number of handlers that
\* count together, no window admits more than Limit extractions of one person.
THEOREM ExtractionLimitHolds == Spec => []WithinLimit
<1>1. LimitInv => WithinLimit
  BY DEF LimitInv
<1>. QED
  BY <1>1, TypeInvariant, InitLimit, NextLimit, PTL DEF Spec

-----------------------------------------------------------------------------
(* The Confirm button: what a step does to a handler *)

Quiet(g) == bot'[g] = bot[g] /\ call'[g] = call[g]

\* The handler of slot g goes on for the same update and the same button.
Kin(g) ==
  /\ bot'[g].on = bot[g].on
  /\ bot'[g].button = bot[g].button
  /\ bot'[g].update = bot[g].update

\* A step is the step of one slot, or it changes no handler and no request.
LEMMA SlotMoves ==
  ASSUME TypeInv, [Next]_vars, NEW g \in Slots
  PROVE  \/ Quiet(g)
         \/ AwaitStep(g) \/ Decide(g) \/ CallBackend(g) \/ HearAnswer(g)
         \/ HandlerDies(g) \/ Arrive(g)
         \/ (BackendStep(g) \/ BackendDies(g)) /\ bot'[g] = bot[g]
<1>0. call \in [Slots -> CallRecords] /\ bot \in [Slots -> Bots]
  BY DEF TypeInv, CallsOK, DialogueOK
<1>1. ASSUME NEW h \in Slots, h # g, BotStep(h)
      PROVE  Quiet(g)
  <2>1. bot'[g] = bot[g]
    BY <1>0, <1>1
    DEF BotStep, AwaitStep, SetState, GetData, SetData, Offer, Edit, Decide, DecideRole,
        DecideDestination, DecideTruckType, CallBackend, dialogueVars, HearAnswer,
        AfterUpsert, AfterSetRole, AfterGetUser, AfterExtract, AfterCreate, Go, Continue,
        Become, Raise
  <2>2. call'[g] = call[g]
    <3>1. CASE CallBackend(h)
      <4>1. \E r : call' = [call EXCEPT ![h] = r]
        BY <3>1 DEF CallBackend
      <4>. QED
        BY <1>0, <1>1, <4>1
    <3>2. CASE AwaitStep(h) \/ Decide(h) \/ HearAnswer(h)
      BY <1>0, <1>1, <3>2 DEF AwaitStep, Decide, HearAnswer, Hears
    <3>. QED
      BY <1>1, <3>1, <3>2 DEF BotStep
  <2>. QED
    BY <2>1, <2>2 DEF Quiet
<1>2. ASSUME NEW h \in Slots, h # g, BackendStep(h) \/ BackendDies(h), UNCHANGED dialogueVars
      PROVE  Quiet(g)
  BY <1>0, <1>2
  DEF Quiet, dialogueVars, BackendDies,
      BackendStep, AccountStep, UpsertProbe, UpsertInsert, UpsertConflict, SetRoleRead,
      SetRoleWrite, GetUser, RateStep, Stamp, Count, SetExpiry, Extract, Judge, SendStep,
      Accepted, Rejected, Undelivered, AnswerLost, ProtocolBroken, Retry, Return,
      CreateRow, CreateDone, GoOn, Answer
<1>3. ASSUME NEW h \in Slots, h # g, HandlerDies(h) \/ Arrive(h)
      PROVE  Quiet(g)
  BY <1>0, <1>3
  DEF Quiet, HandlerDies, Raise, Arrive, StartCommand, Text, Press, Handle
<1>4. CASE Operator \/ Time \/ UNCHANGED vars
  BY <1>4 DEF Quiet, Operator, Promote, Time, Tick, vars, dialogueVars
<1>5. ASSUME NEW h \in Slots, h # g, Arrive(h) \/ Work(h) \/ Fault(h)
      PROVE  Quiet(g)
  BY <1>1, <1>2, <1>3, <1>5 DEF Work, Fault
<1>6. CASE Arrive(g) \/ Work(g) \/ Fault(g)
  BY <1>6 DEF Work, Fault, BotStep, dialogueVars
<1>. QED
  BY <1>4, <1>5, <1>6 DEF Next

\* An await: the handler goes on with the rest of its list, or has ended.
LEMMA AwaitMove ==
  ASSUME DialogueOK, NEW h \in Slots, AwaitStep(h)
  PROVE  /\ bot[h].todo # <<>> /\ bot[h].todo[1] \notin CallOps /\ UNCHANGED <<call, saves>>
         /\ \/ bot'[h] = NoBot
            \/ /\ Kin(h)
               /\ bot'[h].todo = Tail(bot[h].todo) /\ bot'[h].todo # <<>>
<1>1. bot[h].todo # <<>>
  BY DEF AwaitStep, SetState, GetData, SetData, Offer, Edit, Does
<1>0. bot[h].todo[1] \notin CallOps
  <2>1. Head(bot[h].todo) \notin CallOps
    BY DEF AwaitStep, SetState, GetData, SetData, Offer, Edit, Does, States, TextStates, CallOps
  <2>. QED
    BY <1>1, <2>1, TailOf, AtWork
<1>2. bot \in [Slots -> Bots] /\ bot[h] \in Bots
  BY <1>1, AtWork DEF DialogueOK
<1> DEFINE Goes == \/ bot'[h] = NoBot
                   \/ /\ Kin(h)
                      /\ bot'[h].todo = Tail(bot[h].todo) /\ bot'[h].todo # <<>>
<1>3. ASSUME NEW b \in Bots, Continue(h, b), b.on = bot[h].on, b.button = bot[h].button,
             b.update = bot[h].update, b.todo = bot[h].todo
      PROVE  Goes
  <2> DEFINE d == [b EXCEPT !.todo = Tail(b.todo)]
  <2>1. d.on = b.on /\ d.button = b.button /\ d.update = b.update /\ d.todo = Tail(b.todo)
    BY DEF Bots
  <2>2. (bot'[h] = d /\ d.todo # <<>>) \/ bot'[h] = NoBot
    BY <1>2, <1>3 DEF Continue, Become
  <2>. HIDE DEF d
  <2>. QED
    BY <1>3, <2>1, <2>2 DEF Kin
<1>4. ASSUME Continue(h, bot[h])
      PROVE  Goes
  BY <1>2, <1>3, <1>4
<1>5. ASSUME GetData(h)
      PROVE  Goes
  <2> DEFINE x == data[bot[h].who]
             d == [bot[h] EXCEPT !.copy = x]
             e == [bot[h] EXCEPT !.patch.role = x.role]
  <2>1. x \in Data
    BY <1>1, AtWork DEF DialogueOK
  <2>2. d \in Bots /\ d.on = bot[h].on /\ d.button = bot[h].button
        /\ d.update = bot[h].update /\ d.todo = bot[h].todo
    BY <1>2, <2>1 DEF Bots
  <2>3. e \in Bots /\ e.on = bot[h].on /\ e.button = bot[h].button
        /\ e.update = bot[h].update /\ e.todo = bot[h].todo
    BY <1>2, <2>1 DEF Bots, Patches, Data
  <2>4. Continue(h, d) \/ Continue(h, e)
    BY <1>5 DEF GetData
  <2>. HIDE DEF d, e
  <2>. QED
    BY <1>3, <2>2, <2>3, <2>4
<1>6. ASSUME Raise(h)
      PROVE  Goes
  BY <1>2, <1>6 DEF Raise
<1>7. Continue(h, bot[h]) \/ GetData(h) \/ Raise(h)
  BY DEF AwaitStep, SetState, SetData, Offer, Edit
<1>. QED
  BY <1>0, <1>1, <1>4, <1>5, <1>6, <1>7 DEF AwaitStep, backendVars

\* A list of awaits that submits nothing, with a single offer.
Plain(todo) ==
  /\ todo \in Seq(Awaits)
  /\ OfferOnce(todo)
  /\ \A i \in DOMAIN todo : todo[i] # "create"

\* The lists that follow a decision or an answer.
LEMMA PlainLists ==
  /\ \A x \in {"awaiting_request", "roles", "phone", "edit", "extract", "get_user"} : Plain(<<x>>)
  /\ \A x \in {"truck_count", "truck_type"} : Plain(<<"get", "keep", x>>)
  /\ \A x \in {"destination", "current_city"} : Plain(<<"get", "put", x>>)
  /\ Plain(<<"get", "put", "show", "reviewing">>)
  /\ Plain(<<"get", "keep", "yes_no", "has_trip">>)
  /\ Plain(<<"get", "put", "edit", "name">>)
  /\ Plain(<<"get", "keep", "get", "put", "show", "reviewing">>)
<1> USE DEF Plain, OfferOnce, Keyboards, Awaits, CallOps, States, TextStates
<1>1. ASSUME NEW x \in {"awaiting_request", "roles", "phone", "edit", "extract", "get_user"}
      PROVE  Plain(<<x>>)
  OBVIOUS
<1>2. ASSUME NEW x \in {"truck_count", "truck_type"}
      PROVE  Plain(<<"get", "keep", x>>)
  OBVIOUS
<1>3. ASSUME NEW x \in {"destination", "current_city"}
      PROVE  Plain(<<"get", "put", x>>)
  OBVIOUS
<1>4. Plain(<<"get", "put", "show", "reviewing">>)
  OBVIOUS
<1>5. Plain(<<"get", "keep", "yes_no", "has_trip">>)
  OBVIOUS
<1>6. Plain(<<"get", "put", "edit", "name">>)
  OBVIOUS
<1>7. Plain(<<"get", "keep", "get", "put", "show", "reviewing">>)
  OBVIOUS
<1> HIDE DEF Plain
<1>. QED
  BY <1>1, <1>2, <1>3, <1>4, <1>5, <1>6, <1>7

\* A handler that goes on with a list of its own choice.
LEMMA GoKin ==
  ASSUME DialogueOK, NEW h \in Slots, bot[h].todo # <<>>,
         NEW todo, Plain(todo), NEW role, NEW patch,
         \/ Go(h, todo, patch)
         \/ Become(h, [bot[h] EXCEPT !.role = role, !.todo = todo])
  PROVE  bot'[h] = NoBot \/ (Kin(h) /\ bot'[h].todo = todo)
<1> DEFINE d == [bot[h] EXCEPT !.todo = todo, !.patch = patch]
           e == [bot[h] EXCEPT !.role = role, !.todo = todo]
<1>1. bot \in [Slots -> Bots] /\ bot[h] \in Bots
  BY AtWork DEF DialogueOK
<1>2. /\ d.on = bot[h].on /\ d.button = bot[h].button
      /\ d.update = bot[h].update /\ d.todo = todo
  BY <1>1 DEF Bots
<1>3. /\ e.on = bot[h].on /\ e.button = bot[h].button
      /\ e.update = bot[h].update /\ e.todo = todo
  BY <1>1 DEF Bots
<1>4. Become(h, d) \/ Become(h, e)
  BY DEF Go
<1> HIDE DEF d, e
<1>. QED
  BY <1>1, <1>2, <1>3, <1>4 DEF Become, Kin

LEMMA DecideMove ==
  ASSUME DialogueOK, NEW h \in Slots, Decide(h)
  PROVE  /\ bot[h].todo # <<>> /\ bot[h].todo[1] = "decide" /\ UNCHANGED <<call, saves, reply>>
         /\ bot'[h] = NoBot \/ (Kin(h) /\ Plain(bot'[h].todo))
<1>1. bot[h].todo # <<>> /\ bot[h].todo[1] = "decide"
  BY TailOf, AtWork DEF Decide, Does
<1> DEFINE Goes == bot'[h] = NoBot \/ (Kin(h) /\ Plain(bot'[h].todo))
<1>2. ASSUME DecideRole(h)
      PROVE  Goes
  <2> DEFINE r == bot[h].copy.role
             t(x) == <<x>>
  <2>1. Plain(t("extract")) /\ Plain(t("get_user"))
    BY PlainLists
  <2>2. \/ Become(h, [bot[h] EXCEPT !.role = r, !.todo = t("extract")])
        \/ Go(h, t("get_user"), NoPatch)
    BY <1>2 DEF DecideRole
  <2> HIDE DEF t, r
  <2>. QED
    BY <1>1, <2>1, <2>2, GoKin
<1>3. ASSUME DecideDestination(h)
      PROVE  Goes
  <2> DEFINE t(x) == <<"get", "keep", x>>
  <2>1. \A x \in {"truck_count", "truck_type"} : Plain(t(x))
    BY PlainLists
  <2>2. \E x \in {"truck_count", "truck_type"} : Go(h, t(x), NoPatch)
    BY <1>3 DEF DecideDestination
  <2> HIDE DEF t
  <2>. QED
    BY <1>1, <2>1, <2>2, GoKin
<1>4. ASSUME DecideTruckType(h)
      PROVE  Goes
  <2> DEFINE t == <<"get", "keep", "get", "put", "show", "reviewing">>
             v == <<"get", "keep", "yes_no", "has_trip">>
  <2>1. Plain(t) /\ Plain(v)
    BY PlainLists
  <2>2. Go(h, t, Parsed(bot[h].update, "SHIPPER")) \/ Go(h, v, NoPatch)
    BY <1>4 DEF DecideTruckType
  <2> HIDE DEF t, v
  <2>. QED
    BY <1>1, <2>1, <2>2, GoKin
<1>. QED
  BY <1>1, <1>2, <1>3, <1>4 DEF Decide, backendVars

\* After the answer to a submission the handler only waits for the next request.
LEMMA HearMove ==
  ASSUME DialogueOK, NEW h \in Slots, HearAnswer(h)
  PROVE  /\ bot[h].todo # <<>> /\ bot[h].todo[1] \in CallOps /\ UNCHANGED <<saves, reply>>
         /\ bot'[h] = NoBot \/ (Kin(h) /\ Plain(bot'[h].todo))
         /\ bot[h].todo[1] = "create" =>
              bot'[h] = NoBot \/ (Kin(h) /\ bot'[h].todo = <<"awaiting_request">>)
<1>1. PICK a \in Answers :
        \/ AfterUpsert(h, a) \/ AfterSetRole(h, a) \/ AfterGetUser(h, a)
        \/ AfterExtract(h, a) \/ AfterCreate(h, a)
  BY DEF HearAnswer
<1>2. bot[h].todo # <<>>
  BY <1>1 DEF AfterUpsert, AfterSetRole, AfterGetUser, AfterExtract, AfterCreate, Does
<1>3. bot[h].todo[1] = Head(bot[h].todo) /\ bot[h] \in Bots /\ bot \in [Slots -> Bots]
  BY <1>2, TailOf, AtWork DEF DialogueOK
<1> DEFINE Goes == bot'[h] = NoBot \/ (Kin(h) /\ Plain(bot'[h].todo))
<1>4. Raise(h) => bot'[h] = NoBot
  BY <1>3 DEF Raise
<1>5. ASSUME AfterUpsert(h, a)
      PROVE  Goes /\ Head(bot[h].todo) = "upsert"
  <2> DEFINE t(x) == <<x>>
  <2>1. \A x \in {"awaiting_request", "roles", "phone"} : Plain(t(x))
    BY PlainLists
  <2>2. Raise(h) \/ \E x \in {"awaiting_request", "roles", "phone"} : Go(h, t(x), NoPatch)
    BY <1>5 DEF AfterUpsert
  <2>3. Head(bot[h].todo) = "upsert"
    BY <1>5 DEF AfterUpsert, Does
  <2> HIDE DEF t
  <2>. QED
    BY <1>2, <1>4, <2>1, <2>2, <2>3, GoKin
<1>6. ASSUME AfterSetRole(h, a)
      PROVE  Goes /\ Head(bot[h].todo) = "set_role"
  <2> DEFINE t == <<"edit">>
             v == <<"get", "put", "edit", "name">>
             patch == [NoPatch EXCEPT !.role = bot[h].role]
  <2>1. Plain(t) /\ Plain(v)
    BY PlainLists
  <2>2. Go(h, t, NoPatch) \/ Go(h, v, patch)
    BY <1>6 DEF AfterSetRole
  <2>3. Head(bot[h].todo) = "set_role"
    BY <1>6 DEF AfterSetRole, Does
  <2> HIDE DEF t, v, patch
  <2>. QED
    BY <1>2, <2>1, <2>2, <2>3, GoKin
<1>7. ASSUME AfterGetUser(h, a)
      PROVE  Goes /\ Head(bot[h].todo) = "get_user"
  <2> DEFINE t == <<"extract">>
  <2>1. Plain(t)
    BY PlainLists
  <2>2. Raise(h) \/ Become(h, [bot[h] EXCEPT !.role = a, !.todo = t])
    BY <1>7 DEF AfterGetUser
  <2>3. Head(bot[h].todo) = "get_user"
    BY <1>7 DEF AfterGetUser, Does
  <2> HIDE DEF t
  <2>. QED
    BY <1>2, <1>4, <2>1, <2>2, <2>3, GoKin
<1>8. ASSUME AfterExtract(h, a)
      PROVE  Goes /\ Head(bot[h].todo) = "extract"
  <2> DEFINE kind == IF bot[h].role = "CARRIER" THEN "truck" ELSE "load"
             t == <<"get", "put", "show", "reviewing">>
             v(st) == <<"get", "put", st>>
             patch == [NoPatch EXCEPT !.entry = kind]
  <2>1. Plain(t) /\ \A st \in {"destination", "current_city"} : Plain(v(st))
    BY PlainLists
  <2>2. \/ Go(h, t, Parsed(bot[h].update, bot[h].role))
        \/ \E st \in {"destination", "current_city"} : Go(h, v(st), patch)
    BY <1>8 DEF AfterExtract
  <2>3. Head(bot[h].todo) = "extract"
    BY <1>8 DEF AfterExtract, Does
  <2> HIDE DEF t, v, patch
  <2>. QED
    BY <1>2, <2>1, <2>2, <2>3, GoKin
<1>9. ASSUME AfterCreate(h, a)
      PROVE  /\ bot'[h] = NoBot \/ (Kin(h) /\ bot'[h].todo = <<"awaiting_request">>)
             /\ Goes /\ Head(bot[h].todo) = "create"
  <2> DEFINE t == <<"awaiting_request">>
  <2>1. Plain(t)
    BY PlainLists
  <2>2. Go(h, t, NoPatch) /\ Head(bot[h].todo) = "create"
    BY <1>9 DEF AfterCreate, Does
  <2> HIDE DEF t
  <2>3. bot'[h] = NoBot \/ (Kin(h) /\ bot'[h].todo = t)
    BY <1>2, <2>1, <2>2, GoKin
  <2>. QED
    BY <2>1, <2>2, <2>3 DEF t
<1>10. Head(bot[h].todo) = "create" =>
         bot'[h] = NoBot \/ (Kin(h) /\ bot'[h].todo = <<"awaiting_request">>)
  BY <1>1, <1>5, <1>6, <1>7, <1>8, <1>9
<1>11. Goes /\ Head(bot[h].todo) \in CallOps
  BY <1>1, <1>5, <1>6, <1>7, <1>8, <1>9 DEF CallOps
<1>12. UNCHANGED <<saves, reply>>
  BY DEF HearAnswer, backendVars
<1>. QED
  BY <1>2, <1>3, <1>10, <1>11, <1>12

\* A request that goes on, or dies, is none of those that begin to submit; its
\* handler still hears it if it did before.
LEMMA RequestGoesOn ==
  ASSUME TypeInv, NEW h \in Slots, BackendStep(h) \/ BackendDies(h)
  PROVE  /\ call[h] # NoCall
         /\ call[h].heard => call'[h].heard
         /\ ~ At(h, "create")'
<1>0. CallsOK /\ call \in [Slots -> CallRecords] /\ call[h] \in CallRecords
  BY DEF TypeInv, CallsOK
<1>1. call[h] # NoCall
  BY DEF BackendStep, AccountStep, UpsertProbe, UpsertInsert, UpsertConflict, SetRoleRead,
         SetRoleWrite, GetUser, RateStep, Stamp, Count, SetExpiry, Extract, SendStep,
         Accepted, Rejected, Undelivered, AnswerLost, ProtocolBroken, CreateRow, CreateDone,
         BackendDies, Pending, At, NoCall, None
<1>2. ASSUME NEW a, Answer(h, a), call[h].heard
      PROVE  call'[h].heard
  BY <1>0, <1>2 DEF Answer, CallRecords
<1>3. ASSUME NEW d \in CallRecords, NEW p, GoOn(h, d, p), d.heard = call[h].heard
      PROVE  call'[h].heard = call[h].heard
  BY <1>0, <1>3 DEF GoOn, CallRecords
<1>4. ASSUME NEW p, GoOn(h, call[h], p)
      PROVE  call'[h].heard = call[h].heard
  BY <1>0, <1>3, <1>4
<1>5. ASSUME AccountStep(h), call[h].heard
      PROVE  call'[h].heard
  <2>1. CASE SetRoleRead(h)
    <3> DEFINE d == [call[h] EXCEPT !.seen = users[call[h].who]]
    <3>1. (\E a : Answer(h, a)) \/ GoOn(h, d, "write")
      BY <2>1 DEF SetRoleRead
    <3>2. call' = [call EXCEPT ![h] = [d EXCEPT !.at = "write"]] => call'[h].heard = call[h].heard
      BY <1>0 DEF CallRecords
    <3>. QED
      BY <1>2, <1>5, <3>1, <3>2 DEF GoOn
  <2>2. CASE ~ SetRoleRead(h)
    BY <1>2, <1>4, <1>5, <2>2
    DEF AccountStep, UpsertProbe, UpsertInsert, UpsertConflict, SetRoleWrite, GetUser
  <2>. QED
    BY <2>1, <2>2
<1>6. ASSUME RateStep(h), call[h].heard
      PROVE  call'[h].heard
  <2>1. CASE Stamp(h)
    <3> DEFINE d == [call[h] EXCEPT !.bucket = WindowOf(clock)]
    <3>1. call' = [call EXCEPT ![h] = [d EXCEPT !.at = "incr"]]
      BY <2>1 DEF Stamp, GoOn
    <3>2. [d EXCEPT !.at = "incr"].heard = call[h].heard
      BY <1>0 DEF CallRecords
    <3> HIDE DEF d
    <3>. QED
      BY <1>0, <1>6, <3>1, <3>2
  <2>2. CASE ~ Stamp(h)
    BY <1>2, <1>4, <1>6, <2>2 DEF RateStep, Count, SetExpiry, Extract, Judge
  <2>. QED
    BY <2>1, <2>2
<1>7. ASSUME SendStep(h), call[h].heard
      PROVE  call'[h].heard
  BY <1>2, <1>4, <1>7
  DEF SendStep, Accepted, Rejected, Undelivered, AnswerLost, ProtocolBroken, Retry, Return
<1>8. ASSUME CreateRow(h) \/ CreateDone(h) \/ BackendDies(h), call[h].heard
      PROVE  call'[h].heard
  BY <1>2, <1>4, <1>8 DEF CreateRow, CreateDone, BackendDies
<1>9. ~ At(h, "create")'
  <2>1. CASE CreateDone(h) \/ BackendDies(h)
    BY <1>0, <2>1, AnswerAt DEF CreateDone, BackendDies, At, None
  <2>2. CASE SetRoleRead(h)
    BY <2>2, StepPlaces DEF At, None
  <2>3. CASE AccountStep(h) /\ ~ SetRoleRead(h)
    BY <2>3, StepPlaces DEF At, None
  <2>4. CASE RateStep(h) \/ SendStep(h) \/ CreateRow(h)
    BY <2>4, StepPlaces DEF At, None
  <2>. QED
    BY <2>1, <2>2, <2>3, <2>4 DEF BackendStep
<1>. QED
  BY <1>1, <1>5, <1>6, <1>7, <1>8, <1>9 DEF BackendStep

\* What the reply to an update offers stays; a keyboard that is gone stays away.
LEMMA ReplyMoves ==
  ASSUME TypeInv, HandlerInv, [Next]_vars, NEW u \in Updates
  PROVE  \/ Offered(u) /\ Offered(u)' /\ (reply'[u].live => reply[u].live)
         \/ /\ ~ Offered(u)
            /\ Offered(u)' => \E h \in Slots : Offer(h) /\ AwaitStep(h) /\ bot[h].update = u
<1>0. DialogueOK /\ reply \in [Updates -> Replies]
  BY DEF TypeInv, DialogueOK
<1>1. CASE UNCHANGED reply
  BY <1>1 DEF Offered
<1>2. ASSUME NEW h \in Slots, Offer(h), AwaitStep(h)
      PROVE  \/ Offered(u) /\ Offered(u)' /\ (reply'[u].live => reply[u].live)
             \/ ~ Offered(u) /\ (Offered(u)' => bot[h].update = u)
  <2>1. bot[h].todo # <<>> /\ Head(bot[h].todo) \in Keyboards
    BY <1>2 DEF Offer, Does, Keyboards
  <2>2. bot[h] # NoBot /\ bot[h].todo[1] \notin States /\ 1 \in DOMAIN bot[h].todo
    BY <1>0, <2>1, TailOf, AtWork DEF Keyboards, States, TextStates
  <2>3. ~ Offered(bot[h].update)
    BY <2>2 DEF HandlerInv, HandlerFine
  <2>4. u # bot[h].update => reply'[u] = reply[u]
    BY <1>0, <1>2 DEF Offer
  <2>. QED
    BY <2>3, <2>4 DEF Offered
<1>3. ASSUME NEW h \in Slots, Edit(h)
      PROVE  reply'[u].offers = reply[u].offers /\ (reply'[u].live => reply[u].live)
  BY <1>0, <1>3 DEF Edit, Replies
<1>4. ASSUME NEW h \in Slots, Arrive(h)
      PROVE  reply'[u] = reply[u] \/ (~ Offered(u) /\ ~ Offered(u)')
  <2>1. PICK v \in Updates, p \in People, on \in Handlers,
             button \in Updates \cup {None}, role \in Roles \cup {None} :
          Handle(h, v, p, on, button, role)
    BY <1>4, ArriveCases
  <2>2. reply[v].to = None /\ reply' = [reply EXCEPT ![v] = [NoReply EXCEPT !.to = p]]
    BY <2>1 DEF Handle
  <2>3. ~ Offered(v)
    BY <1>0, <2>2, NamesAssumption DEF DialogueOK, ReplyReady, Offered
  <2>4. [NoReply EXCEPT !.to = p].offers = "nothing"
    BY DEF NoReply
  <2>. QED
    BY <1>0, <2>2, <2>3, <2>4 DEF Offered
<1>5. ASSUME NEW h \in Slots, Work(h)
      PROVE  UNCHANGED reply \/ Edit(h) \/ (Offer(h) /\ AwaitStep(h))
  BY <1>5
  DEF Work, BotStep, AwaitStep, SetState, GetData, SetData, Decide, CallBackend, HearAnswer,
      dialogueVars
<1>6. ASSUME NEW h \in Slots, Fault(h)
      PROVE  UNCHANGED reply
  BY <1>6 DEF Fault, HandlerDies, dialogueVars
<1>7. CASE Operator \/ Time \/ UNCHANGED vars
  BY <1>1, <1>7 DEF Operator, Time, vars, dialogueVars
<1>8. CASE \E h \in Slots : Edit(h)
  BY <1>3, <1>8 DEF Offered
<1>9. CASE \E h \in Slots : Arrive(h)
  BY <1>4, <1>9 DEF Offered
<1>10. CASE \E h \in Slots : Offer(h) /\ AwaitStep(h)
  BY <1>2, <1>10
<1>. QED
  BY <1>1, <1>5, <1>6, <1>7, <1>8, <1>9, <1>10 DEF Next

-----------------------------------------------------------------------------
(* The Confirm button: handlers *)

\* An await changes the handler that does it, and no other.
LEMMA AwaitAlone ==
  ASSUME DialogueOK, NEW h \in Slots, AwaitStep(h)
  PROVE  bot'[h] # bot[h] /\ \A g \in Slots \ {h} : bot'[g] = bot[g]
<1>1. bot[h].todo # <<>> /\ (bot'[h] = NoBot \/ bot'[h].todo = Tail(bot[h].todo))
  BY AwaitMove
<1>2. bot[h] # NoBot /\ bot[h].todo \in Seq(Awaits) /\ bot \in [Slots -> Bots]
  BY <1>1, AtWork DEF DialogueOK, Bots
<1>3. \A s \in Seq(Awaits) : s # <<>> => Len(Tail(s)) = Len(s) - 1 /\ Len(s) \in Nat
  OBVIOUS
<1>4. Len(Tail(bot[h].todo)) # Len(bot[h].todo)
  BY <1>1, <1>2, <1>3
<1>5. \A g \in Slots \ {h} : bot'[g] = bot[g]
  BY <1>2
  DEF AwaitStep, SetState, GetData, SetData, Offer, Edit, Continue, Become, Raise
<1>. QED
  BY <1>1, <1>2, <1>4, <1>5

\* An update that arrives is handled by the list of its handler, and by nobody yet.
LEMMA Arrival ==
  ASSUME TypeInv, NEW g \in Slots, Arrive(g)
  PROVE  /\ call'[g] = NoCall
         /\ OfferOnce(bot'[g].todo)
         /\ Has(bot[g], {"create"})' => bot'[g].on = "confirm"
         /\ bot'[g].on = "confirm" =>
              /\ bot'[g].todo = <<"strip", "get", "create">>
              /\ bot'[g].button \in Updates /\ Offered(bot'[g].button)
         /\ bot'[g].update \in Updates /\ ~ Offered(bot'[g].update)
         /\ ~ (\E h \in Slots : Offer(h) /\ AwaitStep(h))
         /\ \A h \in Slots : bot[h] # NoBot => bot[h].update # bot'[g].update
<1>1. PICK v \in Updates, p \in People, on \in Handlers,
           button \in Updates \cup {None}, role \in Roles \cup {None} :
        /\ on = "confirm" => button \in Updates /\ reply[button].offers = "summary"
        /\ Handle(g, v, p, on, button, role)
  BY ArriveCases
<1> DEFINE b == [NoBot EXCEPT !.on = on, !.who = p, !.update = v, !.button = button,
                     !.role = role, !.patch = FirstPatch(on, v), !.todo = Script(on)]
<1>2. /\ b.on = on /\ b.update = v /\ b.button = button /\ b.todo = Script(on)
  BY DEF NoBot
<1>3. bot' = [bot EXCEPT ![g] = b] /\ call' = call /\ call[g] = NoCall /\ reply[v].to = None
      /\ bot[g] = NoBot
  BY <1>1 DEF Handle, Free
<1> HIDE DEF b
<1>4. bot'[g] = b
  BY <1>3 DEF TypeInv, DialogueOK
<1>5. /\ OfferOnce(b.todo)
      /\ Has(b, {"create"}) => on = "confirm"
      /\ on = "confirm" => b.todo = <<"strip", "get", "create">>
  BY <1>2, ScriptOf DEF OfferOnce, Keyboards, Has
<1>6. ~ Offered(v)
  BY <1>3, NamesAssumption DEF TypeInv, DialogueOK, ReplyReady, Offered
<1>7. \A h \in Slots : bot[h] # NoBot => bot[h].update # v
  BY <1>3, NamesAssumption DEF TypeInv, DialogueOK
<1>8. ASSUME NEW h \in Slots, AwaitStep(h)
      PROVE  FALSE
  <2>1. bot[h] # NoBot /\ bot'[h] # bot[h]
    BY <1>8, AwaitMove, AwaitAlone, AtWork DEF TypeInv
  <2>2. bot'[h] = bot[h]
    BY <1>3, <2>1 DEF TypeInv, DialogueOK
  <2>. QED
    BY <2>1, <2>2
<1>9. on = "confirm" => Offered(button)
  BY <1>1 DEF Offered
<1>. QED
  BY <1>1, <1>2, <1>3, <1>4, <1>5, <1>6, <1>7, <1>8, <1>9 DEF Has

LEMMA NextOwn == TypeInv /\ OwnUpdates /\ [Next]_vars => OwnUpdates'
<1> SUFFICES ASSUME TypeInv, OwnUpdates, [Next]_vars PROVE OwnUpdates'
  OBVIOUS
<1>1. ASSUME NEW g \in Slots
      PROVE  \/ bot'[g] = NoBot
             \/ bot[g] # NoBot /\ bot'[g].update = bot[g].update
             \/ Arrive(g)
  <2>1. CASE AwaitStep(g)
    BY <2>1, AwaitMove, AtWork DEF TypeInv, Kin
  <2>2. CASE Decide(g)
    BY <2>2, DecideMove, AtWork DEF TypeInv, Kin
  <2>3. CASE HearAnswer(g)
    BY <2>3, HearMove, AtWork DEF TypeInv, Kin
  <2>4. CASE HandlerDies(g)
    BY <2>4 DEF HandlerDies, Raise, TypeInv, DialogueOK
  <2>5. CASE CallBackend(g)
    BY <2>5 DEF CallBackend, dialogueVars
  <2>. QED
    BY <2>1, <2>2, <2>3, <2>4, <2>5, SlotMoves DEF Quiet
<1>2. ASSUME NEW g \in Slots, NEW h \in Slots, g # h, Arrive(g)
      PROVE  bot'[h] = bot[h]
  BY <1>2 DEF Arrive, StartCommand, Text, Press, Handle, TypeInv, DialogueOK
<1>3. ASSUME NEW g \in Slots, NEW h \in Slots, g # h, bot'[g] # NoBot, bot'[h] # NoBot
      PROVE  bot'[g].update # bot'[h].update
  <2>1. CASE Arrive(g)
    BY <1>2, <1>3, <2>1, Arrival
  <2>2. CASE Arrive(h)
    BY <1>2, <1>3, <2>2, Arrival
  <2>3. CASE ~ Arrive(g) /\ ~ Arrive(h)
    BY <1>1, <1>3, <2>3 DEF OwnUpdates
  <2>. QED
    BY <2>1, <2>2, <2>3
<1>. QED
  BY <1>3 DEF OwnUpdates

\* The rest of an orderly list.
LEMMA OrderlyTail ==
  ASSUME NEW t \in Seq(Awaits), t # <<>>, OfferOnce(t)
  PROVE  /\ OfferOnce(Tail(t))
         /\ \A X : (\E i \in DOMAIN Tail(t) : Tail(t)[i] \in X) => \E i \in DOMAIN t : t[i] \in X
         /\ \A X : (\A i \in DOMAIN t : t[i] \in X) => \A i \in DOMAIN Tail(t) : Tail(t)[i] \in X
         /\ t[1] \in Keyboards => \A i \in DOMAIN Tail(t) : Tail(t)[i] \in States
<1>1. /\ Len(t) \in Nat /\ Len(t) >= 1 /\ DOMAIN t = 1..Len(t)
      /\ Tail(t) \in Seq(Awaits) /\ Len(Tail(t)) = Len(t) - 1
      /\ DOMAIN Tail(t) = 1..(Len(t) - 1)
      /\ \A i \in 1..(Len(t) - 1) : Tail(t)[i] = t[i + 1]
  OBVIOUS
<1>2. \A i \in DOMAIN Tail(t) :
        i \in Nat /\ i + 1 \in DOMAIN t /\ 1 < i + 1 /\ Tail(t)[i] = t[i + 1]
  BY <1>1
<1>3. OfferOnce(Tail(t))
  BY <1>2 DEF OfferOnce
<1>4. t[1] \in Keyboards => \A i \in DOMAIN Tail(t) : Tail(t)[i] \in States
  <2>1. 1 \in DOMAIN t
    BY <1>1
  <2>. QED
    BY <1>2, <2>1 DEF OfferOnce
<1>. QED
  BY <1>2, <1>3, <1>4

\* The request that a handler waits for, in a step of its slot.
LEMMA NextShape ==
  ASSUME TypeInv, HandlerInv, [Next]_vars, NEW g \in Slots
  PROVE  ConfirmShape(g)'
<1> DEFINE t == bot[g].todo
<1>1. ConfirmShape(g) /\ call \in [Slots -> CallRecords]
  BY DEF HandlerInv, HandlerFine, TypeInv, CallsOK
<1>2. <<"strip", "get", "create">>[1] = "strip" /\ <<"get", "create">>[1] = "get"
      /\ <<"create">>[1] = "create" /\ <<"awaiting_request">>[1] = "awaiting_request"
  OBVIOUS
<1>3. Tail(<<"strip", "get", "create">>) = <<"get", "create">>
      /\ Tail(<<"get", "create">>) = <<"create">> /\ Tail(<<"awaiting_request">>) = <<>>
  OBVIOUS
<1>4. NoBot.on # "confirm"
  BY DEF NoBot, None
<1>5. CASE Quiet(g)
  BY <1>1, <1>5 DEF Quiet, ConfirmShape
<1>6. CASE AwaitStep(g)
  <2>1. /\ t[1] \notin CallOps /\ call' = call
        /\ bot'[g] = NoBot \/ (Kin(g) /\ bot'[g].todo = Tail(t) /\ bot'[g].todo # <<>>)
    BY <1>6, AwaitMove DEF TypeInv
  <2>2. ASSUME bot[g].on = "confirm"
        PROVE  \/ call[g] = NoCall /\ Tail(t) \in {<<"get", "create">>, <<"create">>}
               \/ Tail(t) = <<>>
    BY <1>1, <1>2, <1>3, <2>1, <2>2 DEF ConfirmShape, CallOps
  <2>. QED
    BY <1>4, <2>1, <2>2 DEF ConfirmShape, Kin
<1>7. CASE Decide(g)
  <2>1. t[1] = "decide" /\ (bot'[g] = NoBot \/ Kin(g))
    BY <1>7, DecideMove DEF TypeInv
  <2>2. bot[g].on # "confirm"
    BY <1>1, <1>2, <2>1 DEF ConfirmShape
  <2>. QED
    BY <1>4, <2>1, <2>2 DEF ConfirmShape, Kin
<1>8. CASE HearAnswer(g)
  <2>1. /\ t[1] \in CallOps /\ (bot'[g] = NoBot \/ Kin(g))
        /\ t[1] = "create" => bot'[g] = NoBot \/ (Kin(g) /\ bot'[g].todo = <<"awaiting_request">>)
    BY <1>8, HearMove DEF TypeInv
  <2>2. bot[g].on = "confirm" => t[1] = "create"
    BY <1>1, <1>2, <2>1 DEF ConfirmShape, CallOps
  <2>. QED
    BY <1>4, <2>1, <2>2 DEF ConfirmShape, Kin
<1>9. CASE CallBackend(g)
  <2>1. bot' = bot /\ t # <<>> /\ Head(t) \in CallOps /\ call'[g].heard
    BY <1>1, <1>9 DEF CallBackend, dialogueVars, Does, NoCall
  <2>2. t[1] \in CallOps
    BY <2>1, TailOf, AtWork DEF TypeInv
  <2>3. bot[g].on = "confirm" => t = <<"create">>
    BY <1>1, <1>2, <2>2 DEF ConfirmShape, CallOps
  <2>. QED
    BY <2>1, <2>3 DEF ConfirmShape
<1>10. CASE (BackendStep(g) \/ BackendDies(g)) /\ bot'[g] = bot[g]
  BY <1>1, <1>10, RequestGoesOn DEF ConfirmShape
<1>11. CASE HandlerDies(g)
  BY <1>4, <1>11 DEF HandlerDies, Raise, ConfirmShape, TypeInv, DialogueOK
<1>12. CASE Arrive(g)
  BY <1>12, Arrival DEF ConfirmShape
<1>. QED
  BY <1>5, <1>6, <1>7, <1>8, <1>9, <1>10, <1>11, <1>12, SlotMoves

LEMMA NextHandler == TypeInv /\ HandlerInv /\ OwnUpdates /\ [Next]_vars => HandlerInv'
<1> SUFFICES ASSUME TypeInv, HandlerInv, OwnUpdates, [Next]_vars, NEW g \in Slots
             PROVE  HandlerFine(g)'
  BY DEF HandlerInv
<1>1. HandlerFine(g) /\ DialogueOK
  BY DEF HandlerInv, TypeInv
<1>2. \A u \in Updates : Offered(u) => Offered(u)'
  BY ReplyMoves
<1>3. OfferOnce(NoBot.todo) /\ ~ Has(NoBot, {"create"}) /\ NoBot.on # "confirm"
  BY DEF NoBot, OfferOnce, Has, None
\* Whatever the handler goes on with, it has not answered unless it says so.
<1>4. ASSUME bot'[g] # NoBot, bot[g] # NoBot, bot'[g].update = bot[g].update,
             Offered(bot[g].update)'
      PROVE  Offered(bot[g].update) \/ (Offer(g) /\ AwaitStep(g))
  <2>1. bot[g].update \in Updates
    BY <1>1, <1>4 DEF DialogueOK, BotReady
  <2>2. CASE ~ Offered(bot[g].update)
    <3>1. PICK h \in Slots : Offer(h) /\ AwaitStep(h) /\ bot[h].update = bot[g].update
      BY <1>4, <2>1, <2>2, ReplyMoves
    <3>2. bot[h] # NoBot
      BY <1>1, <3>1, AwaitMove, AtWork
    <3>3. h = g
      BY <1>4, <3>1, <3>2 DEF OwnUpdates
    <3>. QED
      BY <3>1, <3>3
  <2>. QED
    BY <2>2
<1>5. CASE bot'[g] = NoBot
  BY <1>3, <1>5, NextShape DEF HandlerFine, Has
<1>6. CASE AwaitStep(g) /\ bot'[g] # NoBot
  <2> DEFINE t == bot[g].todo
  <2>1. t # <<>> /\ Kin(g) /\ bot'[g].todo = Tail(t)
    BY <1>1, <1>6, AwaitMove
  <2>2. t \in Seq(Awaits) /\ bot[g] # NoBot
    BY <1>1, <2>1, AtWork DEF Bots
  <2>3. /\ OfferOnce(Tail(t))
        /\ (\E i \in DOMAIN Tail(t) : Tail(t)[i] \in {"create"})
             => \E i \in DOMAIN t : t[i] \in {"create"}
        /\ (\A i \in DOMAIN t : t[i] \in States)
             => \A i \in DOMAIN Tail(t) : Tail(t)[i] \in States
        /\ t[1] \in Keyboards => \A i \in DOMAIN Tail(t) : Tail(t)[i] \in States
    BY <1>1, <2>1, <2>2, OrderlyTail DEF HandlerFine
  <2>4. Offer(g) => t[1] \in Keyboards
    <3>1. Offer(g) => Head(t) \in Keyboards
      BY DEF Offer, Does, Keyboards
    <3>. QED
      BY <1>1, <2>1, <3>1, TailOf, AtWork
  <2>5. Offered(bot[g].update)' => \A i \in DOMAIN Tail(t) : Tail(t)[i] \in States
    BY <1>1, <1>4, <1>6, <2>1, <2>2, <2>3, <2>4 DEF HandlerFine, Kin
  <2>6. Has(bot[g], {"create"})' => bot'[g].on = "confirm"
    BY <1>1, <2>1, <2>3 DEF HandlerFine, Kin, Has
  <2>7. bot'[g].on = "confirm" => bot'[g].button \in Updates /\ Offered(bot[g].button)'
    BY <1>1, <1>2, <2>1 DEF HandlerFine, Kin
  <2>. QED
    BY <2>1, <2>3, <2>5, <2>6, <2>7, NextShape DEF HandlerFine, Offered
<1>7. CASE (Decide(g) \/ HearAnswer(g)) /\ bot'[g] # NoBot
  <2> DEFINE t == bot[g].todo
  <2>1. t # <<>> /\ t[1] \notin States /\ t[1] \notin Keyboards /\ Kin(g) /\ Plain(bot'[g].todo)
    BY <1>1, <1>7, DecideMove, HearMove DEF States, TextStates, CallOps, Keyboards
  <2>2. bot[g] # NoBot /\ 1 \in DOMAIN t /\ Head(t) = t[1]
    BY <1>1, <2>1, AtWork, TailOf
  <2>3. ~ Offer(g)
    BY <2>1, <2>2 DEF Offer, Does, Keyboards
  <2>4. ~ Offered(bot[g].update)'
    BY <1>1, <1>4, <1>7, <2>1, <2>2, <2>3 DEF HandlerFine, Kin
  <2>5. OfferOnce(bot'[g].todo) /\ ~ Has(bot[g], {"create"})'
    BY <2>1 DEF Plain, Has
  <2>6. bot'[g].on = "confirm" => bot'[g].button \in Updates /\ Offered(bot[g].button)'
    BY <1>1, <1>2, <2>1 DEF HandlerFine, Kin
  <2>. QED
    BY <2>4, <2>5, <2>6, NextShape DEF HandlerFine, Offered
<1>8. CASE bot'[g] = bot[g] /\ bot[g] # NoBot /\ ~ AwaitStep(g)
  <2>1. Offered(bot[g].update)' => \A i \in DOMAIN bot[g].todo : bot[g].todo[i] \in States
    BY <1>1, <1>4, <1>8 DEF HandlerFine
  <2>2. bot'[g].on = "confirm" => bot'[g].button \in Updates /\ Offered(bot[g].button)'
    BY <1>1, <1>2, <1>8 DEF HandlerFine
  <2>. QED
    BY <1>1, <1>8, <2>1, <2>2, NextShape DEF HandlerFine, Offered, Has
<1>9. CASE Arrive(g)
  <2>1. ~ Offered(bot[g].update)'
    BY <1>9, Arrival, ReplyMoves
  <2>. QED
    BY <1>2, <1>9, <2>1, Arrival, NextShape DEF HandlerFine, Offered, Has
<1>10. CASE HandlerDies(g)
  BY <1>1, <1>5, <1>10 DEF HandlerDies, Raise, DialogueOK
<1>11. CASE CallBackend(g)
  BY <1>5, <1>6, <1>8, <1>11 DEF CallBackend, dialogueVars
<1>. QED
  BY <1>5, <1>6, <1>7, <1>8, <1>9, <1>10, <1>11, SlotMoves DEF Quiet

-----------------------------------------------------------------------------
(* The Confirm button: what is saved *)

\* The handler of slot h takes the keyboard of summary u away, to submit it.
Takes(h, u) ==
  /\ AwaitStep(h)
  /\ bot[h].on = "confirm" /\ bot[h].button = u
  /\ reply[u].live /\ ~ reply'[u].live

\* Who submits after a step did before it, or has just taken the keyboard.
LEMMA SubmitMoves ==
  ASSUME TypeInv, HandlerInv, [Next]_vars, NEW g \in Slots, NEW u \in Updates,
         Submitting(g, u)'
  PROVE  Submitting(g, u) \/ Takes(g, u)
<1> DEFINE t == bot[g].todo
           Submits(list) == list \in {<<"get", "create">>, <<"create">>}
<1>0. /\ DialogueOK /\ call \in [Slots -> CallRecords] /\ call[g] \in CallRecords
      /\ ConfirmShape(g)
      /\ Has(bot[g], {"create"}) => bot[g].on = "confirm"
  BY DEF TypeInv, CallsOK, HandlerInv, HandlerFine
<1>1. \/ /\ call'[g] = NoCall /\ bot'[g].on = "confirm" /\ bot'[g].button = u
         /\ Submits(bot'[g].todo)
      \/ call'[g].at = "create" /\ call'[g].button = u
  BY DEF Submitting, At
<1>2. NoCall.at # "create" /\ NoBot.on # "confirm" /\ NoCall.heard = FALSE
  BY DEF NoCall, NoBot, None
<1>3. /\ <<"strip", "get", "create">>[1] = "strip" /\ <<"get", "create">>[1] = "get"
      /\ <<"create">>[1] = "create" /\ <<"awaiting_request">>[1] = "awaiting_request"
      /\ Tail(<<"strip", "get", "create">>) = <<"get", "create">>
      /\ Tail(<<"awaiting_request">>) = <<>>
      /\ <<"get", "create">> # <<"strip", "get", "create">>
      /\ <<"create">> # <<"strip", "get", "create">>
      /\ <<"get", "create">> # <<"create">>
  OBVIOUS
<1>4. \A list : Plain(list) => ~ Submits(list)
  <2>1. ~ Plain(<<"get", "create">>)
    <3>1. <<"get", "create">>[2] = "create" /\ 2 \in DOMAIN <<"get", "create">>
      OBVIOUS
    <3>. QED
      BY <3>1 DEF Plain
  <2>2. ~ Plain(<<"create">>)
    <3>1. <<"create">>[1] = "create" /\ 1 \in DOMAIN <<"create">>
      OBVIOUS
    <3>. QED
      BY <3>1 DEF Plain
  <2>. QED
    BY <2>1, <2>2
<1>5. At(g, "create") /\ call[g].button = u => Submitting(g, u)
  BY DEF Submitting
<1>6. CASE Quiet(g)
  BY <1>6 DEF Quiet, Submitting, At
<1>7. CASE AwaitStep(g)
  <2>1. /\ t # <<>> /\ t[1] \notin CallOps /\ call' = call
        /\ bot'[g] = NoBot \/ (Kin(g) /\ bot'[g].todo = Tail(t) /\ bot'[g].todo # <<>>)
    BY <1>0, <1>7, AwaitMove
  <2>2. CASE call'[g].at = "create" /\ call'[g].button = u
    BY <1>5, <2>1, <2>2 DEF At
  <2>3. CASE /\ call'[g] = NoCall /\ bot'[g].on = "confirm" /\ bot'[g].button = u
             /\ Submits(bot'[g].todo)
    <3>1. Kin(g) /\ Tail(t) # <<>> /\ bot[g].on = "confirm" /\ bot[g].button = u
          /\ call[g] = NoCall /\ bot'[g] # NoBot
      BY <1>2, <2>1, <2>3 DEF Kin
    <3>2. t = <<"get", "create">> \/ t = <<"strip", "get", "create">>
      BY <1>0, <1>3, <2>1, <3>1 DEF ConfirmShape, CallOps
    <3>3. CASE t = <<"get", "create">>
      BY <3>1, <3>3 DEF Submitting
    <3>4. CASE t = <<"strip", "get", "create">>
      <4>1. Head(t) = "strip"
        BY <1>0, <1>3, <2>1, <3>4, TailOf, AtWork
      <4>2. Edit(g) /\ ~ Does(g, "edit")
        BY <1>7, <4>1
        DEF AwaitStep, SetState, GetData, SetData, Offer, Does, States, TextStates
      <4>3. ~ Raise(g)
        BY <1>0, <3>1 DEF Raise, DialogueOK
      <4>4. reply[u].live /\ reply' = [reply EXCEPT ![u].live = FALSE]
        BY <3>1, <4>2, <4>3 DEF Edit
      <4>5. ~ reply'[u].live
        BY <1>0, <4>4 DEF DialogueOK, Replies
      <4>. QED
        BY <1>7, <3>1, <4>4, <4>5 DEF Takes
    <3>. QED
      BY <3>2, <3>3, <3>4
  <2>. QED
    BY <1>1, <2>2, <2>3
<1>8. CASE Decide(g)
  BY <1>0, <1>1, <1>2, <1>4, <1>5, <1>8, DecideMove DEF At
<1>9. CASE HearAnswer(g)
  <2>1. call'[g] = NoCall \/ call'[g] = [call[g] EXCEPT !.heard = FALSE]
    BY <1>0, <1>9 DEF HearAnswer, Hears
  <2>2. call'[g].at = "create" => At(g, "create") /\ call'[g].button = call[g].button
    BY <1>0, <1>2, <2>1 DEF At, CallRecords
  <2>. QED
    BY <1>0, <1>1, <1>2, <1>4, <1>5, <1>9, <2>2, HearMove
<1>10. CASE HandlerDies(g)
  <2>1. call'[g] = NoCall \/ call'[g] = [call[g] EXCEPT !.heard = FALSE]
    BY <1>0, <1>10 DEF HandlerDies
  <2>2. call'[g].at = "create" => At(g, "create") /\ call'[g].button = call[g].button
    BY <1>0, <1>2, <2>1 DEF At, CallRecords
  <2>3. bot'[g] = NoBot
    BY <1>0, <1>10 DEF HandlerDies, Raise, DialogueOK
  <2>. QED
    BY <1>1, <1>2, <1>5, <2>2, <2>3
<1>11. CASE CallBackend(g)
  <2>1. PICK op \in CallOps : /\ Does(g, op) /\ call[g] = NoCall
                              /\ call'[g].at = op
                              /\ op = "create" => call'[g].button = bot[g].button
    BY <1>0, <1>11 DEF CallBackend, NoCall
  <2>2. call'[g].at = "create" /\ call'[g].button = u /\ op = "create"
    BY <1>1, <2>1 DEF NoCall, CallOps, None
  <2>3. t[1] = "create" /\ 1 \in DOMAIN t
    BY <1>0, <2>1, <2>2, TailOf, AtWork DEF Does
  <2>4. bot[g].on = "confirm" /\ t = <<"create">>
    BY <1>0, <1>3, <2>3 DEF Has, ConfirmShape
  <2>. QED
    BY <2>1, <2>2, <2>4 DEF Submitting
<1>12. CASE (BackendStep(g) \/ BackendDies(g)) /\ bot'[g] = bot[g]
  <2>1. /\ call[g] # NoCall /\ call'[g].at # "create"
        /\ call[g].heard => call'[g].heard
    BY <1>12, RequestGoesOn DEF At
  <2>2. /\ call'[g] = NoCall /\ bot[g].on = "confirm" /\ Submits(t)
    BY <1>1, <1>12, <2>1
  <2>. QED
    BY <1>0, <1>2, <1>3, <2>1, <2>2 DEF ConfirmShape
<1>13. CASE Arrive(g)
  BY <1>1, <1>2, <1>3, <1>13, Arrival
<1>. QED
  BY <1>6, <1>7, <1>8, <1>9, <1>10, <1>11, <1>12, <1>13, SlotMoves

\* A row is made by a request at its first step.
LEMMA SavesMove ==
  ASSUME [Next]_vars
  PROVE  \/ UNCHANGED saves
         \/ \E h \in Slots :
              /\ CreateRow(h) /\ Acceptable(call[h])
              /\ saves' = [saves EXCEPT ![<<call[h].button, call[h].parsed>>] = @ + 1]
<1>1. ASSUME NEW h \in Slots, BotStep(h)
      PROVE  UNCHANGED saves
  BY <1>1 DEF BotStep, AwaitStep, Decide, CallBackend, HearAnswer, backendVars
<1>2. ASSUME NEW h \in Slots, BackendStep(h)
      PROVE  UNCHANGED saves \/ CreateRow(h)
  BY <1>2 DEF BackendStep, CreateDone, backendVars
<1>3. ASSUME NEW h \in Slots, Fault(h) \/ Arrive(h)
      PROVE  UNCHANGED saves
  BY <1>3 DEF Fault, HandlerDies, BackendDies, Arrive, StartCommand, Text, Press, Handle,
              backendVars
<1>4. CASE Operator \/ Time \/ UNCHANGED vars
  BY <1>4 DEF Operator, Time, vars, backendVars
<1>. QED
  BY <1>1, <1>2, <1>3, <1>4 DEF Next, Work, CreateRow

LEMMA InitSave == Init => HandlerInv /\ OwnUpdates /\ SaveInv /\ OneSavePerSummary
<1> SUFFICES ASSUME Init PROVE HandlerInv /\ OwnUpdates /\ SaveInv /\ OneSavePerSummary
  OBVIOUS
<1>1. \A h \in Slots : bot[h] = NoBot /\ call[h] = NoCall
  BY DEF Init, BackendInit, CallsInit
<1>2. NoBot.on # "confirm" /\ NoBot.todo = <<>> /\ NoCall.at # "create"
  BY DEF NoBot, NoCall, None
<1>3. \A u \in Updates : ~ Saved(u)
  <2>1. ASSUME NEW u \in Updates, NEW c \in Updates
        PROVE  ~ saves[<<u, c>>] > 0
    <3>1. saves[<<u, c>>] = 0
      BY DEF Init, BackendInit
    <3>. QED
      BY <3>1
  <2>. QED
    BY <2>1 DEF Saved
<1>4. \A h \in Slots, u \in Updates : ~ Submitting(h, u)
  BY <1>1, <1>2 DEF Submitting, At
<1>5. HandlerInv
  BY <1>1, <1>2 DEF HandlerInv, HandlerFine, OfferOnce, Has, ConfirmShape
<1>6. OneSavePerSummary
  BY <1>3 DEF OneSavePerSummary, Saved
<1>. QED
  BY <1>1, <1>3, <1>4, <1>5, <1>6 DEF OwnUpdates, SaveInv

LEMMA NextSave ==
  ASSUME TypeInv, HandlerInv, OwnUpdates, SaveInv, OneSavePerSummary, [Next]_vars
  PROVE  SaveInv' /\ OneSavePerSummary'
<1>0. saves \in [Updates \X Updates -> Nat]
  BY DEF TypeInv
\* Who has made a row does not submit any more.
<1>1. ASSUME NEW h \in Slots, CreateRow(h), Acceptable(call[h]), NEW u \in Updates
      PROVE  ~ Submitting(h, u)'
  <2>1. ~ At(h, "create")'
    BY <1>1, RequestGoesOn DEF BackendStep
  <2>2. call'[h].at \in {"send", "thank"}
    BY <1>1, GoOnAt DEF CreateRow, TypeInv, CallsOK
  <2>. QED
    BY <2>1, <2>2 DEF Submitting, NoCall, None
<1>2. ASSUME NEW u \in Updates, Saved(u)', ~ Saved(u)
      PROVE  \E h \in Slots :
               /\ CreateRow(h) /\ Acceptable(call[h]) /\ Submitting(h, u)
  <2>1. PICK h \in Slots :
          /\ CreateRow(h) /\ Acceptable(call[h])
          /\ saves' = [saves EXCEPT ![<<call[h].button, call[h].parsed>>] = @ + 1]
    BY <1>2, SavesMove DEF Saved
  <2>2. PICK c \in Updates : saves'[<<u, c>>] > 0 /\ ~ saves[<<u, c>>] > 0
    BY <1>2 DEF Saved
  <2>3. <<u, c>> = <<call[h].button, call[h].parsed>>
    BY <1>0, <2>1, <2>2
  <2>4. At(h, "create") /\ call[h].button = u
    BY <2>1, <2>3 DEF CreateRow
  <2>. QED
    BY <2>1, <2>4 DEF Submitting
<1>3. ASSUME NEW u \in Updates
      PROVE  /\ \A g, h \in Slots : Submitting(g, u)' /\ Submitting(h, u)' => g = h
             /\ \A h \in Slots : Submitting(h, u)' =>
                  ~ reply'[u].live /\ Offered(u)' /\ ~ Saved(u)'
             /\ Saved(u)' => ~ reply'[u].live /\ Offered(u)'
  <2>1. ~ reply[u].live /\ Offered(u) => ~ reply'[u].live /\ Offered(u)'
    BY ReplyMoves
  <2>2. /\ \A g, h \in Slots : Submitting(g, u) /\ Submitting(h, u) => g = h
        /\ \A h \in Slots : Submitting(h, u) => ~ reply[u].live /\ Offered(u) /\ ~ Saved(u)
        /\ Saved(u) => ~ reply[u].live /\ Offered(u)
    BY DEF SaveInv
  <2>3. \A h \in Slots : Submitting(h, u)' => Submitting(h, u) \/ Takes(h, u)
    BY SubmitMoves
  <2>4. CASE \E g \in Slots : Takes(g, u)
    <3>1. PICK g \in Slots : Takes(g, u)
      BY <2>4
    <3>2. reply[u].live /\ ~ reply'[u].live /\ UNCHANGED saves
      BY <3>1, AwaitMove DEF Takes, TypeInv
    <3>3. \A h \in Slots : Takes(h, u) => h = g
      BY <3>1, AwaitAlone DEF Takes, TypeInv
    <3>4. Offered(u) /\ Offered(u)'
      BY <3>1, ReplyMoves DEF Takes, HandlerInv, HandlerFine
    <3>5. ~ Saved(u)' /\ \A h \in Slots : ~ Submitting(h, u)
      BY <2>2, <3>2 DEF Saved
    <3>. QED
      BY <2>3, <3>2, <3>3, <3>4, <3>5
  <2>5. CASE ~ \E g \in Slots : Takes(g, u)
    <3>1. \A h \in Slots : Submitting(h, u)' => Submitting(h, u)
      BY <2>3, <2>5
    <3>2. ASSUME NEW h \in Slots, Submitting(h, u)'
          PROVE  ~ Saved(u)'
      BY <1>1, <1>2, <2>2, <3>1, <3>2
    <3>3. Saved(u)' => ~ reply[u].live /\ Offered(u)
      BY <1>2, <2>2
    <3>. QED
      BY <2>1, <2>2, <3>1, <3>2, <3>3
  <2>. QED
    BY <2>4, <2>5
<1>4. SaveInv'
  BY <1>3 DEF SaveInv
<1>5. OneSavePerSummary'
  <2>1. CASE UNCHANGED saves
    BY <2>1 DEF OneSavePerSummary
  <2>2. ASSUME NEW h \in Slots, CreateRow(h),
               saves' = [saves EXCEPT ![<<call[h].button, call[h].parsed>>] = @ + 1],
               NEW u \in Updates, NEW c \in Updates, NEW d \in Updates,
               saves'[<<u, c>>] > 0, saves'[<<u, d>>] > 0
        PROVE  c = d /\ saves'[<<u, c>>] = 1
    <3>1. CASE u # call[h].button
      BY <1>0, <2>2, <3>1 DEF OneSavePerSummary
    <3>2. CASE u = call[h].button
      <4>1. Submitting(h, u)
        BY <2>2, <3>2 DEF Submitting, CreateRow
      <4>2. ~ Saved(u)
        BY <4>1 DEF SaveInv
      <4>3. \A x \in Updates : saves[<<u, x>>] = 0
        BY <1>0, <4>2 DEF Saved
      <4>4. \A x \in Updates :
              saves'[<<u, x>>] = IF x = call[h].parsed THEN 1 ELSE 0
        BY <1>0, <2>2, <3>2, <4>3
      <4>. QED
        BY <2>2, <4>4
    <3>. QED
      BY <3>1, <3>2
  <2>. QED
    BY <2>1, <2>2, SavesMove DEF OneSavePerSummary
<1>. QED
  BY <1>4, <1>5

\* However many people, updates and handlers there are: at most one row comes of
\* the buttons below one summary.
THEOREM OneRowPerSummary == Spec => []OneSavePerSummary
<1> DEFINE Inv == HandlerInv /\ OwnUpdates /\ SaveInv /\ OneSavePerSummary
<1>1. Init => Inv
  BY InitSave
<1>2. TypeInv /\ Inv /\ [Next]_vars => Inv'
  BY NextHandler, NextOwn, NextSave
<1>3. Inv => OneSavePerSummary
  OBVIOUS
<1> HIDE DEF Inv
<1>. QED
  BY <1>1, <1>2, <1>3, TypeInvariant, PTL DEF Spec

=============================================================================
