--------------------------------- MODULE Bot --------------------------------
(***************************************************************************)
(* People, the bot and the backend together: updates that arrive at any    *)
(* time, handlers and requests that interleave, time out and die.          *)
(***************************************************************************)
EXTENDS Dialogue

CONSTANTS
  Beginnings,   \* where a person may stand at the start: [role, fsm, data]
  Promotable    \* people whom the operator may promote

ASSUME BeginningsAssumption ==
  /\ Beginnings \in [People -> SUBSET [role : UserRole \cup {NoRow},
                                       fsm : States, data : Data]]
  /\ Promotable \subseteq People
  /\ \A p \in Bootstrap : \A b \in Beginnings[p] : b.role \in {NoRow, "ADMIN"}

\* The users table and Redis keep what was there before; nothing is in work.
Init ==
  /\ BackendInit
  /\ \E b \in [People -> UNION {Beginnings[p] : p \in People}] :
       /\ \A p \in People : b[p] \in Beginnings[p]
       /\ users = [p \in People |-> b[p].role]
       /\ fsm = [p \in People |-> b[p].fsm]
       /\ data = [p \in People |-> b[p].data]
  /\ bot = [h \in Slots |-> NoBot]
  /\ reply = [u \in Updates |-> NoReply]
  /\ timeouts = 0
  /\ faults = 0

Arrive(h) ==
  \E u \in Updates :
    \/ \E p \in People : StartCommand(h, u, p) \/ Text(h, u, p)
    \/ \E b \in Updates : Press(h, u, b)

Work(h) ==
  \/ BotStep(h)
  \/ BackendStep(h) /\ UNCHANGED <<dialogueVars, timeouts, faults>>

Fault(h) ==
  /\ faults < MaxFaults
  /\ faults' = faults + 1
  /\ \/ HandlerDies(h)
     \/ BackendDies(h) /\ UNCHANGED dialogueVars
  /\ UNCHANGED timeouts

Operator ==
  \E p \in Promotable :
    Promote(p) /\ UNCHANGED <<limitVars, sends, saves, dialogueVars, timeouts, faults>>

Time == Tick /\ UNCHANGED <<users, sends, saves, dialogueVars, timeouts, faults>>

Next ==
  \/ \E h \in Slots : Arrive(h) \/ Work(h) \/ Fault(h)
  \/ Operator \/ Time

Spec == Init /\ [][Next]_vars

\* A handler and a request that can go on do: asyncio runs them, Redis,
\* PostgreSQL and Telegram answer or time out.  Nobody has to write anything.
FairSpec == Spec /\ \A h \in Slots : WF_vars(Work(h))

-----------------------------------------------------------------------------
(* Invariants *)

\* Every variable holds a value of its type (all modules of the bot's side).
BotTypeOK ==
  /\ call \in [Slots -> CallRecords]
  /\ users \in [People -> UserRole \cup {NoRow}]
  /\ clock \in 0..MaxClock
  /\ counters \in [Keys -> [count : Nat, expires : Nat]]
  /\ admitted \in [Keys -> Nat]
  /\ sends \in [Slots -> Sends]
  /\ saves \in [Updates \X Updates -> Nat]
  /\ fsm \in [People -> States]
  /\ data \in [People -> Data]
  /\ bot \in [Slots -> Bots]
  /\ reply \in [Updates -> Replies]
  /\ timeouts \in 0..MaxTimeouts
  /\ faults \in 0..MaxFaults

\* However often and however fast the Confirm button of one summary is pressed,
\* and whatever becomes of the requests it makes, at most one row comes of it:
\* only the handler that took the keyboard away submits (confirm_yes).
OneSavePerSummary ==
  \A u \in Updates : \A c, d \in Updates :
    saves[<<u, c>>] > 0 /\ saves[<<u, d>>] > 0 => c = d /\ saves[<<u, c>>] = 1

\* No more than Limit extractions of one person are admitted in one window,
\* among those whose INCR reaches Redis in that window: two handlers of one
\* person cannot share a count, and the counter outlives its window
\* (check_and_increment).
WithinLimit == \A k \in Keys : admitted[k] <= Limit

\* The person with TELEGRAM_ADMIN_CHAT_ID is an admin from the first contact on
\* and remains one: no race of two first contacts, and no role button, makes
\* the row anything else (upsert_user, set_role).
BootstrapAdminStays == \A p \in Bootstrap : users[p] \in {NoRow, "ADMIN"}

\* A message is in the chat at most once more than there were answers lost on
\* the way, and send_message does not return True unless it is there
\* (send_message).
CopiesAccountedFor ==
  \A h \in Slots :
    /\ sends[h].copies <= sends[h].lost + 1
    /\ sends[h].result = "true" => sends[h].copies = sends[h].lost + 1

-----------------------------------------------------------------------------
(* Action properties *)

\* Who has a row keeps it, and who has chosen a role never falls back to UNSET:
\* a /start that raced with the registration cannot replace the row it has not
\* seen (get_or_create, set_role).
RoleNeverFallsBack ==
  [][\A p \in People :
       /\ users[p] # NoRow => users'[p] # NoRow
       /\ users[p] \in Roles \cup {"ADMIN"} => users'[p] # "UNSET"]_vars

\* An admin whom the operator made one loses that only to a choice of role that
\* the backend had begun to serve before: a button that is pressed later, below
\* whatever old message, is refused (set_role).
OnlyStaleChoiceDemotes ==
  [][\A p \in People :
       users[p] = "ADMIN" /\ users'[p] # "ADMIN" =>
         \E h \in Slots : At(h, "write") /\ call[h].who = p /\ call[h].seen # "ADMIN"]_vars

-----------------------------------------------------------------------------
(* Liveness *)

\* Every update that is taken up is done with in the end, with its request:
\* handlers of one person wait for nothing that another one holds, and no
\* retry goes on for ever.
UpdatesEnd == \A h \in Slots : ~ Free(h) ~> Free(h)
=============================================================================
