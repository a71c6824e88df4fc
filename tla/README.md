# FreightAI: specification, model checking and proofs

FreightAI matches loads with trucks. A Telegram bot (`src/bot`) talks to shippers,
carriers and an admin; a FastAPI backend (`src/backend/app`) keeps loads, trucks,
matches, interests, notifications and trusted pairs in PostgreSQL, and pushes
Telegram messages; a worker (or a cron endpoint) runs periodic passes. This
directory holds TLA+ modules of two systems, the TLC configurations that check
them on small instances, and TLAPS proofs that hold for every instance:

- **`Marketplace`**, the backend's concurrent core: what requests, admin actions and
  passes do to loads, matches and notices when they race in one database; and
  `Brokerage`, the abstract specification it implements;
- **`Bot`**, the way there: the conversation of a person with the bot, its calls of the
  backend, accounts, the extraction limit and the delivery of one message.

They meet at the request that creates a row: `Bot` ends where the row is saved
(`Backend.CreateRow`), `Marketplace` begins there (`Requests`).

    tlc -workers 2 -config Mediation.cfg MCMarketplace.tla     # a run
    tlc -workers 2 -config Conversation.cfg MCBot.tla
    tlapm MarketplaceProofs.tla                                # the proofs
    tlapm BrokerageProofs.tla
    tlapm PassProofs.tla
    tlapm NoticeProofs.tla
    tlapm RecoveryProofs.tla
    tlapm AnnounceProofs.tla
    tlapm BotProofs.tla

## 1. Inventory

| component | state | operations | interacts with | correct when |
|---|---|---|---|---|
| Match creation, scoring (`services/matching.py`) | `matches`, `loads.status` | `score_match`, `find_best_match_for_load`, `create_match_safely` | called by loads, trucks, interests, proactive pass | one match per (load, truck); no race to create it makes a decided match PENDING again; the loser loses nothing |
| Trusted pairs (`services/trusted_pairs.py`) | `trusted_pairs` | `is_trusted_pair`, `mark_trusted` | written by the admin's connect, read by `process_new_match` | trust only comes from an admin's connection, and every connection is trusted |
| Notifications (`services/notifications.py`) | `notifications`, messages sent | `notify_*`, `broadcast_load_to_carrier`, `send_reminder`, `process_new_match` | called by all of the above; pushes to Telegram | no notice twice; contact details only to a trusted pair; no message about nothing; everybody who must know is told |
| Loads, trucks, interests (`api/loads.py`, `trucks.py`, `interests.py`) | rows of these tables | `create_load`, `create_truck`, `register_interest` | matching, notifications | a load leaves `NEW`; an interest comes with its match |
| Admin (`api/admin.py`) | statuses of matches and loads | `contact`, `connect`, `reject`, `cancel_load`, `resend_notification` | trusted pairs, notifications | an action does what it says, whatever it raced with |
| Worker (`workers/scheduler.py`, `services/proactive.py`, `api/cron.py`) | advisory locks | reminder pass, proactive pass | matching, notifications | one reminder per broadcast, to carriers only; a backhaul match is announced or does not exist |
| Database sessions (`core/database.py`) | pending writes, objects in memory | read, flush, commit, rollback | everything | nobody waits for ever |
| Users and roles (`api/users.py`, `core/security.py`, `scripts/promote_admin.py`) | `users` | `upsert_user`, `set_role`, `get_user`, promotion by script | every endpoint's role check; the bot's registration | roles never fall back; only a choice in flight can undo a promotion; the bootstrap admin stays one |
| Rate limiting (`services/rate_limit.py`) | Redis counters with expiry | `check_and_increment` | extraction endpoint | at most the limit per window, whoever counts together |
| Telegram client (`services/telegram_client.py`) | none | `send_message` with retries | notifications | True only for a message that is there; no more copies than lost answers explain |
| Bot conversation (`src/bot/bot`) | state and data per user, in Redis | `/start`, role, name, phone, free text, stepwise entry, confirm, revise | backend API with a 15 s timeout | one summary saves one row, and the one it showed; every update ends |
| Extraction (`services/extraction.py`) | none | an AI call whose answer passes a strict schema or becomes "unknown" | called behind the rate limit | any answer leads somewhere |
| Cities, config, health, webhook, audit | none or append-only | lookup, I/O | | not about ordering or concurrency |

What is hard here is one thing seen from many sides: **every request is a chain of
reads, awaits and writes in its own database transaction, races with the others
are resolved by unique constraints, and the handlers of those conflicts call
`db.rollback()`, which discards the whole transaction and not just the savepoint**.
Messages meanwhile have left and cannot be rolled back. On the bot's side it is the
same with other means: **updates of one person are handled concurrently, over state
and data that each handler reads whole, keeps over many awaits and writes back
whole, while buttons stay pressable below every old message and the backend may
finish after the bot has given up.** `PROJECT.json` lists each hazard at its line
with the properties that cover it.

## 2. Modules

    Schema            tables, rows a transaction can write, how a commit applies them
      Brokerage       the abstract specification: one atomic step per thing achieved
      Sessions        transactions, locks, stale copies, rollback, crashes
        Notifications a notice: probe, insert and push, conflict; the final commit
          Matching    search, create_match_safely, process_new_match
            Requests      create_load, create_truck, register_interest
            AdminPanel    the five admin actions
            Worker        reminder pass, proactive pass, advisory locks
              Marketplace     all of it together: Init, Next, Spec, FairSpec, properties,
                              and Promise == INSTANCE Brokerage
                Claims            what documents and comments say and the code does not do
                  MCMarketplace   instances for TLC
                MarketplaceProofs theorems and their proofs
                  BrokerageProofs the refinement, and what follows from it
                    PassProofs    the periodic passes
                      NoticeProofs no notice twice
                      RecoveryProofs what a session that dies leaves behind: loads
                        AnnounceProofs and matches

    Calls             the bot's requests to the backend, heard or given up
      Accounts        upsert_user, set_role, get_user, the operator's promotion
      RateLimit       INCR, EXPIRE and the comparison around the extraction
      Delivery        send_message: attempts, lost answers, rejections
        Backend       these three and the request that creates a row
          Dialogue    handlers of start.py and intake.py over state, data and keyboards
            Bot       people, handlers, requests, faults, time: Init, Next, Spec,
                      FairSpec, properties
              BotClaims   the statement the code does not keep
                MCBot     instances for TLC
              BotProofs   theorems and their proofs

### The backend's core

State (`Sessions`): `db` the committed tables; `tx[s]` the pending writes of session
`s`; `pc[s]` its next step; `job[s]` the locals of the request it serves. Three
variables record what left the backend and no code reads: `pushes` (sends per
notice), `reminders`, and `revealed` (pairs whose phone numbers a message
carried); `HasButton` uses the first two because a carrier can only press a button
it received. `crashes` bounds the instance, and is what properties allow for: what a
death costs is counted, not excused.

How code becomes actions:

- **A step ends where another session can interfere.** A handler is cut at every
  read of shared rows and at every flush or commit; code in between is one action.
  So `create_match_safely` is `ProbeMatch` (its SELECT), then `MatchConflict`, or
  `InsertMatch` (the INSERT, flushed alone) and `MarkMatched` (the status of the load, which its
  row gets at the next flush or commit). The admin's actions read the match
  (`AdminFetch`), then its load (`AdminFetchNext`).
- **Reads** see committed rows under the session's own writes (`View`): PostgreSQL's
  default READ COMMITTED, which `core/database.py` does not change.
- **Locks.** A write of a row or key that another transaction has pending waits:
  `CanWrite` disables the action. When the other one commits, an insert becomes the
  conflict action; when it rolls back, the insert goes on. A flush or commit takes all
  its rows in one step, what different statements flush is taken one after the other: a session
  holds the key of its new match while it waits for the row of the load.
- **Stale copies.** `expire_on_commit=False` and the identity map keep loaded
  objects as they were read: `job.memo` (statuses of loads) and `job.match`. An
  assignment writes a column only if it differs from that copy (`Assign`), which is
  how a stale status is written over a newer one, or not written at all. The
  copies kept are those the handler still references.
- **Rollback** (`Abandon`) drops all pending writes and expires the objects. The
  async session cannot refresh an attribute implicitly, so the next use of `load`,
  `match`, `notif` or `admin` raises and the request fails; the one exception is the duplicate
  interest, whose handler touches nothing afterwards and is a no-op (it is the guard
  `m \notin db.interests` of `PressInterest`).
- **Crash** is `Abandon` at any moment: sent messages stay sent.
- **Notices.** Each `notify_*` function is the list of notices it creates
  (`MatchNotices`, `InterestNotices`), walked by `ProbeNotice` and `SendNotice`. The
  push happens after the flush and before the commit, as in the code.
- **Data.** Cities, truck types and the columns of a truck do not change once
  stored, so `Score`, `TypeFits`, `Backhaul`, `Free` and `OnTrip` are constants.
  Time is a choice: any set of trucks may be near its ETA, any set of broadcasts
  old enough for a reminder.
- **Reminder rows.** `reminder_sent` is a set of its own (`reminded`): an UPDATE writes
  only changed columns, so it does not overwrite the status. The two updates of one
  row do wait for each other in PostgreSQL; the model leaves that wait out,
  because whoever holds the row needs nothing of the other one and goes on.
- The second INSERT that `create_load` and `create_truck` make is the audit log:
  append-only, without conflicts, left out.

### The abstract specification

`Brokerage` has four variables (statuses of loads and matches, interests, trust) and
no sessions: a load is posted, waits or is cancelled; matches are proposed, all of
a commit at once; a carrier expresses interest; an admin contacts, rejects or connects;
trusted people connect by themselves. Marketplace maps the committed tables to these
variables, so every commit of every interleaving has to be one of these steps, and a
rollback none. What it forbids is half of something: trust without the connection,
a connection without trust, an interest without its match, a MATCHED load without
a new match, a match that is made twice. What it leaves open is what the code leaves
open: a decision is taken on statuses read earlier, so the load of a decided match may
keep its own status (`Decide`), and a load may be opened although an admin has
cancelled it meanwhile (`Wait`).

### The bot's side

- **Two halves of a slot.** aiogram handles updates concurrently; each has a slot, with
  the handler (`bot[h]`) and the request it has made (`call[h]`). After 15 s the
  handler goes on with an error and the request continues unheard (`Hears`, `heard`).
  A slot is free again when both are done.
- **A handler is the list of awaits it still has to do** (`Script`, `todo`), and each
  await is a step: `set_state`, `get_data` and `set_data` (aiogram's `update_data` is the
  first followed by the second: two handlers can lose each other's fields), an
  answer with a keyboard, an edit of one, a call. What comes after a decision or an
  answer is a new list. The state that selects the handler is read when the update
  arrives.
- **Keyboards** (`reply`) are named by the update they answer. A button can be
  pressed any number of times, also after the keyboard is gone (pressed twice,
  delivered late); `edit_reply_markup` without a change is refused by Telegram and the
  handler fails, which is all that stands between two presses of Confirm.
- **Texts** have no content. An update is its own name; `parsed` is the update that brought
  the content, `about` whose request it is. What the AI makes of a text is any of
  `Understood`.
- **Accounts.** The SELECT and the INSERT or UPDATE of `upsert_user` and `set_role` are
  steps of their own; the UPDATE compares with the role that was read. The savepoint of
  `get_or_create` loses only itself, unlike those of the core.
- **Rate limit.** The window's number, INCR, EXPIRE and the comparison are separate;
  `admitted` counts what was admitted in a window by the INCRs that reached Redis in it.
- **Delivery.** `sends[h]` is the latest message of the request: attempts made, copies in
  the chat, answers lost. `httpx.ProtocolError` leaves `send_message` and fails the
  request, after the commit.
- **Faults.** A handler may die (`HandlerDies`), a request or its connection too
  (`BackendDies`); state and data in Redis, rows and keyboards stay as they are.

## 3. Runs

The runs of the core use the module `MCMarketplace`, those of the bot's side `MCBot`.
`CHECK_DEADLOCK FALSE` everywhere: each load and truck is registered once and each
update arrives once, so an instance runs out of work, and nothing obliges anyone to
press a button. Sessions or handlers stuck on each other are not excused by this:
that is what `RequestsEnd` and `UpdatesEnd` are for.

| run | instance | shows |
|---|---|---|
| `Mediation` | 2 loads and 1 truck of the same two people, 2 sessions, 1 crash; register, contact, connect | `TypeOK`; `ConnectedOnlyIfTrusted`, `RevealedOnlyIfTrusted`, `TrustComesWithConnection` (who may be CONNECTED, shown a phone number, trusted); `MatchFoundHasMatch` (no announcement of a match that is not stored); `NewLoadsAccountedFor` (at most as many loads are left `NEW` as sessions died); `KeepsPromise` (every commit is a step of `Brokerage`) |
| `Races` | 1 load, 2 free trucks of one carrier, 2 sessions, 1 crash, pushes may fail; also cancel, reminders | `NoDuplicatePush`, `RemindedOnce`: no notice or reminder more often than once, and once more for the session that died, without the proactive pass and with one admin |
| `Backhaul` | 1 load, 1 free truck, 1 truck on a trip, 2 sessions, 1 crash; also reject, resend | `InterestHasMatch`, `BackhaulAllOrNothing`, `DecisionsStay`: interest, match, notices and decisions stay whole when pass, interest and admin race; `MatchesAnnounced`: at most as many matches are left without their notices as sessions died; `KeepsPromise` again, for interests, rejections and the pass (with one load and one truck on a trip a commit holds one match; that it may hold several is what the proof adds) |
| `Liveness` | 2 loads, 1 free truck, 1 on a trip, 2 sessions, `FairSpec`, no crash | `RequestsEnd` (no circular wait, also of sessions that hold the key of a match and wait for its load or a notice), `NewLoadsAreSettled` (a load leaves `NEW`) |
| `Conversation` | one person who is known or in the middle of an entry, 4 updates, 2 slots, 1 timeout, 1 fault, limit 1, two attempts per message | `BotTypeOK`; `OneSavePerSummary`, `WithinLimit`, `CopiesAccountedFor` |
| `Registration` | two people, possibly new, one of them the bootstrap admin, 3 updates, 2 slots, the operator's promotion, `FairSpec` | `BootstrapAdminStays`, `RoleNeverFallsBack`, `OnlyStaleChoiceDemotes`, `UpdatesEnd` |

Every property has a mutant in `PROJECT.json`: a plausible slip in the code (a
dropped constraint, a missing commit, a wrong enum, a lock always granted) under
which the same run finds the property violated.

Bounds. Two sessions are enough for every conflict in the code, which is always
between one transaction and one other that holds or has committed the key; the
second load or truck is there where a property needs it (a second match of a pair
for auto-connect, a truck whose carrier hears of a load by broadcast). `MaxPushes`
is one more than a property allows where a property counts, and 1 elsewhere (counters
saturate, they never block). `MaxCrashes` bounds deaths, not their place. `Workload` selects which
requests an instance makes, to keep it small. `SessionSymmetry` is used only
in runs without liveness; sessions are interchangeable. The admin is one user, or
nobody in `Liveness`, where its notice only lengthens every list.

In the bot's runs the bounds are the updates (each is one press or text), `MaxTimeouts`,
`MaxFaults` and `MaxClock`. A summary needs one update and two presses of its button two
more; the fourth is a second text or a `/start` in between. `Beginnings` puts the
person near the end of an entry, so that the updates are spent on what can go wrong.
`Conversation` runs in one window of the limiter (`Window` 2, `MaxClock` 1): time passes
between INCR and EXPIRE, but the next window does not begin; the step from one window
to the next, and any limit, is what the proof of `ExtractionLimitHolds` adds. Two
attempts stand for the three backoffs of the code. `BotSymmetry` (updates and slots)
is used only without liveness.

Fairness. `FairSpec` gives each session weak fairness of its own next step (`Step`),
never of starting anything: the event loop runs ready coroutines, PostgreSQL grants
a free lock, and the Telegram client has a timeout and bounded retries. Crashes are
excluded in the liveness instance: after one, a load does stay `NEW` for good,
since nothing in the code looks at `NEW` loads. `FairSpec` of `Bot` is the same for
slots: a handler or request that can go on does (asyncio, Redis, PostgreSQL, and a
Telegram that answers or times out); nobody has to write anything, no clock has to tick.

### Disagreements between code and documents

Each run states what a document or comment promises (`Claims`) and finds it violated.

| run | promise | what happens |
|---|---|---|
| `ConnectAgain` | `mark_trusted` is safe "even if this pair is already trusted" (`trusted_pairs.py:35`) | A pair is trusted; a carrier of the pair presses "interested" in another load of the same shipper, which makes a PENDING match; the admin connects it; the duplicate pair is rolled back with the new statuses, and the request fails. The match can never be connected by hand. |
| `LosingTheRace` | the loser of a race "rolls back its SAVEPOINT, and fetches the row the winner created instead of erroring" (`SECURITY.md:174`) | The interest is inserted, the proactive pass commits the same match, the match insert conflicts: `db.rollback()` takes the interest along and the request fails. |
| `ShipperReminded` | reminders go "to carriers who haven't responded" (`README.md:88`) | The shipper's "still searching" notice is a BROADCAST row; the reminder pass reminds the shipper, with the button for carriers. |
| `SecondInterest` | "carrier presses interested → admin + shipper notified" (`README.md:89`) | The notice's key is (user, load, type): the second carrier's interest finds the first one's rows and is announced to nobody. |
| `StaleConfirm` | AI output is never saved "without the user explicitly confirming it first" (`intake.py:8-10`, `README.md:55`) | Two texts sent quickly are understood concurrently and each shows its summary; the data hold the later `parsed`. Confirm below the first summary saves the second one's content. |
| `DuplicateNotice` | the constraint is the guarantee against duplicates, "even if called concurrently" (`notifications.py:3-6`) | The proactive pass pushes notices of a first match, then conflicts on a second one: the rows of delivered messages are rolled back, and the next pass sends them again. |

Seen while modelling, without a run:

- a reminder pass that selected a row before the carrier's interest still reminds, and
  reminds again after a crash before its commit;
- a load and a truck that register at the same time each search before the other is
  visible, and stay side by side;
- a handler that dies between taking the keyboard away and the end of its request leaves
  the conversation in `reviewing` without a button: no text is answered, only `/start`
  helps;
- `security.py:8-10` makes a bootstrap admin "when no admin exists yet", the code whenever
  the chat id fits; the docstring of `promote_admin.py` says "or to demote one", the
  script cannot;
- the limits of the scopes messages, loads and trucks (`SECURITY.md:150` and the
  following lines) exist in a table and are never checked;
- `send_message` "Never raises", except for `httpx.ProtocolError`; a 429 is a rejection
  and not retried;
- a truck whose carrier wants "any" destination (`intake.py:205`) is stored without one, and
  `score_match` then finds it equal to no load that has one.

## 4. Proofs

### The backend's core

`MarketplaceProofs` proves, for any finite or infinite sets of loads, trucks, users and
sessions, any workload and any scores:

- `TypeCorrect`: `Spec => []TypeOK`
- `ConnectedAreTrusted`: `Spec => []ConnectedOnlyIfTrusted`
- `RevealedAreTrusted`: `Spec => []RevealedOnlyIfTrusted`
- `TrustIsEarned`: `Spec => TrustComesWithConnection`

Assumptions: `SchemaAssumption` (owners are users, relations are between loads and
trucks), `BoundAssumption`, `SendAssumption`. No assumption on the workload is needed.

The argument. None of the three invariants is inductive: a session commits
writes it decided on earlier, and sends messages its list was made of earlier. `IInv`
adds what connects then and now:

- `DataInv`: the pending writes of every session are *safe*: each CONNECTED among
  them is of a pair that is committed as trusted, and no pair is pending, so a
  session that finds a pair trusted has found it in the committed table.
- `ControlInv`: the job of a session is *ready* for its phase (it knows its load and truck
  where the phase uses them), and as long as a notice with contact details is on
  its list, the pair is trusted. An admin's stale copy of a match that says
  CONNECTED is of a trusted pair: this is why a connect always changes the match,
  which `TrustIsEarned` needs.
- `OutsideInv`: what was revealed is committed trust.

All three survive because trust only grows: whatever was read about it stays true.
The lemmas say what a commit, a flush, a rollback and a change of phase need in order
to keep the parts (`CommitSafe`, `StageSafe`, `DropSafe`, `GotoReady`, `StartReady`,
`NextReady`); then there is one lemma per action. For `TrustIsEarned`,
`OnlyConnectTrusts` goes through all other actions and `ConnectMakesConnected` looks
at the one that remains.

### The refinement

`BrokerageProofs` builds on it, from the same assumptions:

- `BackendKeepsPromise`: `Spec => KeepsPromise`, that is, `Marketplace` implements `Brokerage`
- `InterestsAreSeen`: `Spec => []InterestHasMatch`
- `MessagesAreTrue`: `Spec => []MatchFoundHasMatch`
- `DecisionsAreKept`: `Spec => DecisionsStay`

The invariant is `IInv` and `BInv`, which is proved together with the step simulation
(`NextPromised`): an action commits what was prepared many steps earlier, so that the
commit is a step of `Brokerage` has to be known all the time.

- `SessionsFit`, first half (`Fit`): what a session has pending is *whole*, that is, its
  commit would be a proposal, an interest in a stored match, the connection of a trusted
  pair, or unseen. The one exception is an interest whose match is still being looked for
  or inserted: its next steps do not commit. Between `InsertMatch` and `MarkMatched` the
  match itself is known to be pending. Whole writes stay whole when others commit
  (`WholeStays`): a PENDING is of a match that does not exist, its key is locked
  (`CanWrite`), so nobody else can make it exist; and rows, once stored, stay.
- `SessionsFit`, second half (`Knows`): the match that a session acts on or announces is
  stored. This is what `MatchFoundHasMatch` needs: callers commit the match before they
  start the list of its notices.
- `NewbornInv`: between the two commits of `create_load` nobody else has heard of the load:
  no row and no message mentions it, no session has it on a list or writes to it, and its
  own session is alone with it; only an admin may cancel it. Without this, the commit
  that opens the load (`Wait`) could overwrite any status. It shows that the stale copy of
  `api/loads.py:87` can overwrite a cancellation, and nothing else.
- The admin's decisions are steps by themselves: both statuses of a decision are those
  `Decide` allows, or are not written since the stale copy has them (`StatusDecides`).

`DecisionsAreKept` then needs nothing of the backend any more: among the steps of
`Brokerage` only `Propose` writes PENDING, and only to what is absent (`BrokerageDecides`).

### The passes

`PassProofs` proves what the periodic passes promise:

- `BackhaulsAreTold`: `Spec => []BackhaulAllOrNothing`
- `RemindersOnce`: `Spec => []RemindedOnce`

`TellInv`, the invariant of the first, says that a pending match of a truck on a trip is
asked for by its carrier, or else each of its notices exists, is pending in the same
transaction, or is still on the session's list. Commits come only from phases without a
list, so what becomes visible is told of. Matches that requests look for do not count:
the trucks they find are free, and no free truck is on a trip (`SchemaAssumption`).

`RemindInv`, the invariant of the second, says that a reminder that was sent is remembered
by the table or by the pass that sent it, or else a session has died for it; that the pass is
alone, and that it has nothing left to do that the table or itself remembers. So each
broadcast is reminded of once, and once more per death (`reminders[k] <= 1 + crashes`): a pass that dies has
sent reminders that nobody remembers, and the next one sends them again.

### No notice twice

`NoticeProofs` proves when a rollback discards nothing that was sent:

- `NoNoticeTwice`: no proactive pass in `Workload` and at most one admin imply
  `Spec => []NoDuplicatePush`

A notice is pushed while its row is pending. It is pushed again if a later notice of
the same list meets a conflict, whose handler rolls the row back. Every list about a load and of one
kind begins with the shipper and ends with the admin, and this makes the shipper's row a
lock: who inserts it holds it until the commit, and who finds it stored finds the admin's
stored too (`StoredInOrder`), because both were committed together. So a conflict happens on the first
notice of a list that is really sent, with nothing pending (`ConflictIsEarly`). `PushInv` adds that
a broadcast is sent by the request that created its load and by nobody else (`Apart`),
that what is pending does not exist yet, and that what was pushed is stored or pending, or was lost
with a session that died: `pushes[k] <= 1 + crashes`.

Both assumptions are needed. The proactive pass holds the notices of several loads in one transaction (run `DuplicateNotice`). And a second admin breaks
the lock, which the proof brought to light: the shipper's row is there, the row of the
admin who presses *resend* is not, and two resends of matches of one load meet there with
the carrier's notice already sent. TLC finds this on the instance of `Races` with resends, once it has two
carriers, two admins and no fits.

### What a death leaves behind

`RecoveryProofs` and `AnnounceProofs` prove that what is left half done is the fault of a death
and of nothing else:

- `LoadsAreNotLost`: `Spec => []NewLoadsAccountedFor`
- `MatchesAreAnnounced`: `Spec => []MatchesAnnounced`

`create_load` commits its load as `NEW` and takes it out of there in a later transaction; nothing
else looks at `NEW` loads. `SettleInv` says who can know of a load before that: nobody. Every stored
match, every notice stored or sent, and all that a session has pending or works on is about loads
that are *settled* (`Heard`, `OnlySettled`, `JobSettled`); the exceptions are the request that
creates the load and an admin who cancels it. So no conflict can end that request while
its load is `NEW`: there is nobody to race with. A load stays settled whatever is written over
its status, since nobody writes `NEW`. Hence only `Crash` adds to `Stranded`, and it adds one load at
most, as a session creates one load (`CrashKeepsFew`).

For matches there is a race to lose: a notice that another session has written ends the request
that announces the match, and so does a conflict of the pass. `AnnounceInv` says why nobody is
left out. Whatever notice about a load a session has pending or on its list, the notices of the same kind to
the shipper and to an admin are stored, pending in the same transaction or on the same
list (`InformsAll`, and `StoredInforms` of what is committed). So a request that meets a conflict meets
it with a notice that somebody committed together with the rest of its list: the load is
announced. A match is committed only by a session that goes on to announce it
(`Carries`), or together with its notices when the proactive pass makes it (`InformsOnTime`:
apart from the step after its insert and the interest it was made for, no match is pending without
them). Then only
`Crash` adds to `Unannounced`, one match at most.

Note what this does not say: the announcement is of the load, by the notice's key (user, load,
type). The second match of a load can be silent for its carrier, and the run `SecondInterest` shows that.

### The bot's side

`BotProofs` proves every safety property of the runs of `Bot`, for any people, updates,
slots, bounds, limit and window:

- `BotTypeCorrect`: `Spec => []BotTypeOK`
- `OneRowPerSummary`: `Spec => []OneSavePerSummary`
- `ExtractionLimitHolds`: `Spec => []WithinLimit`
- `BootstrapStaysAdmin`: `Spec => []BootstrapAdminStays`
- `RolesStay`: `Spec => RoleNeverFallsBack`
- `DemotionIsStale`: `Spec => OnlyStaleChoiceDemotes`
- `CopiesExplained`: `Spec => []CopiesAccountedFor`

Assumptions, each in the module that declares its constants: `NamesAssumption` (the value
for "nothing" is neither a person nor an update), `BootstrapAssumption`,
`RateAssumption`, `AttemptsAssumption`, `DialogueAssumption`, and
`BeginningsAssumption` (what may be stored at the start).

- **Types.** `TypeInv` is `BotTypeOK` with what the next steps need: a request and a handler know
  whom they serve and, where they use it, the role (`CallReady`, `BotReady`); a message
  on its way has failed so far, and its copies are those whose answers were lost
  (`SendReady`), which is what `CopiesExplained` rests on.
- **Roles.** `RoleInv`: a choice of role that is about to be written is not the bootstrap
  admin's, and the person has a row; that its `seen` is no admin's is part of the types.
- **Confirm.** `OneSavePerSummary` follows from the order *strip, get, create*. `SaveInv`: as long
  as the keyboard of a summary is there, nobody is submitting it and nothing is saved;
  afterwards at most one handler or request can still save, and none once something is
  saved. It needs that only the Confirm handler submits and has exactly these awaits left
  (`HandlerInv`), that no two handlers work for one update (`OwnUpdates`), and that who has
  answered only changes the state any more, so a keyboard that was taken away does not
  come back.
- **Limit.** `WithinLimit` says nothing about counters, `LimitInv` does. Until the window of a key
  ends, the key lives (`KeyFine`: its expiry was set inside the window or is not set yet,
  and lies beyond the end in either case), its count is at least what was admitted, and whoever
  made it 1 is alone and can still be admitted. Nobody counts in a window that has
  not begun. `Windows` is the lemma on the division that this needs.

### Only model-checked

Every invariant and action property of a passing run is proved, `NoDuplicatePush` under the
assumptions named above. Liveness (`RequestsEnd`,
`NewLoadsAreSettled`, `UpdatesEnd`) and ENABLED are out of the prover's reach.

## 5. Not modelled, and plan

Not modelled:

- configuration, health, webhook transport, logging, the audit log and request schemas:
  input and output, startup checks, append-only;
- the AI's prompt and the parsing of its answer (the model chooses any outcome that
  passes the schema), and the table of city names;
- the throttle of `middlewares.py` (a throttled update is one that was not sent) and the
  admin panel of the bot, which displays and forwards; the handler of the interest button
  (`intake.py`), whose effect is `Requests.PressInterest` with any truck of the carrier;
- `proactive_scan_done` (written, never read); `truck_count` and other columns no decision
  reads; statuses no code writes (`COMPLETED`, `CONFIRMED` and so on exist in the types
  only); the read-only endpoints.

Plan, in this order:

1. `Scoring`: `score_match` and the stable sort over bounded inputs against a reference
   definition.
2. `Waiting`: which row locks a session holds and which its next step takes
   (`matching.py` `create_match_safely`, `notifications.py`), with the invariant that
   sessions never wait for each other in a circle, proved by ranking the rows in the
   order every session takes them. Until then the hazard of crossed locks
   (`matching.py:108`) is covered by `RequestsEnd` alone.
