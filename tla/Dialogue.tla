------------------------------ MODULE Dialogue ------------------------------
(***************************************************************************)
(* The bot's conversation: bot/handlers/start.py and intake.py on top of   *)
(* aiogram 3 with its state and data in Redis.                             *)
(*                                                                         *)
(* The updates of one person are handled concurrently.  The state that     *)
(* selects a handler is read when the update arrives; update_data reads    *)
(* the whole record of the person and later writes it back.  A handler is  *)
(* the list of awaits it still has to do (`todo`):                         *)
(*   a state              set_state                                        *)
(*   get, put, keep       get_data; set_data with or without a change of   *)
(*                        the fields the model keeps                       *)
(*   clear                set_data({})                                     *)
(*   remember             get_data, for the role only                      *)
(*   show, roles, yes_no  answer with a keyboard                           *)
(*   strip, edit          edit_reply_markup(None), edit_text               *)
(*   decide               no await: what follows depends on the data read  *)
(*   a call               a request to the backend                         *)
(***************************************************************************)
EXTENDS Backend

CONSTANTS
  MaxTimeouts,   \* bound: how often a handler gives up on the backend
  MaxFaults      \* bound: handlers and requests that die half-way

ASSUME DialogueAssumption == MaxTimeouts \in Nat /\ MaxFaults \in Nat

VARIABLES
  fsm,        \* fsm[p]: the state of p's conversation
  data,       \* data[p]: its data
  bot,        \* bot[h]: the handler at work in slot h
  reply,      \* reply[u]: the keyboard under the bot's reply to update u
  timeouts, faults

dialogueVars == <<fsm, data, bot, reply>>
vars == <<call, backendVars, dialogueVars, timeouts, faults>>

-----------------------------------------------------------------------------
TextStates == {"name", "phone", "awaiting_request", "current_city",
               "destination", "truck_count", "truck_type",
               "trip_destination", "trip_eta"}
States == TextStates \cup {"no_state", "has_trip", "reviewing"}

Handlers == TextStates \cup {"start", "role", "yes", "no", "confirm", "revise"}

Awaits == States \cup CallOps \cup
  {"get", "put", "keep", "clear", "remember", "decide",
   "show", "roles", "yes_no", "strip", "edit"}

Data == [role   : Roles \cup {None},
         entry  : {"truck", "load", None},     \* entry_type
         parsed : Updates \cup {None},         \* the update that brought `parsed`,
         about  : Roles \cup {None}]           \* and whose request it is
NoData == [role |-> None, entry |-> None, parsed |-> None, about |-> None]

Same == "same"     \* update_data leaves the field alone
Patches == [role   : Roles \cup {None, Same},
            entry  : {"truck", "load", Same},
            parsed : Updates \cup {Same},
            about  : Roles \cup {Same}]
NoPatch == [role |-> Same, entry |-> Same, parsed |-> Same, about |-> Same]

Bots == [on     : Handlers \cup {None},
         who    : People \cup {None},
         update : Updates \cup {None},
         button : Updates \cup {None},     \* the update under whose reply the
                                           \* button was pressed
         role   : Roles \cup {None},       \* the local variable role
         copy   : Data,                    \* what get_data returned
         patch  : Patches,
         todo   : Seq(Awaits)]
NoBot == [on |-> None, who |-> None, update |-> None, button |-> None,
          role |-> None, copy |-> NoData, patch |-> NoPatch, todo |-> <<>>]

\* A reply: whose it is, what it offers, and whether its keyboard is in place.
Replies == [to     : People \cup {None},
            offers : {"nothing", "roles", "yes_no", "summary"},
            live   : BOOLEAN]
NoReply == [to |-> None, offers |-> "nothing", live |-> FALSE]

-----------------------------------------------------------------------------
\* The awaits of each handler up to its first decision or answer.
ConfirmScript_KeepKeyboard == <<"get", "create">>
ConfirmScript == <<"strip", "get", "create">>

Script(on) ==
  CASE on = "start"            -> <<"no_state", "clear", "upsert">>
    [] on = "role"             -> <<"set_role">>
    [] on \in {"name", "phone"} -> <<"get", "keep", "upsert">>
    [] on \in {"awaiting_request", "destination", "truck_type"}
                               -> <<"get", "decide">>
    [] on = "current_city"     -> <<"get", "keep", "destination">>
    [] on = "truck_count"      -> <<"get", "keep", "truck_type">>
    [] on = "trip_destination" -> <<"get", "keep", "trip_eta">>
    [] on = "trip_eta"         -> <<"get", "put", "show", "reviewing">>
    [] on = "yes"              -> <<"get", "keep", "strip", "trip_destination">>
    [] on = "no"               -> <<"get", "keep", "strip",
                                    "get", "put", "show", "reviewing">>
    [] on = "confirm"          -> ConfirmScript
    [] on = "revise"           -> <<"remember", "strip", "awaiting_request",
                                    "get", "put">>

\* update_data(parsed=..., role=role) with what update u has completed.
Parsed(u, role) ==
  [NoPatch EXCEPT !.role = role, !.parsed = u, !.about = role]

\* A truck that is entered step by step is complete after these.
FirstPatch(on, u) ==
  IF on \in {"trip_eta", "no"} THEN Parsed(u, "CARRIER") ELSE NoPatch

Free(h) == bot[h] = NoBot /\ call[h] = NoCall

\* Update u of person p arrives and is handled in slot h.
Handle(h, u, p, on, button, role) ==
  /\ Free(h)
  /\ reply[u].to = None
  /\ reply' = [reply EXCEPT ![u] = [NoReply EXCEPT !.to = p]]
  /\ bot' = [bot EXCEPT ![h] =
       [NoBot EXCEPT !.on = on, !.who = p, !.update = u, !.button = button,
                     !.role = role, !.patch = FirstPatch(on, u), !.todo = Script(on)]]
  /\ UNCHANGED <<call, backendVars, fsm, data, timeouts, faults>>

StartCommand(h, u, p) == Handle(h, u, p, "start", None, None)

\* A text; in a state that waits for a button it is ignored.
Text(h, u, p) == fsm[p] \in TextStates /\ Handle(h, u, p, fsm[p], None, None)

\* A button below a reply.  It may arrive after the keyboard is gone: it was
\* pressed twice, or Telegram delivers it again.
Press(h, u, b) ==
  LET p == reply[b].to
  IN  \/ /\ reply[b].offers = "roles"
         /\ \E r \in Roles : Handle(h, u, p, "role", b, r)
      \/ /\ reply[b].offers = "yes_no" /\ fsm[p] = "has_trip"
         /\ \E answer \in {"yes", "no"} : Handle(h, u, p, answer, b, None)
      \/ /\ reply[b].offers = "summary" /\ fsm[p] = "reviewing"
         /\ \E answer \in {"confirm", "revise"} : Handle(h, u, p, answer, b, None)

-----------------------------------------------------------------------------
(* The awaits of a handler. *)

Does(h, x) == bot[h].todo # <<>> /\ Head(bot[h].todo) = x

\* The handler is b from now on; one that has nothing left to do has ended.
Become(h, b) == bot' = [bot EXCEPT ![h] = IF b.todo = <<>> THEN NoBot ELSE b]

Continue(h, b) == Become(h, [b EXCEPT !.todo = Tail(@)])
Raise(h)       == bot' = [bot EXCEPT ![h] = NoBot]

SetState(h) ==
  \E st \in States :
    /\ Does(h, st)
    /\ fsm' = [fsm EXCEPT ![bot[h].who] = st]
    /\ Continue(h, bot[h])
    /\ UNCHANGED <<data, reply>>

GetData(h) ==
  LET d == data[bot[h].who]
  IN  /\ \/ Does(h, "get") /\ Continue(h, [bot[h] EXCEPT !.copy = d])
         \/ Does(h, "remember") /\ Continue(h, [bot[h] EXCEPT !.patch.role = d.role])
      /\ UNCHANGED <<fsm, data, reply>>

\* The second half of update_data: the record as it was read, with the changes.
Patched(d, patch) ==
  [f \in DOMAIN d |-> IF patch[f] = Same THEN d[f] ELSE patch[f]]

SetData(h) ==
  LET b == bot[h]
  IN  /\ \/ Does(h, "put") /\ data' = [data EXCEPT ![b.who] = Patched(b.copy, b.patch)]
         \/ Does(h, "keep") /\ data' = [data EXCEPT ![b.who] = b.copy]
         \/ Does(h, "clear") /\ data' = [data EXCEPT ![b.who] = NoData]
      /\ Continue(h, b)
      /\ UNCHANGED <<fsm, reply>>

\* An answer with a keyboard.
Offer(h) ==
  /\ \E kb \in {<<"show", "summary">>, <<"roles", "roles">>, <<"yes_no", "yes_no">>} :
       /\ Does(h, kb[1])
       /\ reply' = [reply EXCEPT ![bot[h].update].offers = kb[2],
                                 ![bot[h].update].live = TRUE]
  /\ Continue(h, bot[h])
  /\ UNCHANGED <<fsm, data>>

\* The keyboard of the reply whose button was pressed goes away.  Telegram
\* refuses an edit that changes nothing, and the handler fails; another text
\* (edit_text after the choice of another role) is a change.
Edit(h) ==
  LET b == bot[h]
  IN  /\ Does(h, "strip") \/ Does(h, "edit")
      /\ \/ /\ reply[b.button].live \/ Does(h, "edit")
            /\ reply' = [reply EXCEPT ![b.button].live = FALSE]
            /\ Continue(h, b)
         \/ ~ reply[b.button].live /\ Raise(h) /\ UNCHANGED reply
      /\ UNCHANGED <<fsm, data>>

AwaitStep(h) ==
  /\ SetState(h) \/ GetData(h) \/ SetData(h) \/ Offer(h) \/ Edit(h)
  /\ UNCHANGED <<call, backendVars, timeouts, faults>>

-----------------------------------------------------------------------------
(* Decisions on the data read. *)

\* The handler's further awaits, and what it will write.
Go(h, todo, patch) ==
  Become(h, [bot[h] EXCEPT !.todo = todo, !.patch = patch])

\* got_free_text: the role from the data of the conversation, else from the
\* backend.
DecideRole(h) ==
  LET role == bot[h].copy.role
  IN  /\ bot[h].on = "awaiting_request"
      /\ IF role \in Roles
           THEN Become(h, [bot[h] EXCEPT !.role = role, !.todo = <<"extract">>])
           ELSE Go(h, <<"get_user">>, NoPatch)

DecideDestination(h) ==
  /\ bot[h].on = "destination"
  /\ Go(h, <<"get", "keep",
             IF bot[h].copy.entry = "load" THEN "truck_count" ELSE "truck_type">>,
        NoPatch)

\* manual_truck_type: a load is complete, a truck may be on a trip.
DecideTruckType(h) ==
  /\ bot[h].on = "truck_type"
  /\ IF bot[h].copy.entry = "load"
       THEN Go(h, <<"get", "keep", "get", "put", "show", "reviewing">>,
               Parsed(bot[h].update, "SHIPPER"))
       ELSE Go(h, <<"get", "keep", "yes_no", "has_trip">>, NoPatch)

Decide(h) ==
  /\ Does(h, "decide")
  /\ DecideRole(h) \/ DecideDestination(h) \/ DecideTruckType(h)
  /\ UNCHANGED <<call, backendVars, fsm, data, reply, timeouts, faults>>

-----------------------------------------------------------------------------
(* Calls of the backend. *)

\* The handler of slot h makes the request at the head of its list.
CallBackend(h) ==
  LET b == bot[h]
  IN  /\ call[h] = NoCall
      /\ \E op \in CallOps :
           /\ Does(h, op)
           /\ call' = [call EXCEPT ![h] =
                [NoCall EXCEPT !.op = op, !.at = op, !.who = b.who, !.heard = TRUE,
                   !.role = IF op = "create" /\ b.copy.role # "CARRIER"
                              THEN "SHIPPER"      \* anything else makes a load
                              ELSE IF op = "create" THEN "CARRIER" ELSE b.role,
                   !.button = IF op = "create" THEN b.button ELSE None,
                   !.parsed = IF op = "create" THEN b.copy.parsed ELSE None,
                   !.about = IF op = "create" THEN b.copy.about ELSE None]]
      /\ UNCHANGED <<backendVars, dialogueVars, timeouts, faults>>

\* The handler hears answer a: the backend's, or after 15 s its own BackendError.
Hears(h, a) ==
  \/ /\ At(h, "answered") /\ call[h].answer = a
     /\ call' = [call EXCEPT ![h] = NoCall]
     /\ UNCHANGED timeouts
  \/ /\ a = "error" /\ Pending(h) /\ call[h].heard /\ timeouts < MaxTimeouts
     /\ call' = [call EXCEPT ![h].heard = FALSE]
     /\ timeouts' = timeouts + 1

\* /start, the name and the phone: an error is not caught.
AfterUpsert(h, a) ==
  LET on == bot[h].on
  IN  /\ Does(h, "upsert")
      /\ \/ a = "error" /\ Raise(h)
         \/ on = "start" /\ a = "ADMIN" /\ Raise(h)     \* no conversation
         \/ on = "start" /\ a \in Roles /\ Go(h, <<"awaiting_request">>, NoPatch)
         \/ on = "start" /\ a = "UNSET" /\ Go(h, <<"roles">>, NoPatch)
         \/ on = "name" /\ a # "error" /\ Go(h, <<"phone">>, NoPatch)
         \/ on = "phone" /\ a # "error" /\ Go(h, <<"awaiting_request">>, NoPatch)

AfterSetRole(h, a) ==
  /\ Does(h, "set_role")
  /\ IF a = "error"
       THEN Go(h, <<"edit">>, NoPatch)
       ELSE Go(h, <<"get", "put", "edit", "name">>,
               [NoPatch EXCEPT !.role = bot[h].role])

\* A 404 is no error here; without a role of the two the text is turned down.
AfterGetUser(h, a) ==
  /\ Does(h, "get_user")
  /\ IF a \in Roles
       THEN Become(h, [bot[h] EXCEPT !.role = a, !.todo = <<"extract">>])
       ELSE Raise(h)

\* Step by step if the text was not understood, or not what this role sends.
AfterExtract(h, a) ==
  LET role == bot[h].role
      kind == IF role = "CARRIER" THEN "truck" ELSE "load"
      Manually(st) == Go(h, <<"get", "put", st>>, [NoPatch EXCEPT !.entry = kind])
  IN  /\ Does(h, "extract")
      /\ CASE a = kind -> Go(h, <<"get", "put", "show", "reviewing">>, Parsed(bot[h].update, role))
           [] a = "load to nowhere" /\ kind = "load" -> Manually("destination")
           [] OTHER -> Manually("current_city")

\* _submit: done or failed, the next request is awaited.
AfterCreate(h, a) ==
  /\ Does(h, "create")
  /\ Go(h, <<"awaiting_request">>, NoPatch)

HearAnswer(h) ==
  /\ \E a \in Answers :
       /\ Hears(h, a)
       /\ \/ AfterUpsert(h, a) \/ AfterSetRole(h, a) \/ AfterGetUser(h, a)
          \/ AfterExtract(h, a) \/ AfterCreate(h, a)
  /\ UNCHANGED <<backendVars, fsm, data, reply, faults>>

BotStep(h) == AwaitStep(h) \/ Decide(h) \/ CallBackend(h) \/ HearAnswer(h)

\* The handler dies: an exception nobody catches, or the bot restarts.  Nobody
\* calls it again, and nobody hears its request's answer.
HandlerDies(h) ==
  /\ bot[h] # NoBot
  /\ Raise(h)
  /\ call' = [call EXCEPT ![h] =
       IF Pending(h) THEN [@ EXCEPT !.heard = FALSE] ELSE NoCall]
  /\ UNCHANGED <<backendVars, fsm, data, reply>>
=============================================================================
