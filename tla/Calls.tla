-------------------------------- MODULE Calls -------------------------------
(***************************************************************************)
(* The bot's HTTP calls to the backend (bot/api_client.py).                *)
(*                                                                         *)
(* The bot deals with several Telegram updates at once.  Each has a slot   *)
(* with two halves: the bot's handler (module Dialogue) and, while it      *)
(* calls, the request in the backend.  The handler gives up after 15 s;    *)
(* the request goes on, its answer unheard.                                *)
(***************************************************************************)
EXTENDS Naturals, Sequences, FiniteSets

CONSTANTS
  Slots,     \* updates that can be in work together
  People,    \* Telegram users
  Updates    \* Telegram updates; the reply to an update goes by its name

VARIABLE call    \* call[h]: the request that the handler in slot h has made

None  == "none"
NoRow == "no row"     \* the person has no users row

ASSUME NamesAssumption == None \notin People \cup Updates

Roles    == {"CARRIER", "SHIPPER"}
UserRole == Roles \cup {"UNSET", "ADMIN"}

\* What extract_from_text makes of a text, as far as the bot's next step
\* depends on it: the type, and which of origin and destination are known.
Understood == {"unknown", "truck", "load", "load to nowhere"}

CallOps == {"upsert", "get_user", "set_role", "extract", "create"}
Answers == UserRole \cup {NoRow, "ok", "error"} \cup Understood

\* at: the next step of the request; first steps have the name of the request.
Places == CallOps \cup {None, "insert", "write", "incr", "expire", "ai",
                        "send", "thank", "answered"}

CallRecords == [op     : CallOps \cup {None},
                who    : People \cup {None},
                role   : Roles \cup {None},        \* role asked for
                seen   : UserRole \cup {None},     \* role read by set_role
                button : Updates \cup {None},      \* the summary confirmed,
                parsed : Updates \cup {None},      \* and the content submitted
                about  : Roles \cup {None},
                bucket : Nat,                      \* rate-limit window
                at     : Places,
                answer : Answers \cup {None},
                heard  : BOOLEAN]                  \* the handler still waits

NoCall == [op |-> None, who |-> None, role |-> None, seen |-> None,
           button |-> None, parsed |-> None, about |-> None, bucket |-> 0,
           at |-> None, answer |-> None, heard |-> FALSE]

CallsInit == call = [h \in Slots |-> NoCall]

-----------------------------------------------------------------------------
\* The request of slot h is at place p of the backend.
At(h, p) == call[h].at = p

\* The request goes on at place p, with record c.
GoOn(h, c, p) == call' = [call EXCEPT ![h] = [c EXCEPT !.at = p]]

\* The request ends with answer a; nobody may be waiting any more.
Answer(h, a) ==
  call' = [call EXCEPT ![h] =
             IF @.heard THEN [@ EXCEPT !.at = "answered", !.answer = a] ELSE NoCall]

Pending(h) == call[h].at \notin {None, "answered"}
=============================================================================
