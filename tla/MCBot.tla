-------------------------------- MODULE MCBot -------------------------------
(* Instances of Bot for TLC. *)
EXTENDS BotClaims, TLC

CONSTANTS ann, bob, boss, h1, h2, u1, u2, u3, u4, u5

\* A person without a row, and one who chose a role long ago: /start has
\* cleared the data and the next text is a request.
Stranger == [role |-> NoRow, fsm |-> "no_state", data |-> NoData]
Known(r) == [role |-> r, fsm |-> "awaiting_request", data |-> NoData]

\* In the middle of the stepwise entry.
Entering(r, kind, st) ==
  [role |-> r, fsm |-> st, data |-> [NoData EXCEPT !.role = r, !.entry = kind]]

\* ann is known to the bot, or in one of the stages of an entry.
Conversing ==
  [p \in People |->
     {Known("SHIPPER"),
      Entering("CARRIER", "truck", "truck_type"),
      Entering("CARRIER", "truck", "trip_destination")}]

Impatient == [p \in People |-> {Known("CARRIER")}]

\* ann may be new, boss has the admin's chat id.
Registering ==
  [p \in People |-> IF p = boss THEN {Stranger} ELSE {Stranger, Known("SHIPPER")}]

BotSymmetry == Permutations(Updates) \cup Permutations(Slots)
=============================================================================
