------------------------------ MODULE RateLimit -----------------------------
(***************************************************************************)
(* backend/app/services/rate_limit.py around the extraction endpoint       *)
(* (api/extract.py, its only caller, scope ai_extract).                    *)
(*                                                                         *)
(* Time is counted in ticks, a window is Window ticks long.  The key of a  *)
(* counter names the person and the window; its expiry is a second command *)
(* to Redis, sent by whoever made the counter 1.                           *)
(***************************************************************************)
EXTENDS Calls

CONSTANTS
  Limit,      \* extractions admitted per window
  Window,     \* ticks per window
  MaxClock    \* bound: ticks in a behaviour

ASSUME RateAssumption == Limit \in Nat /\ Window \in Nat \ {0} /\ MaxClock \in Nat

VARIABLES
  clock,      \* ticks so far
  counters,   \* counters[<<p, b>>]: the value of the key and when it expires
  admitted    \* history: extractions of p admitted in window b

limitVars == <<clock, counters, admitted>>

Never == MaxClock + Window + 1    \* the expiry of a key that has none
Keys  == People \X (0..MaxClock)

RateInit ==
  /\ clock = 0
  /\ counters = [k \in Keys |-> [count |-> 0, expires |-> Never]]
  /\ admitted = [k \in Keys |-> 0]

-----------------------------------------------------------------------------
WindowOf(t) == t \div Window

\* The value of a key for Redis at this moment.
Value(k) == IF counters[k].expires <= clock THEN 0 ELSE counters[k].count

\* The comparison with the limit, and the extraction that follows it.  A count
\* belongs to the window if Redis made it while the window lasted.
Judge(h, k, n) ==
  IF n > Limit
    THEN Answer(h, "error") /\ UNCHANGED admitted
    ELSE /\ GoOn(h, call[h], "ai")
         /\ admitted' = IF k[2] = WindowOf(clock)
                          THEN [admitted EXCEPT ![k] = @ + 1] ELSE admitted

\* The window is computed from the clock of the process.
Stamp(h) ==
  /\ At(h, "extract")
  /\ GoOn(h, [call[h] EXCEPT !.bucket = WindowOf(clock)], "incr")
  /\ UNCHANGED limitVars

\* INCR: a key that does not exist counts from 0 and has no expiry.
Incr(k) == Value(k) + 1

Count(h) ==
  LET k == <<call[h].who, call[h].bucket>>
      n == Incr(k)
  IN  /\ At(h, "incr")
      /\ counters' = [counters EXCEPT ![k] =
           [count |-> n, expires |-> IF n = 1 THEN Never ELSE @.expires]]
      /\ IF n = 1 THEN GoOn(h, call[h], "expire") /\ UNCHANGED admitted
                  ELSE Judge(h, k, n)
      /\ UNCHANGED clock

Expiry_OneTick(t) == t + 1

Expiry(t) == t + Window

SetExpiry(h) ==
  LET k == <<call[h].who, call[h].bucket>>
  IN  /\ At(h, "expire")
      /\ counters' = [counters EXCEPT ![k].expires = Expiry(clock)]
      /\ Judge(h, k, 1)
      /\ UNCHANGED clock

\* extract_from_text: the AI's answer if it passes the schema, else "unknown".
Extract(h) ==
  /\ At(h, "ai")
  /\ \E x \in Understood : Answer(h, x)
  /\ UNCHANGED limitVars

RateStep(h) == Stamp(h) \/ Count(h) \/ SetExpiry(h) \/ Extract(h)

Tick ==
  /\ clock < MaxClock
  /\ clock' = clock + 1
  /\ UNCHANGED <<call, counters, admitted>>
=============================================================================
