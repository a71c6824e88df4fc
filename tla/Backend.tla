------------------------------- MODULE Backend ------------------------------
(***************************************************************************)
(* The backend as the bot's conversation sees it: accounts, the extraction *)
(* limit, and the two requests that create a row and notify people.  What  *)
(* they do to loads, trucks and matches is the subject of Marketplace.     *)
(***************************************************************************)
EXTENDS Accounts, RateLimit, Delivery

VARIABLE saves   \* saves[<<u, c>>]: rows made by confirming summary u, when the
                 \* request carried the content of summary c

backendVars == <<users, limitVars, sends, saves>>

BackendInit ==
  /\ CallsInit /\ RateInit /\ DeliveryInit
  /\ saves = [x \in Updates \X Updates |-> 0]

-----------------------------------------------------------------------------
\* create_truck for a carrier, create_load for a shipper.  Without the fields of
\* that request it is a 422, with another role a 403.
Acceptable(c) == c.about = c.role /\ users[c.who] = c.role

\* The row is committed before anybody is notified, if there is anybody.  One
\* notice stands for all: the next one would begin like the first.
CreateRow(h) ==
  LET c == call[h]
  IN  /\ At(h, "create")
      /\ IF Acceptable(c)
           THEN /\ saves' = [saves EXCEPT ![<<c.button, c.parsed>>] = @ + 1]
                /\ \E next \in {"send", "thank"} : GoOn(h, c, next)
                /\ sends' = [sends EXCEPT ![h] = NewSend]
           ELSE Answer(h, "error") /\ UNCHANGED <<saves, sends>>
      /\ UNCHANGED <<users, limitVars>>

\* The answer, once everybody is notified.
CreateDone(h) ==
  /\ At(h, "thank")
  /\ Answer(h, "ok")
  /\ UNCHANGED backendVars

BackendStep(h) ==
  \/ AccountStep(h) /\ UNCHANGED <<limitVars, sends, saves>>
  \/ RateStep(h) /\ UNCHANGED <<users, sends, saves>>
  \/ SendStep(h) /\ UNCHANGED <<users, limitVars, saves>>
  \/ CreateRow(h) \/ CreateDone(h)

\* The request dies, or the connection to it: the bot hears an error.
BackendDies(h) ==
  /\ Pending(h)
  /\ Answer(h, "error")
  /\ UNCHANGED backendVars
=============================================================================
