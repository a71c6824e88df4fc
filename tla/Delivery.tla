------------------------------ MODULE Delivery ------------------------------
(***************************************************************************)
(* backend/app/services/telegram_client.py: send_message, one message to   *)
(* one chat, with retries after a server error, a network error or a       *)
(* timeout.  A message whose answer was lost has been delivered, and is    *)
(* sent again.                                                             *)
(***************************************************************************)
EXTENDS Calls

CONSTANT MaxAttempts   \* 1 + Len(_BACKOFFS)

ASSUME AttemptsAssumption == MaxAttempts \in Nat \ {0}

VARIABLE sends   \* sends[h]: the latest send_message of the request in slot h

Sends == [attempts : 0..MaxAttempts,   \* attempts that failed
          copies   : 0..MaxAttempts,   \* history: copies in the chat
          lost     : 0..MaxAttempts,   \* history: answers lost on the way
          result   : {"trying", "true", "false", "raised"}]

NewSend == [attempts |-> 0, copies |-> 0, lost |-> 0, result |-> "trying"]

DeliveryInit == sends = [h \in Slots |-> NewSend]

-----------------------------------------------------------------------------
LastAttempt_OneMore(h) == sends[h].attempts >= MaxAttempts

\* The backoffs are used up.
LastAttempt(h) == sends[h].attempts + 1 >= MaxAttempts

\* send_message returns or raises.
Return(h, s, result) ==
  /\ sends' = [sends EXCEPT ![h] = [s EXCEPT !.result = result]]
  /\ IF result = "raised" THEN Answer(h, "error") ELSE GoOn(h, call[h], "thank")

Retry_StartOver(h, s) ==
  /\ sends' = [sends EXCEPT ![h] =
       IF LastAttempt(h) THEN NewSend ELSE [s EXCEPT !.attempts = @ + 1]]
  /\ UNCHANGED call

\* The next attempt, after its delay, or the end.
Retry(h, s) ==
  IF LastAttempt(h)
    THEN Return(h, s, "false")
    ELSE /\ sends' = [sends EXCEPT ![h] = [s EXCEPT !.attempts = @ + 1]]
         /\ UNCHANGED call

Accepted_GoesOn(h) == At(h, "send") /\ Retry(h, [sends[h] EXCEPT !.copies = @ + 1])

\* Telegram answers 200, or rejects with a 4xx (429 too), which is not retried.
Accepted(h) ==
  At(h, "send") /\ Return(h, [sends[h] EXCEPT !.copies = @ + 1], "true")
Rejected(h) ==
  At(h, "send") /\ Return(h, sends[h], "false")

\* A 5xx, or the request did not get through.
Undelivered(h) == At(h, "send") /\ Retry(h, sends[h])

\* The message got through, the answer did not come in time.
AnswerLost(h) ==
  At(h, "send") /\ Retry(h, [sends[h] EXCEPT !.copies = @ + 1, !.lost = @ + 1])

\* httpx.ProtocolError is neither a TimeoutException nor a NetworkError: it
\* leaves send_message, and the request fails.
ProtocolBroken(h) == At(h, "send") /\ Return(h, sends[h], "raised")

SendStep(h) ==
  \/ Accepted(h) \/ Rejected(h) \/ Undelivered(h) \/ AnswerLost(h)
  \/ ProtocolBroken(h)
=============================================================================
