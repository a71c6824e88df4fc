------------------------------ MODULE BotClaims -----------------------------
(***************************************************************************)
(* A statement of the repository about the bot that the code does not      *)
(* keep; a run of its own refutes it.                                      *)
(***************************************************************************)
EXTENDS Bot

\* intake.py:8-10: "this handler never lets AI output skip straight into a
\* create_truck/create_load call without the user explicitly confirming it
\* first".  So what a Confirm button saves is what its own message showed.
SavedAsConfirmed ==
  \A u, c \in Updates : saves[<<u, c>>] > 0 => c = u
=============================================================================
