----------------------------- MODULE MCSessionInbox -----------------------------
(* Small instances of SessionInbox. *)
EXTENDS SessionInbox, TLC

CONSTANTS sa, sb, ia, ib

\* A prompt in each of two sessions.
OnePerHome == (ia :> sa @@ ib :> sb)

\* Two prompts in one session.
OneHome == (ia :> sa @@ ib :> sa)

================================================================================
