----------------------------- MODULE MCAgentService -----------------------------
(* Small instances of AgentService. *)
EXTENDS AgentService, TLC

CONSTANTS r1, r2, ca, cb

\* Both callers answer the dynamic run r1, one of them over A2A.
BothAnswer == (ca :> r1 @@ cb :> r1)

\* One caller, for r1.
OneAnswers == (ca :> r1)

================================================================================
