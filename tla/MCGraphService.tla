----------------------------- MODULE MCGraphService -----------------------------
(* Small instances of GraphService. *)
EXTENDS GraphService, TLC

CONSTANTS g1, g2, ask, maybe, work

\* One question opens the work; the other one may be skipped.
AskThenWork == (ask :> {} @@ maybe :> {} @@ work :> {ask})

\* The condition of the optional node holds in one graph and not in the other.
OneSkips == unmet = (g1 :> {maybe} @@ g2 :> {})

================================================================================
