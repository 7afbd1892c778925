------------------------------- MODULE WorkLedger -------------------------------
(***************************************************************************)
(* What a thread pool promises about the work that is brought to it.       *)
(*                                                                         *)
(* Work is accepted while the door is open, or refused.  Accepted work     *)
(* starts at most once, and is over when it ends; what never started can   *)
(* be over without running, and has failed then.  An outcome is told once, *)
(* of work that is over.  An owner may settle on work only when it is over.*)
(* The door is shut for good, and when it is drained nothing is under way  *)
(* or untold.                                                              *)
(*                                                                         *)
(* RootWorkExecutor and NativeChildExecutor implement this specification.  *)
(***************************************************************************)
CONSTANT Work

VARIABLES
    stage,      \* stage[w]: how far work w is
    outcome,    \* outcome[w]: what is known of how it ended
    settled,    \* the work whose owner goes on as if it were over
    door        \* whether work is accepted

ledger == <<stage, outcome, settled, door>>

\* A pool may have been closed before any work came to it: all of it is refused.
Init ==
    /\ stage \in [Work -> {"new", "over"}]
    /\ outcome = [w \in Work |-> IF stage[w] = "over" THEN "failed" ELSE "none"]
    /\ settled = {w \in Work : stage[w] = "over"}
    /\ door \in {"open", "drained"}

Keep(w) == UNCHANGED <<stage[w], outcome[w]>>

Accept(w) ==
    /\ door = "open"
    /\ stage[w] = "new" /\ stage'[w] = "accepted"
    /\ UNCHANGED outcome[w]

\* Refused, or withdrawn before it started.
Fail(w) ==
    /\ stage[w] \in {"new", "accepted"} /\ stage'[w] = "over"
    /\ outcome[w] = "none" /\ outcome'[w] = "failed"

Start(w) ==
    /\ stage[w] = "accepted" /\ stage'[w] = "running"
    /\ UNCHANGED outcome[w]

\* What became of it may be told now or later.
End(w) ==
    /\ stage[w] = "running" /\ stage'[w] = "over"
    /\ outcome[w] = "none" /\ outcome'[w] \in {"none", "value", "failed"}

Tell(w) ==
    /\ stage[w] = "over" /\ stage'[w] = "over"
    /\ outcome[w] = "none" /\ outcome'[w] \in {"value", "failed"}

Onward == [open |-> {"open", "shut"}, shut |-> {"shut", "drained"}, drained |-> {"drained"}]

NothingUnderWay ==
    \A w \in Work : \/ stage[w] = "new"
                    \/ stage[w] = "over" /\ outcome[w] # "none"

\* Several pieces of work move at once when the door is shut or a batch is staged.
Next ==
    /\ \A w \in Work : Keep(w) \/ Accept(w) \/ Fail(w) \/ Start(w) \/ End(w) \/ Tell(w)
    /\ settled \subseteq settled'
    /\ \A w \in settled' : stage'[w] = "over"
    /\ door' \in Onward[door]
    /\ door' = "drained" => NothingUnderWay'

Spec == Init /\ [][Next]_ledger

================================================================================
