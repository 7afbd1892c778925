------------------------------ MODULE EffectLedger ------------------------------
(***************************************************************************)
(* What the operation journal promises about side effects.                 *)
(*                                                                         *)
(* An effect touches a set of keys.  It is free until it is granted, which *)
(* happens at most once and never while another effect that shares a key   *)
(* is held or quarantined; a held effect ends settled, or quarantined when *)
(* nobody can say what it did.  A quarantined effect leaves quarantine     *)
(* only by being settled.  An effect that was never granted can be voided. *)
(*                                                                         *)
(* OperationJournal implements this specification.                         *)
(***************************************************************************)
EXTENDS Naturals

CONSTANTS
    Effects,    \* identities of the effects that may be proposed
    Keys        \* Keys[e]: what e must own alone while it is held

VARIABLE effect

Standing == {"free", "void", "held", "quarantined", "settled"}

\* An effect blocks its keys while it may still be changing what they name.
Blocking == {"held", "quarantined"}

TypeOK == effect \in [Effects -> Standing]

Overlap(e, f) == Keys[e] \cap Keys[f] # {}

Those(standing) == {e \in Effects : effect[e] = standing}

Init == effect = [e \in Effects |-> "free"]

Grant(e) ==
    /\ effect[e] = "free"
    /\ \A f \in Effects \ {e} : effect[f] \in Blocking => ~Overlap(e, f)
    /\ effect' = [effect EXCEPT ![e] = "held"]

Conclude(e, standing) ==
    /\ effect[e] = "held"
    /\ effect' = [effect EXCEPT ![e] = standing]

Reconcile(e) ==
    /\ effect[e] = "quarantined"
    /\ effect' = [effect EXCEPT ![e] = "settled"]

\* Effects that were never granted stop being grantable, several at a time
\* when the run that proposed them ends.
Void(S) ==
    effect' = [e \in Effects |-> IF e \in S THEN "void" ELSE effect[e]]

\* The process that held the effects in H is gone: what they did is unknown,
\* and the proposals in V have no owner left.
Interrupt(H, V) ==
    effect' = [e \in Effects |->
                 CASE e \in H -> "quarantined"
                   [] e \in V -> "void"
                   [] OTHER -> effect[e]]

\* Most steps of the program leave every effect alone: runs, decisions, leases.
Next ==
    \/ UNCHANGED effect
    \/ \E e \in Effects :
         \/ Grant(e)
         \/ \E standing \in {"settled", "quarantined"} : Conclude(e, standing)
         \/ Reconcile(e)
    \/ \E S \in SUBSET Those("free") : Void(S)
    \/ \E H \in SUBSET Those("held"), V \in SUBSET Those("free") : Interrupt(H, V)

Spec == Init /\ [][Next]_effect

================================================================================
