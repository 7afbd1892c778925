------------------------------- MODULE WorkQueues -------------------------------
(* Queues that are emptied from the head and from which work is withdrawn. *)
EXTENDS Naturals, Sequences, SequencesExt

\* Queue q without the members of J; the others keep their order.
Without(q, J) ==
    LET kept[i \in 0..Len(q)] ==
            IF i = 0 THEN <<>>
            ELSE IF q[i] \in J THEN kept[i - 1] ELSE Append(kept[i - 1], q[i])
    IN  kept[Len(q)]

================================================================================
