----------------------------- MODULE Selections -----------------------------
(***************************************************************************)
(* What is left of a sequence when only the members of a set are kept, in  *)
(* their order.  It is SelectSeq with a set in place of a test, written as *)
(* a recursive function: a proof can expand this one, and instantiate the  *)
(* set.                                                                    *)
(***************************************************************************)
EXTENDS Naturals, Sequences

Select(q, S) ==
    LET kept[i \in 0..Len(q)] ==
          IF i = 0 THEN <<>>
          ELSE IF q[i] \in S THEN Append(kept[i - 1], q[i]) ELSE kept[i - 1]
    IN kept[Len(q)]
=============================================================================
