----------------------------- MODULE MCSessions -----------------------------
(* Sessions on small constants; sessions and templates are interchangeable *)
EXTENDS Sessions, TLC

Symmetry ==
    {s @@ t : s \in Permutations(SessionIds), t \in Permutations(Templates)}
=============================================================================
