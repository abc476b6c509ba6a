----------------------------- MODULE MCProjects -----------------------------
(* Instances of Projects for TLC.                                          *)
EXTENDS Projects, TLC

Symmetry == Permutations(Roots) \cup Permutations(Clients)
=============================================================================
