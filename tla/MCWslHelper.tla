---------------------------- MODULE MCWslHelper ----------------------------
(* Instances of WslHelper for TLC.                                         *)
EXTENDS WslHelper, TLC

Symmetry == Permutations(Scripts) \cup Permutations(Probes)
=============================================================================
