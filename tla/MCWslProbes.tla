---------------------------- MODULE MCWslProbes ----------------------------
(* Instances of WslProbes for TLC.                                         *)
EXTENDS WslProbes, TLC

Symmetry == Permutations(Keys)
=============================================================================
