----------------------------- MODULE MCJobPool -----------------------------
(* Instances of JobPool for TLC.                                           *)
EXTENDS JobPool
=============================================================================
