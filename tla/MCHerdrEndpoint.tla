-------------------------- MODULE MCHerdrEndpoint --------------------------
(* Instances of HerdrEndpoint for TLC.                                     *)
EXTENDS HerdrEndpoint
=============================================================================
