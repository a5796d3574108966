---------------------------- MODULE MCReadiness ----------------------------
(* Instances of Readiness.                                                 *)
EXTENDS Readiness
=============================================================================
