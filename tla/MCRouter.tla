------------------------------ MODULE MCRouter ------------------------------
(* Instances of Router.                                                    *)
EXTENDS Router, TLC

Symmetry == Permutations(Requests) \cup Permutations(Addresses)
=============================================================================
