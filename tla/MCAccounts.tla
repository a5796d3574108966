----------------------------- MODULE MCAccounts -----------------------------
(* Instances of Accounts.  The migration's user is an administrator, whom  *)
(* registration cannot make: a refresh that mixed up roles would show.     *)
EXTENDS Accounts, TLC

CONSTANTS admin, p1, p2, longPassword

(* p2 is 72 bytes long, and longPassword is p2 and more.                   *)
MCReads  == (p1 :> p1) @@ (p2 :> p2) @@ (longPassword :> p2)
MCSeeds  == admin :> [password |-> p1, role |-> "admin"]
Symmetry == Permutations(Calls)
=============================================================================
