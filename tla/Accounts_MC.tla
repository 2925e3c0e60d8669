------------------------------- MODULE Accounts_MC -------------------------------
(* A small instance of Accounts for TLC.                                     *)
EXTENDS Accounts, TLC

CONSTANTS r1, r2, a1, a2, u3

Symmetry_MC == Permutations({r1, r2}) \cup Permutations({a1, a2})

===================================================================================
