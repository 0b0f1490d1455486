----------------------------- MODULE MCAccounts -----------------------------
(* Instances of Accounts for TLC. *)
EXTENDS Accounts, TLC

Symmetry == Permutations(Jtis) \cup Permutations(Links) \cup Permutations(Handlers)
=============================================================================
