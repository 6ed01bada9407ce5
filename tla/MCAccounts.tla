----------------------------- MODULE MCAccounts -----------------------------
(* Accounts with small sets of browsers, requests and GitHub accounts. *)
EXTENDS Accounts, TLC

Symmetry == Permutations(Browsers) \cup Permutations(Requests) \cup Permutations(Persons)
=============================================================================
