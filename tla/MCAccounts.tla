----------------------------- MODULE MCAccounts -----------------------------
(* Instances of Accounts for TLC. Users and requests are symmetric.        *)
EXTENDS Accounts, TLC

AccountSymmetry == Permutations(User) \cup Permutations(Request)
=============================================================================
