----------------------------- MODULE MCAccounts -----------------------------
EXTENDS Accounts, TLC

Sym == Permutations(Tab) \cup Permutations(Org) \cup Permutations(Email)
=============================================================================
