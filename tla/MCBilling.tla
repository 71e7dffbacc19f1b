------------------------------ MODULE MCBilling ------------------------------
EXTENDS Billing, TLC

Symmetry == Permutations(Orgs)
=============================================================================
