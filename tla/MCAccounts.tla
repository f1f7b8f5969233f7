------------------------------ MODULE MCAccounts ------------------------------
EXTENDS Accounts, TLC

Symmetry == Permutations(Handlers)
=============================================================================
