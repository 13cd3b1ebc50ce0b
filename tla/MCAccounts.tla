----------------------------- MODULE MCAccounts -----------------------------
EXTENDS Accounts, TLC

\* Neither users nor requests are told apart.
MCSymmetry == Permutations(Users) \cup Permutations(Requests)
=============================================================================
