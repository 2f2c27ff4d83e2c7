----------------------------- MODULE MCItemStore -----------------------------
EXTENDS ItemStore, TLC

Symmetric == Permutations(Procs) \cup Permutations(Items)
=============================================================================
