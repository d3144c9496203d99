----------------------------- MODULE MCAccess -----------------------------
EXTENDS Access, TLC
CONSTANTS owner, clerk, R1, R2
Requests == Permutations(Reqs)
=============================================================================
