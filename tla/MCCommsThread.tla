--------------------------- MODULE MCCommsThread ---------------------------
EXTENDS CommsThread, TLC

MCSymmetry == Permutations(Messages) \cup Permutations(Roles)
=============================================================================
