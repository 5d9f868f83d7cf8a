-------------------------- MODULE ProjectIndexMC --------------------------
EXTENDS ProjectIndex
T == INSTANCE TLC
Symmetry == T!Permutations(Windows)
=============================================================================
