------------------------- MODULE TagTransactionMC -------------------------
(* TLC instances of TagTransaction.  Two files and two texts are enough for *)
(* a commit that changes one file and has not yet changed the other.        *)
EXTENDS TagTransaction, TLC

Symmetry == Permutations(Files) \cup Permutations(Texts)
=============================================================================
