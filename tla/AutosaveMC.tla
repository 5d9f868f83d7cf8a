---------------------------- MODULE AutosaveMC ----------------------------
(* Automatic saving on small instances: documents are interchangeable.      *)
EXTENDS Autosave

Symmetry == Permutations(Docs)
=============================================================================
