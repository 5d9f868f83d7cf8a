--------------------------- MODULE ProjectTagsMC ---------------------------
EXTENDS ProjectTags
Symmetry == Permutations(Windows)
PathsMC == {<<"c">>, <<"d">>}
=============================================================================
