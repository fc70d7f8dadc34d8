--------------------------- MODULE MCEmbedService ---------------------------
(* EmbedService with small sets, all of them interchangeable.              *)
EXTENDS EmbedService, TLC

Symmetry ==
    Permutations(Home) \cup Permutations(Requests) \cup Permutations(Rebuilds)
=============================================================================
