----------------------------- MODULE MCLiveIndex ----------------------------
(* LiveIndex with two path strings.  In PlainName each names a file of its *)
(* own; in Alias the second is another spelling of the first ("./a").      *)
EXTENDS LiveIndex, TLC

CONSTANTS a, b

PlainName == [p \in Paths |-> p]
Alias == [p \in Paths |-> a]

\* Requests differ only in name.  Used where no liveness is checked.
Symmetry == Permutations(Requests)
=============================================================================
