------------------------------- MODULE Ranking ------------------------------
(***************************************************************************)
(* InvertedIndex::SearchAndRank and RrfMerge.  Both collect into hash maps *)
(* and sort by score only, so that documents with equal scores come in any *)
(* order: each is the set of lists it may return.                          *)
(***************************************************************************)
EXTENDS Requests

CONSTANTS
    Docs,   \* the indexed files
    Text,   \* what is in each
    Scale   \* a common multiple of 61, 62, ...: what the float 1 stands for

ASSUME RankingAssumption ==
    /\ IsFiniteSet(Docs) /\ Text \in [Docs -> Seq(STRING)]
    /\ Scale \in Nat \ {0}
    /\ \A i \in 1 .. Cardinality(Docs) + 1 : Scale % (60 + i) = 0

(* The lists of all documents in the domain, by descending score.          *)
Rankings_Ascending(score) ==
    {l \in SetToSeqs(DOMAIN score) :
        \A i, j \in DOMAIN l : i < j => score[l[i]] <= score[l[j]]}
Rankings(score) ==
    {l \in SetToSeqs(DOMAIN score) :
        \A i, j \in DOMAIN l : i < j => score[l[i]] >= score[l[j]]}

(* m_count[word][d], as AddFile and Build count it.                        *)
Tokens == [d \in Docs |-> Tokenize(Text[d])]
Count(word, d) == Cardinality({i \in DOMAIN Tokens[d] : Tokens[d][i] = word})

(* A document has to match every term; its score is the sum of the counts. *)
Matches(terms) == {d \in Docs : \A i \in DOMAIN terms : Count(terms[i], d) > 0}

SearchAndRank(terms) ==
    LET Total(d) == MapThenSumSet(LAMBDA i : Count(terms[i], d), DOMAIN terms)
    IN  IF terms = <<>> THEN {<<>>} ELSE Rankings([d \in Matches(terms) |-> Total(d)])

(* What a list adds to the fused score of d, for each place it has there.  *)
Share_FromTop(list, d) ==   \* 1 / (k + size - rank): the wrong end first
    MapThenSumSet(LAMBDA i : Scale \div (61 + Len(list) - i), {i \in DOMAIN list : list[i] = d})
Share(list, d) ==
    LET score[n \in 0 .. Len(list)] ==
            IF n = 0 THEN 0
            ELSE score[n - 1] + (IF list[n] = d THEN Scale \div (60 + n) ELSE 0)
    IN  score[Len(list)]

RrfMerge_Overwrites(bm25, semantic) ==  \* = instead of +=
    Rankings([d \in Range(bm25) \cup Range(semantic) |->
                IF d \in Range(semantic) THEN Share(semantic, d) ELSE Share(bm25, d)])
RrfMerge(bm25, semantic) ==
    Rankings([d \in Range(bm25) \cup Range(semantic) |->
                Share(bm25, d) + Share(semantic, d)])
=============================================================================
