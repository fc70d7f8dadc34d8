------------------------------ MODULE SearchApi -----------------------------
(***************************************************************************)
(* GET /api/search and GET /api/ask: HandleGetRequest and the VectorClient *)
(* calls it makes.  A worker splits the query, ranks the documents that    *)
(* have its words, asks the embedding service, which may be away, fail,    *)
(* or stop or pause in its reply, and merges what it has.                  *)
(*                                                                         *)
(* The body of a reply is a sequence of lines.  A line of /search stands   *)
(* for the document it names; a line that has been cut is Part, except     *)
(* that one cut within its score still names its document.                 *)
(***************************************************************************)
EXTENDS Ranking

CONSTANTS
    Queries,    \* the query strings
    MaxHits     \* how many documents the service names, k

Answer == "answer"
Sources == "---SOURCES---"
Error == "error"
Part == "part"
Lines == Docs \cup {Answer, Sources, Error, Part}

ASSUME SearchApiAssumption ==
    /\ Queries \subseteq Seq(STRING)
    /\ MaxHits \in Nat /\ MaxHits <= Cardinality(Docs) + 1
    /\ Docs \cap {Answer, Sources, Error, Part} = {}

VARIABLES
    api,        \* HandleGetRequest's step
    kind,       \* "search" or "ask"
    query, terms,
    bm25,       \* the result of SearchAndRank
    reply,      \* the body the service sends
    heard,      \* what RecvAll returns of it
    hybrid      \* the merged list

apiVars == <<api, kind, query, terms, bm25, reply, heard, hybrid>>

ApiInit ==
    /\ api = "idle" /\ kind = "search"
    /\ query = <<>> /\ terms = <<>>
    /\ bm25 = <<>> /\ reply = <<>> /\ heard = <<>> /\ hybrid = <<>>

(* The lines that are in S, in order.                                      *)
Kept(lines, S) ==
    LET kept[n \in 0 .. Len(lines)] ==
            IF n = 0 THEN <<>>
            ELSE IF lines[n] \in S THEN Append(kept[n - 1], lines[n]) ELSE kept[n - 1]
    IN  kept[Len(lines)]

(* ParseTsv skips the lines that have no tab or no number behind it.       *)
ParseTsv_AnyLine(lines) == lines    \* a line without a score counts
ParseTsv(lines) == Kept(lines, Docs)

(* Ask splits the body at the separator; without one, all is the answer.   *)
SourcesOf(lines) ==
    LET s == SelectInSeq(lines, LAMBDA l : l = Sources)
    IN  IF s = 0 THEN <<>> ELSE SubSeq(lines, s + 1, Len(lines))

Semantic == IF kind = "search" THEN ParseTsv(heard) ELSE <<>>

-----------------------------------------------------------------------------
BeginSearch(k, q) ==
    /\ api = "idle"
    /\ kind' = k /\ query' = q /\ terms' = SplitTerms(q)
    /\ api' = IF terms' = <<>> THEN "empty" ELSE IF k = "search" THEN "scan" ELSE "call"
    /\ UNCHANGED <<bm25, reply, heard, hybrid>>

(* SearchAndRank, under the shared lock.                                   *)
Scan ==
    /\ api = "scan"
    /\ bm25' \in SearchAndRank(terms)
    /\ api' = "call"
    /\ UNCHANGED <<kind, query, terms, reply, heard, hybrid>>

(* VectorClient::Connect and SendAll, either of which may fail.            *)
Call ==
    /\ api = "call"
    /\ api' \in {"await", "merge"}
    /\ UNCHANGED <<kind, query, terms, bm25, reply, heard, hybrid>>

(* The service.  search looks the ids up without its lock, so that one may *)
(* come twice; an exception is answered by an error page.                  *)
Replies ==
    {<<Error>>} \cup
    IF kind = "search" THEN BoundedSeq(Docs, MaxHits)
    ELSE {<<Answer, Sources>> \o s : s \in SetToAllKPermutations(Docs)}

ServiceReplies ==
    /\ api = "await"
    /\ reply' \in Replies
    /\ api' = "hear"
    /\ UNCHANGED <<kind, query, terms, bm25, heard, hybrid>>

Hear ==
    /\ api = "hear"
    /\ heard' = reply
    /\ api' = "merge"
    /\ UNCHANGED <<kind, query, terms, bm25, reply, hybrid>>

(* A read that fails, for whatever reason, ends the reply: SO_RCVTIMEO has *)
(* passed, or the service has gone.                                        *)
HearCut ==
    /\ api \in {"await", "hear"}
    /\ \E k \in 0 .. Len(reply) - 1 :
        heard' \in {SubSeq(reply, 1, k), Append(SubSeq(reply, 1, k), Part)}
    /\ api' = "merge"
    /\ UNCHANGED <<kind, query, terms, bm25, reply, hybrid>>

Silence ==
    /\ api \in {"await", "hear"}
    /\ api' = "merge"
    /\ UNCHANGED <<kind, query, terms, bm25, reply, heard, hybrid>>

Merge ==
    /\ api = "merge"
    /\ hybrid' \in IF kind = "search" THEN RrfMerge(bm25, Semantic) ELSE {<<>>}
    /\ api' = "done" /\ reply' = <<>>
    /\ UNCHANGED <<kind, query, terms, bm25, heard>>

(* The response is made, or the process ends: the worker's locals go.      *)
Forget_KeepsAll == UNCHANGED apiVars
Forget ==
    /\ api' = "idle" /\ kind' = "search"
    /\ query' = <<>> /\ terms' = <<>>
    /\ bm25' = <<>> /\ reply' = <<>> /\ heard' = <<>> /\ hybrid' = <<>>

EndSearch == api \in {"empty", "done"} /\ Forget

ApiStep == Scan \/ Call \/ Hear \/ HearCut \/ Silence \/ Merge

-----------------------------------------------------------------------------
ApiTypeOK ==
    /\ api \in {"idle", "empty", "scan", "call", "await", "hear", "merge", "done"}
    /\ kind \in {"search", "ask"}
    /\ query \in Queries \cup {<<>>}
    /\ \A l \in {bm25, hybrid} : l \in Seq(Docs) /\ IsInjective(l)
    /\ heard \in Seq(Lines)

Before(l, d, e) == \E i, j \in DOMAIN l : i < j /\ l[i] = d /\ l[j] = e
Found == api = "done" /\ kind = "search"

(* VectorClient.hpp:9: "BM25-only search continues to work without it".    *)
(* When nothing comes from the service, the hybrid list is the bm25 list,  *)
(* in its order.                                                           *)
HybridWithoutServiceIsBm25 == Found /\ Semantic = <<>> => hybrid = bm25

(* README.md:89: fusion respects the two rankings.  The merged list has    *)
(* the documents of both, and where both agree on two documents, it agrees *)
(* with them, unless the service names a document twice.                   *)
FusionRespectsAgreement ==
    Found =>
        /\ Range(hybrid) = Range(bm25) \cup Range(Semantic)
        /\ IsInjective(Semantic) =>
            \A d, e \in Range(bm25) :
                Before(bm25, d, e) /\ Before(Semantic, d, e) => Before(hybrid, d, e)

(* A document in both lists comes before every document in only one, as    *)
(* 1/(60+i) + 1/(60+j) > 1/61 for short lists, unless the service names a  *)
(* document twice.                                                         *)
FoundTwiceComesFirst ==
    Found /\ IsInjective(Semantic) =>
        \A d \in Range(bm25) \cap Range(Semantic),
           e \in Range(hybrid) \ (Range(bm25) \cap Range(Semantic)) :
            Before(hybrid, d, e)

(* The words of a text: its longest runs of letters and digits.            *)
WordsIn(s) ==
    LET In(i) == i \in DOMAIN s /\ IsWordChar(s[i])
    IN  {Lowered(SubSeq(s, r[1], r[2])) : r \in {q \in (DOMAIN s) \X (DOMAIN s) :
            q[1] <= q[2] /\ \A k \in q[1] - 1 .. q[2] + 1 : In(k) <=> k \in q[1] .. q[2]}}

(* InvertedIndex.hpp:23: a query of plain words finds the documents that   *)
(* have all of them, whatever stands between the words there, in any case, *)
(* and no others.  (A term with a mark in it is no word of any document.)  *)
PlainWordsFindTheirDocuments ==
    LET asked == Behind(query)
        marks == {c \in Range(asked) : ~IsWordChar(c)}
    IN  api = "call" /\ kind = "search" /\ marks \subseteq {"+", "%20"} =>
            Range(bm25) = {d \in Docs : WordsIn(asked) \subseteq WordsIn(Text[d])}

(* VectorClient.hpp:9: a service that is away, fails or stops in its reply *)
(* can take documents and sources away, never put others there (but a cut  *)
(* within the name of a source leaves half a name).                        *)
BrokenRepliesOnlyLose ==
    api = "merge" =>
        /\ IsPrefix(Semantic, reply)
        /\ IsPrefix(Kept(SourcesOf(heard), Lines \ {Part}), SourcesOf(reply))
=============================================================================
