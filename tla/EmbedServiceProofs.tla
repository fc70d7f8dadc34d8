------------------------- MODULE EmbedServiceProofs -------------------------
(***************************************************************************)
(* EmbedService for any documents, requests, rebuild threads and number of *)
(* starts: its types, what holds while nothing changed the index during a  *)
(* save (calm), what holds while changes and rebuilds kept out of each     *)
(* other's way (orderly), and the steps that make it a VectorStore.        *)
(***************************************************************************)
EXTENDS EmbedService, Induction, SequenceTheorems, TLAPS

(* The invariants, in the order in which they rest on each other. What a   *)
(* step of a request or a thread relies on; nothing is left of either      *)
(* while the service is down.                                              *)
Idle == \A b \in Rebuilds : bpc[b] = "idle"

StepsOK ==
    /\ Len(ids) = Len(vecs)
    /\ ~up => /\ Idle /\ ids = <<>>
              /\ \A r \in Requests : rpc[r] \in {"idle", "done"}
    /\ \A r \in Requests :
        /\ rpc[r] \in {"add", "remove"} => req[r] \in Docs \cap Home
        /\ rpc[r] \in {"search", "ask"} => hit[r] \in Hits
        /\ rpc[r] = "ask" => hit[r].name \in Docs
        /\ rpc[r] # "done" => out[r] = <<>>
    /\ \A b \in Rebuilds : bpc[b] \notin {"read", "bin"} => work[b] = <<>>
    /\ \A d \in Docs : file[d] # NoText => file[d][1] = d

(* A rebuild has at most one text of a document, and none of those that it *)
(* has still to read.                                                      *)
WorkOK ==
    \A b \in Rebuilds : bpc[b] = "read" =>
        /\ \A i \in DOMAIN work[b] : work[b][i][1] \notin todo[b]
        /\ \A i, j \in DOMAIN work[b] : work[b][i][1] = work[b][j][1] => i = j

(* Two arrays that belong together.                                        *)
Consistent(v, s) ==
    /\ Len(s) = Len(v)
    /\ \A i \in DOMAIN s : v[i][1] = s[i]
    /\ \A i, j \in DOMAIN s : s[i] = s[j] => i = j

(* The two cache files belong together unless a thread has written one and *)
(* not yet touched the other; while a thread saves, what it has taken or   *)
(* written is what is in memory.                                           *)
PairOK ==
    Readable(bin) /\ Readable(json) /\ (\A b \in Rebuilds : bpc[b] # "ids")
        => Consistent(bin, json)
SavedVectors == Saving /\ Readable(bin) => bin = vecs
TakenVectors == \A b \in Rebuilds : bpc[b] = "bin" => work[b] = vecs
AskedNames == \A r \in Requests : rpc[r] = "ask" => hit[r].name = hit[r].text[1]

CalmInv ==
    calm => Consistent(vecs, ids) /\ PairOK /\ SavedVectors /\ TakenVectors /\ AskedNames

(* A rebuild of SEARCH_ROOT that no change has overlapped: what it has     *)
(* read is what the files hold.                                            *)
NoneChanging == \A r \in Requests : rpc[r] \notin {"add", "remove"}

HasOnly(t, d, text) ==
    /\ \A i \in DOMAIN t : t[i][1] = d => t[i] = text
    /\ text # NoText => \E i \in DOMAIN t : t[i] = text

CleanInv ==
    \A b \in clean :
        /\ bpc[b] = "read" /\ NoneChanging
        /\ \E d \in Home : file[d] # NoText
        /\ \A d \in todo[b] : d \in Home /\ file[d] # NoText
        /\ \A d \in Docs \ todo[b] : HasOnly(work[b], d, Due(d))

(* While orderly: every reader is such a rebuild, changes keep away from   *)
(* walks and from each other, and a document that no request is changing   *)
(* is up to date, unless the service has just started and its first        *)
(* rebuild, of SEARCH_ROOT, is under way.                                  *)
Parallel == \A i \in DOMAIN ids : vecs[i][1] = ids[i]
ReadersClean == \A b \in Rebuilds : bpc[b] = "read" => b \in clean
ChangesApart ==
    /\ Walking => NoneChanging
    /\ \A r \in Requests :
        /\ rpc[r] = "add" => file[req[r]] = <<req[r], r>>
        /\ rpc[r] = "remove" => file[req[r]] = NoText
    /\ \A q, r \in Requests :
        /\ rpc[q] \in {"add", "remove"} /\ rpc[r] \in {"add", "remove"}
        /\ req[q] = req[r]
        => q = r
OwnWalk == \E b \in Rebuilds : bpc[b] = "read" \/ (bpc[b] = "list" /\ todo[b] = Home)
UpToDate ==
    up => \/ \A d \in Docs : Changing(d) \/ HasOnly(vecs, d, Due(d))
          \/ OwnWalk /\ vecs = <<>>

OrderlyInv == orderly => Parallel /\ ReadersClean /\ ChangesApart /\ UpToDate

-----------------------------------------------------------------------------
(* What Others computes, step by step.                                     *)
KeptStep(s, d, kept, n) ==
    IF n = 0 THEN <<>>
    ELSE IF s[n] # d THEN Append(kept[n - 1], n) ELSE kept[n - 1]

IsKept(s, d, kept, m) == kept = [n \in 0 .. m |-> KeptStep(s, d, kept, n)]

(* The recursion is well defined: by induction on the bound.               *)
LEMMA KeptExists ==
    ASSUME NEW S, NEW s \in Seq(S), NEW d
    PROVE  \E kept : IsKept(s, d, kept, Len(s))
<1> DEFINE T == {m \in Nat : \E kept : IsKept(s, d, kept, m)}
<1>1. 0 \in T
  <2> DEFINE kept == [n \in 0 .. 0 |-> <<>>]
  <2>1. IsKept(s, d, kept, 0)
    BY SMT DEF IsKept, KeptStep
  <2> QED BY <2>1
<1>2. ASSUME NEW m \in T PROVE m + 1 \in T
  <2>1. PICK old : IsKept(s, d, old, m)
    OBVIOUS
  <2> DEFINE top == KeptStep(s, d, old, m + 1)
  <2> DEFINE new == [n \in 0 .. m + 1 |-> IF n = m + 1 THEN top ELSE old[n]]
  <2>2. \A n \in 0 .. m : new[n] = old[n]
    BY SMT
  <2>3. new[m + 1] = top
    BY SMT
  <2>4. ASSUME NEW n \in 0 .. m + 1
        PROVE  new[n] = KeptStep(s, d, new, n)
    <3> HIDE DEF new
    <3>1. CASE n = m + 1
      <4>1. (m + 1) - 1 = m /\ m \in 0 .. m
        BY SMT
      <4>2. new[m] = old[m]
        BY <4>1, <2>2
      <4> QED BY <3>1, <2>3, <4>1, <4>2 DEF KeptStep
    <3>2. CASE n \in 0 .. m
      <4>1. n = 0 \/ n - 1 \in 0 .. m
        BY <3>2, SMT
      <4>2. old[n] = KeptStep(s, d, old, n)
        BY <2>1, <3>2 DEF IsKept
      <4> QED BY <3>2, <4>1, <4>2, <2>2 DEF KeptStep
    <3> QED BY <3>1, <3>2, SMT
  <2>5. IsKept(s, d, new, m + 1)
    BY <2>4 DEF IsKept
  <2> QED BY <2>5
<1>3. T = Nat
  <2>1. T \subseteq Nat
    OBVIOUS
  <2> HIDE DEF T
  <2> QED BY <1>1, <1>2, <2>1, SetInduction
<1>4. Len(s) \in T
  BY <1>3, LenProperties
<1> QED BY <1>4

(* k lists the positions up to m at which s has something other than d.    *)
Lists(k, s, d, m) ==
    /\ k \in Seq(1 .. m)
    /\ \A j \in 1 .. Len(k) : s[k[j]] # d
    /\ \A i, j \in 1 .. Len(k) : i < j => k[i] < k[j]
    /\ \A i \in 1 .. m : s[i] # d => \E j \in 1 .. Len(k) : k[j] = i

(* One more position.                                                      *)
LEMMA ListsNext ==
    ASSUME NEW s, NEW d, NEW m \in Nat, NEW k, Lists(k, s, d, m)
    PROVE  Lists(IF s[m + 1] # d THEN Append(k, m + 1) ELSE k, s, d, m + 1)
<1> USE DEF Lists
<1>1. /\ k \in Seq(1 .. m + 1)
      /\ Len(k) \in Nat
      /\ \A j \in 1 .. Len(k) : k[j] \in 1 .. m
  BY ElementOfSeq, SeqMonotonic, LenProperties, SMT
<1>2. CASE s[m + 1] = d
  <2>1. \A i \in 1 .. m + 1 : s[i] # d => i \in 1 .. m
    BY <1>2, SMT
  <2> QED BY <1>1, <1>2, <2>1
<1>3. CASE s[m + 1] # d
  <2> DEFINE n == Append(k, m + 1)
  <2>1. /\ n \in Seq(1 .. m + 1)
        /\ Len(n) = Len(k) + 1
        /\ \A j \in 1 .. Len(k) : n[j] = k[j]
        /\ n[Len(k) + 1] = m + 1
    BY <1>1, AppendProperties, m + 1 \in 1 .. m + 1
  <2> HIDE DEF n
  <2>2. ASSUME NEW j \in 1 .. Len(n) PROVE s[n[j]] # d
    <3>1. Len(n) = Len(k) + 1
      BY <2>1
    <3>2. j \in 1 .. Len(k) \/ j = Len(k) + 1
      BY <3>1, SMT
    <3> QED BY <3>2, <2>1, <1>3
  <2>3. ASSUME NEW i \in 1 .. Len(n), NEW j \in 1 .. Len(n), i < j
        PROVE  n[i] < n[j]
    <3>1. i \in 1 .. Len(k)
      BY <2>3, <1>1, <2>1, SMT
    <3>2. CASE j \in 1 .. Len(k)
      BY <2>3, <3>1, <3>2, <2>1
    <3>3. CASE j = Len(k) + 1
      <4>1. n[i] \in 1 .. m /\ n[j] = m + 1
        BY <3>1, <3>3, <2>1, <1>1
      <4> QED BY <4>1, SMT
    <3> QED BY <3>2, <3>3, <1>1, <2>1, SMT
  <2>4. ASSUME NEW i \in 1 .. m + 1, s[i] # d
        PROVE  \E j \in 1 .. Len(n) : n[j] = i
    <3>1. CASE i = m + 1
      <4>1. Len(k) + 1 \in 1 .. Len(n)
        BY <1>1, <2>1, SMT
      <4> QED BY <3>1, <4>1, <2>1
    <3>2. CASE i \in 1 .. m
      <4>1. PICK j \in 1 .. Len(k) : k[j] = i
        BY <3>2, <2>4
      <4>2. j \in 1 .. Len(n)
        BY <1>1, <2>1, SMT
      <4> QED BY <4>1, <4>2, <2>1
    <3> QED BY <3>1, <3>2, SMT
  <2> QED BY <1>3, <2>1, <2>2, <2>3, <2>4 DEF n
<1> QED BY <1>2, <1>3

(* Others lists the positions of all other ids, by induction.              *)
LEMMA OthersLists ==
    ASSUME NEW S, NEW s \in Seq(S), NEW d
    PROVE  Lists(Others(s, d), s, d, Len(s))
<1> DEFINE kept == CHOOSE kept : IsKept(s, d, kept, Len(s))
<1> DEFINE m == Len(s)
<1>1. m \in Nat
  BY LenProperties
<1>2. IsKept(s, d, kept, m)
  BY KeptExists, Zenon
<1>3. Others(s, d) = kept[m]
  BY DEF Others, IsKept, KeptStep
<1> HIDE DEF m, kept
<1>4. \A n \in 0 .. m : kept[n] = KeptStep(s, d, kept, n)
  BY <1>2 DEF IsKept
<1> DEFINE T == {n \in 0 .. m : Lists(kept[n], s, d, n)}
<1>5. 0 \in T
  <2>1. kept[0] = <<>> /\ 0 \in 0 .. m
    BY <1>1, <1>4 DEF KeptStep
  <2>2. Lists(<<>>, s, d, 0)
    BY EmptySeq, SMT DEF Lists
  <2> QED BY <2>1, <2>2
<1>6. ASSUME NEW n \in 0 .. m, n \in T, n < m
      PROVE  n + 1 \in T
  <2>1. n + 1 \in 0 .. m /\ n \in Nat /\ n + 1 # 0 /\ (n + 1) - 1 = n
    BY <1>1, <1>6, SMT
  <2>2. kept[n + 1] = IF s[n + 1] # d THEN Append(kept[n], n + 1) ELSE kept[n]
    BY <2>1, <1>4 DEF KeptStep
  <2>3. Lists(kept[n], s, d, n)
    BY <1>6
  <2>4. Lists(kept[n + 1], s, d, n + 1)
    BY <2>1, <2>2, <2>3, ListsNext
  <2> QED BY <2>1, <2>4
<1>7. \A n \in 0 .. m : n \in T
  <2> HIDE DEF T
  <2> QED BY <1>1, <1>5, <1>6, BoundedInduction
<1>8. m \in 0 .. m
  BY <1>1, SMT
<1> QED BY <1>3, <1>7, <1>8 DEF m

(* The two arrays after the entries of d have been left out.               *)
(* The members of x at the positions where s is not d.                    *)
Without(x, s, d) == Pick(x, Others(s, d))

(* s2 and v2 are s and v at the positions k, those where s is not d.       *)
LeavesOut(s, v, d, k, s2, v2) ==
    /\ s2 \in Seq(Docs) /\ v2 \in Seq(Texts) /\ Len(s2) = Len(v2)
    /\ \A j \in 1 .. Len(s2) :
        /\ k[j] \in 1 .. Len(s) /\ s2[j] = s[k[j]] /\ v2[j] = v[k[j]]
        /\ s2[j] # d
    /\ \A i, j \in 1 .. Len(s2) : k[i] = k[j] => i = j
    /\ \A i \in 1 .. Len(s) : s[i] # d => \E j \in 1 .. Len(s2) : k[j] = i

LEMMA WithoutEntries ==
    ASSUME NEW s \in Seq(Docs), NEW v \in Seq(Texts), Len(s) = Len(v), NEW d
    PROVE  LeavesOut(s, v, d, Others(s, d), Without(s, s, d), Without(v, s, d))
<1> DEFINE k == Others(s, d)
<1> DEFINE s2 == Without(s, s, d)
<1> DEFINE v2 == Without(v, s, d)
<1>0. s2 = [i \in DOMAIN k |-> s[k[i]]] /\ v2 = [i \in DOMAIN k |-> v[k[i]]]
  BY DEF Without, Pick
<1>1. Lists(k, s, d, Len(s))
  BY OthersLists
<1> HIDE DEF k, s2, v2
<1>2. /\ k \in Seq(1 .. Len(s))
      /\ \A j \in 1 .. Len(k) : s[k[j]] # d
      /\ \A i, j \in 1 .. Len(k) : i < j => k[i] < k[j]
      /\ \A i \in 1 .. Len(s) : s[i] # d => \E j \in 1 .. Len(k) : k[j] = i
  BY <1>1 DEF Lists
<1>3. /\ Len(k) \in Nat /\ DOMAIN k = 1 .. Len(k)
      /\ \A j \in 1 .. Len(k) : k[j] \in 1 .. Len(s)
  BY <1>2, LenProperties, ElementOfSeq
<1>4. \A i \in 1 .. Len(s) : s[i] \in Docs /\ v[i] \in Texts
  BY ElementOfSeq
<1>5. /\ s2 \in [1 .. Len(k) -> Docs] /\ v2 \in [1 .. Len(k) -> Texts]
  BY <1>0, <1>3, <1>4
<1>6. /\ s2 \in Seq(Docs) /\ v2 \in Seq(Texts)
      /\ Len(s2) = Len(k) /\ Len(v2) = Len(k)
  <2>0. Len(k) \in Nat
    BY <1>3
  <2>1. s2 \in Seq(Docs) /\ v2 \in Seq(Texts)
    <3> DEFINE n == Len(k)
    <3>1. n \in Nat /\ s2 \in [1 .. n -> Docs] /\ v2 \in [1 .. n -> Texts]
      BY <2>0, <1>5
    <3> HIDE DEF n
    <3>2. s2 \in Seq(Docs)
      BY <3>1, SeqDef
    <3>3. v2 \in Seq(Texts)
      BY <3>1, SeqDef
    <3> QED BY <3>2, <3>3
  <2>2. DOMAIN s2 = 1 .. Len(k) /\ DOMAIN v2 = 1 .. Len(k)
    BY <1>5
  <2>3. Len(s2) = Len(k)
    BY <1>3, <2>1, <2>2, LenProperties
  <2>4. Len(v2) = Len(k)
    BY <1>3, <2>1, <2>2, LenProperties
  <2> QED BY <2>1, <2>3, <2>4
<1>7. \A j \in 1 .. Len(k) : s2[j] = s[k[j]] /\ v2[j] = v[k[j]]
  BY <1>0, <1>3
<1>8. \A i, j \in 1 .. Len(k) : k[i] = k[j] => i = j
  <2>1. TAKE i, j \in 1 .. Len(k)
  <2>2. k[i] \in Nat /\ k[j] \in Nat /\ i \in Nat /\ j \in Nat
    BY <1>3
  <2>3. i < j => k[i] < k[j]
    BY <1>2
  <2>4. j < i => k[j] < k[i]
    BY <1>2
  <2> QED BY <2>2, <2>3, <2>4, SMT
<1>9. \A j \in 1 .. Len(k) : s2[j] # d
  BY <1>2, <1>7
<1>10. LeavesOut(s, v, d, k, s2, v2)
  BY <1>2, <1>3, <1>6, <1>7, <1>8, <1>9 DEF LeavesOut
<1> QED BY <1>10 DEF k, s2, v2

-----------------------------------------------------------------------------
(* Types, and what each step of a request or of a rebuild relies on.       *)
TypeInv == TypeOK /\ StepsOK

(* Types at the start.                                                     *)
LEMMA TypeInit == Init => TypeInv
<1> SUFFICES ASSUME Init PROVE TypeInv
  OBVIOUS
<1>1. <<>> \in Seq(Docs) /\ <<>> \in Seq(Texts) /\ Len(<<>>) = 0
  BY EmptySeq
<1>2. TypeOK
  <2>1. /\ file \in [Docs -> Texts \cup {NoText}]
        /\ hit \in [Requests -> {NoHit} \cup Hits]
        /\ out \in [Requests -> Seq(Docs)] /\ work \in [Rebuilds -> Seq(Texts)]
        /\ todo \in [Rebuilds -> SUBSET Docs]
    BY <1>1 DEF Init
  <2>2. starts \in 0 .. MaxStarts
    BY EmbedAssumption DEF Init
  <2>3. ~Readable(bin) /\ ~Readable(json)
    BY DEF Init, Readable
  <2>4. ids \in Seq(Docs) /\ vecs \in Seq(Texts)
    BY <1>1 DEF Init
  <2>5. /\ up \in BOOLEAN /\ calm \in BOOLEAN /\ orderly \in BOOLEAN
        /\ clean \subseteq Rebuilds
    BY DEF Init
  <2>6. /\ rpc \in [Requests -> {"idle", "add", "remove", "search", "ask", "done"}]
        /\ req \in [Requests -> Docs \cup {NoText}]
        /\ bpc \in [Rebuilds -> {"idle", "list", "read", "save", "bin", "ids", "json"}]
    BY DEF Init
  <2> QED BY <2>1, <2>2, <2>3, <2>4, <2>5, <2>6, Zenon DEF TypeOK
<1>3. StepsOK
  BY <1>1, EmbedAssumption DEF Init, StepsOK, Idle, Texts
<1> QED BY <1>2, <1>3 DEF TypeInv

(* The ids of the texts that a rebuild has read.                           *)
LEMMA LabelsProperties ==
    ASSUME NEW t \in Seq(Texts)
    PROVE  /\ Labels(t) \in Seq(Docs) /\ Len(Labels(t)) = Len(t)
           /\ \A i \in 1 .. Len(t) : Labels(t)[i] = t[i][1]
<1>1. DOMAIN t = 1 .. Len(t) /\ Len(t) \in Nat
  BY LenProperties
<1>2. \A i \in 1 .. Len(t) : t[i][1] \in Docs
  BY ElementOfSeq DEF Texts
<1>3. Labels(t) \in [1 .. Len(t) -> Docs]
  BY <1>1, <1>2 DEF Labels
<1> QED BY <1>1, <1>3, SeqDef, LenProperties DEF Labels

(* The end of a call that changes the arrays.                              *)
LEMMA MemoryKeepsTypes ==
    ASSUME TypeInv, NEW r \in Requests, rpc[r] \in {"add", "remove"},
           ids' \in Seq(Docs), vecs' \in Seq(Texts), Len(ids') = Len(vecs'),
           rpc' = [rpc EXCEPT ![r] = "done"], Settle,
           UNCHANGED <<file, disk, life, req, hit, out, threads, orderly>>
    PROVE  TypeInv'
<1> USE DEF TypeInv, mem, disk, asked, life, threads
<1>1. calm' \in BOOLEAN
  BY DEF Settle, TypeOK
<1>2. up
  BY DEF StepsOK
<1>3. TypeOK'
  BY <1>1 DEF TypeOK
<1>4. StepsOK'
  BY <1>2 DEF TypeOK, StepsOK
<1> QED BY <1>3, <1>4

(* The end of a query.                                                     *)
LEMMA ReportKeepsTypes ==
    ASSUME TypeInv, NEW r \in Requests, NEW names \in Seq(Docs), Report(r, names)
    PROVE  TypeInv'
<1> USE DEF TypeInv, mem, disk, asked, life, threads
<1>1. /\ out' \in [Requests -> Seq(Docs)]
      /\ hit' \in [Requests -> {NoHit} \cup Hits]
      /\ \A q \in Requests : q # r => out'[q] = out[q] /\ hit'[q] = hit[q]
  <2> HIDE DEF NoHit, Hits
  <2> QED BY DEF Report, TypeOK
<1>2. TypeOK'
  BY <1>1 DEF Report, TypeOK
<1>3. StepsOK'
  BY <1>1 DEF Report, TypeOK, StepsOK, Idle
<1> QED BY <1>2, <1>3

(* Types and the order of steps are inductive.                             *)
LEMMA TypeNext == TypeInv /\ [Next]_vars => TypeInv'
<1> SUFFICES ASSUME TypeInv, [Next]_vars PROVE TypeInv'
  OBVIOUS
<1> USE DEF TypeInv
<1>1. CASE Start
  <2> USE DEF mem, disk, asked, life, threads
  <2>1. /\ starts' \in 0 .. MaxStarts
    BY <1>1, EmbedAssumption DEF Start, TypeOK
  <2>2. CASE /\ Readable(bin) /\ Readable(json) /\ Len(bin) = Len(json)
             /\ ids' = json /\ vecs' = bin /\ UNCHANGED <<bpc, todo>> /\ orderly' = FALSE
    BY <1>1, <2>1, <2>2, Zenon DEF Start, TypeOK, StepsOK, Idle
  <2>3. ASSUME NEW b \in Rebuilds, Spawn(b, Home), UNCHANGED <<mem, orderly>>
        PROVE  TypeInv'
    BY <1>1, <2>1, <2>3, EmbedAssumption DEF Start, TypeOK, StepsOK, Idle, Spawn
  <2> QED BY <1>1, <2>2, <2>3, Zenon DEF Start
<1>2. CASE Crash
  BY <1>2, EmptySeq DEF Crash, TypeOK, StepsOK, Idle, mem, disk, asked, life, threads
<1>3. ASSUME NEW r \in Requests, PutFile(r) PROVE TypeInv'
  BY <1>3, EmbedAssumption DEF PutFile, ChangeFile, TypeOK, StepsOK, Texts, Idle, mem, disk, asked, life, threads
<1>4. ASSUME NEW r \in Requests, DeleteFile(r) PROVE TypeInv'
  BY <1>4, EmbedAssumption DEF DeleteFile, ChangeFile, TypeOK, StepsOK, Texts, Idle, mem, disk, asked, life, threads
<1>7. ASSUME NEW r \in Requests, Query(r) PROVE TypeInv'
  <2> USE DEF mem, disk, asked, life, threads
  <2>1. CASE UNCHANGED hit /\ rpc' = [rpc EXCEPT ![r] = "done"]
    BY <1>7, <2>1 DEF Query, TypeOK, StepsOK, Idle
  <2>2. ASSUME NEW kind \in {"search", "ask"}, NEW i \in DOMAIN vecs, NEW h,
               h = [at |-> i, text |-> vecs[i],
                    name |-> IF kind = "ask" /\ i <= Len(ids) THEN ids[i] ELSE NoText],
               hit' = [hit EXCEPT ![r] = h], rpc' = [rpc EXCEPT ![r] = kind]
        PROVE  TypeInv'
    <3>1. ids \in Seq(Docs) /\ vecs \in Seq(Texts) /\ Len(ids) = Len(vecs)
      BY DEF TypeOK, StepsOK
    <3>2. /\ i \in Nat \ {0} /\ i <= Len(ids)
          /\ vecs[i] \in Texts /\ ids[i] \in Docs
      BY <2>2, <3>1, LenProperties, ElementOfSeq, SMT
    <3>3. h \in Hits /\ (kind = "ask" => h.name \in Docs)
      BY <2>2, <3>2 DEF Hits
    <3>4. /\ hit' \in [Requests -> {NoHit} \cup Hits] /\ hit'[r] = h
          /\ \A q \in Requests : q # r => hit'[q] = hit[q] /\ rpc'[q] = rpc[q]
          /\ rpc' \in [Requests -> {"idle", "add", "remove", "search", "ask", "done"}]
          /\ rpc'[r] = kind
      BY <2>2, <3>3 DEF TypeOK
    <3>5. /\ rpc[r] = "idle" /\ up
          /\ UNCHANGED <<file, mem, disk, life, req, out, threads, calm, orderly>>
      BY <1>7 DEF Query
    <3> HIDE DEF Hits, NoHit
    <3>6. TypeOK'
      BY <3>4, <3>5 DEF TypeOK
    <3>7. StepsOK'
      <4>1. \A q \in Requests :
              /\ rpc'[q] \in {"add", "remove"} => req'[q] \in Docs \cap Home
              /\ rpc'[q] \in {"search", "ask"} => hit'[q] \in Hits
              /\ rpc'[q] = "ask" => hit'[q].name \in Docs
              /\ rpc'[q] # "done" => out'[q] = <<>>
        <5>1. TAKE q \in Requests
        <5>2. CASE q = r
          BY <2>2, <3>3, <3>4, <3>5, <5>2 DEF StepsOK
        <5>3. CASE q # r
          BY <3>4, <3>5, <5>3 DEF StepsOK
        <5> QED BY <5>2, <5>3
      <4> QED BY <3>5, <4>1 DEF StepsOK
    <3> QED BY <3>6, <3>7
  <2> QED BY <1>7, <2>1, <2>2, Zenon DEF Query
<1>8. ASSUME NEW r \in Requests, SearchReply(r) PROVE TypeInv'
  <2> DEFINE names == IF hit[r].at <= Len(ids) THEN <<ids[hit[r].at]>> ELSE <<>>
  <2>1. ids \in Seq(Docs) /\ hit[r].at \in Nat \ {0}
    BY <1>8 DEF SearchReply, TypeOK, StepsOK, Hits
  <2>2. hit[r].at <= Len(ids) => ids[hit[r].at] \in Docs
    BY <2>1, LenProperties, ElementOfSeq, SMT
  <2>3. names \in Seq(Docs)
    BY <2>2
  <2> HIDE DEF names
  <2> QED BY <1>8, <2>3, ReportKeepsTypes DEF SearchReply, names
<1>9. ASSUME NEW r \in Requests, AskReply(r) PROVE TypeInv'
  <2>1. <<hit[r].name>> \in Seq(Docs)
    BY <1>9 DEF AskReply, StepsOK
  <2> QED BY <1>9, <2>1, ReportKeepsTypes DEF AskReply
<1>10. ASSUME NEW r \in Requests, Trigger(r) PROVE TypeInv'
  BY <1>10, EmbedAssumption DEF Trigger, Spawn, TypeOK, StepsOK, Idle, mem, disk, asked, life, threads
<1>11. ASSUME NEW b \in Rebuilds, ListFiles(b) PROVE TypeInv'
  BY <1>11 DEF ListFiles, TypeOK, StepsOK, Idle, mem, disk, asked, life, threads
<1>12. ASSUME NEW b \in Rebuilds, ReadFile(b) PROVE TypeInv'
  <2>1. PICK d \in todo[b] :
          /\ todo' = [todo EXCEPT ![b] = @ \ {d}]
          /\ \/ /\ file[d] # NoText /\ work' = [work EXCEPT ![b] = Append(@, file[d])]
                /\ UNCHANGED <<clean, orderly>>
             \/ /\ clean' = IF file[d] = NoText THEN clean ELSE clean \ {b}
                /\ orderly' = (orderly /\ file[d] = NoText)
                /\ work' = work
    BY <1>12 DEF ReadFile
  <2>2. /\ orderly' \in BOOLEAN /\ clean' \subseteq Rebuilds
        /\ work' \in [Rebuilds -> Seq(Texts)]
        /\ todo' \in [Rebuilds -> SUBSET Docs]
        /\ \A c \in Rebuilds : c # b => work'[c] = work[c]
    <3>1. orderly' \in BOOLEAN /\ clean' \subseteq Rebuilds
      <4>1. CASE UNCHANGED <<clean, orderly>>
        BY <4>1 DEF TypeOK
      <4>2. CASE orderly' = (orderly /\ file[d] = NoText)
        BY <2>1, <4>2 DEF TypeOK
      <4> QED BY <2>1, <4>1, <4>2
    <3>2. /\ work' \in [Rebuilds -> Seq(Texts)]
          /\ \A c \in Rebuilds : c # b => work'[c] = work[c]
      <4>1. CASE file[d] # NoText /\ work' = [work EXCEPT ![b] = Append(@, file[d])]
        <5>1. Append(work[b], file[d]) \in Seq(Texts)
          BY <4>1, AppendProperties DEF TypeOK
        <5> QED BY <4>1, <5>1 DEF TypeOK
      <4> QED BY <2>1, <4>1 DEF TypeOK
    <3>3. todo' \in [Rebuilds -> SUBSET Docs]
      BY <2>1 DEF TypeOK
    <3> QED BY <3>1, <3>2, <3>3
  <2>3. /\ UNCHANGED <<file, mem, disk, life, asked, bpc, calm>> /\ bpc[b] = "read"
    BY <1>12 DEF ReadFile
  <2> QED BY <2>2, <2>3 DEF TypeOK, StepsOK, Idle, mem, disk, asked, life
<1>13. ASSUME NEW b \in Rebuilds, NothingRead(b) PROVE TypeInv'
  BY <1>13 DEF NothingRead, TypeOK, StepsOK, Idle, mem, disk, asked, life, threads
<1>14. ASSUME NEW b \in Rebuilds, OpenBin(b) PROVE TypeInv'
  BY <1>14 DEF OpenBin, TypeOK, Readable, StepsOK, Idle, mem, disk, asked, life, threads
<1>15. ASSUME NEW b \in Rebuilds, WriteBin(b) PROVE TypeInv'
  BY <1>15, EmptySeq DEF WriteBin, TypeOK, StepsOK, Idle, mem, disk, asked, life, threads
<1>16. ASSUME NEW b \in Rebuilds, OpenIds(b) PROVE TypeInv'
  BY <1>16 DEF OpenIds, TypeOK, Readable, StepsOK, Idle, mem, disk, asked, life, threads
<1>17. ASSUME NEW b \in Rebuilds, WriteIds(b) PROVE TypeInv'
  BY <1>17 DEF WriteIds, TypeOK, StepsOK, Idle, mem, disk, asked, life, threads
<1>18. ASSUME NEW r \in Requests, AddDoc(r) PROVE TypeInv'
  <2> USE DEF mem, disk, asked, life, threads
  <2> DEFINE s == Without(ids, ids, req[r])
  <2> DEFINE v == Without(vecs, ids, req[r])
  <2>1. /\ ids \in Seq(Docs) /\ vecs \in Seq(Texts) /\ Len(ids) = Len(vecs)
        /\ rpc[r] = "add" /\ req[r] \in Docs
        /\ ids' = Append(s, req[r]) /\ vecs' = Append(v, <<req[r], r>>)
    BY <1>18 DEF AddDoc, TypeOK, StepsOK, Without
  <2>2. s \in Seq(Docs) /\ v \in Seq(Texts) /\ Len(s) = Len(v)
    BY <2>1, WithoutEntries DEF LeavesOut
  <2> HIDE DEF s, v
  <2>3. <<req[r], r>> \in Texts
    BY <2>1 DEF Texts
  <2>4. ids' \in Seq(Docs) /\ vecs' \in Seq(Texts) /\ Len(ids') = Len(vecs')
    BY <2>1, <2>2, <2>3, AppendProperties
  <2> QED BY <1>18, <2>4, MemoryKeepsTypes DEF AddDoc
<1>19. ASSUME NEW r \in Requests, RemoveDoc(r) PROVE TypeInv'
  <2>1. /\ ids \in Seq(Docs) /\ vecs \in Seq(Texts) /\ Len(ids) = Len(vecs)
        /\ ids' = Without(ids, ids, req[r]) /\ vecs' = Without(vecs, ids, req[r])
    BY <1>19 DEF RemoveDoc, TypeOK, StepsOK, Without
  <2>2. ids' \in Seq(Docs) /\ vecs' \in Seq(Texts) /\ Len(ids') = Len(vecs')
    BY <2>1, WithoutEntries DEF LeavesOut
  <2> QED BY <1>19, <2>2, MemoryKeepsTypes DEF RemoveDoc
<1>20. ASSUME NEW b \in Rebuilds, Swap(b) PROVE TypeInv'
  <2> USE DEF mem, disk, asked, life, threads
  <2>1. work[b] \in Seq(Texts) /\ vecs' = work[b] /\ ids' = Labels(work[b])
    BY <1>20 DEF Swap, TypeOK
  <2>2. ids' \in Seq(Docs) /\ Len(ids') = Len(vecs')
    BY <2>1, LabelsProperties
  <2>3. up
    BY <1>20 DEF Swap, StepsOK, Idle
  <2>4. /\ orderly' \in BOOLEAN /\ calm' \in BOOLEAN /\ clean' \subseteq Rebuilds
    BY <1>20 DEF Swap, Repair, Settle, TypeOK
  <2>5. /\ bpc' = [bpc EXCEPT ![b] = "save"] /\ work' = [work EXCEPT ![b] = <<>>]
        /\ UNCHANGED <<file, disk, life, asked, todo>>
    BY <1>20 DEF Swap
  <2>6. TypeOK'
    BY <2>1, <2>2, <2>4, <2>5, EmptySeq DEF TypeOK
  <2>7. StepsOK'
    BY <2>2, <2>3, <2>5 DEF TypeOK, StepsOK
  <2> QED BY <2>6, <2>7
<1>21. CASE UNCHANGED vars
  BY <1>21 DEF vars, TypeOK, StepsOK, Idle, mem, disk, asked, life, threads
<1> QED BY <1>1, <1>2, <1>3, <1>4, <1>7, <1>8, <1>9, <1>10, <1>11, <1>12, <1>13,
           <1>14, <1>15, <1>16, <1>17, <1>18, <1>19, <1>20, <1>21, Zenon DEF Next

-----------------------------------------------------------------------------
(* A rebuild has at most one text of a document, and none of those that it *)
(* has still to read.                                                      *)
LEMMA WorkInit == Init => WorkOK
  BY DEF Init, WorkOK

(* What a rebuild has read stays apart from what it has to read.           *)
LEMMA WorkNext == TypeInv /\ WorkOK /\ [Next]_vars => WorkOK'
<1> SUFFICES ASSUME TypeInv, WorkOK, [Next]_vars PROVE WorkOK'
  OBVIOUS
<1>1. ASSUME \A b \in Rebuilds : bpc'[b] = "read" =>
                bpc[b] = "read" /\ work'[b] = work[b] /\ todo'[b] = todo[b]
      PROVE  WorkOK'
  BY <1>1 DEF WorkOK
<1>2. ASSUME NEW b \in Rebuilds, ReadFile(b) PROVE WorkOK'
  <2>1. PICK d \in todo[b] :
          /\ todo' = [todo EXCEPT ![b] = @ \ {d}]
          /\ \/ file[d] # NoText /\ work' = [work EXCEPT ![b] = Append(@, file[d])]
             \/ work' = work
    BY <1>2 DEF ReadFile
  <2> DEFINE w == work[b]
  <2> DEFINE x == work'[b]
  <2>2. /\ bpc[b] = "read" /\ w \in Seq(Texts) /\ d \in Docs
        /\ todo'[b] = todo[b] \ {d} /\ bpc' = bpc
        /\ x = w \/ (file[d] # NoText /\ x = Append(w, file[d]))
        /\ \A c \in Rebuilds : c # b => work'[c] = work[c] /\ todo'[c] = todo[c]
    BY <1>2, <2>1 DEF ReadFile, TypeInv, TypeOK
  <2>3. /\ \A i \in DOMAIN w : w[i][1] \notin todo[b]
        /\ \A i, j \in DOMAIN w : w[i][1] = w[j][1] => i = j
    BY <2>2 DEF WorkOK
  <2>4. file[d] # NoText => file[d] \in Texts /\ file[d][1] = d
    BY <2>2 DEF TypeInv, TypeOK, StepsOK
  <2> HIDE DEF w, x
  <2>5. /\ \A i \in DOMAIN x : x[i][1] \notin todo[b] \ {d}
        /\ \A i, j \in DOMAIN x : x[i][1] = x[j][1] => i = j
    <3>1. CASE x = w
      BY <2>3, <3>1
    <3>2. CASE file[d] # NoText /\ x = Append(w, file[d])
      <4>1. /\ DOMAIN w = 1 .. Len(w) /\ DOMAIN x = 1 .. Len(w) + 1 /\ Len(w) \in Nat
            /\ \A i \in 1 .. Len(w) : x[i] = w[i]
            /\ x[Len(w) + 1][1] = d
        BY <2>2, <2>4, <3>2, AppendProperties, LenProperties
      <4>2. \A i \in DOMAIN x : i \in DOMAIN w \/ i = Len(w) + 1
        BY <4>1, SMT
      <4>3. \A i \in DOMAIN w : x[i] = w[i] /\ x[i][1] # d
        BY <4>1, <2>1, <2>3
      <4>4. \A i \in DOMAIN x : x[i][1] \notin todo[b] \ {d}
        BY <4>1, <4>2, <4>3, <2>3
      <4>5. ASSUME NEW i \in DOMAIN x, NEW j \in DOMAIN x, x[i][1] = x[j][1]
            PROVE  i = j
        <5>1. CASE i \in DOMAIN w /\ j \in DOMAIN w
          BY <4>3, <4>5, <5>1, <2>3
        <5>2. CASE i \in DOMAIN w /\ j = Len(w) + 1
          BY <4>1, <4>3, <4>5, <5>2
        <5>3. CASE i = Len(w) + 1 /\ j \in DOMAIN w
          BY <4>1, <4>3, <4>5, <5>3
        <5> QED BY <4>2, <5>1, <5>2, <5>3
      <4> QED BY <4>4, <4>5
    <3> QED BY <2>2, <3>1, <3>2
  <2>6. ASSUME NEW c \in Rebuilds, bpc'[c] = "read"
        PROVE  /\ \A i \in DOMAIN work'[c] : work'[c][i][1] \notin todo'[c]
               /\ \A i, j \in DOMAIN work'[c] : work'[c][i][1] = work'[c][j][1] => i = j
    <3>1. CASE c = b
      BY <2>2, <2>5, <3>1 DEF x
    <3>2. CASE c # b
      BY <2>2, <2>6, <3>2 DEF WorkOK
    <3> QED BY <3>1, <3>2
  <2> QED BY <2>6 DEF WorkOK
<1>3. ASSUME NEW b \in Rebuilds, ListFiles(b) PROVE WorkOK'
  <2>1. work[b] = <<>> /\ work' = work
    BY <1>3 DEF ListFiles, threads, TypeInv, StepsOK
  <2>2. \A c \in Rebuilds : c # b =>  bpc'[c] = bpc[c] /\ todo'[c] = todo[c]
    BY <1>3 DEF ListFiles, TypeInv, TypeOK
  <2> QED BY <2>1, <2>2 DEF WorkOK
<1>4. CASE Start
  BY <1>1, <1>4 DEF Start, Spawn, TypeInv, TypeOK
<1>5. CASE Crash
  BY <1>1, <1>5 DEF Crash
<1>6. ASSUME NEW r \in Requests, PutFile(r) \/ DeleteFile(r) \/ AddDoc(r) \/ RemoveDoc(r)
                                 \/ Query(r) \/ SearchReply(r) \/ AskReply(r)
      PROVE WorkOK'
  <2>1. UNCHANGED <<bpc, todo, work>>
    BY <1>6 DEF PutFile, DeleteFile, ChangeFile, AddDoc, RemoveDoc, Query, SearchReply,
                AskReply, Report, threads
  <2> QED BY <1>1, <2>1
<1>7. ASSUME NEW r \in Requests, Trigger(r) PROVE WorkOK'
  BY <1>1, <1>7 DEF Trigger, Spawn, TypeInv, TypeOK
<1>8. ASSUME NEW b \in Rebuilds, Swap(b) \/ NothingRead(b) \/ OpenBin(b) \/ WriteBin(b)
                                 \/ OpenIds(b) \/ WriteIds(b)
      PROVE WorkOK'
  <2>1. /\ todo' = todo /\ bpc'[b] # "read"
        /\ \A c \in Rebuilds : c # b => bpc'[c] = bpc[c]
    BY <1>8 DEF Swap, NothingRead, OpenBin, WriteBin, OpenIds, WriteIds, TypeInv, TypeOK
  <2>2. \A c \in Rebuilds : c # b => work'[c] = work[c]
    BY <1>8 DEF Swap, NothingRead, OpenBin, WriteBin, OpenIds, WriteIds, TypeInv, TypeOK
  <2> QED BY <1>1, <2>1, <2>2
<1>9. CASE UNCHANGED vars
  BY <1>1, <1>9 DEF vars, threads
<1> QED BY <1>2, <1>3, <1>4, <1>5, <1>6, <1>7, <1>8, <1>9, Zenon DEF Next

-----------------------------------------------------------------------------
(* A removal keeps consistent arrays consistent.                           *)
LEMMA RemoveKeepsConsistent ==
    ASSUME NEW s \in Seq(Docs), NEW v \in Seq(Texts), Consistent(v, s), NEW d
    PROVE  Consistent(Without(v, s, d), Without(s, s, d))
<1> DEFINE s2 == Without(s, s, d)
<1> DEFINE v2 == Without(v, s, d)
<1> DEFINE k == Others(s, d)
<1>1. Len(s) = Len(v) /\ DOMAIN s = 1 .. Len(s)
  BY LenProperties DEF Consistent
<1>0. LeavesOut(s, v, d, k, s2, v2)
  BY <1>1, WithoutEntries
<1> HIDE DEF s2, v2, k
<1>2. /\ s2 \in Seq(Docs) /\ Len(s2) = Len(v2)
      /\ \A j \in 1 .. Len(s2) :
            k[j] \in 1 .. Len(s) /\ s2[j] = s[k[j]] /\ v2[j] = v[k[j]]
      /\ \A i, j \in 1 .. Len(s2) : k[i] = k[j] => i = j
  BY <1>0 DEF LeavesOut
<1>3. DOMAIN s2 = 1 .. Len(s2)
  BY <1>2, LenProperties
<1>4. /\ \A i \in 1 .. Len(s) : v[i][1] = s[i]
      /\ \A i, j \in 1 .. Len(s) : s[i] = s[j] => i = j
  BY <1>1 DEF Consistent
<1>5. ASSUME NEW i \in 1 .. Len(s2) PROVE v2[i][1] = s2[i]
  <2>1. v2[i] = v[k[i]] /\ s2[i] = s[k[i]] /\ k[i] \in 1 .. Len(s)
    BY <1>2
  <2> QED BY <1>4, <2>1
<1>6. ASSUME NEW i \in 1 .. Len(s2), NEW j \in 1 .. Len(s2), s2[i] = s2[j] PROVE i = j
  <2>1. s[k[i]] = s[k[j]] /\ k[i] \in 1 .. Len(s) /\ k[j] \in 1 .. Len(s)
    BY <1>2, <1>6
  <2>2. k[i] = k[j]
    BY <1>4, <2>1
  <2> QED BY <1>2, <2>2
<1>7. Consistent(v2, s2)
  BY <1>2, <1>3, <1>5, <1>6 DEF Consistent
<1> QED BY <1>7 DEF s2, v2

(* So does an addition, of a new document or of a known one.               *)
LEMMA AddKeepsConsistent ==
    ASSUME NEW s \in Seq(Docs), NEW v \in Seq(Texts), Consistent(v, s),
           NEW t \in Texts
    PROVE  Consistent(Append(Without(v, s, t[1]), t), Append(Without(s, s, t[1]), t[1]))
<1> DEFINE d == t[1]
<1> DEFINE s2 == Without(s, s, d)
<1> DEFINE v2 == Without(v, s, d)
<1> DEFINE s3 == Append(s2, d)
<1> DEFINE v3 == Append(v2, t)
<1> DEFINE n == Len(s2)
<1>1. /\ s2 \in Seq(Docs) /\ v2 \in Seq(Texts) /\ Len(v2) = n /\ d \in Docs
      /\ \A j \in 1 .. n : s2[j] # d
  <2>1. Len(s) = Len(v)
    BY DEF Consistent
  <2>2. d \in Docs
    BY DEF Texts
  <2> HIDE DEF d
  <2> QED BY <2>1, <2>2, WithoutEntries DEF LeavesOut
<1>2. Consistent(v2, s2)
  BY RemoveKeepsConsistent
<1> HIDE DEF s2, v2, d
<1>3. /\ n \in Nat /\ DOMAIN s2 = 1 .. n /\ DOMAIN s3 = 1 .. n + 1
      /\ Len(s3) = n + 1 /\ Len(v3) = n + 1
      /\ \A i \in 1 .. n : s3[i] = s2[i] /\ v3[i] = v2[i]
      /\ s3[n + 1] = d /\ v3[n + 1] = t
  BY <1>1, AppendProperties, LenProperties
<1> HIDE DEF n, s3, v3
<1>4. \A i \in 1 .. n + 1 : i \in 1 .. n \/ i = n + 1
  BY <1>3, SMT
<1>5. \A i \in 1 .. n + 1 : v3[i][1] = s3[i]
  BY <1>2, <1>3, <1>4 DEF Consistent, d
<1>6. \A i, j \in 1 .. n + 1 : s3[i] = s3[j] => i = j
  <2>1. TAKE i, j \in 1 .. n + 1
  <2>2. CASE i \in 1 .. n /\ j \in 1 .. n
    BY <1>2, <1>3, <2>2 DEF Consistent
  <2>3. CASE i = n + 1 /\ j \in 1 .. n
    BY <1>1, <1>3, <2>3 DEF n
  <2>4. CASE i \in 1 .. n /\ j = n + 1
    BY <1>1, <1>3, <2>4 DEF n
  <2> QED BY <1>4, <2>2, <2>3, <2>4
<1>7. Consistent(v3, s3)
  BY <1>3, <1>5, <1>6 DEF Consistent
<1> QED BY <1>7 DEF v3, s3, s2, v2, d

(* What a rebuild puts in place is consistent.                             *)
LEMMA WorkIsConsistent ==
    ASSUME NEW t \in Seq(Texts), \A i, j \in DOMAIN t : t[i][1] = t[j][1] => i = j
    PROVE  Consistent(t, Labels(t))
<1> DEFINE s == Labels(t)
<1>1. /\ Len(s) = Len(t) /\ DOMAIN s = 1 .. Len(t) /\ DOMAIN t = 1 .. Len(t)
      /\ \A i \in 1 .. Len(t) : s[i] = t[i][1]
  BY LabelsProperties, LenProperties
<1> HIDE DEF s
<1>2. Consistent(t, s)
  BY <1>1 DEF Consistent
<1> QED BY <1>2 DEF s

(* Calm states, see CalmServiceIsConsistent.                               *)
LEMMA CalmInit == Init => CalmInv
<1> SUFFICES ASSUME Init PROVE CalmInv
  OBVIOUS
<1>1. Len(ids) = Len(vecs) /\ DOMAIN ids = {}
  BY EmptySeq, LenProperties DEF Init
<1>2. Consistent(vecs, ids)
  BY <1>1 DEF Consistent
<1>3. PairOK /\ SavedVectors /\ TakenVectors /\ AskedNames
  BY DEF Init, PairOK, SavedVectors, TakenVectors, AskedNames, Readable
<1> QED BY <1>2, <1>3 DEF CalmInv

(* A step that leaves the arrays, the files of the cache and the threads   *)
(* that save alone.                                                        *)
LEMMA CalmFrame ==
    ASSUME CalmInv, calm' => calm, UNCHANGED <<mem, disk>>,
           \A b \in Rebuilds :
                /\ bpc'[b] = bpc[b]
                    \/ {bpc[b], bpc'[b]} \cap {"bin", "ids", "json"} = {}
                /\ bpc[b] = "bin" => work'[b] = work[b],
           \A r \in Requests : rpc'[r] = "ask" => rpc[r] = "ask" /\ hit'[r] = hit[r]
    PROVE  CalmInv'
<1> SUFFICES ASSUME calm' PROVE CalmInv'
  BY DEF CalmInv
<1>1. Consistent(vecs, ids) /\ PairOK /\ SavedVectors /\ TakenVectors /\ AskedNames
  BY DEF CalmInv
<1>2. \A b \in Rebuilds : /\ (bpc'[b] = "bin") <=> (bpc[b] = "bin")
                          /\ (bpc'[b] = "ids") <=> (bpc[b] = "ids")
                          /\ (bpc'[b] = "json") <=> (bpc[b] = "json")
  OBVIOUS
<1>3. Saving' <=> Saving
  BY <1>2 DEF Saving
<1>4. vecs' = vecs /\ ids' = ids /\ bin' = bin /\ json' = json
  BY DEF mem, disk
<1>5. Consistent(vecs, ids)' /\ PairOK' /\ SavedVectors'
  BY <1>1, <1>2, <1>3, <1>4 DEF Consistent, PairOK, SavedVectors, Readable
<1>6. TakenVectors' /\ AskedNames'
  BY <1>1, <1>2, <1>4 DEF TakenVectors, AskedNames
<1> QED BY <1>5, <1>6 DEF CalmInv

(* A change of the arrays: calm does not survive it while a thread saves.  *)
LEMMA CalmChange ==
    ASSUME CalmInv, Settle, UNCHANGED disk, calm' => Consistent(vecs, ids)',
           \A b \in Rebuilds :
                bpc'[b] = bpc[b] \/ bpc'[b] \notin {"bin", "ids", "json"},
           \A r \in Requests : rpc'[r] = "ask" => rpc[r] = "ask" /\ hit'[r] = hit[r]
    PROVE  CalmInv'
<1> SUFFICES ASSUME calm' PROVE CalmInv'
  BY DEF CalmInv
<1>1. calm /\ ~Saving
  BY DEF Settle
<1>2. \A b \in Rebuilds : /\ bpc'[b] \notin {"bin", "ids", "json"}
                          /\ bpc[b] \notin {"bin", "ids", "json"}
  BY <1>1 DEF Saving
<1>3. ~Saving'
  BY <1>2 DEF Saving
<1>4. PairOK'
  BY <1>1, <1>2 DEF CalmInv, PairOK, Readable, Consistent, disk
<1>5. SavedVectors' /\ TakenVectors' /\ AskedNames'
  BY <1>1, <1>2, <1>3 DEF CalmInv, SavedVectors, TakenVectors, AskedNames
<1> QED BY <1>4, <1>5 DEF CalmInv

(* Calm states stay consistent, in memory and on disk.                     *)
LEMMA CalmNext == TypeInv /\ WorkOK /\ CalmInv /\ [Next]_vars => CalmInv'
<1> SUFFICES ASSUME TypeInv, WorkOK, CalmInv, [Next]_vars PROVE CalmInv'
  OBVIOUS
<1>1. CASE Start
  <2>1. /\ Idle /\ calm' = calm /\ bin' = bin /\ json' = json /\ rpc' = rpc /\ hit' = hit
        /\ \A r \in Requests : rpc[r] # "ask"
        /\ work' = work
    BY <1>1 DEF Start, TypeInv, StepsOK, disk, asked
  <2>2. \A b \in Rebuilds : /\ bpc[b] \notin {"bin", "ids", "json"}
                            /\ bpc'[b] \notin {"bin", "ids", "json"}
    BY <1>1, <2>1 DEF Start, Spawn, Idle, TypeInv, TypeOK
  <2>3. CASE UNCHANGED mem
    BY <2>1, <2>2, <2>3, CalmFrame DEF disk
  <2>4. CASE Readable(bin) /\ Readable(json) /\ ids' = json /\ vecs' = bin
    <3>1. calm' => Consistent(vecs, ids)'
      <4>1. calm' => Consistent(bin, json)
        BY <2>1, <2>2, <2>4 DEF CalmInv, PairOK
      <4>2. calm' => Consistent(vecs', ids')
        BY <4>1, <2>4
      <4> QED BY <4>2 DEF Consistent
    <3>2. Settle
      <4>1. ~Saving /\ calm \in BOOLEAN /\ calm' = calm
        BY <2>1, <2>2 DEF Saving, TypeInv, TypeOK
      <4> QED BY <4>1, Zenon DEF Settle
    <3> QED BY <2>1, <2>2, <3>1, <3>2, CalmChange DEF disk
  <2> QED BY <1>1, <2>3, <2>4, Zenon DEF Start
<1>2. CASE Crash
  <2>1. /\ \A b \in Rebuilds : bpc'[b] = "idle"
        /\ \A r \in Requests : rpc'[r] # "ask"
        /\ bin' = bin /\ json' = json
        /\ ids' = <<>> /\ vecs' = <<>>
        /\ calm' => calm /\ \A b \in Rebuilds : bpc[b] # "ids"
    BY <1>2 DEF Crash, disk
  <2>2. Consistent(vecs, ids)'
    <3>1. Len(ids') = Len(vecs') /\ DOMAIN ids' = {}
      BY <2>1, EmptySeq
    <3> QED BY <3>1 DEF Consistent
  <2>3. calm' => PairOK'
    BY <2>1 DEF CalmInv, PairOK, Readable, Consistent
  <2>4. SavedVectors' /\ TakenVectors' /\ AskedNames'
    BY <2>1 DEF SavedVectors, TakenVectors, AskedNames, Saving
  <2> QED BY <2>2, <2>3, <2>4 DEF CalmInv
<1>3. ASSUME NEW r \in Requests,
             \/ PutFile(r) \/ DeleteFile(r) \/ SearchReply(r) \/ AskReply(r)
             \/ Trigger(r)
      PROVE  CalmInv'
  <2>1. UNCHANGED <<mem, disk, calm, work>>
    BY <1>3 DEF PutFile, DeleteFile, ChangeFile, SearchReply, AskReply, Report, Trigger, threads
  <2>2. \A b \in Rebuilds : \/ bpc'[b] = bpc[b]
                            \/ {bpc[b], bpc'[b]} \cap {"bin", "ids", "json"} = {}
    BY <1>3 DEF PutFile, DeleteFile, ChangeFile, SearchReply, AskReply, Report, Trigger,
                threads, Spawn, TypeInv, TypeOK
  <2>3. \A q \in Requests : rpc'[q] = "ask" => rpc[q] = "ask" /\ hit'[q] = hit[q]
    BY <1>3 DEF PutFile, DeleteFile, ChangeFile, SearchReply, AskReply, Report, Trigger,
                asked, TypeInv, TypeOK
  <2> QED BY <2>1, <2>2, <2>3, CalmFrame
<1>4. ASSUME NEW r \in Requests, AddDoc(r) PROVE CalmInv'
  <2>1. /\ req[r] \in Docs /\ Settle /\ UNCHANGED disk /\ bpc' = bpc /\ hit' = hit
        /\ \A q \in Requests : rpc'[q] = "ask" => rpc[q] = "ask"
    BY <1>4 DEF AddDoc, threads, TypeInv, TypeOK, StepsOK
  <2>2. calm' => Consistent(vecs, ids)'
    <3> DEFINE t == <<req[r], r>>
    <3>1. /\ vecs' = Append(Without(vecs, ids, t[1]), t)
          /\ ids' = Append(Without(ids, ids, t[1]), t[1])
          /\ t \in Texts
      BY <1>4, <2>1 DEF AddDoc, Without, Texts
    <3>2. ids \in Seq(Docs) /\ vecs \in Seq(Texts)
      BY DEF TypeInv, TypeOK
    <3>3. calm' => Consistent(vecs, ids)
      BY <2>1 DEF Settle, CalmInv
    <3> HIDE DEF t
    <3>4. calm' => Consistent(vecs', ids')
      BY <3>1, <3>2, <3>3, AddKeepsConsistent
    <3> QED BY <3>4 DEF Consistent
  <2> QED BY <2>1, <2>2, CalmChange
<1>5. ASSUME NEW r \in Requests, RemoveDoc(r) PROVE CalmInv'
  <2>1. /\ Settle /\ UNCHANGED disk /\ bpc' = bpc /\ hit' = hit
        /\ \A q \in Requests : rpc'[q] = "ask" => rpc[q] = "ask"
    BY <1>5 DEF RemoveDoc, threads, TypeInv, TypeOK
  <2>2. calm' => Consistent(vecs, ids)'
    <3>1. /\ vecs' = Without(vecs, ids, req[r]) /\ ids' = Without(ids, ids, req[r])
      BY <1>5 DEF RemoveDoc, Without
    <3>2. ids \in Seq(Docs) /\ vecs \in Seq(Texts)
      BY DEF TypeInv, TypeOK
    <3>3. calm' => Consistent(vecs, ids)
      BY <2>1 DEF Settle, CalmInv
    <3>4. calm' => Consistent(vecs', ids')
      BY <3>1, <3>2, <3>3, RemoveKeepsConsistent
    <3> QED BY <3>4 DEF Consistent
  <2> QED BY <2>1, <2>2, CalmChange
<1>6. ASSUME NEW r \in Requests, Query(r) PROVE CalmInv'
  <2>1. UNCHANGED <<mem, disk, calm, bpc, work>>
    BY <1>6 DEF Query, threads
  <2>2. \A q \in Requests : q # r => rpc'[q] = rpc[q] /\ hit'[q] = hit[q]
    BY <1>6 DEF Query, TypeInv, TypeOK
  <2>3. calm /\ rpc'[r] = "ask" => hit'[r].name = hit'[r].text[1]
    <3>1. ASSUME calm, NEW i \in DOMAIN vecs,
                 hit' = [hit EXCEPT ![r] =
                            [at |-> i, text |-> vecs[i],
                             name |-> IF i <= Len(ids) THEN ids[i] ELSE NoText]]
          PROVE  hit'[r].name = hit'[r].text[1]
      <4>1. /\ ids \in Seq(Docs) /\ vecs \in Seq(Texts)
            /\ Len(ids) = Len(vecs) /\ \A j \in DOMAIN ids : vecs[j][1] = ids[j]
        BY <3>1 DEF TypeInv, TypeOK, CalmInv, Consistent
      <4>2. i <= Len(ids) /\ vecs[i][1] = ids[i]
        BY <4>1, LenProperties, SMT
      <4>3. hit'[r] = [at |-> i, text |-> vecs[i], name |-> ids[i]]
        BY <3>1, <4>2 DEF TypeInv, TypeOK
      <4> QED BY <4>2, <4>3
    <3>2. ASSUME NEW kind \in {"search", "ask"}, rpc' = [rpc EXCEPT ![r] = kind], kind # "ask"
          PROVE  rpc'[r] # "ask"
      BY <3>2 DEF TypeInv, TypeOK
    <3>3. ASSUME rpc' = [rpc EXCEPT ![r] = "done"] PROVE rpc'[r] # "ask"
      BY <3>3 DEF TypeInv, TypeOK
    <3> QED BY <1>6, <3>1, <3>2, <3>3 DEF Query
  <2>4. CASE calm'
    <3>1. AskedNames'
      BY <2>1, <2>2, <2>3, <2>4 DEF CalmInv, AskedNames
    <3>2. /\ Consistent(vecs, ids)' /\ PairOK' /\ SavedVectors' /\ TakenVectors'
      BY <2>1, <2>4 DEF CalmInv, Consistent, PairOK, SavedVectors, TakenVectors,
                        Readable, Saving, mem, disk
    <3> QED BY <3>1, <3>2 DEF CalmInv
  <2> QED BY <2>4 DEF CalmInv
<1>7. ASSUME NEW b \in Rebuilds, ListFiles(b) \/ NothingRead(b) PROVE CalmInv'
  <2>1. UNCHANGED <<mem, disk, calm, work, rpc, hit>>
    BY <1>7 DEF ListFiles, NothingRead, asked
  <2>2. \A c \in Rebuilds : \/ bpc'[c] = bpc[c]
                            \/ {bpc[c], bpc'[c]} \cap {"bin", "ids", "json"} = {}
    BY <1>7 DEF ListFiles, NothingRead, TypeInv, TypeOK
  <2> QED BY <2>1, <2>2, CalmFrame
<1>8. ASSUME NEW b \in Rebuilds, ReadFile(b) PROVE CalmInv'
  <2>1. UNCHANGED <<mem, disk, calm, bpc, rpc, hit>> /\ bpc[b] = "read"
    BY <1>8 DEF ReadFile, asked
  <2>2. \A c \in Rebuilds : c # b => work'[c] = work[c]
    BY <1>8 DEF ReadFile, TypeInv, TypeOK
  <2> QED BY <2>1, <2>2, CalmFrame
<1>9. ASSUME NEW b \in Rebuilds, Swap(b) PROVE CalmInv'
  <2>1. /\ Settle /\ UNCHANGED <<disk, rpc, hit>>
        /\ bpc' = [bpc EXCEPT ![b] = "save"]
        /\ vecs' = work[b] /\ ids' = Labels(work[b]) /\ bpc[b] = "read"
    BY <1>9 DEF Swap, asked
  <2>2. \A c \in Rebuilds : bpc'[c] = bpc[c] \/ bpc'[c] = "save"
    BY <2>1 DEF TypeInv, TypeOK
  <2>3. Consistent(vecs', ids')
    <3>1. /\ work[b] \in Seq(Texts)
          /\ \A i, j \in DOMAIN work[b] : work[b][i][1] = work[b][j][1] => i = j
      BY <2>1 DEF WorkOK, TypeInv, TypeOK
    <3> QED BY <2>1, <3>1, WorkIsConsistent
  <2>4. Consistent(vecs, ids)'
    BY <2>3 DEF Consistent
  <2> QED BY <2>1, <2>2, <2>4, CalmChange
<1>10. ASSUME NEW b \in Rebuilds, OpenBin(b) PROVE CalmInv'
  <2>1. CASE calm'
    <3>1. /\ calm /\ Consistent(vecs, ids) /\ PairOK /\ SavedVectors /\ TakenVectors /\ AskedNames
      BY <2>1, <1>10 DEF OpenBin, CalmInv
    <3>2. Consistent(vecs, ids)' /\ AskedNames'
      BY <3>1, <1>10 DEF OpenBin, Consistent, AskedNames, mem, asked
    <3>3. /\ UNCHANGED <<ids, vecs>>
          /\ \A c \in Rebuilds : c # b => bpc'[c] = bpc[c] /\ work'[c] = work[c]
          /\ bpc'[b] = "bin" /\ bin' = Torn /\ work'[b] = vecs
      BY <1>10 DEF OpenBin, mem, TypeInv, TypeOK
    <3>4. PairOK' /\ SavedVectors'
      BY <3>3 DEF PairOK, SavedVectors, Readable
    <3>5. TakenVectors'
      BY <3>1, <3>3 DEF TakenVectors
    <3> QED BY <3>1, <3>2, <3>4, <3>5 DEF CalmInv
  <2> QED BY <2>1 DEF CalmInv
<1>11. ASSUME NEW b \in Rebuilds, WriteBin(b) PROVE CalmInv'
  <2>1. CASE calm'
    <3>1. /\ calm /\ Consistent(vecs, ids) /\ PairOK /\ SavedVectors /\ TakenVectors /\ AskedNames
      BY <2>1, <1>11 DEF WriteBin, CalmInv
    <3>2. Consistent(vecs, ids)' /\ AskedNames'
      BY <3>1, <1>11 DEF WriteBin, Consistent, AskedNames, mem, asked
    <3>3. /\ UNCHANGED <<ids, vecs>>
          /\ \A c \in Rebuilds : c # b => bpc'[c] = bpc[c] /\ work'[c] = work[c]
          /\ bpc[b] = "bin" /\ bpc'[b] = "ids" /\ bin' = work[b]
      BY <1>11 DEF WriteBin, mem, TypeInv, TypeOK
    <3>4. PairOK' /\ SavedVectors'
      BY <3>1, <3>3 DEF PairOK, SavedVectors, TakenVectors
    <3>5. TakenVectors'
      BY <3>1, <3>3 DEF TakenVectors
    <3> QED BY <3>1, <3>2, <3>4, <3>5 DEF CalmInv
  <2> QED BY <2>1 DEF CalmInv
<1>12. ASSUME NEW b \in Rebuilds, OpenIds(b) PROVE CalmInv'
  <2>1. CASE calm'
    <3>1. /\ calm /\ Consistent(vecs, ids) /\ PairOK /\ SavedVectors /\ TakenVectors /\ AskedNames
      BY <2>1, <1>12 DEF OpenIds, CalmInv
    <3>2. Consistent(vecs, ids)' /\ AskedNames'
      BY <3>1, <1>12 DEF OpenIds, Consistent, AskedNames, mem, asked
    <3>3. /\ UNCHANGED <<ids, vecs>>
          /\ \A c \in Rebuilds : c # b => bpc'[c] = bpc[c] /\ work'[c] = work[c]
          /\ bpc[b] = "ids" /\ bpc'[b] = "json" /\ bin' = bin /\ json' = Torn
      BY <1>12 DEF OpenIds, mem, TypeInv, TypeOK
    <3>4. PairOK' /\ SavedVectors'
      BY <3>1, <3>3 DEF PairOK, SavedVectors, Readable, Saving
    <3>5. TakenVectors'
      BY <3>1, <3>3 DEF TakenVectors
    <3> QED BY <3>1, <3>2, <3>4, <3>5 DEF CalmInv
  <2> QED BY <2>1 DEF CalmInv
<1>13. ASSUME NEW b \in Rebuilds, WriteIds(b) PROVE CalmInv'
  <2>1. CASE calm'
    <3>1. /\ calm /\ Consistent(vecs, ids) /\ PairOK /\ SavedVectors /\ TakenVectors /\ AskedNames
      BY <2>1, <1>13 DEF WriteIds, CalmInv
    <3>2. Consistent(vecs, ids)' /\ AskedNames'
      BY <3>1, <1>13 DEF WriteIds, Consistent, AskedNames, mem, asked
    <3>3. /\ UNCHANGED <<ids, vecs>>
          /\ \A c \in Rebuilds : c # b => bpc'[c] = bpc[c] /\ work'[c] = work[c]
          /\ bpc[b] = "json" /\ bpc'[b] = "idle" /\ bin' = bin /\ json' = ids
      BY <1>13 DEF WriteIds, mem, TypeInv, TypeOK
    <3>4. PairOK' /\ SavedVectors'
      <4>1. Readable(bin) => bin = vecs
        BY <3>1, <3>3 DEF SavedVectors, Saving
      <4>2. Readable(bin') => Consistent(bin', json')
        BY <3>1, <3>3, <4>1 DEF Readable
      <4>3. PairOK'
        BY <4>2 DEF PairOK, Consistent, Readable
      <4>4. SavedVectors'
        BY <3>3, <4>1 DEF SavedVectors, Readable
      <4> QED BY <4>3, <4>4
    <3>5. TakenVectors'
      BY <3>1, <3>3 DEF TakenVectors
    <3> QED BY <3>1, <3>2, <3>4, <3>5 DEF CalmInv
  <2> QED BY <2>1 DEF CalmInv
<1>14. CASE UNCHANGED vars
  <2>1. UNCHANGED <<mem, disk, calm, bpc, work, rpc, hit>>
    BY <1>14 DEF vars, threads, asked
  <2> QED BY <2>1, CalmFrame
<1> QED BY <1>1, <1>2, <1>3, <1>4, <1>5, <1>6, <1>7, <1>8, <1>9, <1>10, <1>11, <1>12,
           <1>13, <1>14, Zenon DEF Next

-----------------------------------------------------------------------------
(* A step that leaves the files and the clean rebuilds alone.              *)
LEMMA CleanFrame ==
    ASSUME CleanInv, clean' \subseteq clean, file' = file,
           \A b \in clean' : bpc'[b] = bpc[b] /\ todo'[b] = todo[b] /\ work'[b] = work[b],
           NoneChanging => NoneChanging'
    PROVE  CleanInv'
  BY DEF CleanInv, HasOnly, Due

(* No rebuild is under way at the start.                                   *)
LEMMA CleanInit == Init => CleanInv
  BY DEF Init, CleanInv

(* Nothing is being changed: by documents, and by requests.                *)
LEMMA ChangingEquiv ==
    ASSUME TypeInv PROVE (\A d \in Docs : ~Changing(d)) <=> NoneChanging
  BY DEF TypeInv, StepsOK, Changing, NoneChanging

(* An entry is appended: of another document, or the first of this one.    *)
LEMMA HasOnlyAppend ==
    ASSUME NEW w \in Seq(Texts), NEW t \in Texts, NEW d, NEW text,
           \/ t[1] # d /\ HasOnly(w, d, text)
           \/ t[1] = d /\ t = text /\ \A i \in DOMAIN w : w[i][1] # d
    PROVE  HasOnly(Append(w, t), d, text)
<1> DEFINE x == Append(w, t)
<1>1. /\ DOMAIN w = 1 .. Len(w) /\ DOMAIN x = 1 .. Len(w) + 1 /\ Len(w) \in Nat
      /\ \A i \in 1 .. Len(w) : x[i] = w[i]
      /\ x[Len(w) + 1] = t
  BY AppendProperties, LenProperties
<1> HIDE DEF x
<1>2. \A i \in DOMAIN x : i \in DOMAIN w \/ i = Len(w) + 1
  BY <1>1, SMT
<1>3. DOMAIN w \subseteq DOMAIN x /\ Len(w) + 1 \in DOMAIN x
  BY <1>1, SMT
<1>4. CASE t[1] # d /\ HasOnly(w, d, text)
  BY <1>1, <1>2, <1>3, <1>4 DEF HasOnly, x
<1>5. CASE t[1] = d /\ t = text /\ \A i \in DOMAIN w : w[i][1] # d
  BY <1>1, <1>2, <1>3, <1>5 DEF HasOnly, x
<1> QED BY <1>4, <1>5

(* A clean rebuild agrees with the files after every step.                 *)
LEMMA CleanNext == TypeInv /\ WorkOK /\ CleanInv /\ [Next]_vars => CleanInv'
<1> SUFFICES ASSUME TypeInv, WorkOK, CleanInv, [Next]_vars PROVE CleanInv'
  OBVIOUS
<1>1. CASE Start
  <2>1. clean = {} /\ clean' = clean
    BY <1>1 DEF Start, CleanInv, TypeInv, StepsOK, Idle, TypeOK
  <2> QED BY <2>1 DEF CleanInv
<1>2. CASE Crash
  BY <1>2 DEF Crash, CleanInv
<1>3. ASSUME NEW r \in Requests, PutFile(r) \/ DeleteFile(r) PROVE CleanInv'
  BY <1>3 DEF PutFile, DeleteFile, ChangeFile, CleanInv
<1>4. ASSUME NEW r \in Requests,
             \/ AddDoc(r) \/ RemoveDoc(r) \/ Query(r) \/ SearchReply(r) \/ AskReply(r)
      PROVE  CleanInv'
  <2>1. UNCHANGED <<file, bpc, todo, work, clean>>
    BY <1>4 DEF AddDoc, RemoveDoc, Query, SearchReply, AskReply, Report, threads
  <2>2. \A q \in Requests : rpc'[q] = rpc[q] \/ rpc'[q] \notin {"add", "remove"}
    BY <1>4 DEF AddDoc, RemoveDoc, Query, SearchReply, AskReply, Report, TypeInv, TypeOK
  <2>3. NoneChanging => NoneChanging'
    BY <2>2 DEF NoneChanging
  <2> QED BY <2>1, <2>3, CleanFrame
<1>5. ASSUME NEW r \in Requests, Trigger(r) PROVE CleanInv'
  <2>1. UNCHANGED <<file, work, clean>>
    BY <1>5 DEF Trigger
  <2>2. \A q \in Requests : rpc'[q] = rpc[q] \/ rpc'[q] \notin {"add", "remove"}
    BY <1>5 DEF Trigger, TypeInv, TypeOK
  <2>3. NoneChanging => NoneChanging'
    BY <2>2 DEF NoneChanging
  <2>4. \A b \in clean' : bpc'[b] = bpc[b] /\ todo'[b] = todo[b]
    BY <1>5, <2>1 DEF Trigger, Spawn, CleanInv, TypeInv, TypeOK
  <2> QED BY <2>1, <2>3, <2>4, CleanFrame
<1>6. ASSUME NEW b \in Rebuilds, ListFiles(b) PROVE CleanInv'
  <2> DEFINE found == {d \in todo[b] : file[d] # NoText}
  <2>1. /\ UNCHANGED <<file, work, rpc>> /\ work[b] = <<>> /\ bpc[b] = "list"
        /\ todo'[b] = found
        /\ bpc'[b] = IF found = {} THEN "idle" ELSE "read"
        /\ \A c \in Rebuilds : c # b => bpc'[c] = bpc[c] /\ todo'[c] = todo[c]
        /\ clean \subseteq Rebuilds
        /\ clean' = IF found # {} /\ todo[b] = Home /\ \A d \in Docs : ~Changing(d)
                    THEN clean \cup {b} ELSE clean
    BY <1>6 DEF ListFiles, asked, TypeInv, TypeOK, StepsOK
  <2>2. b \notin clean
    BY <2>1 DEF CleanInv
  <2>3. ASSUME NEW c \in clean', c # b
        PROVE  /\ c \in clean /\ bpc'[c] = bpc[c] /\ todo'[c] = todo[c]
    BY <2>1, <2>3
  <2>4. NoneChanging' = NoneChanging
    BY <2>1 DEF NoneChanging
  <2>5. CASE b \in clean'
    <3>1. found # {} /\ todo[b] = Home /\ NoneChanging
      BY <2>1, <2>2, <2>5, ChangingEquiv
    <3>2. \A d \in Docs \ found : HasOnly(work'[b], d, Due(d)')
      BY <2>1, <3>1 DEF HasOnly, Due
    <3>3. /\ bpc'[b] = "read" /\ \E d \in Home : file'[d] # NoText
          /\ \A d \in todo'[b] : d \in Home /\ file'[d] # NoText
      BY <2>1, <3>1
    <3> QED BY <2>1, <2>3, <2>4, <3>1, <3>2, <3>3 DEF CleanInv, HasOnly, Due
  <2>6. CASE b \notin clean'
    <3>1. clean' \subseteq clean /\ \A c \in clean' : bpc'[c] = bpc[c] /\ todo'[c] = todo[c]
      BY <2>3, <2>6
    <3> QED BY <2>1, <2>4, <3>1, CleanFrame
  <2> QED BY <2>5, <2>6
<1>7. ASSUME NEW b \in Rebuilds, ReadFile(b) PROVE CleanInv'
  <2>1. PICK d \in todo[b] :
          /\ todo' = [todo EXCEPT ![b] = @ \ {d}]
          /\ \/ /\ work' = [work EXCEPT ![b] = Append(@, file[d])] /\ clean' = clean
             \/ /\ work' = work
                /\ clean' = IF file[d] = NoText THEN clean ELSE clean \ {b}
    BY <1>7 DEF ReadFile
  <2>2. /\ UNCHANGED <<file, rpc, bpc>> /\ bpc[b] = "read" /\ d \in Docs
        /\ work[b] \in Seq(Texts) /\ todo[b] \subseteq Docs
        /\ todo'[b] = todo[b] \ {d} /\ clean' \subseteq clean
        /\ \A c \in Rebuilds : c # b => work'[c] = work[c] /\ todo'[c] = todo[c]
        /\ clean \subseteq Rebuilds
    BY <1>7, <2>1 DEF ReadFile, TypeInv, TypeOK, asked
  <2>3. NoneChanging' = NoneChanging
    BY <2>2 DEF NoneChanging
  <2>4. CASE b \in clean'
    <3>1. /\ d \in Home /\ file[d] # NoText
          /\ \A e \in todo[b] : e \in Home /\ file[e] # NoText
          /\ \A e \in Docs \ todo[b] : HasOnly(work[b], e, Due(e))
      BY <2>2, <2>4 DEF CleanInv
    <3>2. /\ file[d] \in Texts /\ file[d][1] = d /\ \A i \in DOMAIN work[b] : work[b][i][1] # d
          /\ Due(d) = file[d]
      BY <2>2, <3>1 DEF WorkOK, TypeInv, TypeOK, StepsOK, Due
    <3>3. work'[b] = Append(work[b], file[d])
      BY <2>1, <2>2, <2>4, <3>1 DEF TypeInv, TypeOK
    <3>4. ASSUME NEW e \in Docs \ todo'[b] PROVE HasOnly(work'[b], e, Due(e))
      <4>1. CASE e = d
        BY <2>2, <3>2, <3>3, <4>1, HasOnlyAppend
      <4>2. CASE e # d
        <5>1. HasOnly(work[b], e, Due(e))
          BY <2>2, <3>1, <4>2
        <5> QED BY <2>2, <3>2, <3>3, <4>2, <5>1, HasOnlyAppend
      <4> QED BY <4>1, <4>2
    <3>5. ASSUME NEW c \in clean'
          PROVE  /\ bpc'[c] = "read" /\ NoneChanging'
                 /\ \E e \in Home : file'[e] # NoText
                 /\ \A e \in todo'[c] : e \in Home /\ file'[e] # NoText
                 /\ \A e \in Docs \ todo'[c] : HasOnly(work'[c], e, Due(e))
      <4>1. CASE c = b
        BY <2>2, <2>3, <3>1, <3>4, <4>1, <2>4 DEF CleanInv
      <4>2. CASE c # b
        BY <2>2, <2>3, <4>2 DEF CleanInv
      <4> QED BY <4>1, <4>2
    <3> QED BY <2>2, <3>5 DEF CleanInv, HasOnly, Due
  <2>5. CASE b \notin clean'
    <3>1. \A c \in clean' : bpc'[c] = bpc[c] /\ todo'[c] = todo[c] /\ work'[c] = work[c]
      BY <2>2, <2>5
    <3> QED BY <2>2, <2>3, <3>1, CleanFrame
  <2> QED BY <2>4, <2>5
<1>8. ASSUME NEW b \in Rebuilds, b \notin clean',
             \/ Swap(b) \/ NothingRead(b) \/ OpenBin(b) \/ WriteBin(b)
             \/ OpenIds(b) \/ WriteIds(b)
      PROVE  CleanInv'
  <2>1. UNCHANGED <<file, rpc, todo>> /\ clean' \subseteq clean
    BY <1>8 DEF Swap, Repair, NothingRead, OpenBin, WriteBin, OpenIds, WriteIds, asked
  <2>2. \A c \in Rebuilds : c # b => bpc'[c] = bpc[c]
    BY <1>8 DEF Swap, NothingRead, OpenBin, WriteBin, OpenIds, WriteIds, TypeInv, TypeOK
  <2>3. \A c \in Rebuilds : c # b => work'[c] = work[c]
    BY <1>8 DEF Swap, NothingRead, OpenBin, WriteBin, OpenIds, WriteIds, TypeInv, TypeOK
  <2>4. NoneChanging' = NoneChanging
    BY <2>1 DEF NoneChanging
  <2>5. \A c \in clean' : bpc'[c] = bpc[c] /\ todo'[c] = todo[c] /\ work'[c] = work[c]
    BY <1>8, <2>1, <2>2, <2>3 DEF TypeInv, TypeOK
  <2> QED BY <2>1, <2>4, <2>5, CleanFrame
<1>9. ASSUME NEW b \in Rebuilds, NothingRead(b) PROVE b \notin clean'
  <2>1. clean' = clean /\ todo[b] = {} /\ work[b] = <<>> /\ DOMAIN work[b] = {}
    BY <1>9 DEF NothingRead
  <2>2. CASE b \in clean
    <3>1. PICK d \in Home : file[d] # NoText
      BY <2>2 DEF CleanInv
    <3>2. HasOnly(work[b], d, file[d])
      BY <2>1, <2>2, EmbedAssumption DEF CleanInv, Due
    <3> QED BY <2>1, <3>1, <3>2 DEF HasOnly
  <2> QED BY <2>1, <2>2
<1>10. ASSUME NEW b \in Rebuilds, Swap(b) PROVE b \notin clean'
  BY <1>10 DEF Swap, Repair
<1>11. ASSUME NEW b \in Rebuilds, OpenBin(b) \/ WriteBin(b) \/ OpenIds(b) \/ WriteIds(b)
       PROVE b \notin clean'
  <2>1. clean' = clean /\ bpc[b] # "read"
    BY <1>11 DEF OpenBin, WriteBin, OpenIds, WriteIds
  <2> QED BY <2>1 DEF CleanInv
<1>12. CASE UNCHANGED vars
  <2>1. UNCHANGED <<file, rpc, bpc, todo, work, clean>>
    BY <1>12 DEF vars, threads, asked
  <2>2. NoneChanging' = NoneChanging
    BY <2>1 DEF NoneChanging
  <2> QED BY <2>1, <2>2, CleanFrame
<1> QED BY <1>1, <1>2, <1>3, <1>4, <1>5, <1>6, <1>7, <1>8, <1>9, <1>10, <1>11, <1>12,
           Zenon DEF Next

-----------------------------------------------------------------------------
(* A step that changes neither the files nor the arrays nor the calls that *)
(* change them, nor ends a walk of SEARCH_ROOT.                            *)
LEMMA OrderlyFrame ==
    ASSUME OrderlyInv, orderly' => orderly /\ clean \subseteq clean',
           UNCHANGED <<file, mem, up>>,
           \A b \in Rebuilds : bpc'[b] = "read" => bpc[b] = "read",
           OwnWalk => OwnWalk', Walking' => Walking \/ ~orderly' \/ NoneChanging,
           \A r \in Requests :
                /\ rpc'[r] = rpc[r] \/ {rpc[r], rpc'[r]} \cap {"add", "remove"} = {}
                /\ rpc[r] \in {"add", "remove"} => req'[r] = req[r]
    PROVE  OrderlyInv'
<1> SUFFICES ASSUME orderly' PROVE OrderlyInv'
  BY DEF OrderlyInv
<1>1. Parallel /\ ReadersClean /\ ChangesApart /\ UpToDate
  BY DEF OrderlyInv
<1>2. \A r \in Requests : /\ (rpc'[r] = "add") <=> (rpc[r] = "add")
                          /\ (rpc'[r] = "remove") <=> (rpc[r] = "remove")
  OBVIOUS
<1>3. Parallel' /\ ReadersClean'
  BY <1>1 DEF Parallel, ReadersClean, mem
<1>4. NoneChanging' <=> NoneChanging
  BY <1>2 DEF NoneChanging
<1>5. ChangesApart'
  BY <1>1, <1>2, <1>4 DEF ChangesApart
<1>6. \A d \in Docs : Changing(d)' <=> Changing(d)
  BY <1>2 DEF Changing
<1>7. UpToDate'
  BY <1>1, <1>6 DEF UpToDate, HasOnly, Due, mem
<1> QED BY <1>3, <1>5, <1>7 DEF OrderlyInv

(* What an addition and a removal leave of a text.                         *)
LEMMA HasOnlyWithout ==
    ASSUME NEW s \in Seq(Docs), NEW v \in Seq(Texts), Len(s) = Len(v),
           \A i \in DOMAIN s : v[i][1] = s[i], NEW d
    PROVE  /\ \A i \in DOMAIN Without(s, s, d) :
                Without(v, s, d)[i][1] = Without(s, s, d)[i]
           /\ \A i \in DOMAIN Without(v, s, d) : Without(v, s, d)[i][1] # d
           /\ \A e, text : e # d /\ (text # NoText => text[1] = e) /\ HasOnly(v, e, text)
                => HasOnly(Without(v, s, d), e, text)
<1> DEFINE s2 == Without(s, s, d)
<1> DEFINE v2 == Without(v, s, d)
<1> DEFINE k == Others(s, d)
<1>0. LeavesOut(s, v, d, k, s2, v2)
  BY WithoutEntries
<1> HIDE DEF s2, v2, k
<1>1. /\ s2 \in Seq(Docs) /\ v2 \in Seq(Texts) /\ Len(s2) = Len(v2)
      /\ \A j \in 1 .. Len(s2) :
            /\ k[j] \in 1 .. Len(s) /\ s2[j] = s[k[j]] /\ v2[j] = v[k[j]]
            /\ s2[j] # d
      /\ \A i \in 1 .. Len(s) : s[i] # d => \E j \in 1 .. Len(s2) : k[j] = i
  BY <1>0 DEF LeavesOut
<1>2. /\ DOMAIN s = 1 .. Len(s) /\ DOMAIN v = 1 .. Len(s)
      /\ DOMAIN s2 = 1 .. Len(s2) /\ DOMAIN v2 = 1 .. Len(s2)
  BY <1>1, LenProperties
<1>3. \A i \in 1 .. Len(s2) : v2[i][1] = s2[i] /\ v2[i][1] # d
  BY <1>1, <1>2
<1>4. ASSUME NEW e, NEW text, e # d, text # NoText => text[1] = e, HasOnly(v, e, text)
      PROVE  HasOnly(v2, e, text)
  <2>1. \A i \in 1 .. Len(s2) : v2[i][1] = e => v2[i] = text
    BY <1>1, <1>2, <1>4 DEF HasOnly
  <2>2. ASSUME text # NoText PROVE \E i \in 1 .. Len(s2) : v2[i] = text
    <3>1. PICK i \in 1 .. Len(s) : v[i] = text
      BY <1>2, <1>4, <2>2 DEF HasOnly
    <3>2. s[i] # d
      BY <1>2, <1>4, <2>2, <3>1
    <3>3. PICK j \in 1 .. Len(s2) : k[j] = i
      BY <1>1, <3>2
    <3> QED BY <1>1, <3>1, <3>3
  <2> QED BY <1>2, <2>1, <2>2 DEF HasOnly
<1> QED BY <1>2, <1>3, <1>4 DEF s2, v2

(* The index is empty at the start, and the service down.                  *)
LEMMA OrderlyInit == Init => OrderlyInv
  BY EmptySeq DEF Init, OrderlyInv, Parallel, ReadersClean, ChangesApart, UpToDate, Walking,
                  NoneChanging

(* A change of a file that nothing overlaps.                               *)
LEMMA OrderlyChange ==
    ASSUME TypeInv, OrderlyInv, NEW r \in Requests, NEW d \in Home, NEW text, NEW step,
           \/ step = "add" /\ text = <<d, r>>
           \/ step = "remove" /\ text = NoText,
           ChangeFile(r, d, text, step)
    PROVE  OrderlyInv'
<1> SUFFICES ASSUME orderly' PROVE OrderlyInv'
  BY DEF OrderlyInv
<1>1. /\ up /\ ~Changing(d) /\ ~Walking /\ d \in Docs
      /\ Parallel /\ ReadersClean /\ ChangesApart /\ UpToDate
  BY EmbedAssumption DEF ChangeFile, OrderlyInv
<1>2. /\ rpc[r] = "idle" /\ rpc'[r] = step /\ req'[r] = d /\ file'[d] = text
      /\ \A q \in Requests : q # r => rpc'[q] = rpc[q] /\ req'[q] = req[q]
      /\ \A e \in Docs : e # d => file'[e] = file[e]
      /\ UNCHANGED <<mem, bpc, up>>
  BY <1>1 DEF ChangeFile, TypeInv, TypeOK, life
<1>3. Parallel' /\ ~Walking' /\ ReadersClean'
  BY <1>1, <1>2 DEF Parallel, Walking, ReadersClean, mem
<1>4. \A q \in Requests : q # r /\ rpc'[q] \in {"add", "remove"} => req[q] # d /\ req[q] \in Docs
  BY <1>1, <1>2 DEF Changing, TypeInv, StepsOK
<1>5. ChangesApart'
  <2>1. \A q \in Requests :
          /\ rpc'[q] = "add" => file'[req'[q]] = <<req'[q], q>>
          /\ rpc'[q] = "remove" => file'[req'[q]] = NoText
    <3>1. TAKE q \in Requests
    <3>2. CASE q = r
      BY <1>2, <3>2
    <3>3. CASE q # r
      BY <1>1, <1>2, <1>4, <3>3 DEF ChangesApart
    <3> QED BY <3>2, <3>3
  <2>2. ASSUME NEW p \in Requests, NEW q \in Requests,
               rpc'[p] \in {"add", "remove"}, rpc'[q] \in {"add", "remove"},
               req'[p] = req'[q]
        PROVE  p = q
    BY <1>1, <1>2, <1>4, <2>2 DEF ChangesApart
  <2> QED BY <1>3, <2>1, <2>2 DEF ChangesApart
<1>6. UpToDate'
  <2>1. ASSUME NEW e \in Docs PROVE Changing(e)' \/ HasOnly(vecs, e, Due(e))'
    <3>1. CASE e = d
      BY <1>2, <3>1 DEF Changing
    <3>2. CASE e # d
      <4>1. Changing(e) \/ HasOnly(vecs, e, Due(e))
        BY <1>1 DEF UpToDate, OwnWalk, Walking
      <4>2. Changing(e) => Changing(e)'
        BY <1>2 DEF Changing
      <4>3. HasOnly(vecs, e, Due(e)) => HasOnly(vecs, e, Due(e))'
        BY <1>2, <3>2 DEF HasOnly, Due, mem
      <4> QED BY <4>1, <4>2, <4>3
    <3> QED BY <3>1, <3>2
  <2> QED BY <2>1 DEF UpToDate
<1> QED BY <1>3, <1>5, <1>6 DEF OrderlyInv

(* What is due of a document is a text of it.                              *)
LEMMA DueText ==
    ASSUME TypeInv, NEW d \in Docs, Due(d) # NoText
    PROVE  Due(d)[1] = d
  BY DEF Due, TypeInv, StepsOK

(* The end of an addition or a removal, given what it does to the arrays.  *)
LEMMA OrderlyMemory ==
    ASSUME TypeInv, OrderlyInv, NEW r \in Requests, rpc[r] \in {"add", "remove"},
           rpc' = [rpc EXCEPT ![r] = "done"], Parallel => Parallel',
           UNCHANGED <<file, up, req, bpc, clean, orderly>>,
           Parallel /\ ChangesApart => HasOnly(vecs', req[r], Due(req[r])),
           Parallel => \A d \in Docs : d # req[r] /\ HasOnly(vecs, d, Due(d))
                                            => HasOnly(vecs', d, Due(d))
    PROVE  OrderlyInv'
<1> SUFFICES ASSUME orderly' PROVE OrderlyInv'
  BY DEF OrderlyInv
<1>1. Parallel /\ ReadersClean /\ ChangesApart /\ UpToDate
  BY DEF OrderlyInv
<1>2. \A q \in Requests : rpc'[q] \in {"add", "remove"} => q # r /\ rpc'[q] = rpc[q]
  BY DEF TypeInv, TypeOK
<1>3. ~Walking /\ ~Walking' /\ up
  BY <1>1 DEF ChangesApart, NoneChanging, Walking, TypeInv, StepsOK
<1>4. Parallel' /\ ReadersClean'
  BY <1>1 DEF ReadersClean
<1>5. ChangesApart'
  BY <1>1, <1>2, <1>3 DEF ChangesApart
<1>6. ASSUME NEW d \in Docs PROVE Changing(d)' \/ HasOnly(vecs', d, Due(d))
  <2>1. CASE d = req[r]
    BY <1>1, <2>1
  <2>2. CASE d # req[r]
    <3>1. Changing(d) => Changing(d)'
      BY <2>2 DEF Changing, TypeInv, TypeOK
    <3> QED BY <1>1, <1>3, <2>2, <3>1 DEF UpToDate, OwnWalk, Walking
  <2> QED BY <2>1, <2>2
<1>7. UpToDate'
  BY <1>6 DEF UpToDate, HasOnly, Due
<1> QED BY <1>4, <1>5, <1>7 DEF OrderlyInv

(* The orderly invariant is inductive.                                     *)
LEMMA OrderlyNext == TypeInv /\ WorkOK /\ CleanInv /\ OrderlyInv /\ [Next]_vars => OrderlyInv'
<1> SUFFICES ASSUME TypeInv, WorkOK, CleanInv, OrderlyInv, [Next]_vars PROVE OrderlyInv'
  OBVIOUS
<1>1. CASE Start
  <2> SUFFICES ASSUME orderly' PROVE OrderlyInv'
    BY DEF OrderlyInv
  <2>1. PICK b \in Rebuilds : Spawn(b, Home) /\ UNCHANGED <<mem, orderly>>
    BY <1>1 DEF Start
  <2>2. /\ ids' = <<>> /\ vecs' = <<>> /\ bpc'[b] = "list" /\ todo'[b] = Home
        /\ \A c \in Rebuilds : bpc'[c] \in {"idle", "list"}
        /\ \A r \in Requests : rpc'[r] \notin {"add", "remove"}
    <3>1. /\ Idle /\ ids = <<>> /\ ids \in Seq(Docs) /\ vecs \in Seq(Texts)
          /\ Len(vecs) = Len(ids)
          /\ rpc' = rpc /\ \A r \in Requests : rpc[r] \in {"idle", "done"}
      BY <1>1 DEF Start, asked, TypeInv, TypeOK, StepsOK
    <3>2. vecs = <<>>
      BY <3>1, EmptySeq
    <3> QED BY <2>1, <3>1, <3>2 DEF Spawn, Idle, mem, TypeInv, TypeOK
  <2>3. Parallel' /\ ReadersClean' /\ OwnWalk' /\ NoneChanging'
    BY <2>2, EmptySeq DEF Parallel, ReadersClean, OwnWalk, NoneChanging
  <2>4. ChangesApart' /\ UpToDate'
    BY <2>2, <2>3 DEF ChangesApart, UpToDate, Due, HasOnly
  <2> QED BY <2>3, <2>4 DEF OrderlyInv
<1>2. CASE Crash
  <2>1. /\ ids' = <<>> /\ ~up' /\ \A b \in Rebuilds : bpc'[b] = "idle"
        /\ \A r \in Requests : rpc'[r] \notin {"add", "remove"}
    BY <1>2 DEF Crash
  <2> QED BY <2>1, EmptySeq DEF OrderlyInv, Parallel, ReadersClean, ChangesApart, UpToDate,
                                NoneChanging
<1>3. ASSUME NEW r \in Requests, PutFile(r) \/ DeleteFile(r) PROVE OrderlyInv'
  BY <1>3, OrderlyChange, Zenon DEF PutFile, DeleteFile
<1>4. ASSUME NEW r \in Requests, AddDoc(r) PROVE OrderlyInv'
  <2> DEFINE d == req[r]
  <2> DEFINE t == <<d, r>>
  <2> DEFINE v == Without(vecs, ids, d)
  <2> DEFINE s == Without(ids, ids, d)
  <2>1. /\ rpc[r] = "add" /\ d \in Docs /\ d \in Home /\ t \in Texts /\ t[1] = d
        /\ vecs' = Append(v, t) /\ ids' = Append(s, d)
        /\ ids \in Seq(Docs) /\ vecs \in Seq(Texts) /\ Len(ids) = Len(vecs)
    BY <1>4 DEF AddDoc, Without, Texts, TypeInv, TypeOK, StepsOK
  <2>2. s \in Seq(Docs) /\ v \in Seq(Texts) /\ Len(s) = Len(v)
    BY <2>1, WithoutEntries DEF LeavesOut
  <2>3. Parallel => /\ \A i \in DOMAIN s : v[i][1] = s[i]
                    /\ \A i \in DOMAIN v : v[i][1] # d
                    /\ \A e, text : e # d /\ (text # NoText => text[1] = e) /\ HasOnly(vecs, e, text)
                            => HasOnly(v, e, text)
    BY <2>1, HasOnlyWithout DEF Parallel
  <2> HIDE DEF v, s, t, d
  <2>4. Parallel => Parallel'
    <3>1. /\ DOMAIN ids' = 1 .. Len(s) + 1 /\ Len(s) \in Nat /\ DOMAIN s = 1 .. Len(s)
          /\ \A i \in 1 .. Len(s) : ids'[i] = s[i] /\ vecs'[i] = v[i]
          /\ ids'[Len(s) + 1] = d /\ vecs'[Len(s) + 1] = t
      BY <2>1, <2>2, AppendProperties, LenProperties
    <3>2. \A i \in DOMAIN ids' : i \in 1 .. Len(s) \/ i = Len(s) + 1
      BY <3>1, SMT
    <3> QED BY <2>1, <2>3, <3>1, <3>2 DEF Parallel
  <2>5. Parallel /\ ChangesApart => HasOnly(vecs', d, Due(d))
    <3>1. ChangesApart => Due(d) = t
      BY <2>1 DEF ChangesApart, Due, d, t
    <3> QED BY <2>1, <2>2, <2>3, <3>1, HasOnlyAppend
  <2>6. ASSUME Parallel, NEW e \in Docs, e # d, HasOnly(vecs, e, Due(e))
        PROVE  HasOnly(vecs', e, Due(e))
    <3>1. HasOnly(v, e, Due(e))
      BY <2>3, <2>6, DueText
    <3> QED BY <2>1, <2>2, <2>6, <3>1, HasOnlyAppend
  <2>7. /\ UNCHANGED <<file, up, req, bpc, clean, orderly>>
        /\ rpc' = [rpc EXCEPT ![r] = "done"] /\ rpc[r] = "add"
    BY <1>4 DEF AddDoc, life, threads
  <2> QED BY <2>4, <2>5, <2>6, <2>7, OrderlyMemory DEF d
<1>5. ASSUME NEW r \in Requests, RemoveDoc(r) PROVE OrderlyInv'
  <2> DEFINE d == req[r]
  <2>1. /\ rpc[r] = "remove" /\ d \in Docs /\ d \in Home
        /\ vecs' = Without(vecs, ids, d) /\ ids' = Without(ids, ids, d)
        /\ ids \in Seq(Docs) /\ vecs \in Seq(Texts) /\ Len(ids) = Len(vecs)
    BY <1>5 DEF RemoveDoc, Without, TypeInv, TypeOK, StepsOK
  <2>2. Parallel => /\ \A i \in DOMAIN ids' : vecs'[i][1] = ids'[i]
                    /\ \A i \in DOMAIN vecs' : vecs'[i][1] # d
                    /\ \A e, text : e # d /\ (text # NoText => text[1] = e) /\ HasOnly(vecs, e, text)
                            => HasOnly(vecs', e, text)
    <3>1. Parallel => \A i \in DOMAIN ids : vecs[i][1] = ids[i]
      BY DEF Parallel
    <3> HIDE DEF d
    <3> QED BY <2>1, <3>1, HasOnlyWithout
  <2> HIDE DEF d
  <2>3. Parallel => Parallel'
    BY <2>2 DEF Parallel
  <2>4. Parallel /\ ChangesApart => HasOnly(vecs', d, Due(d))
    <3>1. ChangesApart => Due(d) = NoText
      BY <2>1 DEF ChangesApart, Due, d
    <3> QED BY <2>2, <3>1 DEF HasOnly
  <2>5. ASSUME Parallel, NEW e \in Docs, e # d, HasOnly(vecs, e, Due(e))
        PROVE  HasOnly(vecs', e, Due(e))
    BY <2>2, <2>5, DueText
  <2>6. /\ UNCHANGED <<file, up, req, bpc, clean, orderly>>
        /\ rpc' = [rpc EXCEPT ![r] = "done"] /\ rpc[r] = "remove"
    BY <1>5 DEF RemoveDoc, life, threads
  <2> QED BY <2>3, <2>4, <2>5, <2>6, OrderlyMemory DEF d
<1>6. ASSUME NEW r \in Requests, Query(r) \/ SearchReply(r) \/ AskReply(r) PROVE OrderlyInv'
  <2>1. UNCHANGED <<file, mem, up, clean, orderly, bpc, todo, req>>
    BY <1>6 DEF Query, SearchReply, AskReply, Report, life, threads
  <2>2. \A q \in Requests : \/ rpc'[q] = rpc[q]
                            \/ {rpc[q], rpc'[q]} \cap {"add", "remove"} = {}
    BY <1>6 DEF Query, SearchReply, AskReply, Report, TypeInv, TypeOK
  <2>3. (Walking' <=> Walking) /\ (OwnWalk => OwnWalk')
    BY <2>1 DEF Walking, OwnWalk
  <2> QED BY <2>1, <2>2, <2>3, OrderlyFrame
<1>7. ASSUME NEW r \in Requests, Trigger(r) PROVE OrderlyInv'
  <2>1. UNCHANGED <<file, mem, up, clean, req>> /\ (orderly' => orderly)
    BY <1>7 DEF Trigger, life
  <2>2. \A q \in Requests : \/ rpc'[q] = rpc[q]
                            \/ {rpc[q], rpc'[q]} \cap {"add", "remove"} = {}
    BY <1>7 DEF Trigger, TypeInv, TypeOK
  <2>3. /\ \A b \in Rebuilds : bpc'[b] = "read" => bpc[b] = "read"
        /\ \A b \in Rebuilds : bpc[b] \in {"list", "read"}
                                => bpc'[b] = bpc[b] /\ todo'[b] = todo[b]
    BY <1>7 DEF Trigger, Spawn, TypeInv, TypeOK
  <2>4. OwnWalk => OwnWalk'
    BY <2>3 DEF OwnWalk
  <2>5. orderly' => NoneChanging
    BY <1>7, ChangingEquiv DEF Trigger
  <2> QED BY <2>1, <2>2, <2>3, <2>4, <2>5, OrderlyFrame
<1>8. ASSUME NEW b \in Rebuilds, ListFiles(b) PROVE OrderlyInv'
  <2> SUFFICES ASSUME orderly' PROVE OrderlyInv'
    BY DEF OrderlyInv
  <2> DEFINE found == {d \in todo[b] : file[d] # NoText}
  <2>1. /\ UNCHANGED <<file, ids, vecs, up, rpc, req>> /\ orderly /\ bpc[b] = "list"
        /\ bpc'[b] = IF found = {} THEN "idle" ELSE "read"
        /\ \A c \in Rebuilds : c # b => bpc'[c] = bpc[c] /\ todo'[c] = todo[c]
        /\ clean' = IF found # {} /\ todo[b] = Home /\ \A d \in Docs : ~Changing(d)
                    THEN clean \cup {b} ELSE clean
        /\ found = {} \/ todo[b] = Home
    BY <1>8 DEF ListFiles, asked, mem, life, TypeInv, TypeOK
  <2>2. Parallel /\ ReadersClean /\ ChangesApart /\ UpToDate
    BY <2>1 DEF OrderlyInv
  <2>3. NoneChanging
    BY <2>1, <2>2 DEF ChangesApart, Walking
  <2>4. NoneChanging' /\ Parallel'
    BY <2>1, <2>2, <2>3 DEF NoneChanging, Parallel
  <2>5. ReadersClean'
    BY <2>1, <2>2, <2>3, ChangingEquiv DEF ReadersClean
  <2>6. ChangesApart'
    BY <2>4 DEF ChangesApart, NoneChanging
  <2>7. UpToDate'
    <3>1. CASE \A d \in Docs : HasOnly(vecs, d, Due(d))
      BY <2>1, <3>1 DEF UpToDate, HasOnly, Due
    <3>2. CASE vecs = <<>> /\ found = {} /\ todo[b] = Home
      BY <2>1, <3>2 DEF UpToDate, HasOnly, Due
    <3>3. CASE vecs = <<>> /\ found # {}
      BY <2>1, <3>3 DEF UpToDate, OwnWalk
    <3>4. CASE vecs = <<>> /\ OwnWalk /\ todo[b] # Home
      <4>1. OwnWalk'
        BY <2>1, <3>4 DEF OwnWalk
      <4> QED BY <2>1, <3>4, <4>1 DEF UpToDate
    <3>5. CASE ~up
      BY <2>1, <3>5 DEF UpToDate
    <3> QED BY <2>2, <2>3, <3>1, <3>2, <3>3, <3>4, <3>5, ChangingEquiv DEF UpToDate
  <2> QED BY <2>4, <2>5, <2>6, <2>7 DEF OrderlyInv
<1>9. ASSUME NEW b \in Rebuilds, ReadFile(b) PROVE OrderlyInv'
  <2>1. /\ UNCHANGED <<file, mem, up, bpc, rpc, req>> /\ bpc[b] = "read"
        /\ orderly' => orderly /\ clean' = clean
    <3>1. PICK d \in todo[b] :
            \/ UNCHANGED <<clean, orderly>>
            \/ /\ clean' = IF file[d] = NoText THEN clean ELSE clean \ {b}
               /\ orderly' = (orderly /\ file[d] = NoText)
      BY <1>9 DEF ReadFile
    <3>2. orderly' => orderly /\ clean' = clean
      BY <3>1
    <3> QED BY <1>9, <3>2 DEF ReadFile, life, asked
  <2>2. (Walking' <=> Walking) /\ OwnWalk'
    BY <2>1 DEF Walking, OwnWalk
  <2> QED BY <2>1, <2>2, OrderlyFrame
<1>10. ASSUME NEW b \in Rebuilds, Swap(b) PROVE OrderlyInv'
  <2> SUFFICES ASSUME orderly' PROVE OrderlyInv'
    BY DEF OrderlyInv
  <2>1. /\ bpc[b] = "read" /\ todo[b] = {} /\ work[b] \in Seq(Texts)
        /\ vecs' = work[b] /\ ids' = Labels(work[b])
        /\ UNCHANGED <<file, rpc, req>>
        /\ bpc'[b] = "save" /\ \A c \in Rebuilds : c # b => bpc'[c] = bpc[c]
        /\ clean' = clean \ {b}
        /\ orderly \/ \A c \in Rebuilds : c = b \/ bpc[c] = "read" => c \in clean
    BY <1>10 DEF Swap, Repair, asked, TypeInv, TypeOK
  <2>2. \A c \in Rebuilds : bpc[c] = "read" => c \in clean
    BY <2>1 DEF OrderlyInv, ReadersClean
  <2>3. b \in clean
    BY <2>1, <2>2
  <2>4. NoneChanging /\ \A d \in Docs : HasOnly(work[b], d, Due(d))
    BY <2>1, <2>3 DEF CleanInv
  <2>5. NoneChanging' /\ ReadersClean'
    BY <2>1, <2>2, <2>4 DEF NoneChanging, ReadersClean
  <2>6. Parallel'
    BY <2>1, LabelsProperties, LenProperties DEF Parallel
  <2>7. ChangesApart' /\ UpToDate'
    BY <2>1, <2>4, <2>5 DEF ChangesApart, UpToDate, NoneChanging, HasOnly, Due
  <2> QED BY <2>5, <2>6, <2>7 DEF OrderlyInv
<1>11. ASSUME NEW b \in Rebuilds, NothingRead(b) PROVE OrderlyInv'
  <2> SUFFICES ASSUME orderly' PROVE FALSE
    BY DEF OrderlyInv
  <2>1. orderly /\ bpc[b] = "read" /\ todo[b] = {} /\ work[b] = <<>>
    BY <1>11 DEF NothingRead
  <2>2. b \in clean
    BY <2>1 DEF OrderlyInv, ReadersClean
  <2>3. PICK d \in Home : file[d] # NoText
    BY <2>2 DEF CleanInv
  <2>4. HasOnly(work[b], d, file[d])
    BY <2>1, <2>2, EmbedAssumption DEF CleanInv, Due
  <2> QED BY <2>1, <2>3, <2>4 DEF HasOnly
<1>12. ASSUME NEW b \in Rebuilds, OpenBin(b) \/ WriteBin(b) \/ OpenIds(b) \/ WriteIds(b)
       PROVE OrderlyInv'
  <2>1. UNCHANGED <<file, mem, up, clean, orderly, todo, rpc, req>>
    BY <1>12 DEF OpenBin, WriteBin, OpenIds, WriteIds, life, asked
  <2>2. /\ bpc[b] \notin {"list", "read"} /\ bpc'[b] \notin {"list", "read"}
        /\ \A c \in Rebuilds : c # b => bpc'[c] = bpc[c]
    BY <1>12 DEF OpenBin, WriteBin, OpenIds, WriteIds, TypeInv, TypeOK
  <2>3. /\ (Walking' <=> Walking) /\ (OwnWalk => OwnWalk')
        /\ \A c \in Rebuilds : bpc'[c] = "read" => bpc[c] = "read"
    BY <2>1, <2>2 DEF Walking, OwnWalk
  <2> QED BY <2>1, <2>3, OrderlyFrame
<1>13. CASE UNCHANGED vars
  <2>1. UNCHANGED <<file, mem, up, clean, orderly, bpc, todo, rpc, req>>
    BY <1>13 DEF vars, life, threads, asked
  <2>2. (Walking' <=> Walking) /\ (OwnWalk => OwnWalk')
    BY <2>1 DEF Walking, OwnWalk
  <2> QED BY <2>1, <2>2, OrderlyFrame
<1> QED BY <1>1, <1>2, <1>3, <1>4, <1>5, <1>6, <1>7, <1>8, <1>9, <1>10, <1>11, <1>12, <1>13,
           Zenon DEF Next

Safe == TypeInv /\ WorkOK /\ CalmInv /\ CleanInv /\ OrderlyInv

(* All of it together.                                                     *)
LEMMA SafeAlways == Spec => []Safe
<1>1. Init => Safe
  BY TypeInit, WorkInit, CalmInit, CleanInit, OrderlyInit DEF Safe
<1>2. Safe /\ [Next]_vars => Safe'
  BY TypeNext, WorkNext, CalmNext, CleanNext, OrderlyNext DEF Safe
<1> QED BY <1>1, <1>2, PTL DEF Spec

(* The service's state keeps its types, and the two arrays one length.     *)
THEOREM TypeCorrect == Spec => []TypeOK
<1>1. Safe => TypeOK
  BY DEF Safe, TypeInv
<1> QED BY <1>1, SafeAlways, PTL

(* main.py:37: the arrays are parallel and hold a document once, after any *)
(* number of saves, stops, and starts from the cache files, unless the     *)
(* index was changed while a thread was saving it or the service stopped   *)
(* between the two files.                                                  *)
THEOREM CalmIsConsistent == Spec => []CalmServiceIsConsistent
<1>1. Safe => CalmServiceIsConsistent
  BY DEF Safe, CalmInv, CalmServiceIsConsistent, Consistent, ParallelArrays
<1> QED BY <1>1, SafeAlways, PTL

(* An up-to-date document, as IndexMatchesFiles says it.                   *)
LEMMA HasOnlyMatches ==
    ASSUME TypeInv, NEW d \in Docs, HasOnly(vecs, d, Due(d))
    PROVE  {t \in Range(vecs) : t[1] = d} = {Due(d)} \ {NoText}
<1>1. \A i \in DOMAIN vecs : vecs[i] \in Texts /\ vecs[i] # NoText
  <2>1. \A i \in DOMAIN vecs : vecs[i] \in Texts
    BY LenProperties, ElementOfSeq DEF TypeInv, TypeOK
  <2> QED BY <2>1, EmbedAssumption DEF Texts
<1>2. Range(vecs) = {vecs[i] : i \in DOMAIN vecs}
  BY DEF Range
<1>3. Due(d) # NoText => Due(d)[1] = d
  BY DueText
<1>4. ASSUME NEW t \in Range(vecs), t[1] = d PROVE t = Due(d) /\ t # NoText
  BY <1>1, <1>2, <1>4 DEF HasOnly
<1>5. Due(d) # NoText => Due(d) \in Range(vecs)
  BY <1>2 DEF HasOnly
<1> QED BY <1>3, <1>4, <1>5

(* When nothing is in progress the index holds exactly the newest texts of *)
(* the files under SEARCH_ROOT (main.py:105, main.py:168, main.py:194),    *)
(* provided that since the last repair changes and rebuilds kept apart, no *)
(* rebuild found files elsewhere or could not read one, and the service    *)
(* did not start from its cache.  A repair is a rebuild of SEARCH_ROOT     *)
(* that found a file, read all it found and was overlapped by no change.   *)
THEOREM OrderlyIndexMatches == Spec => []OrderlyIndexMatchesFiles
<1>1. Safe => OrderlyIndexMatchesFiles
  <2> SUFFICES ASSUME Safe, orderly, Quiet PROVE IndexMatchesFiles
    BY DEF OrderlyIndexMatchesFiles
  <2>1. \A d \in Docs : HasOnly(vecs, d, Due(d))
    BY DEF Safe, OrderlyInv, UpToDate, OwnWalk, Walking, Quiet
  <2> QED BY <2>1, HasOnlyMatches DEF Safe, IndexMatchesFiles
<1> QED BY <1>1, SafeAlways, PTL

(* main.py:252: an answer names the document whose text it was made from,  *)
(* however the index changes while it is composed.                         *)
THEOREM AnswersNameTheirSources == Spec => AskNamesItsSource
<1> DEFINE Names == \A r \in Requests :
        calm /\ rpc[r] = "ask" /\ rpc'[r] = "done" /\ up'
            => out'[r] = <<hit[r].text[1]>>
<1>1. Safe /\ [Next]_vars => [Names]_vars
  <2> SUFFICES ASSUME Safe, Next, NEW r \in Requests, calm, rpc[r] = "ask", rpc'[r] = "done", up'
               PROVE  out'[r] = <<hit[r].text[1]>>
    BY Zenon
  <2> USE DEF Safe, TypeInv
  <2>1. CASE AskReply(r)
    <3>1. hit[r].name = hit[r].text[1]
      BY DEF CalmInv, AskedNames
    <3>2. out'[r] = <<hit[r].name>>
      BY <2>1 DEF AskReply, Report, TypeOK
    <3> QED BY <3>1, <3>2
  <2>2. CASE Start
    BY <2>2 DEF Start, asked
  <2>3. CASE Crash
    BY <2>3 DEF Crash
  <2>4. ASSUME NEW q \in Requests,
               \/ PutFile(q) \/ DeleteFile(q) \/ AddDoc(q) \/ RemoveDoc(q)
               \/ Query(q) \/ SearchReply(q) \/ Trigger(q)
        PROVE  FALSE
    <3>1. rpc[q] # "ask" /\ \A p \in Requests : p # q => rpc'[p] = rpc[p]
      BY <2>4 DEF PutFile, DeleteFile, ChangeFile, AddDoc, RemoveDoc, Query, SearchReply,
                  Report, Trigger, TypeOK
    <3> QED BY <3>1
  <2>5. ASSUME NEW q \in Requests, AskReply(q), q # r
        PROVE  FALSE
    BY <2>5 DEF AskReply, Report, TypeOK
  <2>6. ASSUME NEW b \in Rebuilds,
               \/ ListFiles(b) \/ ReadFile(b) \/ Swap(b) \/ NothingRead(b)
               \/ OpenBin(b) \/ WriteBin(b) \/ OpenIds(b) \/ WriteIds(b)
        PROVE  FALSE
    BY <2>6 DEF ListFiles, ReadFile, Swap, NothingRead, OpenBin, WriteBin, OpenIds,
                WriteIds, asked
  <2> QED BY <2>1, <2>2, <2>3, <2>4, <2>5, <2>6, Zenon DEF Next
<1> QED BY <1>1, SafeAlways, PTL DEF Spec, AskNamesItsSource

-----------------------------------------------------------------------------
(* What VectorStore sees of the arrays.                                    *)
Entries(s, v) == {<<s[i], v[i]>> : i \in DOMAIN s \cap DOMAIN v}

(* A removal is one of VectorStore.                                        *)
LEMMA EntriesWithout ==
    ASSUME NEW s \in Seq(Docs), NEW v \in Seq(Texts), Len(s) = Len(v), NEW d
    PROVE  Entries(Without(s, s, d), Without(v, s, d)) = {e \in Entries(s, v) : e[1] # d}
<1> DEFINE s2 == Without(s, s, d)
<1> DEFINE v2 == Without(v, s, d)
<1> DEFINE k == Others(s, d)
<1>0. LeavesOut(s, v, d, k, s2, v2)
  BY WithoutEntries
<1> HIDE DEF s2, v2, k
<1>1. /\ s2 \in Seq(Docs) /\ v2 \in Seq(Texts) /\ Len(s2) = Len(v2)
      /\ \A j \in 1 .. Len(s2) :
            /\ k[j] \in 1 .. Len(s) /\ s2[j] = s[k[j]] /\ v2[j] = v[k[j]]
            /\ s2[j] # d
      /\ \A i \in 1 .. Len(s) : s[i] # d => \E j \in 1 .. Len(s2) : k[j] = i
  BY <1>0 DEF LeavesOut
<1>2. /\ DOMAIN s = 1 .. Len(s) /\ DOMAIN v = 1 .. Len(s)
      /\ DOMAIN s2 = 1 .. Len(s2) /\ DOMAIN v2 = 1 .. Len(s2)
  BY <1>1, LenProperties
<1>3. Entries(s, v) = {<<s[i], v[i]>> : i \in 1 .. Len(s)}
  BY <1>2 DEF Entries
<1>4. Entries(s2, v2) = {<<s2[i], v2[i]>> : i \in 1 .. Len(s2)}
  BY <1>2 DEF Entries
<1>5. ASSUME NEW j \in 1 .. Len(s2)
      PROVE  <<s2[j], v2[j]>> \in {e \in Entries(s, v) : e[1] # d}
  <2>1. <<s[k[j]], v[k[j]]>> \in Entries(s, v)
    BY <1>1, <1>3
  <2>2. <<s2[j], v2[j]>> \in Entries(s, v)
    BY <1>1, <2>1
  <2>3. <<s2[j], v2[j]>>[1] # d
    BY <1>1
  <2> QED BY <2>2, <2>3
<1>6. ASSUME NEW i \in 1 .. Len(s), s[i] # d
      PROVE  <<s[i], v[i]>> \in Entries(s2, v2)
  <2>1. PICK j \in 1 .. Len(s2) : k[j] = i
    BY <1>1, <1>6
  <2>2. s2[j] = s[i] /\ v2[j] = v[i]
    BY <1>1, <2>1
  <2> QED BY <1>4, <2>2
<1>7. Entries(s2, v2) = {e \in Entries(s, v) : e[1] # d}
  <2>1. ASSUME NEW e \in Entries(s2, v2) PROVE e \in {f \in Entries(s, v) : f[1] # d}
    BY <1>4, <1>5, <2>1, Zenon
  <2>2. ASSUME NEW e \in Entries(s, v), e[1] # d PROVE e \in Entries(s2, v2)
    <3>1. PICK i \in 1 .. Len(s) : e = <<s[i], v[i]>>
      BY <1>3, <2>2, Zenon
    <3>2. s[i] # d
      BY <2>2, <3>1
    <3> QED BY <1>6, <3>1, <3>2, Zenon
  <2> QED BY <2>1, <2>2, Zenon
<1> QED BY <1>7 DEF s2, v2

(* An addition is one of VectorStore.                                      *)
LEMMA EntriesAppend ==
    ASSUME NEW s \in Seq(Docs), NEW v \in Seq(Texts), Len(s) = Len(v),
           NEW d \in Docs, NEW t \in Texts
    PROVE  Entries(Append(s, d), Append(v, t)) = Entries(s, v) \cup {<<d, t>>}
<1> DEFINE s2 == Append(s, d)
<1> DEFINE v2 == Append(v, t)
<1>1. /\ DOMAIN s = 1 .. Len(s) /\ DOMAIN v = 1 .. Len(s) /\ Len(s) \in Nat
      /\ DOMAIN s2 = 1 .. Len(s) + 1 /\ DOMAIN v2 = 1 .. Len(s) + 1
      /\ \A i \in 1 .. Len(s) : s2[i] = s[i] /\ v2[i] = v[i]
      /\ s2[Len(s) + 1] = d /\ v2[Len(s) + 1] = t
  BY AppendProperties, LenProperties
<1> HIDE DEF s2, v2
<1>2. /\ \A i \in 1 .. Len(s) + 1 : i \in 1 .. Len(s) \/ i = Len(s) + 1
      /\ 1 .. Len(s) \subseteq 1 .. Len(s) + 1 /\ Len(s) + 1 \in 1 .. Len(s) + 1
  BY <1>1, SMT
<1>3. /\ Entries(s, v) = {<<s[i], v[i]>> : i \in 1 .. Len(s)}
      /\ Entries(s2, v2) = {<<s2[i], v2[i]>> : i \in 1 .. Len(s) + 1}
  BY <1>1 DEF Entries
<1>4. Entries(s2, v2) = Entries(s, v) \cup {<<d, t>>}
  BY <1>1, <1>2, <1>3
<1> QED BY <1>4 DEF s2, v2

(* Entries are pairs of an id and a text.                                  *)
LEMMA EntriesType ==
    ASSUME NEW s \in Seq(Docs), NEW v \in Seq(Texts)
    PROVE  Entries(s, v) \subseteq Docs \X Texts
<1>1. /\ \A i \in DOMAIN s : s[i] \in Docs
      /\ \A i \in DOMAIN v : v[i] \in Texts
  BY LenProperties, ElementOfSeq
<1> QED BY <1>1 DEF Entries

(* The mapped store.                                                       *)
LEMMA StoreIsEntries == store = Entries(ids, vecs) /\ store' = Entries(ids', vecs')
  BY DEF store, Entries

(* A step of one request changes the call of no other.                     *)
LEMMA OneCall ==
    ASSUME NEW r \in Requests,
           \A q \in Requests : q # r => rpc'[q] = rpc[q] /\ req'[q] = req[q]
    PROVE  call' = [call EXCEPT ![r] = call'[r]]
<1>1. \A q \in Requests : q # r => call'[q] = call[q]
  BY DEF call
<1>2. DOMAIN call = Requests /\ DOMAIN call' = Requests
  BY DEF call
<1>3. call = [q \in Requests |-> call[q]] /\ call' = [q \in Requests |-> call'[q]]
  BY DEF call
<1> HIDE DEF call
<1> QED BY <1>1, <1>2, <1>3

(* The mapped call, before a step.                                         *)
LEMMA CallValues ==
    ASSUME NEW r \in Requests
    PROVE  /\ rpc[r] = "idle" => call[r] = Abstract!NotMade
           /\ rpc[r] = "add" => call[r] = [op |-> "add", id |-> req[r], text |-> <<req[r], r>>]
           /\ rpc[r] = "remove" => call[r] = [op |-> "remove", id |-> req[r]]
           /\ rpc[r] \in {"search", "ask", "done"} => call[r] = Abstract!Over
  BY DEF call, Abstract!NotMade, Abstract!Over

(* The mapped call, after a step.                                          *)
LEMMA CallValuesNext ==
    ASSUME NEW r \in Requests
    PROVE  /\ rpc'[r] = "idle" => call'[r] = Abstract!NotMade
           /\ rpc'[r] = "add" => call'[r] = [op |-> "add", id |-> req'[r], text |-> <<req'[r], r>>]
           /\ rpc'[r] = "remove" => call'[r] = [op |-> "remove", id |-> req'[r]]
           /\ rpc'[r] \in {"search", "ask", "done"} => call'[r] = Abstract!Over
  BY DEF call, Abstract!NotMade, Abstract!Over

(* Initial states are VectorStore's.                                       *)
LEMMA RefinesInit == Init => Abstract!Init
<1> SUFFICES ASSUME Init PROVE Abstract!Init
  OBVIOUS
<1>1. store = {}
  BY EmptySeq DEF Init, store
<1>2. call = [r \in Requests |-> Abstract!NotMade]
  BY DEF Init, call, Abstract!NotMade
<1>3. walks = {} /\ up \in BOOLEAN
  BY DEF Init, walks
<1> QED BY <1>1, <1>2, <1>3 DEF Abstract!Init

(* The step of a request that reaches the arrays is VectorStore's.         *)
LEMMA RefinesCall ==
    ASSUME TypeInv, NEW r \in Requests, AddDoc(r) \/ RemoveDoc(r)
    PROVE  Abstract!Add(r) \/ Abstract!Remove(r)
<1>1. /\ up /\ req[r] \in Docs /\ UNCHANGED <<up, bpc>>
      /\ rpc'[r] = "done" /\ \A q \in Requests : q # r => rpc'[q] = rpc[q] /\ req'[q] = req[q]
      /\ ids \in Seq(Docs) /\ vecs \in Seq(Texts) /\ Len(ids) = Len(vecs)
  BY DEF AddDoc, RemoveDoc, life, threads, TypeInv, TypeOK, StepsOK
<1>2. walks' = walks /\ call' = [call EXCEPT ![r] = Abstract!Over]
  <2>1. call'[r] = Abstract!Over
    BY <1>1, CallValuesNext
  <2> QED BY <1>1, <2>1, OneCall DEF walks
<1>3. CASE AddDoc(r)
  <2> DEFINE s == Without(ids, ids, req[r])
  <2> DEFINE v == Without(vecs, ids, req[r])
  <2> DEFINE t == <<req[r], r>>
  <2>1. ids' = Append(s, req[r]) /\ vecs' = Append(v, t) /\ t \in Texts /\ rpc[r] = "add"
    BY <1>1, <1>3 DEF AddDoc, Without, Texts
  <2>2. s \in Seq(Docs) /\ v \in Seq(Texts) /\ Len(s) = Len(v)
    BY <1>1, WithoutEntries DEF LeavesOut
  <2>3. Entries(s, v) = {e \in store : e[1] # req[r]}
    BY <1>1, EntriesWithout, StoreIsEntries
  <2> HIDE DEF s, v, t
  <2>4. store' = {e \in store : e[1] # req[r]} \cup {<<req[r], t>>}
    BY <1>1, <2>1, <2>2, <2>3, EntriesAppend, StoreIsEntries
  <2>5. call[r] = [op |-> "add", id |-> req[r], text |-> t]
    BY <2>1, CallValues DEF t
  <2>6. call[r] \in Abstract!Puts /\ call[r].id = req[r] /\ call[r].text = t
    BY <1>1, <2>1, <2>5 DEF Abstract!Puts
  <2> QED BY <1>1, <1>2, <2>4, <2>6 DEF Abstract!Add, Abstract!Without
<1>4. CASE RemoveDoc(r)
  <2>1. /\ ids' = Without(ids, ids, req[r]) /\ vecs' = Without(vecs, ids, req[r])
        /\ rpc[r] = "remove"
    BY <1>4 DEF RemoveDoc, Without
  <2>2. store' = {e \in store : e[1] # req[r]}
    BY <1>1, <2>1, EntriesWithout, StoreIsEntries
  <2>3. call[r] = [op |-> "remove", id |-> req[r]]
    BY <2>1, CallValues
  <2>4. call[r] \in Abstract!Removals /\ call[r].id = req[r]
    BY <1>1, <2>3 DEF Abstract!Removals
  <2> QED BY <1>1, <1>2, <2>2, <2>4 DEF Abstract!Remove, Abstract!Without
<1> QED BY <1>3, <1>4

(* A request that begins sends its call, or turns to something else.       *)
LEMMA RefinesSend ==
    ASSUME TypeInv, NEW r \in Requests, PutFile(r) \/ DeleteFile(r) \/ Query(r)
    PROVE  Abstract!Send(r)
<1>1. /\ UNCHANGED <<ids, vecs, bpc, up>> /\ rpc[r] = "idle"
      /\ \A q \in Requests : q # r => rpc'[q] = rpc[q] /\ req'[q] = req[q]
      /\ \/ rpc'[r] \in {"add", "remove"} /\ req'[r] \in Docs
         \/ rpc'[r] \in {"search", "ask", "done"}
  BY EmbedAssumption DEF PutFile, DeleteFile, ChangeFile, Query, mem, life, threads, TypeInv, TypeOK
<1>2. store' = store /\ walks' = walks
  BY <1>1 DEF store, walks
<1>3. call[r] = Abstract!NotMade
  BY <1>1, CallValues
<1>4. call'[r] \in {Abstract!Over} \cup Abstract!UnderWay
  <2>1. CASE rpc'[r] = "add" /\ req'[r] \in Docs
    <3>1. <<req'[r], r>> \in Texts
      BY <2>1 DEF Texts
    <3>2. call'[r] \in Abstract!Puts
      <4>1. call'[r] = [op |-> "add", id |-> req'[r], text |-> <<req'[r], r>>]
        BY <2>1, CallValuesNext
      <4> QED BY <2>1, <3>1, <4>1 DEF Abstract!Puts
    <3> QED BY <3>2 DEF Abstract!UnderWay
  <2>2. CASE rpc'[r] = "remove" /\ req'[r] \in Docs
    <3>1. call'[r] \in Abstract!Removals
      <4>1. call'[r] = [op |-> "remove", id |-> req'[r]]
        BY <2>2, CallValuesNext
      <4> QED BY <2>2, <4>1 DEF Abstract!Removals
    <3> QED BY <3>1 DEF Abstract!UnderWay
  <2>3. CASE rpc'[r] \in {"search", "ask", "done"}
    BY <2>3, CallValuesNext
  <2> QED BY <1>1, <2>1, <2>2, <2>3
<1>5. call' = [call EXCEPT ![r] = call'[r]]
  BY <1>1, OneCall
<1> QED BY <1>1, <1>2, <1>3, <1>4, <1>5 DEF Abstract!Send

(* A step within a query changes no call of VectorStore.                   *)
LEMMA SameCalls ==
    ASSUME \A r \in Requests :
        \/ rpc'[r] = rpc[r] /\ req'[r] = req[r]
        \/ rpc[r] \in {"search", "ask"} /\ rpc'[r] = "done"
    PROVE  call' = call
<1>1. \A r \in Requests : call'[r] = call[r]
  BY DEF call
<1>2. call = [q \in Requests |-> call[q]] /\ call' = [q \in Requests |-> call'[q]]
  BY DEF call
<1> HIDE DEF call
<1> QED BY <1>1, <1>2

(* Every step is one of VectorStore or changes nothing it sees.            *)
LEMMA RefinesNext == Safe /\ [Next]_vars => [Abstract!Next]_(Abstract!vars)
<1> SUFFICES ASSUME Safe, [Next]_vars
             PROVE  Abstract!Next \/ UNCHANGED Abstract!vars
  OBVIOUS
<1> USE DEF Safe
<1>1. ASSUME UNCHANGED <<ids, vecs, up>>, walks' = walks, call' = call
      PROVE  UNCHANGED Abstract!vars
  <2>1. store' = store
    BY <1>1 DEF store
  <2> QED BY <1>1, <2>1 DEF Abstract!vars
<1>2. CASE Start
  <2>1. /\ ~up /\ up' = TRUE /\ rpc' = rpc /\ req' = req
        /\ Idle /\ ids = <<>> /\ DOMAIN ids = {}
    BY <1>2, EmptySeq DEF Start, asked, TypeInv, StepsOK
  <2>2. call' = call
    BY <2>1, SameCalls
  <2>3. CASE /\ Readable(bin) /\ Readable(json) /\ ids' = json /\ vecs' = bin /\ bpc' = bpc
    <3>1. ids' \in Seq(Docs) /\ vecs' \in Seq(Texts)
      BY <2>3 DEF TypeInv, TypeOK
    <3>2. store' \subseteq Docs \X Texts
      BY <3>1, EntriesType, StoreIsEntries
    <3>3. walks' = {}
      BY <2>1, <2>3 DEF walks, Idle
    <3> QED BY <2>1, <2>2, <3>2, <3>3 DEF Abstract!Next, Abstract!Start
  <2>4. ASSUME NEW b \in Rebuilds, Spawn(b, Home), UNCHANGED mem
        PROVE  Abstract!Next
    <3>1. store' = {}
      BY <2>1, <2>4 DEF store, mem
    <3>2. walks' = {b}
      BY <2>1, <2>4 DEF walks, Idle, Spawn, TypeInv, TypeOK
    <3> QED BY <2>1, <2>2, <3>1, <3>2 DEF Abstract!Next, Abstract!Start
  <2> QED BY <1>2, <2>3, <2>4, Zenon DEF Start
<1>3. CASE Crash
  <2>1. /\ up /\ ~up' /\ DOMAIN ids' = {}
        /\ \A b \in Rebuilds : bpc'[b] = "idle"
        /\ \A r \in Requests : rpc'[r] = IF rpc[r] = "idle" THEN "idle" ELSE "done"
    BY <1>3, EmptySeq DEF Crash
  <2>2. store' = {} /\ walks' = {}
    BY <2>1 DEF store, walks
  <2>3. ASSUME NEW r \in Requests
        PROVE  call'[r] = IF call[r] = Abstract!NotMade THEN Abstract!NotMade ELSE Abstract!Over
    <3>1. CASE rpc[r] = "idle"
      BY <2>1, <3>1, CallValues, CallValuesNext
    <3>2. CASE rpc[r] # "idle"
      <4>1. call'[r] = Abstract!Over
        BY <2>1, <3>2, CallValuesNext
      <4>2. call[r] # Abstract!NotMade
        BY <3>2 DEF call, Abstract!NotMade
      <4> QED BY <4>1, <4>2
    <3> QED BY <3>1, <3>2
  <2>4. call' = [r \in Requests |-> IF call[r] = Abstract!NotMade
                                   THEN Abstract!NotMade ELSE Abstract!Over]
    <3>1. call' = [r \in Requests |-> call'[r]]
      BY DEF call
    <3> HIDE DEF call
    <3> QED BY <2>3, <3>1
  <2> QED BY <2>1, <2>2, <2>4 DEF Abstract!Next, Abstract!Stop
<1>4. ASSUME NEW r \in Requests, AddDoc(r) \/ RemoveDoc(r) PROVE Abstract!Next
  BY <1>4, RefinesCall, Zenon DEF Abstract!Next
<1>5. ASSUME NEW r \in Requests, PutFile(r) \/ DeleteFile(r) \/ Query(r) PROVE Abstract!Next
  BY <1>5, RefinesSend, Zenon DEF Abstract!Next
<1>6. ASSUME NEW r \in Requests, SearchReply(r) \/ AskReply(r) PROVE UNCHANGED Abstract!vars
  <2>1. UNCHANGED <<ids, vecs, up, bpc, req>>
    BY <1>6 DEF SearchReply, AskReply, Report, mem, life, threads
  <2>2. \A q \in Requests : \/ rpc'[q] = rpc[q] /\ req'[q] = req[q]
                            \/ rpc[q] \in {"search", "ask"} /\ rpc'[q] = "done"
    BY <1>6 DEF SearchReply, AskReply, Report, TypeInv, TypeOK
  <2> QED BY <1>1, <2>1, <2>2, SameCalls DEF walks
<1>7. ASSUME NEW r \in Requests, Trigger(r) PROVE Abstract!Next
  <2>1. PICK b \in Rebuilds, root \in Roots : Spawn(b, root)
    BY <1>7 DEF Trigger
  <2>2. /\ up /\ UNCHANGED <<ids, vecs, up>> /\ rpc[r] = "idle" /\ rpc'[r] = "done"
        /\ \A q \in Requests : q # r => rpc'[q] = rpc[q] /\ req'[q] = req[q]
        /\ bpc[b] = "idle" /\ bpc'[b] = "list"
        /\ \A c \in Rebuilds : c # b => bpc'[c] = bpc[c]
    BY <1>7, <2>1 DEF Trigger, Spawn, mem, life, TypeInv, TypeOK
  <2>3. b \notin walks /\ walks' = walks \cup {b} /\ store' = store
    BY <2>2 DEF walks, store
  <2>4. /\ call[r] = Abstract!NotMade
        /\ call' = [call EXCEPT ![r] = Abstract!Over]
    <3>1. call[r] = Abstract!NotMade /\ call'[r] = Abstract!Over
      BY <2>2, CallValues, CallValuesNext
    <3> QED BY <2>2, <3>1, OneCall
  <2>5. Abstract!Begin(b)
    BY <2>2, <2>3, <2>4 DEF Abstract!Begin
  <2> QED BY <2>5, Zenon DEF Abstract!Next
<1>8. ASSUME NEW b \in Rebuilds, ListFiles(b) \/ NothingRead(b), bpc'[b] = "idle"
      PROVE  Abstract!Next
  <2>1. /\ UNCHANGED <<ids, vecs, up, rpc, req>> /\ bpc[b] \in {"list", "read"}
        /\ \A c \in Rebuilds : c # b => bpc'[c] = bpc[c]
    BY <1>8 DEF ListFiles, NothingRead, mem, life, asked, TypeInv, TypeOK
  <2>2. b \in walks /\ walks' = walks \ {b} /\ store' = store
    BY <1>8, <2>1 DEF walks, store
  <2>3. call' = call
    BY <2>1, SameCalls
  <2>4. Abstract!Abandon(b)
    BY <2>1, <2>2, <2>3 DEF Abstract!Abandon
  <2> QED BY <2>4, Zenon DEF Abstract!Next
<1>9. ASSUME NEW b \in Rebuilds, Swap(b) PROVE Abstract!Next
  <2>1. /\ UNCHANGED <<up, rpc, req>> /\ up /\ bpc[b] = "read" /\ bpc'[b] = "save"
        /\ \A c \in Rebuilds : c # b => bpc'[c] = bpc[c]
        /\ work[b] \in Seq(Texts) /\ vecs' = work[b] /\ ids' = Labels(work[b])
    BY <1>9 DEF Swap, life, asked, TypeInv, TypeOK, StepsOK, Idle
  <2>2. b \in walks /\ walks' = walks \ {b} /\ call' = call
    BY <2>1, SameCalls DEF walks
  <2>3. /\ ids' \in Seq(Docs) /\ DOMAIN ids' = DOMAIN work[b]
        /\ \A i \in DOMAIN work[b] : ids'[i] = work[b][i][1]
    BY <2>1, LabelsProperties, LenProperties
  <2>4. store' \subseteq Docs \X Texts
    BY <2>1, <2>3, EntriesType, StoreIsEntries
  <2>5. \A e, f \in store' : e[1] = f[1] => e = f
    <3>1. \A i, j \in DOMAIN work[b] : work[b][i][1] = work[b][j][1] => i = j
      BY <2>1 DEF WorkOK
    <3>2. store' = {<<work[b][i][1], work[b][i]>> : i \in DOMAIN work[b]}
      BY <2>1, <2>3 DEF store
    <3> QED BY <3>1, <3>2
  <2>6. Abstract!Rebuild(b)
    BY <2>1, <2>2, <2>4, <2>5 DEF Abstract!Rebuild
  <2> QED BY <2>6, Zenon DEF Abstract!Next
<1>10. ASSUME NEW b \in Rebuilds,
              \/ ListFiles(b) /\ bpc'[b] # "idle"
              \/ ReadFile(b) \/ OpenBin(b) \/ WriteBin(b) \/ OpenIds(b) \/ WriteIds(b)
       PROVE  UNCHANGED Abstract!vars
  <2>1. /\ UNCHANGED <<ids, vecs, up, rpc, req>>
        /\ \A c \in Rebuilds : c # b => bpc'[c] = bpc[c]
        /\ bpc[b] \in {"list", "read"} <=> bpc'[b] \in {"list", "read"}
    BY <1>10 DEF ListFiles, ReadFile, OpenBin, WriteBin, OpenIds, WriteIds, mem, life, asked,
                 TypeInv, TypeOK
  <2>2. walks' = walks
    BY <2>1 DEF walks
  <2> QED BY <1>1, <2>1, <2>2, SameCalls
<1>11. CASE UNCHANGED vars
  <2>1. UNCHANGED <<ids, vecs, up, rpc, req, bpc>>
    BY <1>11 DEF vars, mem, life, asked, threads
  <2> QED BY <1>1, <2>1, SameCalls DEF walks
<1>12. ASSUME NEW b \in Rebuilds, NothingRead(b) PROVE bpc'[b] = "idle"
  BY <1>12 DEF NothingRead, TypeInv, TypeOK
<1> QED BY <1>2, <1>3, <1>4, <1>5, <1>6, <1>7, <1>8, <1>9, <1>10, <1>11, <1>12, Zenon DEF Next

(* Every execution is one of VectorStore: add_doc and remove_doc each act  *)
(* once and in one step between rebuilds, saves, stops and starts, also on *)
(* arrays loaded from cache files that do not belong together.             *)
THEOREM ServiceIsVectorStore == Spec => ImplementsVectorStore
<1> QED BY SafeAlways, RefinesInit, RefinesNext, PTL DEF Spec, ImplementsVectorStore, Abstract!Spec
=============================================================================
