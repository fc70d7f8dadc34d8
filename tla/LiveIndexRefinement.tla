------------------------- MODULE LiveIndexRefinement ------------------------
(***************************************************************************)
(* LiveIndex uses the embedding service as a VectorStore, for any sets of  *)
(* requests and paths, any limit on texts and any faults: the safety that  *)
(* its callers get is what VectorStore says, no more.                      *)
(***************************************************************************)
EXTENDS LiveIndexProofs

LimitedTexts == {t \in Contents : Len(t) <= TextLimit}

(* What AddDoc sends is within the limit.                                  *)
LEMMA ClipIsLimited ==
    ASSUME NEW s \in Contents
    PROVE  Clip(s) \in LimitedTexts
<1>1. TextLimit \in Nat /\ Len(s) \in Nat
  BY LiveIndexAssumption, LenProperties DEF Contents
<1>2. CASE Len(s) > TextLimit
  <2>1. Len(SubSeq(s, 1, TextLimit)) = TextLimit
    BY <1>1, <1>2, SubSeqProperties DEF Contents
  <2> QED  BY <1>1, <1>2, <2>1, ClipIsContent DEF Clip, LimitedTexts
<1>3. CASE ~(Len(s) > TextLimit)
  BY <1>1, <1>3 DEF Clip, LimitedTexts
<1> QED  BY <1>2, <1>3

(* A worker calls the service at most once, after its other steps.         *)
CallsComeLast ==
    \A r \in Requests :
        call[r] # "none" => pc[r] \in {"await", "reply", "done", "dead"}

LEMMA CallsStayLast ==
    ASSUME TypeOK, CallsComeLast, [Next]_vars
    PROVE  CallsComeLast'
<1> USE DEF TypeOK, CallsComeLast, fs, index, locks, Answer
<1>1. CASE UNCHANGED vars
  BY <1>1 DEF vars
<1>2. ASSUME NEW r \in Requests, Receive(r) PROVE CallsComeLast'
  BY <1>2 DEF Receive
<1>3. ASSUME NEW r \in Requests,
             Refuse(r) \/ CheckPut(r) \/ OpenTruncate(r) \/ OpenFails(r)
                 \/ Write(r) \/ CheckDelete(r) \/ Unlink(r) \/ UnlinkFails(r)
      PROVE  CallsComeLast'
  BY <1>3 DEF Refuse, CheckPut, OpenTruncate, OpenFails, Write, CheckDelete,
      Unlink, UnlinkFails
<1>4. ASSUME NEW r \in Requests,
             Lock(r) \/ Erase(r) \/ Index(r) \/ LockShared(r) \/ UnlockShared(r)
      PROVE  CallsComeLast'
  BY <1>4 DEF Lock, Erase, Index, LockShared, UnlockShared
<1>5. ASSUME NEW r \in Requests,
             Connect(r) \/ ConnectFails(r) \/ Hear(r) \/ TimeOut(r) \/ Reply(r)
      PROVE  CallsComeLast'
  BY <1>5 DEF Connect, ConnectFails, Hear, TimeOut, Reply
<1>6. ASSUME NEW r \in Requests, Apply(r) \/ Lose(r) PROVE CallsComeLast'
  BY <1>6 DEF Apply, Lose
<1>7. CASE Restart
  BY <1>7 DEF Restart, Unanswered
<1> QED  BY <1>1, <1>2, <1>3, <1>4, <1>5, <1>6, <1>7 DEF Next, Handle

(* A step that leaves the service's texts and the calls alone, and gives   *)
(* requests only to workers without a call, is none of VectorStore's.      *)
LEMMA Unseen ==
    ASSUME TypeOK, TypeOK', vec' = vec, call' = call,
           \A r \in Requests : call[r] # "none" => req'[r] = req[r]
    PROVE  UNCHANGED Service!vars
<1>1. Stored' = Stored
  BY DEF Stored
<1>2. \A r \in Requests : call[r] # "none" => Body(r)' = Body(r)
  BY DEF Body
<1>3. Asked' = Asked
  BY <1>2, Zenon DEF Asked, Clip
<1> QED  BY <1>1, <1>3 DEF Service!vars

(* A call that is carried out changes the text of its id and no other.     *)
LEMMA OneIdChanges ==
    ASSUME TypeOK, NEW p \in Paths, NEW t,
           vec' = [vec EXCEPT ![p] = t]
    PROVE  /\ t = NoDoc => Stored' = Service!Without(p)
           /\ t # NoDoc => Stored' = Service!Without(p) \cup {<<p, t>>}
<1>1. vec \in [Paths -> Contents \cup {NoDoc}]
  BY DEF TypeOK
<1>2. /\ vec'[p] = t
      /\ \A q \in Paths : q # p => vec'[q] = vec[q]
  BY <1>1
<1>3. Service!Without(p) = {<<q, vec[q]>> : q \in {o \in Paths : o # p /\ vec[o] # NoDoc}}
  BY DEF Service!Without, Stored
<1>4. Stored' = {<<q, vec'[q]>> : q \in {o \in Paths : vec'[o] # NoDoc}}
  BY DEF Stored
<1> QED  BY <1>2, <1>3, <1>4

(* A step changes the calls of the worker that takes it and no other.      *)
LEMMA OneCallChanges ==
    ASSUME TypeOK, NEW r \in Requests,
           req' = req, \A s \in Requests \ {r} : call'[s] = call[s]
    PROVE  Asked' = [Asked EXCEPT ![r] = Asked'[r]]
<1>1. \A s \in Requests : Body(s)' = Body(s)
  BY DEF Body
<1>2. \A s \in Requests \ {r} : Asked'[s] = Asked[s]
  BY <1>1 DEF Asked, Clip
<1>3. Asked \in [Requests -> {Asked[s] : s \in Requests}]
  BY DEF Asked
<1>4. \A s \in Requests : Asked'[s] = [Asked EXCEPT ![r] = Asked'[r]][s]
  BY <1>2, <1>3
<1>5. Asked' = [s \in Requests |-> Asked'[s]]
  BY DEF Asked
<1> QED  BY <1>3, <1>4, <1>5

(* What a worker has sent is a call that VectorStore knows.                *)
LEMMA SentIsUnderWay ==
    ASSUME TypeOK, NEW r \in Requests, call[r] = "sent"
    PROVE  /\ req[r] \in Inputs
           /\ req[r].op \in Uploads =>
                /\ Asked[r] = [op |-> "add", id |-> req[r].path,
                               text |-> Clip(Body(r))]
                /\ Asked[r] \in Service!Puts
           /\ req[r].op = "DELETE" =>
                /\ Asked[r] = [op |-> "remove", id |-> UrlDecoded[req[r].path]]
                /\ Asked[r] \in Service!Removals
           /\ req[r].op = "SEARCH" => Asked[r] = Service!Over
<1>1. req[r] \in Inputs
  BY DEF TypeOK
<1>2. /\ req[r].path \in Paths /\ UrlDecoded[req[r].path] \in Paths
      /\ Clip(Body(r)) \in LimitedTexts
  BY <1>1, InputParts, BodyIsContent, ClipIsLimited
<1>3. CASE req[r].op \in Uploads
  BY <1>1, <1>2, <1>3 DEF Asked, Service!Puts, LimitedTexts, Uploads
<1>4. CASE req[r].op = "DELETE"
  BY <1>1, <1>2, <1>4 DEF Asked, Service!Removals, Uploads
<1>5. CASE req[r].op = "SEARCH"
  BY <1>1, <1>5 DEF Asked, Service!Over, Uploads
<1> QED  BY <1>1, <1>3, <1>4, <1>5 DEF Uploads

-----------------------------------------------------------------------------
(* Every execution, with any faults, is one of VectorStore: each id's text *)
(* is the one that some call put, in one step, and no call counts twice.   *)
THEOREM CallsUseVectorStore == Spec => UsesVectorStore
<1>1. Init => Service!Init
  <2> SUFFICES ASSUME Init PROVE Service!Init
    OBVIOUS
  <2>1. \A p \in Paths : vec[p] # NoDoc => vec[p] \in LimitedTexts
    <3>1. ASSUME NEW p \in Files PROVE Content(p) \in Contents
      <4>1. p \in Inodes /\ <<p>> \in Contents /\ <<>> \in Contents
        BY EmptySeq DEF Contents, Inodes
      <4>2. entry[p] \in {p, NoFile} /\ data[p] = <<p>>
        BY <4>1 DEF Init
      <4> QED  BY <4>1, <4>2 DEF Content
    <3> QED  BY <3>1, ClipIsLimited DEF Init
  <2>2. Stored \subseteq Paths \X LimitedTexts
    BY <2>1 DEF Stored
  <2>3. Asked = [r \in Requests |-> Service!NotMade]
    BY DEF Init, Asked, Service!NotMade
  <2> QED  BY <2>2, <2>3 DEF Service!Init, LimitedTexts
<1>2. TypeOK /\ TypeOK' /\ StepsFitRequests /\ CallsComeLast /\ [Next]_vars
        => [Service!Next]_(Service!vars)
  <2> SUFFICES ASSUME TypeOK, TypeOK', StepsFitRequests, CallsComeLast,
                      [Next]_vars
               PROVE  Service!Next \/ UNCHANGED Service!vars
    OBVIOUS
  <2>1. ASSUME vec' = vec, call' = call PROVE UNCHANGED Service!vars
    <3>1. \A r \in Requests : call[r] # "none" => req[r] # NoRequest
      BY InputParts DEF TypeOK
    <3> QED  BY <2>1, <3>1, RequestsStay, Unseen
  <2>2. CASE UNCHANGED vars
    BY <2>1, <2>2 DEF vars
  <2>3. ASSUME NEW r \in Requests,
               Receive(r) \/ Refuse(r) \/ CheckPut(r) \/ OpenTruncate(r)
                   \/ OpenFails(r) \/ Write(r) \/ CheckDelete(r) \/ Unlink(r)
                   \/ UnlinkFails(r) \/ Lock(r) \/ Erase(r) \/ Index(r)
                   \/ LockShared(r) \/ UnlockShared(r) \/ ConnectFails(r)
                   \/ Hear(r) \/ TimeOut(r) \/ Reply(r)
        PROVE  UNCHANGED Service!vars
    <3>1. vec' = vec /\ call' = call
      BY <2>3 DEF Receive, Refuse, CheckPut, OpenTruncate, OpenFails, Write,
          CheckDelete, Unlink, UnlinkFails, Lock, Erase, Index, LockShared,
          UnlockShared, ConnectFails, Hear, TimeOut, Reply, Answer
    <3> QED  BY <2>1, <3>1
  <2>4. ASSUME NEW r \in Requests, Connect(r) PROVE Service!Send(r)
    <3>1. call[r] = "none" /\ call' = [call EXCEPT ![r] = "sent"]
      BY <2>4 DEF Connect, CallsComeLast
    <3>2. req' = req /\ vec' = vec
      BY <2>4 DEF Connect
    <3>3. Asked' = [Asked EXCEPT ![r] = Asked'[r]]
      BY <3>1, <3>2, OneCallChanges DEF TypeOK
    <3>4. Asked[r] = Service!NotMade
      BY <3>1 DEF Asked, Service!NotMade
    <3>5. call'[r] = "sent"
      BY <3>1 DEF TypeOK
    <3>6. req'[r] \in Inputs
      BY <3>5 DEF TypeOK
    <3>7. Asked'[r] \in {Service!Over} \cup Service!UnderWay
      <4>1. /\ req'[r].path \in Paths /\ UrlDecoded[req'[r].path] \in Paths
            /\ Clip(Body(r)') \in LimitedTexts
            /\ Body(r)' = Body(r)
        BY <3>2, <3>6, InputParts, BodyIsContent, ClipIsLimited DEF Body
      <4>2. Clip(Body(r))' \in LimitedTexts
        BY <4>1 DEF Clip
      <4>3. CASE req'[r].op \in Uploads
        <5>1. Asked'[r] = [op |-> "add", id |-> req'[r].path,
                           text |-> Clip(Body(r))']
          BY <3>5, <4>3 DEF Asked
        <5> QED
          BY <4>1, <4>2, <5>1 DEF LimitedTexts, Service!UnderWay, Service!Puts
      <4>4. CASE req'[r].op = "DELETE"
        <5>1. Asked'[r] = [op |-> "remove", id |-> UrlDecoded[req'[r].path]]
          BY <3>5, <4>4 DEF Asked, Uploads
        <5> QED
          BY <4>1, <5>1 DEF Service!UnderWay, Service!Removals
      <4>5. CASE req'[r].op \notin Uploads \cup {"DELETE"}
        BY <3>5, <4>5 DEF Asked, Service!Over
      <4> QED  BY <4>3, <4>4, <4>5
    <3> QED
      BY <3>2, <3>3, <3>4, <3>7 DEF Service!Send, Stored
  <2>5. ASSUME NEW r \in Requests, Lose(r)
        PROVE  Service!Lose(r) \/ UNCHANGED Service!vars
    <3>1. /\ call[r] = "sent" /\ call' = [call EXCEPT ![r] = "lost"]
          /\ req' = req /\ vec' = vec
      BY <2>5 DEF Lose
    <3>2. call'[r] = "lost"
      BY <3>1 DEF TypeOK
    <3>3. Asked' = [Asked EXCEPT ![r] = Service!Over]
      <4>1. Asked'[r] = Service!Over
        BY <3>2 DEF Asked, Service!Over
      <4>2. Asked' = [Asked EXCEPT ![r] = Asked'[r]]
        BY <3>1, OneCallChanges DEF TypeOK
      <4> QED  BY <4>1, <4>2
    <3>4. Stored' = Stored
      BY <3>1 DEF Stored
    <3>5. req[r].op \in Mutations \cup {"SEARCH"}
      BY <3>1, SentIsUnderWay, InputParts
    <3>6. CASE req[r].op \in Mutations
      <4>1. Asked[r] \in Service!UnderWay
        BY <3>1, <3>6, SentIsUnderWay DEF Mutations, Service!UnderWay
      <4> QED  BY <3>3, <3>4, <4>1 DEF Service!Lose
    <3>7. CASE req[r].op = "SEARCH"
      <4>1. Asked[r] = Service!Over
        BY <3>1, <3>7, SentIsUnderWay
      <4>2. Asked' = Asked
        BY <3>3, <4>1 DEF Asked
      <4> QED  BY <3>4, <4>2 DEF Service!vars
    <3> QED  BY <3>5, <3>6, <3>7
  <2>6. ASSUME NEW r \in Requests, Apply(r)
        PROVE  Service!Add(r) \/ Service!Remove(r) \/ UNCHANGED Service!vars
    <3> DEFINE p == req[r].path
    <3>1. /\ call[r] = "sent" /\ call' = [call EXCEPT ![r] = "applied"]
          /\ req' = req
      BY <2>6 DEF Apply
    <3>2. call'[r] = "applied"
      BY <3>1 DEF TypeOK
    <3>3. Asked' = [Asked EXCEPT ![r] = Service!Over]
      <4>1. Asked'[r] = Service!Over
        BY <3>2 DEF Asked, Service!Over
      <4>2. Asked' = [Asked EXCEPT ![r] = Asked'[r]]
        BY <3>1, OneCallChanges DEF TypeOK
      <4> QED  BY <4>1, <4>2
    <3>4. /\ req[r].op \in Uploads \cup {"DELETE", "SEARCH"}
          /\ p \in Paths /\ UrlDecoded[p] \in Paths
          /\ Clip(Body(r)) \in Contents
      BY <3>1, SentIsUnderWay, InputParts, BodyIsContent, ClipIsContent
      DEF Mutations
    <3>5. CASE req[r].op \in Uploads
      <4>1. vec' = [vec EXCEPT ![p] = Clip(Body(r))]
        BY <2>6, <3>5 DEF Apply, Uploads
      <4>2. Clip(Body(r)) # NoDoc
        BY <3>4, LiveIndexAssumption DEF Contents, Inodes
      <4>3. Stored' = Service!Without(p) \cup {<<p, Clip(Body(r))>>}
        BY <3>4, <4>1, <4>2, OneIdChanges
      <4>4. /\ Asked[r] \in Service!Puts
            /\ Asked[r].id = p /\ Asked[r].text = Clip(Body(r))
        <5>1. Asked[r] = [op |-> "add", id |-> p, text |-> Clip(Body(r))]
          BY <3>1, <3>5, SentIsUnderWay
        <5>2. Asked[r] \in Service!Puts
          BY <3>1, <3>5, SentIsUnderWay
        <5> QED  BY <5>1, <5>2
      <4> QED  BY <3>3, <4>3, <4>4 DEF Service!Add
    <3>6. CASE req[r].op = "DELETE"
      <4>1. vec' = [vec EXCEPT ![UrlDecoded[p]] = NoDoc]
        BY <2>6, <3>6 DEF Apply, Uploads
      <4>2. Stored' = Service!Without(UrlDecoded[p])
        BY <3>4, <4>1, OneIdChanges
      <4>3. Asked[r] \in Service!Removals /\ Asked[r].id = UrlDecoded[p]
        <5>1. Asked[r] = [op |-> "remove", id |-> UrlDecoded[p]]
          BY <3>1, <3>6, SentIsUnderWay
        <5>2. Asked[r] \in Service!Removals
          BY <3>1, <3>6, SentIsUnderWay
        <5> QED  BY <5>1, <5>2
      <4> QED  BY <3>3, <4>2, <4>3 DEF Service!Remove
    <3>7. CASE req[r].op = "SEARCH"
      <4>1. vec' = vec
        BY <2>6, <3>7 DEF Apply, Uploads
      <4>2. Asked' = Asked
        BY <3>1, <3>3, <3>7, SentIsUnderWay DEF Asked
      <4> QED  BY <4>1, <4>2 DEF Service!vars, Stored
    <3> QED  BY <3>4, <3>5, <3>6, <3>7
  <2>7. CASE Restart
    BY <2>1, <2>7 DEF Restart
  <2> QED
    BY <2>2, <2>3, <2>4, <2>5, <2>6, <2>7 DEF Next, Handle, Service!Next
<1>3. Init => StepsFitRequests /\ CallsComeLast
  BY DEF Init, StepsFitRequests, CallsComeLast
<1>4. TypeOK /\ StepsFitRequests /\ [Next]_vars => StepsFitRequests'
  BY StepsFit
<1>5. TypeOK /\ CallsComeLast /\ [Next]_vars => CallsComeLast'
  BY CallsStayLast
<1> QED
  BY <1>1, <1>2, <1>3, <1>4, <1>5, TypeCorrect, PTL
  DEF Spec, UsesVectorStore, Service!Spec
=============================================================================
