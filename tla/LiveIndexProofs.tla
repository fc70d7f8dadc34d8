-------------------------- MODULE LiveIndexProofs ---------------------------
(***************************************************************************)
(* What LiveIndex's runs check on a few requests and paths, proved for any *)
(* sets of requests, paths, files and sizes and any combination of faults. *)
(***************************************************************************)
EXTENDS LiveIndex, SequenceTheorems, TLAPS

-----------------------------------------------------------------------------
(* The text operators yield contents.                                      *)
LEMMA PrefixIsSeq ==
    ASSUME NEW S, NEW s \in Seq(S), NEW m \in Nat \ {0}, NEW n \in Nat,
           n <= Len(s)
    PROVE  SubSeq(s, m, n) \in Seq(S)
<1>1. Len(s) \in Nat /\ \A i \in 1 .. Len(s) : s[i] \in S
  BY LenProperties, ElementOfSeq
<1>2. \A i \in m .. n : s[i] \in S
  BY <1>1
<1> QED  BY <1>2, SubSeqProperties

(* AddDoc's clipping to k_text_limit yields a content.                     *)
LEMMA ClipIsContent ==
    ASSUME NEW s \in Contents
    PROVE  Clip(s) \in Contents
<1>1. TextLimit \in Nat /\ Len(s) \in Nat
  BY LiveIndexAssumption, LenProperties DEF Contents
<1>2. CASE Len(s) > TextLimit
  <2>1. SubSeq(s, 1, TextLimit) \in Contents
    BY <1>1, <1>2, PrefixIsSeq DEF Contents
  <2> QED  BY <1>2, <2>1 DEF Clip
<1>3. CASE ~(Len(s) > TextLimit)
  BY <1>3 DEF Clip
<1> QED  BY <1>2, <1>3

(* So does writing over what another upload has written.                   *)
LEMMA OverlayIsContent ==
    ASSUME NEW old \in Contents, NEW new \in Contents
    PROVE  Overlay(old, new) \in Contents
<1>1. Len(old) \in Nat /\ Len(new) \in Nat
  BY LenProperties DEF Contents
<1>2. SubSeq(old, Len(new) + 1, Len(old)) \in Contents
  BY <1>1, PrefixIsSeq DEF Contents
<1> QED  BY <1>2, ConcatProperties DEF Overlay, Contents

(* A request's body, and what a full disk takes of it, are contents.       *)
LEMMA BodyIsContent ==
    ASSUME NEW r \in Requests, req[r].size \in Nat
    PROVE  /\ Body(r) \in Contents /\ Len(Body(r)) = req[r].size
           /\ \A n \in 0 .. req[r].size : SubSeq(Body(r), 1, n) \in Contents
<1>1. r \in Inodes
  BY DEF Inodes
<1>2. Body(r) \in Contents /\ Len(Body(r)) = req[r].size
  BY <1>1 DEF Body, Contents
<1>3. \A n \in 0 .. req[r].size : SubSeq(Body(r), 1, n) \in Contents
  BY <1>2, PrefixIsSeq DEF Contents
<1> QED  BY <1>2, <1>3

(* A worker that has a request has one of the inputs.                      *)
LEMMA InputParts ==
    ASSUME NEW q \in Inputs
    PROVE  /\ q.op \in Mutations \cup {"SEARCH"}
           /\ q.path \in Paths /\ FileOf[q.path] \in Files
           /\ UrlDecoded[q.path] \in Paths
           /\ q.size \in Nat
           /\ q # NoRequest
<1>1. /\ q.op \in Mutations \cup {"SEARCH"}
      /\ q.path \in Paths
      /\ q.size \in Nat
  <2>1. CASE q \in [op : Uploads, path : Paths, size : Sizes]
    BY <2>1, LiveIndexAssumption DEF Mutations
  <2>2. CASE q \in [op : {"DELETE"}, path : Paths, size : {0}]
    BY <2>2 DEF Mutations
  <2>3. CASE q \in [op : {"SEARCH"}, path : Files, size : {0}]
    <3>1. q.path \in Files /\ q.op = "SEARCH" /\ q.size = 0
      BY <2>3
    <3> QED  BY <3>1, LiveIndexAssumption
  <2> QED  BY <2>1, <2>2, <2>3 DEF Inputs
<1> QED  BY <1>1, LiveIndexAssumption, RequestAssumption

(* What is in a file is a content, and so is every reading of it.          *)
LEMMA ContentIsContent ==
    ASSUME TypeOK, NEW f \in Files
    PROVE  Content(f) \in Contents
BY EmptySeq DEF TypeOK, Content, Contents

LEMMA ReadingsAreContents ==
    ASSUME NEW f \in Files, Content(f) \in Contents
    PROVE  Readings(f) \subseteq Contents
<1>1. \A n \in 0 .. Len(Content(f)) : SubSeq(Content(f), 1, n) \in Contents
  BY LenProperties, PrefixIsSeq DEF Contents
<1> QED  BY <1>1 DEF Readings

(* Build gives every file's path one reading of it, and other paths none.  *)
LEMMA BuildIndexes ==
    ASSUME \A f \in Files : Content(f) \in Contents, NEW text \in BuildReadings
    PROVE  /\ Indexed(text) \in [Paths -> Contents]
           /\ \A f \in Files :
                /\ Indexed(text)[f] \in Readings(f)
                /\ f \notin Partial(text) => Indexed(text)[f] = Content(f)
           /\ Partial(text) \subseteq Files
<1>1. \A f \in Files : text[f] \in Readings(f) /\ text[f] \in Contents
  BY ReadingsAreContents DEF BuildReadings
<1>2. Indexed(text) \in [Paths -> Contents]
  BY <1>1, EmptySeq DEF Indexed, Contents
<1>3. \A f \in Files : Indexed(text)[f] = text[f]
  BY LiveIndexAssumption DEF Indexed
<1> QED  BY <1>1, <1>2, <1>3 DEF Partial

-----------------------------------------------------------------------------
(* Every variable keeps its type, and a worker that has begun a request,   *)
(* or has a call under way for one, knows which request it is.             *)
THEOREM TypeCorrect == Spec => []TypeOK
<1>1. Init => TypeOK
  <2> SUFFICES ASSUME Init PROVE TypeOK
    OBVIOUS
  <2> USE DEF Init
  <2>1. entry \in [Files -> Inodes \cup {NoFile}]
    OBVIOUS
  <2>2. data \in [Inodes -> Contents]
    <3>1. \A i \in Files : <<i>> \in Contents
      BY DEF Contents, Inodes
    <3> QED  BY <3>1, EmptySeq DEF Contents
  <2>3. \A f \in Files : Content(f) \in Contents
    BY <2>1, <2>2, EmptySeq DEF Content, Contents
  <2>4. /\ words \in [Paths -> Contents]
        /\ misread \subseteq Files
        /\ orderly \in [Files -> BOOLEAN]
    BY <2>3, BuildIndexes
  <2>5. vec \in [Paths -> Contents \cup {NoDoc}]
    BY <2>3, ClipIsContent
  <2> QED  BY <2>1, <2>2, <2>4, <2>5 DEF TypeOK, Steps
<1>2. TypeOK /\ [Next]_vars => TypeOK'
  <2> SUFFICES ASSUME TypeOK, [Next]_vars PROVE TypeOK'
    OBVIOUS
  <2> USE DEF fs, index, locks, Answer, Disturb, File
  <2>0. \A f \in Files : Content(f) \in Contents
    BY ContentIsContent
  <2>1. CASE UNCHANGED vars
    BY <2>1 DEF vars, TypeOK
  <2>2. ASSUME NEW r \in Requests, Receive(r) PROVE TypeOK'
    BY <2>2 DEF TypeOK, Receive, Steps, PutSteps, IndexSteps, EmbedSteps
  <2>3. ASSUME NEW r \in Requests, pc[r] # "idle" \/ call[r] # "none"
        PROVE  /\ req[r] \in Inputs /\ File(r) \in Files
               /\ req[r].path \in Paths /\ UrlDecoded[req[r].path] \in Paths
               /\ Body(r) \in Contents
               /\ \A n \in 0 .. req[r].size : SubSeq(Body(r), 1, n) \in Contents
    BY <2>3, InputParts, BodyIsContent DEF TypeOK
  <2>4. ASSUME NEW r \in Requests, OpenTruncate(r) PROVE TypeOK'
    <3>1. File(r) \in Files
      BY <2>3, <2>4 DEF OpenTruncate
    <3> DEFINE i == IF entry[File(r)] = NoFile THEN r ELSE entry[File(r)]
    <3>2. i \in Inodes
      BY <3>1 DEF TypeOK, Inodes
    <3>3. /\ entry' = [entry EXCEPT ![File(r)] = i]
          /\ data' = [data EXCEPT ![i] = <<>>]
          /\ handle' = [handle EXCEPT ![r] = i]
      BY <2>4 DEF OpenTruncate
    <3>4. <<>> \in Contents
      BY EmptySeq DEF Contents
    <3> HIDE DEF i
    <3> QED
      BY <2>3, <2>4, <3>1, <3>2, <3>3, <3>4
      DEF OpenTruncate, TypeOK, Steps, PutSteps
  <2>5. ASSUME NEW r \in Requests, Write(r) PROVE TypeOK'
    <3>1. PICK n \in 0 .. req[r].size :
            data' = [data EXCEPT ![handle[r]] =
                       Overlay(@, SubSeq(Body(r), 1, n))]
      BY <2>5 DEF Write
    <3>2. SubSeq(Body(r), 1, n) \in Contents
      BY <2>3, <2>5 DEF Write
    <3>3. \A i \in Inodes : Overlay(data[i], SubSeq(Body(r), 1, n)) \in Contents
      BY <3>2, OverlayIsContent DEF TypeOK
    <3>4. data' \in [Inodes -> Contents]
      <4> DEFINE new(i) == Overlay(data[i], SubSeq(Body(r), 1, n))
      <4>1. data \in [Inodes -> Contents] /\ \A i \in Inodes : new(i) \in Contents
        BY <3>3 DEF TypeOK
      <4>2. data' = [data EXCEPT ![handle[r]] = new(handle[r])]
        BY <3>1
      <4> HIDE DEF new
      <4> QED  BY <4>1, <4>2
    <3> QED
      BY <2>3, <2>5, <3>4 DEF Write, TypeOK, Steps, IndexSteps
  <2>6. ASSUME NEW r \in Requests, Index(r) PROVE TypeOK'
    <3>1. PICK text \in Readings(File(r)) :
            LET failed == IF text = Content(File(r)) THEN {} ELSE {File(r)} IN
            /\ words' = [words EXCEPT ![req[r].path] = @ \o text]
            /\ misread' = (misread \ {File(r)}) \cup failed
            /\ Disturb(failed)
      BY <2>6 DEF Index
    <3>2. /\ req[r].path \in Paths /\ File(r) \in Files /\ text \in Contents
          /\ words[req[r].path] \in Contents
      BY <2>0, <2>3, <2>6, ReadingsAreContents DEF Index, TypeOK
    <3>3. words[req[r].path] \o text \in Contents
      BY <3>2, ConcatProperties DEF Contents
    <3>4. /\ words' \in [Paths -> Contents] /\ misread' \subseteq Files
          /\ orderly' \in [Files -> BOOLEAN]
      BY <3>1, <3>2, <3>3 DEF TypeOK
    <3> QED
      BY <2>3, <2>6, <3>4 DEF Index, TypeOK, Steps, EmbedSteps
  <2>7. ASSUME NEW r \in Requests, Erase(r) PROVE TypeOK'
    <3>1. <<>> \in Contents
      BY EmptySeq DEF Contents
    <3>2. words' \in [Paths -> Contents]
      BY <2>3, <2>7, <3>1 DEF Erase, TypeOK
    <3>3. CASE req[r].op = "DELETE"
      BY <2>3, <2>7, <3>2, <3>3 DEF Erase, TypeOK, Steps, EmbedSteps
    <3>4. CASE req[r].op # "DELETE"
      BY <2>3, <2>7, <3>2, <3>4 DEF Erase, TypeOK, Steps, IndexSteps
    <3> QED
      BY <3>3, <3>4
  <2>8. ASSUME NEW r \in Requests, Apply(r) PROVE TypeOK'
    <3>1. req[r] \in Inputs /\ Clip(Body(r)) \in Contents
      BY <2>3, <2>8, ClipIsContent DEF Apply
    <3>2. vec' \in [Paths -> Contents \cup {NoDoc}]
      BY <2>8, <3>1 DEF Apply, TypeOK
    <3> QED  BY <2>8, <3>1, <3>2 DEF Apply, TypeOK
  <2>9. ASSUME NEW r \in Requests,
               Refuse(r) \/ CheckPut(r) \/ OpenFails(r) \/ CheckDelete(r)
                   \/ Unlink(r) \/ UnlinkFails(r)
        PROVE  TypeOK'
    BY <2>3, <2>9 DEF Refuse, CheckPut, OpenFails, CheckDelete, Unlink,
        UnlinkFails, TypeOK, Steps, PutSteps, IndexSteps
  <2>10. ASSUME NEW r \in Requests,
                Lock(r) \/ LockShared(r) \/ UnlockShared(r) \/ Connect(r)
                    \/ Hear(r) \/ TimeOut(r) \/ Reply(r)
         PROVE  TypeOK'
    BY <2>3, <2>10 DEF Lock, LockShared, UnlockShared, Connect, Hear, TimeOut,
        Reply, TypeOK, Steps, IndexSteps, EmbedSteps
  <2>11. ASSUME NEW r \in Requests, ConnectFails(r) \/ Lose(r) PROVE TypeOK'
    <3>1. orderly' \in [Files -> BOOLEAN]
      BY <2>11 DEF ConnectFails, Lose
    <3>2. CASE ConnectFails(r)
      BY <2>3, <3>1, <3>2 DEF ConnectFails, TypeOK, Steps
    <3>3. CASE Lose(r)
      BY <2>3, <3>1, <3>3 DEF Lose, TypeOK
    <3> QED  BY <2>11, <3>2, <3>3
  <2>12. CASE Restart
    <3>1. /\ words' \in [Paths -> Contents] /\ misread' \subseteq Files
          /\ orderly' \in [Files -> BOOLEAN]
      BY <2>0, <2>12, BuildIndexes DEF Restart
    <3>2. \A r \in Requests : pc'[r] # "idle" => pc[r] # "idle"
      BY <2>12 DEF Restart, Unanswered
    <3> QED
      BY <2>12, <3>1, <3>2 DEF Restart, TypeOK, Steps
  <2> QED
    BY <2>1, <2>2, <2>4, <2>5, <2>6, <2>7, <2>8, <2>9, <2>10, <2>11, <2>12
    DEF Next, Handle
<1> QED  BY <1>1, <1>2, PTL DEF Spec

-----------------------------------------------------------------------------
(* A request that changes the index is alone with it, and none keeps the   *)
(* mutex while it waits for the embedding service or a client.             *)
THEOREM MutexIsExclusive == Spec => []LockDiscipline
<1>1. Init => LockDiscipline
  BY LiveIndexAssumption DEF Init, LockDiscipline
<1>2. TypeOK /\ LockDiscipline /\ [Next]_vars => LockDiscipline'
  <2> SUFFICES ASSUME TypeOK, LockDiscipline, [Next]_vars
               PROVE  LockDiscipline'
    OBVIOUS
  <2> USE LiveIndexAssumption DEF TypeOK, LockDiscipline, fs, index, locks, Answer
  <2>1. CASE UNCHANGED vars
    BY <2>1 DEF vars
  <2>2. ASSUME NEW r \in Requests, Receive(r) \/ Apply(r) \/ Lose(r)
        PROVE  LockDiscipline'
    <3>1. CASE Receive(r)
      BY <3>1 DEF Receive
    <3>2. CASE Apply(r) \/ Lose(r)
      BY <3>2 DEF Apply, Lose
    <3> QED  BY <2>2, <3>1, <3>2
  <2>3. ASSUME NEW r \in Requests,
               Refuse(r) \/ CheckPut(r) \/ OpenTruncate(r) \/ OpenFails(r)
                   \/ Write(r) \/ CheckDelete(r) \/ Unlink(r) \/ UnlinkFails(r)
        PROVE  LockDiscipline'
    BY <2>3 DEF Refuse, CheckPut, OpenTruncate, OpenFails, Write, CheckDelete,
        Unlink, UnlinkFails
  <2>4. ASSUME NEW r \in Requests, Lock(r) \/ Erase(r) \/ Index(r)
        PROVE  LockDiscipline'
    BY <2>4 DEF Lock, Erase, Index
  <2>5. ASSUME NEW r \in Requests, LockShared(r) \/ UnlockShared(r)
        PROVE  LockDiscipline'
    BY <2>5 DEF LockShared, UnlockShared
  <2>6. ASSUME NEW r \in Requests,
               Connect(r) \/ ConnectFails(r) \/ Hear(r) \/ TimeOut(r) \/ Reply(r)
        PROVE  LockDiscipline'
    BY <2>6 DEF Connect, ConnectFails, Hear, TimeOut, Reply
  <2>7. CASE Restart
    BY <2>7 DEF Restart, Unanswered
  <2> QED
    BY <2>1, <2>2, <2>3, <2>4, <2>5, <2>6, <2>7 DEF Next, Handle
<1> QED  BY <1>1, <1>2, TypeCorrect, PTL DEF Spec

(* A search that goes through the index sees one state of it.              *)
THEOREM SearchIsIsolated == Spec => SearchSeesOneIndex
<1>1. LockDiscipline /\ TypeOK /\ [Next]_vars
        => [readers \cap readers' # {} => words' = words]_vars
  <2> SUFFICES ASSUME LockDiscipline, TypeOK, [Next]_vars,
                      readers \cap readers' # {}
               PROVE  words' = words
    OBVIOUS
  <2> USE DEF fs, index, locks, Answer
  <2>1. CASE UNCHANGED vars
    BY <2>1 DEF vars
  <2>2. ASSUME NEW r \in Requests, Erase(r) \/ Index(r) PROVE FALSE
    <3>1. writer = r /\ readers = {}
      BY <2>2, LiveIndexAssumption DEF Erase, Index, LockDiscipline
    <3> QED  BY <3>1
  <2>3. ASSUME NEW r \in Requests,
               Receive(r) \/ Refuse(r) \/ CheckPut(r) \/ OpenTruncate(r)
                   \/ OpenFails(r) \/ Write(r) \/ CheckDelete(r) \/ Unlink(r)
                   \/ UnlinkFails(r)
        PROVE  words' = words
    BY <2>3 DEF Receive, Refuse, CheckPut, OpenTruncate, OpenFails, Write,
        CheckDelete, Unlink, UnlinkFails
  <2>4. ASSUME NEW r \in Requests,
               Lock(r) \/ LockShared(r) \/ UnlockShared(r) \/ Connect(r)
                   \/ ConnectFails(r) \/ Hear(r) \/ TimeOut(r) \/ Reply(r)
                   \/ Apply(r) \/ Lose(r)
        PROVE  words' = words
    BY <2>4 DEF Lock, LockShared, UnlockShared, Connect, ConnectFails, Hear,
        TimeOut, Reply, Apply, Lose
  <2>5. CASE Restart
    BY <2>5 DEF Restart
  <2> QED  BY <2>1, <2>2, <2>3, <2>4, <2>5 DEF Next, Handle
<1> QED
  BY <1>1, TypeCorrect, MutexIsExclusive, PTL DEF Spec, SearchSeesOneIndex

-----------------------------------------------------------------------------
(* Why the word index never keeps stale words.  A worker's step tells the  *)
(* kind of its request; an inode belongs to one file for ever, so that an  *)
(* upload changes no other file; and AddFile adds to a path that it has    *)
(* erased and that its lock has kept erased.                               *)
StepsFitRequests ==
    \A r \in Requests :
        /\ pc[r] = "idle" => req[r] = NoRequest
        /\ pc[r] \in {"check", "lock", "erase"} => req[r].op \in Mutations
        /\ pc[r] \in {"open", "write", "index"} => req[r].op \in Uploads
        /\ pc[r] = "unlink" => req[r].op = "DELETE"
        /\ pc[r] \in {"rlock", "scan"} => req[r].op = "SEARCH"

Owns(i, f) == i = f \/ (i \in Requests /\ OnFile(i, f))

InodesApart ==
    /\ \A f \in Files : entry[f] # NoFile => Owns(entry[f], f)
    /\ \A r \in Requests : pc[r] = "write" => Owns(handle[r], File(r))

ErasedBeforeIndexed ==
    \A r \in Requests : pc[r] = "index" => words[req[r].path] = <<>>

WordsInv ==
    StepsFitRequests /\ InodesApart /\ ErasedBeforeIndexed /\ NoStaleWords

(* An inode has one owner.                                                 *)
LEMMA OneOwner ==
    ASSUME NEW f \in Files, NEW g \in Files, NEW i, Owns(i, f), Owns(i, g)
    PROVE  f = g
BY LiveIndexAssumption DEF Owns, OnFile

(* A worker keeps the request it has received.                             *)
LEMMA RequestsStay ==
    ASSUME TypeOK, StepsFitRequests, [Next]_vars, NEW r \in Requests
    PROVE  req[r] # NoRequest => req'[r] = req[r]
<1> USE DEF fs, index, locks, Answer
<1>1. CASE UNCHANGED vars
  BY <1>1 DEF vars
<1>2. ASSUME NEW s \in Requests, Receive(s)
      PROVE  req[r] # NoRequest => req'[r] = req[r]
  BY <1>2 DEF Receive, TypeOK, StepsFitRequests
<1>3. ASSUME NEW s \in Requests, Handle(s) \/ Apply(s) \/ Lose(s)
      PROVE  req' = req
  <2>1. CASE Refuse(s) \/ CheckPut(s) \/ OpenTruncate(s) \/ OpenFails(s)
               \/ Write(s) \/ CheckDelete(s) \/ Unlink(s) \/ UnlinkFails(s)
    BY <2>1 DEF Refuse, CheckPut, OpenTruncate, OpenFails, Write, CheckDelete,
        Unlink, UnlinkFails
  <2>2. CASE Lock(s) \/ Erase(s) \/ Index(s) \/ LockShared(s) \/ UnlockShared(s)
    BY <2>2 DEF Lock, Erase, Index, LockShared, UnlockShared
  <2>3. CASE Connect(s) \/ ConnectFails(s) \/ Hear(s) \/ TimeOut(s) \/ Reply(s)
               \/ Apply(s) \/ Lose(s)
    BY <2>3 DEF Connect, ConnectFails, Hear, TimeOut, Reply, Apply, Lose
  <2> QED  BY <1>3, <2>1, <2>2, <2>3 DEF Handle
<1>4. CASE Restart
  BY <1>4 DEF Restart
<1> QED  BY <1>1, <1>2, <1>3, <1>4 DEF Next

(* Hence a file keeps its requests, and the inodes that belong to it.      *)
LEMMA OwnersStay ==
    ASSUME TypeOK, StepsFitRequests, [Next]_vars, NEW f \in Files
    PROVE  /\ \A r \in Requests : OnFile(r, f) => OnFile(r, f)'
           /\ \A i : Owns(i, f) => Owns(i, f)'
           /\ PlainlyNamed(f)' => PlainlyNamed(f)
           /\ Deleting(f) => Deleting(f)'
<1>1. \A r \in Requests : OnFile(r, f) => req'[r] = req[r] /\ OnFile(r, f)'
  BY RequestsStay DEF OnFile, Mutating, File
<1> QED  BY <1>1 DEF Owns, PlainlyNamed, Deleting

(* No step takes a worker to a place that its request does not lead to.    *)
LEMMA StepsFit ==
    ASSUME TypeOK, StepsFitRequests, [Next]_vars
    PROVE  StepsFitRequests'
<1> USE DEF TypeOK, StepsFitRequests, fs, index, locks, Answer
<1>1. CASE UNCHANGED vars
  BY <1>1 DEF vars
<1>2. ASSUME NEW r \in Requests, Receive(r) PROVE StepsFitRequests'
  <2>1. PICK q \in Inputs :
          /\ req' = [req EXCEPT ![r] = q]
          /\ pc' = [pc EXCEPT ![r] = IF q.op = "SEARCH" THEN "rlock" ELSE "check"]
    BY <1>2 DEF Receive
  <2>2. q.op = "SEARCH" \/ q.op \in Mutations
    BY InputParts
  <2> QED  BY <2>1, <2>2
<1>3. ASSUME NEW r \in Requests,
             Refuse(r) \/ CheckPut(r) \/ OpenTruncate(r) \/ OpenFails(r)
                 \/ Write(r) \/ CheckDelete(r) \/ Unlink(r) \/ UnlinkFails(r)
      PROVE  StepsFitRequests'
  BY <1>3 DEF Refuse, CheckPut, OpenTruncate, OpenFails, Write, CheckDelete,
      Unlink, UnlinkFails, Mutations
<1>4. ASSUME NEW r \in Requests,
             Lock(r) \/ Erase(r) \/ Index(r) \/ LockShared(r) \/ UnlockShared(r)
      PROVE  StepsFitRequests'
  BY <1>4 DEF Lock, Erase, Index, LockShared, UnlockShared, Mutations
<1>5. ASSUME NEW r \in Requests,
             Connect(r) \/ ConnectFails(r) \/ Hear(r) \/ TimeOut(r) \/ Reply(r)
                 \/ Apply(r) \/ Lose(r)
      PROVE  StepsFitRequests'
  BY <1>5 DEF Connect, ConnectFails, Hear, TimeOut, Reply, Apply, Lose
<1>6. CASE Restart
  BY <1>6 DEF Restart, Unanswered
<1> QED  BY <1>1, <1>2, <1>3, <1>4, <1>5, <1>6 DEF Next, Handle

(* Only OpenTruncate links an inode or hands one to an upload; it is the   *)
(* file's own or the request's.                                            *)
LEMMA InodesStayApart ==
    ASSUME TypeOK, StepsFitRequests, InodesApart, [Next]_vars
    PROVE  InodesApart'
<1> USE DEF fs, index, locks, Answer
<1>1. \A f \in Files : \A i : Owns(i, f) => Owns(i, f)'
  BY OwnersStay
<1>2. \A r \in Requests : pc[r] = "write" => File(r) \in Files /\ File(r)' = File(r)
  BY RequestsStay, InputParts DEF File, TypeOK
<1>3. ASSUME UNCHANGED <<entry, handle>>,
             \A r \in Requests : pc'[r] = "write" => pc[r] = "write"
      PROVE  InodesApart'
  BY <1>1, <1>2, <1>3 DEF InodesApart
<1>4. ASSUME UNCHANGED vars PROVE InodesApart'
  BY <1>3, <1>4 DEF vars
<1>5. ASSUME NEW r \in Requests, OpenTruncate(r) PROVE InodesApart'
  <2> DEFINE f == File(r)
             i == IF entry[f] = NoFile THEN r ELSE entry[f]
  <2>1. req[r] \in Inputs /\ req[r].op \in Mutations /\ pc[r] = "open"
    BY <1>5 DEF OpenTruncate, TypeOK, StepsFitRequests, Mutations
  <2>2. f \in Files /\ OnFile(r, f) /\ File(r)' = f
    BY <2>1, <1>5, InputParts DEF OnFile, Mutating, File, OpenTruncate
  <2>3. Owns(i, f)
    BY <2>2 DEF Owns, InodesApart
  <2>4. /\ entry' = [entry EXCEPT ![f] = i]
        /\ handle' = [handle EXCEPT ![r] = i]
        /\ pc' = [pc EXCEPT ![r] = "write"]
    BY <1>5 DEF OpenTruncate
  <2> HIDE DEF f, i
  <2>5. \A g \in Files : entry'[g] # NoFile => Owns(entry'[g], g)
    BY <2>2, <2>3, <2>4 DEF InodesApart, TypeOK
  <2>6. \A s \in Requests :
          pc'[s] = "write" => IF s = r THEN Owns(handle'[s], f)
                              ELSE pc[s] = "write" /\ Owns(handle'[s], File(s))
    BY <2>3, <2>4 DEF InodesApart, TypeOK
  <2> QED  BY <1>1, <1>2, <2>2, <2>5, <2>6 DEF InodesApart
<1>6. ASSUME NEW r \in Requests, Write(r) PROVE InodesApart'
  <2>1. /\ entry' = entry
        /\ \A s \in Requests : pc'[s] = "write" => pc[s] = "write" /\ s # r
        /\ \A s \in Requests : s # r => handle'[s] = handle[s]
    BY <1>6 DEF Write, TypeOK
  <2> QED  BY <1>1, <1>2, <2>1 DEF InodesApart
<1>7. ASSUME NEW r \in Requests, Unlink(r) PROVE InodesApart'
  <2>1. /\ handle' = handle
        /\ \A s \in Requests : pc'[s] = "write" => pc[s] = "write"
        /\ \A f \in Files : entry'[f] # NoFile => entry'[f] = entry[f]
    BY <1>7 DEF Unlink, TypeOK
  <2> QED  BY <1>1, <1>2, <2>1 DEF InodesApart
<1>8. ASSUME NEW r \in Requests,
             Receive(r) \/ Refuse(r) \/ CheckPut(r) \/ OpenFails(r)
                 \/ CheckDelete(r) \/ UnlinkFails(r)
      PROVE  InodesApart'
  <2>1. CASE Receive(r)
    <3>1. \A s \in Requests : pc'[s] = "write" => pc[s] = "write"
      BY <2>1 DEF Receive, TypeOK
    <3> QED  BY <1>3, <2>1, <3>1 DEF Receive
  <2>2. CASE Refuse(r) \/ CheckPut(r) \/ OpenFails(r)
    BY <1>3, <2>2 DEF Refuse, CheckPut, OpenFails, TypeOK
  <2>3. CASE CheckDelete(r) \/ UnlinkFails(r)
    BY <1>3, <2>3 DEF CheckDelete, UnlinkFails, TypeOK
  <2> QED  BY <1>8, <2>1, <2>2, <2>3
<1>9. ASSUME NEW r \in Requests,
             Lock(r) \/ Erase(r) \/ Index(r) \/ LockShared(r) \/ UnlockShared(r)
                 \/ Connect(r) \/ ConnectFails(r) \/ Hear(r) \/ TimeOut(r)
                 \/ Reply(r) \/ Apply(r) \/ Lose(r)
      PROVE  InodesApart'
  BY <1>3, <1>9 DEF Lock, Erase, Index, LockShared, UnlockShared, Connect,
      ConnectFails, Hear, TimeOut, Reply, Apply, Lose, TypeOK
<1>10. CASE Restart
  <2>1. entry' = entry /\ \A r \in Requests : pc'[r] # "write"
    BY <1>10 DEF Restart, Unanswered
  <2> QED  BY <1>1, <2>1 DEF InodesApart
<1> QED
  BY <1>4, <1>5, <1>6, <1>7, <1>8, <1>9, <1>10 DEF Next, Handle

(* The erased path stays erased: only the holder of the lock changes words.*)
LEMMA ErasedStays ==
    ASSUME TypeOK, LockDiscipline, ErasedBeforeIndexed, [Next]_vars
    PROVE  ErasedBeforeIndexed'
<1> USE DEF fs, index, locks, Answer, TypeOK
<1>1. ASSUME UNCHANGED words,
             \A r \in Requests :
                 pc'[r] = "index" => pc[r] = "index" /\ req'[r] = req[r]
      PROVE  ErasedBeforeIndexed'
  BY <1>1 DEF ErasedBeforeIndexed
<1>2. ASSUME UNCHANGED vars PROVE ErasedBeforeIndexed'
  BY <1>1, <1>2 DEF vars
<1>3. ASSUME NEW r \in Requests, Erase(r) PROVE ErasedBeforeIndexed'
  <2>1. writer = r
    BY <1>3 DEF Erase, LockDiscipline
  <2>2. \A s \in Requests : pc'[s] = "index" => s = r
    BY <1>3, <2>1 DEF Erase, LockDiscipline
  <2>3. req[r].path \in Paths
    BY <1>3, InputParts DEF Erase
  <2> QED  BY <1>3, <2>2, <2>3 DEF Erase, ErasedBeforeIndexed
<1>4. ASSUME NEW r \in Requests, Index(r) PROVE ErasedBeforeIndexed'
  <2>1. \A s \in Requests : pc'[s] # "index"
    BY <1>4 DEF Index, LockDiscipline
  <2> QED  BY <2>1 DEF ErasedBeforeIndexed
<1>5. ASSUME NEW r \in Requests,
             Refuse(r) \/ CheckPut(r) \/ OpenTruncate(r) \/ OpenFails(r)
                 \/ Write(r) \/ CheckDelete(r) \/ Unlink(r) \/ UnlinkFails(r)
      PROVE  ErasedBeforeIndexed'
  BY <1>1, <1>5 DEF Refuse, CheckPut, OpenTruncate, OpenFails, Write,
      CheckDelete, Unlink, UnlinkFails
<1>6. ASSUME NEW r \in Requests,
             Receive(r) \/ Lock(r) \/ LockShared(r) \/ UnlockShared(r)
                 \/ Connect(r) \/ ConnectFails(r) \/ Hear(r) \/ TimeOut(r)
                 \/ Reply(r) \/ Apply(r) \/ Lose(r)
      PROVE  ErasedBeforeIndexed'
  <2>1. CASE Receive(r)
    <3>1. \A s \in Requests : pc'[s] = "index" => s # r /\ pc[s] = "index"
      BY <2>1 DEF Receive
    <3>2. \A s \in Requests : s # r => req'[s] = req[s]
      BY <2>1 DEF Receive
    <3> QED  BY <1>1, <2>1, <3>1, <3>2 DEF Receive
  <2>2. CASE Lock(r) \/ LockShared(r) \/ UnlockShared(r) \/ Connect(r)
               \/ ConnectFails(r) \/ Hear(r) \/ TimeOut(r) \/ Reply(r)
    BY <1>1, <2>2 DEF Lock, LockShared, UnlockShared, Connect, ConnectFails,
        Hear, TimeOut, Reply
  <2>3. CASE Apply(r) \/ Lose(r)
    BY <1>1, <2>3 DEF Apply, Lose
  <2> QED  BY <1>6, <2>1, <2>2, <2>3
<1>7. CASE Restart
  BY <1>7 DEF Restart, Unanswered, ErasedBeforeIndexed
<1> QED  BY <1>2, <1>3, <1>4, <1>5, <1>6, <1>7 DEF Next, Handle

(* A file that a step leaves alone, word index and content, keeps what the *)
(* invariant says of it: none of the other conditions gets weaker.         *)
WordsOf(f) ==
    PlainlyNamed(f) /\ ~Changing(f) =>
        \/ words[f] = Content(f)
        \/ words[f] = <<>> /\ Deleting(f)
        \/ f \in misread /\ words[f] \in Readings(f)

LEMMA UntouchedWords ==
    ASSUME TypeOK, StepsFitRequests, [Next]_vars, NEW f \in Files, WordsOf(f),
           words'[f] = words[f], Content(f)' = Content(f),
           f \in misread => f \in misread',
           \A r \in Requests :
               OnFile(r, f) /\ pc[r] \in {"write"} \cup IndexSteps
                   => pc'[r] \in {"write"} \cup IndexSteps
    PROVE  WordsOf(f)'
<1>1. Changing(f) => Changing(f)'
  BY OwnersStay DEF Changing
<1>2. PlainlyNamed(f)' => PlainlyNamed(f)
  BY OwnersStay
<1>3. Deleting(f) => Deleting(f)'
  BY OwnersStay
<1>4. Readings(f)' = Readings(f)
  BY DEF Readings
<1> QED  BY <1>1, <1>2, <1>3, <1>4 DEF WordsOf

(* The four parts together are inductive.                                  *)
THEOREM WordsInvariant == Spec => []WordsInv
<1>1. Init => WordsInv
  <2> SUFFICES ASSUME Init PROVE WordsInv
    OBVIOUS
  <2>1. StepsFitRequests /\ ErasedBeforeIndexed
    BY DEF Init, StepsFitRequests, ErasedBeforeIndexed
  <2>2. InodesApart
    BY DEF Init, InodesApart, Owns
  <2>3. ASSUME NEW f \in Files PROVE WordsOf(f)
    <3>1. \A g \in Files : Content(g) \in Contents
      <4>1. \A g \in Files : g \in Inodes /\ <<g>> \in Contents
        BY DEF Contents, Inodes
      <4>2. \A g \in Files : Content(g) \in {<<g>>, <<>>}
        BY <4>1 DEF Init, Content
      <4> QED  BY <4>1, <4>2, EmptySeq DEF Contents
    <3>2. PICK text \in BuildReadings :
            words = Indexed(text) /\ misread = Partial(text)
      BY DEF Init
    <3> QED  BY <3>1, <3>2, BuildIndexes DEF WordsOf
  <2>4. NoStaleWords
    BY <2>3 DEF NoStaleWords, WordsOf
  <2> QED  BY <2>1, <2>2, <2>4 DEF WordsInv
<1>2. TypeOK /\ LockDiscipline /\ WordsInv /\ [Next]_vars => WordsInv'
  <2> SUFFICES ASSUME TypeOK, LockDiscipline, WordsInv, [Next]_vars,
                      NEW f \in Files
               PROVE  WordsOf(f)'
    BY StepsFit, InodesStayApart, ErasedStays
    DEF WordsInv, NoStaleWords, WordsOf
  <2> USE DEF fs, index, locks, Answer
  <2>0. /\ StepsFitRequests /\ InodesApart /\ ErasedBeforeIndexed
        /\ WordsOf(f)
        /\ FileOf[f] = f /\ f \in Paths
    BY LiveIndexAssumption DEF WordsInv, NoStaleWords, WordsOf
  <2>1. ASSUME words'[f] = words[f], Content(f)' = Content(f),
               f \in misread => f \in misread',
               \A r \in Requests :
                   OnFile(r, f) /\ pc[r] \in {"write"} \cup IndexSteps
                       => pc'[r] \in {"write"} \cup IndexSteps
        PROVE  WordsOf(f)'
    BY <2>0, <2>1, UntouchedWords
  <2>2. ASSUME NEW r \in Requests, req'[r] = req[r], OnFile(r, f),
               pc'[r] \in {"write"} \cup IndexSteps
        PROVE  WordsOf(f)'
    BY <2>2 DEF WordsOf, Changing, OnFile, Mutating, File
  <2>3. CASE UNCHANGED vars
    BY <2>1, <2>3 DEF vars, Content
  <2>4. ASSUME NEW r \in Requests, OpenTruncate(r) PROVE WordsOf(f)'
    <3>1. OnFile(r, File(r)) /\ req'[r] = req[r] /\ pc'[r] = "write"
      BY <2>0, <2>4, InputParts
      DEF OpenTruncate, TypeOK, OnFile, Mutating, StepsFitRequests, Mutations
    <3>2. CASE f = File(r)
      BY <2>2, <3>1, <3>2
    <3>3. CASE f # File(r)
      <4> DEFINE g == File(r)
                 i == IF entry[g] = NoFile THEN r ELSE entry[g]
      <4>1. /\ entry' = [entry EXCEPT ![g] = i]
            /\ data' = [data EXCEPT ![i] = <<>>]
        BY <2>4 DEF OpenTruncate
      <4>2. g \in Files
        BY <2>4, InputParts DEF OpenTruncate, TypeOK, File
      <4>3. Owns(i, g)
        BY <2>0, <3>1, <4>2 DEF Owns, InodesApart
      <4>4. entry[f] # NoFile => entry[f] # i
        BY <2>0, <3>3, <4>2, <4>3, OneOwner DEF InodesApart
      <4> HIDE DEF g, i
      <4>5. entry'[f] = entry[f]
        BY <3>3, <4>1 DEF g
      <4>6. Content(f)' = Content(f)
        BY <4>1, <4>4, <4>5 DEF Content, TypeOK
      <4> QED  BY <2>1, <2>4, <4>6 DEF OpenTruncate, TypeOK, IndexSteps
    <3> QED  BY <3>2, <3>3
  <2>5. ASSUME NEW r \in Requests, Write(r) PROVE WordsOf(f)'
    <3>1. /\ OnFile(r, File(r)) /\ File(r) \in Files
          /\ req'[r] = req[r] /\ pc'[r] = "lock"
      BY <2>0, <2>5, InputParts
      DEF Write, TypeOK, OnFile, Mutating, StepsFitRequests, Mutations, File
    <3>2. CASE f = File(r)
      BY <2>2, <3>1, <3>2 DEF IndexSteps
    <3>3. CASE f # File(r)
      <4>1. Owns(handle[r], File(r))
        BY <2>0, <2>5 DEF InodesApart, Write
      <4>2. entry[f] # NoFile => entry[f] # handle[r]
        BY <2>0, <3>1, <3>3, <4>1, OneOwner DEF InodesApart
      <4>3. PICK n \in 0 .. req[r].size :
              data' = [data EXCEPT ![handle[r]] =
                         Overlay(@, SubSeq(Body(r), 1, n))]
        BY <2>5 DEF Write
      <4>4. Content(f)' = Content(f)
        BY <2>5, <4>2, <4>3 DEF Write, Content, TypeOK
      <4> QED  BY <2>1, <2>5, <4>4 DEF Write, TypeOK, IndexSteps
    <3> QED  BY <3>2, <3>3
  <2>6. ASSUME NEW r \in Requests, Unlink(r) PROVE WordsOf(f)'
    <3>1. OnFile(r, File(r)) /\ req'[r] = req[r] /\ pc'[r] = "lock"
      BY <2>0, <2>6, InputParts
      DEF Unlink, TypeOK, OnFile, Mutating, StepsFitRequests, Mutations
    <3>2. CASE f = File(r)
      BY <2>2, <3>1, <3>2 DEF IndexSteps
    <3>3. CASE f # File(r)
      BY <2>1, <2>6, <3>3 DEF Unlink, Content, TypeOK, IndexSteps
    <3> QED  BY <3>2, <3>3
  <2>7. ASSUME NEW r \in Requests, Erase(r) PROVE WordsOf(f)'
    <3>1. /\ OnFile(r, File(r)) /\ req'[r] = req[r]
          /\ req[r].path = f => File(r) = f
          /\ req[r].path \in Paths
      BY <2>0, <2>7, InputParts
      DEF Erase, TypeOK, OnFile, Mutating, StepsFitRequests, File
    <3>2. CASE f = File(r) /\ req[r].op # "DELETE"
      BY <2>2, <2>7, <3>1, <3>2 DEF Erase, TypeOK, IndexSteps
    <3>3. CASE f = File(r) /\ req[r].op = "DELETE"
      <4>1. Deleting(f)'
        BY <3>1, <3>3 DEF Deleting, OnFile, Mutating, File
      <4>2. PlainlyNamed(f) => words'[f] = <<>>
        BY <2>7, <3>1, <3>3 DEF PlainlyNamed, Erase, TypeOK
      <4> QED  BY <2>0, <4>1, <4>2, OwnersStay DEF WordsOf
    <3>4. CASE f # File(r)
      <4>1. words'[f] = words[f]
        BY <2>7, <3>1, <3>4 DEF Erase, TypeOK
      <4>2. \A s \in Requests : s # r => pc'[s] = pc[s]
        BY <2>7 DEF Erase, TypeOK
      <4> QED
        BY <2>1, <2>7, <3>4, <4>1, <4>2 DEF Erase, Content, OnFile
    <3> QED  BY <3>2, <3>3, <3>4
  <2>8. ASSUME NEW r \in Requests, Index(r) PROVE WordsOf(f)'
    <3>1. /\ OnFile(r, File(r))
          /\ req[r].path = f => File(r) = f
          /\ req[r].path \in Paths
          /\ words[req[r].path] = <<>>
      BY <2>0, <2>8, InputParts
      DEF Index, TypeOK, OnFile, Mutating, StepsFitRequests, File, Mutations,
          ErasedBeforeIndexed
    <3> DEFINE Failed(text) == IF text = Content(File(r)) THEN {} ELSE {File(r)}
    <3>2. PICK text \in Readings(File(r)) :
            /\ words' = [words EXCEPT ![req[r].path] = @ \o text]
            /\ misread' = (misread \ {File(r)}) \cup Failed(text)
      BY <2>8 DEF Index
    <3>3. CASE f = File(r)
      <4>1. Content(f)' = Content(f) /\ Readings(f)' = Readings(f)
        BY <2>8 DEF Index, Content, Readings
      <4>2. PlainlyNamed(f) => words'[f] = <<>> \o text
        BY <3>1, <3>2, <3>3 DEF PlainlyNamed, TypeOK
      <4>3. <<>> \o text = text
        BY <3>2, <3>3, ContentIsContent, ReadingsAreContents, ConcatEmptySeq
        DEF Contents
      <4>4. text = Content(f) \/ (f \in misread' /\ text \in Readings(f)')
        BY <3>2, <3>3, <4>1
      <4> QED  BY <2>0, <4>1, <4>2, <4>3, <4>4, OwnersStay DEF WordsOf
    <3>4. CASE f # File(r)
      <4>1. words'[f] = words[f] /\ (f \in misread => f \in misread')
        BY <3>1, <3>2, <3>4 DEF TypeOK
      <4>2. \A s \in Requests : s # r => pc'[s] = pc[s]
        BY <2>8 DEF Index, TypeOK
      <4> QED
        BY <2>1, <2>8, <3>4, <4>1, <4>2 DEF Index, Content, OnFile
    <3> QED  BY <3>3, <3>4
  <2>9. ASSUME NEW r \in Requests,
               Refuse(r) \/ CheckPut(r) \/ OpenFails(r)
                   \/ CheckDelete(r) \/ UnlinkFails(r)
        PROVE  WordsOf(f)'
    BY <2>1, <2>9 DEF Refuse, CheckPut, OpenFails, CheckDelete, UnlinkFails,
        Content, IndexSteps, TypeOK
  <2>10. ASSUME NEW r \in Requests, Receive(r) PROVE WordsOf(f)'
    <3>1. \A s \in Requests : pc[s] # "idle" => pc'[s] = pc[s]
      BY <2>10 DEF Receive, TypeOK
    <3> QED  BY <2>1, <2>10, <3>1 DEF Receive, Content, IndexSteps
  <2>11. ASSUME NEW r \in Requests,
                Lock(r) \/ LockShared(r) \/ UnlockShared(r) \/ Connect(r)
                    \/ ConnectFails(r) \/ Hear(r) \/ TimeOut(r) \/ Reply(r)
         PROVE  WordsOf(f)'
    BY <2>1, <2>11 DEF Lock, LockShared, UnlockShared, Connect, ConnectFails,
        Hear, TimeOut, Reply, Content, IndexSteps, TypeOK
  <2>12. ASSUME NEW r \in Requests, Apply(r) \/ Lose(r) PROVE WordsOf(f)'
    BY <2>1, <2>12 DEF Apply, Lose, Content
  <2>13. CASE Restart
    <3>1. PICK text \in BuildReadings :
            words' = Indexed(text) /\ misread' = Partial(text)
      BY <2>13 DEF Restart
    <3>2. Content(f)' = Content(f) /\ Readings(f)' = Readings(f)
      BY <2>13 DEF Restart, Content, Readings
    <3> QED  BY <3>1, <3>2, ContentIsContent, BuildIndexes DEF WordsOf
  <2> QED
    BY <2>3, <2>4, <2>5, <2>6, <2>7, <2>8, <2>9, <2>10, <2>11, <2>12, <2>13
    DEF Next, Handle
<1> QED  BY <1>1, <1>2, TypeCorrect, MutexIsExclusive, PTL DEF Spec

(* Between two changes of a file the word index holds what is in it, or    *)
(* nothing after a deletion, or the part that could be read, whatever the  *)
(* interleaving, the faults and the restarts.                              *)
THEOREM WordsAreNeverStale == Spec => []NoStaleWords
<1>1. WordsInv => NoStaleWords
  BY DEF WordsInv
<1> QED  BY <1>1, WordsInvariant, PTL

-----------------------------------------------------------------------------
(* Why orderly updates agree.  Of a file that nothing has disturbed, every *)
(* change names it as Build does, at most one change is under way, and     *)
(* Doing says what that one has made of the three stores by now; when none *)
(* is under way they agree.                                                *)
TextOf(f) == IF entry[f] = NoFile THEN NoDoc ELSE Clip(Content(f))
Agree(f) == words[f] = Content(f) /\ vec[f] = TextOf(f)

Written(r, f) ==
    IF req[r].op \in Uploads THEN entry[f] # NoFile /\ Content(f) = Body(r)
    ELSE entry[f] = NoFile

PlainChanges(f) ==
    \A r \in Requests :
        /\ OnFile(r, f) => req[r].path = f /\ UrlDecoded[f] = f
        /\ Mutating(r) /\ FileOf[UrlDecoded[req[r].path]] = f => File(r) = f

OneChange(f) ==
    \A r, s \in Requests :
        OnFile(r, f) /\ Unsettled(r) /\ OnFile(s, f) /\ Unsettled(s) => r = s

Doing(r, f) ==
    /\ pc[r] \in {"check", "open", "unlink"} => Agree(f)
    /\ pc[r] = "open" /\ req[r].op = "POST" => entry[f] = NoFile
    /\ pc[r] = "write" =>
        entry[f] # NoFile /\ entry[f] = handle[r] /\ Content(f) = <<>>
    /\ pc[r] \in IndexSteps \cup {"call"} \/ call[r] = "sent" => Written(r, f)
    /\ pc[r] = "call" \/ call[r] = "sent" => words[f] = Content(f)
    /\ pc[r] = "await" /\ call[r] # "sent" => Agree(f)

InOrder(f) ==
    /\ PlainChanges(f)
    /\ OneChange(f)
    /\ \A r \in Requests : OnFile(r, f) /\ Unsettled(r) => Doing(r, f)
    /\ Settled(f) => Agree(f)

CallsFitSteps ==
    \A r \in Requests :
        /\ call[r] # "none" => pc[r] \in {"await", "reply", "done", "dead"}
        /\ pc[r] = "await" => call[r] # "none"

OrderInv == CallsFitSteps /\ \A f \in Files : orderly[f] => InOrder(f)

(* A worker's step leaves the others' steps, calls and handles alone.      *)
LEMMA OthersStay ==
    ASSUME TypeOK, NEW s \in Requests, Handle(s) \/ Apply(s) \/ Lose(s)
    PROVE  /\ req' = req
           /\ \A r \in Requests \ {s} :
                pc'[r] = pc[r] /\ call'[r] = call[r] /\ handle'[r] = handle[r]
<1> USE DEF fs, index, locks, Answer, TypeOK
<1>1. CASE Refuse(s) \/ CheckPut(s) \/ OpenTruncate(s) \/ OpenFails(s)
             \/ Write(s) \/ CheckDelete(s) \/ Unlink(s) \/ UnlinkFails(s)
  BY <1>1 DEF Refuse, CheckPut, OpenTruncate, OpenFails, Write, CheckDelete,
      Unlink, UnlinkFails
<1>2. CASE Lock(s) \/ Erase(s) \/ Index(s) \/ LockShared(s) \/ UnlockShared(s)
  BY <1>2 DEF Lock, Erase, Index, LockShared, UnlockShared
<1>3. CASE Connect(s) \/ ConnectFails(s) \/ Hear(s) \/ TimeOut(s) \/ Reply(s)
             \/ Apply(s) \/ Lose(s)
  BY <1>3 DEF Connect, ConnectFails, Hear, TimeOut, Reply, Apply, Lose
<1> QED  BY <1>1, <1>2, <1>3 DEF Handle

(* Only the calls that are under way go on, and only one that is made      *)
(* begins.                                                                 *)
LEMMA CallsStayFit ==
    ASSUME TypeOK, CallsFitSteps, [Next]_vars
    PROVE  CallsFitSteps'
<1> USE DEF TypeOK, CallsFitSteps, fs, index, locks, Answer
<1>1. CASE UNCHANGED vars
  BY <1>1 DEF vars
<1>2. ASSUME NEW r \in Requests,
             Receive(r) \/ Refuse(r) \/ CheckPut(r) \/ OpenTruncate(r)
                 \/ OpenFails(r) \/ Write(r) \/ CheckDelete(r) \/ Unlink(r)
                 \/ UnlinkFails(r)
      PROVE  CallsFitSteps'
  <2>1. CASE Receive(r)
    <3>1. /\ call' = call /\ pc[r] = "idle"
          /\ \A s \in Requests : s # r => pc'[s] = pc[s]
          /\ pc'[r] \in {"rlock", "check"}
      BY <2>1 DEF Receive
    <3> QED  BY <3>1
  <2>2. CASE Refuse(r) \/ CheckPut(r) \/ OpenTruncate(r) \/ OpenFails(r)
               \/ Write(r) \/ CheckDelete(r) \/ Unlink(r) \/ UnlinkFails(r)
    BY <2>2 DEF Refuse, CheckPut, OpenTruncate, OpenFails, Write,
        CheckDelete, Unlink, UnlinkFails
  <2> QED  BY <1>2, <2>1, <2>2
<1>3. ASSUME NEW r \in Requests,
             Lock(r) \/ Erase(r) \/ Index(r) \/ LockShared(r) \/ UnlockShared(r)
      PROVE  CallsFitSteps'
  BY <1>3 DEF Lock, Erase, Index, LockShared, UnlockShared
<1>4. ASSUME NEW r \in Requests,
             Connect(r) \/ ConnectFails(r) \/ Hear(r) \/ TimeOut(r) \/ Reply(r)
                 \/ Apply(r) \/ Lose(r)
      PROVE  CallsFitSteps'
  BY <1>4 DEF Connect, ConnectFails, Hear, TimeOut, Reply, Apply, Lose
<1>5. CASE Restart
  BY <1>5 DEF Restart, Unanswered
<1> QED  BY <1>1, <1>2, <1>3, <1>4, <1>5 DEF Next, Handle

(* What a step disturbs is not orderly afterwards, and nothing becomes     *)
(* orderly again.                                                          *)
LEMMA Undisturbed ==
    ASSUME TypeOK, NEW F, Disturb(F), NEW f \in Files, orderly'[f]
    PROVE  orderly[f] /\ f \notin F
<1>1. orderly'[f] = (orderly[f] /\ f \notin F)
  BY DEF Disturb
<1> QED  BY <1>1, Zenon

LEMMA StillOrderly ==
    ASSUME TypeOK, [Next]_vars, NEW f \in Files, orderly'[f]
    PROVE  orderly[f]
<1>1. orderly' = orderly \/ \E F : Disturb(F)
  <2> USE DEF fs, index, locks, Answer
  <2>1. CASE UNCHANGED vars
    BY <2>1 DEF vars
  <2>2. ASSUME NEW r \in Requests,
               Refuse(r) \/ CheckPut(r) \/ OpenTruncate(r) \/ OpenFails(r)
                   \/ CheckDelete(r) \/ Unlink(r) \/ UnlinkFails(r)
                   \/ Lock(r) \/ Erase(r) \/ LockShared(r)
                   \/ UnlockShared(r) \/ Connect(r) \/ Hear(r) \/ TimeOut(r)
                   \/ Reply(r) \/ Apply(r)
        PROVE  orderly' = orderly
    BY <2>2 DEF Refuse, CheckPut, OpenTruncate, OpenFails, CheckDelete, Unlink,
        UnlinkFails, Lock, Erase, LockShared, UnlockShared, Connect,
        Hear, TimeOut, Reply, Apply
  <2>3. ASSUME NEW r \in Requests,
               Receive(r) \/ Write(r) \/ Index(r) \/ ConnectFails(r) \/ Lose(r)
        PROVE  \E F : Disturb(F)
    BY <2>3, Zenon DEF Receive, Write, Index, ConnectFails, Lose
  <2>4. ASSUME Restart PROVE \E F : Disturb(F)
    BY <2>4, Zenon DEF Restart
  <2> QED  BY <2>1, <2>2, <2>3, <2>4, Zenon DEF Next, Handle
<1> QED  BY <1>1, Undisturbed, Zenon
(* How a step keeps a file in order: it leaves the stores alone and no     *)
(* change of the file gets further than Doing allows, ...                  *)
Same(f) ==
    /\ entry'[f] = entry[f] /\ Content(f)' = Content(f)
    /\ words'[f] = words[f] /\ vec'[f] = vec[f]

LEMMA SameAgrees ==
    ASSUME NEW f \in Files, Same(f)
    PROVE  /\ Agree(f)' <=> Agree(f)
           /\ \A r \in Requests : req'[r] = req[r] => (Written(r, f)' <=> Written(r, f))
<1>1. TextOf(f)' = TextOf(f)
  BY DEF Same, TextOf, Clip
<1>2. \A r \in Requests : req'[r] = req[r] => Body(r)' = Body(r)
  BY DEF Body
<1> QED  BY <1>1, <1>2 DEF Same, Agree, Written

LEMMA SameRequests ==
    ASSUME req' = req, NEW f \in Files
    PROVE  /\ PlainChanges(f)' <=> PlainChanges(f)
           /\ \A r \in Requests : OnFile(r, f)' <=> OnFile(r, f)
BY DEF PlainChanges, OnFile, Mutating, File

LEMMA OrderFrame ==
    ASSUME NEW f \in Files, InOrder(f), Same(f), req' = req,
           \A r \in Requests : OnFile(r, f) =>
               /\ Unsettled(r)' <=> Unsettled(r)
               /\ Unsettled(r) /\ Doing(r, f) => Doing(r, f)'
    PROVE  InOrder(f)'
<1>1. Agree(f)' <=> Agree(f)
  BY SameAgrees
<1>2. PlainChanges(f)' /\ \A r \in Requests : OnFile(r, f)' <=> OnFile(r, f)
  BY SameRequests DEF InOrder
<1>3. Settled(f)' <=> Settled(f)
  BY <1>2 DEF Settled
<1>4. OneChange(f)'
  BY <1>2 DEF InOrder, OneChange
<1>5. \A r \in Requests : OnFile(r, f)' /\ Unsettled(r)' => Doing(r, f)'
  BY <1>2 DEF InOrder
<1> QED  BY <1>1, <1>2, <1>3, <1>4, <1>5 DEF InOrder

(* ... or it is a step of the only change that is under way.               *)
LEMMA OrderChange ==
    ASSUME TypeOK, NEW f \in Files, InOrder(f), req' = req,
           NEW s \in Requests, OnFile(s, f), Unsettled(s),
           \A r \in Requests \ {s} : pc'[r] = pc[r] /\ call'[r] = call[r],
           Unsettled(s)' => Doing(s, f)',
           ~Unsettled(s)' => Agree(f)'
    PROVE  InOrder(f)'
<1>1. PlainChanges(f)' /\ \A r \in Requests : OnFile(r, f)' <=> OnFile(r, f)
  BY SameRequests DEF InOrder
<1>2. \A r \in Requests \ {s} : OnFile(r, f) => ~Unsettled(r)
  BY DEF InOrder, OneChange
<1>3. \A r \in Requests \ {s} : OnFile(r, f)' => ~Unsettled(r)'
  BY <1>1, <1>2 DEF Unsettled, Mutating
<1>4. OneChange(f)'
  BY <1>3 DEF OneChange
<1>5. \A r \in Requests : OnFile(r, f)' /\ Unsettled(r)' => Doing(r, f)'
  BY <1>3
<1>6. Settled(f)' => Agree(f)'
  BY <1>1 DEF Settled
<1> QED  BY <1>1, <1>4, <1>5, <1>6 DEF InOrder

(* A request for another file changes nothing of this one: its inode is    *)
(* its own file's, and its path and the id the service reads from it do    *)
(* not name this one.                                                      *)
LEMMA OtherFilesStay ==
    ASSUME TypeOK, StepsFitRequests, InodesApart, NEW f \in Files,
           PlainChanges(f), NEW s \in Requests, ~OnFile(s, f),
           Handle(s) \/ Apply(s) \/ Lose(s)
    PROVE  Same(f)
<1> USE DEF fs, index, locks, Answer
<1>0. f \in Paths /\ FileOf[f] = f
  BY LiveIndexAssumption
<1>1. ASSUME UNCHANGED <<entry, data, words, vec>> PROVE Same(f)
  BY <1>1 DEF Same, Content
<1>2. CASE OpenTruncate(s)
  <2> DEFINE g == File(s)
             i == IF entry[g] = NoFile THEN s ELSE entry[g]
  <2>1. /\ entry' = [entry EXCEPT ![g] = i]
        /\ data' = [data EXCEPT ![i] = <<>>]
        /\ words' = words /\ vec' = vec
    BY <1>2 DEF OpenTruncate
  <2>2. g \in Files /\ OnFile(s, g) /\ g # f
    BY <1>2, InputParts
    DEF OpenTruncate, TypeOK, File, OnFile, Mutating, StepsFitRequests, Mutations
  <2>3. Owns(i, g)
    BY <2>2 DEF Owns, InodesApart
  <2>4. entry[f] # NoFile => entry[f] # i
    BY <2>2, <2>3, OneOwner DEF InodesApart
  <2> HIDE DEF g, i
  <2>5. entry'[f] = entry[f]
    BY <2>1, <2>2
  <2> QED  BY <2>1, <2>4, <2>5 DEF Same, Content, TypeOK
<1>3. CASE Write(s)
  <2>1. /\ File(s) \in Files /\ OnFile(s, File(s)) /\ File(s) # f
        /\ entry' = entry /\ words' = words /\ vec' = vec
    BY <1>3, InputParts
    DEF Write, TypeOK, File, OnFile, Mutating, StepsFitRequests, Mutations
  <2>2. entry[f] # NoFile => entry[f] # handle[s]
    BY <1>3, <2>1, OneOwner DEF InodesApart, Write
  <2>3. PICK n \in 0 .. req[s].size :
          data' = [data EXCEPT ![handle[s]] = Overlay(@, SubSeq(Body(s), 1, n))]
    BY <1>3 DEF Write
  <2> QED  BY <2>1, <2>2, <2>3 DEF Same, Content, TypeOK
<1>4. CASE Unlink(s)
  <2>1. File(s) # f
    BY <1>4, InputParts
    DEF Unlink, TypeOK, File, OnFile, Mutating, StepsFitRequests, Mutations
  <2> QED  BY <1>4, <2>1 DEF Unlink, Same, Content, TypeOK
<1>5. CASE Erase(s) \/ Index(s)
  <2>1. req[s].path # f
    BY <1>0, <1>5, InputParts
    DEF Erase, Index, TypeOK, File, OnFile, Mutating, StepsFitRequests, Mutations
  <2>2. entry' = entry /\ data' = data /\ vec' = vec
    BY <1>5 DEF Erase, Index
  <2>3. words'[f] = words[f]
    BY <1>0, <1>5, <2>1 DEF Erase, Index, TypeOK
  <2> QED  BY <2>2, <2>3 DEF Same, Content
<1>6. CASE Apply(s)
  <2>1. req[s] \in Inputs /\ req[s] # NoRequest
    BY <1>6, RequestAssumption DEF Apply, TypeOK
  <2>2. req[s].op \in Mutations => req[s].path # f /\ UrlDecoded[req[s].path] # f
    BY <1>0, <2>1 DEF PlainChanges, OnFile, Mutating, File
  <2>3. entry' = entry /\ data' = data /\ words' = words
    BY <1>6 DEF Apply
  <2>4. vec'[f] = vec[f]
    BY <1>0, <1>6, <2>2 DEF Apply, TypeOK, Mutations
  <2> QED  BY <2>3, <2>4 DEF Same, Content
<1>7. CASE Refuse(s) \/ CheckPut(s) \/ OpenFails(s) \/ CheckDelete(s)
             \/ UnlinkFails(s) \/ Lock(s) \/ LockShared(s) \/ UnlockShared(s)
  BY <1>1, <1>7 DEF Refuse, CheckPut, OpenFails, CheckDelete, UnlinkFails,
      Lock, LockShared, UnlockShared
<1>8. CASE Connect(s) \/ ConnectFails(s) \/ Hear(s) \/ TimeOut(s) \/ Reply(s)
             \/ Lose(s)
  BY <1>1, <1>8 DEF Connect, ConnectFails, Hear, TimeOut, Reply, Lose
<1> QED
  BY <1>2, <1>3, <1>4, <1>5, <1>6, <1>7, <1>8 DEF Handle
(* What an upload stores, if the disk takes all of it, is its body: it     *)
(* writes over nothing.                                                    *)
LEMMA WholeBodyStays ==
    ASSUME NEW r \in Requests, req[r].size \in Nat
    PROVE  Overlay(<<>>, SubSeq(Body(r), 1, req[r].size)) = Body(r)
<1> DEFINE b == Body(r)
<1>1. b \in Contents /\ Len(b) = req[r].size
  BY BodyIsContent
<1>2. b \in Seq(Inodes) /\ Len(b) \in Nat /\ Len(b) = req[r].size
  BY <1>1, LenProperties DEF Contents
<1> HIDE DEF b
<1>3. SubSeq(b, 1, Len(b)) = b
  BY <1>2
<1>4. SubSeq(<<>>, Len(b) + 1, Len(<<>>)) = <<>>
  BY <1>2
<1>5. b \o <<>> = b
  BY <1>2, ConcatEmptySeq
<1> QED  BY <1>2, <1>3, <1>4, <1>5 DEF Overlay, b

(* The steps of a change of the file itself.                               *)
LEMMA OwnStepsInOrder ==
    ASSUME TypeOK, StepsFitRequests, ErasedBeforeIndexed, CallsFitSteps,
           NEW f \in Files, InOrder(f), orderly'[f],
           NEW s \in Requests, OnFile(s, f), Handle(s) \/ Apply(s) \/ Lose(s)
    PROVE  InOrder(f)'
<1> USE DEF fs, index, locks, Answer
<1>0. /\ f \in Paths /\ FileOf[f] = f
      /\ req[s] \in Inputs /\ req[s] # NoRequest /\ req[s].op \in Mutations
      /\ File(s) = f /\ req[s].path = f /\ UrlDecoded[f] = f
      /\ req[s].size \in Nat
  BY LiveIndexAssumption, InputParts
  DEF TypeOK, OnFile, Mutating, InOrder, PlainChanges
<1>1. /\ req' = req
      /\ \A r \in Requests \ {s} :
           pc'[r] = pc[r] /\ call'[r] = call[r] /\ handle'[r] = handle[r]
  BY OthersStay
<1>2. Mutating(s) /\ Mutating(s)'
  BY <1>0, <1>1 DEF Mutating
<1>3. ASSUME pc[s] \notin {"reply", "done", "dead"} \/ call[s] = "sent"
      PROVE  Unsettled(s) /\ Doing(s, f)
  BY <1>2, <1>3 DEF Unsettled, InOrder
<1>4. ASSUME Unsettled(s), Unsettled(s)' => Doing(s, f)', ~Unsettled(s)' => Agree(f)'
      PROVE  InOrder(f)'
  BY <1>1, <1>4, OrderChange
<1>5. ASSUME Unsettled(s), Agree(f)', pc'[s] \in {"reply", "check", "open", "unlink"},
             call'[s] = call[s], call[s] # "sent",
             pc'[s] = "open" => (req[s].op = "POST" => entry'[f] = NoFile)
      PROVE  InOrder(f)'
  <2>1. Doing(s, f)'
    BY <1>1, <1>5 DEF Doing, IndexSteps
  <2> QED  BY <1>4, <1>5, <2>1
<1>6. pc[s] \notin {"await", "reply", "done", "dead"} => call[s] = "none"
  BY DEF CallsFitSteps
<1>7. CASE Refuse(s) \/ OpenFails(s) \/ UnlinkFails(s)
  <2>1. /\ Same(f) /\ pc'[s] = "reply" /\ call'[s] = call[s]
        /\ pc[s] \in {"check", "open", "unlink"}
    BY <1>7 DEF Refuse, OpenFails, UnlinkFails, Same, Content, TypeOK
  <2>2. Unsettled(s) /\ Agree(f)
    BY <1>3, <2>1 DEF Doing
  <2> QED  BY <1>5, <1>6, <2>1, <2>2, SameAgrees
<1>8. CASE CheckPut(s) \/ CheckDelete(s)
  <2>1. /\ Same(f) /\ call'[s] = call[s] /\ pc[s] = "check"
        /\ pc'[s] \in {"reply", "open", "unlink"}
        /\ pc'[s] = "open" => (req[s].op = "POST" => entry'[f] = NoFile)
    BY <1>0, <1>8 DEF CheckPut, CheckDelete, Same, Content, TypeOK
  <2>2. Unsettled(s) /\ Agree(f)
    BY <1>3, <2>1 DEF Doing
  <2> QED  BY <1>5, <1>6, <2>1, <2>2, SameAgrees
<1>9. CASE OpenTruncate(s)
  <2> DEFINE i == IF entry[f] = NoFile THEN s ELSE entry[f]
  <2>1. /\ entry' = [entry EXCEPT ![f] = i]
        /\ data' = [data EXCEPT ![i] = <<>>]
        /\ handle' = [handle EXCEPT ![s] = i]
        /\ pc' = [pc EXCEPT ![s] = "write"]
        /\ call' = call /\ pc[s] = "open"
    BY <1>0, <1>9 DEF OpenTruncate
  <2>2. i \in Inodes /\ i # NoFile
    BY LiveIndexAssumption DEF TypeOK, Inodes
  <2> HIDE DEF i
  <2>3. entry'[f] = i /\ handle'[s] = i /\ data'[i] = <<>> /\ pc'[s] = "write"
    BY <2>1, <2>2 DEF TypeOK
  <2>4. Content(f)' = <<>>
    BY <2>2, <2>3 DEF Content
  <2>5. call'[s] = "none"
    BY <1>6, <2>1
  <2>6. Unsettled(s)' /\ Doing(s, f)'
    BY <1>2, <2>2, <2>3, <2>4, <2>5 DEF Doing, Unsettled, IndexSteps
  <2> QED  BY <1>3, <1>4, <2>1, <2>6
<1>10. CASE Write(s)
  <2>1. PICK n \in 0 .. req[s].size :
          /\ data' = [data EXCEPT ![handle[s]] = Overlay(@, SubSeq(Body(s), 1, n))]
          /\ Disturb(IF n < req[s].size THEN {File(s)} ELSE {})
    BY <1>10 DEF Write
  <2>2. n = req[s].size
    <3>1. ~(n < req[s].size)
      BY <1>0, <2>1, Undisturbed
    <3> QED  BY <1>0, <3>1
  <2>3. /\ pc[s] = "write" /\ pc' = [pc EXCEPT ![s] = "lock"]
        /\ call' = call /\ entry' = entry
    BY <1>10 DEF Write
  <2>4. Unsettled(s) /\ entry[f] # NoFile /\ entry[f] = handle[s] /\ Content(f) = <<>>
    BY <1>3, <2>3 DEF Doing
  <2>5. data[handle[s]] = <<>> /\ handle[s] \in Inodes
    BY <2>4 DEF Content, TypeOK
  <2>6. data'[handle[s]] = Overlay(<<>>, SubSeq(Body(s), 1, req[s].size))
    BY <2>1, <2>2, <2>5 DEF TypeOK
  <2>7. Content(f)' = Body(s) /\ Body(s)' = Body(s)
    BY <1>0, <1>1, <2>3, <2>4, <2>6, WholeBodyStays DEF Content, Body
  <2>8. Written(s, f)' /\ pc'[s] = "lock" /\ call'[s] = "none"
    BY <1>1, <1>6, <2>3, <2>4, <2>7 DEF Written, StepsFitRequests, TypeOK
  <2>9. Unsettled(s)' /\ Doing(s, f)'
    BY <1>2, <2>8 DEF Doing, Unsettled, IndexSteps
  <2> QED  BY <1>4, <2>4, <2>9
<1>11. CASE Unlink(s)
  <2>1. /\ pc[s] = "unlink" /\ pc'[s] = "lock" /\ call'[s] = call[s]
        /\ entry'[f] = NoFile /\ req'[s].op = "DELETE"
    BY <1>0, <1>1, <1>11 DEF Unlink, StepsFitRequests, TypeOK
  <2>2. Written(s, f)' /\ call'[s] = "none"
    BY <1>6, <2>1 DEF Written, Uploads
  <2>3. Unsettled(s)' /\ Doing(s, f)'
    BY <1>2, <2>1, <2>2 DEF Doing, Unsettled, IndexSteps
  <2> QED  BY <1>3, <1>4, <2>1, <2>3
<1>12. CASE Lock(s)
  <2>1. /\ pc[s] = "lock" /\ pc'[s] = "erase" /\ call'[s] = call[s] /\ Same(f)
    BY <1>12 DEF Lock, Same, Content, TypeOK
  <2>2. Written(s, f)' /\ call'[s] = "none"
    BY <1>1, <1>3, <1>6, <2>1, SameAgrees DEF Doing, IndexSteps
  <2>3. Unsettled(s)' /\ Doing(s, f)'
    BY <1>2, <2>1, <2>2 DEF Doing, Unsettled
  <2> QED  BY <1>3, <1>4, <2>1, <2>3
<1>13. CASE Erase(s)
  <2>1. /\ pc[s] = "erase" /\ call' = call /\ entry' = entry /\ data' = data
        /\ words' = [words EXCEPT ![f] = <<>>]
        /\ pc' = [pc EXCEPT ![s] = IF req[s].op = "DELETE" THEN "call" ELSE "index"]
    BY <1>0, <1>13 DEF Erase
  <2>2. Unsettled(s) /\ Written(s, f)
    BY <1>3, <2>1 DEF Doing, IndexSteps
  <2>3. Written(s, f)' /\ Content(f)' = Content(f) /\ call'[s] = "none"
    BY <1>1, <1>6, <2>1, <2>2 DEF Written, Content, Body
  <2>4. words'[f] = <<>> /\ pc'[s] \in {"call", "index"}
    BY <1>0, <2>1 DEF TypeOK
  <2>5. pc'[s] = "call" => Content(f) = <<>>
    BY <2>1, <2>2 DEF TypeOK, Written, Content, Uploads
  <2>6. Unsettled(s)' /\ Doing(s, f)'
    BY <1>2, <2>3, <2>4, <2>5 DEF Doing, Unsettled
  <2> QED  BY <1>4, <2>2, <2>6
<1>14. CASE Index(s)
  <2>0. PICK text \in Readings(f) :
          /\ words' = [words EXCEPT ![f] = @ \o text]
          /\ Disturb(IF text = Content(f) THEN {} ELSE {f})
    BY <1>0, <1>14 DEF Index
  <2>1. /\ pc[s] = "index" /\ call' = call /\ entry' = entry /\ data' = data
        /\ words' = [words EXCEPT ![f] = @ \o Content(f)]
        /\ pc' = [pc EXCEPT ![s] = "call"]
    <3>1. text = Content(f)
      BY <2>0, Undisturbed
    <3> QED  BY <1>14, <2>0, <3>1 DEF Index
  <2>2. Unsettled(s) /\ Written(s, f)
    BY <1>3, <2>1 DEF Doing, IndexSteps
  <2>3. Written(s, f)' /\ Content(f)' = Content(f) /\ call'[s] = "none"
    BY <1>1, <1>6, <2>1, <2>2 DEF Written, Content, Body
  <2>4. words[f] = <<>>
    BY <1>0, <2>1 DEF ErasedBeforeIndexed
  <2>5. <<>> \o Content(f) = Content(f)
    BY ContentIsContent, ConcatEmptySeq DEF Contents
  <2>6. words'[f] = Content(f) /\ pc'[s] = "call"
    BY <1>0, <2>1, <2>4, <2>5 DEF TypeOK
  <2>7. Unsettled(s)' /\ Doing(s, f)'
    BY <1>2, <2>3, <2>6 DEF Doing, Unsettled
  <2> QED  BY <1>4, <2>2, <2>7
<1>15. CASE LockShared(s) \/ UnlockShared(s)
  <2>1. req[s].op = "SEARCH"
    BY <1>15 DEF LockShared, UnlockShared, StepsFitRequests
  <2> QED  BY <1>0, <2>1 DEF Mutations, Uploads
<1>16. CASE Connect(s)
  <2>1. /\ pc[s] = "call" /\ pc'[s] = "await" /\ call'[s] = "sent" /\ Same(f)
    BY <1>16 DEF Connect, Same, Content, TypeOK
  <2>2. Unsettled(s) /\ Written(s, f) /\ words[f] = Content(f)
    BY <1>3, <2>1 DEF Doing
  <2>3. Written(s, f)' /\ words'[f] = Content(f)'
    BY <1>1, <2>1, <2>2, SameAgrees DEF Same
  <2>4. Unsettled(s)' /\ Doing(s, f)'
    BY <1>2, <2>1, <2>3 DEF Doing, Unsettled, IndexSteps
  <2> QED  BY <1>4, <2>2, <2>4
<1>17. CASE ConnectFails(s) \/ Lose(s)
  <2>1. Missed(s) = {f}
    BY <1>0 DEF Missed
  <2>2. Disturb({f})
    BY <1>17, <2>1 DEF ConnectFails, Lose
  <2> QED  BY <2>2, Undisturbed
<1>18. CASE Hear(s)
  <2>1. /\ pc[s] = "await" /\ pc'[s] = "reply" /\ call'[s] = call[s]
        /\ call[s] # "sent" /\ Same(f)
    BY <1>18 DEF Hear, Same, Content, TypeOK
  <2>2. Unsettled(s) /\ Agree(f)
    BY <1>3, <2>1 DEF Doing
  <2> QED  BY <1>5, <2>1, <2>2, SameAgrees
<1>19. CASE TimeOut(s)
  <2>1. /\ pc[s] = "await" /\ pc'[s] = "reply" /\ call'[s] = "sent"
        /\ call[s] = "sent" /\ Same(f)
    BY <1>19 DEF TimeOut, Same, Content, TypeOK
  <2>2. Unsettled(s) /\ Written(s, f) /\ words[f] = Content(f)
    BY <1>3, <2>1 DEF Doing
  <2>3. Written(s, f)' /\ words'[f] = Content(f)'
    BY <1>1, <2>1, <2>2, SameAgrees DEF Same
  <2>4. Unsettled(s)' /\ Doing(s, f)'
    BY <1>2, <2>1, <2>3 DEF Doing, Unsettled, IndexSteps
  <2> QED  BY <1>4, <2>2, <2>4
<1>20. CASE Reply(s)
  <2>1. /\ pc[s] = "reply" /\ pc'[s] = "done" /\ call'[s] = call[s] /\ Same(f)
        /\ handle' = handle
    BY <1>20 DEF Reply, Same, Content, TypeOK
  <2>2. Unsettled(s)' <=> Unsettled(s)
    BY <1>2, <2>1 DEF Unsettled
  <2>3. Unsettled(s) /\ Doing(s, f) => Doing(s, f)'
    <3> SUFFICES ASSUME Unsettled(s), Doing(s, f) PROVE Doing(s, f)'
      OBVIOUS
    <3>1. Written(s, f) /\ words[f] = Content(f)
      BY <2>1 DEF Unsettled, Doing
    <3>2. Written(s, f)' /\ words'[f] = Content(f)'
      BY <1>1, <2>1, <3>1, SameAgrees DEF Same
    <3> QED  BY <2>1, <3>2 DEF Doing, IndexSteps
  <2>4. ASSUME NEW r \in Requests, r # s
        PROVE  /\ Unsettled(r)' <=> Unsettled(r)
               /\ Doing(r, f) => Doing(r, f)'
    <3>1. /\ req'[r] = req[r] /\ pc'[r] = pc[r] /\ call'[r] = call[r]
          /\ handle'[r] = handle[r]
      BY <1>1, <2>4
    <3>2. Unsettled(r)' <=> Unsettled(r)
      BY <3>1 DEF Unsettled, Mutating
    <3>3. (Agree(f)' <=> Agree(f)) /\ (Written(r, f)' <=> Written(r, f))
      BY <2>1, <3>1, SameAgrees
    <3>4. Doing(r, f) => Doing(r, f)'
      BY <2>1, <3>1, <3>3 DEF Doing, Same
    <3> QED  BY <3>2, <3>4
  <2>5. \A r \in Requests : OnFile(r, f) =>
          /\ Unsettled(r)' <=> Unsettled(r)
          /\ Unsettled(r) /\ Doing(r, f) => Doing(r, f)'
    BY <2>2, <2>3, <2>4
  <2> QED  BY <1>1, <2>1, <2>5, OrderFrame
<1>21. CASE Apply(s)
  <2>1. /\ call[s] = "sent" /\ call'[s] = "applied" /\ pc'[s] = pc[s]
        /\ entry' = entry /\ data' = data /\ words' = words
    BY <1>21 DEF Apply, TypeOK
  <2>2. Unsettled(s) /\ Written(s, f) /\ words[f] = Content(f)
    BY <1>3, <2>1 DEF Doing
  <2>3. Content(f)' = Content(f) /\ TextOf(f)' = TextOf(f)
    BY <2>1 DEF Content, TextOf, Clip
  <2>4. vec'[f] = TextOf(f)
    <3>1. CASE req[s].op \in Uploads
      <4>1. vec' = [vec EXCEPT ![f] = Clip(Body(s))]
        BY <1>0, <1>21, <3>1 DEF Apply, Uploads
      <4>2. vec'[f] = Clip(Body(s))
        BY <1>0, <4>1 DEF TypeOK
      <4> QED  BY <2>2, <3>1, <4>2 DEF Written, TextOf
    <3>2. CASE req[s].op = "DELETE"
      <4>1. vec' = [vec EXCEPT ![f] = NoDoc]
        BY <1>0, <1>21, <3>2 DEF Apply, Uploads
      <4>2. vec'[f] = NoDoc
        BY <1>0, <4>1 DEF TypeOK
      <4> QED  BY <2>2, <3>2, <4>2 DEF Written, TextOf, Uploads
    <3> QED  BY <1>0, <3>1, <3>2 DEF Mutations
  <2>5. Agree(f)'
    BY <2>1, <2>2, <2>3, <2>4 DEF Agree
  <2>6. pc[s] \in {"await", "reply", "done", "dead"}
    BY <2>1 DEF CallsFitSteps
  <2>7. Doing(s, f)'
    BY <2>1, <2>5, <2>6 DEF Doing, IndexSteps
  <2> QED  BY <1>4, <2>2, <2>5, <2>7
<1> QED
  BY <1>7, <1>8, <1>9, <1>10, <1>11, <1>12, <1>13, <1>14, <1>15, <1>16, <1>17,
     <1>18, <1>19, <1>20, <1>21 DEF Handle

(* A change begins: the file's last one has settled.                       *)
LEMMA ReceiveInOrder ==
    ASSUME TypeOK, StepsFitRequests, CallsFitSteps, NEW f \in Files, InOrder(f),
           orderly'[f], NEW s \in Requests, Receive(s)
    PROVE  InOrder(f)'
<1> USE DEF fs, index, locks
<1>0. f \in Paths /\ FileOf[f] = f
  BY LiveIndexAssumption
<1> DEFINE Overlaps(g) == \E r \in Requests : Unsettled(r) /\ File(r) = g
           Misnamed(q) == FileOf[q.path] # q.path \/ UrlDecoded[q.path] # q.path
<1>1. PICK q \in Inputs :
        /\ req' = [req EXCEPT ![s] = q]
        /\ pc' = [pc EXCEPT ![s] = IF q.op = "SEARCH" THEN "rlock" ELSE "check"]
        /\ Disturb(IF q.op \in Mutations /\ (Overlaps(FileOf[q.path]) \/ Misnamed(q))
                   THEN {FileOf[q.path], FileOf[UrlDecoded[q.path]]} ELSE {})
  BY DEF Receive
<1>2. /\ Same(f) /\ call' = call /\ handle' = handle
      /\ pc[s] = "idle" /\ req[s] = NoRequest /\ call[s] = "none"
  BY DEF Receive, Same, Content, StepsFitRequests, CallsFitSteps
<1>3. /\ q.op \in Mutations \cup {"SEARCH"} /\ q.path \in Paths /\ q # NoRequest
      /\ req'[s] = q /\ \A r \in Requests \ {s} : req'[r] = req[r] /\ pc'[r] = pc[r]
      /\ q.op \in Mutations => pc'[s] = "check"
  BY <1>1, InputParts DEF TypeOK, Mutations, Uploads
<1>4. q.op \in Mutations /\ f \in {FileOf[q.path], FileOf[UrlDecoded[q.path]]}
        => ~Overlaps(FileOf[q.path]) /\ ~Misnamed(q)
  BY <1>1, Undisturbed
<1>5. OnFile(s, f)' => q.op \in Mutations /\ FileOf[q.path] = f
  BY <1>3 DEF OnFile, Mutating, File
<1>6. OnFile(s, f)' => /\ q.path = f /\ UrlDecoded[f] = f
                       /\ \A r \in Requests : OnFile(r, f) => ~Unsettled(r)
  BY <1>4, <1>5 DEF OnFile
<1>7. ~OnFile(s, f) /\ ~Mutating(s)
  BY <1>2 DEF OnFile, Mutating
<1>8. ASSUME NEW r \in Requests \ {s}
      PROVE  /\ OnFile(r, f)' <=> OnFile(r, f)
             /\ Mutating(r)' <=> Mutating(r)
             /\ Unsettled(r)' <=> Unsettled(r)
             /\ Doing(r, f)' <=> Doing(r, f)
  <2>1. /\ req'[r] = req[r] /\ pc'[r] = pc[r] /\ call'[r] = call[r]
        /\ handle'[r] = handle[r]
    BY <1>2, <1>3
  <2>2. (Agree(f)' <=> Agree(f)) /\ (Written(r, f)' <=> Written(r, f))
    BY <1>2, <2>1, SameAgrees
  <2>3. Doing(r, f)' <=> Doing(r, f)
    BY <1>2, <2>1, <2>2 DEF Doing, Same
  <2>4. OnFile(r, f)' <=> OnFile(r, f)
    BY <2>1 DEF OnFile, Mutating, File
  <2>5. (Unsettled(r)' <=> Unsettled(r)) /\ (Mutating(r)' <=> Mutating(r))
    BY <2>1 DEF Unsettled, Mutating
  <2> QED  BY <2>3, <2>4, <2>5
<1>9. PlainChanges(f)'
  <2>1. ASSUME NEW r \in Requests \ {s}, Mutating(r)',
               FileOf[UrlDecoded[req'[r].path]] = f
        PROVE  File(r)' = f
    BY <1>3, <1>8, <2>1 DEF InOrder, PlainChanges, File
  <2>2. ASSUME NEW r \in Requests \ {s}, OnFile(r, f)'
        PROVE  req'[r].path = f /\ UrlDecoded[f] = f
    BY <1>3, <1>8, <2>2 DEF InOrder, PlainChanges
  <2>3. ASSUME Mutating(s)', FileOf[UrlDecoded[req'[s].path]] = f
        PROVE  File(s)' = f
    <3>1. q.op \in Mutations /\ FileOf[UrlDecoded[q.path]] = f
      BY <1>3, <2>3 DEF Mutating
    <3>2. ~Misnamed(q)
      BY <1>4, <3>1
    <3> QED  BY <1>3, <3>1, <3>2 DEF File
  <2> QED  BY <1>3, <1>6, <2>1, <2>2, <2>3 DEF PlainChanges
<1>10. OneChange(f)'
  <2>1. ASSUME NEW r \in Requests, NEW t \in Requests,
               OnFile(r, f)', Unsettled(r)', OnFile(t, f)', Unsettled(t)'
        PROVE  r = t
    <3>1. CASE OnFile(s, f)'
      BY <1>6, <1>8, <2>1, <3>1
    <3>2. CASE ~OnFile(s, f)'
      BY <1>8, <2>1, <3>2 DEF InOrder, OneChange
    <3> QED  BY <3>1, <3>2
  <2> QED  BY <2>1 DEF OneChange
<1>11. ASSUME OnFile(s, f)' PROVE Unsettled(s)' /\ Agree(f)' /\ Doing(s, f)'
  <2>1. Agree(f)
    BY <1>6, <1>11 DEF InOrder, Settled
  <2>2. Agree(f)' /\ pc'[s] = "check" /\ call'[s] = "none" /\ Mutating(s)'
    BY <1>2, <1>3, <1>5, <1>11, <2>1, SameAgrees DEF OnFile
  <2> QED  BY <2>2 DEF Unsettled, Doing, IndexSteps
<1>12. \A r \in Requests : OnFile(r, f)' /\ Unsettled(r)' => Doing(r, f)'
  BY <1>8, <1>11 DEF InOrder
<1>13. Settled(f)' => Agree(f)'
  <2> SUFFICES ASSUME Settled(f)' PROVE Agree(f)'
    OBVIOUS
  <2>1. ~OnFile(s, f)'
    BY <1>11 DEF Settled
  <2>2. \A r \in Requests : OnFile(r, f) => ~Unsettled(r)
    BY <1>7, <1>8 DEF Settled
  <2> QED  BY <1>2, <2>2, SameAgrees DEF Settled, InOrder
<1> QED  BY <1>9, <1>10, <1>12, <1>13 DEF InOrder

(* A restart cuts off no change of a file that stays orderly; the ones     *)
(* whose calls are still on their way have been written.                   *)
LEMMA RestartInOrder ==
    ASSUME TypeOK, NEW f \in Files, InOrder(f), orderly'[f], Restart
    PROVE  InOrder(f)'
<1>0. f \in Paths
  BY LiveIndexAssumption
<1> DEFINE CutOff == {File(r) : r \in {s \in Unanswered : Mutating(s)}}
<1>a. PICK text \in BuildReadings :
        words' = Indexed(text) /\ Disturb(Partial(text) \cup CutOff)
  BY DEF Restart
<1>b. f \notin Partial(text) /\ f \notin CutOff
  <2>1. f \notin Partial(text) \cup CutOff
    BY <1>a, Undisturbed
  <2> QED  BY <2>1
<1>1. \A r \in Requests : OnFile(r, f) => r \notin Unanswered
  BY <1>b DEF OnFile
<1>2. /\ req' = req /\ call' = call /\ entry' = entry /\ data' = data /\ vec' = vec
      /\ \A r \in Requests : OnFile(r, f) => pc'[r] = pc[r]
  BY <1>1 DEF Restart
<1>3. Content(f)' = Content(f) /\ TextOf(f)' = TextOf(f) /\ words'[f] = Content(f)'
  <2>1. words'[f] = Content(f)
    BY <1>a, <1>b, ContentIsContent, BuildIndexes
  <2> QED  BY <1>2, <2>1 DEF Content, TextOf, Clip
<1>4. PlainChanges(f)' /\ \A r \in Requests : OnFile(r, f)' <=> OnFile(r, f)
  BY <1>2, SameRequests DEF InOrder
<1>5. \A r \in Requests : OnFile(r, f) => (Unsettled(r)' <=> Unsettled(r))
  BY <1>2 DEF Unsettled, Mutating
<1>6. OneChange(f)'
  BY <1>4, <1>5 DEF InOrder, OneChange
<1>7. ASSUME NEW r \in Requests, OnFile(r, f), Unsettled(r) PROVE Doing(r, f)'
  <2>1. pc[r] \in {"idle", "done", "dead"}
    BY <1>1, <1>7 DEF Unanswered
  <2>2. pc'[r] \in {"idle", "done", "dead"} /\ call'[r] = call[r]
    BY <1>2, <1>7, <2>1
  <2>3. call[r] = "sent" => Written(r, f)'
    BY <1>2, <1>3, <1>7 DEF Doing, InOrder, Written, Body
  <2> QED  BY <1>3, <2>2, <2>3 DEF Doing, IndexSteps
<1>8. Settled(f)' => Agree(f)'
  <2>1. Settled(f)' => Settled(f)
    BY <1>4, <1>5 DEF Settled
  <2> QED  BY <1>2, <1>3, <2>1 DEF InOrder, Agree
<1> QED  BY <1>4, <1>5, <1>6, <1>7, <1>8 DEF InOrder

(* The order is kept, for any number of requests, files and faults.        *)
THEOREM OrderIsKept == Spec => []OrderInv
<1>1. Init => OrderInv
  <2> SUFFICES ASSUME Init PROVE OrderInv
    OBVIOUS
  <2>1. CallsFitSteps
    BY DEF Init, CallsFitSteps
  <2>2. \A r \in Requests : ~Mutating(r)
    BY DEF Init, Mutating
  <2>3. ASSUME NEW f \in Files, orderly[f] PROVE Agree(f)
    <3>1. PICK text \in BuildReadings :
            /\ words = Indexed(text)
            /\ orderly = [g \in Files |-> g \notin Partial(text)]
      BY DEF Init
    <3>2. f \notin Partial(text) /\ f \in Paths
      BY <2>3, <3>1, LiveIndexAssumption, Zenon
    <3>3. words[f] = Content(f)
      BY <3>1, <3>2 DEF Indexed, Partial
    <3> QED  BY <3>2, <3>3, LiveIndexAssumption DEF Init, Agree, TextOf
  <2>4. ASSUME NEW f \in Files, orderly[f] PROVE InOrder(f)
    BY <2>2, <2>3, <2>4 DEF InOrder, PlainChanges, OneChange, Settled, OnFile
  <2> QED  BY <2>1, <2>4 DEF OrderInv
<1>2. TypeOK /\ LockDiscipline /\ WordsInv /\ OrderInv /\ [Next]_vars => OrderInv'
  <2> SUFFICES ASSUME TypeOK, WordsInv, OrderInv, [Next]_vars PROVE OrderInv'
    OBVIOUS
  <2>0. StepsFitRequests /\ InodesApart /\ ErasedBeforeIndexed /\ CallsFitSteps
    BY DEF WordsInv, OrderInv
  <2> SUFFICES ASSUME NEW f \in Files, orderly'[f] PROVE InOrder(f)'
    BY <2>0, CallsStayFit DEF OrderInv
  <2>1. InOrder(f)
    BY StillOrderly DEF OrderInv
  <2>2. CASE UNCHANGED vars
    <3>1. Same(f) /\ req' = req
      BY <2>2 DEF vars, Same, Content
    <3>2. \A r \in Requests : Unsettled(r)' <=> Unsettled(r)
      BY <2>2 DEF vars, Unsettled, Mutating
    <3>3. \A r \in Requests : Doing(r, f)' <=> Doing(r, f)
      BY <2>2, <3>1, SameAgrees DEF vars, Doing, Same
    <3> QED  BY <2>1, <3>1, <3>2, <3>3, OrderFrame
  <2>3. ASSUME NEW s \in Requests, Receive(s) PROVE InOrder(f)'
    BY <2>0, <2>1, <2>3, ReceiveInOrder
  <2>4. ASSUME NEW s \in Requests, Handle(s) \/ Apply(s) \/ Lose(s), OnFile(s, f)
        PROVE  InOrder(f)'
    BY <2>0, <2>1, <2>4, OwnStepsInOrder
  <2>5. ASSUME NEW s \in Requests, Handle(s) \/ Apply(s) \/ Lose(s), ~OnFile(s, f)
        PROVE  InOrder(f)'
    <3>1. Same(f)
      BY <2>0, <2>1, <2>5, OtherFilesStay DEF InOrder
    <3>2. /\ req' = req
          /\ \A r \in Requests \ {s} :
               pc'[r] = pc[r] /\ call'[r] = call[r] /\ handle'[r] = handle[r]
      BY <2>5, OthersStay
    <3>3. ASSUME NEW r \in Requests, OnFile(r, f)
          PROVE  /\ Unsettled(r)' <=> Unsettled(r)
                 /\ Unsettled(r) /\ Doing(r, f) => Doing(r, f)'
      <4>1. /\ req'[r] = req[r] /\ pc'[r] = pc[r] /\ call'[r] = call[r]
            /\ handle'[r] = handle[r]
        BY <2>5, <3>2, <3>3
      <4>2. (Agree(f)' <=> Agree(f)) /\ (Written(r, f)' <=> Written(r, f))
        BY <3>1, <4>1, SameAgrees
      <4>3. Unsettled(r)' <=> Unsettled(r)
        BY <4>1 DEF Unsettled, Mutating
      <4>4. Doing(r, f) => Doing(r, f)'
        BY <3>1, <4>1, <4>2 DEF Doing, Same
      <4> QED  BY <4>3, <4>4
    <3> QED  BY <2>1, <3>1, <3>2, <3>3, OrderFrame
  <2>6. CASE Restart
    BY <2>1, <2>6, RestartInOrder
  <2> QED  BY <2>2, <2>3, <2>4, <2>5, <2>6 DEF Next
<1> QED
  BY <1>1, <1>2, TypeCorrect, MutexIsExclusive, WordsInvariant, PTL DEF Spec

(* Updates of a file that do not overlap, that name it as Build and the    *)
(* service do, and whose calls arrive leave the file, the word index and   *)
(* the vector index in agreement when the last one has settled.            *)
THEOREM OrderlyUpdatesEndInAgreement == Spec => []OrderlyUpdatesAgree
<1>1. OrderInv => OrderlyUpdatesAgree
  BY DEF OrderInv, InOrder, OrderlyUpdatesAgree, Agree, TextOf
<1> QED  BY <1>1, OrderIsKept, PTL

(* The check that StaticPut makes before it opens the file still holds     *)
(* when it does, unless another change of the file overlaps: a POST        *)
(* creates the file it answers 201 for.                                    *)
THEOREM PostsReplaceNothing == Spec => OrderlyPostNeverReplaces
<1>1. TypeOK /\ WordsInv /\ OrderInv
        => \A r \in Requests :
             pc[r] = "open" /\ req[r].op = "POST" /\ orderly[File(r)]
                => entry[File(r)] = NoFile
  <2> SUFFICES ASSUME TypeOK, WordsInv, OrderInv, NEW r \in Requests, pc[r] = "open",
                      req[r].op = "POST", orderly[File(r)]
               PROVE  entry[File(r)] = NoFile
    OBVIOUS
  <2>1. File(r) \in Files /\ OnFile(r, File(r)) /\ Unsettled(r)
    BY InputParts DEF TypeOK, OnFile, Mutating, File, Mutations, Uploads, Unsettled
  <2> QED  BY <2>1 DEF OrderInv, InOrder, Doing
<1>2. TypeOK /\ WordsInv /\ OrderInv /\ [Next]_vars
        => [\A r \in Requests :
             pc[r] = "open" /\ pc'[r] = "write" /\ req[r].op = "POST" =>
                (orderly[File(r)] => entry[File(r)] = NoFile)]_vars
  BY <1>1
<1> QED
  BY <1>2, TypeCorrect, WordsInvariant, OrderIsKept, PTL
  DEF Spec, OrderlyPostNeverReplaces
=============================================================================
