----------------------------- MODULE LiveIndex ------------------------------
(***************************************************************************)
(* One request that changes a file changes three stores: the file system,  *)
(* the search server's word index (m_count, under a shared_mutex) and, by  *)
(* a call over a socket, the embedding service's vector index.             *)
(* HandleStaticMutation and /api/search in HttpServer.cpp, StaticPut and   *)
(* StaticDelete in StaticFile.cpp, Build, AddFile and RemoveFile in        *)
(* InvertedIndex.cpp, AddDoc, RemoveDoc and Search in VectorClient.cpp.    *)
(***************************************************************************)
EXTENDS Naturals, Sequences, FiniteSets

CONSTANTS
    Requests,       \* the HTTP requests of one execution, each on a worker
    Paths,          \* the path strings a request may name
    Files,          \* the strings Build finds: one for each file
    FileOf,         \* the file that each path string resolves to
    UrlDecoded,     \* the id the service reads from DELETE /index/<path>
    Outside,        \* the paths that CheckWithinRoot refuses
    Sizes,          \* the sizes of uploaded bodies, in blocks
    TextLimit,      \* k_text_limit, in blocks
    Faults,         \* what may go wrong around the server, of the three below
    Nobody, NoFile, NoDoc, NoRequest

(* "embed": the service refuses, loses or is too slow for a call; "disk":  *)
(* a filesystem call fails or writes short; "kill": the search server is   *)
(* stopped and started again.                                              *)
ASSUME LiveIndexAssumption ==
    /\ Files \subseteq Paths
    /\ FileOf \in [Paths -> Files] /\ \A f \in Files : FileOf[f] = f
    /\ UrlDecoded \in [Paths -> Paths]
    /\ Outside \subseteq Paths
    /\ Sizes \subseteq Nat
    /\ TextLimit \in Nat
    /\ Faults \subseteq {"embed", "disk", "kill"}
    /\ Requests \cap Files = {}
    /\ Nobody \notin Requests
    /\ NoFile \notin Requests \cup Files
    /\ NoDoc \notin Seq(Requests \cup Files)

VARIABLES
    entry,      \* the directory: each file's inode, or NoFile
    data,       \* each inode's content, a sequence of blocks
    words,      \* m_count by path: the content its counts come from
    misread,    \* history: files that were last read in part, or not at all
    vec,        \* the service's text for each document id, or NoDoc
    writer,     \* index_mtx: the request that holds it exclusively
    readers,    \* index_mtx: the requests that share it
    pc, req,    \* each worker's step and request
    handle,     \* the inode an upload's ofstream has open
    status,     \* the response's status
    call,       \* each request's call of the embedding service
    orderly     \* history: nothing has disturbed this file's updates

vars == <<entry, data, words, misread, vec, writer, readers, pc, req, handle,
          status, call, orderly>>
fs == <<entry, data, handle>>
index == <<words, misread>>
locks == <<writer, readers>>

Inodes == Requests \cup Files
Contents == Seq(Inodes)     \* a block is named by the request it came from
Uploads == {"PUT", "POST"}
Mutations == Uploads \cup {"DELETE"}
Inputs ==
    [op : Uploads, path : Paths, size : Sizes]
        \cup [op : {"DELETE"}, path : Paths, size : {0}]
        \cup [op : {"SEARCH"}, path : Files, size : {0}]
ASSUME RequestAssumption == NoRequest \notin Inputs

PutSteps == {"open", "write"}
IndexSteps == {"lock", "erase", "index"}
EmbedSteps == {"call", "await"}

File(r) == FileOf[req[r].path]
Body(r) == [i \in 1 .. req[r].size |-> r]
Content(f) == IF entry[f] = NoFile THEN <<>> ELSE data[entry[f]]
Clip(text) == IF Len(text) > TextLimit THEN SubSeq(text, 1, TextLimit) ELSE text
Mutating(r) == req[r] # NoRequest /\ req[r].op \in Mutations
Unsettled(r) == Mutating(r) /\ (pc[r] \notin {"reply", "done", "dead"} \/ call[r] = "sent")
Disturb(F) == orderly' = [f \in Files |-> orderly[f] /\ f \notin F]

(* AddFile and Build read a file to where the stream first fails, which    *)
(* may be its opening, and tell nobody.                                    *)
Readings(f) ==
    {Content(f)} \cup
        IF "disk" \in Faults
        THEN {SubSeq(Content(f), 1, n) : n \in 0 .. Len(Content(f))} ELSE {}
BuildReadings ==
    {text \in [Files -> UNION {Readings(f) : f \in Files}] :
        \A f \in Files : text[f] \in Readings(f)}
Indexed(text) == [p \in Paths |-> IF p \in Files THEN text[p] ELSE <<>>]
Partial(text) == {f \in Files : text[f] # Content(f)}

-----------------------------------------------------------------------------
(* The server has built its index from the files, the service its own.     *)
Init ==
    /\ entry \in {e \in [Files -> Inodes \cup {NoFile}] :
                    \A f \in Files : e[f] \in {f, NoFile}}
    /\ data = [i \in Inodes |-> IF i \in Files THEN <<i>> ELSE <<>>]
    /\ \E text \in BuildReadings :
        /\ words = Indexed(text)
        /\ misread = Partial(text)
        /\ orderly = [f \in Files |-> f \notin Partial(text)]
    /\ vec = [p \in Paths |->
                IF p \in Files /\ entry[FileOf[p]] # NoFile
                THEN Clip(Content(p)) ELSE NoDoc]
    /\ writer = Nobody
    /\ readers = {}
    /\ pc = [r \in Requests |-> "idle"]
    /\ req = [r \in Requests |-> NoRequest]
    /\ handle = [r \in Requests |-> NoFile]
    /\ status = [r \in Requests |-> 0]
    /\ call = [r \in Requests |-> "none"]

Answer(r, code) ==
    /\ status' = [status EXCEPT ![r] = code]
    /\ pc' = [pc EXCEPT ![r] = "reply"]

-----------------------------------------------------------------------------
(* Faulty variants of the steps below, one plausible slip each: the runs   *)
(* are shown to notice every one of them.                                  *)

CheckPut_NotOnlySuccess(r) ==   \* AddFile and AddDoc after a 409 as well
    /\ pc[r] = "check"
    /\ req[r].op \in Uploads /\ req[r].path \notin Outside
    /\ LET exists == entry[File(r)] # NoFile IN
        IF exists /\ req[r].op = "POST"
        THEN /\ status' = [status EXCEPT ![r] = 409]
             /\ pc' = [pc EXCEPT ![r] = "lock"]
        ELSE /\ status' = [status EXCEPT ![r] = IF exists THEN 200 ELSE 201]
             /\ pc' = [pc EXCEPT ![r] = "open"]
    /\ UNCHANGED <<fs, index, vec, locks, req, call, orderly>>

CheckPut_NoConflict(r) ==       \* POST is treated as PUT
    /\ pc[r] = "check"
    /\ req[r].op \in Uploads /\ req[r].path \notin Outside
    /\ status' = [status EXCEPT ![r] = IF entry[File(r)] = NoFile THEN 201 ELSE 200]
    /\ pc' = [pc EXCEPT ![r] = "open"]
    /\ UNCHANGED <<fs, index, vec, locks, req, call, orderly>>

UnlinkFails_Errno(r) ==         \* errno goes out as the status
    /\ pc[r] = "unlink"
    /\ entry[File(r)] = NoFile \/ "disk" \in Faults
    /\ Answer(r, 2)
    /\ UNCHANGED <<fs, index, vec, locks, req, call, orderly>>

Lock_IgnoresReaders(r) ==       \* searches and updates use two mutexes
    /\ pc[r] = "lock"
    /\ writer = Nobody
    /\ writer' = r
    /\ pc' = [pc EXCEPT ![r] = "erase"]
    /\ UNCHANGED <<fs, index, vec, readers, req, status, call, orderly>>

Index_FromBody(r) ==            \* AddFile indexes the body it was given
    /\ pc[r] = "index"
    /\ words' = [words EXCEPT ![req[r].path] = @ \o Body(r)]
    /\ writer' = Nobody
    /\ pc' = [pc EXCEPT ![r] = "call"]
    /\ UNCHANGED <<fs, misread, vec, readers, req, status, call, orderly>>

Apply_WholeText(r) ==           \* the text is not cut to TextLimit
    /\ call[r] = "sent"
    /\ call' = [call EXCEPT ![r] = "applied"]
    /\ LET p == req[r].path IN
        vec' = CASE req[r].op \in Uploads -> [vec EXCEPT ![p] = Body(r)]
                 [] req[r].op = "DELETE" -> [vec EXCEPT ![UrlDecoded[p]] = NoDoc]
                 [] OTHER -> vec
    /\ UNCHANGED <<fs, index, locks, pc, req, status, orderly>>

TimeOut_Never(r) == FALSE /\ UNCHANGED vars  \* no SO_RCVTIMEO on the socket

-----------------------------------------------------------------------------
(* A request reaches its handler.  History: updates of one file overlap,   *)
(* or a path is not the name the stores use for the file.                  *)
Receive(r) ==
    /\ pc[r] = "idle"
    /\ \E q \in Inputs :
        /\ req' = [req EXCEPT ![r] = q]
        /\ pc' = [pc EXCEPT ![r] =
                    IF q.op = "SEARCH" THEN "rlock" ELSE "check"]
        /\ LET f == FileOf[q.path]
               overlaps == \E s \in Requests : Unsettled(s) /\ File(s) = f
               misnamed == f # q.path \/ UrlDecoded[q.path] # q.path
           IN  Disturb(IF q.op \in Mutations /\ (overlaps \/ misnamed)
                       THEN {f, FileOf[UrlDecoded[q.path]]} ELSE {})
    /\ UNCHANGED <<fs, index, vec, locks, status, call>>

(* CheckWithinRoot, and the filesystem errors that StaticPut and           *)
(* StaticDelete turn into a 500.                                           *)
Refuse(r) ==
    /\ pc[r] = "check"
    /\ \/ req[r].path \in Outside /\ Answer(r, 403)
       \/ "disk" \in Faults /\ Answer(r, 500)
    /\ UNCHANGED <<fs, index, vec, locks, req, call, orderly>>

(* StaticPut looks for the file once, before it opens it.                  *)
CheckPut(r) ==
    /\ pc[r] = "check"
    /\ req[r].op \in Uploads /\ req[r].path \notin Outside
    /\ LET exists == entry[File(r)] # NoFile IN
        IF exists /\ req[r].op = "POST"
        THEN Answer(r, 409)
        ELSE /\ status' = [status EXCEPT ![r] = IF exists THEN 200 ELSE 201]
             /\ pc' = [pc EXCEPT ![r] = "open"]
    /\ UNCHANGED <<fs, index, vec, locks, req, call, orderly>>

(* WriteFile: the ofstream opens and truncates, or creates, the file.      *)
OpenTruncate(r) ==
    /\ pc[r] = "open"
    /\ LET f == File(r)
           i == IF entry[f] = NoFile THEN r ELSE entry[f] IN
        /\ entry' = [entry EXCEPT ![f] = i]
        /\ data' = [data EXCEPT ![i] = <<>>]
        /\ handle' = [handle EXCEPT ![r] = i]
    /\ pc' = [pc EXCEPT ![r] = "write"]
    /\ UNCHANGED <<index, vec, locks, req, status, call, orderly>>

OpenFails(r) ==
    /\ "disk" \in Faults
    /\ pc[r] = "open"
    /\ Answer(r, 500)
    /\ UNCHANGED <<fs, index, vec, locks, req, call, orderly>>

Overlay(old, new) == new \o SubSeq(old, Len(new) + 1, Len(old))

(* The bytes go to the open inode from offset 0, over whatever another     *)
(* upload has written meanwhile.  A full disk takes a prefix of them, and  *)
(* nothing looks at the stream's state.                                    *)
Write(r) ==
    /\ pc[r] = "write"
    /\ \E n \in 0 .. req[r].size :
        /\ data' = [data EXCEPT ![handle[r]] =
                      Overlay(@, SubSeq(Body(r), 1, n))]
        /\ n < req[r].size => "disk" \in Faults
        /\ Disturb(IF n < req[r].size THEN {File(r)} ELSE {})
    /\ handle' = [handle EXCEPT ![r] = NoFile]
    /\ pc' = [pc EXCEPT ![r] = "lock"]
    /\ UNCHANGED <<entry, index, vec, locks, req, status, call>>

CheckDelete(r) ==
    /\ pc[r] = "check"
    /\ req[r].op = "DELETE" /\ req[r].path \notin Outside
    /\ IF entry[File(r)] = NoFile
       THEN Answer(r, 404)
       ELSE pc' = [pc EXCEPT ![r] = "unlink"] /\ UNCHANGED status
    /\ UNCHANGED <<fs, index, vec, locks, req, call, orderly>>

Unlink(r) ==
    /\ pc[r] = "unlink"
    /\ entry[File(r)] # NoFile
    /\ entry' = [entry EXCEPT ![File(r)] = NoFile]
    /\ status' = [status EXCEPT ![r] = 204]
    /\ pc' = [pc EXCEPT ![r] = "lock"]
    /\ UNCHANGED <<data, handle, index, vec, locks, req, call, orderly>>

(* remove finds no file any more, or reports an error.                     *)
UnlinkFails(r) ==
    /\ pc[r] = "unlink"
    /\ entry[File(r)] = NoFile \/ "disk" \in Faults
    /\ Answer(r, 500)
    /\ UNCHANGED <<fs, index, vec, locks, req, call, orderly>>

-----------------------------------------------------------------------------
(* A 2xx answer is followed by AddFile or RemoveFile of the path under the *)
(* exclusive lock.  Both begin by erasing the path's entries.              *)
Lock(r) ==
    /\ pc[r] = "lock"
    /\ writer = Nobody /\ readers = {}
    /\ writer' = r
    /\ pc' = [pc EXCEPT ![r] = "erase"]
    /\ UNCHANGED <<fs, index, vec, readers, req, status, call, orderly>>

Erase(r) ==
    /\ pc[r] = "erase"
    /\ words' = [words EXCEPT ![req[r].path] = <<>>]
    /\ IF req[r].op = "DELETE"
       THEN writer' = Nobody /\ pc' = [pc EXCEPT ![r] = "call"]
       ELSE pc' = [pc EXCEPT ![r] = "index"] /\ UNCHANGED writer
    /\ UNCHANGED <<fs, misread, vec, readers, req, status, call, orderly>>

(* AddFile counts the words of the file as it is now, not of the body, as  *)
(* far as it can read them; a file that is gone adds none.                 *)
Index(r) ==
    /\ pc[r] = "index"
    /\ \E text \in Readings(File(r)) :
        LET failed == IF text = Content(File(r)) THEN {} ELSE {File(r)} IN
        /\ words' = [words EXCEPT ![req[r].path] = @ \o text]
        /\ misread' = (misread \ {File(r)}) \cup failed
        /\ Disturb(failed)
    /\ writer' = Nobody
    /\ pc' = [pc EXCEPT ![r] = "call"]
    /\ UNCHANGED <<fs, vec, readers, req, status, call>>

(* /api/search runs SearchAndRank under the shared lock.                   *)
LockShared(r) ==
    /\ pc[r] = "rlock"
    /\ writer = Nobody
    /\ readers' = readers \cup {r}
    /\ pc' = [pc EXCEPT ![r] = "scan"]
    /\ UNCHANGED <<fs, index, vec, writer, req, status, call, orderly>>

UnlockShared(r) ==
    /\ pc[r] = "scan"
    /\ readers' = readers \ {r}
    /\ status' = [status EXCEPT ![r] = 200]
    /\ pc' = [pc EXCEPT ![r] = "call"]
    /\ UNCHANGED <<fs, index, vec, writer, req, call, orderly>>

-----------------------------------------------------------------------------
(* AddDoc, RemoveDoc and Search call the embedding service and drop every  *)
(* error; only the wait for the answer is bounded (SO_RCVTIMEO).           *)
Connect(r) ==
    /\ pc[r] = "call"
    /\ call' = [call EXCEPT ![r] = "sent"]
    /\ pc' = [pc EXCEPT ![r] = "await"]
    /\ UNCHANGED <<fs, index, vec, locks, req, status, orderly>>

Missed(r) == IF req[r].op \in Mutations THEN {File(r)} ELSE {}

ConnectFails(r) ==
    /\ "embed" \in Faults
    /\ pc[r] = "call"
    /\ pc' = [pc EXCEPT ![r] = "reply"]
    /\ Disturb(Missed(r))
    /\ UNCHANGED <<fs, index, vec, locks, req, status, call>>

Hear(r) ==
    /\ pc[r] = "await" /\ call[r] \in {"applied", "lost"}
    /\ pc' = [pc EXCEPT ![r] = "reply"]
    /\ UNCHANGED <<fs, index, vec, locks, req, status, call, orderly>>

TimeOut(r) ==
    /\ "embed" \in Faults
    /\ pc[r] = "await" /\ call[r] = "sent"
    /\ pc' = [pc EXCEPT ![r] = "reply"]
    /\ UNCHANGED <<fs, index, vec, locks, req, status, call, orderly>>

(* The response goes to the client.                                        *)
Reply(r) ==
    /\ pc[r] = "reply"
    /\ pc' = [pc EXCEPT ![r] = "done"]
    /\ UNCHANGED <<fs, index, vec, locks, req, status, call, orderly>>

(* The service carries out a call when it gets to it, whether or not the   *)
(* caller still waits: add_doc replaces the text of the id in the JSON     *)
(* body, remove_doc drops the id it decodes from the URL.                  *)
Apply(r) ==
    /\ call[r] = "sent"
    /\ call' = [call EXCEPT ![r] = "applied"]
    /\ LET p == req[r].path IN
        vec' = CASE req[r].op \in Uploads -> [vec EXCEPT ![p] = Clip(Body(r))]
                 [] req[r].op = "DELETE" -> [vec EXCEPT ![UrlDecoded[p]] = NoDoc]
                 [] OTHER -> vec
    /\ UNCHANGED <<fs, index, locks, pc, req, status, orderly>>

(* The service stops before it has carried out a call.                     *)
Lose(r) ==
    /\ "embed" \in Faults
    /\ call[r] = "sent"
    /\ call' = [call EXCEPT ![r] = "lost"]
    /\ Disturb(Missed(r))
    /\ UNCHANGED <<fs, index, vec, locks, pc, req, status>>

-----------------------------------------------------------------------------
Unanswered == {r \in Requests : pc[r] \notin {"idle", "done", "dead"}}

(* The search server is killed and started again: its requests are gone,   *)
(* the new process has a new mutex, and Build reads the files.             *)
Restart ==
    /\ "kill" \in Faults
    /\ pc' = [r \in Requests |-> IF r \in Unanswered THEN "dead" ELSE pc[r]]
    /\ writer' = Nobody
    /\ readers' = {}
    /\ \E text \in BuildReadings :
        /\ words' = Indexed(text)
        /\ misread' = Partial(text)
        /\ Disturb(Partial(text)
                    \cup {File(r) : r \in {s \in Unanswered : Mutating(s)}})
    /\ handle' = [r \in Requests |-> NoFile]
    /\ UNCHANGED <<entry, data, vec, req, status, call>>

Handle(r) ==
    \/ Refuse(r) \/ CheckPut(r) \/ OpenTruncate(r) \/ OpenFails(r) \/ Write(r)
    \/ CheckDelete(r) \/ Unlink(r) \/ UnlinkFails(r)
    \/ Lock(r) \/ Erase(r) \/ Index(r) \/ LockShared(r) \/ UnlockShared(r)
    \/ Connect(r) \/ ConnectFails(r) \/ Hear(r) \/ TimeOut(r) \/ Reply(r)

Next ==
    \/ \E r \in Requests : Receive(r) \/ Handle(r) \/ Apply(r) \/ Lose(r)
    \/ Restart

Spec == Init /\ [][Next]_vars

(* Every worker that can go on does.  Nothing makes a client send a        *)
(* request, and nothing makes the embedding service answer one.            *)
FairSpec == Spec /\ \A r \in Requests : WF_vars(Handle(r))

-----------------------------------------------------------------------------
Steps == {"idle", "check", "unlink", "rlock", "scan", "reply", "done", "dead"}
            \cup PutSteps \cup IndexSteps \cup EmbedSteps

TypeOK ==
    /\ entry \in [Files -> Inodes \cup {NoFile}]
    /\ data \in [Inodes -> Contents]
    /\ words \in [Paths -> Contents]
    /\ misread \subseteq Files
    /\ vec \in [Paths -> Contents \cup {NoDoc}]
    /\ writer \in Requests \cup {Nobody}
    /\ readers \subseteq Requests
    /\ pc \in [Requests -> Steps]
    /\ req \in [Requests -> Inputs \cup {NoRequest}]
    /\ \A r \in Requests :
        pc[r] # "idle" \/ call[r] # "none" => req[r] \in Inputs
    /\ handle \in [Requests -> Inodes \cup {NoFile}]
    /\ status \in [Requests -> {0, 200, 201, 204, 403, 404, 409, 500}]
    /\ call \in [Requests -> {"none", "sent", "applied", "lost"}]
    /\ orderly \in [Files -> BOOLEAN]

(* index_mtx: a request that changes the index is alone with it, and none  *)
(* keeps it while it waits for the embedding service or a client.          *)
LockDiscipline ==
    /\ \A r \in Requests : writer = r <=> pc[r] \in {"erase", "index"}
    /\ \A r \in Requests : r \in readers <=> pc[r] = "scan"
    /\ writer # Nobody => readers = {}

OnFile(r, f) == Mutating(r) /\ File(r) = f
Deleting(f) == \E r \in Requests : OnFile(r, f) /\ req[r].op = "DELETE"
Changing(f) ==
    \E r \in Requests : OnFile(r, f) /\ pc[r] \in {"write"} \cup IndexSteps

(* Every change request of f has named it as Build does.                   *)
PlainlyNamed(f) ==
    \A r \in Requests : OnFile(r, f) => req[r].path = f

(* Between two changes of a file the word index holds what is in it, in    *)
(* whatever order the changes interleaved, failed or were cut off by a     *)
(* restart: AddFile reads the file again after every write.  There are two *)
(* exceptions, neither of which leaves stale words.  A RemoveFile that     *)
(* comes after the AddFile of a newer upload leaves that file without      *)
(* entries; and a file that AddFile or Build could not open, or not read   *)
(* to its end, has the words of the part that was read.                    *)
NoStaleWords ==
    \A f \in Files :
        PlainlyNamed(f) /\ ~Changing(f) =>
            \/ words[f] = Content(f)
            \/ words[f] = <<>> /\ Deleting(f)
            \/ f \in misread /\ words[f] \in Readings(f)

Settled(f) == \A r \in Requests : OnFile(r, f) => ~Unsettled(r)

(* README.md:109 holds for updates that do not overlap, whose file name    *)
(* survives URL decoding, whose calls reach the service, and whose file    *)
(* was written and read without an error: when the last one has settled,   *)
(* file, word index and vector index agree.  A slow service is allowed:    *)
(* the caller may have given up waiting.                                   *)
OrderlyUpdatesAgree ==
    \A f \in Files :
        orderly[f] /\ Settled(f) =>
            /\ words[f] = Content(f)
            /\ vec[f] = IF entry[f] = NoFile THEN NoDoc ELSE Clip(Content(f))

(* StaticFile.hpp:18: the guard "triggers 409 if file exists and overwrite *)
(* == False".  It does if nothing else changes the file meanwhile: a POST  *)
(* then never opens a file that is there.  (Two POSTs at once may both     *)
(* pass the guard; both answer 201.)                                       *)
OrderlyPostNeverReplaces ==
    [][\A r \in Requests :
        pc[r] = "open" /\ pc'[r] = "write" /\ req[r].op = "POST" =>
            (orderly[File(r)] => entry[File(r)] = NoFile)]_vars

(* SearchAndRank sees one index: nothing changes it while a search that    *)
(* holds the shared lock goes through it.                                  *)
SearchSeesOneIndex == [][readers \cap readers' # {} => words' = words]_vars

(* VectorClient.hpp:9: "silently ignores errors when the service is        *)
(* unreachable".  Every request is answered, even if the service never     *)
(* answers anything, unless the server itself is stopped.                  *)
EveryRequestAnswered ==
    \A r \in Requests : pc[r] \in {"check", "rlock"} ~> pc[r] \in {"done", "dead"}

(* README.md:109: a request updates "both the BM25 inverted index and the  *)
(* FAISS vector index atomically".  If so the two hold the same documents, *)
(* with the same text, whenever no request is in progress.                 *)
IndexesUpdatedAtomically ==
    (\A r \in Requests : ~Unsettled(r)) =>
        \A f \in Files :
            IF words[f] = <<>> THEN vec[f] = NoDoc ELSE vec[f] = Clip(words[f])

(* StaticFile.hpp:13: StaticPut "creates or replaces a file under          *)
(* files_root with the given data": the data of one request, or the file   *)
(* that was there.                                                         *)
FileIsOneUpload ==
    \A f \in Files :
        Settled(f) /\ entry[f] # NoFile =>
            Content(f) \in {<<f>>} \cup {Body(r) : r \in {s \in Requests : OnFile(s, f)}}

(* VectorStore's view: the service's texts, and the calls on their way.    *)
Stored == {<<p, vec[p]>> : p \in {q \in Paths : vec[q] # NoDoc}}
Asked == [r \in Requests |->
    IF call[r] = "none" THEN [op |-> "none"]
    ELSE IF call[r] = "sent" /\ req[r].op \in Uploads
         THEN [op |-> "add", id |-> req[r].path, text |-> Clip(Body(r))]
    ELSE IF call[r] = "sent" /\ req[r].op = "DELETE"
         THEN [op |-> "remove", id |-> UrlDecoded[req[r].path]]
    ELSE [op |-> "over"]]

Service == INSTANCE VectorStore
    WITH Calls <- Requests, Walks <- {}, Ids <- Paths,
         Texts <- {t \in Contents : Len(t) <= TextLimit},
         store <- Stored, call <- Asked, walks <- {}, serving <- TRUE

(* What the callers see of the embedding service, late, lost or in another *)
(* order than they asked for it, is a VectorStore: AddDoc and RemoveDoc    *)
(* change one id each, in one step, and at most once.  EmbedService shows  *)
(* that the service is one.                                                *)
UsesVectorStore == Service!Spec
=============================================================================
