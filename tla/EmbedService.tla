---------------------------- MODULE EmbedService ----------------------------
(***************************************************************************)
(* embed_service/main.py: an in-memory vector index with its list of       *)
(* document ids, changed by requests and replaced by background rebuild    *)
(* threads that walk the files, saved to two cache files and loaded from   *)
(* them when the service starts.  The files belong to the search server,   *)
(* which changes a file and then calls the service.                        *)
(*                                                                         *)
(* A text is a pair <<document, version>> and stands for its embedding, so *)
(* that one can tell which document a vector was computed from.            *)
(***************************************************************************)
EXTENDS Naturals, Sequences, FiniteSets, Functions

CONSTANTS
    Docs,           \* the files' paths, which are the documents' ids
    Home,           \* those under SEARCH_ROOT
    Roots,          \* the directories that a rebuild may walk, as their files
    Requests,       \* the HTTP requests of one execution
    Rebuilds,       \* the background threads
    MaxStarts,      \* how often the service is started
    NoText, Torn    \* a file that is absent, or only partly written

ASSUME EmbedAssumption ==
    /\ Docs \cap Requests = {}
    /\ Home \subseteq Docs
    /\ Roots \subseteq SUBSET Docs
    /\ MaxStarts \in Nat
    /\ \A d \in Docs, v \in Docs \cup Requests : <<d, v>> \notin {NoText, Torn}

VARIABLES
    file,           \* each document's text on disk, or NoText
    ids, vecs,      \* _ids; _vecs, whose rows are also those of _index
    bin, json,      \* embed_index.bin and embed_ids.json
    up, starts,     \* the service runs; how often it was started
    rpc, req,       \* each request's step, and what it asks for
    hit, out,       \* a query's nearest neighbour, and what it is reported as
    bpc, todo,      \* each rebuild's step, and the files it may yet read
    work,           \* what it has read, then what it is writing
    calm, orderly,  \* history, see Settle, ChangeFile, ListFiles and Swap
    clean           \* history: the rebuilds that no change has overlapped

mem == <<ids, vecs>>
disk == <<bin, json>>
life == <<up, starts>>
asked == <<rpc, req, hit, out>>
threads == <<bpc, todo, work, clean>>
vars == <<file, mem, disk, life, asked, threads, calm, orderly>>

Texts == Docs \X (Docs \cup Requests)
Labels(texts) == [i \in DOMAIN texts |-> texts[i][1]]
NoHit == [at |-> 0, text |-> NoText, name |-> NoText]

Changing(d) == \E r \in Requests : rpc[r] \in {"add", "remove"} /\ req[r] = d
Walking == \E b \in Rebuilds : bpc[b] \in {"list", "read"}
(* A save that has taken the vectors but not yet the ids.                  *)
Saving == \E b \in Rebuilds : bpc[b] \in {"bin", "ids", "json"}

-----------------------------------------------------------------------------
(* The bodies of the `with _lock` blocks are one step each.  They assign   *)
(* _ids before _index, but whoever looks without the lock looks at _index  *)
(* first and _ids later, and cannot tell.                                  *)
Settle == calm' = (calm /\ ~Saving)

(* A rebuild repairs what went wrong before it, if nothing does with it.   *)
Repair(b) ==
    /\ orderly' = (orderly \/ \A c \in Rebuilds : c = b \/ bpc[c] = "read" => c \in clean)
    /\ clean' = clean \ {b}

(* The positions of the ids other than d, in order.                        *)
Others(s, d) ==
    LET kept[n \in 0 .. Len(s)] ==
            IF n = 0 THEN <<>>
            ELSE IF s[n] # d THEN Append(kept[n - 1], n) ELSE kept[n - 1]
    IN  kept[Len(s)]

Pick(s, positions) == [i \in DOMAIN positions |-> s[positions[i]]]

(* The end of a query: names is what it is reported as, if anything.       *)
Report(r, names) ==
    /\ out' = [out EXCEPT ![r] = names]
    /\ hit' = [hit EXCEPT ![r] = NoHit]
    /\ rpc' = [rpc EXCEPT ![r] = "done"]
    /\ UNCHANGED <<file, mem, disk, life, req, threads, calm, orderly>>

(* Faulty variants of the steps below, one plausible slip each: the runs   *)
(* are shown to notice every one of them.                                  *)

AddDoc_Appends(r) ==        \* the old entry of the id stays
    /\ rpc[r] = "add"
    /\ ids' = Append(ids, req[r])
    /\ vecs' = Append(vecs, <<req[r], r>>)
    /\ rpc' = [rpc EXCEPT ![r] = "done"]
    /\ Settle
    /\ UNCHANGED <<file, disk, life, req, hit, out, threads, orderly>>

AddDoc_OnlyNew(r) ==        \* an id that is known keeps its old text
    /\ rpc[r] = "add"
    /\ IF req[r] \in Range(ids)
       THEN UNCHANGED mem
       ELSE /\ ids' = Append(ids, req[r])
            /\ vecs' = Append(vecs, <<req[r], r>>)
    /\ rpc' = [rpc EXCEPT ![r] = "done"]
    /\ Settle
    /\ UNCHANGED <<file, disk, life, req, hit, out, threads, orderly>>

Swap_Merges(b) ==           \* the old entries stay in front of the new
    /\ bpc[b] = "read" /\ todo[b] = {} /\ work[b] # <<>>
    /\ vecs' = vecs \o work[b]
    /\ ids' = ids \o Labels(work[b])
    /\ work' = [work EXCEPT ![b] = <<>>]
    /\ bpc' = [bpc EXCEPT ![b] = "save"]
    /\ Settle /\ Repair(b)
    /\ UNCHANGED <<file, disk, life, asked, todo>>

AskReply_Late(r) ==         \* no snapshot: the ids are looked up at the end
    /\ rpc[r] = "ask"
    /\ hit[r].at <= Len(ids)
    /\ Report(r, <<ids[hit[r].at]>>)

WriteIds_Wrong(b) ==        \* the other list is dumped
    /\ bpc[b] = "json"
    /\ json' = vecs
    /\ bpc' = [bpc EXCEPT ![b] = "idle"]
    /\ UNCHANGED <<file, mem, bin, life, asked, todo, work, clean,
                   calm, orderly>>

-----------------------------------------------------------------------------
Init ==
    /\ file \in {f \in [Docs -> Texts \cup {NoText}] :
                   \A d \in Docs :
                        f[d] = <<d, d>> \/ (d \in Home /\ f[d] = NoText)}
    /\ ids = <<>> /\ vecs = <<>>
    /\ bin = NoText /\ json = NoText
    /\ up = FALSE /\ starts = 0
    /\ rpc = [r \in Requests |-> "idle"]
    /\ req = [r \in Requests |-> NoText]
    /\ hit = [r \in Requests |-> NoHit]
    /\ out = [r \in Requests |-> <<>>]
    /\ bpc = [b \in Rebuilds |-> "idle"]
    /\ todo = [b \in Rebuilds |-> {}]
    /\ work = [b \in Rebuilds |-> <<>>]
    /\ calm = TRUE
    /\ orderly = TRUE /\ clean = {}

Spawn(b, root) ==
    /\ bpc[b] = "idle"
    /\ bpc' = [bpc EXCEPT ![b] = "list"]
    /\ todo' = [todo EXCEPT ![b] = root]

Readable(f) == f \notin {NoText, Torn}

(* lifespan: _try_load_index takes both cache files or neither, and        *)
(* compares nothing but their lengths; without them a rebuild is started.  *)
Start ==
    /\ ~up /\ starts < MaxStarts
    /\ up' = TRUE /\ starts' = starts + 1
    /\ IF Readable(bin) /\ Readable(json) /\ Len(bin) = Len(json)
       THEN /\ ids' = json /\ vecs' = bin
            /\ UNCHANGED <<bpc, todo>>
            /\ orderly' = FALSE
       ELSE /\ \E b \in Rebuilds : Spawn(b, Home)
            /\ UNCHANGED <<mem, orderly>>
    /\ UNCHANGED <<file, disk, asked, work, clean, calm>>

(* The process ends, whatever its threads were doing.                      *)
Crash ==
    /\ up
    /\ up' = FALSE
    /\ ids' = <<>> /\ vecs' = <<>>
    /\ rpc' = [r \in Requests |-> IF rpc[r] = "idle" THEN "idle" ELSE "done"]
    /\ bpc' = [b \in Rebuilds |-> "idle"]
    /\ todo' = [b \in Rebuilds |-> {}]
    /\ work' = [b \in Rebuilds |-> <<>>] /\ clean' = {}
    /\ calm' = (calm /\ \A b \in Rebuilds : bpc[b] # "ids")
    /\ orderly' = (orderly /\ ~\E d \in Docs : Changing(d))
    /\ hit' = [r \in Requests |-> NoHit]
    /\ UNCHANGED <<file, disk, starts, req, out>>

-----------------------------------------------------------------------------
(* The search server writes or deletes a file and calls the service, which *)
(* may be down.  The model identifies the two: a call that fails is done.  *)
ChangeFile(r, d, text, step) ==
    /\ rpc[r] = "idle"
    /\ file' = [file EXCEPT ![d] = text]
    /\ rpc' = [rpc EXCEPT ![r] = IF up THEN step ELSE "done"]
    /\ req' = [req EXCEPT ![r] = d]
    /\ orderly' = (orderly /\ up /\ ~Changing(d) /\ ~Walking)
    /\ clean' = {}
    /\ UNCHANGED <<mem, disk, life, hit, out, bpc, todo, work, calm>>

PutFile(r) == \E d \in Home : ChangeFile(r, d, <<d, r>>, "add")

DeleteFile(r) ==
    \E d \in Home : file[d] # NoText /\ ChangeFile(r, d, NoText, "remove")

(* add_doc: the embedding is computed before the lock is taken; the old    *)
(* entry of the id goes, the new one is the last.                          *)
AddDoc(r) ==
    /\ rpc[r] = "add"
    /\ LET keep == Others(ids, req[r]) IN
        /\ ids' = Append(Pick(ids, keep), req[r])
        /\ vecs' = Append(Pick(vecs, keep), <<req[r], r>>)
    /\ rpc' = [rpc EXCEPT ![r] = "done"]
    /\ Settle
    /\ UNCHANGED <<file, disk, life, req, hit, out, threads, orderly>>

RemoveDoc(r) ==
    /\ rpc[r] = "remove"
    /\ LET keep == Others(ids, req[r]) IN
        /\ ids' = Pick(ids, keep)
        /\ vecs' = Pick(vecs, keep)
    /\ rpc' = [rpc EXCEPT ![r] = "done"]
    /\ Settle
    /\ UNCHANGED <<file, disk, life, req, hit, out, threads, orderly>>

-----------------------------------------------------------------------------
(* search and ask: the lock is held for the nearest-neighbour search, here *)
(* any one entry.  ask copies the ids before it unlocks, search does not.  *)
Query(r) ==
    /\ rpc[r] = "idle" /\ up
    /\ \E kind \in {"search", "ask"} :
        IF vecs = <<>>
        THEN rpc' = [rpc EXCEPT ![r] = "done"] /\ UNCHANGED hit
        ELSE \E i \in DOMAIN vecs :
            /\ hit' = [hit EXCEPT ![r] =
                        [at |-> i, text |-> vecs[i],
                         name |-> IF kind = "ask" /\ i <= Len(ids)
                                  THEN ids[i] ELSE NoText]]
            /\ rpc' = [rpc EXCEPT ![r] = kind]
    /\ UNCHANGED <<file, mem, disk, life, req, out, threads, calm, orderly>>

(* search names the neighbour from _ids as it is by now.                   *)
SearchReply(r) ==
    /\ rpc[r] = "search"
    /\ Report(r, IF hit[r].at <= Len(ids) THEN <<ids[hit[r].at]>> ELSE <<>>)

(* ask reads the source's file and calls the language model first.         *)
AskReply(r) == rpc[r] = "ask" /\ Report(r, <<hit[r].name>>)

-----------------------------------------------------------------------------
(* POST /rebuild, of SEARCH_ROOT or of the root that the query names.      *)
Trigger(r) ==
    /\ rpc[r] = "idle" /\ up
    /\ \E b \in Rebuilds, root \in Roots : Spawn(b, root)
    /\ rpc' = [rpc EXCEPT ![r] = "done"]
    /\ orderly' = (orderly /\ ~\E d \in Docs : Changing(d))
    /\ UNCHANGED <<file, mem, disk, life, req, hit, out, work, clean, calm>>

(* _rebuild_bg: list the files, and leave everything alone if there are    *)
(* none.  Files found under another root than SEARCH_ROOT will replace the *)
(* index.                                                                  *)
ListFiles(b) ==
    /\ bpc[b] = "list"
    /\ LET found == {d \in todo[b] : file[d] # NoText} IN
        /\ todo' = [todo EXCEPT ![b] = found]
        /\ bpc' = [bpc EXCEPT ![b] = IF found = {} THEN "idle" ELSE "read"]
        /\ clean' = IF found # {} /\ todo[b] = Home /\ \A d \in Docs : ~Changing(d)
                    THEN clean \cup {b} ELSE clean
        /\ orderly' = (orderly /\ (found = {} \/ todo[b] = Home))
    /\ UNCHANGED <<file, mem, disk, life, asked, work, calm>>

(* They are read one by one.  Those that have gone or that an OSError      *)
(* keeps from being read are skipped.                                      *)
ReadFile(b) ==
    /\ bpc[b] = "read"
    /\ \E d \in todo[b] :
        /\ todo' = [todo EXCEPT ![b] = @ \ {d}]
        /\ \/ /\ file[d] # NoText
              /\ work' = [work EXCEPT ![b] = Append(@, file[d])]
              /\ UNCHANGED <<clean, orderly>>
           \/ /\ clean' = IF file[d] = NoText THEN clean ELSE clean \ {b}
              /\ orderly' = (orderly /\ file[d] = NoText)
              /\ UNCHANGED work
    /\ UNCHANGED <<file, mem, disk, life, asked, bpc, calm>>

(* The new index replaces the old one under the lock.                      *)
Swap(b) ==
    /\ bpc[b] = "read" /\ todo[b] = {} /\ work[b] # <<>>
    /\ vecs' = work[b]
    /\ ids' = Labels(work[b])
    /\ work' = [work EXCEPT ![b] = <<>>]
    /\ bpc' = [bpc EXCEPT ![b] = "save"]
    /\ Settle /\ Repair(b)
    /\ UNCHANGED <<file, disk, life, asked, todo>>

(* Encoding no text at all raises, and the thread ends.                    *)
NothingRead(b) ==
    /\ bpc[b] = "read" /\ todo[b] = {} /\ work[b] = <<>>
    /\ bpc' = [bpc EXCEPT ![b] = "idle"]
    /\ UNCHANGED <<file, mem, disk, life, asked, todo, work, clean, calm, orderly>>

(* _save_index, without the lock: _index is taken and written to one file, *)
(* then the other is opened and _ids, taken only now, written to it.       *)
OpenBin(b) ==
    /\ bpc[b] = "save"
    /\ bin' = Torn
    /\ work' = [work EXCEPT ![b] = vecs]
    /\ bpc' = [bpc EXCEPT ![b] = "bin"]
    /\ UNCHANGED <<file, mem, json, life, asked, todo, clean, calm, orderly>>

WriteBin(b) ==
    /\ bpc[b] = "bin"
    /\ bin' = work[b]
    /\ work' = [work EXCEPT ![b] = <<>>]
    /\ bpc' = [bpc EXCEPT ![b] = "ids"]
    /\ UNCHANGED <<file, mem, json, life, asked, todo, clean, calm, orderly>>

OpenIds(b) ==
    /\ bpc[b] = "ids"
    /\ json' = Torn
    /\ bpc' = [bpc EXCEPT ![b] = "json"]
    /\ UNCHANGED <<file, mem, bin, life, asked, todo, work, clean,
                   calm, orderly>>

WriteIds(b) ==
    /\ bpc[b] = "json"
    /\ json' = ids
    /\ bpc' = [bpc EXCEPT ![b] = "idle"]
    /\ UNCHANGED <<file, mem, bin, life, asked, todo, work, clean,
                   calm, orderly>>

-----------------------------------------------------------------------------
Next ==
    \/ Start \/ Crash
    \/ \E r \in Requests :
        \/ PutFile(r) \/ DeleteFile(r) \/ AddDoc(r) \/ RemoveDoc(r)
        \/ Query(r) \/ SearchReply(r) \/ AskReply(r) \/ Trigger(r)
    \/ \E b \in Rebuilds :
        \/ ListFiles(b) \/ ReadFile(b) \/ Swap(b) \/ NothingRead(b)
        \/ OpenBin(b) \/ WriteBin(b) \/ OpenIds(b) \/ WriteIds(b)

Spec == Init /\ [][Next]_vars

-----------------------------------------------------------------------------
Hits == [at : Nat \ {0}, text : Texts, name : Docs \cup {NoText}]

TypeOK ==
    /\ file \in [Docs -> Texts \cup {NoText}]
    /\ ids \in Seq(Docs)
    /\ vecs \in Seq(Texts)
    /\ Readable(bin) => bin \in Seq(Texts)
    /\ Readable(json) => json \in Seq(Docs)
    /\ up \in BOOLEAN /\ starts \in 0 .. MaxStarts
    /\ rpc \in [Requests -> {"idle", "add", "remove", "search", "ask", "done"}]
    /\ req \in [Requests -> Docs \cup {NoText}]
    /\ hit \in [Requests -> {NoHit} \cup Hits]
    /\ out \in [Requests -> Seq(Docs)]
    /\ bpc \in [Rebuilds -> {"idle", "list", "read", "save", "bin", "ids", "json"}]
    /\ todo \in [Rebuilds -> SUBSET Docs]
    /\ work \in [Rebuilds -> Seq(Texts)]
    /\ calm \in BOOLEAN /\ orderly \in BOOLEAN /\ clean \subseteq Rebuilds

(* main.py:37: "Parallel arrays: _vecs[i] is the embedding for _ids[i]".   *)
ParallelArrays ==
    /\ Len(ids) = Len(vecs)
    /\ \A i \in DOMAIN ids : vecs[i][1] = ids[i]

(* The arrays are parallel and hold a document once, also after a restart  *)
(* from the cache files, unless the index was changed while a thread was   *)
(* saving it or the service stopped between the two files.                 *)
CalmServiceIsConsistent ==
    calm =>
        /\ ParallelArrays
        /\ \A i, j \in DOMAIN ids : ids[i] = ids[j] => i = j

(* main.py:252: the sources of an answer are the documents it was found    *)
(* in, however much the index changes while the answer is composed.        *)
AskNamesItsSource ==
    [][\A r \in Requests :
        calm /\ rpc[r] = "ask" /\ rpc'[r] = "done" /\ up'
            => out'[r] = <<hit[r].text[1]>>]_vars

Quiet == up /\ ~Walking /\ \A d \in Docs : ~Changing(d)

(* What the index should hold of a document.                               *)
Due(d) == IF d \in Home THEN file[d] ELSE NoText
IndexMatchesFiles ==
    \A d \in Docs : {t \in Range(vecs) : t[1] = d} = {Due(d)} \ {NoText}

(* The index follows the files: when neither a change nor a rebuild is in  *)
(* progress it holds the newest text of every file under SEARCH_ROOT and   *)
(* nothing else, unless one of these has happened since the last repair:   *)
(* a change overlapped another of its file, a rebuild or a stop; the       *)
(* service started from its cache; a rebuild found files under another     *)
(* root; a file could not be read.  A repair is a rebuild of SEARCH_ROOT   *)
(* that found a file, read all it found and was overlapped by no change.   *)
(* One that finds no file is none: it leaves old documents in the index,   *)
(* although main.py:8 says "rebuild from SEARCH_ROOT".                     *)
OrderlyIndexMatchesFiles == orderly /\ Quiet => IndexMatchesFiles

(* main.py:152: search returns "doc_id<TAB>score": the score is that of    *)
(* the document it stands beside.                                          *)
SearchNamesItsHit ==
    [][\A r \in Requests :
        rpc[r] = "search" /\ rpc'[r] = "done" /\ out'[r] # <<>>
            => out'[r] = <<hit[r].text[1]>>]_vars

(* VectorStore's view: the pairs of an id and a vector, and the calls that *)
(* put or remove a document.                                               *)
store == {<<ids[i], vecs[i]>> : i \in DOMAIN ids \cap DOMAIN vecs}
call == [r \in Requests |->
    IF rpc[r] = "idle" THEN [op |-> "none"]
    ELSE IF rpc[r] = "add" THEN [op |-> "add", id |-> req[r], text |-> <<req[r], r>>]
    ELSE IF rpc[r] = "remove" THEN [op |-> "remove", id |-> req[r]]
    ELSE [op |-> "over"]]

walks == {b \in Rebuilds : bpc[b] \in {"list", "read"}}

Abstract == INSTANCE VectorStore
    WITH Calls <- Requests, Walks <- Rebuilds, Ids <- Docs, serving <- up

(* main.py:169, main.py:195: add_doc inserts or replaces one document and  *)
(* remove_doc removes one, each once and in one step, between whatever     *)
(* rebuilds, saves, stops and starts, also on arrays loaded from cache     *)
(* files that do not belong together.                                      *)
ImplementsVectorStore == Abstract!Spec
=============================================================================
