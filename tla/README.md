# A TLA+ specification of the semantic search engine

The repository holds a C++ HTTP server (`searchserver/`) that serves and
changes a directory of text files and searches them by word counts, and a
Python service (`embed_service/main.py`) that searches the same files by
embeddings. These modules model the concurrent and stateful core of both: who
holds which lock, what is in which store, and what happens when a step fails, a
process stops or an answer comes late. Source paths below are relative to
`src/`.

## 1. The system

| Component | State | Operations | What makes it correct |
|---|---|---|---|
| Thread pool (`ThreadPool.cpp`) | mutex, condition variable, queue, kill flag, workers | constructor, `Dispatch`, `ThreadLoop`, destructor | no task lost or run twice, no lost wake-up, the destructor drains and returns |
| HTTP server (`HttpServer.cpp`) | `g_done`, `g_listen_fd`, the listening socket, the pool, one connection per worker | `Run`, `SigintHandler`, `HandleClient`, `ReadHeaders`, `ReadBody`, `SendAll`, destructor | responses follow requests, a slow client is waited for, shutdown ends and frees nothing that is in use, the listener is closed once |
| Static files (`StaticFile.cpp`) | the directory | `StaticGet`, `StaticPut`, `StaticDelete` | a file is one upload; POST does not replace; nothing outside the root |
| Inverted index (`InvertedIndex.cpp`) | `m_count`, under `index_mtx` | `Build`, `AddFile`, `RemoveFile`, `SearchAndRank` | its counts are those of the files |
| Vector client (`VectorClient.cpp`) | none; a socket per call | `AddDoc`, `RemoveDoc`, `Search`, `Ask` | never blocks or fails a request for good |
| Embedding service (`embed_service/main.py`) | `_index`, `_vecs`, `_ids`, `_lock`, two cache files | `/search`, `/ask`, `POST` and `DELETE /index`, `/rebuild`, start | parallel arrays; a hit is named after the document it was found in; the index follows the files |
| Ranking (`SearchAndRank`, `RrfMerge`) | none | pure functions, on data from the index and from a reply that may be broken | the merged list has what both lists have, respects what they agree on, and is the word ranking when the service is away |
| Parsing (`HttpRequest.cpp`, `ReadBody`) | none | pure functions | a request reaches its handler as it was sent; unreadable headers are survived |
| Shell client (`searchclient.cpp`) | a socket per command | `get`, `put`, `post`, `delete` | "OK" means stored; what is shown is what was stored |
| Web page, JSON output, evaluation script, tests, start script | none | | |

How they interact:

```
 client --socket--> accept loop --Dispatch--> ThreadPool worker: HandleClient
                        ^                          |          |          |
                     SIGINT                  StaticPut/   AddFile/    AddDoc/RemoveDoc/
                  (SigintHandler)            StaticDelete RemoveFile  Search (one socket
                                                 |        (index_mtx) call, 1 s timeout)
                                                 v             |          v
                                               files           v     embed_service
                                                 ^          m_count   (_lock, rebuild
                                                 +----- read by ------ threads, cache)
```

One `PUT` therefore changes three stores in three steps: the file, the word
index under an exclusive lock, and, through a call that may be refused, lost or
overtaken, the vector index. The behaviours that are hard here:

* requests for the same file on several workers, between any two of those
  steps; a search among them;
* a caller that stops waiting for the embedding service while the service still
  carries out the call, so that updates arrive in another order;
* a rebuild thread that reads the files for seconds and then replaces the index,
  and a save that is not under the lock;
* SIGINT anywhere in `Run`, with connections open and clients queued;
* requests cut into arbitrary reads, with read timeouts in between;
* failures in one step of several, stops and restarts of either process;
* a reply or response that breaks off and looks complete to whoever reads it;
* two readers of the same headers, and two ways of cutting text into words, that
  have to agree.

`PROJECT.json` lists each such hazard at its line.

## 2. Modules

| Module | What it is |
|---|---|
| `TaskPool` | abstract: what a pool promises its owner |
| `ThreadPool` | the pool with its mutex, condition variable, workers and owner; implements `TaskPool` |
| `ThreadPoolProofs` | theorems about `ThreadPool` |
| `HttpServer` | from the start of `Run` to the end of `main`, composed with `TaskPool` as its `m_pool` |
| `HttpServerProofs` | theorems about `HttpServer` |
| `LiveIndex` | requests that change a file, and searches, over file system, word index and vector index |
| `LiveIndexProofs` | theorems about `LiveIndex` |
| `VectorStore` | abstract: what the embedding service promises its callers |
| `LiveIndexRefinement` | theorem: `LiveIndex` implements `VectorStore` |
| `EmbedService` | the embedding service with its threads and cache files; implements `VectorStore` |
| `EmbedServiceProofs` | theorems about `EmbedService`, the refinement among them |
| `Requests` | pure: what `ParseRequest` and `ReadBody` make of headers, `SplitTerms`, `Tokenize` |
| `Ranking` | pure, extends `Requests`: the lists `SearchAndRank` and `RrfMerge` may return |
| `SearchApi` | extends `Ranking`: one `/api/search` or `/api/ask` with the call it makes |
| `Exchange` | extends `SearchApi`: from a user's command to the report he gets, and what ends the server |
| `SearchApiProofs` | what the operators of `Requests`, `Ranking` and `SearchApi` compute, and the invariant of a search |
| `ExchangeProofs` | theorems about `Exchange` |
| `Induction` | induction and recursion up to a bound, for the proof modules |
| `MC*` | small sets, bounds and symmetry for TLC |

`HttpServer` uses `TaskPool` in place of `ThreadPool` because it needs only what
the pool promises, and `ThreadPool` is shown, by TLC with liveness and by proof
for safety, to keep exactly those promises. `LiveIndex` takes the embedding
service as one step per call (`Apply`, external code as seen by the C++ side);
`EmbedService` opens that step up and takes the server as two (`PutFile` or
`DeleteFile`, then the call). `VectorStore` is where the two meet: a set of pairs
of id and text, in which a call puts or removes one id in one step, at most once,
or is lost. Both modules implement it, one on each side of the call, so that what
`LiveIndex` assumes of `Apply` is what `EmbedService` provides. (It says nothing
of rebuilds beyond that they replace everything with at most one text for an id:
`LiveIndex` has none, and a system in which they happen loses updates.)

Every module with behaviour has a section of *faulty variants*: steps with one
plausible slip each (a guard dropped, a reset forgotten, a lock not taken). No
specification uses them. Put in place of the step they vary, each one makes a
property fail, which shows that the property depends on that step; the pairs are
listed under `mutants`.

### ThreadPool

`mtx`, `killthreads`, `queue` are the members; `wpc` and `task` are where a
worker is in `ThreadLoop` and its local `t`; `mpc` is where the owner is.
`condition_variable::wait` is three states: `test` (predicate evaluated with the
mutex held), `block` (found false, mutex still held) and `wait` (asleep, mutex
free), so that a notification between the test and the sleep would be lost if the
code did not hold the mutex. `notify_one` moves any one sleeper, `notify_all` all
of them, and a sleeper may wake by itself. `Dispatch` and the destructor notify
before they unlock, as the code does. The constructor may fail at any thread
(`SpawnFails`); then the members are destroyed without the destructor's body.

### HttpServer

`Run` is a sequence of steps `rpc`; `SigintHandler` (`hpc`) runs on the main
thread and stops it (`At`), unless the main thread is in the handler already, in
which case another thread takes a second signal. The handler's load, clear and
close of `g_listen_fd` are separate steps, and so are `Run`'s own test and close.
A connection is a stream of pieces: the start of a header block, its end (which
carries body length and `Connection: close`) and body pieces. A client sends them
one at a time; `ReadHeaders` takes any number of the pieces that have arrived,
`ReadBody` no more than are missing, and a read that times out looks at `g_done`.
`~HttpServer` destroys `m_pool` (closing and joining) before the members that
workers use.

`Send` is `SendAll`: it is over once the response is written. `write` has no timeout
and nothing looks at `g_done` there, so a client that stops reading (`StopReading`)
keeps its worker until it reads on (`ReadOn`) or its connection ends (`HangUp`); until
then it is in `Unread` and the step is not one that the worker can take by itself.

### LiveIndex

`entry` and `data` are directory and inodes, so that an upload to a file that is
deleted and recreated meanwhile goes to the inode it opened. A text is a sequence
of blocks, each named after the request that wrote it. `words[p]` is the text that
the counts of path `p` come from; `vec[p]` the text the service holds for id `p`;
`writer` and `readers` are the `std::shared_mutex`. A request is a `Receive`, then
the handler's steps: `CheckPut`/`CheckDelete`/`Refuse`, `OpenTruncate`, `Write` or
`Unlink`, `Lock`, `Erase`, `Index`, then `Connect`, `Hear` or `TimeOut`, `Reply`.
`Apply` is the service carrying out a call at any later time; `Lose` is the call
disappearing. Neither `AddFile` nor `Build` says anything of a file that it cannot open
or read to its end: `Readings` is what they may get from one (with the fault `"disk"`
any prefix, also none of it), and `misread` the files that this happened to when they
were last read. `FileOf` lets two path strings name one file, `UrlDecoded` lets a
`DELETE` reach the service under another name. `Restart` is a stop of the server
and `Build` in the new process. `orderly` is a history variable: for which files
no update has overlapped, failed or been misnamed, and no reading failed.

### EmbedService

`ids` and `vecs` are `_ids` and `_index`/`_vecs`; `bin` and `json` the two cache
files. `Home` are the documents under `SEARCH_ROOT`, to which the server's changes
belong; `Roots` the directories that `POST /rebuild?root=` may name, as the sets of
their files. A text is a pair of document and version and stands for its embedding. The
`with _lock` blocks are one step each; what runs without the lock is not:
`_rebuild_bg` lists, returns if there is no file, reads file by file (skipping those that
have gone or cannot be read) and swaps; `_save_index` opens and writes
`bin`, then opens `json` and writes `_ids` *as they are then*; `search` looks its
ids up after the lock, `ask` copies them under it. `Crash` ends the process
anywhere; `Start` loads the cache if both files are readable and equally long.
`calm` (no change during a save, no stop between the two files) and `orderly` are
history variables that state the conditions under which the service is right.
`orderly` ends with a change that overlaps another of its file, a rebuild or a stop,
with a start from the cache, with a rebuild that finds files under another root, and
with a file that cannot be read; it comes back with a rebuild of `SEARCH_ROOT` that
finds a file, reads all it found and is overlapped by no change (`clean`, `Repair`). A
rebuild that finds *no* file repairs nothing, as the code leaves everything alone then.

`store`, `call` and `walks` at the end of the module are the refinement mapping
to `VectorStore`: the pairs of the two arrays, what each request has yet to do, and
the rebuilds that have not swapped. A save is a stuttering step, and so is the
answer to a query.

### Requests, Ranking, SearchApi

A text is a sequence of characters, each of them a string (the space is `Space`,
since the provers do not take a blank for a name), a header line a key and the text
behind its colon. What the code does in a loop is a recursive function on the
loop's index (`Stoul`, `Pieces`, `Share`, `Kept`), which proofs can unfold.
`ReadBody` and `ParseRequest` are two operators on the same lines
(`ReadLength`, `ParsedBody`), because the code looks for the length twice and in
different ways: the first `content-length:` anywhere, then any spaces, against the
last line with that key, from two characters behind the colon. `ParseThrows` is
where `substr` or `stoul` throws. `MaxLong` is the largest number that `stoul` takes;
beyond it (`TooLong`) already the `stoul` of `ReadBody` throws.

A list sorted by score only is the *set* of lists in which equal scores stand in
any order (`Rankings`), since both functions fill hash maps first. Scores are
integers: `Scale` stands for 1 and is a common multiple of 61, 62, ..., so that
sums of 1/(60+i) are exact.

`SearchApi` has the steps of `HandleGetRequest`: terms, `Scan` under the shared
lock, `Call`, the service's reply as a sequence of lines, `Hear` (whole),
`HearCut` (a prefix, perhaps with half a line) or `Silence`, and `Merge`. The
service may name a document twice (its `search` reads ids outside the lock) or
answer with an error page.

### Exchange

One connection at a time, but everything on it. `cmd` is a request, of
`SendHttpRequest` (`ShellRequest`) or of another client (`Others`); `unread` is
what the worker has yet to read, `received` what the client has got; `wpc` is where
`HandleClient` is. `ReadHeaders` may take some of the body along, `ReadBody` any
piece up to what is missing, `Write` sends a response in chunks. `Die` is the end of
the process: by `Kill`, after `Stop` (`Exit`), by an exception that nothing catches
(`LengthThrows`, `ParseRequest`, `StaticGetThrows`), or by SIGPIPE (`WriteRaises`: a
chunk of the same response has been sent, or, if this request was sent behind another
one and the client has left (`piped`), the answer to that one). `StaticGet` may read
less than the file (`ReadAll` looks at no error), and the answer is a 200 all the same;
`spoilt` says so. The client
reports what `searchclient.cpp` reports (`Said`, `Tell`); `told` is a history
variable: what a user may conclude about the file from all reports so far.

## 3. Runs

| Run | Instance | Shows |
|---|---|---|
| `thread_pool` | 3 workers, 3 tasks | type, mutex discipline, every task in exactly one place, drained destructor, no lost wake-up, nobody asleep after the kill flag, refinement of `TaskPool` *with* its fairness, every task runs, the destructor returns, a failed constructor returns only if no thread had started |
| `http_server` | 2 clients (one sends 2 requests with bodies of up to 1 piece, one is silent), 1 worker, 1 SIGINT, start-up and accept errors, clients that stop reading | responses follow requests, short bodies only after a hang-up or shutdown, members outlive workers, the listener is closed once, the server stops unless a client leaves a response unread for ever |
| `http_server_double_close` | the same, accept errors only | *violated*: the listener's number is never closed twice |
| `http_server_stalled` | the same without bodies, clients that stop reading only | *violated*: Ctrl+C ends the program |
| `live_index` | 3 requests (any of PUT, POST, DELETE, search), 1 file, embedding, disk and restart faults | a search sees one index, the word index never holds old text, orderly updates agree in all stores, an orderly POST never replaces |
| `live_index_progress` | 2 requests with bodies of 2 blocks of which the service takes 1, one file under two names, one refused, all faults | every request is answered or dies with the server; orderly updates agree on clipped texts too; the calls use the service as a `VectorStore` |
| `live_index_atomic` | 2 requests, no fault | *violated*: both indexes are updated atomically |
| `live_index_torn` | 2 requests of sizes 1 and 2, no fault | *violated*: a file is one upload |
| `embed_service` | 2 documents under `SEARCH_ROOT` and 1 under another root, 2 requests, 2 rebuild threads, 3 starts | a calm service has parallel arrays without duplicates, an orderly one follows the files, `ask` names its source; the service implements `VectorStore` |
| `embed_search_labels` | the same with 3 requests, 1 start | *violated*: `search` names the document it scored |
| `embed_reload` | the same with 3 requests, 2 starts | *violated*: the arrays are parallel |
| `exchange` | up to 3 requests that change or read the file, or one search; headers written in 6 other ways than the client's, one with a length beyond `MaxLong`; 3 documents, 6 queries and questions, replies of up to 3 documents; 2 starts of the server; kill, stop, hang-up and disk faults | bodies arrive as sent; "OK" means stored; `get` shows what was put, if it was read and came whole; every command reports; nothing but what `ServerOutlivesItsRequests` lists ends the server; fusion respects both lists and survives broken replies; plain words find their documents |

**Why the bounds are enough.** Three workers and three tasks give the pool a
sleeper, a runner and one on its way at once, more tasks than a single worker can
hide, and a queue longer than one, which the order of `pop_front` needs. One pool
worker and two connections give the server a full pool with a client waiting
behind it; two requests on one connection is the least that shows a framing error
carried from one to the next, a body of one piece the least that can be cut short.
Three requests on one file is the least in which a finished update is disturbed
by two overlapping ones, or a late call from a first update overtakes a second
and a third looks on; every race in the code is between requests for the same
file, so one file does for safety. Where a part of a
body matters, two requests do: in `live_index_progress` bodies are longer than
`TextLimit`, so that every uploaded text is clipped on its way to the service and
a full disk may take none, a part or all of it; a torn file needs two sizes. Two
rebuild threads can save at the same time, and three starts make the cache files of a
service matter that has itself been loaded from a cache; a third document under a root
of its own is the least that a rebuild from elsewhere can bring in. Two requests are a
change beside an `ask`, beside another change or beside a triggered rebuild, while the
first start's rebuild may still run; with a third, over two starts, the same properties hold (1.7 million
states, four minutes), and they are proved for any number. In `exchange` three requests are the least for a
`put`, something that disturbs it, and a `get`; a search leaves nothing to later
requests, so that it may use up the bound (`Type`). Bodies are of 0 to 2 blocks and
`Chunk` is 1: nothing, one write, and a response that breaks off between two. `MaxLong`
is 20 in place of 2^64 - 1, above every length that a body of the run has and below the
99 that one of the requests states. Three
documents allow two in one list and one in the other, ties in the word ranking, and
a document named twice by the service; one of them lacks a word of a query, so that
the word ranking leaves it out while the service may name it. The header variants in `MCOthers` are one for
each way in which the two readers of a length could disagree. Symmetry is declared only in the runs that check
no liveness. The largest runs are `live_index` (2.2 million distinct states) and
`http_server` (0.7 million); `embed_service` has 0.26 million, `exchange` and
`live_index_progress` 0.16 million each.

**Deadlock checking** is off in every run: requests are served once, the owner of
the pool ends and the server exits, so that the modelled system does stop. That
it does not stop *early* is what the liveness properties say.

**Fairness.** *Pool*: a thread that can take a step takes it, and a mutex is
granted to a thread that asks again and again (strong fairness of `Acquire`;
weak is not enough since others take and release it in between). Spurious
wake-ups, dispatching and destroying are not assumed to happen. *Server*: `Run`,
handlers, workers and the pool's start are weakly fair, except that a worker is not
assumed to finish a response while its client has stopped reading and stays connected
(`Unread`): `ServerStops` has the end of that as its premise, and `CtrlCEndsProgram`
without it is what `http_server_stalled` refutes. Clients connect, send, read on and
hang up when they like, or never. *LiveIndex*: a request's own steps are weakly
fair, including the timeout of its socket; nothing is assumed of the service
(`Apply`, `Lose`), so that progress rests on `SO_RCVTIMEO` alone. With a bounded
number of requests a writer of `index_mtx` cannot starve, so weak fairness of
`Lock` does; a writer under an unending stream of searches is not covered.
*Exchange*: the worker goes on while it can, which includes the end of its wait for
the embedding service (`Silence`: `SO_RCVTIMEO`), and a client looks at what it
receives. Nothing makes the service reply, a client send, or a process die or start.

## 4. Where code and words differ

Six runs find a behaviour in which the code does not do what a comment or the README
says; `findings` quotes each line.

* **A file's two indexes are not updated atomically** (README 109). The vector
  call is made after `index_mtx` is released and overlapping requests may make it
  in the other order; without any fault, a document stays in one index only.
* **An upload can be torn** (`StaticFile.hpp:13`). Two uploads truncate and write
  the same inode from offset 0; the longer one's tail remains behind the shorter.
* **`search` may name another document** (`main.py:152`). Ids are looked up after
  the lock is released.
* **The cache can load arrays that are not parallel** (`main.py:37`). Saving reads
  vectors and ids at different times without the lock and writes two files, and
  loading compares lengths only.
* **The listener may be closed twice** (`HttpServer.cpp:547`). After a fatal
  `accept` error `Run` closes it but leaves `g_listen_fd`; a later SIGINT closes
  the number again.
* **Ctrl+C may not end the program** (`HttpServer.cpp:448`). A client that stops reading
  a response and stays connected keeps a worker in `write` (line 365), and the
  destructor waits for the worker.

The models contain five more, which the properties name as exceptions, each at its
place, and which have no run of their own:

* **Unreadable headers end the server** (`HttpRequest.hpp:18` promises a default
  request). A line that ends at its colon, or a `Content-Length` that is no number or
  beyond 2^64, makes `ReadBody` or `ParseRequest` throw, and no handler stands between
  them and `std::terminate`: `LengthThrows`, `ParseRequest`, named in
  `ServerOutlivesItsRequests`.
* **A rebuild may leave the index as it was** (`main.py:8`, README 214). When the last
  file under `SEARCH_ROOT` is gone, `_rebuild_bg` returns at line 109, and what the index
  still has stays searchable: `ListFiles`, named in `OrderlyIndexMatchesFiles`.
* **An answer may hold less than the file** (`StaticFile.cpp:13`). `ReadAll` does not
  look whether the file was opened or why reading ended; the response is a 200 with the
  matching `Content-Length`: `StaticGet`, named in `GetGivesWhatWasPut`.
* **`get` shows what is not the resource** (`searchclient.cpp:110`). It ignores that
  `ParseStatus` failed; status 0 is none of the errors it looks for, so that without an
  answer, or with half of one, it prints or saves what there is as if that were the
  file: `Said`, named in `GetGivesWhatWasPut`.
* **A file may have no words** (README 109). `AddFile` and `Build` say nothing of a file
  that they cannot open: `Index`, `Restart`, named in `NoStaleWords`.

One more, seen on reading: after a fatal `accept` error `Run` returns `EXIT_SUCCESS`
(`HttpServer.hpp:34` says non-zero).

What does hold is stated beside them under the weakest conditions found: orderly
updates agree; a calm service is consistent; a file that nobody is changing is in the
word index as it is, or (`misread`) as far as it could be read at the last attempt, in
any interleaving, since `AddFile` reads the file again after the write: old words never
stay; with a working `accept` and one signal the listener is closed exactly once; with
headers written the usual way the two readers of a length agree over every division
into reads; and short of a kill, unreadable headers, a length beyond 2^64, a file
system error under `GET` and a client that leaves while a long response or the answers
to several requests are being written to it, no request ends the server.

## 5. Proofs

Checked by TLAPS for every value of the constants, under the assumptions named
in the modules:

* `PoolAssumption`: finitely many workers, at least one.
* `LiveIndexAssumption`: a file is named by itself, faults are the three known ones,
  and marks such as `Nobody` are no requests and `NoDoc` is no text.
  `RequestAssumption`: `NoRequest` is no request.
* `HttpServerAssumption`: finitely many SIGINTs, `NoClient` is no client, at least one
  worker.
* `EmbedAssumption`: a document is no request, `NoText` and `Torn` are no texts;
  `SEARCH_ROOT` and the other roots hold documents.
* `LowerAssumption`: lower case stays lower case, and what separates terms (`+`, `%20`,
  `=`) is no letter. `MaxLongAssumption`: `MaxLong` is a number. `RankingAssumption`: finitely many documents, each with a text, and
  a `Scale` that the weights divide. `SearchApiAssumption`: the marks in a reply are no
  documents, and a reply names at most one document more than there are.
* `ExchangeAssumption`: a body's length is one digit (the model writes lengths with
  one), no body holds the mark `"headers"`, `NoFile` and `Unknown` are no texts.
  `ClientsAssumption`: whoever writes his headers the usual way, and no length beyond
  every number, states the length of his body, as HTTP asks; about other headers nothing
  is assumed. It is evaluated by TLC for the clients of the runs.

Every safety property that a passing run checks is the subject of a theorem.

**ThreadPoolProofs.** Type correctness and `MutexHeldByOne` come first and serve
every later step. `Lifecycle` is the strengthening that ties the owner's state to
the workers' and the flag: while the owner joins or is gone the
flag is set (an abandoned construction aside), a worker that is about to sleep has
found no flag and an empty queue, a worker has exited only with the flag set and
the queue empty, and nothing is dispatched before construction has finished.
From it:

* `NoTaskLostOrRunTwice`: inductive with the type invariant; the two lemmas about
  `Append` and `Tail` (`PushBack`, `PopFront`) say what a queue of distinct tasks
  does.
* `DestructorDrains`: `Join` needs all workers exited, and by `Lifecycle` the
  queue is then empty and no task runs.
* `NoSleeperMissesKill`: setting the flag wakes everyone, and nobody goes to
  sleep after that: a worker that is about to (`block`) holds the mutex, so the
  destructor cannot be in its critical section.
* `FailedConstructorHangs`: while a failed construction unwinds, the flag is not set,
  so by `Lifecycle` no thread has exited, and `Join` needs that none was started.
* `NoWakeupIsLost`: counts. A push adds one task and, while anyone sleeps, one
  worker on its way; a worker that goes to sleep has found the queue empty.
* `PoolImplementsTaskPool`: step simulation with the mapping in `ThreadPool`
  (queue to pending, tasks in `run` to active, owner's step to phase).
  `RunningBelowCapacity` shows that a worker which takes a task leaves fewer
  running tasks than there are workers.

**LiveIndexProofs.** `TypeCorrect`, `MutexIsExclusive` (the writer is in `erase`
or `index`, readers are in `scan`, never both) and, from it, `SearchIsIsolated`.
`WordsAreNeverStale` needs the invariant `WordsInv`:

* `StepsFitRequests`: the step a worker is at fits the operation it has received;
* `InodesApart`: an inode that a file links or an upload has open belongs to that
  file, so that an upload cannot change another file's content;
* `ErasedBeforeIndexed`: between `Erase` and `Index` the path has no entries, which
  is where the exclusive lock is used;
* `NoStaleWords` itself: the words are those of the file, or none and the file is being
  deleted, or those of some reading of a file in `misread`.

Without `InodesApart` a late `Write` could change a file that nobody is changing;
without `ErasedBeforeIndexed` `Index` would add to old entries. `StepsFit`,
`InodesStayApart` and `ErasedStays` prove each part kept by each step.

`OrderlyUpdatesEndInAgreement` and `PostsReplaceNothing` rest on a second invariant,
`OrderInv`, which says where an orderly update is. While a file is orderly its
requests name it plainly (`PlainChanges`: no other path or decoded id leads to it), at
most one change of it is unsettled (`OneChange`), that one has done exactly what its
step says (`Doing`: the stores still agree before the upload opens the file, then the
file is new, then the words are, then the call is on its way), and without one the
three stores agree. `CallsFitSteps`: a request has a call only at and behind the step that makes it. A
step of a request is either one of its own (`OwnStepsInOrder`), or is about another
file (`OtherFilesStay`), or disturbs the order, after which nothing is claimed
(`StillOrderly`: order does not come back).

**LiveIndexRefinement.** `CallsUseVectorStore` is a step simulation with the mapping
at the end of `LiveIndex`: the ids that have a text to `store`, and each worker's call,
with the id and the clipped text it carries, to `call`. It rests on `CallsComeLast` (a
worker that has made a call is past its other steps, so that `Connect` never repeats
one), on `RequestsStay` (the request behind a call does not change under it, which is
what makes `Unseen` hold: every step that leaves texts and calls alone is a stutter)
and on `ClipIsLimited`. `OneIdChanges` is the fact about functions that `Apply` needs.

**HttpServerProofs.** For any clients, workers, requests, body lengths, SIGINTs and
faults. `ServerInv` is the type invariant with two parts that make it inductive:
`LineOK` (a connection waits in one place only, the backlog, `Run`'s hands or once
in the pool's queue, so that the one a worker takes is new to the workers) and
`HeadersOK` (raw holds the end of a header block exactly while the body is read or
the response is sent). `TypeInvariant` follows, and with it:

* `AnswersFollow`: `AnswerInv` says where the bytes of a patient client are. Unless
  an answer was short, a connection is idle and holds nothing, or what is in raw,
  wire and todo, in that order, is exactly the one request the client has begun
  (`Sent`), or the answer to it is about to be sent and, unless short, nothing of it
  is left. `ReceiveParts` is the fact about cutting a sequence that reading needs,
  `ParsedRequest` says that a complete header block is parsed as the request it
  belongs to. After a short answer nothing is claimed: what follows a body that was
  cut short is read as the next request.
* `SlowBodiesAreWaitedFor`: also of the response that is about to be sent, and the
  excuse, once there, lasts.
* `MembersOutlive`: the pool returns with an empty queue and no active task, only
  then are the members destroyed, and by `LineOK` a connection that waits is then
  in the backlog.
* `OneClosesListener`: `ListenerAgreed` says, for each step of `Run` and of the
  handler, whether the socket has been closed and what `g_listen_fd` says. It needs
  that the handler runs on `Run`'s thread (so that `Run` cannot pass `TestFd`
  between the handler's load and its close) and that the loop is left, `accept`
  working, only after the SIGINT has come (so that none comes later).

**EmbedServiceProofs.** `Safe` is the inductive invariant, in five parts: types with
what each step relies on (`StepsOK`), and

* `WorkOK`: a rebuild has read each document at most once and none that is still to be
  read, since two texts of one document would end up in the index;
* `CalmInv`: as long as no change overlaps a save, the arrays belong together, what a
  thread takes and writes is what is in memory, and the two files belong together
  unless a thread is between them. Hence `CalmIsConsistent`, over any number of stops
  and starts from the cache;
* `CleanInv`: a rebuild of `SEARCH_ROOT` that no change has overlapped and that has
  skipped no file has read what the files hold;
* `OrderlyInv`: readers are such rebuilds, changes keep apart, and a document that
  nobody is changing is up to date (one outside `SEARCH_ROOT` is absent), or the first
  rebuild after a start is under way. Hence `OrderlyIndexMatches`.

`AnswersNameTheirSources` is an action property from `CalmInv`. `ServiceIsVectorStore`
is a step simulation: `EntriesWithout` and `EntriesAppend` say what removing and
appending do to the set of pairs, and `OneCall` that a request's step moves its own
call only; a save, a read and an answer to a query stutter.

**Induction.** The library's induction principles take the property as an operator,
which the provers cannot instantiate. Here it is a *set* of numbers (`BoundedInduction`,
from the well-foundedness of `<`), and a recursive function is given by the function
of its steps: `Recursion` says that it exists, `StepsFollow` that one may go on
step by step. With these the recursive functions of the models are unfolded, and
what they compute is proved for inputs of any length.

**SearchApiProofs.** First the operators. `ShareOfInjective`: a list that names a
document once gives it the weight of its place. `MergeAgrees`, `MergeTwice`,
`MergeAlone`: what `RrfMerge` may return. `CutIsPrefix`, `HitsOnlyLost`,
`SourcesOnlyLost`: what a reply that broke off still says. `PiecesAreWords`: the pieces
of a text are its longest runs of letters and digits, whence `PlainMatches`, on which
`SplitTerms` and `Tokenize` agree. Then `ApiInv`: which local of a search has been
assigned at which step, and from what (`QueryInv`, `RankInv`, `ReplyInv`, `MergeInv`).

**ExchangeProofs.** The inductive invariant is `IInv`: types, `ApiInv` and

* `ControlInv`: who is at work on what;
* `ReadInv`: what has been read and what is still to be read begin the body that was
  sent, over any division into reads, and nothing that a request leaves behind is
  the next one's headers;
* `RouteInv`: the handler has the client's request, and its body unless it was cut
  off or the headers are unusual. It rests on `WellFormedBody`: the reader of
  `ReadBody` and that of `ParseRequest` find the same length (`BehindSpace`: one blank
  in front does not change a number);
* `SendInv`: there is a response exactly while one is sent, and writing goes on only
  behind a whole chunk;
* `StoreInv`: what the user knows of the file before and after a change is answered;
* `GetInv`: what a `GET` answers is what the file holds while the client reads, unless
  the server could not read all of it.

`NextIsSteps` draws the ends of the process together (`Dies`); then there is one lemma
per part with one case per action. `Typed`, `BodiesArrive`, `StoresWhatItTells` and
`GetsWhatWasPut` follow at once; `ServerOutlives` is an action property, which needs
`WellFormedIsUnderstood` (and `OneLength`: the two readers find the same number too
long) for the exception and `SendInv` for SIGPIPE. The five
`Searches...` theorems carry what `ApiInv` implies into every exchange.
`SearchesPutBothFirst` is proved for up to 61 documents: for long lists two late
places are worth less than one early place (2/123 < 1/61), as `RrfMerge` would have it.

**The prover.** In version 1.4.5 of tlapm the encoding of sequences for SMT has an
axiom `DOMAIN s = 1..n <=> Len(s) = n` about any value `s`, not only about sequences,
which is too much for functions on `0..n`. The proofs about recursive functions have
therefore also been checked with its first half only (`=>`).

**Only model-checked.** Liveness and everything that needs `ENABLED` (the proof
system does not handle them): `EveryTaskRuns`, `DestructorReturns`, the fair half of
`ImplementsFairTaskPool`, `ServerStops`, `EveryRequestAnswered`,
`EveryCommandReports`. The prover has no means either to reason about operators that
are declared `RECURSIVE`; the models declare none.

## 6. Not modelled, and why

* **Overlapping connections in `Exchange`.** What overlapping requests do to the stores
  is `LiveIndex`'s part, and how they share workers is `HttpServer`'s; the index
  updates that follow a `PUT` are left to `LiveIndex` too.
* **The request line.** It is a method, one of five kinds of target and a query; a
  line that holds `content-length:` itself, which `ReadBody` would take for a header,
  is left out, as are signs in `stoul`.
* **A score cut within its digits** still parses; the document keeps its place, since
  fusion looks at places only.
* **What a double close hits.** The model counts closes; it does not track which
  file or socket the number belongs to by then.
* **A second SIGINT on another thread** may close the listener while `accept`
  waits, which a close does not wake. `ServerStops` therefore speaks of one signal.
* **Clients that send for ever.** `HandleClient` looks at `g_done` only when a read
  times out; the number of requests is bounded by `MaxSent`.
* **How full a socket's buffers are.** A client may stop reading during any response,
  also one that the buffers would have taken; such a client has to read on, or
  leave, for `ServerStops` to say anything.
* **The moment of reading.** `Index` and `ReadFile` read a file in one step; the
  code reads line by line or block by block. (That a reading fails is modelled, see
  `Readings` and `StaticGet`.) A read that overlaps a write sees a
  mixture; the write is always followed by an `AddFile` of its own.
* **A server constructor that fails.** `Build` throws if the root is no directory;
  the program ends before `Run`.
* **Bytes.** UTF-8, URL and JSON encoding, content types, HTTP and HTML
  formatting. Their effect on identity is kept where it reaches a store
  (`UrlDecoded`, `FileOf`, `Clip`).
* **Float rounding.** Sums of two shares are exact in the model; in single precision
  two documents with the same two places in swapped order may differ by an ulp.
* **The embedding model, the language model, the file system's and FAISS's
  internals.** External; a query's nearest neighbour is any entry.
* **`run_eval.py`, `start.sh`, the tests, the web page.** No state of the running
  system.
* **Vendored Catch** (`catch.hpp`, `catch.cpp`: 24,000 of the repository's 26,000 lines
  of code) is a third-party test framework. Of the program's own 1,900 lines the
  modules cover most; what is left is includes, formatting, the page and `main`'s
  argument checks.

## 7. Plan

In order of importance; all but the last is done.

1. `TaskPool`, `ThreadPool`: safety and refinement proved.
2. `LiveIndex`: types, lock, word index and order of updates proved.
3. `EmbedService`: types, consistency, order and refinement proved.
4. `HttpServer`: all invariants proved.
5. Parsing, ranking, the search API and the shell client (`Requests`, `Ranking`,
   `SearchApi`, `Exchange`): all safety properties proved.
6. `VectorStore`: implemented by `LiveIndex` and by `EmbedService`, both proved.
7. Text limits in bytes (`k_text_limit`) against characters (`TEXT_LIMIT`), which need a
   model of UTF-8 and of the JSON body.
