------------------------------ MODULE Exchange ------------------------------
(***************************************************************************)
(* One request after another, from the user who types it to the report he  *)
(* gets: searchclient.cpp or another HTTP client, the connection, the      *)
(* worker in HandleClient, the handler, and the end of the server process  *)
(* at any moment.  Connections do not overlap here: what overlapping       *)
(* requests do to the stores is LiveIndex's part, and how requests share   *)
(* connections and workers is HttpServer's.                                *)
(***************************************************************************)
EXTENDS SearchApi

CONSTANTS
    Uploads,        \* the local files that the user may send
    Others,         \* the requests that other clients send
    MaxCommands, MaxStarts,
    Chunk,          \* how much of a body one write() takes
    Faults,         \* "kill", "stop", "hangup", "disk"
    NoFile, NoRequest, Unknown

ASSUME ExchangeAssumption ==
    /\ MaxCommands \in Nat /\ MaxStarts \in Nat \ {0} /\ Chunk \in Nat \ {0}
    /\ Faults \subseteq {"kill", "stop", "hangup", "disk"}
    /\ NoFile \notin Seq(STRING) /\ Unknown \notin Seq(STRING) \cup {NoFile}
    /\ Uploads \subseteq Seq(STRING)
    /\ \A data \in Uploads : Len(data) < Len(Digits) /\ "headers" \notin Range(data)

ClientRequests ==
    [method : STRING, target : {"static", "search", "ask", "page", "none"},
     query : Seq(STRING), body : Seq(STRING),
     lines : Seq([key : STRING, text : Seq(STRING)])]

(* Whoever writes his headers the usual way states the length of his body, *)
(* unless he states one beyond every number, and none sends a body after a *)
(* line that is no request line.                                           *)
StatesLength(c) ==
    IF \E i \in DOMAIN c.lines : c.lines[i].key = "content-length"
    THEN \E i \in DOMAIN c.lines :
            c.lines[i].key = "content-length" /\ Stoul(c.lines[i].text) = Len(c.body)
    ELSE c.body = <<>>

ASSUME ClientsAssumption ==
    /\ Others \subseteq ClientRequests
    /\ \A c \in Others :
        /\ WellFormed(c.lines) /\ ~TooLong(c.lines) => StatesLength(c)
        /\ c.method = "" => c.body = <<>>
        /\ c.target \in {"search", "ask"} => c.query \in Queries
        /\ "headers" \notin Range(c.body)

VARIABLES
    running, g_done,    \* the server process
    starts, ended,      \* how often it was started; what ended it
    file,               \* the one file under the root, or NoFile
    cmd, typed, busy,   \* the client's request; how many; one is under way
    gone, piped,        \* the client has closed its end; see HangUp
    report,             \* what it tells its user
    told,               \* history: what a user knows to be in the file
    unread, received,   \* what is on its way to the worker; what has come back
    wpc, raw,           \* HandleClient's step; the body bytes it has read
    request, response,
    spoilt              \* history: not all of a body was read, or stored

server == <<running, g_done, starts, ended>>
client == <<cmd, typed, busy, gone, piped, report, told>>
worker == <<wpc, raw, request, response, spoilt>>
vars == <<server, file, client, unread, received, worker, apiVars>>

-----------------------------------------------------------------------------
(* SendHttpRequest.  The path is that of the file.                         *)
ShellRequest(method, data) ==
    LET line(k, s) == [key |-> k, text |-> <<Space, s>>] IN
    [method |-> method, target |-> "static", query |-> <<>>, body |-> data,
     lines |-> (IF data = <<>> THEN <<>>
                ELSE <<line("content-length", Digits[Len(data) + 1])>>)
               \o <<line("connection", "close")>>]

Commands ==
    Others \cup {ShellRequest(m, <<>>) : m \in {"GET", "DELETE"}}
           \cup {ShellRequest(m, data) : m \in {"POST", "PUT"}, data \in Uploads}

Nothing == [status |-> 0, body |-> <<>>]
NoReport == [said |-> "nothing", data |-> <<>>, whole |-> FALSE]

(* The reports of get, put, post and delete.  Without an answer the status *)
(* is 0, which get takes for none of the errors.                           *)
Said_NotServerError(method, status) == IF status < 500 THEN "ok" ELSE "error"
Said(method, status) ==
    IF \/ method = "GET" /\ status < 400
       \/ method # "GET" /\ status \in 200 .. 299
    THEN "ok" ELSE "error"

Init ==
    /\ running = TRUE /\ g_done = FALSE /\ starts = 1 /\ ended = "none"
    /\ file = NoFile
    /\ cmd = NoRequest /\ typed = 0
    /\ busy = FALSE /\ gone = FALSE /\ piped = FALSE
    /\ report = NoReport /\ told = NoFile
    /\ unread = <<>> /\ received = Nothing
    /\ wpc = "none" /\ raw = <<>> /\ request = NoRequest
    /\ response = Nothing /\ spoilt = FALSE
    /\ ApiInit

-----------------------------------------------------------------------------
(* The client connects and sends, first the headers, in one piece, then    *)
(* the body.  A search leaves nothing to later requests and uses up the    *)
(* bound on their number.                                                  *)
Type(c) ==
    /\ ~busy /\ wpc = "none"
    /\ typed' = typed + (IF c.target \in {"search", "ask"} THEN MaxCommands ELSE 1)
    /\ typed' <= MaxCommands
    /\ cmd' = c
    /\ gone' = FALSE /\ piped' = FALSE
    /\ IF running /\ ~g_done
       THEN /\ busy' = TRUE /\ wpc' = "headers"
            /\ unread' = <<"headers">> \o c.body
            /\ report' = NoReport
       ELSE /\ report' = [NoReport EXCEPT !.said = "failed"]
            /\ UNCHANGED <<busy, wpc, unread>>
    /\ received' = Nothing /\ response' = Nothing
    /\ raw' = <<>> /\ request' = NoRequest /\ spoilt' = FALSE
    /\ UNCHANGED <<server, file, told, apiVars>>

Tell(said, data, whole) ==
    /\ report' = [said |-> said, data |-> data, whole |-> whole]
    /\ told' = IF \/ cmd.target # "static"
                  \/ cmd.method \notin {"PUT", "POST", "DELETE"}
                  \/ whole /\ said = "error" /\ received.status \in {404, 409}
               THEN told
               ELSE IF ~whole \/ said # "ok" \/ ~WellFormed(cmd.lines) THEN Unknown
               ELSE IF cmd.method = "DELETE" THEN NoFile ELSE cmd.body
    /\ busy' = FALSE
    /\ UNCHANGED <<server, file, cmd, typed, piped, unread, received, raw,
                   request, response, spoilt, apiVars>>

Complete == received = response /\ response # Nothing

(* recv has come to the end: the server has closed the connection, or its  *)
(* process has.  If it has left bytes unread recv fails instead.           *)
Receive ==
    /\ busy /\ wpc = "closed"
    /\ IF unread # <<>> THEN Tell("failed", <<>>, FALSE)
       ELSE Tell(Said(cmd.method, received.status), received.body,
                 Complete /\ ~spoilt)
    /\ wpc' = "none"
    /\ UNCHANGED gone

(* A client that leaves the connection open looks at Content-Length, and   *)
(* closes when it has the body.                                            *)
ReceiveCounted ==
    /\ busy /\ wpc = "headers" /\ Complete
    /\ Tell(Said(cmd.method, received.status), received.body, ~spoilt)
    /\ gone' = TRUE
    /\ UNCHANGED wpc

(* The client is stopped; what it has not sent is never sent.  If it had   *)
(* sent this request behind another of its connection (piped), the answer  *)
(* to that one may be written after it has gone.                           *)
HangUp ==
    /\ "hangup" \in Faults /\ busy
    /\ busy' = FALSE /\ gone' = TRUE
    /\ piped' \in BOOLEAN
    /\ piped' => cmd \in Others /\ wpc = "headers"
    /\ \E k \in 0 .. Len(unread) : unread' = SubSeq(unread, 1, k)
    /\ wpc' = IF wpc = "closed" THEN "none" ELSE wpc
    /\ report' = NoReport
    /\ told' = IF cmd.method \in {"PUT", "POST", "DELETE"} THEN Unknown ELSE told
    /\ UNCHANGED <<server, file, cmd, typed, received, raw, request, response,
                   spoilt, apiVars>>

-----------------------------------------------------------------------------
Close == wpc' = IF gone THEN "none" ELSE "closed"

(* The process ends; the kernel closes the connection.                     *)
Die(why) ==
    /\ running' = FALSE /\ ended' = why
    /\ IF wpc = "none" THEN UNCHANGED wpc ELSE Close
    /\ Forget
    /\ UNCHANGED <<g_done, starts, file, client, unread, received, raw, request,
                   response, spoilt>>

Kill == "kill" \in Faults /\ running /\ Die("killed")

Stop ==
    /\ "stop" \in Faults /\ running /\ ~g_done
    /\ g_done' = TRUE
    /\ UNCHANGED <<running, starts, ended, file, client, unread, received,
                   worker, apiVars>>

(* The accept loop has ended and the pool has drained.                     *)
Exit == running /\ g_done /\ wpc \in {"none", "closed"} /\ Die("stopped")

Restart ==
    /\ ~running /\ starts < MaxStarts /\ wpc = "none"
    /\ running' = TRUE /\ g_done' = FALSE
    /\ starts' = starts + 1 /\ ended' = "none"
    /\ UNCHANGED <<file, client, unread, received, worker, apiVars>>

-----------------------------------------------------------------------------
(* ReadRawRequest.  The last read of the headers may bring some body.      *)
ReadHeaders ==
    /\ wpc = "headers" /\ unread # <<>> /\ unread[1] = "headers"
    /\ \E k \in 1 .. Len(unread) :
        /\ raw' = SubSeq(unread, 2, k)
        /\ unread' = SubSeq(unread, k + 1, Len(unread))
    /\ wpc' = "body"
    /\ UNCHANGED <<server, file, client, received, request, response, spoilt,
                   apiVars>>

(* A read that has timed out finds g_done, or the client has closed.  Body *)
(* bytes that were left unread are no headers.                             *)
Cut == g_done \/ (gone /\ unread = <<>>)

NoHeaders ==
    /\ wpc = "headers"
    /\ Cut \/ (gone /\ "headers" \notin Range(unread))
    /\ Close
    /\ UNCHANGED <<server, file, client, unread, received, raw, request,
                   response, spoilt, apiVars>>

Missing_OneLess == ReadLength(cmd.lines) - Len(raw) - 1
Missing_OneMore == ReadLength(cmd.lines) - Len(raw) + 1
Missing == ReadLength(cmd.lines) - Len(raw)

LengthThrows == wpc = "body" /\ TooLong(cmd.lines) /\ Die("exception")

ReadBody ==
    /\ wpc = "body" /\ ~TooLong(cmd.lines) /\ Missing > 0
    /\ \E k \in 1 .. Len(unread) :
        /\ k <= Missing
        /\ raw' = raw \o SubSeq(unread, 1, k)
        /\ unread' = SubSeq(unread, k + 1, Len(unread))
    /\ UNCHANGED <<server, file, client, received, wpc, request, response,
                   spoilt, apiVars>>

(* A block whose first line is no request line gives the default Request.  *)
Default == [method |-> "", target |-> "none", body |-> <<>>, close |-> FALSE]

ParseRequest ==
    /\ wpc = "body" /\ ~TooLong(cmd.lines) /\ (Missing > 0 => Cut)
    /\ IF cmd.method # "" /\ ParseThrows(cmd.lines)
       THEN Die("exception")
       ELSE /\ request' = IF cmd.method = "" THEN Default
                ELSE [method |-> cmd.method, target |-> cmd.target,
                      body |-> ParsedBody(cmd.lines, raw),
                      close |-> SaysClose(cmd.lines)]
            /\ spoilt' = (Missing > 0)
            /\ wpc' = "route"
            /\ UNCHANGED <<server, file, client, unread, received, raw, response,
                           apiVars>>

-----------------------------------------------------------------------------
Respond(status, body) ==
    /\ response' = [status |-> status, body |-> body]
    /\ wpc' = "send"
    /\ UNCHANGED <<server, client, unread, received, raw, request>>

At(method, target) ==
    wpc = "route" /\ request.method = method /\ request.target = target

(* HandleClient, HandleGetRequest and HandleStaticMutation choose.         *)
FixedAnswer ==
    /\ wpc = "route"
    /\ LET get == request.method = "GET"
           static == request.target = "static" IN
        \/ get /\ request.target = "page" /\ Respond(200, <<"page">>)
        \/ get /\ request.target = "none" /\ Respond(404, <<>>)
        \/ ~get /\ ~static /\ Respond(404, <<>>)
        \/ /\ ~get /\ static /\ request.method \notin {"PUT", "POST", "DELETE"}
           /\ Respond(501, <<>>)
    /\ UNCHANGED <<file, spoilt, apiVars>>

(* ReadAll looks neither whether the file was opened nor why a read ended. *)
StaticGet ==
    /\ At("GET", "static")
    /\ IF file = NoFile
       THEN Respond(404, <<>>) /\ UNCHANGED spoilt
       ELSE \E k \in 0 .. Len(file) :
            /\ k < Len(file) => "disk" \in Faults
            /\ Respond(200, SubSeq(file, 1, k))
            /\ spoilt' = (spoilt \/ k < Len(file))
    /\ UNCHANGED <<file, apiVars>>

(* Unlike the other two handlers of files it catches nothing.              *)
StaticGetThrows == At("GET", "static") /\ "disk" \in Faults /\ Die("exception")

(* A full disk takes a prefix, and the answer is the same.                 *)
StaticPut(m) ==
    /\ At(m, "static")
    /\ m = "POST" => file = NoFile
    /\ \E k \in 0 .. Len(request.body) :
        /\ k < Len(request.body) => "disk" \in Faults
        /\ file' = SubSeq(request.body, 1, k)
        /\ spoilt' = (spoilt \/ k < Len(request.body))
    /\ Respond(IF file = NoFile THEN 201 ELSE 200, <<>>)
    /\ UNCHANGED apiVars

StaticConflict_Truncates ==     \* the file is opened before it is looked for
    /\ At("POST", "static") /\ file # NoFile
    /\ file' = <<>>
    /\ Respond(409, <<>>)
    /\ UNCHANGED <<spoilt, apiVars>>
StaticConflict ==
    /\ At("POST", "static") /\ file # NoFile
    /\ Respond(409, <<>>)
    /\ UNCHANGED <<file, spoilt, apiVars>>

StaticDelete ==
    /\ At("DELETE", "static")
    /\ file' = NoFile
    /\ Respond(IF file = NoFile THEN 404 ELSE 204, <<>>)
    /\ UNCHANGED <<spoilt, apiVars>>

(* StaticPut and StaticDelete answer an error of the file system.          *)
StaticFails_Throws == \E m \in {"PUT", "POST", "DELETE"} :
    At(m, "static") /\ "disk" \in Faults /\ Die("exception")
StaticFails ==
    /\ "disk" \in Faults
    /\ \E m \in {"PUT", "POST", "DELETE"} : At(m, "static")
    /\ Respond(500, <<>>)
    /\ UNCHANGED <<file, spoilt, apiVars>>

Search ==
    /\ \E k \in {"search", "ask"} : At("GET", k) /\ BeginSearch(k, cmd.query)
    /\ wpc' = "api"
    /\ UNCHANGED <<server, file, client, unread, received, raw, request,
                   response, spoilt>>

Searching ==
    /\ wpc = "api" /\ ApiStep
    /\ UNCHANGED <<server, file, client, unread, received, worker>>

ServiceStep ==
    /\ ServiceReplies
    /\ UNCHANGED <<server, file, client, unread, received, worker>>

SearchAnswer ==
    /\ wpc = "api" /\ EndSearch
    /\ Respond(200, <<"json">>)
    /\ UNCHANGED <<file, spoilt>>

(* SendAll: one write() after the other.  The first to a client that has   *)
(* left reaches the kernel and is answered by a reset, the next raises     *)
(* SIGPIPE.  After an answer to an earlier request, that is the first.     *)
Write ==
    /\ wpc = "send"
    /\ LET n == Min({Len(received.body) + Chunk, Len(response.body)}) IN
        /\ received' = [response EXCEPT !.body = SubSeq(@, 1, n)]
        /\ IF n < Len(response.body) THEN UNCHANGED wpc
           ELSE IF request.close THEN Close ELSE wpc' = "headers"
    /\ UNCHANGED <<server, file, client, unread, raw, request, response, spoilt,
                   apiVars>>

WriteRaises ==
    /\ wpc = "send" /\ gone /\ (received # Nothing \/ piped)
    /\ Die("SIGPIPE")

-----------------------------------------------------------------------------
WorkerStep ==
    \/ ReadHeaders \/ NoHeaders \/ LengthThrows \/ ReadBody \/ ParseRequest
    \/ FixedAnswer \/ StaticGet \/ StaticGetThrows
    \/ StaticPut("PUT") \/ StaticPut("POST") \/ StaticConflict
    \/ StaticDelete \/ StaticFails
    \/ Search \/ Searching \/ SearchAnswer \/ Write \/ WriteRaises

Next ==
    \/ \E c \in Commands : Type(c)
    \/ Receive \/ ReceiveCounted \/ HangUp
    \/ Kill \/ Stop \/ Exit \/ Restart
    \/ WorkerStep \/ ServiceStep

Spec == Init /\ [][Next]_vars

(* The worker goes on while it can, and the client looks at what it gets.  *)
(* Nothing makes the embedding service reply.                              *)
FairSpec ==
    Spec /\ WF_vars(WorkerStep) /\ WF_vars(Receive) /\ WF_vars(ReceiveCounted)

-----------------------------------------------------------------------------
Bodies == Seq(STRING)

TypeOK ==
    /\ running \in BOOLEAN /\ g_done \in BOOLEAN /\ starts \in 1 .. MaxStarts
    /\ ended \in {"none", "killed", "stopped", "exception", "SIGPIPE"}
    /\ running <=> ended = "none"
    /\ file = NoFile \/ file \in Bodies
    /\ told \in {NoFile, Unknown} \/ told \in Bodies
    /\ busy \in BOOLEAN /\ gone \in BOOLEAN /\ piped \in BOOLEAN
    /\ spoilt \in BOOLEAN
    /\ busy => cmd \in Commands /\ wpc # "none"
    /\ report.said \in {"nothing", "ok", "error", "failed"}
    /\ wpc \in {"none", "headers", "body", "route", "api", "send", "closed"}
    /\ wpc # "api" => api = "idle"
    /\ IsPrefix(received.body, response.body) /\ raw \in Bodies
    /\ ApiTypeOK

(* test_httprequest.cpp:48: a body arrives with its length.  ReadBody and  *)
(* ParseRequest each look for the length, in ways of their own, and over   *)
(* any division into reads a request whose headers are written the usual   *)
(* way reaches its handler as it was sent, with nothing left behind.       *)
BodyIsWhatWasSent ==
    wpc = "route" /\ ~spoilt /\ WellFormed(cmd.lines) =>
        request.method = cmd.method /\ request.body = cmd.body /\ unread = <<>>

(* HttpServer.hpp:31: Run "does not return until the process is killed".   *)
(* Nothing in a request ends the process, except headers that ParseRequest *)
(* throws at, a length beyond every number, an error of the file system    *)
(* under GET, and a client that leaves before all of a long response, or   *)
(* of the answers to several requests, is written to it.                   *)
ServerOutlivesItsRequests ==
    [][running /\ ~running' =>
        \/ ended' \in {"killed", "stopped"}
        \/ /\ ended' = "exception"
           /\ WellFormed(cmd.lines) => At("GET", "static") \/ TooLong(cmd.lines)
        \/ /\ ended' = "SIGPIPE"
           /\ gone /\ (Len(response.body) > Chunk \/ piped)]_vars

(* searchclient.cpp:294: "OK" means stored.  Between requests the file is  *)
(* what the last report said of it, through refusals, restarts and aborted *)
(* requests, unless a request ended without an answer, was cut off by the  *)
(* server's end, or met a full disk.                                       *)
StoredAsTold == wpc = "none" /\ told # Unknown => file = told

(* searchclient.cpp:111: get gives what was put.  It prints or saves what  *)
(* the last successful change stored, and fails if that was a deletion, if *)
(* the server could read the file to its end and the response came whole.  *)
(* (An answer that is cut off, that never comes, or that holds only what   *)
(* could be read is saved like any other: the client has no way to tell.)  *)
GetGivesWhatWasPut ==
    report.whole /\ cmd.method = "GET" /\ cmd.target = "static" /\ told # Unknown =>
        IF report.said = "ok" THEN report.data = told ELSE told = NoFile

(* VectorClient.hpp:9: an embedding service that never replies holds up no *)
(* request: whoever sends one with the usual headers is told how it ended. *)
EveryCommandReports == (busy /\ WellFormed(cmd.lines)) ~> ~busy
=============================================================================
