----------------------------- MODULE HttpServer -----------------------------
(***************************************************************************)
(* searchserver/HttpServer.cpp from the start of Run to the end of main:   *)
(* the accept loop, the SIGINT handler that ends it, and HandleClient,     *)
(* which a worker of m_pool runs for each connection.  The pool is taken   *)
(* as TaskPool, which ThreadPool implements; its tasks are the clients.    *)
(* What a request does to the files and indexes is LiveIndex's part.       *)
(***************************************************************************)
EXTENDS Naturals, Sequences, FiniteSets

CONSTANTS
    Clients,    \* the connections of one execution
    Capacity,   \* num_threads
    MaxSent,    \* how many requests each client sends
    MaxBody,    \* the longest body, in pieces
    Signals,    \* the SIGINTs of one execution
    Faults,     \* "startup": Run cannot begin; "accept": accept fails for good;
                \* "stall": a client may stop reading
    NoClient

ASSUME HttpServerAssumption ==
    /\ NoClient \notin Clients
    /\ Capacity \in Nat \ {0} /\ MaxSent \in [Clients -> Nat] /\ MaxBody \in Nat
    /\ IsFiniteSet(Signals) /\ Faults \subseteq {"startup", "accept", "stall"}

VARIABLES
    pending, active, finished, phase,   \* m_pool
    rpc, got,       \* Run's step, and the client that accept returned
    code,           \* what Run returns
    members,        \* m_index, m_index_mtx and m_vec exist
    g_done,
    g_listen_fd,    \* it holds the listening socket's number, not -1
    closes,         \* how often that number has been closed
    failed,         \* history: a fatal error has ended Run or its loop
    hpc, on,        \* each SIGINT's step in the handler, and its thread
    backlog,        \* connections that wait for accept
    wpc, raw,       \* HandleClient's step, and what ReadRawRequest has read
    reply,          \* the response it is about to send
    wire, todo,     \* bytes that have arrived, and those yet to be sent
    begun, shut,    \* requests the client has begun; it has closed its end
    stalled,        \* clients that have stopped reading while a write waits
    answers,        \* the responses the client has been sent
    patient         \* history: it waits for each response

pool == <<pending, active, finished, phase>>
main == <<rpc, got, code, members, closes, failed>>
flags == <<g_done, g_listen_fd>>
handlers == <<hpc, on>>
conn == <<wpc, raw, reply>>
peer == <<wire, todo, begun, shut, stalled, answers, patient>>
vars == <<pool, main, flags, handlers, backlog, conn, peer>>

Pool == INSTANCE TaskPool WITH Tasks <- Clients

(* A request reaches the server in pieces: the start of its headers, their *)
(* end (after which its Content-Length and Connection are known) and its   *)
(* body.                                                                   *)
Start(n) == [part |-> "start", n |-> n]
End(n, b, c) == [part |-> "end", n |-> n, body |-> b, close |-> c]
Pieces ==
    [part : {"start", "body"}, n : Nat \ {0}]
        \cup [part : {"end"}, n : Nat \ {0}, body : 0 .. MaxBody, close : BOOLEAN]
Ends(s) == {i \in 1 .. Len(s) : s[i].part = "end"}
HeadersEnd(s) == CHOOSE i \in Ends(s) : \A j \in Ends(s) : i <= j
Headers(s) == s[HeadersEnd(s)]
Missing(s) == Headers(s).body - (Len(s) - HeadersEnd(s))    \* when it is positive
Short_ByOne(s) == Len(s) - HeadersEnd(s) + 1 < Headers(s).body  \* see below
Short(s) == Len(s) - HeadersEnd(s) < Headers(s).body

(* ParseRequest finds a request line if the first bytes are one.           *)
Parsed(s) == IF HeadersEnd(s) = 2 /\ s[1] = Start(Headers(s).n) THEN s[1].n ELSE 0

-----------------------------------------------------------------------------
(* The constructor has started the workers and built the index.            *)
Init ==
    /\ pending = <<>> /\ active = {} /\ finished = {} /\ phase = "open"
    /\ rpc = "setup" /\ got = NoClient /\ code = "none"
    /\ members = TRUE
    /\ g_done = FALSE /\ g_listen_fd = FALSE
    /\ closes = 0 /\ failed = FALSE
    /\ hpc = [s \in Signals |-> "none"]
    /\ on = [s \in Signals |-> "none"]
    /\ backlog = {}
    /\ wpc = [c \in Clients |-> "none"]
    /\ raw = [c \in Clients |-> <<>>]
    /\ reply = [c \in Clients |-> <<>>]
    /\ wire = [c \in Clients |-> <<>>]
    /\ todo = [c \in Clients |-> <<>>]
    /\ begun = [c \in Clients |-> 0]
    /\ shut = [c \in Clients |-> FALSE]
    /\ stalled = {}
    /\ answers = [c \in Clients |-> <<>>]
    /\ patient = [c \in Clients |-> TRUE]

-----------------------------------------------------------------------------
(* Faulty variants of the steps below, one plausible slip each: the runs   *)
(* are shown to notice every one of them.  Short_ByOne, above, miscounts   *)
(* the start of the body.                                                  *)

ClearFd_Forgotten(s) ==     \* the handler leaves g_listen_fd as it is
    /\ hpc[s] = "clear"
    /\ hpc' = [hpc EXCEPT ![s] = "close"]
    /\ UNCHANGED <<pool, main, flags, on, backlog, conn, peer>>

DestroyMembers_First ==     \* m_pool is declared before m_index
    /\ rpc = "joining"
    /\ members' = FALSE
    /\ UNCHANGED <<pool, rpc, got, code, closes, failed, flags, handlers,
                   backlog, conn, peer>>

Cut_AnyTimeout(c) == wire[c] = <<>>             \* EAGAIN is an error
Cut_NoTimeout(c) == wire[c] = <<>> /\ shut[c]   \* no SO_RCVTIMEO

Send_KeepsRaw(c) ==         \* one buffer for the whole connection
    /\ wpc[c] = "send"
    /\ answers' = [answers EXCEPT ![c] = @ \o reply[c]]
    /\ stalled' = stalled \ {c}
    /\ wpc' = [wpc EXCEPT ![c] = IF Headers(raw[c]).close THEN "close" ELSE "headers"]
    /\ reply' = [reply EXCEPT ![c] = <<>>]
    /\ UNCHANGED <<pool, main, flags, handlers, backlog, raw, wire, todo,
                   begun, shut, patient>>

-----------------------------------------------------------------------------
(* SigintHandler.  A SIGINT goes to the main thread, unless that one is in *)
(* the handler already; while it is, Run stands still.                     *)
Handling(thread) == \E s \in Signals : on[s] = thread /\ hpc[s] # "returned"

Interrupt(s) ==
    /\ hpc[s] = "none"
    /\ rpc # "exited"
    /\ on' = [on EXCEPT ![s] = IF Handling("main") THEN "other" ELSE "main"]
    /\ g_done' = TRUE
    /\ hpc' = [hpc EXCEPT ![s] = "load"]
    /\ UNCHANGED <<pool, main, g_listen_fd, backlog, conn, peer>>

(* A blocked accept returns EINTR when a handler on its thread returns.    *)
Leave(s) ==
    /\ hpc' = [hpc EXCEPT ![s] = "returned"]
    /\ rpc' = IF on[s] = "main" /\ rpc = "blocked" THEN "failing" ELSE rpc

LoadFd(s) ==
    /\ hpc[s] = "load"
    /\ IF g_listen_fd
       THEN hpc' = [hpc EXCEPT ![s] = "clear"] /\ UNCHANGED rpc
       ELSE Leave(s)
    /\ UNCHANGED <<pool, got, code, members, closes, failed, flags, on, backlog,
                   conn, peer>>

ClearFd(s) ==
    /\ hpc[s] = "clear"
    /\ g_listen_fd' = FALSE
    /\ hpc' = [hpc EXCEPT ![s] = "close"]
    /\ UNCHANGED <<pool, main, g_done, on, backlog, conn, peer>>

CloseFd(s) ==
    /\ hpc[s] = "close"
    /\ closes' = closes + 1
    /\ Leave(s)
    /\ UNCHANGED <<pool, got, code, members, failed, flags, on, backlog, conn,
                   peer>>

-----------------------------------------------------------------------------
(* Run.                                                                    *)
At(step) == rpc = step /\ ~Handling("main")

Return(c) == code' = c /\ rpc' = "returned"

(* The home page, socket, bind and listen, or an error in one of them.     *)
Listen ==
    /\ At("setup")
    /\ rpc' = "expose"
    /\ UNCHANGED <<pool, got, code, members, closes, failed, flags, handlers,
                   backlog, conn, peer>>

SetupFails ==
    /\ "startup" \in Faults
    /\ At("setup")
    /\ Return("EXIT_FAILURE")
    /\ failed' = TRUE
    /\ UNCHANGED <<pool, got, members, closes, flags, handlers, backlog, conn,
                   peer>>

Expose ==
    /\ At("expose")
    /\ g_listen_fd' = TRUE
    /\ rpc' = "test"
    /\ UNCHANGED <<pool, got, code, members, closes, failed, g_done, handlers,
                   backlog, conn, peer>>

TestDone ==
    /\ At("test")
    /\ rpc' = IF g_done THEN "leave" ELSE "accept"
    /\ UNCHANGED <<pool, got, code, members, closes, failed, flags, handlers,
                   backlog, conn, peer>>

(* accept of a number that has been closed fails at once; otherwise it     *)
(* waits, and a close by another thread does not wake it.                  *)
CallAccept ==
    /\ At("accept")
    /\ rpc' = IF closes > 0 THEN "failing" ELSE "blocked"
    /\ UNCHANGED <<pool, got, code, members, closes, failed, flags, handlers,
                   backlog, conn, peer>>

Accept(c) ==
    /\ At("blocked")
    /\ c \in backlog
    /\ backlog' = backlog \ {c}
    /\ got' = c
    /\ rpc' = "dispatch"
    /\ UNCHANGED <<pool, code, members, closes, failed, flags, handlers, conn,
                   peer>>

(* Errors other than EINTR and EAGAIN, such as EMFILE.                     *)
AcceptBreaks ==
    /\ "accept" \in Faults
    /\ At("blocked")
    /\ rpc' = "failing"
    /\ UNCHANGED <<pool, got, code, members, closes, failed, flags, handlers,
                   backlog, conn, peer>>

AcceptFails ==
    /\ At("failing")
    /\ rpc' = "leave"
    /\ failed' = (failed \/ ~g_done)
    /\ UNCHANGED <<pool, got, code, members, closes, flags, handlers, backlog,
                   conn, peer>>

DispatchClient ==
    /\ At("dispatch")
    /\ Pool!Submit(got)
    /\ got' = NoClient
    /\ rpc' = "test"
    /\ UNCHANGED <<code, members, closes, failed, flags, handlers, backlog,
                   conn, peer>>

TestFd ==
    /\ At("leave")
    /\ IF g_listen_fd
       THEN rpc' = "close" /\ UNCHANGED code
       ELSE Return("EXIT_SUCCESS")
    /\ UNCHANGED <<pool, got, members, closes, failed, flags, handlers, backlog,
                   conn, peer>>

CloseListener ==
    /\ At("close")
    /\ closes' = closes + 1
    /\ Return("EXIT_SUCCESS")
    /\ UNCHANGED <<pool, got, members, failed, flags, handlers, backlog, conn,
                   peer>>

(* main returns, and ~HttpServer destroys the members, m_pool before the   *)
(* ones that its workers use.                                              *)
DestroyPool ==
    /\ At("returned")
    /\ Pool!Close
    /\ rpc' = "joining"
    /\ UNCHANGED <<got, code, members, closes, failed, flags, handlers, backlog,
                   conn, peer>>

PoolDestroyed ==
    /\ At("joining")
    /\ Pool!Return
    /\ rpc' = "joined"
    /\ UNCHANGED <<got, code, members, closes, failed, flags, handlers, backlog,
                   conn, peer>>

DestroyMembers ==
    /\ At("joined")
    /\ members' = FALSE
    /\ rpc' = "exited"
    /\ UNCHANGED <<pool, got, code, closes, failed, flags, handlers, backlog,
                   conn, peer>>

-----------------------------------------------------------------------------
(* HandleClient, on a worker that the pool has found for it.               *)
StartClient ==
    /\ Pool!Start
    /\ wpc' = [wpc EXCEPT ![Head(pending)] = "headers"]
    /\ UNCHANGED <<main, flags, handlers, backlog, raw, reply, peer>>

Receive(c, k) ==
    /\ raw' = [raw EXCEPT ![c] = @ \o SubSeq(wire[c], 1, k)]
    /\ wire' = [wire EXCEPT ![c] = SubSeq(@, k + 1, Len(@))]

(* ReadHeaders: any number of the bytes that have arrived.                 *)
ReadHeaders(c) ==
    /\ wpc[c] = "headers"
    /\ \E k \in 1 .. Len(wire[c]) : Receive(c, k)
    /\ wpc' = [wpc EXCEPT ![c] = IF Ends(raw'[c]) = {} THEN "headers" ELSE "body"]
    /\ UNCHANGED <<pool, main, flags, handlers, backlog, reply, todo, begun,
                   shut, stalled, answers, patient>>

(* A read that times out looks at g_done.  The client may be gone as well. *)
Cut(c) == wire[c] = <<>> /\ (g_done \/ shut[c])

NoHeaders(c) ==
    /\ wpc[c] = "headers"
    /\ Cut(c)
    /\ wpc' = [wpc EXCEPT ![c] = "close"]
    /\ UNCHANGED <<pool, main, flags, handlers, backlog, raw, reply, peer>>

(* ReadBody: no more than is missing.                                      *)
ReadBody(c) ==
    /\ wpc[c] = "body"
    /\ Short(raw[c])
    /\ \E k \in 1 .. Len(wire[c]) : k <= Missing(raw[c]) /\ Receive(c, k)
    /\ UNCHANGED <<pool, main, flags, handlers, backlog, wpc, reply, todo,
                   begun, shut, stalled, answers, patient>>

(* The body is complete, or is not going to be: the request is routed to   *)
(* its handler all the same.                                               *)
Route(c) ==
    /\ wpc[c] = "body"
    /\ ~Short(raw[c]) \/ Cut(c)
    /\ reply' = [reply EXCEPT ![c] =
                  <<[n |-> Parsed(raw[c]), short |-> Short(raw[c])]>>]
    /\ wpc' = [wpc EXCEPT ![c] = "send"]
    /\ UNCHANGED <<pool, main, flags, handlers, backlog, raw, peer>>

(* SendAll, then the next request unless this one said Connection: close.  *)
(* Whatever else raw holds is dropped.                                     *)
Send(c) ==
    /\ wpc[c] = "send"
    /\ answers' = [answers EXCEPT ![c] = @ \o reply[c]]
    /\ stalled' = stalled \ {c}
    /\ wpc' = [wpc EXCEPT ![c] = IF Headers(raw[c]).close THEN "close" ELSE "headers"]
    /\ raw' = [raw EXCEPT ![c] = <<>>]
    /\ reply' = [reply EXCEPT ![c] = <<>>]
    /\ UNCHANGED <<pool, main, flags, handlers, backlog, wire, todo, begun,
                   shut, patient>>

CloseClient(c) ==
    /\ wpc[c] = "close"
    /\ Pool!Complete(c)
    /\ wpc' = [wpc EXCEPT ![c] = "closed"]
    /\ wire' = [wire EXCEPT ![c] = <<>>]
    /\ todo' = [todo EXCEPT ![c] = <<>>]
    /\ UNCHANGED <<main, flags, handlers, backlog, raw, reply, begun, shut,
                   stalled, answers, patient>>

-----------------------------------------------------------------------------
(* The clients.  Closing the listening socket resets those in its backlog. *)
Connected(c) ==
    wpc[c] \notin {"none", "closed"} /\ (c \in backlog => closes = 0)

Connect(c) ==
    /\ wpc[c] = "none"
    /\ rpc \notin {"setup", "returned", "joining", "joined", "exited"}
    /\ closes = 0
    /\ backlog' = backlog \cup {c}
    /\ wpc' = [wpc EXCEPT ![c] = "queued"]
    /\ UNCHANGED <<pool, main, flags, handlers, raw, reply, peer>>

BeginRequest(c) ==
    /\ Connected(c) /\ ~shut[c]
    /\ todo[c] = <<>> /\ begun[c] < MaxSent[c]
    /\ LET n == begun[c] + 1 IN
        /\ begun' = [begun EXCEPT ![c] = n]
        /\ wire' = [wire EXCEPT ![c] = Append(@, Start(n))]
        /\ \E b \in 0 .. MaxBody, close \in BOOLEAN :
            todo' = [todo EXCEPT ![c] = <<End(n, b, close)>> \o
                       [i \in 1 .. b |-> [part |-> "body", n |-> n]]]
    /\ patient' = [patient EXCEPT ![c] = @ /\ Len(answers[c]) = begun[c]]
    /\ UNCHANGED <<pool, main, flags, handlers, backlog, conn, shut, stalled,
                   answers>>

SendPiece(c) ==
    /\ Connected(c) /\ ~shut[c]
    /\ todo[c] # <<>>
    /\ wire' = [wire EXCEPT ![c] = Append(@, Head(todo[c]))]
    /\ todo' = [todo EXCEPT ![c] = Tail(@)]
    /\ UNCHANGED <<pool, main, flags, handlers, backlog, conn, begun, shut,
                   stalled, answers, patient>>

HangUp(c) ==
    /\ Connected(c) /\ ~shut[c]
    /\ shut' = [shut EXCEPT ![c] = TRUE]
    /\ UNCHANGED <<pool, main, flags, handlers, backlog, conn, wire, todo,
                   begun, stalled, answers, patient>>

(* A response that the socket's buffers cannot hold waits for its client:  *)
(* write has no timeout, and nobody looks at g_done here.                  *)
StopReading(c) ==
    /\ "stall" \in Faults
    /\ wpc[c] = "send" /\ ~shut[c]
    /\ stalled' = stalled \cup {c}
    /\ UNCHANGED <<pool, main, flags, handlers, backlog, conn, wire, todo,
                   begun, shut, answers, patient>>

ReadOn(c) == c \in stalled /\ Send(c)

-----------------------------------------------------------------------------
RunStep ==
    \/ Listen \/ Expose \/ TestDone \/ CallAccept \/ AcceptFails
    \/ DispatchClient \/ TestFd \/ CloseListener
    \/ DestroyPool \/ PoolDestroyed \/ DestroyMembers
    \/ \E c \in Clients : Accept(c)

HandlerStep(s) == LoadFd(s) \/ ClearFd(s) \/ CloseFd(s)

Unread == {c \in stalled : ~shut[c]}

WorkerStep(c) ==
    \/ ReadHeaders(c) \/ NoHeaders(c) \/ ReadBody(c) \/ Route(c)
    \/ c \notin Unread /\ Send(c)
    \/ CloseClient(c)

Next ==
    \/ RunStep \/ SetupFails \/ AcceptBreaks \/ StartClient
    \/ \E s \in Signals : Interrupt(s) \/ HandlerStep(s)
    \/ \E c \in Clients :
        \/ WorkerStep(c)
        \/ Connect(c) \/ BeginRequest(c) \/ SendPiece(c) \/ HangUp(c)
        \/ StopReading(c) \/ ReadOn(c)

Spec == Init /\ [][Next]_vars

(* Threads that can run do; a pool with a free worker starts a task.       *)
(* Nothing makes a client connect, send, read on or hang up, or the user   *)
(* interrupt.                                                              *)
FairSpec ==
    /\ Spec
    /\ WF_vars(RunStep) /\ WF_vars(StartClient)
    /\ \A s \in Signals : WF_vars(HandlerStep(s))
    /\ \A c \in Clients : WF_vars(WorkerStep(c))

-----------------------------------------------------------------------------
TypeOK ==
    /\ pending \in Seq(Clients)
    /\ active \subseteq Clients /\ finished \subseteq Clients
    /\ phase \in {"open", "closed", "gone"}
    /\ rpc \in {"setup", "expose", "test", "accept", "blocked", "failing",
                "dispatch", "leave", "close", "returned", "joining", "joined",
                "exited"}
    /\ got \in Clients \cup {NoClient}
    /\ rpc = "dispatch" <=> got # NoClient
    /\ code \in {"none", "EXIT_SUCCESS", "EXIT_FAILURE"}
    /\ {members, g_done, g_listen_fd, failed} \subseteq BOOLEAN
    /\ closes \in Nat
    /\ hpc \in [Signals -> {"none", "load", "clear", "close", "returned"}]
    /\ on \in [Signals -> {"none", "main", "other"}]
    /\ backlog \subseteq Clients
    /\ wpc \in [Clients -> {"none", "queued", "headers", "body", "send", "close",
                            "closed"}]
    /\ \A c \in Clients :
        /\ {raw[c], wire[c], todo[c]} \subseteq Seq(Pieces)
        /\ wpc[c] \in {"headers", "close"} => Ends(raw[c]) = {}
        /\ wpc[c] \in {"headers", "body", "send", "close"} <=> c \in active
        /\ begun[c] \in 0 .. MaxSent[c]
        /\ {shut[c], patient[c]} \subseteq BOOLEAN
        /\ c \in stalled => wpc[c] = "send"
        /\ {reply[c], answers[c]} \subseteq
                Seq([n : Nat, short : BOOLEAN])

(* A client that waits for each response gets the responses to its         *)
(* requests, in order: no request is skipped, answered twice or parsed     *)
(* from the wrong bytes, however they are cut into reads.  (What a client  *)
(* pipelines behind a request may be dropped with the rest of raw, and     *)
(* what follows a body that was cut short is read as the next request.)    *)
AnswersFollowRequests ==
    \A c \in Clients : patient[c] =>
        \A i \in 1 .. Len(answers[c]) :
            answers[c][i].n = i \/ \E j \in 1 .. i - 1 : answers[c][j].short

(* A request with less of a body than its Content-Length is handled only   *)
(* if the client has hung up or the server is shutting down: a slow client *)
(* is waited for.                                                          *)
ShortOnlyIfCutOff ==
    \A c \in Clients : \A i \in 1 .. Len(answers[c]) :
        answers[c][i].short => shut[c] \/ g_done

(* HttpServer.hpp:44: m_pool is "destroyed first, joining threads before   *)
(* m_index".  What HandleClient uses by pointer outlives every worker, and *)
(* every connection that was accepted has been served and closed by then.  *)
MembersOutliveWorkers ==
    ~members => \A c \in Clients : wpc[c] \in {"none", "closed"} \/ c \in backlog

Interrupted == {s \in Signals : hpc[s] # "none"}

(* One SIGINT and a working accept: the handler and Run agree on who       *)
(* closes the listening socket, wherever in Run the signal arrives.        *)
ListenerClosedByOne ==
    ~failed /\ Cardinality(Interrupted) <= 1 =>
        closes <= 1 /\ (code = "EXIT_SUCCESS" => closes = 1)

(* "SIGINT - when Ctrl+C is pressed, break the accept loop and clean up"   *)
(* (HttpServer.cpp:448): whatever the clients do, a SIGINT ends the        *)
(* program.  (A second one may be handled beside the first and leave       *)
(* accept waiting.)                                                        *)
CtrlCEndsProgram ==
    Cardinality(Interrupted) = 1 ~>
        rpc = "exited" \/ Cardinality(Interrupted) > 1

(* It does, also with keep-alive connections open, once the clients send   *)
(* nothing more and if none of them leaves a response unread for ever.     *)
ServerStops == <>[](Unread = {}) => CtrlCEndsProgram

(* HttpServer.cpp:547: Run will "only close if signal handler hasn't       *)
(* already closed it".  The number of a socket that is closed twice may be *)
(* that of a file or a connection by the second time.                      *)
ListenerNeverClosedTwice == closes <= 1
=============================================================================
