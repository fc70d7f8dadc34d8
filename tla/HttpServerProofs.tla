-------------------------- MODULE HttpServerProofs --------------------------
(***************************************************************************)
(* What HttpServer's run checks with two clients and one SIGINT, proved    *)
(* for any clients, workers, requests, bodies, SIGINTs and faults.         *)
(***************************************************************************)
EXTENDS HttpServer, SequenceTheorems, FiniteSetTheorems, TLAPS

-----------------------------------------------------------------------------
(* TypeOK in the parts that the actions change: what Run keeps, what it    *)
(* shares with the handler, the pool and the line of connections that wait *)
(* for a worker, and one connection.                                       *)
RunTypeOK ==
    /\ rpc \in {"setup", "expose", "test", "accept", "blocked", "failing",
                "dispatch", "leave", "close", "returned", "joining", "joined",
                "exited"}
    /\ got \in Clients \cup {NoClient}
    /\ rpc = "dispatch" <=> got # NoClient
    /\ code \in {"none", "EXIT_SUCCESS", "EXIT_FAILURE"}
    /\ closes \in Nat

SignalTypeOK ==
    /\ members \in BOOLEAN /\ g_done \in BOOLEAN
    /\ g_listen_fd \in BOOLEAN /\ failed \in BOOLEAN
    /\ hpc \in [Signals -> {"none", "load", "clear", "close", "returned"}]
    /\ on \in [Signals -> {"none", "main", "other"}]

(* A worker or a client leaves what the main thread has as it is.          *)
WorkStep ==
    \/ StartClient
    \/ \E c \in Clients :
        \/ WorkerStep(c) \/ Connect(c) \/ BeginRequest(c) \/ SendPiece(c)
        \/ HangUp(c) \/ StopReading(c) \/ ReadOn(c)

LEMMA WorkKeepsMain == WorkStep => UNCHANGED <<main, flags, handlers>>
BY DEF WorkStep, StartClient, WorkerStep, ReadHeaders, NoHeaders, ReadBody, Route,
       Send, CloseClient, Connect, BeginRequest, SendPiece, HangUp, StopReading, ReadOn

LEMMA StepCases ==
    Next <=> \/ RunStep \/ SetupFails \/ AcceptBreaks \/ WorkStep
             \/ \E s \in Signals : Interrupt(s) \/ HandlerStep(s)
BY DEF Next, WorkStep

LEMMA MainTypeInit == Init => RunTypeOK /\ SignalTypeOK
<1>1. Init => RunTypeOK
  BY DEF Init, RunTypeOK
<1>2. Init => SignalTypeOK
  <2> SUFFICES ASSUME Init PROVE SignalTypeOK
    OBVIOUS
  <2>1. members = TRUE /\ g_done = FALSE /\ g_listen_fd = FALSE /\ failed = FALSE
    BY DEF Init
  <2>2. hpc = [s \in Signals |-> "none"] /\ on = [s \in Signals |-> "none"]
    BY DEF Init
  <2>3. /\ hpc \in [Signals -> {"none", "load", "clear", "close", "returned"}]
        /\ on \in [Signals -> {"none", "main", "other"}]
    BY <2>2
  <2> QED  BY <2>1, <2>3 DEF SignalTypeOK
<1> QED  BY <1>1, <1>2

LEMMA RunTypeStep ==
    ASSUME RunTypeOK, backlog \subseteq Clients, [Next]_vars
    PROVE  RunTypeOK'
<1>0. NoClient \notin Clients
  BY HttpServerAssumption
<1> USE DEF RunTypeOK, At, Return
<1>1. ASSUME NEW c \in Clients, Accept(c) PROVE RunTypeOK'
  BY <1>0, <1>1 DEF Accept
<1>2. CASE Listen \/ Expose \/ TestDone \/ CallAccept \/ AcceptFails
  BY <1>2 DEF Listen, Expose, TestDone, CallAccept, AcceptFails
<1>3. CASE DispatchClient \/ TestFd \/ CloseListener
  BY <1>3 DEF DispatchClient, TestFd, CloseListener
<1>4. CASE DestroyPool \/ PoolDestroyed \/ DestroyMembers
  BY <1>4 DEF DestroyPool, PoolDestroyed, DestroyMembers
<1>5. CASE SetupFails \/ AcceptBreaks
  BY <1>5 DEF SetupFails, AcceptBreaks
<1>6. ASSUME NEW s \in Signals, Interrupt(s) \/ HandlerStep(s) PROVE RunTypeOK'
  BY <1>6 DEF Interrupt, HandlerStep, LoadFd, ClearFd, CloseFd, Leave, main
<1>7. CASE WorkStep \/ UNCHANGED vars
  BY <1>7, WorkKeepsMain DEF vars, main
<1> QED
  BY <1>1, <1>2, <1>3, <1>4, <1>5, <1>6, <1>7, StepCases DEF RunStep

LEMMA SignalTypeStep ==
    ASSUME SignalTypeOK, [Next]_vars
    PROVE  SignalTypeOK'
<1> USE DEF SignalTypeOK
<1>1. CASE RunStep
  BY <1>1 DEF RunStep, Listen, Expose, TestDone, CallAccept, Accept, AcceptFails,
              DispatchClient, TestFd, CloseListener, DestroyPool, PoolDestroyed,
              DestroyMembers, flags, handlers
<1>2. CASE SetupFails \/ AcceptBreaks
  BY <1>2 DEF SetupFails, AcceptBreaks, flags, handlers
<1>3. ASSUME NEW s \in Signals, Interrupt(s) PROVE SignalTypeOK'
  BY <1>3 DEF Interrupt, main
<1>4. ASSUME NEW s \in Signals, HandlerStep(s) PROVE SignalTypeOK'
  BY <1>4 DEF HandlerStep, LoadFd, ClearFd, CloseFd, Leave, main, flags
<1>5. CASE WorkStep \/ UNCHANGED vars
  BY <1>5, WorkKeepsMain DEF vars, main, flags, handlers
<1> QED
  BY <1>1, <1>2, <1>3, <1>4, <1>5, StepCases

-----------------------------------------------------------------------------
(* A connection waits in one place only: in the backlog, in Run's hands,   *)
(* or once in the pool's queue.  So the one that a worker takes is new to  *)
(* the workers.                                                            *)
Waiting == {pending[i] : i \in 1 .. Len(pending)}

PoolTypeOK ==
    /\ pending \in Seq(Clients)
    /\ active \subseteq Clients /\ finished \subseteq Clients
    /\ phase \in {"open", "closed", "gone"}
    /\ backlog \subseteq Clients
    /\ wpc \in [Clients -> {"none", "queued", "headers", "body", "send", "close",
                            "closed"}]

LineOK ==
    /\ \A c \in Clients :
        /\ wpc[c] = "queued" <=> c \in backlog \/ c = got \/ c \in Waiting
        /\ wpc[c] \in {"headers", "body", "send", "close"} <=> c \in active
    /\ got \notin backlog /\ got \notin Waiting
    /\ backlog \cap Waiting = {}
    /\ \A i, j \in 1 .. Len(pending) : pending[i] = pending[j] => i = j

LEMMA LineInit == Init => PoolTypeOK /\ LineOK
<1> SUFFICES ASSUME Init PROVE PoolTypeOK /\ LineOK
  OBVIOUS
<1>1. pending \in Seq(Clients) /\ 1 .. Len(pending) = {}
  BY EmptySeq DEF Init
<1>2. NoClient \notin Clients
  BY HttpServerAssumption
<1> QED  BY <1>1, <1>2 DEF Init, PoolTypeOK, LineOK, Waiting

LEMMA LineStep ==
    ASSUME RunTypeOK, PoolTypeOK, LineOK, [Next]_vars
    PROVE  PoolTypeOK' /\ LineOK'
<1>0. NoClient \notin Clients /\ got \notin backlog /\ Len(pending) \in Nat
  BY HttpServerAssumption, LenProperties DEF LineOK, PoolTypeOK
<1> USE DEF PoolTypeOK
<1>1. ASSUME NEW c \in Clients, Accept(c) PROVE PoolTypeOK' /\ LineOK'
  <2>1. /\ UNCHANGED <<pending, active, finished, phase, wpc>>
        /\ c \in backlog /\ backlog' = backlog \ {c} /\ got' = c
        /\ got = NoClient
    BY <1>1 DEF Accept, pool, conn, At, RunTypeOK
  <2>2. Waiting' = Waiting
    BY <2>1 DEF Waiting
  <2> QED  BY <1>0, <2>1, <2>2 DEF LineOK
<1>2. CASE DispatchClient
  <2>1. /\ got \in Clients /\ pending' = Append(pending, got) /\ got' = NoClient
        /\ UNCHANGED <<active, finished, phase, backlog, wpc>>
    BY <1>0, <1>2 DEF DispatchClient, At, RunTypeOK, conn, Pool!Submit
  <2>2. /\ pending' \in Seq(Clients) /\ Len(pending') = Len(pending) + 1
        /\ \A i \in 1 .. Len(pending) : pending'[i] = pending[i]
        /\ pending'[Len(pending) + 1] = got
    BY <2>1, AppendProperties
  <2>3. Waiting' = Waiting \cup {got}
    <3>1. 1 .. Len(pending') = 1 .. Len(pending) \cup {Len(pending) + 1}
      BY <1>0, <2>2
    <3> QED  BY <2>2, <3>1 DEF Waiting
  <2>4. \A i, j \in 1 .. Len(pending') : pending'[i] = pending'[j] => i = j
    <3>1. \A i \in 1 .. Len(pending) : pending'[i] # got /\ pending'[i] = pending[i]
      BY <2>2 DEF LineOK, Waiting
    <3>2. \A i, j \in 1 .. Len(pending) : pending[i] = pending[j] => i = j
      BY DEF LineOK
    <3>3. \A i \in 1 .. Len(pending') : i \in 1 .. Len(pending) \/ i = Len(pending) + 1
      BY <1>0, <2>2
    <3> QED  BY <2>2, <3>1, <3>2, <3>3
  <2>5. NoClient \notin Waiting'
    BY <1>0, <2>2, ElementOfSeq DEF Waiting
  <2> QED  BY <1>0, <2>1, <2>2, <2>3, <2>4, <2>5 DEF LineOK
<1>3. CASE StartClient
  <2> DEFINE c == Head(pending)
  <2>1. /\ pending # <<>> /\ pending' = Tail(pending) /\ active' = active \cup {c}
        /\ wpc' = [wpc EXCEPT ![c] = "headers"]
        /\ UNCHANGED <<finished, phase, got, backlog>>
    BY <1>3 DEF StartClient, main, Pool!Start
  <2>2. /\ c \in Clients /\ c = pending[1] /\ Len(pending) > 0
        /\ pending' \in Seq(Clients) /\ Len(pending') = Len(pending) - 1
        /\ \A i \in 1 .. Len(pending') : pending'[i] = pending[i + 1]
    BY <1>0, <2>1, HeadTailProperties, EmptySeq
  <2>3. \A i \in 2 .. Len(pending) : pending[i] # c
    BY <1>0, <2>2 DEF LineOK
  <2>4. Waiting' = Waiting \ {c} /\ c \in Waiting
    <3>1. \A i \in 1 .. Len(pending') : i + 1 \in 2 .. Len(pending)
      BY <1>0, <2>2
    <3>2. \A i \in 2 .. Len(pending) :
            i - 1 \in 1 .. Len(pending') /\ pending'[i - 1] = pending[i]
      BY <1>0, <2>2
    <3>3. Waiting' \subseteq Waiting \ {c} /\ c \in Waiting
      BY <1>0, <2>2, <2>3, <3>1 DEF Waiting
    <3>4. ASSUME NEW x \in Waiting, x # c PROVE x \in Waiting'
      <4>1. PICK i \in 1 .. Len(pending) : x = pending[i]
        BY DEF Waiting
      <4>2. i # 1
        BY <2>2, <3>4, <4>1
      <4>3. i \in 2 .. Len(pending)
        BY <1>0, <4>2
      <4>4. i - 1 \in 1 .. Len(pending') /\ pending'[i - 1] = x
        BY <3>2, <4>1, <4>3
      <4> QED  BY <4>4 DEF Waiting
    <3> QED  BY <3>3, <3>4
  <2>5. \A i, j \in 1 .. Len(pending') : pending'[i] = pending'[j] => i = j
    BY <1>0, <2>2 DEF LineOK
  <2> HIDE DEF c
  <2> QED  BY <1>0, <2>1, <2>2, <2>4, <2>5 DEF LineOK
<1>4. ASSUME NEW c \in Clients, Connect(c) PROVE PoolTypeOK' /\ LineOK'
  <2>1. /\ wpc[c] = "none" /\ backlog' = backlog \cup {c}
        /\ wpc' = [wpc EXCEPT ![c] = "queued"]
        /\ UNCHANGED <<pending, active, finished, phase, got>>
    BY <1>4 DEF Connect, pool, main
  <2>2. Waiting' = Waiting
    BY <2>1 DEF Waiting
  <2> QED  BY <2>1, <2>2 DEF LineOK
<1>5. ASSUME NEW c \in Clients, CloseClient(c) PROVE PoolTypeOK' /\ LineOK'
  <2>1. /\ wpc[c] = "close" /\ wpc' = [wpc EXCEPT ![c] = "closed"]
        /\ active' = active \ {c} /\ finished' = finished \cup {c}
        /\ UNCHANGED <<pending, phase, got, backlog>>
    BY <1>5 DEF CloseClient, main, Pool!Complete
  <2>2. Waiting' = Waiting
    BY <2>1 DEF Waiting
  <2> QED  BY <2>1, <2>2 DEF LineOK
<1>6. ASSUME NEW c \in Clients,
             ReadHeaders(c) \/ NoHeaders(c) \/ ReadBody(c) \/ Route(c) \/ Send(c)
      PROVE  PoolTypeOK' /\ LineOK'
  <2>1. /\ UNCHANGED <<pending, active, finished, phase, got, backlog>>
        /\ wpc[c] \in {"headers", "body", "send"}
        /\ \E p \in {"headers", "body", "send", "close"} :
                wpc' = [wpc EXCEPT ![c] = p]
    BY <1>6 DEF ReadHeaders, NoHeaders, ReadBody, Route, Send, pool, main
  <2>2. Waiting' = Waiting
    BY <2>1 DEF Waiting
  <2> QED  BY <2>1, <2>2 DEF LineOK
<1>7. ASSUME UNCHANGED <<pending, active, finished, got, backlog, wpc>>,
             phase' \in {phase, "closed", "gone"}
      PROVE  PoolTypeOK' /\ LineOK'
  <2>1. Waiting' = Waiting
    BY <1>7 DEF Waiting
  <2> QED  BY <1>7, <2>1 DEF LineOK
<1>8. CASE \/ Listen \/ Expose \/ TestDone \/ CallAccept \/ AcceptFails
           \/ TestFd \/ CloseListener \/ DestroyMembers
           \/ SetupFails \/ AcceptBreaks \/ DestroyPool \/ PoolDestroyed
  BY <1>7, <1>8 DEF Listen, Expose, TestDone, CallAccept, AcceptFails, TestFd,
                    CloseListener, DestroyMembers, SetupFails, AcceptBreaks,
                    DestroyPool, PoolDestroyed, Pool!Close, Pool!Return, pool, conn
<1>9. ASSUME NEW s \in Signals, Interrupt(s) \/ HandlerStep(s)
      PROVE  PoolTypeOK' /\ LineOK'
  BY <1>7, <1>9 DEF Interrupt, HandlerStep, LoadFd, ClearFd, CloseFd, pool, main, conn
<1>10. ASSUME NEW c \in Clients,
              BeginRequest(c) \/ SendPiece(c) \/ HangUp(c) \/ StopReading(c)
       PROVE  PoolTypeOK' /\ LineOK'
  BY <1>7, <1>10 DEF BeginRequest, SendPiece, HangUp, StopReading, pool, main, conn
<1>11. CASE UNCHANGED vars
  BY <1>7, <1>11 DEF vars, pool, main, conn
<1> QED
  BY <1>1, <1>2, <1>3, <1>4, <1>5, <1>6, <1>8, <1>9, <1>10, <1>11
     DEF Next, RunStep, WorkerStep, ReadOn

-----------------------------------------------------------------------------
(* A connection's buffers.  Nothing that has been read is left when a      *)
(* worker starts on a connection or on its next request, and a request     *)
(* whose body is read has its headers.                                     *)
Responses == [n : Nat, short : BOOLEAN]

BufferTypeOK ==
    /\ raw \in [Clients -> Seq(Pieces)]
    /\ wire \in [Clients -> Seq(Pieces)]
    /\ todo \in [Clients -> Seq(Pieces)]
    /\ reply \in [Clients -> Seq(Responses)]
    /\ answers \in [Clients -> Seq(Responses)]

ClientTypeOK ==
    /\ begun \in [Clients -> Nat]
    /\ \A c \in Clients : begun[c] <= MaxSent[c]
    /\ shut \in [Clients -> BOOLEAN] /\ patient \in [Clients -> BOOLEAN]

HeadersOK ==
    \A c \in Clients :
        /\ wpc[c] \in {"none", "queued", "headers", "close"} => Ends(raw[c]) = {}
        /\ wpc[c] \in {"body", "send"} => Ends(raw[c]) # {}

(* What a connection's step reads is in Pieces, what is left too.          *)
LEMMA ReceivePieces ==
    ASSUME NEW c \in Clients, NEW k \in 1 .. Len(wire[c]), Receive(c, k),
           raw \in [Clients -> Seq(Pieces)], wire \in [Clients -> Seq(Pieces)]
    PROVE  /\ raw' \in [Clients -> Seq(Pieces)]
           /\ wire' \in [Clients -> Seq(Pieces)]
           /\ \A d \in Clients \ {c} : raw'[d] = raw[d]
           /\ Ends(raw[c]) \subseteq Ends(raw'[c])
<1> DEFINE s == wire[c]  front == SubSeq(s, 1, k)  back == SubSeq(s, k + 1, Len(s))
<1>1. Len(s) \in Nat /\ \A i \in 1 .. Len(s) : s[i] \in Pieces
  BY LenProperties, ElementOfSeq
<1>2. front \in Seq(Pieces) /\ back \in Seq(Pieces)
  <2>1. \A i \in 1 .. k : s[i] \in Pieces
    BY <1>1
  <2>2. \A i \in k + 1 .. Len(s) : s[i] \in Pieces
    BY <1>1
  <2> HIDE DEF s
  <2>3. k \in Int /\ k + 1 \in Int /\ Len(s) \in Int
    BY <1>1 DEF s
  <2> QED  BY <2>1, <2>2, <2>3, SubSeqProperties
<1>3. /\ raw[c] \in Seq(Pieces) /\ raw[c] \o front \in Seq(Pieces)
      /\ Len(raw[c]) \in Nat /\ Len(front) \in Nat
      /\ Len(raw[c] \o front) = Len(raw[c]) + Len(front)
      /\ \A i \in 1 .. Len(raw[c]) : (raw[c] \o front)[i] = raw[c][i]
  BY <1>2, LenProperties, ConcatProperties
<1> HIDE DEF front, back
<1>4. /\ raw' = [raw EXCEPT ![c] = raw[c] \o front]
      /\ wire' = [wire EXCEPT ![c] = back]
  BY DEF Receive, front, back
<1>5. Ends(raw[c]) \subseteq Ends(raw[c] \o front)
  BY <1>3 DEF Ends
<1> QED  BY <1>2, <1>3, <1>4, <1>5

(* A response is one, whatever was read.                                   *)
LEMMA ReplyIsResponse ==
    ASSUME NEW s \in Seq(Pieces), Ends(s) # {}
    PROVE  <<[n |-> Parsed(s), short |-> Short(s)]>> \in Seq(Responses)
<1>1. Parsed(s) \in Nat
  <2>1. s[1] \in Pieces
    BY LenProperties, ElementOfSeq DEF Ends
  <2> QED  BY <2>1 DEF Parsed, Start, Pieces
<1>2. Short(s) \in BOOLEAN
  BY DEF Short
<1>3. [n |-> Parsed(s), short |-> Short(s)] \in Responses
  BY <1>1, <1>2 DEF Responses
<1> QED  BY <1>3

(* The pieces of a request with b pieces of a body, and all but the first. *)
Piece(n, b, close, i) ==
    IF i = 1 THEN Start(n)
    ELSE IF i = 2 THEN End(n, b, close) ELSE [part |-> "body", n |-> n]

Rest(n, b, close) ==
    <<End(n, b, close)>> \o [i \in 1 .. b |-> [part |-> "body", n |-> n]]

LEMMA RestOfRequest ==
    ASSUME NEW n \in Nat \ {0}, NEW b \in 0 .. MaxBody, NEW close \in BOOLEAN
    PROVE  /\ Rest(n, b, close) \in Seq(Pieces) /\ Len(Rest(n, b, close)) = b + 1
           /\ \A i \in 1 .. b + 1 : Rest(n, b, close)[i] = Piece(n, b, close, i + 1)
<1> DEFINE end == <<End(n, b, close)>>
           body == [i \in 1 .. b |-> [part |-> "body", n |-> n]]
           rest == end \o body
<1>1. b \in Nat
  BY HttpServerAssumption
<1>2. end \in Seq(Pieces) /\ Len(end) = 1 /\ end[1] = End(n, b, close)
  BY DEF End, Pieces
<1>3. /\ body \in Seq(Pieces) /\ Len(body) = b
      /\ \A i \in 1 .. b : body[i] = [part |-> "body", n |-> n]
  <2>1. [part |-> "body", n |-> n] \in Pieces
    BY DEF Pieces
  <2> QED  BY <1>1, <2>1
<1> HIDE DEF end, body
<1>4. /\ rest \in Seq(Pieces) /\ Len(rest) = 1 + b
      /\ \A i \in 1 .. 1 + b : rest[i] = IF i <= 1 THEN end[i] ELSE body[i - 1]
  <2>1. /\ rest \in Seq(Pieces) /\ Len(rest) = Len(end) + Len(body)
        /\ \A i \in 1 .. Len(end) + Len(body) :
              rest[i] = IF i <= Len(end) THEN end[i] ELSE body[i - Len(end)]
    <3>1. end \in Seq(Pieces) /\ body \in Seq(Pieces)
      BY <1>2, <1>3
    <3> QED  BY <3>1, ConcatProperties
  <2> HIDE DEF rest
  <2> QED  BY <1>2, <1>3, <2>1
<1> HIDE DEF rest
<1>5. ASSUME NEW i \in 1 .. b + 1 PROVE rest[i] = Piece(n, b, close, i + 1)
  <2>1. CASE i = 1
    BY <1>1, <1>2, <1>4, <2>1 DEF Piece
  <2>2. CASE i # 1
    <3>1. i - 1 \in 1 .. b /\ i + 1 # 1 /\ i + 1 # 2 /\ ~(i <= 1)
      BY <1>1, <2>2
    <3> QED  BY <1>1, <1>3, <1>4, <3>1 DEF Piece
  <2> QED  BY <2>1, <2>2
<1>6. Rest(n, b, close) = rest
  BY DEF Rest, rest, end, body
<1>7. 1 + b = b + 1
  BY <1>1
<1> QED  BY <1>4, <1>5, <1>6, <1>7

LEMMA BufferInit == Init => BufferTypeOK /\ ClientTypeOK /\ HeadersOK
<1> SUFFICES ASSUME Init PROVE BufferTypeOK /\ ClientTypeOK /\ HeadersOK
  OBVIOUS
<1>1. BufferTypeOK
  BY EmptySeq DEF Init, BufferTypeOK
<1>2. ClientTypeOK
  BY HttpServerAssumption DEF Init, ClientTypeOK
<1>3. Ends(<<>>) = {}
  BY DEF Ends
<1> QED  BY <1>1, <1>2, <1>3 DEF Init, HeadersOK

LEMMA MainKeepsBuffers ==
    ASSUME \/ RunStep \/ SetupFails \/ AcceptBreaks \/ UNCHANGED vars
           \/ \E s \in Signals : Interrupt(s) \/ HandlerStep(s)
    PROVE  UNCHANGED <<conn, peer>>
BY DEF RunStep, Listen, Expose, TestDone, CallAccept, Accept, AcceptFails,
       DispatchClient, TestFd, CloseListener, DestroyPool, PoolDestroyed,
       DestroyMembers, SetupFails, AcceptBreaks, Interrupt, HandlerStep, LoadFd,
       ClearFd, CloseFd, vars

LEMMA BufferStep ==
    ASSUME PoolTypeOK, LineOK, BufferTypeOK, ClientTypeOK, HeadersOK, [Next]_vars
    PROVE  BufferTypeOK' /\ HeadersOK'
<1> wpc \in [Clients -> {"none", "queued", "headers", "body", "send", "close",
                         "closed"}]
  BY DEF PoolTypeOK
<1> USE DEF BufferTypeOK
<1>1. ASSUME UNCHANGED <<conn, peer>> PROVE BufferTypeOK' /\ HeadersOK'
  BY <1>1 DEF conn, peer, HeadersOK
<1>2. CASE StartClient
  <2>1. Head(pending) \in Clients /\ wpc[Head(pending)] = "queued"
    <3>1. pending # <<>>
      BY <1>2 DEF StartClient, Pool!Start
    <3>2. /\ Head(pending) \in Clients /\ Head(pending) = pending[1]
          /\ Len(pending) \in Nat /\ Len(pending) > 0
      BY <3>1, HeadTailProperties, LenProperties, EmptySeq DEF PoolTypeOK
    <3> QED  BY <3>2 DEF LineOK, Waiting
  <2> QED  BY <1>2, <2>1 DEF StartClient, peer, HeadersOK
<1>3. ASSUME NEW c \in Clients, ReadHeaders(c) PROVE BufferTypeOK' /\ HeadersOK'
  <2>1. /\ raw' \in [Clients -> Seq(Pieces)] /\ wire' \in [Clients -> Seq(Pieces)]
        /\ \A d \in Clients \ {c} : raw'[d] = raw[d]
    BY <1>3, ReceivePieces DEF ReadHeaders
  <2>2. /\ wpc' = [wpc EXCEPT ![c] = IF Ends(raw'[c]) = {} THEN "headers" ELSE "body"]
        /\ UNCHANGED <<reply, todo, answers>>
    BY <1>3 DEF ReadHeaders
  <2> QED  BY <2>1, <2>2 DEF HeadersOK
<1>4. ASSUME NEW c \in Clients, NoHeaders(c) PROVE BufferTypeOK' /\ HeadersOK'
  BY <1>4 DEF NoHeaders, peer, HeadersOK
<1>5. ASSUME NEW c \in Clients, ReadBody(c) PROVE BufferTypeOK' /\ HeadersOK'
  <2>1. /\ raw' \in [Clients -> Seq(Pieces)] /\ wire' \in [Clients -> Seq(Pieces)]
        /\ \A d \in Clients \ {c} : raw'[d] = raw[d]
        /\ Ends(raw[c]) \subseteq Ends(raw'[c])
    BY <1>5, ReceivePieces DEF ReadBody
  <2>2. wpc[c] = "body" /\ UNCHANGED <<wpc, reply, todo, answers>>
    BY <1>5 DEF ReadBody
  <2> QED  BY <2>1, <2>2 DEF HeadersOK
<1>6. ASSUME NEW c \in Clients, Route(c) PROVE BufferTypeOK' /\ HeadersOK'
  <2>1. /\ wpc[c] = "body" /\ wpc' = [wpc EXCEPT ![c] = "send"]
        /\ UNCHANGED <<raw, peer>>
        /\ reply' = [reply EXCEPT ![c] =
                        <<[n |-> Parsed(raw[c]), short |-> Short(raw[c])]>>]
    BY <1>6 DEF Route
  <2>2. <<[n |-> Parsed(raw[c]), short |-> Short(raw[c])]>> \in Seq(Responses)
    BY <2>1, ReplyIsResponse DEF HeadersOK
  <2> QED  BY <2>1, <2>2 DEF HeadersOK, peer
<1>7. ASSUME NEW c \in Clients, Send(c) PROVE BufferTypeOK' /\ HeadersOK'
  <2>1. /\ wpc' = [wpc EXCEPT ![c] = IF Headers(raw[c]).close THEN "close" ELSE "headers"]
        /\ raw' = [raw EXCEPT ![c] = <<>>] /\ reply' = [reply EXCEPT ![c] = <<>>]
        /\ answers' = [answers EXCEPT ![c] = answers[c] \o reply[c]]
        /\ UNCHANGED <<wire, todo>>
    BY <1>7 DEF Send
  <2>2. answers[c] \o reply[c] \in Seq(Responses)
    BY ConcatProperties
  <2>3. Ends(<<>>) = {}
    BY DEF Ends
  <2> QED  BY <2>1, <2>2, <2>3 DEF HeadersOK
<1>8. ASSUME NEW c \in Clients, CloseClient(c) PROVE BufferTypeOK' /\ HeadersOK'
  BY <1>8 DEF CloseClient, HeadersOK
<1>9. ASSUME NEW c \in Clients, Connect(c) PROVE BufferTypeOK' /\ HeadersOK'
  BY <1>9 DEF Connect, HeadersOK, peer
<1>10. ASSUME NEW c \in Clients, BeginRequest(c) PROVE BufferTypeOK' /\ HeadersOK'
  <2>1. UNCHANGED <<conn, answers>>
    BY <1>10 DEF BeginRequest
  <2>2. wire' \in [Clients -> Seq(Pieces)]
    <3>1. Start(begun[c] + 1) \in Pieces
      BY DEF Start, Pieces, ClientTypeOK
    <3>2. Append(wire[c], Start(begun[c] + 1)) \in Seq(Pieces)
      BY <3>1, AppendProperties
    <3> QED  BY <1>10, <3>2 DEF BeginRequest
  <2>3. todo' \in [Clients -> Seq(Pieces)]
    <3>1. PICK b \in 0 .. MaxBody, close \in BOOLEAN :
            todo' = [todo EXCEPT ![c] = Rest(begun[c] + 1, b, close)]
      BY <1>10 DEF BeginRequest, Rest
    <3>2. begun[c] + 1 \in Nat \ {0}
      BY DEF ClientTypeOK
    <3> QED  BY <3>1, <3>2, RestOfRequest
  <2> QED  BY <2>1, <2>2, <2>3 DEF HeadersOK, conn
<1>11. ASSUME NEW c \in Clients, SendPiece(c) PROVE BufferTypeOK' /\ HeadersOK'
  <2>1. UNCHANGED <<conn, answers>>
    BY <1>11 DEF SendPiece
  <2>2. Head(todo[c]) \in Pieces /\ Tail(todo[c]) \in Seq(Pieces)
    BY <1>11, HeadTailProperties DEF SendPiece
  <2>3. Append(wire[c], Head(todo[c])) \in Seq(Pieces)
    BY <2>2, AppendProperties
  <2> QED  BY <1>11, <2>1, <2>2, <2>3 DEF SendPiece, HeadersOK, conn
<1>12. ASSUME NEW c \in Clients, HangUp(c) \/ StopReading(c)
       PROVE  BufferTypeOK' /\ HeadersOK'
  BY <1>12 DEF HangUp, StopReading, HeadersOK, conn
<1> QED
  BY <1>1, <1>2, <1>3, <1>4, <1>5, <1>6, <1>7, <1>8, <1>9, <1>10, <1>11, <1>12,
     MainKeepsBuffers, StepCases DEF WorkStep, WorkerStep, ReadOn

(* Only a worker that is sending waits for a client that does not read.    *)
StalledOK ==
    /\ stalled \subseteq Clients
    /\ \A c \in Clients : c \in stalled => wpc[c] = "send"

LEMMA StalledStep ==
    ASSUME PoolTypeOK, LineOK, StalledOK, [Next]_vars
    PROVE  StalledOK'
<1> wpc \in [Clients -> {"none", "queued", "headers", "body", "send", "close",
                         "closed"}]
  BY DEF PoolTypeOK
<1> USE DEF StalledOK
<1>1. ASSUME UNCHANGED <<wpc, stalled>> PROVE StalledOK'
  BY <1>1
<1>2. ASSUME NEW c \in Clients, wpc[c] # "send", UNCHANGED stalled,
             NEW p, wpc' = [wpc EXCEPT ![c] = p]
      PROVE  StalledOK'
  BY <1>2
<1>3. CASE StartClient
  <2>1. Head(pending) \in Clients /\ wpc[Head(pending)] = "queued"
    <3>1. pending # <<>>
      BY <1>3 DEF StartClient, Pool!Start
    <3>2. /\ Head(pending) \in Clients /\ Head(pending) = pending[1]
          /\ Len(pending) \in Nat /\ Len(pending) > 0
      BY <3>1, HeadTailProperties, LenProperties, EmptySeq DEF PoolTypeOK
    <3> QED  BY <3>2 DEF LineOK, Waiting
  <2> QED  BY <1>2, <1>3, <2>1 DEF StartClient, peer
<1>4. ASSUME NEW c \in Clients, Send(c) PROVE StalledOK'
  BY <1>4 DEF Send
<1>5. ASSUME NEW c \in Clients, StopReading(c) PROVE StalledOK'
  BY <1>5 DEF StopReading, conn
<1>6. ASSUME NEW c \in Clients,
             ReadHeaders(c) \/ NoHeaders(c) \/ Route(c) \/ CloseClient(c) \/ Connect(c)
      PROVE  StalledOK'
  BY <1>2, <1>6 DEF ReadHeaders, NoHeaders, Route, CloseClient, Connect, peer
<1>7. ASSUME NEW c \in Clients,
             ReadBody(c) \/ BeginRequest(c) \/ SendPiece(c) \/ HangUp(c)
      PROVE  StalledOK'
  BY <1>1, <1>7 DEF ReadBody, BeginRequest, SendPiece, HangUp, conn
<1>8. ASSUME UNCHANGED <<conn, peer>> PROVE StalledOK'
  BY <1>1, <1>8 DEF conn, peer
<1> QED
  BY <1>3, <1>4, <1>5, <1>6, <1>7, <1>8, MainKeepsBuffers, StepCases
     DEF WorkStep, WorkerStep, ReadOn

LEMMA ClientStep ==
    ASSUME ClientTypeOK, [Next]_vars
    PROVE  ClientTypeOK'
<1> USE DEF ClientTypeOK
<1>1. ASSUME UNCHANGED <<begun, shut, patient>> PROVE ClientTypeOK'
  BY <1>1
<1>2. ASSUME NEW c \in Clients, BeginRequest(c) PROVE ClientTypeOK'
  <2>1. /\ begun[c] < MaxSent[c] /\ begun' = [begun EXCEPT ![c] = begun[c] + 1]
        /\ UNCHANGED shut
    BY <1>2 DEF BeginRequest
  <2>2. patient' \in [Clients -> BOOLEAN]
    BY <1>2 DEF BeginRequest
  <2>3. begun' \in [Clients -> Nat] /\ \A d \in Clients : begun'[d] <= MaxSent[d]
    <3>1. /\ begun \in [Clients -> Nat] /\ \A d \in Clients : begun[d] <= MaxSent[d]
          /\ MaxSent \in [Clients -> Nat]
      BY HttpServerAssumption
    <3> HIDE DEF ClientTypeOK
    <3> QED  BY <2>1, <3>1
  <2> QED  BY <2>1, <2>2, <2>3
<1>3. ASSUME NEW c \in Clients, HangUp(c) PROVE ClientTypeOK'
  BY <1>3 DEF HangUp
<1>4. CASE StartClient
  BY <1>1, <1>4 DEF StartClient, peer
<1>5. ASSUME NEW c \in Clients,
             \/ WorkerStep(c) \/ Connect(c) \/ SendPiece(c)
             \/ StopReading(c) \/ ReadOn(c)
      PROVE  ClientTypeOK'
  BY <1>1, <1>5 DEF WorkerStep, ReadHeaders, NoHeaders, ReadBody, Route, Send,
                    CloseClient, Connect, SendPiece, StopReading, ReadOn, peer
<1>6. ASSUME UNCHANGED <<conn, peer>> PROVE ClientTypeOK'
  BY <1>1, <1>6 DEF peer
<1> QED
  BY <1>2, <1>3, <1>4, <1>5, <1>6, MainKeepsBuffers, StepCases DEF WorkStep

-----------------------------------------------------------------------------
(* The variables keep their types, for any number of clients and SIGINTs.  *)
ServerInv ==
    /\ RunTypeOK /\ SignalTypeOK
    /\ PoolTypeOK /\ LineOK
    /\ BufferTypeOK /\ ClientTypeOK /\ HeadersOK /\ StalledOK

LEMMA ServerInvInvariant == Spec => []ServerInv
<1>1. Init => ServerInv
  <2>1. Init => StalledOK
    BY DEF Init, StalledOK
  <2> QED  BY <2>1, MainTypeInit, LineInit, BufferInit DEF ServerInv
<1>2. ServerInv /\ [Next]_vars => ServerInv'
  <2> SUFFICES ASSUME ServerInv, [Next]_vars PROVE ServerInv'
    OBVIOUS
  <2>1. RunTypeOK' /\ SignalTypeOK'
    BY RunTypeStep, SignalTypeStep DEF ServerInv, PoolTypeOK
  <2>2. PoolTypeOK' /\ LineOK'
    BY LineStep DEF ServerInv
  <2>3. BufferTypeOK' /\ ClientTypeOK' /\ HeadersOK' /\ StalledOK'
    BY BufferStep, ClientStep, StalledStep DEF ServerInv
  <2> QED  BY <2>1, <2>2, <2>3 DEF ServerInv
<1> QED  BY <1>1, <1>2, PTL DEF Spec

(* Every variable of HttpServer.cpp's model keeps its type; in particular  *)
(* the connections that workers hold are the pool's active tasks, and a    *)
(* worker begins every request with an empty buffer (HttpServer.cpp:167).  *)
THEOREM TypeInvariant == Spec => []TypeOK
<1>1. ServerInv => TypeOK
  <2> SUFFICES ASSUME ServerInv PROVE TypeOK
    OBVIOUS
  <2>1. /\ \A c \in Clients :
            /\ raw[c] \in Seq(Pieces) /\ wire[c] \in Seq(Pieces)
            /\ todo[c] \in Seq(Pieces)
            /\ reply[c] \in Seq([n : Nat, short : BOOLEAN])
            /\ answers[c] \in Seq([n : Nat, short : BOOLEAN])
    BY DEF ServerInv, BufferTypeOK, Responses
  <2>2. \A c \in Clients : begun[c] \in 0 .. MaxSent[c]
    BY HttpServerAssumption DEF ServerInv, ClientTypeOK
  <2>3. \A c \in Clients : shut[c] \in BOOLEAN /\ patient[c] \in BOOLEAN
    BY DEF ServerInv, ClientTypeOK
  <2>4. \A c \in Clients :
            /\ wpc[c] \in {"headers", "close"} => Ends(raw[c]) = {}
            /\ wpc[c] \in {"headers", "body", "send", "close"} <=> c \in active
            /\ c \in stalled => wpc[c] = "send"
    BY DEF ServerInv, HeadersOK, LineOK, StalledOK
  <2>5. {members, g_done, g_listen_fd, failed} \subseteq BOOLEAN
    BY DEF ServerInv, SignalTypeOK
  <2>6. /\ hpc \in [Signals -> {"none", "load", "clear", "close", "returned"}]
        /\ on \in [Signals -> {"none", "main", "other"}]
    BY DEF ServerInv, SignalTypeOK
  <2> QED
    BY <2>1, <2>2, <2>3, <2>4, <2>5, <2>6
       DEF TypeOK, ServerInv, RunTypeOK, PoolTypeOK
<1> QED  BY <1>1, ServerInvInvariant, PTL

-----------------------------------------------------------------------------
(* ShortOnlyIfCutOff also holds of the response that is about to be sent.  *)
Excused(c) == shut[c] \/ g_done

ShortInv ==
    \A c \in Clients :
        /\ \A i \in 1 .. Len(reply[c]) : reply[c][i].short => Excused(c)
        /\ \A i \in 1 .. Len(answers[c]) : answers[c][i].short => Excused(c)

LEMMA ExcuseLasts ==
    ASSUME ServerInv, [Next]_vars, NEW c \in Clients, Excused(c)
    PROVE  Excused(c)'
<1>1. g_done => g_done'
  BY WorkKeepsMain, StepCases
     DEF RunStep, Listen, Expose, TestDone, CallAccept, Accept, AcceptFails,
         DispatchClient, TestFd, CloseListener, DestroyPool, PoolDestroyed,
         DestroyMembers, SetupFails, AcceptBreaks, Interrupt, HandlerStep, LoadFd,
         ClearFd, CloseFd, flags, vars
<1>2. shut[c] => shut'[c]
  <2>1. shut \in [Clients -> BOOLEAN]
    BY DEF ServerInv, ClientTypeOK
  <2>2. CASE UNCHANGED <<conn, peer>>
    BY <2>2 DEF peer
  <2>3. CASE WorkStep
    BY <2>1, <2>3 DEF WorkStep, StartClient, WorkerStep, ReadHeaders, NoHeaders,
                      ReadBody, Route, Send, CloseClient, Connect, BeginRequest,
                      SendPiece, HangUp, StopReading, ReadOn, peer
  <2> QED  BY <2>2, <2>3, MainKeepsBuffers, StepCases
<1> QED  BY <1>1, <1>2 DEF Excused

LEMMA ShortStep ==
    ASSUME ServerInv, ShortInv, [Next]_vars
    PROVE  ShortInv'
<1>0. /\ reply \in [Clients -> Seq(Responses)]
      /\ answers \in [Clients -> Seq(Responses)]
  BY DEF ServerInv, BufferTypeOK
<1>1. ASSUME UNCHANGED <<reply, answers>> PROVE ShortInv'
  BY <1>1, ExcuseLasts DEF ShortInv
<1>2. ASSUME NEW c \in Clients, Route(c) PROVE ShortInv'
  <2> DEFINE r == [n |-> Parsed(raw[c]), short |-> Short(raw[c])]
  <2>1. /\ reply' = [reply EXCEPT ![c] = <<r>>]
        /\ UNCHANGED answers
    BY <1>2 DEF Route, peer
  <2>2. r.short => Excused(c)'
    <3>1. Short(raw[c]) => Excused(c)
      BY <1>2 DEF Route, Cut, Excused
    <3> QED  BY <3>1, ExcuseLasts
  <2> HIDE DEF r
  <2>3. \A i \in 1 .. Len(<<r>>) : <<r>>[i] = r
    OBVIOUS
  <2> QED  BY <1>0, <2>1, <2>2, <2>3, ExcuseLasts DEF ShortInv
<1>3. ASSUME NEW c \in Clients, Send(c) PROVE ShortInv'
  <2>1. /\ reply' = [reply EXCEPT ![c] = <<>>]
        /\ answers' = [answers EXCEPT ![c] = answers[c] \o reply[c]]
    BY <1>3 DEF Send
  <2> DEFINE all == answers[c] \o reply[c]  m == Len(answers[c])  n == Len(reply[c])
  <2>2. \A i \in 1 .. Len(all) : all[i].short => Excused(c)'
    <3>1. /\ m \in Nat /\ n \in Nat /\ Len(all) = m + n
          /\ \A i \in 1 .. m : all[i] = answers[c][i]
          /\ \A i \in m + 1 .. m + n : all[i] = reply[c][i - m]
      BY <1>0, LenProperties, ConcatProperties
    <3>2. \A i \in 1 .. m : answers[c][i].short => Excused(c)'
      BY ExcuseLasts DEF ShortInv
    <3>3. \A i \in 1 .. n : reply[c][i].short => Excused(c)'
      BY ExcuseLasts DEF ShortInv
    <3> HIDE DEF all, m, n
    <3> SUFFICES ASSUME NEW i \in 1 .. Len(all)
                 PROVE  all[i].short => Excused(c)'
      OBVIOUS
    <3>4. i \in 1 .. m \/ (i \in m + 1 .. m + n /\ i - m \in 1 .. n)
      BY <3>1
    <3> QED  BY <3>1, <3>2, <3>3, <3>4, Zenon
  <2>3. \A i \in 1 .. Len(<<>>) : FALSE
    OBVIOUS
  <2> QED  BY <1>0, <2>1, <2>2, <2>3, ExcuseLasts DEF ShortInv
<1>4. CASE StartClient
  BY <1>1, <1>4 DEF StartClient, peer
<1>5. ASSUME NEW c \in Clients,
             \/ ReadHeaders(c) \/ NoHeaders(c) \/ ReadBody(c) \/ CloseClient(c)
             \/ Connect(c) \/ BeginRequest(c) \/ SendPiece(c) \/ HangUp(c)
             \/ StopReading(c)
      PROVE  ShortInv'
  BY <1>1, <1>5 DEF ReadHeaders, NoHeaders, ReadBody, CloseClient, Connect,
                    BeginRequest, SendPiece, HangUp, StopReading, peer, conn
<1>6. ASSUME UNCHANGED <<conn, peer>> PROVE ShortInv'
  BY <1>1, <1>6 DEF peer, conn
<1> QED
  BY <1>2, <1>3, <1>4, <1>5, <1>6, MainKeepsBuffers, StepCases
     DEF WorkStep, WorkerStep, ReadOn

(* ReadBody waits for the whole body (HttpServer.cpp:177-205): a request   *)
(* is handled with less of it only if the client has hung up or the server *)
(* has been told to stop, with any number of clients, pieces and SIGINTs.  *)
THEOREM SlowBodiesAreWaitedFor == Spec => []ShortOnlyIfCutOff
<1>1. Init => ShortInv
  BY DEF Init, ShortInv
<1>2. ServerInv /\ ShortInv /\ [Next]_vars => ShortInv'
  BY ShortStep
<1>3. ShortInv => ShortOnlyIfCutOff
  BY DEF ShortInv, ShortOnlyIfCutOff, Excused
<1> QED  BY <1>1, <1>2, <1>3, ServerInvInvariant, PTL DEF Spec

-----------------------------------------------------------------------------
(* The pool is gone, and with it every task, before the members go.        *)
DestroyInv ==
    /\ phase = "gone" => pending = <<>> /\ active = {}
    /\ rpc \in {"joined", "exited"} => phase = "gone"
    /\ ~members => rpc = "exited"

LEMMA DestroyStep ==
    ASSUME DestroyInv, [Next]_vars
    PROVE  DestroyInv'
<1> USE DEF DestroyInv
<1>1. CASE \/ Listen \/ Expose \/ TestDone \/ CallAccept \/ AcceptFails \/ TestFd
           \/ CloseListener \/ SetupFails \/ AcceptBreaks
           \/ \E c \in Clients : Accept(c)
  BY <1>1 DEF Listen, Expose, TestDone, CallAccept, AcceptFails, TestFd, At, Return,
              CloseListener, SetupFails, AcceptBreaks, Accept, pool
<1>2. CASE DispatchClient \/ DestroyPool \/ PoolDestroyed \/ DestroyMembers
  BY <1>2 DEF DispatchClient, DestroyPool, PoolDestroyed, DestroyMembers, At,
              Pool!Submit, Pool!Close, Pool!Return, pool
<1>3. ASSUME NEW s \in Signals, Interrupt(s) \/ HandlerStep(s) PROVE DestroyInv'
  BY <1>3 DEF Interrupt, HandlerStep, LoadFd, ClearFd, CloseFd, Leave, pool, main
<1>4. CASE StartClient
  BY <1>4 DEF StartClient, Pool!Start, main
<1>5. ASSUME NEW c \in Clients, CloseClient(c) PROVE DestroyInv'
  BY <1>5 DEF CloseClient, Pool!Complete, main
<1>6. ASSUME NEW c \in Clients,
             \/ ReadHeaders(c) \/ NoHeaders(c) \/ ReadBody(c) \/ Route(c) \/ Send(c)
             \/ Connect(c) \/ BeginRequest(c) \/ SendPiece(c) \/ HangUp(c)
             \/ StopReading(c)
      PROVE  DestroyInv'
  BY <1>6 DEF ReadHeaders, NoHeaders, ReadBody, Route, Send, Connect, BeginRequest,
              SendPiece, HangUp, StopReading, pool, main
<1>7. CASE UNCHANGED vars
  BY <1>7 DEF vars, pool, main
<1> QED
  BY <1>1, <1>2, <1>3, <1>4, <1>5, <1>6, <1>7 DEF Next, RunStep, WorkerStep, ReadOn

(* HttpServer.hpp:44: m_pool is "destroyed first, joining threads before   *)
(* m_index", for any number of connections that are being served, queue    *)
(* for a worker or have just been accepted when the destructor runs.       *)
THEOREM MembersOutlive == Spec => []MembersOutliveWorkers
<1>1. Init => DestroyInv
  BY DEF Init, DestroyInv
<1>2. DestroyInv /\ [Next]_vars => DestroyInv'
  BY DestroyStep
<1>3. ServerInv /\ DestroyInv => MembersOutliveWorkers
  <2> SUFFICES ASSUME ServerInv, DestroyInv, ~members, NEW c \in Clients
               PROVE  wpc[c] \in {"none", "closed"} \/ c \in backlog
    BY DEF MembersOutliveWorkers
  <2>1. pending = <<>> /\ active = {} /\ got = NoClient
    BY DEF DestroyInv, ServerInv, RunTypeOK
  <2>2. Waiting = {}
    <3>1. 1 .. Len(pending) = {}
      BY <2>1
    <3> QED  BY <3>1 DEF Waiting
  <2>3. c # NoClient
    BY HttpServerAssumption
  <2>4. wpc[c] \in {"none", "queued", "headers", "body", "send", "close", "closed"}
    BY DEF ServerInv, PoolTypeOK
  <2>5. /\ wpc[c] = "queued" => c \in backlog
        /\ wpc[c] \notin {"headers", "body", "send", "close"}
    BY <2>1, <2>2, <2>3 DEF ServerInv, LineOK
  <2> QED  BY <2>4, <2>5
<1> QED  BY <1>1, <1>2, <1>3, ServerInvInvariant, PTL DEF Spec

-----------------------------------------------------------------------------
(* Who closes the listening socket, as long as one SIGINT has come and no  *)
(* error has ended Run.  The handler has Run's thread to itself.  Between  *)
(* listen and the end of the loop, g_listen_fd says whether the socket is  *)
(* still to be closed, except while the handler is about to clear it or to *)
(* close; after the loop no handler runs and none starts.                  *)
Looping == {"test", "accept", "blocked", "failing", "dispatch"}
Ended == {"returned", "joining", "joined", "exited"}

Alone == \A s, t \in Interrupted : s = t

Quiet == \A s \in Signals : hpc[s] \notin {"clear", "close"}

ListenerAgreed ==
    /\ \A s \in Interrupted : on[s] = "main"
    /\ \A s \in Signals : hpc[s] = "none" => on[s] = "none"
    /\ Interrupted # {} <=> g_done
    /\ rpc \in {"setup", "expose"} => Quiet /\ ~g_listen_fd /\ closes = 0
    /\ rpc \in Looping \cup {"leave"} /\ Quiet =>
            (g_listen_fd => closes = 0) /\ (~g_listen_fd => closes = 1)
    /\ \A s \in Signals : hpc[s] = "clear" =>
            rpc \in Looping /\ g_listen_fd /\ closes = 0
    /\ \A s \in Signals : hpc[s] = "close" =>
            rpc \in Looping /\ ~g_listen_fd /\ closes = 0
    /\ rpc \in {"leave", "close"} \cup Ended => g_done /\ ~Handling("main")
    /\ rpc = "close" => closes = 0
    /\ rpc \in Ended => closes = 1
    /\ code = "EXIT_SUCCESS" => rpc \in Ended

ListenerInv == ~failed /\ Alone => ListenerAgreed

(* With at most one SIGINT, Interrupted has at most one element.           *)
LEMMA OneIsAlone == Cardinality(Interrupted) <= 1 => Alone
<1> SUFFICES ASSUME Cardinality(Interrupted) <= 1 PROVE Alone
  OBVIOUS
<1>1. IsFiniteSet(Interrupted) /\ Cardinality(Interrupted) \in Nat
  <2>1. Interrupted \in SUBSET Signals
    BY DEF Interrupted
  <2>2. IsFiniteSet(Interrupted)
    BY <2>1, FS_Subset, HttpServerAssumption
  <2> QED  BY <2>2, FS_CardinalityType
<1>2. Cardinality(Interrupted) = 0 \/ Cardinality(Interrupted) = 1
  BY <1>1
<1>3. Interrupted = {} \/ \E x : Interrupted = {x}
  BY <1>1, <1>2, FS_EmptySet, FS_Singleton
<1> QED  BY <1>3 DEF Alone

LEMMA ListenerInit == Init => ListenerInv
<1> SUFFICES ASSUME Init PROVE ListenerInv
  OBVIOUS
<1>1. Interrupted = {} /\ \A s \in Signals : hpc[s] = "none"
  BY DEF Init, Interrupted
<1> QED  BY <1>1 DEF Init, ListenerInv, ListenerAgreed, Quiet, Looping, Ended

(* What a step leaves unchanged keeps the invariant.                       *)
LEMMA ListenerFrame ==
    ASSUME ListenerInv, UNCHANGED <<main, flags, handlers>>
    PROVE  ListenerInv'
<1>1. Interrupted' = Interrupted /\ Quiet' = Quiet
      /\ Handling("main")' = Handling("main")
  BY DEF handlers, Interrupted, Quiet, Handling
<1> QED
  BY <1>1 DEF ListenerInv, ListenerAgreed, Alone, main, flags, handlers

(* Run's steps, none of which is taken while the handler has its thread.   *)
LEMMA ListenerRun ==
    ASSUME RunTypeOK, SignalTypeOK, ListenerInv,
           RunStep \/ SetupFails \/ AcceptBreaks
    PROVE  ListenerInv'
<1>1. /\ UNCHANGED <<g_done, hpc, on>>
      /\ ~failed' => ~failed
  <2>1. CASE AcceptFails
    BY <2>1 DEF AcceptFails, flags, handlers
  <2>2. CASE ~AcceptFails
    BY <2>2 DEF RunStep, Listen, Expose, TestDone, CallAccept, Accept, DispatchClient,
                TestFd, CloseListener, DestroyPool, PoolDestroyed, DestroyMembers,
                SetupFails, AcceptBreaks, flags, handlers
  <2> QED  BY <2>1, <2>2
<1>2. /\ Interrupted' = Interrupted /\ Alone' = Alone /\ Quiet' = Quiet
      /\ Handling("main")' = Handling("main")
  BY <1>1 DEF Interrupted, Alone, Quiet, Handling
<1> SUFFICES ASSUME ~failed', Alone PROVE ListenerAgreed'
  BY <1>2 DEF ListenerInv
<1>3. ListenerAgreed /\ ~failed
  BY <1>1 DEF ListenerInv
<1>4. ~Handling("main")
  BY DEF RunStep, Listen, Expose, TestDone, CallAccept, Accept, AcceptFails,
         DispatchClient, TestFd, CloseListener, DestroyPool, PoolDestroyed,
         DestroyMembers, SetupFails, AcceptBreaks, At
<1>5. Quiet
  BY <1>3, <1>4 DEF Quiet, Handling, ListenerAgreed, Interrupted
<1>6. /\ Quiet' /\ ~Handling("main")'
      /\ \A s \in Signals : hpc'[s] \notin {"clear", "close"}
      /\ \A s \in Interrupted' : on'[s] = "main"
      /\ \A s \in Signals : hpc'[s] = "none" => on'[s] = "none"
      /\ Interrupted' # {} <=> g_done'
      /\ g_done => g_done'
  BY <1>1, <1>2, <1>3, <1>4, <1>5 DEF ListenerAgreed, Quiet
<1> USE <1>3, <1>5, <1>6 DEF ListenerAgreed, Looping, Ended, At, Return
<1>7. CASE Listen \/ Expose
  BY <1>7 DEF Listen, Expose, flags
<1>8. CASE TestDone
  <2>1. /\ rpc = "test" /\ UNCHANGED <<g_listen_fd, closes, code>>
        /\ (rpc' = "leave" /\ g_done) \/ rpc' = "accept"
    BY <1>8 DEF TestDone, flags
  <2> QED  BY <2>1
<1>9. CASE CallAccept
  BY <1>9 DEF CallAccept, flags
<1>10. ASSUME NEW c \in Clients, Accept(c) PROVE ListenerAgreed'
  BY <1>10 DEF Accept, flags
<1>11. CASE AcceptBreaks \/ DispatchClient
  BY <1>11 DEF AcceptBreaks, DispatchClient, flags
<1>12. CASE AcceptFails
  <2>1. /\ rpc = "failing" /\ rpc' = "leave" /\ g_done
        /\ UNCHANGED <<g_listen_fd, closes, code>>
    BY <1>12 DEF AcceptFails, flags
  <2> QED  BY <2>1
<1>13. CASE TestFd
  BY <1>13 DEF TestFd, flags
<1>14. CASE CloseListener
  BY <1>14 DEF CloseListener, flags
<1>15. CASE DestroyPool \/ PoolDestroyed \/ DestroyMembers
  BY <1>15 DEF DestroyPool, PoolDestroyed, DestroyMembers, flags
<1>16. CASE SetupFails
  BY <1>16 DEF SetupFails
<1> QED
  BY <1>7, <1>8, <1>9, <1>10, <1>11, <1>12, <1>13, <1>14, <1>15, <1>16 DEF RunStep

(* The handler's steps.                                                    *)
LEMMA ListenerHandler ==
    ASSUME RunTypeOK, SignalTypeOK, ListenerInv, NEW s \in Signals,
           Interrupt(s) \/ HandlerStep(s)
    PROVE  ListenerInv'
<1>1. /\ UNCHANGED <<failed, code>>
      /\ Interrupted \subseteq Interrupted' /\ s \in Interrupted'
  BY DEF Interrupt, HandlerStep, LoadFd, ClearFd, CloseFd, Leave, main, Interrupted,
         SignalTypeOK
<1> SUFFICES ASSUME ~failed, Alone' PROVE ListenerAgreed'
  BY <1>1 DEF ListenerInv
<1>2. ListenerAgreed /\ Interrupted' = {s}
  BY <1>1 DEF ListenerInv, Alone
<1>3. \A t \in Signals \ {s} : hpc'[t] = "none" /\ hpc[t] = "none"
  BY <1>1, <1>2 DEF Interrupted
<1> USE <1>1, <1>2, <1>3 DEF ListenerAgreed, Looping, Ended, Quiet, Handling, SignalTypeOK
<1>4. CASE Interrupt(s)
  <2>1. Interrupted = {} /\ ~g_done
    BY <1>4 DEF Interrupt, Interrupted
  <2>2. /\ hpc' = [hpc EXCEPT ![s] = "load"] /\ g_done'
        /\ on' = [on EXCEPT ![s] = "main"]
        /\ UNCHANGED <<rpc, code, closes, g_listen_fd>>
    <3> HIDE DEF Handling
    <3>1. on' = [on EXCEPT ![s] = IF Handling("main") THEN "other" ELSE "main"]
      BY <1>4 DEF Interrupt
    <3>2. ~Handling("main")
      BY <1>2, <2>1 DEF Handling, Interrupted, ListenerAgreed
    <3>3. /\ hpc' = [hpc EXCEPT ![s] = "load"] /\ g_done'
          /\ UNCHANGED <<rpc, code, closes, g_listen_fd>>
      BY <1>4 DEF Interrupt, main
    <3> QED  BY <3>1, <3>2, <3>3
  <2>3. rpc \notin {"leave", "close", "returned", "joining", "joined", "exited"}
    BY <1>2, <2>1, Zenon
  <2>4. Quiet' /\ on'[s] = "main" /\ hpc'[s] = "load" /\ Interrupted' # {}
    BY <2>1, <2>2
  <2>5. (closes = 0 /\ ~g_listen_fd) \/ rpc \in Looping
    BY <2>1, <2>3 DEF RunTypeOK
  <2> HIDE DEF SignalTypeOK, Quiet
  <2>6. Quiet
    BY <2>1 DEF Quiet, Interrupted
  <2> QED  BY <2>1, <2>2, <2>3, <2>4, <2>5, <2>6
<1>5. CASE LoadFd(s)
  <2>1. on[s] = "main" /\ Handling("main") /\ Quiet /\ g_done
    BY <1>5 DEF LoadFd, Interrupted
  <2>2. UNCHANGED <<code, closes, on, g_done, g_listen_fd>>
    BY <1>5 DEF LoadFd, flags
  <2>3. CASE g_listen_fd
    <3>1. hpc' = [hpc EXCEPT ![s] = "clear"] /\ UNCHANGED rpc
      BY <1>5, <2>3 DEF LoadFd
    <3>2. rpc \in Looping /\ closes = 0
      BY <2>1, <2>3 DEF RunTypeOK
    <3> QED  BY <2>1, <2>2, <2>3, <3>1, <3>2
  <2>4. CASE ~g_listen_fd
    <3>1. /\ hpc' = [hpc EXCEPT ![s] = "returned"]
          /\ rpc' = rpc \/ (rpc = "blocked" /\ rpc' = "failing")
      BY <1>5, <2>4 DEF LoadFd, Leave
    <3> QED  BY <2>1, <2>2, <2>4, <3>1
  <2> QED  BY <2>3, <2>4
<1>6. CASE ClearFd(s)
  BY <1>6 DEF ClearFd, main, Interrupted
<1>7. CASE CloseFd(s)
  BY <1>7 DEF CloseFd, Leave, flags, Interrupted
<1> QED  BY <1>4, <1>5, <1>6, <1>7 DEF HandlerStep

(* One SIGINT, wherever in Run it arrives, and a working accept: the       *)
(* handler (HttpServer.cpp:42-48) and the end of Run (547-550) agree on    *)
(* who closes the listening socket, and one of them does.                  *)
THEOREM OneClosesListener == Spec => []ListenerClosedByOne
<1>1. ServerInv /\ ListenerInv /\ [Next]_vars => ListenerInv'
  <2> SUFFICES ASSUME ServerInv, ListenerInv, [Next]_vars PROVE ListenerInv'
    OBVIOUS
  <2>1. CASE WorkStep \/ UNCHANGED vars
    BY <2>1, WorkKeepsMain, ListenerFrame DEF vars
  <2> QED  BY <2>1, ListenerRun, ListenerHandler, StepCases DEF ServerInv
<1>2. ServerInv /\ ListenerInv => ListenerClosedByOne
  <2> SUFFICES ASSUME ServerInv, ListenerInv, ~failed, Cardinality(Interrupted) <= 1
               PROVE  closes <= 1 /\ (code = "EXIT_SUCCESS" => closes = 1)
    BY DEF ListenerClosedByOne
  <2>1. ListenerAgreed
    BY OneIsAlone DEF ListenerInv
  <2> QED
    BY <2>1 DEF ListenerAgreed, Looping, Ended, ServerInv, RunTypeOK, Quiet
<1> QED  BY <1>1, <1>2, ListenerInit, ServerInvInvariant, PTL DEF Spec

-----------------------------------------------------------------------------
(* A patient client's bytes.  Unless an answer was short, all that its     *)
(* connection holds is what is left of the one request it has begun: the   *)
(* first pieces are in raw, the next in wire, the last in todo.            *)
Sent(c, b, close) ==
    /\ begun[c] = Len(answers[c]) + 1
    /\ Len(raw[c]) + Len(wire[c]) + Len(todo[c]) = b + 2
    /\ \A i \in 1 .. Len(raw[c]) : raw[c][i] = Piece(begun[c], b, close, i)
    /\ \A i \in 1 .. Len(wire[c]) :
            wire[c][i] = Piece(begun[c], b, close, Len(raw[c]) + i)
    /\ \A i \in 1 .. Len(todo[c]) :
            todo[c][i] = Piece(begun[c], b, close, Len(raw[c]) + Len(wire[c]) + i)

UnderWay(c) == \E b \in Nat, close \in BOOLEAN : Sent(c, b, close)

Idle(c) ==
    begun[c] = Len(answers[c]) /\ raw[c] = <<>> /\ wire[c] = <<>> /\ todo[c] = <<>>

Answering(c) ==
    /\ begun[c] = Len(answers[c]) + 1
    /\ Len(reply[c]) = 1 /\ reply[c][1].n = begun[c]
    /\ ~reply[c][1].short => wire[c] = <<>> /\ todo[c] = <<>>

Straight(c) == patient[c] /\ \A i \in 1 .. Len(answers[c]) : ~answers[c][i].short

Follows(c) ==
    \A i \in 1 .. Len(answers[c]) :
        answers[c][i].n = i \/ \E j \in 1 .. i - 1 : answers[c][j].short

AnswerInv(c) ==
    /\ patient[c] => Follows(c)
    /\ Straight(c) /\ wpc[c] \in {"none", "queued", "headers", "body"} =>
            Idle(c) \/ UnderWay(c)
    /\ Straight(c) /\ wpc[c] = "send" => Answering(c)

(* Pieces of one request whose headers have ended are parsed as it is, and *)
(* are short if some are missing.                                          *)
LEMMA ParsedRequest ==
    ASSUME NEW s \in Seq(Pieces), NEW n \in Nat \ {0}, NEW b \in Nat,
           NEW close \in BOOLEAN,
           \A i \in 1 .. Len(s) : s[i] = Piece(n, b, close, i), Ends(s) # {}
    PROVE  Parsed(s) = n /\ (Short(s) <=> Len(s) < b + 2)
<1>0. Len(s) \in Nat
  BY LenProperties
<1>1. \A i \in 1 .. Len(s) : s[i].part = "end" <=> i = 2
  BY DEF Piece, Start, End
<1>2. Ends(s) = {2}
  BY <1>1 DEF Ends
<1>3. HeadersEnd(s) = 2
  BY <1>2 DEF HeadersEnd
<1>4. 1 \in 1 .. Len(s) /\ 2 \in 1 .. Len(s)
  BY <1>0, <1>2 DEF Ends
<1>5. s[1] = Start(n) /\ s[2] = End(n, b, close)
  BY <1>4 DEF Piece
<1>6. Headers(s).n = n /\ Headers(s).body = b
  BY <1>3, <1>5 DEF Headers, End
<1>7. Parsed(s) = n
  BY <1>3, <1>5, <1>6 DEF Parsed, Start
<1>8. Short(s) <=> Len(s) < b + 2
  BY <1>0, <1>3, <1>6 DEF Short
<1> QED  BY <1>7, <1>8

(* Reading moves the first pieces of wire behind raw.                      *)
LEMMA ReceiveParts ==
    ASSUME NEW r \in Seq(Pieces), NEW w \in Seq(Pieces), NEW k \in 1 .. Len(w),
           NEW r2, NEW w2,
           r2 = r \o SubSeq(w, 1, k), w2 = SubSeq(w, k + 1, Len(w))
    PROVE  /\ Len(r) \in Nat /\ Len(w) \in Nat
           /\ Len(r2) = Len(r) + k /\ Len(w2) = Len(w) - k
           /\ \A i \in 1 .. Len(r) : r2[i] = r[i]
           /\ \A i \in Len(r) + 1 .. Len(r) + k : r2[i] = w[i - Len(r)]
           /\ \A i \in 1 .. Len(w) - k : w2[i] = w[k + i]
<1>1. Len(r) \in Nat /\ Len(w) \in Nat /\ \A i \in 1 .. Len(w) : w[i] \in Pieces
  BY LenProperties, ElementOfSeq
<1>2. \A i \in 1 .. k : w[i] \in Pieces
  BY <1>1
<1>3. \A i \in k + 1 .. Len(w) : w[i] \in Pieces
  BY <1>1
<1>4. /\ SubSeq(w, 1, k) \in Seq(Pieces) /\ Len(SubSeq(w, 1, k)) = k
      /\ \A i \in 1 .. k : SubSeq(w, 1, k)[i] = w[i]
  BY <1>1, <1>2, SubSeqProperties
<1>5. /\ Len(SubSeq(w, k + 1, Len(w))) = Len(w) - k
      /\ \A i \in 1 .. Len(w) - k : SubSeq(w, k + 1, Len(w))[i] = w[k + i]
  BY <1>1, <1>3, SubSeqProperties
<1> DEFINE a == SubSeq(w, 1, k)
<1>6. /\ Len(r \o a) = Len(r) + k
      /\ \A i \in 1 .. Len(r) : (r \o a)[i] = r[i]
      /\ \A i \in Len(r) + 1 .. Len(r) + k : (r \o a)[i] = w[i - Len(r)]
  <2>1. a \in Seq(Pieces) /\ Len(a) = k /\ \A i \in 1 .. k : a[i] = w[i]
    BY <1>4
  <2> HIDE DEF a
  <2> DEFINE both == r \o a
  <2>2. /\ Len(both) = Len(r) + Len(a)
        /\ \A i \in 1 .. Len(r) + Len(a) :
              both[i] = IF i <= Len(r) THEN r[i] ELSE a[i - Len(r)]
    BY <2>1, ConcatProperties
  <2> HIDE DEF both
  <2>3. \A i \in 1 .. Len(r) : both[i] = r[i]
    BY <1>1, <2>1, <2>2
  <2>4. \A i \in Len(r) + 1 .. Len(r) + k : both[i] = w[i - Len(r)]
    <3>1. \A i \in Len(r) + 1 .. Len(r) + k : i - Len(r) \in 1 .. k
      BY <1>1
    <3>2. \A i \in Len(r) + 1 .. Len(r) + k : both[i] = a[i - Len(r)]
      BY <1>1, <2>1, <2>2
    <3> QED  BY <2>1, <3>1, <3>2
  <2> QED  BY <2>1, <2>2, <2>3, <2>4 DEF both
<1> QED  BY <1>1, <1>5, <1>6

Early == {"none", "queued", "headers", "body"}

(* A connection keeps AnswerInv while its buffers stay as they are and it  *)
(* stays before its answer, or is closed.                                  *)
LEMMA SameBuffers ==
    ASSUME NEW c \in Clients, AnswerInv(c),
           raw'[c] = raw[c], wire'[c] = wire[c], todo'[c] = todo[c],
           reply'[c] = reply[c], answers'[c] = answers[c],
           begun'[c] = begun[c], patient'[c] = patient[c],
           \/ wpc'[c] = wpc[c]
           \/ wpc[c] \in Early /\ wpc'[c] \in Early
           \/ wpc'[c] \in {"close", "closed"}
    PROVE  AnswerInv(c)'
<1>1. /\ Straight(c)' = Straight(c) /\ Follows(c)' = Follows(c)
      /\ Idle(c)' = Idle(c) /\ Answering(c)' = Answering(c)
      /\ UnderWay(c)' = UnderWay(c)
  BY DEF Straight, Follows, Idle, Answering, UnderWay, Sent
<1> QED  BY <1>1 DEF AnswerInv, Early

(* The responses of a connection that has not been answered again.         *)
LEMMA SameAnswers ==
    ASSUME NEW c \in Clients, AnswerInv(c), answers'[c] = answers[c],
           patient'[c] => patient[c]
    PROVE  /\ patient'[c] => Follows(c)'
           /\ Straight(c)' => Straight(c)
BY DEF AnswerInv, Follows, Straight

(* ReadHeaders and ReadBody.                                               *)
LEMMA AnswerReceive ==
    ASSUME ServerInv, NEW c \in Clients, AnswerInv(c),
           NEW k \in 1 .. Len(wire[c]), Receive(c, k),
           wpc[c] \in Early, wpc'[c] \in {"headers", "body"},
           UNCHANGED <<todo, begun, answers, patient>>
    PROVE  AnswerInv(c)'
<1>0. /\ raw \in [Clients -> Seq(Pieces)] /\ wire \in [Clients -> Seq(Pieces)]
      /\ todo \in [Clients -> Seq(Pieces)]
  BY DEF ServerInv, BufferTypeOK
<1>1. (patient'[c] => Follows(c)') /\ (Straight(c)' => Straight(c))
  BY SameAnswers
<1>2. ASSUME Straight(c) PROVE UnderWay(c)'
  <2>1. wire[c] # <<>>
    BY <1>0, EmptySeq
  <2>2. UnderWay(c)
    BY <1>2, <2>1 DEF AnswerInv, Idle, Early
  <2>3. PICK b \in Nat, close \in BOOLEAN : Sent(c, b, close)
    BY <2>2 DEF UnderWay
  <2> DEFINE r == raw[c]  w == wire[c]  t == todo[c]  r2 == raw'[c]  w2 == wire'[c]
  <2>4. /\ Len(r) \in Nat /\ Len(w) \in Nat /\ Len(t) \in Nat
        /\ Len(r2) = Len(r) + k /\ Len(w2) = Len(w) - k
        /\ \A i \in 1 .. Len(r) : r2[i] = r[i]
        /\ \A i \in Len(r) + 1 .. Len(r) + k : r2[i] = w[i - Len(r)]
        /\ \A i \in 1 .. Len(w) - k : w2[i] = w[k + i]
    <3>1. /\ r2 = r \o SubSeq(w, 1, k) /\ w2 = SubSeq(w, k + 1, Len(w))
      BY <1>0 DEF Receive
    <3>2. /\ r \in Seq(Pieces) /\ w \in Seq(Pieces) /\ Len(t) \in Nat
          /\ k \in 1 .. Len(w)
      BY <1>0, LenProperties
    <3> HIDE DEF r, w, t, r2, w2
    <3> QED  BY <3>1, <3>2, ReceiveParts
  <2>5. /\ begun[c] = Len(answers[c]) + 1 /\ Len(r) + Len(w) + Len(t) = b + 2
        /\ \A i \in 1 .. Len(r) : r[i] = Piece(begun[c], b, close, i)
        /\ \A i \in 1 .. Len(w) : w[i] = Piece(begun[c], b, close, Len(r) + i)
        /\ \A i \in 1 .. Len(t) :
                t[i] = Piece(begun[c], b, close, Len(r) + Len(w) + i)
    BY <2>3 DEF Sent
  <2> HIDE DEF r, w, t, r2, w2
  <2> DEFINE P(i) == Piece(begun[c], b, close, i)
  <2> HIDE DEF P
  <2>6. /\ \A i \in 1 .. Len(r) : r[i] = P(i)
        /\ \A i \in 1 .. Len(w) : w[i] = P(Len(r) + i)
        /\ \A i \in 1 .. Len(t) : t[i] = P(Len(r) + Len(w) + i)
    BY <2>5 DEF P
  <2>7. \A i \in 1 .. Len(r2) : r2[i] = P(i)
    <3> SUFFICES ASSUME NEW i \in 1 .. Len(r2) PROVE r2[i] = P(i)
      OBVIOUS
    <3>1. CASE i \in 1 .. Len(r)
      BY <2>4, <2>6, <3>1
    <3>2. CASE i \in Len(r) + 1 .. Len(r) + k
      <4>1. i - Len(r) \in 1 .. Len(w) /\ Len(r) + (i - Len(r)) = i
        BY <2>4, <3>2
      <4> QED  BY <2>4, <2>6, <3>2, <4>1
    <3> QED  BY <2>4, <3>1, <3>2
  <2>8. \A i \in 1 .. Len(w2) : w2[i] = P(Len(r2) + i)
    <3> SUFFICES ASSUME NEW i \in 1 .. Len(w2) PROVE w2[i] = P(Len(r2) + i)
      OBVIOUS
    <3>1. k + i \in 1 .. Len(w) /\ Len(r) + (k + i) = Len(r2) + i
      BY <2>4
    <3> QED  BY <2>4, <2>6, <3>1
  <2>9. /\ Len(r2) + Len(w2) + Len(t) = b + 2
        /\ \A i \in 1 .. Len(t) : t[i] = P(Len(r2) + Len(w2) + i)
    <3>1. Len(r2) + Len(w2) = Len(r) + Len(w)
      BY <2>4
    <3> QED  BY <2>5, <2>6, <3>1
  <2>10. Sent(c, b, close)'
    <3>1. todo'[c] = t /\ begun'[c] = begun[c] /\ answers'[c] = answers[c]
      BY DEF t
    <3>2. /\ raw'[c] = r2 /\ wire'[c] = w2
          /\ \A i : Piece(begun'[c], b, close, i) = P(i)
      BY <3>1 DEF P, r2, w2
    <3> QED  BY <2>5, <2>7, <2>8, <2>9, <3>1, <3>2 DEF Sent
  <2> QED  BY <2>10 DEF UnderWay
<1> QED  BY <1>1, <1>2 DEF AnswerInv

(* Route: the request is parsed as the one that the client has begun, and  *)
(* nothing of it is left unless the answer is short.                       *)
LEMMA AnswerRoute ==
    ASSUME ServerInv, NEW c \in Clients, AnswerInv(c), Route(c)
    PROVE  AnswerInv(c)'
<1>0. /\ raw[c] \in Seq(Pieces) /\ wire[c] \in Seq(Pieces) /\ todo[c] \in Seq(Pieces)
      /\ begun[c] \in Nat /\ reply \in [Clients -> Seq(Responses)]
  BY DEF ServerInv, BufferTypeOK, ClientTypeOK
<1> DEFINE a == [n |-> Parsed(raw[c]), short |-> Short(raw[c])]
<1>1. /\ wpc[c] = "body" /\ wpc'[c] = "send" /\ reply'[c] = <<a>>
      /\ UNCHANGED <<raw, wire, todo, begun, answers, patient>>
  BY <1>0 DEF Route, peer, ServerInv, PoolTypeOK
<1>2. (patient'[c] => Follows(c)') /\ (Straight(c)' => Straight(c))
  BY <1>1, SameAnswers
<1>3. ASSUME Straight(c) PROVE Answering(c)'
  <2>1. Ends(raw[c]) # {}
    BY <1>1 DEF ServerInv, HeadersOK
  <2>2. raw[c] # <<>>
    BY <2>1 DEF Ends
  <2>3. UnderWay(c)
    BY <1>1, <1>3, <2>2 DEF AnswerInv, Idle, Early
  <2>4. PICK b \in Nat, close \in BOOLEAN : Sent(c, b, close)
    BY <2>3 DEF UnderWay
  <2>5. /\ begun[c] = Len(answers[c]) + 1
        /\ Len(raw[c]) + Len(wire[c]) + Len(todo[c]) = b + 2
        /\ \A i \in 1 .. Len(raw[c]) : raw[c][i] = Piece(begun[c], b, close, i)
    BY <2>4 DEF Sent
  <2>6. Parsed(raw[c]) = begun[c] /\ (Short(raw[c]) <=> Len(raw[c]) < b + 2)
    <3>1. begun[c] \in Nat \ {0}
      <4>1. Len(answers[c]) \in Nat
        BY LenProperties DEF ServerInv, BufferTypeOK
      <4> QED  BY <2>5, <4>1
    <3> QED  BY <1>0, <2>1, <2>5, <3>1, ParsedRequest
  <2>7. ~Short(raw[c]) => wire[c] = <<>> /\ todo[c] = <<>>
    <3>1. Len(raw[c]) \in Nat /\ Len(wire[c]) \in Nat /\ Len(todo[c]) \in Nat
      BY <1>0, LenProperties
    <3>2. ~(Len(raw[c]) < b + 2) => Len(wire[c]) = 0 /\ Len(todo[c]) = 0
      <4>1. Len(raw[c]) + Len(wire[c]) + Len(todo[c]) = b + 2
        BY <2>5
      <4>2. \A x, y, z, l \in Nat : x + y + z = l /\ ~(x < l) => y = 0 /\ z = 0
        OBVIOUS
      <4>3. b + 2 \in Nat
        OBVIOUS
      <4> QED  BY <3>1, <4>1, <4>2, <4>3
    <3>3. (Len(wire[c]) = 0 => wire[c] = <<>>) /\ (Len(todo[c]) = 0 => todo[c] = <<>>)
      BY <1>0, EmptySeq
    <3> QED  BY <2>6, <3>2, <3>3
  <2>8. a.n = begun[c] /\ (~a.short => wire[c] = <<>> /\ todo[c] = <<>>)
    BY <2>6, <2>7
  <2> HIDE DEF a
  <2>9. Len(reply'[c]) = 1 /\ reply'[c][1] = a
    BY <1>1
  <2> QED  BY <1>1, <2>5, <2>8, <2>9 DEF Answering
<1> QED  BY <1>1, <1>2, <1>3 DEF AnswerInv, Early

(* Send: an answer follows those before it, or one of them was short.      *)
LEMMA AnswerSend ==
    ASSUME ServerInv, NEW c \in Clients, AnswerInv(c), Send(c)
    PROVE  AnswerInv(c)'
<1> DEFINE old == answers[c]  new == answers'[c]  r == reply[c]
<1>0. old \in Seq(Responses) /\ r \in Seq(Responses) /\ begun[c] \in Nat
  BY DEF ServerInv, BufferTypeOK, ClientTypeOK
<1>1. /\ wpc[c] = "send" /\ wpc'[c] \in {"close", "headers"} /\ raw'[c] = <<>>
      /\ new = old \o r /\ UNCHANGED <<wire, todo, begun, patient>>
  BY DEF Send, ServerInv, PoolTypeOK, BufferTypeOK
<1>2. /\ Len(old) \in Nat /\ Len(r) \in Nat /\ Len(new) = Len(old) + Len(r)
      /\ \A i \in 1 .. Len(old) : new[i] = old[i]
      /\ \A i \in Len(old) + 1 .. Len(old) + Len(r) : new[i] = r[i - Len(old)]
  <2> HIDE DEF old, new, r
  <2> DEFINE both == old \o r
  <2>1. /\ Len(old) \in Nat /\ Len(r) \in Nat /\ Len(both) = Len(old) + Len(r)
        /\ \A i \in 1 .. Len(old) + Len(r) :
              both[i] = IF i <= Len(old) THEN old[i] ELSE r[i - Len(old)]
    BY <1>0, LenProperties, ConcatProperties
  <2>2. new = both
    BY <1>1
  <2> HIDE DEF both
  <2>3. \A i \in 1 .. Len(old) : both[i] = old[i]
    BY <2>1
  <2>4. \A i \in Len(old) + 1 .. Len(old) + Len(r) : both[i] = r[i - Len(old)]
    BY <2>1
  <2> QED  BY <2>1, <2>2, <2>3, <2>4
<1>3. CASE Straight(c)
  <2>1. /\ begun[c] = Len(old) + 1 /\ Len(r) = 1 /\ r[1].n = begun[c]
        /\ ~r[1].short => wire[c] = <<>> /\ todo[c] = <<>>
    BY <1>1, <1>3 DEF AnswerInv, Answering
  <2>2. Len(new) = begun[c] /\ new[begun[c]] = r[1]
    <3> HIDE DEF old, new, r
    <3>1. begun[c] \in Len(old) + 1 .. Len(old) + Len(r) /\ begun[c] - Len(old) = 1
      BY <1>2, <2>1
    <3> QED  BY <1>2, <2>1, <3>1
  <2>3. \A i \in 1 .. Len(new) : i \in 1 .. Len(old) \/ i = begun[c]
    BY <1>2, <2>1
  <2>4. \A i \in 1 .. Len(old) : old[i].n = i \/ \E j \in 1 .. i - 1 : old[j].short
    BY <1>3 DEF AnswerInv, Follows, Straight
  <2>5. \A i \in 1 .. Len(old) : ~old[i].short
    BY <1>3 DEF Straight
  <2>6. \A i \in 1 .. Len(old) : old[i].n = i
    <3>1. \A i \in 1 .. Len(old) : \A j \in 1 .. i - 1 : j \in 1 .. Len(old)
      BY <1>2
    <3> QED  BY <2>4, <2>5, <3>1, Zenon
  <2>7. \A i \in 1 .. Len(new) : new[i].n = i
    <3> HIDE DEF old, new, r
    <3> QED  BY <1>2, <2>1, <2>2, <2>3, <2>6
  <2>8. Follows(c)'
    BY <2>7 DEF Follows
  <2>9. ASSUME Straight(c)' PROVE Idle(c)'
    <3>1. ~r[1].short
      <4>1. begun[c] \in 1 .. Len(new)
        BY <1>2, <2>1, <2>2
      <4> QED  BY <2>2, <2>9, <4>1 DEF Straight
    <3> QED  BY <1>1, <2>1, <2>2, <3>1 DEF Idle
  <2> QED  BY <1>1, <2>8, <2>9 DEF AnswerInv
<1>4. CASE ~Straight(c) /\ patient[c]
  <2>1. PICK j \in 1 .. Len(old) : old[j].short
    BY <1>4 DEF Straight
  <2>2. j \in 1 .. Len(new) /\ new[j] = old[j]
    <3> HIDE DEF old, new, r
    <3> QED  BY <1>2
  <2>3. ~Straight(c)'
    BY <2>1, <2>2 DEF Straight
  <2>4. \A i \in 1 .. Len(old) : old[i].n = i \/ \E k \in 1 .. i - 1 : old[k].short
    BY <1>4 DEF AnswerInv, Follows
  <2>5. ASSUME NEW i \in 1 .. Len(new)
        PROVE  new[i].n = i \/ \E k \in 1 .. i - 1 : new[k].short
    <3>1. CASE i \in 1 .. Len(old)
      <4>1. \A k \in 1 .. i - 1 : k \in 1 .. Len(old)
        BY <1>2, <3>1
      <4>2. new[i] = old[i] /\ \A k \in 1 .. i - 1 : new[k] = old[k]
        BY <1>2, <3>1, <4>1
      <4> QED  BY <2>4, <3>1, <4>2, Zenon
    <3>2. CASE i \notin 1 .. Len(old)
      <4>1. j \in 1 .. i - 1
        BY <1>2, <3>2
      <4> QED  BY <2>1, <2>2, <4>1, Zenon
    <3> QED  BY <3>1, <3>2
  <2>6. Follows(c)'
    BY <2>5 DEF Follows
  <2> QED  BY <2>3, <2>6 DEF AnswerInv
<1>5. CASE ~patient[c]
  BY <1>1, <1>5 DEF AnswerInv, Straight
<1> QED  BY <1>3, <1>4, <1>5

(* A patient client begins a request only when nothing of one is left.     *)
LEMMA AnswerBegin ==
    ASSUME ServerInv, NEW c \in Clients, AnswerInv(c), BeginRequest(c)
    PROVE  AnswerInv(c)'
<1>0. /\ wire \in [Clients -> Seq(Pieces)] /\ todo \in [Clients -> Seq(Pieces)]
      /\ begun \in [Clients -> Nat] /\ patient \in [Clients -> BOOLEAN]
      /\ Len(answers[c]) \in Nat
  BY LenProperties DEF ServerInv, BufferTypeOK, ClientTypeOK
<1>1. /\ patient' = [patient EXCEPT ![c] = patient[c] /\ Len(answers[c]) = begun[c]]
      /\ begun' = [begun EXCEPT ![c] = begun[c] + 1]
      /\ wire' = [wire EXCEPT ![c] = Append(wire[c], Start(begun[c] + 1))]
      /\ UNCHANGED <<wpc, raw, reply, answers>>
  BY DEF BeginRequest, conn
<1>2. PICK b \in 0 .. MaxBody, close \in BOOLEAN :
        todo' = [todo EXCEPT ![c] = Rest(begun[c] + 1, b, close)]
  BY DEF BeginRequest, Rest
<1>3. patient'[c] => patient[c] /\ Len(answers[c]) = begun[c]
  BY <1>0, <1>1, Zenon
<1>4. (patient'[c] => Follows(c)') /\ (Straight(c)' => Straight(c))
  BY <1>1, <1>3, SameAnswers
<1>5. ASSUME Straight(c)' PROVE wpc[c] # "send" /\ (wpc[c] \in Early => UnderWay(c)')
  <2>1. Straight(c) /\ Len(answers[c]) = begun[c]
    BY <1>3, <1>4, <1>5 DEF Straight
  <2>2. ~(begun[c] = Len(answers[c]) + 1)
    BY <1>0, <2>1
  <2>3. wpc[c] # "send"
    BY <2>1, <2>2 DEF AnswerInv, Answering
  <2>4. ASSUME wpc[c] \in Early PROVE UnderWay(c)'
    <3>1. raw[c] = <<>> /\ wire[c] = <<>>
      BY <2>1, <2>2, <2>4 DEF AnswerInv, Idle, UnderWay, Sent, Early
    <3> DEFINE n == begun[c] + 1
    <3>2. /\ n \in Nat \ {0} /\ b \in Nat
          /\ begun'[c] = n /\ n = Len(answers'[c]) + 1
      BY <1>0, <1>1, <2>1, HttpServerAssumption
    <3>3. raw'[c] = <<>> /\ wire'[c] = <<Start(n)>> /\ todo'[c] = Rest(n, b, close)
      BY <1>0, <1>1, <1>2, <3>1
    <3> HIDE DEF n
    <3>4. Len(raw'[c]) = 0 /\ Len(wire'[c]) = 1 /\ Len(todo'[c]) = b + 1
      BY <3>2, <3>3, RestOfRequest
    <3>5. \A i \in 1 .. Len(wire'[c]) : wire'[c][i] = Piece(n, b, close, 0 + i)
      BY <3>3, <3>4 DEF Piece
    <3>6. \A i \in 1 .. Len(todo'[c]) : todo'[c][i] = Piece(n, b, close, 0 + 1 + i)
      <4>1. \A i \in 1 .. b + 1 : Rest(n, b, close)[i] = Piece(n, b, close, i + 1)
        BY <3>2, RestOfRequest
      <4>2. \A i \in 1 .. b + 1 : 0 + 1 + i = i + 1
        OBVIOUS
      <4> QED  BY <3>3, <3>4, <4>1, <4>2
    <3>7. 0 + 1 + (b + 1) = b + 2
      BY <3>2
    <3>8. Sent(c, b, close)'
      BY <3>2, <3>4, <3>5, <3>6, <3>7 DEF Sent
    <3> QED  BY <3>2, <3>8 DEF UnderWay
  <2> QED  BY <2>3, <2>4
<1> QED  BY <1>1, <1>4, <1>5 DEF AnswerInv, Early

(* The next piece of a request goes from todo to wire.                     *)
LEMMA AnswerSendPiece ==
    ASSUME ServerInv, NEW c \in Clients, AnswerInv(c), SendPiece(c)
    PROVE  AnswerInv(c)'
<1> DEFINE w == wire[c]  t == todo[c]  w2 == wire'[c]  t2 == todo'[c]
<1>0. w \in Seq(Pieces) /\ t \in Seq(Pieces) /\ t # <<>>
  BY DEF ServerInv, BufferTypeOK, SendPiece
<1>1. /\ w2 = Append(w, Head(t)) /\ t2 = Tail(t)
      /\ UNCHANGED <<wpc, raw, reply, begun, answers, patient>>
  BY DEF SendPiece, ServerInv, BufferTypeOK, conn
<1>2. (patient'[c] => Follows(c)') /\ (Straight(c)' => Straight(c))
  BY <1>1, SameAnswers
<1>3. /\ Len(w) \in Nat /\ Len(t) \in Nat /\ Len(t) > 0
      /\ Len(w2) = Len(w) + 1 /\ Len(t2) = Len(t) - 1
      /\ \A i \in 1 .. Len(w) : w2[i] = w[i]
      /\ w2[Len(w) + 1] = t[1]
      /\ \A i \in 1 .. Len(t) - 1 : t2[i] = t[i + 1]
  <2> HIDE DEF w, t, w2, t2
  <2>1. Len(w) \in Nat /\ Len(t) \in Nat /\ Len(t) > 0
    BY <1>0, LenProperties, EmptySeq
  <2>2. /\ Head(t) \in Pieces /\ Head(t) = t[1] /\ Len(t2) = Len(t) - 1
        /\ \A i \in 1 .. Len(t2) : t2[i] = t[i + 1]
    BY <1>0, <1>1, HeadTailProperties
  <2>3. /\ Len(w2) = Len(w) + 1 /\ \A i \in 1 .. Len(w) : w2[i] = w[i]
        /\ w2[Len(w) + 1] = Head(t)
    BY <1>0, <1>1, <2>2, AppendProperties
  <2> QED  BY <2>1, <2>2, <2>3
<1>4. wpc[c] = "send" /\ Answering(c) => Answering(c)'
  BY <1>0, <1>1 DEF Answering
<1>5. ASSUME Straight(c), wpc[c] \in Early PROVE UnderWay(c)'
  <2>1. UnderWay(c)
    BY <1>0, <1>5 DEF AnswerInv, Idle, Early
  <2>2. PICK b \in Nat, close \in BOOLEAN : Sent(c, b, close)
    BY <2>1 DEF UnderWay
  <2> DEFINE P(i) == Piece(begun[c], b, close, i)  x == Len(raw[c])
  <2>3. /\ begun[c] = Len(answers[c]) + 1 /\ x + Len(w) + Len(t) = b + 2
        /\ \A i \in 1 .. x : raw[c][i] = P(i)
        /\ \A i \in 1 .. Len(w) : w[i] = P(x + i)
        /\ \A i \in 1 .. Len(t) : t[i] = P(x + Len(w) + i)
    BY <2>2 DEF Sent
  <2>4. x \in Nat
    BY LenProperties DEF ServerInv, BufferTypeOK
  <2> HIDE DEF w, t, w2, t2, P, x
  <2>5. \A i \in 1 .. Len(w2) : w2[i] = P(x + i)
    <3> SUFFICES ASSUME NEW i \in 1 .. Len(w2) PROVE w2[i] = P(x + i)
      OBVIOUS
    <3>1. CASE i \in 1 .. Len(w)
      BY <1>3, <2>3, <3>1
    <3>2. CASE i = Len(w) + 1
      <4>1. t[1] = P(x + Len(w) + 1)
        BY <1>3, <2>3
      <4>2. x + Len(w) + 1 = x + i
        BY <1>3, <2>4, <3>2
      <4> QED  BY <1>3, <3>2, <4>1, <4>2
    <3> QED  BY <1>3, <3>1, <3>2
  <2>6. \A i \in 1 .. Len(t2) : t2[i] = P(x + Len(w2) + i)
    <3> SUFFICES ASSUME NEW i \in 1 .. Len(t2) PROVE t2[i] = P(x + Len(w2) + i)
      OBVIOUS
    <3>1. i + 1 \in 1 .. Len(t) /\ x + Len(w) + (i + 1) = x + Len(w2) + i
      BY <1>3, <2>4
    <3> QED  BY <1>3, <2>3, <3>1
  <2>7. x + Len(w2) + Len(t2) = b + 2
    <3>1. x + Len(w2) + Len(t2) = x + Len(w) + Len(t)
      BY <1>3, <2>4
    <3> QED  BY <2>3, <3>1
  <2>8. Sent(c, b, close)'
    <3>1. /\ raw'[c] = raw[c] /\ begun'[c] = begun[c] /\ answers'[c] = answers[c]
          /\ wire'[c] = w2 /\ todo'[c] = t2 /\ Len(raw'[c]) = x
          /\ \A i : Piece(begun'[c], b, close, i) = P(i)
      BY <1>1 DEF w2, t2, P, x
    <3> QED  BY <2>3, <2>5, <2>6, <2>7, <3>1 DEF Sent
  <2> QED  BY <2>8 DEF UnderWay
<1> QED  BY <1>1, <1>2, <1>4, <1>5 DEF AnswerInv, Early

LEMMA AnswerStep ==
    ASSUME ServerInv, \A c \in Clients : AnswerInv(c), [Next]_vars
    PROVE  \A c \in Clients : AnswerInv(c)'
<1> SUFFICES ASSUME NEW d \in Clients PROVE AnswerInv(d)'
  OBVIOUS
<1>0. /\ wpc \in [Clients -> {"none", "queued", "headers", "body", "send", "close",
                             "closed"}]
      /\ raw \in [Clients -> Seq(Pieces)] /\ wire \in [Clients -> Seq(Pieces)]
      /\ todo \in [Clients -> Seq(Pieces)]
      /\ reply \in [Clients -> Seq(Responses)]
      /\ answers \in [Clients -> Seq(Responses)]
      /\ begun \in [Clients -> Nat] /\ patient \in [Clients -> BOOLEAN]
  BY DEF ServerInv, PoolTypeOK, BufferTypeOK, ClientTypeOK
<1>1. ASSUME UNCHANGED <<conn, peer>> PROVE AnswerInv(d)'
  BY <1>1, SameBuffers DEF conn, peer
<1>2. CASE StartClient
  <2>1. pending # <<>> /\ wpc' = [wpc EXCEPT ![Head(pending)] = "headers"]
        /\ UNCHANGED <<raw, reply, peer>>
    BY <1>2 DEF StartClient, Pool!Start
  <2>2. wpc[Head(pending)] = "queued"
    <3>1. Head(pending) \in Waiting /\ Head(pending) \in Clients
      BY <2>1, HeadTailProperties, EmptySeq, LenProperties
         DEF ServerInv, PoolTypeOK, Waiting
    <3> QED  BY <3>1 DEF ServerInv, LineOK
  <2>3. wpc'[d] = wpc[d] \/ (wpc[d] \in Early /\ wpc'[d] \in Early)
    BY <1>0, <2>1, <2>2 DEF Early
  <2> QED  BY <2>1, <2>3, SameBuffers DEF peer
<1>3. ASSUME NEW c \in Clients, c # d,
             \/ WorkerStep(c) \/ Connect(c) \/ BeginRequest(c) \/ SendPiece(c)
             \/ HangUp(c) \/ StopReading(c) \/ ReadOn(c)
      PROVE  AnswerInv(d)'
  <2>1. /\ wpc'[d] = wpc[d] /\ raw'[d] = raw[d] /\ wire'[d] = wire[d]
        /\ todo'[d] = todo[d] /\ reply'[d] = reply[d] /\ answers'[d] = answers[d]
        /\ begun'[d] = begun[d] /\ patient'[d] = patient[d]
    BY <1>0, <1>3 DEF WorkerStep, ReadHeaders, NoHeaders, ReadBody, Route, Send,
                      CloseClient, Connect, BeginRequest, SendPiece, HangUp,
                      StopReading, ReadOn, Receive, conn, peer
  <2> QED  BY <2>1, SameBuffers
<1>4. ASSUME ReadHeaders(d) \/ ReadBody(d) PROVE AnswerInv(d)'
  <2>1. /\ wpc[d] \in Early /\ wpc'[d] \in {"headers", "body"}
        /\ UNCHANGED <<todo, begun, answers, patient>>
        /\ \E k \in 1 .. Len(wire[d]) : Receive(d, k)
    BY <1>0, <1>4 DEF ReadHeaders, ReadBody, Early
  <2> QED  BY <2>1, AnswerReceive
<1>5. ASSUME Route(d) \/ Send(d) \/ BeginRequest(d) \/ SendPiece(d) PROVE AnswerInv(d)'
  BY <1>5, AnswerRoute, AnswerSend, AnswerBegin, AnswerSendPiece
<1>6. ASSUME NoHeaders(d) \/ Connect(d) \/ HangUp(d) \/ StopReading(d)
      PROVE  AnswerInv(d)'
  <2>1. /\ UNCHANGED <<raw, reply, wire, todo, begun, answers, patient>>
        /\ \/ wpc'[d] = wpc[d]
           \/ wpc[d] \in Early /\ wpc'[d] \in Early
           \/ wpc'[d] \in {"close", "closed"}
    BY <1>0, <1>6 DEF NoHeaders, Connect, HangUp, StopReading, conn, peer, Early
  <2> QED  BY <2>1, SameBuffers
<1>7. ASSUME CloseClient(d) PROVE AnswerInv(d)'
  <2>1. wpc'[d] = "closed" /\ UNCHANGED <<answers, patient>>
    BY <1>0, <1>7 DEF CloseClient
  <2> QED  BY <2>1, SameAnswers DEF AnswerInv
<1> QED
  BY <1>1, <1>2, <1>3, <1>4, <1>5, <1>6, <1>7, MainKeepsBuffers, StepCases
     DEF WorkStep, WorkerStep, ReadOn

(* A client that waits for each response gets the responses to its         *)
(* requests, in order, however the bytes are cut into reads and however    *)
(* long the bodies are, until a body is cut short (HttpServer.cpp:126-205).*)
THEOREM AnswersFollow == Spec => []AnswersFollowRequests
<1> DEFINE Inv == \A c \in Clients : AnswerInv(c)
<1>1. Init => Inv
  <2> SUFFICES ASSUME Init, NEW c \in Clients PROVE AnswerInv(c)
    OBVIOUS
  <2>1. /\ begun[c] = Len(answers[c]) /\ raw[c] = <<>> /\ wire[c] = <<>>
        /\ todo[c] = <<>> /\ wpc[c] = "none" /\ 1 .. Len(answers[c]) = {}
    BY DEF Init
  <2> QED  BY <2>1 DEF AnswerInv, Idle, Follows
<1>2. ServerInv /\ Inv /\ [Next]_vars => Inv'
  BY AnswerStep
<1>3. Inv => AnswersFollowRequests
  BY DEF AnswerInv, Follows, AnswersFollowRequests
<1> HIDE DEF Inv
<1> QED  BY <1>1, <1>2, <1>3, ServerInvInvariant, PTL DEF Spec

=============================================================================
