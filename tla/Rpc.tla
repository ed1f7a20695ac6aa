-------------------------------- MODULE Rpc --------------------------------
(***************************************************************************)
(* The RPC of the runner's processes: a server on a unix socket and the    *)
(* clients that dial it, one connection for each request.                  *)
(*                                                                         *)
(* The server's process ends and is started again by exteriord, in order   *)
(* or by a crash that leaves the socket's file behind, and its command     *)
(* registers the methods while the server already accepts connections.     *)
(* The version and the id of a request are always the ones the other side  *)
(* expects, since a connection carries one request.                        *)
(***************************************************************************)
EXTENDS Naturals

CONSTANTS
    Clients,      \* requests, each with a connection of its own
    MaxRpcFaults  \* bound on processes that end and on connections that break

ASSUME RpcAssumption == MaxRpcFaults \in Nat

VARIABLES
    process,    \* the server's process: "off", "up", "ending"
    sock,       \* the socket's file: "none", "listening", "stale"
    bound,      \* kinds of request whose method is registered
    kind,       \* what each client asks: "call", "notify"
    conn,       \* the connection of each client, and how far its request has come
    result,     \* what handleRequest made of the request
    handled,    \* how many times the method ran for the client
    answer,     \* what Call or Notify returned
    rpcFaults

rpcVars == <<process, sock, bound, kind, conn, result, handled, answer, rpcFaults>>
serverVars == <<process, sock, bound>>

Kinds == {"call", "notify"}
Results == {"none", "ok", "callerError", "notFound"}
Conns == {"none", "dialed", "written", "handling", "replying", "answered", "closed"}

RpcTypeOK ==
    /\ process \in {"off", "up", "ending"}
    /\ sock \in {"none", "listening", "stale"}
    /\ bound \subseteq Kinds
    /\ kind \in [Clients -> Kinds]
    /\ conn \in [Clients -> Conns]
    /\ result \in [Clients -> Results]
    /\ handled \in [Clients -> 0..1]
    /\ answer \in [Clients -> Results \cup {"refused", "broken"}]
    /\ rpcFaults \in 0..MaxRpcFaults

RpcInit ==
    /\ process = "off" /\ sock = "none" /\ bound = {}
    /\ kind \in [Clients -> Kinds]
    /\ conn = [c \in Clients |-> "none"]
    /\ result = [c \in Clients |-> "none"]
    /\ handled = [c \in Clients |-> 0]
    /\ answer = [c \in Clients |-> "none"]
    /\ rpcFaults = 0

RpcFault == rpcFaults < MaxRpcFaults /\ rpcFaults' = rpcFaults + 1

-----------------------------------------------------------------------------
(***************************************************************************)
(* The server's process                                                    *)
(***************************************************************************)

ProcessStarts ==
    /\ process = "off"
    /\ process' = "up" /\ bound' = {}
    /\ UNCHANGED <<sock, kind, conn, result, handled, answer, rpcFaults>>

\* os.Remove takes away what a crash left behind.
Start ==
    /\ process = "up" /\ sock # "listening"
    /\ sock' = "listening"
    /\ UNCHANGED <<process, bound, kind, conn, result, handled, answer, rpcFaults>>

\* RegisterMethod and RegisterNotifyMethod, of the command that runs beside the server.
Register(k) ==
    /\ process = "up" /\ k \notin bound
    /\ bound' = bound \cup {k}
    /\ UNCHANGED <<process, sock, kind, conn, result, handled, answer, rpcFaults>>

\* ctx.Done: l.Close, which resets the connections not accepted yet; Start returns and
\* removes the socket.  The accepted ones are handled until the process exits.
StopListening ==
    /\ process = "up" /\ sock = "listening" /\ RpcFault
    /\ process' = "ending" /\ sock' = "none"
    /\ \E unaccepted \in SUBSET {c \in Clients : conn[c] \in {"dialed", "written"}} :
          conn' = [c \in Clients |-> IF c \in unaccepted THEN "closed" ELSE conn[c]]
    /\ UNCHANGED <<bound, kind, result, handled, answer>>

\* The process exits, or is killed: its connections and their goroutines end with it.
\* What has been written to a client stays readable.
ProcessEnds ==
    /\ \/ process = "ending" /\ UNCHANGED <<sock, rpcFaults>>
       \/ process = "up" /\ RpcFault /\ sock' = IF sock = "listening" THEN "stale" ELSE sock
    /\ process' = "off"
    /\ conn' = [c \in Clients |-> IF conn[c] \in {"none", "answered"} THEN conn[c] ELSE "closed"]
    /\ UNCHANGED <<bound, kind, result, handled, answer>>

-----------------------------------------------------------------------------
(***************************************************************************)
(* A connection on the server's side                                       *)
(***************************************************************************)

\* readPacket: the whole of a packet, by the length in its header, or an error.
ReadPacket(c, whole) ==
    \/ conn' = [conn EXCEPT ![c] = whole] /\ UNCHANGED rpcFaults
    \/ conn' = [conn EXCEPT ![c] = "closed"] /\ RpcFault

ReadRequest(c) ==
    /\ conn[c] = "written" /\ process # "off"
    /\ ReadPacket(c, "handling")
    /\ UNCHANGED <<serverVars, kind, result, handled, answer>>

\* handleRequest: a notification gets no response, whatever came of it.
HandleRequest(c) ==
    /\ conn[c] = "handling"
    /\ IF kind[c] \in bound
       THEN /\ handled' = [handled EXCEPT ![c] = @ + 1]
            /\ \E r \in {"ok", "callerError"} : result' = [result EXCEPT ![c] = r]
       ELSE /\ result' = [result EXCEPT ![c] = "notFound"]
            /\ UNCHANGED handled
    /\ conn' = [conn EXCEPT ![c] = IF kind[c] = "call" THEN "replying" ELSE "closed"]
    /\ UNCHANGED <<serverVars, kind, answer, rpcFaults>>

WriteResponse(c) ==
    /\ conn[c] = "replying"
    /\ conn' = [conn EXCEPT ![c] = "answered"]
    /\ UNCHANGED <<serverVars, kind, result, handled, answer, rpcFaults>>

-----------------------------------------------------------------------------
(***************************************************************************)
(* The clients                                                             *)
(***************************************************************************)

\* A socket that is missing or has no listener refuses.
Dial(c) ==
    /\ conn[c] = "none" /\ answer[c] = "none"
    /\ IF sock = "listening"
       THEN conn' = [conn EXCEPT ![c] = "dialed"] /\ UNCHANGED answer
       ELSE answer' = [answer EXCEPT ![c] = "refused"] /\ UNCHANGED conn
    /\ UNCHANGED <<serverVars, kind, result, handled, rpcFaults>>

\* writePacket: the error of the deferred Flush is dropped, so that a write to a
\* connection that is closed looks like any other.
WritePacket(c) == conn' = [conn EXCEPT ![c] = IF @ = "dialed" THEN "written" ELSE @]

\* handleCall, up to the response: on a closed connection only readResponse fails.
SendCall(c) ==
    /\ kind[c] = "call" /\ conn[c] = "dialed"
    /\ WritePacket(c)
    /\ UNCHANGED <<serverVars, kind, result, handled, answer, rpcFaults>>

\* Notify returns once the packet is written.
Notify(c) ==
    /\ kind[c] = "notify" /\ answer[c] = "none" /\ conn[c] \in {"dialed", "closed"}
    /\ WritePacket(c)
    /\ answer' = [answer EXCEPT ![c] = "ok"]
    /\ UNCHANGED <<serverVars, kind, result, handled, rpcFaults>>

\* Mutation of ReadResponse: the end of the stream is not an error.
ReadResponseLenient(c) ==
    /\ kind[c] = "call" /\ answer[c] = "none" /\ conn[c] \in {"answered", "closed"}
    /\ answer' = [answer EXCEPT ![c] = IF conn[c] = "answered" THEN result[c] ELSE "ok"]
    /\ UNCHANGED <<serverVars, kind, conn, result, handled, rpcFaults>>

\* readResponse: the answer, or an error when the connection ends without one.
ReadResponse(c) ==
    /\ kind[c] = "call" /\ answer[c] = "none" /\ conn[c] \in {"answered", "closed"}
    /\ answer' = [answer EXCEPT ![c] = IF conn[c] = "answered" THEN result[c] ELSE "broken"]
    /\ UNCHANGED <<serverVars, kind, conn, result, handled, rpcFaults>>

RpcNext ==
    \/ ProcessStarts \/ Start \/ StopListening \/ ProcessEnds
    \/ \E k \in Kinds : Register(k)
    \/ \E c \in Clients :
          \/ ReadRequest(c) \/ HandleRequest(c) \/ WriteResponse(c)
          \/ Dial(c) \/ SendCall(c) \/ Notify(c) \/ ReadResponse(c)

RpcSpec == RpcInit /\ [][RpcNext]_rpcVars

-----------------------------------------------------------------------------

\* What Call and Notify return can be relied on, however the server ends and starts
\* again meanwhile: a call that returned nil ran the method once, one that returned
\* the method's error did too, and one that was refused or found no method did not and
\* will not run it, so that it may be repeated.
AnswerTellsTruth ==
    \A c \in Clients :
        /\ kind[c] = "call" /\ answer[c] \in {"ok", "callerError"}
               => handled[c] = 1 /\ result[c] = answer[c]
        /\ answer[c] = "notFound" => handled[c] = 0 /\ conn[c] = "answered"
        /\ answer[c] = "refused" => handled[c] = 0 /\ conn[c] = "none"
=============================================================================
