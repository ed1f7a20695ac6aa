----------------------------- MODULE Rpc_proofs -----------------------------
(***************************************************************************)
(* Theorems about Rpc, for every set of clients and any number of crashes. *)
(***************************************************************************)
EXTENDS Rpc, TLAPS

\* Where a request is says what is known of it: the method has not run before
\* handleRequest, has run when a result other than notFound is there, and only a
\* call has a response under way.
RequestInv(c) ==
    /\ conn[c] \in {"none", "dialed", "written", "handling"} => result[c] = "none"
    /\ conn[c] \in {"replying", "answered"} => kind[c] = "call" /\ result[c] # "none"
    /\ handled[c] = IF result[c] \in {"ok", "callerError"} THEN 1 ELSE 0

\* What was returned is what the connection says, and stays so.
ReturnInv(c) ==
    /\ answer[c] = "refused" => conn[c] = "none"
    /\ answer[c] \in {"notFound", "callerError"} => conn[c] = "answered" /\ result[c] = answer[c]
    /\ answer[c] = "ok" /\ kind[c] = "call" => conn[c] = "answered" /\ result[c] = "ok"

RpcInv == RpcTypeOK /\ \A c \in Clients : RequestInv(c) /\ ReturnInv(c)

-----------------------------------------------------------------------------

\* One method runs at most once for a request: handleRequest finds no result.
LEMMA TypeStep == RpcInv /\ [RpcNext]_rpcVars => RpcTypeOK'
<1> SUFFICES ASSUME RpcInv, [RpcNext]_rpcVars PROVE RpcTypeOK'
    OBVIOUS
<1> USE RpcAssumption DEF RpcTypeOK, Kinds, Results, Conns
<1>0. RpcTypeOK
    BY DEF RpcInv
<1>1. CASE UNCHANGED rpcVars
    BY <1>0, <1>1 DEF rpcVars
<1>2. CASE ProcessStarts \/ Start
    BY <1>0, <1>2 DEF ProcessStarts, Start
<1>3. CASE StopListening
    BY <1>0, <1>3 DEF StopListening, RpcFault
<1>4. CASE ProcessEnds
    BY <1>0, <1>4 DEF ProcessEnds, RpcFault
<1>5. ASSUME NEW k \in Kinds, Register(k) PROVE RpcTypeOK'
    BY <1>0, <1>5 DEF Register
<1>6. ASSUME NEW c \in Clients, ReadRequest(c) PROVE RpcTypeOK'
    BY <1>0, <1>6 DEF ReadRequest, ReadPacket, RpcFault, serverVars
<1>7. ASSUME NEW c \in Clients, HandleRequest(c) PROVE RpcTypeOK'
    <2>1. handled[c] = 0
        BY <1>7 DEF RpcInv, RequestInv, HandleRequest
    <2> QED BY <1>0, <1>7, <2>1 DEF HandleRequest, serverVars
<1>8. ASSUME NEW c \in Clients, WriteResponse(c) \/ SendCall(c) PROVE RpcTypeOK'
    BY <1>0, <1>8 DEF WriteResponse, SendCall, WritePacket, serverVars
<1>9. ASSUME NEW c \in Clients, Dial(c) PROVE RpcTypeOK'
    BY <1>0, <1>9 DEF Dial, serverVars
<1>10. ASSUME NEW c \in Clients, Notify(c) PROVE RpcTypeOK'
    BY <1>0, <1>10 DEF Notify, WritePacket, serverVars
<1>11. ASSUME NEW c \in Clients, ReadResponse(c) PROVE RpcTypeOK'
    BY <1>0, <1>11 DEF ReadResponse, serverVars
<1> QED
    BY <1>1, <1>2, <1>3, <1>4, <1>5, <1>6, <1>7, <1>8, <1>9, <1>10, <1>11 DEF RpcNext

\* A step of one request leaves the others as they are; the ends of a process close
\* connections and answer nobody.
LEMMA RequestStep ==
    ASSUME RpcInv, [RpcNext]_rpcVars, NEW d \in Clients
    PROVE  (RequestInv(d) /\ ReturnInv(d))'
<1> USE DEF RequestInv, ReturnInv
<1>0. RpcTypeOK /\ RequestInv(d) /\ ReturnInv(d)
    BY DEF RpcInv
<1> DEFINE Same == /\ conn'[d] = conn[d] /\ result'[d] = result[d] /\ kind'[d] = kind[d]
                   /\ handled'[d] = handled[d] /\ answer'[d] = answer[d]
<1>1. CASE Same
    BY <1>0, <1>1
<1>2. CASE UNCHANGED rpcVars \/ ProcessStarts \/ Start \/ \E k \in Kinds : Register(k)
    BY <1>1, <1>2 DEF rpcVars, ProcessStarts, Start, Register
<1>3. CASE StopListening \/ ProcessEnds
    <2>1. \/ conn'[d] = conn[d]
          \/ conn'[d] = "closed" /\ conn[d] \notin {"none", "answered"}
        BY <1>0, <1>3 DEF StopListening, ProcessEnds, RpcTypeOK
    <2>2. UNCHANGED <<kind, result, handled, answer>>
        BY <1>3 DEF StopListening, ProcessEnds
    <2> QED BY <1>0, <2>1, <2>2
<1>4. ASSUME NEW c \in Clients,
             \/ ReadRequest(c) \/ HandleRequest(c) \/ WriteResponse(c)
             \/ Dial(c) \/ SendCall(c) \/ Notify(c) \/ ReadResponse(c)
      PROVE  (RequestInv(d) /\ ReturnInv(d))'
    <2>1. CASE c # d
        <3>1. Same
            BY <1>0, <1>4, <2>1 DEF RpcTypeOK, ReadRequest, ReadPacket, HandleRequest,
               WriteResponse, Dial, SendCall, Notify, WritePacket, ReadResponse
        <3> QED BY <1>1, <3>1
    <2>2. CASE c = d
        <3>1. CASE ReadRequest(d)
            BY <1>0, <3>1 DEF ReadRequest, ReadPacket, RpcTypeOK
        <3>2. CASE HandleRequest(d)
            <4>1. conn[d] = "handling" /\ result[d] = "none" /\ handled[d] = 0
                BY <1>0, <3>2 DEF HandleRequest
            <4>2. /\ result'[d] \in {"ok", "callerError", "notFound"}
                  /\ handled'[d] = IF result'[d] \in {"ok", "callerError"} THEN 1 ELSE 0
                BY <1>0, <3>2, <4>1 DEF HandleRequest, RpcTypeOK
            <4>3. /\ conn'[d] = IF kind[d] = "call" THEN "replying" ELSE "closed"
                  /\ UNCHANGED <<kind, answer>>
                BY <1>0, <3>2 DEF HandleRequest, RpcTypeOK
            <4> QED BY <1>0, <4>1, <4>2, <4>3 DEF RpcTypeOK
        <3>3. CASE WriteResponse(d)
            BY <1>0, <3>3 DEF WriteResponse, RpcTypeOK
        <3>4. CASE Dial(d)
            BY <1>0, <3>4 DEF Dial, RpcTypeOK
        <3>5. CASE SendCall(d)
            BY <1>0, <3>5 DEF SendCall, WritePacket, RpcTypeOK
        <3>6. CASE Notify(d)
            BY <1>0, <3>6 DEF Notify, WritePacket, RpcTypeOK
        <3>7. CASE ReadResponse(d)
            BY <1>0, <3>7 DEF ReadResponse, RpcTypeOK, Results
        <3> QED BY <1>4, <2>2, <3>1, <3>2, <3>3, <3>4, <3>5, <3>6, <3>7
    <2> QED BY <2>1, <2>2
<1> QED
    BY <1>2, <1>3, <1>4 DEF RpcNext

\* The invariant holds from the start and in every step.
THEOREM RpcInvariant == RpcSpec => []RpcInv
<1>1. RpcInit => RpcInv
    BY RpcAssumption DEF RpcInit, RpcInv, RpcTypeOK, RequestInv, ReturnInv, Kinds, Results, Conns
<1>2. RpcInv /\ [RpcNext]_rpcVars => RpcInv'
    BY TypeStep, RequestStep DEF RpcInv
<1> QED
    BY <1>1, <1>2, PTL DEF RpcSpec

\* Requests, connections and processes keep their types.
THEOREM RpcTypes == RpcSpec => []RpcTypeOK
<1>1. RpcInv => RpcTypeOK
    BY DEF RpcInv
<1> QED
    BY <1>1, RpcInvariant, PTL

\* Call and Notify tell the truth about what the server did, for every number of
\* requests and of processes that end: rpc/client.go and rpc/server.go together.
THEOREM AnswersTrue == RpcSpec => []AnswerTellsTruth
<1>1. RpcInv => AnswerTellsTruth
    BY DEF RpcInv, RequestInv, ReturnInv, AnswerTellsTruth
<1> QED
    BY <1>1, RpcInvariant, PTL
=============================================================================
