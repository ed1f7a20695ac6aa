------------------------------ MODULE Handshake ------------------------------
(***************************************************************************)
(* The Minecraft protocol as the game proxy reads it from a client: a      *)
(* handshake and, when there is no server to forward to, a status request  *)
(* and a ping.  The reader keeps every byte it took, since the bytes are   *)
(* forwarded to the server once one is found.                              *)
(*                                                                         *)
(* The client's bytes arrive in pieces of any size.  reader.Read fetches   *)
(* at most one piece and claims to have filled the buffer: a field of      *)
(* several bytes that a piece ends in is read wrong, and a read after it   *)
(* may be out of range (the panic is recovered, the connection closed).    *)
(***************************************************************************)
EXTENDS Integers, SequencesExt

CONSTANTS
    Greetings,   \* what clients send: records of the fields below
    StatusLength \* the length of the status in JSON

\* The numbers that readVarInt takes: five groups of seven bits, as a snapshot's version
\* (2^30 and more) and a version of -1 (2^32 - 1) need.  And the lengths of addresses that
\* leave the length of the packet one of them.
VarIntRange == {n \in Nat : n \div 128^4 < 128}
AddrLengths == 0..(128^4 - 1)
Byte == 0..255
PortRange == 0..65535

ASSUME ShakeAssumption ==
    \A g \in Greetings :
        /\ {g.version, g.next, g.ping} \subseteq VarIntRange
        /\ g.port \in PortRange
        /\ g.addr \in Seq(Byte) /\ Len(g.addr) \in AddrLengths
        /\ g.payload \in Seq(Byte) /\ Len(g.payload) = 8
        /\ g.tooLong \in BOOLEAN

VARIABLES
    client,      \* what the client sends
    wire,        \* bytes that have not been read from the connection
    buf, pos,    \* of the reader
    field,       \* the field of ReadHandshake, and of what follows, that is read next
    varInt,      \* result and pos of readVarInt
    got,         \* the fields read so far
    torn,        \* a field of several bytes was read before it was whole
    sent         \* what was written to the client, or to the server

shakeVars == <<client, wire, buf, pos, field, varInt, got, torn, sent>>

-----------------------------------------------------------------------------
(***************************************************************************)
(* Encodings                                                               *)
(***************************************************************************)

\* Seven bits in a byte, the lowest first; the eighth says that more follow.
WriteVarInt(v) ==
    LET groups == CHOOSE n \in 1..5 : (n = 5 \/ v < 128^n) /\ \A m \in 1..(n - 1) : v >= 128^m
    IN [i \in 1..groups |-> ((v \div 128^(i - 1)) % 128) + (IF i < groups THEN 128 ELSE 0)]

\* Big-endian, of the bytes that were copied: the others of the buffer are zero.
Padded(bytes, n) == [i \in 1..n |-> IF i <= Len(bytes) THEN bytes[i] ELSE 0]
Uint16(bytes) == bytes[1] * 256 + bytes[2]

\* A Minecraft client: a handshake, then a status request and a ping or, to play, the
\* first bytes of a login.
Packet(body) == WriteVarInt(Len(body)) \o body
Stream(g) ==
    Packet(WriteVarInt(0) \o WriteVarInt(g.version)
           \o (IF g.tooLong THEN [i \in 1..5 |-> 128] ELSE WriteVarInt(Len(g.addr)))
           \o g.addr \o <<g.port \div 256, g.port % 256>> \o WriteVarInt(g.next))
    \o IF g.next = 1 THEN Packet(WriteVarInt(0)) \o Packet(WriteVarInt(g.ping) \o g.payload)
       ELSE Packet(<<0, 7>>)

ShakeInit ==
    /\ client \in Greetings
    /\ wire = Stream(client)
    /\ buf = << >> /\ pos = 0
    /\ field = "length" /\ varInt = [result |-> 0, groups |-> 0]
    /\ got = << >> /\ torn = FALSE /\ sent = << >>

-----------------------------------------------------------------------------
(***************************************************************************)
(* reader.Read                                                             *)
(***************************************************************************)

\* Mutation of Read: what a piece has beyond the buffer that is read into is not kept.
ReadCut(n, fetched) ==
    /\ fetched \in IF Len(buf) - pos < n THEN 1..Len(wire) ELSE {0}
    /\ buf' = buf \o SubSeq(wire, 1, IF n < fetched THEN n ELSE fetched)
    /\ wire' = SubSeq(wire, fetched + 1, Len(wire))
    /\ pos' = pos + n

\* buf', wire' and pos' for a buffer of n bytes: fetched is what one Read of the
\* connection gave, at most 512 bytes of what the client sent.
Read(n, fetched) ==
    /\ fetched \in IF Len(buf) - pos < n THEN 1..Len(wire) ELSE {0}
    /\ buf' = buf \o SubSeq(wire, 1, fetched)
    /\ wire' = SubSeq(wire, fetched + 1, Len(wire))
    /\ pos' = pos + n
\* The bytes that Read copies; r.buf[r.pos:] is out of range beyond the end.
InRange == pos <= Len(buf')
Copied(n) == SubSeq(buf', pos + 1, IF pos + n <= Len(buf') THEN pos + n ELSE Len(buf'))

-----------------------------------------------------------------------------
(***************************************************************************)
(* ReadHandshake and the packets after it                                  *)
(***************************************************************************)

VarInts == {"length", "id", "version", "addrLen", "next",
            "statusLength", "statusId", "pingLength", "pingId"}
After(f) ==
    CASE f = "length" -> "id"              [] f = "id" -> "version"
      [] f = "version" -> "addrLen"        [] f = "addrLen" -> "addr"
      [] f = "addr" -> "port"              [] f = "port" -> "next"
      [] f = "next" -> "handled"           [] f = "statusLength" -> "statusId"
      [] f = "statusId" -> "status"        [] f = "pingLength" -> "pingId"
      [] f = "pingId" -> "payload"

Got(f, v) == got' = Append(got, [field |-> f, value |-> v])
Value(f) == LET i == CHOOSE j \in 1..Len(got) : got[j].field = f IN got[i].value

\* The bytes of the buffer that is given to Read.
Size(f) ==
    CASE f \in VarInts -> 1 [] f = "addr" -> Value("addrLen") [] f = "port" -> 2
      [] f = "payload" -> 8
Reading == VarInts \cup {"addr", "port", "payload"}

\* The client closes the connection or keeps silent until the deadline, and Read returns
\* an error; or r.pos is out of range, and the panic is recovered.
ReadFails ==
    /\ field \in Reading /\ field' = "error"
    /\ \/ Len(buf) - pos < Size(field) /\ UNCHANGED <<wire, buf, pos>>
       \/ \E n \in 0..Len(wire) : Read(Size(field), n) /\ ~InRange
    /\ UNCHANGED <<client, varInt, got, torn, sent>>

\* One byte of readVarInt.
ReadVarIntByte ==
    /\ field \in VarInts
    /\ \E n \in 0..Len(wire) :
          /\ Read(Size(field), n) /\ InRange
          /\ LET b == Padded(Copied(1), 1)[1]
                 result == varInt.result + (b % 128) * 128^varInt.groups
             IN \/ /\ b >= 128
                   /\ varInt' = [result |-> result, groups |-> varInt.groups + 1]
                   /\ field' = IF varInt'.groups * 7 >= 32 THEN "error" ELSE field
                   /\ UNCHANGED got
                \/ /\ b < 128
                   /\ varInt' = [result |-> 0, groups |-> 0]
                   /\ field' = IF field = "addrLen" /\ result > 255 THEN "error" ELSE After(field)
                   /\ Got(field, result)
    /\ UNCHANGED <<client, torn, sent>>

\* A buffer of several bytes, by reader.Read or through io.ReadFull.
ReadBytes ==
    /\ \E n \in 0..Len(wire) :
          /\ Read(Size(field), n) /\ InRange
          /\ torn' = (torn \/ Len(Copied(Size(field))) < Size(field))
          /\ LET bytes == Padded(Copied(Size(field)), Size(field))
             IN Got(field, IF field = "port" THEN Uint16(bytes) ELSE bytes)
    /\ UNCHANGED <<client, varInt>>

ReadAddr ==
    /\ field = "addr"
    /\ ReadBytes
    /\ field' = After(field) /\ UNCHANGED sent
ReadShort ==
    /\ field = "port"
    /\ ReadBytes
    /\ field' = After(field) /\ UNCHANGED sent

\* HandlePingPong: the payload of a ping is written back.
HandlePingPong ==
    /\ field = "payload"
    /\ ReadBytes
    /\ IF Value("pingId") = 1
       THEN field' = "done" /\ sent' = Append(sent, <<9, 1>> \o Last(got').value)
       ELSE field' = "error" /\ UNCHANGED sent

\* WriteStatus: the length of the packet in front of it, that of the text within.
WriteStatus ==
    /\ field = "status"
    /\ LET body == WriteVarInt(0) \o WriteVarInt(StatusLength)
       IN sent' = Append(sent, WriteVarInt(Len(body) + StatusLength) \o body)
    /\ field' = "pingLength"
    /\ UNCHANGED <<client, wire, buf, pos, varInt, got, torn>>

\* handleConn: the bytes that were read go to the server that was found; without one
\* the proxy answers a status request itself, and closes the connection of a player.
HandleConn ==
    /\ field = "handled"
    /\ \/ field' = "done" /\ sent' = <<buf>>       \* OrigBytes
       \/ field' = (IF Value("next") = 1 THEN "statusLength" ELSE "error") /\ UNCHANGED sent
    /\ UNCHANGED <<client, wire, buf, pos, varInt, got, torn>>

ShakeNext ==
    \/ ReadVarIntByte \/ ReadAddr \/ ReadShort \/ HandlePingPong \/ WriteStatus \/ HandleConn
    \/ ReadFails

-----------------------------------------------------------------------------

ShakeTypeOK ==
    /\ field \in Reading \cup {"handled", "status", "done", "error"}
    /\ torn \in BOOLEAN
    /\ pos \in Nat
    /\ varInt.groups \in 0..5

WasRead(f) == \E i \in 1..Len(got) : got[i].field = f

\* However the bytes arrive, none is lost to the server they are forwarded to; and the
\* handshake, and the ping that is answered, are the client's unless a piece ended
\* within the address, the port or the payload.
HandshakeRead ==
    /\ buf \o wire = Stream(client)
    /\ field = "done" /\ ~WasRead("pingId") => sent[1] \o wire = Stream(client)
    /\ ~torn /\ field \in {"handled", "done"} =>
          /\ Value("version") = client.version /\ Value("addr") = client.addr
          /\ Value("port") = client.port /\ Value("next") = client.next
          /\ WasRead("payload") => Last(sent) = <<9, 1>> \o client.payload
=============================================================================
