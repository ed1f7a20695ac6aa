--------------------------- MODULE MCRunnerParts ---------------------------
(***************************************************************************)
(* Parts of the system that work on state of their own: the watchdogs of a *)
(* game server, the RPC of the runner's processes, the extraction of a     *)
(* world, the protocol of a game client and the decoder of NBT.  A         *)
(* behaviour of the model runs one of them.                                *)
(***************************************************************************)
EXTENDS Watchdogs, Rpc, Extraction, Handshake, Nbt, TLC

VARIABLE part

MCWalkOrder ==
    << Entry(<<"data">>, "dir"), Entry(<<"data", "level.dat">>, "file"),
       Entry(<<"data", "raids">>, "file"), Entry(<<"level.dat">>, "file"),
       Entry(<<"uid">>, "file") >>
MCUploadEntries ==
    { Entry(<<"w">>, "dir"), Entry(<<"w", "level.dat">>, "file"), Entry(<<"w", "region">>, "file"),
      Entry(<<"w", "v", "level.dat">>, "file"), Entry(<<"readme">>, "file"),
      Entry(<<"w", "d", "level.dat">>, "dir"), Entry(<<"level.dat">>, "file"),
      Entry(<<"w", "link">>, "other") }

Greeting(version, addr, n, ping, long) ==
    [version |-> version, addr |-> addr, port |-> 25565, next |-> n, ping |-> ping,
     payload |-> [i \in 1..8 |-> i], tooLong |-> long]
MCGreetings ==
    { Greeting(v, a, n, 1, FALSE) :
          v \in {5, 128, 760, 2^30 + 200}, a \in {<< >>, <<97, 98, 99>>}, n \in {1, 2} }
    \cup { Greeting(5, <<97>>, 2, 1, TRUE), Greeting(5, <<97>>, 1, 0, FALSE),
           Greeting(5, [i \in 1..256 |-> 97], 2, 1, FALSE) }

\* Tags of level.dat in small, and the types to read them into.
GoInt(n) == [kind |-> "int", bytes |-> n]
GoFloat(n) == [kind |-> "float", bytes |-> n]
GoSlice(t) == [kind |-> "slice", of |-> t]
GoStruct(t) == [kind |-> "struct", fields |-> (<<97>> :> t)]
GoPair == [kind |-> "struct", fields |-> (<<97>> :> GoInt(1)) @@ (<<98>> :> GoInt(4))]
Tag(name, ty, v) == [name |-> name, type |-> ty, value |-> v]
MCLeaves ==
    { <<1, -1>>, <<2, 258>>, <<3, -258>>, <<4, 65539>>, <<5, <<1, 2, 3, 4>>>>,
      <<6, <<1, 2, 3, 4, 5, 6, 7, 8>>>>, <<TagByteArray, <<200, 10>>>>, <<TagString, <<10, 0>>>>,
      <<TagIntArray, <<-1, 5>>>>, <<TagLongArray, <<9>>>>,
      <<TagList, [of |-> TagEnd, elements |-> << >>]>>,
      <<TagList, [of |-> 2, elements |-> <<-3, 7>>]>>,
      <<TagList, [of |-> TagCompound, elements |-> <<<<Tag(<<97>>, 1, 4)>>, << >>>>]>>,
      <<TagCompound, <<Tag(<<97>>, 3, 6), Tag(<<97>>, 3, 8)>>>>, <<TagCompound, <<Tag(<<98>>, 2, 9)>>>>,
      <<TagCompound, <<Tag(<<98>>, TagCompound, <<Tag(<<97>>, TagCompound, << >>)>>)>>>> }
MCTypes ==
    {GoInt(1), GoInt(4), GoFloat(4), GoFloat(8), GoSlice(GoInt(4)), GoStruct(GoInt(2)), GoPair,
     GoSlice(GoPair)}
    \cup {[kind |-> k] : k \in {"string", "[]byte", "[]int32", "[]int64"}}
\* A field that is skipped or given twice, and a top tag of any type.
MCDocuments ==
    { [type |-> TagCompound, into |-> GoStruct(want),
       value |-> <<Tag(n, l[1], l[2]), Tag(<<97>>, m[1], m[2])>>] :
          n \in {<< >>, <<97>>}, l \in MCLeaves, m \in MCLeaves, want \in MCTypes }
    \cup { [type |-> l[1], value |-> l[2], into |-> want] : l \in MCLeaves, want \in MCTypes }

\* The parts that do not run keep one initial state.
Init ==
    /\ part \in {"watchdogs", "rpc", "extraction", "handshake", "nbt"}
    /\ WatchInit
    /\ RpcInit /\ (part = "rpc" \/ kind = [c \in Clients |-> "call"])
    /\ ExtractInit /\ (part = "extraction" \/ archive = WriteTar({}))
    /\ ShakeInit /\ (part = "handshake" \/ client = Greeting(5, << >>, 1, 1, FALSE))
    /\ IF part = "nbt" THEN NbtInit
       ELSE document = Tag(<< >>, 1, 0) /\ cut = 0 /\ decoded = NotDecoded

Next ==
    /\ UNCHANGED part
    /\ \/ part = "watchdogs" /\ WatchNext /\ UNCHANGED <<rpcVars, extractVars, shakeVars, nbtVars>>
       \/ part = "rpc" /\ RpcNext /\ UNCHANGED <<watchVars, extractVars, shakeVars, nbtVars>>
       \/ part = "extraction" /\ ExtractNext /\ UNCHANGED <<watchVars, rpcVars, shakeVars, nbtVars>>
       \/ part = "handshake" /\ ShakeNext /\ UNCHANGED <<watchVars, rpcVars, extractVars, nbtVars>>
       \/ part = "nbt" /\ DecodeDocument /\ UNCHANGED <<watchVars, rpcVars, extractVars, shakeVars>>

Spec == Init /\ [][Next]_<<part, watchVars, rpcVars, extractVars, shakeVars, nbtVars>>
=============================================================================
