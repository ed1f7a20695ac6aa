-------------------------------- MODULE Nbt --------------------------------
(***************************************************************************)
(* The decoder of NBT, the format of level.dat: a tree of typed tags is    *)
(* read into a Go value of the caller's type.  What the type has no field  *)
(* for is read and thrown away, so that one byte too many or too few       *)
(* there shows only in what follows.                                       *)
(*                                                                         *)
(* A Go type is a record with its kind (Skip: the nil value of a tag that  *)
(* nobody asked for) and, of a number, its bytes: int8 to int64, float32   *)
(* and float64.  A Go value is the pair of its kind and its content.       *)
(***************************************************************************)
EXTENDS Integers, SequencesExt

CONSTANTS
    Documents,  \* [type, value] of the top tag, with the Go type it is read into
    DepthLimit  \* Decoder.limit; 0 for none

ASSUME NbtAssumption == DepthLimit \in Nat

VARIABLES
    document,   \* a document
    cut,        \* bytes that are missing at its end
    decoded     \* what Decode made of it, or NotDecoded

nbtVars == <<document, cut, decoded>>

TagEnd == 0
TagByteArray == 7
TagString == 8
TagList == 9
TagCompound == 10
TagIntArray == 11
TagLongArray == 12

\* Bytes of a number, and of an element of an array.
Width(ty) ==
    CASE ty \in {1, TagByteArray} -> 1 [] ty = 2 -> 2 [] ty \in {3, 5, TagIntArray} -> 4
      [] ty \in {4, 6, TagLongArray} -> 8

Skip == [kind |-> "skip"]
NotSet == << >>
Failed == [ok |-> FALSE, pos |-> 0, value |-> NotSet]
Done(p, v) == [ok |-> TRUE, pos |-> p, value |-> v]

\* Big-endian and two's complement.
Unsigned(bytes) == FoldLeft(LAMBDA n, b : n * 256 + b, 0, bytes)
Signed(bytes) ==
    IF bytes[1] < 128 THEN Unsigned(bytes)
    ELSE -Unsigned([i \in 1..Len(bytes) |-> 255 - bytes[i]]) - 1

-----------------------------------------------------------------------------
(***************************************************************************)
(* The decoder: each reader takes the input, a position in it, the Go type *)
(* and the level, and returns an error or the position after the tag.      *)
(***************************************************************************)

\* io.ReadFull
Bytes(in, p, n) == SubSeq(in, p, p + n - 1)
Enough(in, p, n) == p + n - 1 <= Len(in)

\* What a reader does with the value it has read: v.Set, after the check of v's type.
Assign(want, kind, p, v) ==
    IF want.kind = "skip" THEN Done(p, NotSet)
    ELSE IF want.kind = kind THEN Done(p, <<kind, v>>) ELSE Failed

\* The type of Go has fewer bytes than the number.
Narrow(want, bytes) == want.kind \in {"int", "float"} /\ want.bytes < Len(bytes)

\* readByte, readShort, readInt and readLong: every type of integer will do, and SetInt
\* keeps the low bytes.
ReadInteger(in, p, want, ty) ==
    LET bytes == Bytes(in, p, Width(ty))
        kept == IF Narrow(want, bytes) THEN SubSeq(bytes, Len(bytes) - want.bytes + 1, Len(bytes))
                ELSE bytes
    IN IF ~Enough(in, p, Width(ty)) THEN Failed
       ELSE Assign(want, "int", p + Width(ty), Signed(kept))

\* readFloat and readDouble; SetFloat rounds a double in a float32.
ReadFloating(in, p, want, ty) ==
    LET bytes == Bytes(in, p, Width(ty))
    IN IF ~Enough(in, p, Width(ty)) THEN Failed
       ELSE Assign(want, "float", p + Width(ty), [bits |-> bytes, rounded |-> Narrow(want, bytes)])

\* readByteArray, readIntArray and readLongArray
ReadArray(in, p, want, ty) ==
    IF ~Enough(in, p, 4) THEN Failed
    ELSE LET n == Unsigned(Bytes(in, p, 4))
             at(i) == p + 4 + (i - 1) * Width(ty)
             kind == CASE ty = TagByteArray -> "[]byte" [] ty = TagIntArray -> "[]int32"
                       [] ty = TagLongArray -> "[]int64"
             element(i) == Bytes(in, at(i), Width(ty))
         IN IF ~Enough(in, p + 4, n * Width(ty)) THEN Failed
            ELSE Assign(want, kind, at(n + 1),
                        [i \in 1..n |-> IF ty = TagByteArray THEN element(i)[1]
                                        ELSE Signed(element(i))])

\* readString, and readName with the type of a string
ReadString(in, p, want) ==
    IF ~Enough(in, p, 2) THEN Failed
    ELSE LET n == Unsigned(Bytes(in, p, 2))
         IN IF ~Enough(in, p + 2, n) THEN Failed
            ELSE Assign(want, "string", p + 2 + n, Bytes(in, p + 2, n))
ReadName(in, p) == ReadString(in, p, [kind |-> "string"])

RECURSIVE ReadTag(_, _, _, _, _, _), ReadFields(_, _, _, _, _)


\* readList: the type of an empty list does not matter, neither does the Go type.
ReadList(in, p, want, level) ==
    IF ~Enough(in, p, 5) THEN Failed
    ELSE LET n == Unsigned(Bytes(in, p + 1, 4))
             elem == IF want.kind = "skip" THEN Skip ELSE want.of
             read(acc, i) ==
                 LET r == ReadTag(in, acc.pos, in[p], elem, level, NotSet)
                 IN IF acc.ok /\ r.ok THEN Done(r.pos, Append(acc.value, r.value)) ELSE Failed
             all == FoldLeft(read, Done(p + 5, << >>), [i \in 1..n |-> i])
         IN IF n = 0 THEN Done(p + 5, NotSet)
            ELSE IF in[p] = TagEnd \/ want.kind \notin {"skip", "slice"} THEN Failed
            ELSE IF all.ok THEN Assign(want, "slice", all.pos, all.value) ELSE Failed

\* readCompound: limit 0 is no limit; the fields keep what they hold until they are set.
ReadCompound(in, p, want, level, old) ==
    IF (DepthLimit > 0 /\ level >= DepthLimit) \/ want.kind \notin {"skip", "struct"} THEN Failed
    ELSE LET fields == IF want.kind = "skip" THEN << >> ELSE want.fields
             before == IF want.kind = "skip" \/ old = NotSet
                       THEN [f \in DOMAIN fields |-> NotSet] ELSE old[2]
             r == ReadFields(in, p, fields, level, before)
         IN IF r.ok THEN Assign(want, "struct", r.pos, r.value) ELSE Failed

\* The loop of readCompound, up to TAG_End.
ReadFields(in, p, fields, level, values) ==
    IF ~Enough(in, p, 1) THEN Failed
    ELSE IF in[p] = TagEnd THEN Done(p + 1, values)
    ELSE LET name == ReadName(in, p + 1)
             known == name.ok /\ name.value[2] \in DOMAIN fields
             r == ReadTag(in, name.pos, in[p],
                          IF known THEN fields[name.value[2]] ELSE Skip, level + 1,
                          IF known THEN values[name.value[2]] ELSE NotSet)
         IN IF ~name.ok \/ ~r.ok THEN Failed
            ELSE ReadFields(in, r.pos, fields, level,
                            IF known /\ r.value # NotSet
                            THEN [values EXCEPT ![name.value[2]] = r.value] ELSE values)

\* getTypeReader, and the call of what it returns
ReadTag(in, p, ty, want, level, old) ==
    CASE ty \in 1..4 -> ReadInteger(in, p, want, ty)
      [] ty \in 5..6 -> ReadFloating(in, p, want, ty)
      [] ty \in {TagByteArray, TagIntArray, TagLongArray} -> ReadArray(in, p, want, ty)
      [] ty = TagString -> ReadString(in, p, want)
      [] ty = TagList -> ReadList(in, p, want, level)
      [] ty = TagCompound -> ReadCompound(in, p, want, level, old)
      [] OTHER -> Failed

\* Decode: the name of the top tag is thrown away, and so is an error of reading it.
Decode(in, want) ==
    IF in = << >> THEN Failed
    ELSE LET name == ReadName(in, 2)
         IN IF name.ok THEN ReadTag(in, name.pos, in[1], want, 0, NotSet) ELSE Failed

-----------------------------------------------------------------------------
(***************************************************************************)
(* NBT itself: how a tag is written, and what its value is in Go           *)
(***************************************************************************)

BigEndian(n, w) ==
    [i \in 1..w |-> IF w - i > 3 THEN (IF n < 0 THEN 255 ELSE 0) ELSE (n \div 256^(w - i)) % 256]

RECURSIVE Encode(_, _), Meaning(_, _, _, _)

Named(name, ty, v) == <<ty>> \o BigEndian(Len(name), 2) \o name \o Encode(ty, v)

Encode(ty, v) ==
    CASE ty \in 1..4 -> BigEndian(v, Width(ty))
      [] ty \in 5..6 -> v
      [] ty \in {TagByteArray, TagIntArray, TagLongArray} ->
             BigEndian(Len(v), 4)
             \o FlattenSeq([i \in 1..Len(v) |-> BigEndian(v[i], Width(ty))])
      [] ty = TagString -> BigEndian(Len(v), 2) \o v
      [] ty = TagList ->
             <<v.of>> \o BigEndian(Len(v.elements), 4)
             \o FlattenSeq([i \in 1..Len(v.elements) |-> Encode(v.of, v.elements[i])])
      [] ty = TagCompound ->
             FlattenSeq([i \in 1..Len(v) |-> Named(v[i].name, v[i].type, v[i].value)])
             \o <<TagEnd>>

Wrong == <<"error">>
Kind(ty) ==
    CASE ty \in 1..4 -> "int" [] ty \in 5..6 -> "float" [] ty = TagString -> "string"
      [] ty = TagByteArray -> "[]byte" [] ty = TagIntArray -> "[]int32"
      [] ty = TagLongArray -> "[]int64" [] ty = TagList -> "slice" [] ty = TagCompound -> "struct"

\* A number in a Go type: an integer modulo the bytes of the type (the documents have none
\* that four bytes cannot hold), a float to its precision.
Stored(ty, v, want) ==
    IF ty \in 1..4
    THEN IF want.bytes < Width(ty) /\ want.bytes < 4
         THEN LET n == 256^want.bytes
                  low == v % n IN IF low < n \div 2 THEN low ELSE low - n
         ELSE v
    ELSE IF ty \in 5..6 THEN [bits |-> v, rounded |-> want.bytes < Width(ty)]
    ELSE v

\* The value of a tag in a Go type, by the structure of the tag: the field of a struct
\* has the value of the last tag of its name, compounds of one name are as one compound
\* of all their tags, and they nest up to the limit.
Meaning(ty, v, want, level) ==
    LET parts == IF ty = TagList
                 THEN [i \in 1..Len(v.elements) |->
                          Meaning(v.of, v.elements[i],
                                  IF want.kind = "slice" THEN want.of ELSE Skip, level)]
                 ELSE IF ty = TagCompound
                 THEN [i \in 1..Len(v) |->
                          Meaning(v[i].type, v[i].value,
                                  IF want.kind = "struct" /\ v[i].name \in DOMAIN want.fields
                                  THEN want.fields[v[i].name] ELSE Skip, level + 1)]
                 ELSE << >>
        tagsOf(f) == {i \in 1..Len(parts) : v[i].name = f /\ parts[i] # NotSet}
        merged(f) == FlattenSeq([i \in 1..Len(v) |-> IF i \in tagsOf(f) THEN v[i].value ELSE << >>])
        field(f) == IF tagsOf(f) = {} THEN NotSet
                    ELSE IF want.fields[f].kind = "struct"
                    THEN Meaning(TagCompound, merged(f), want.fields[f], level + 1)
                    ELSE parts[CHOOSE i \in tagsOf(f) : \A j \in tagsOf(f) : j <= i]
    IN IF ty = TagList /\ v.elements = << >> THEN NotSet
       ELSE IF \/ want.kind \notin {"skip", Kind(ty)}
               \/ \E i \in 1..Len(parts) : parts[i] = Wrong
               \/ ty = TagCompound /\ DepthLimit > 0 /\ level >= DepthLimit THEN Wrong
       ELSE IF want.kind = "skip" THEN NotSet
       ELSE IF ty = TagList THEN <<"slice", parts>>
       ELSE IF ty = TagCompound THEN <<"struct", [f \in DOMAIN want.fields |-> field(f)]>>
       ELSE <<Kind(ty), Stored(ty, v, want)>>

-----------------------------------------------------------------------------

NotDecoded == [ok |-> FALSE, pos |-> -1, value |-> NotSet]

NbtInit == document \in Documents /\ cut \in 0..1 /\ decoded = NotDecoded

DecodeDocument ==
    /\ decoded = NotDecoded
    /\ LET whole == Named(<< >>, document.type, document.value)
       IN decoded' = Decode(SubSeq(whole, 1, Len(whole) - cut), document.into)
    /\ UNCHANGED <<document, cut>>

=============================================================================
