----------------------------- MODULE Serializer -----------------------------
(***************************************************************************)
(* The serializer (util/serial): structs are written by a program with one *)
(* version of their fields and read by one with another, as binary, as raw *)
(* binary and as JSON; what is read may be cut off anywhere.  RPC messages *)
(* are binary with their size in front, and are read once they have        *)
(* arrived (util/network/rpc_datatypes.h).                                 *)
(*                                                                         *)
(* A byte has a payload of Payload values and a bit that more follow; a    *)
(* fixed integer or a floating point number has two of them, where the     *)
(* code has four or eight.  JSON is a sequence of tokens.  A type is a     *)
(* record with its kind and its parts; the value of a struct is a function *)
(* from its field ids, of a map a sequence of pairs, of a pointer a        *)
(* sequence of at most one value, and of a blob a sequence of tokens.      *)
(***************************************************************************)
EXTENDS Integers, Sequences, FiniteSets, FiniteSetsExt, SequencesExt

CONSTANTS Schema,             \* of each version, the struct type
          Values,             \* of each version, the values that are written
          Cases               \* triples of format, written and read version

VARIABLES format,             \* "binary", "raw", "json" or "rpc"
          writer, reader,     \* versions
          sent,               \* the values in the stream
          stream,             \* what was written
          got,                \* how much of the stream has arrived
          pos,                \* how much has been read
          received            \* what was read; ok is FALSE for an error

vars == <<format, writer, reader, sent, stream, got, pos, received>>

Payload == 8

Many == 2 * Payload           \* the values of a byte

Failed == [ok |-> FALSE, v |-> 0, rest |-> <<>>]

Read(v, rest) == [ok |-> TRUE, v |-> v, rest |-> rest]

From(s, k) == SubSeq(s, k, Len(s))

-----------------------------------------------------------------------------
\* SerializationData::Initialize(): the fields with the flags that hold where
\* they are named.
Initialize(vars_list) ==
  FoldLeft(LAMBDA acc, x :
             IF "flag" \in DOMAIN x
             THEN CASE x.flag = "DEFAULT_ZERO" -> [acc EXCEPT !.zero = TRUE]
                    [] x.flag = "DEFAULT_CUSTOM" -> [acc EXCEPT !.zero = FALSE]
                    [] x.flag = "SERIALIZE_REQUIRED" -> [acc EXCEPT !.required = TRUE]
                    [] x.flag = "SERIALIZE_OPTIONAL" -> [acc EXCEPT !.required = FALSE]
                    [] x.flag = "SERIALIZE_TYPEINFO" -> [acc EXCEPT !.typeinfo = TRUE]
             ELSE LET field == [id |-> x.id, name |-> x.name, type |-> x.type, init |-> x.init,
                                zero |-> acc.zero, required |-> acc.required]
                  IN  [acc EXCEPT !.fields = Append(@, field)],
           [zero |-> TRUE, required |-> FALSE, typeinfo |-> FALSE, fields |-> <<>>], vars_list)

Fields(T) == Initialize(T.vars).fields

\* DefaultZeroByType, and a value constructed by default.
RECURSIVE Zero(_)
Zero(T) ==
  CASE T.kind \in {"int", "float"} -> 0
    [] T.kind = "bool" -> FALSE
    [] T.kind = "pair" -> <<Zero(T.first), Zero(T.second)>>
    [] T.kind = "struct" -> [id \in {f.id : f \in ToSet(Fields(T))} |->
                               (CHOOSE f \in ToSet(Fields(T)) : f.id = id).init]
    [] T.kind = "ptr" -> <<Zero(T.of)>>
    [] OTHER -> <<>>

\* varint, unsigned and signed.
RECURSIVE Varint(_)
Varint(n) == IF n < Payload THEN <<n>> ELSE <<Payload + (n % Payload)>> \o Varint(n \div Payload)

ZigZag(v) == IF v >= 0 THEN 2 * v ELSE -2 * v - 1

UnZigZag(n) == IF n % 2 = 0 THEN n \div 2 ELSE -((n + 1) \div 2)

ReadVarint(s) ==
  LET ends == {i \in DOMAIN s : s[i] < Payload}
      k == Min(ends)
  IN  IF ends = {} THEN Failed
      ELSE Read(FoldRight(LAMBDA b, n : n * Payload + (b % Payload), SubSeq(s, 1, k), 0), From(s, k + 1))

Fixed(n) == <<n % Many, n \div Many>>

ReadFixed(s) == IF Len(s) < 2 THEN Failed ELSE Read(s[1] + Many * s[2], From(s, 3))

RECURSIVE SizeByType(_)
SizeByType(T) ==
  CASE T.kind \in {"int", "bool"} -> 0
    [] T.kind = "float" -> 1
    [] T.kind = "str" -> 3
    [] T.kind = "ptr" -> SizeByType(T.of)
    [] OTHER -> 4

-----------------------------------------------------------------------------
Concat(n, Part(_)) == FoldLeft(LAMBDA acc, i : acc \o Part(i), <<>>, [i \in 1 .. n |-> i])

\* BinarySerializationByType, for binary and for raw binary.
RECURSIVE ToBinary(_, _, _), StructToBinary(_, _), StructToRaw(_, _)
ToBinary(T, v, raw) ==
  CASE T.kind = "int" -> Varint(ZigZag(v))
    [] T.kind = "bool" -> Varint(IF v THEN 1 ELSE 0)
    [] T.kind = "float" -> Fixed(v)
    [] T.kind = "str" -> Varint(Len(v)) \o v
    [] T.kind = "vec" -> LET Elem(i) == ToBinary(T.of, v[i], raw)
                         IN  Varint(Len(v)) \o Concat(Len(v), Elem)
    [] T.kind = "map" -> LET Elem(i) == ToBinary([kind |-> "str"], v[i][1], raw) \o
                                        ToBinary(T.of, v[i][2], raw)
                         IN  Varint(Len(v)) \o Concat(Len(v), Elem)
    [] T.kind = "pair" -> ToBinary(T.first, v[1], raw) \o ToBinary(T.second, v[2], raw)
    [] T.kind = "ptr" -> ToBinary(T.of, IF v = <<>> THEN Zero(T.of) ELSE v[1], raw)
    [] T.kind = "struct" -> IF raw THEN StructToRaw(T, v) ELSE StructToBinary(T, v)

\* SerializeBinary: each field with its id and kind of size, at the end a zero.
StructToBinary(T, v) ==
  LET Field(i) ==
        LET f == Fields(T)[i]
            body == ToBinary(f.type, v[f.id], FALSE)
            size == SizeByType(f.type)
        IN  Varint(8 * f.id + size) \o (IF size = 4 THEN Fixed(Len(body)) ELSE <<>>) \o body
  IN  Concat(Len(Fields(T)), Field) \o <<0>>

\* SerializeRawBinary
StructToRaw(T, v) ==
  LET Field(i) == ToBinary(Fields(T)[i].type, v[Fields(T)[i].id], TRUE)
  IN  Concat(Len(Fields(T)), Field)

\* Mutant of SkipAheadUnknownId: the size of a string is skipped, not the string.
SkipAheadUnknownId_Size(s, size) ==
  LET n == IF size = 4 THEN ReadFixed(s) ELSE ReadVarint(s)
  IN  CASE size \in {0, 3} -> n
        [] size = 1 -> IF Len(s) < 2 THEN Failed ELSE Read(0, From(s, 3))
        [] size = 4 -> IF ~n.ok \/ Len(n.rest) < n.v THEN Failed ELSE Read(0, From(n.rest, n.v + 1))
        [] OTHER -> Failed

\* SkipAheadUnknownId(): the kind of size in the stream says how to go on.
SkipAheadUnknownId(s, size) ==
  LET n == IF size = 4 THEN ReadFixed(s) ELSE ReadVarint(s)
  IN  CASE size = 0 -> n
        [] size = 1 -> IF Len(s) < 2 THEN Failed ELSE Read(0, From(s, 3))
        [] size \in {3, 4} ->
             IF ~n.ok \/ Len(n.rest) < n.v THEN Failed ELSE Read(0, From(n.rest, n.v + 1))
        [] OTHER -> Failed

\* The fields that were not read: an error, the zero value, or what they were.
Complete(T, val, parsed, rest) ==
  LET missing == {f \in ToSet(Fields(T)) : f.id \notin parsed}
  IN  IF \E f \in missing : f.required THEN Failed
      ELSE Read([id \in DOMAIN val |->
                   IF \E f \in missing : f.id = id /\ f.zero
                   THEN Zero((CHOOSE f \in missing : f.id = id).type) ELSE val[id]], rest)

\* BinaryDeSerializationByType and the readers of structs; old is the value
\* that is overwritten.
RECURSIVE ReadAll(_, _, _, _), FromBinary(_, _, _, _), DeserializeRaw(_, _, _), Deserialize(_, _, _, _)
\* One value after the other, up to the first error.
ReadAll(types, s, olds, raw) ==
  FoldLeft(LAMBDA acc, i : IF ~acc.ok THEN acc
                           ELSE LET r == FromBinary(types[i], acc.rest, olds[i], raw)
                                IN  IF r.ok THEN Read(Append(acc.v, r.v), r.rest) ELSE Failed,
           Read(<<>>, s), [i \in DOMAIN types |-> i])
FromBinary(T, s, old, raw) ==
  LET n == ReadVarint(s)
  IN  CASE T.kind = "int" -> IF n.ok THEN Read(UnZigZag(n.v), n.rest) ELSE Failed
        [] T.kind = "bool" -> IF n.ok THEN Read(n.v # 0, n.rest) ELSE Failed
        [] T.kind = "float" -> ReadFixed(s)
        [] T.kind = "str" -> IF ~n.ok \/ Len(n.rest) < n.v THEN Failed
                             ELSE Read(SubSeq(n.rest, 1, n.v), From(n.rest, n.v + 1))
        [] T.kind = "vec" -> IF n.ok THEN ReadAll([i \in 1 .. n.v |-> T.of], n.rest, [i \in 1 .. n.v |-> Zero(T.of)], raw) ELSE Failed
        [] T.kind = "map" ->
             LET pair == [kind |-> "pair", first |-> [kind |-> "str"], second |-> T.of]
             IN  IF n.ok THEN ReadAll([i \in 1 .. n.v |-> pair], n.rest, [i \in 1 .. n.v |-> Zero(pair)], raw) ELSE Failed
        [] T.kind = "pair" -> ReadAll(<<T.first, T.second>>, s, old, raw)
        [] T.kind = "ptr" -> LET r == FromBinary(T.of, s, Zero(T.of), raw)
                             IN  IF r.ok THEN Read(<<r.v>>, r.rest) ELSE Failed
        [] T.kind = "struct" /\ raw -> DeserializeRaw(T, s, old)
        [] T.kind = "struct" -> Deserialize(T, s, old, {})

\* DeSerializeRawBinary: all fields, in their order.
DeserializeRaw(T, s, old) ==
  LET all == ReadAll([i \in DOMAIN Fields(T) |-> Fields(T)[i].type], s,
                     [i \in DOMAIN Fields(T) |-> old[Fields(T)[i].id]], TRUE)
  IN  IF ~all.ok THEN Failed
      ELSE Read([id \in DOMAIN old |->
                   all.v[CHOOSE i \in DOMAIN Fields(T) : Fields(T)[i].id = id]], all.rest)

\* DeSerializeBinary::Deserialize(), from the next field on.
Deserialize(T, s, val, parsed) ==
  LET head == ReadVarint(s)
      id == head.v \div 8
      size == head.v % 8
      known == {f \in ToSet(Fields(T)) : f.id = id}
      f == CHOOSE x \in known : TRUE
      skipped == SkipAheadUnknownId(head.rest, size)
      at == IF size = 4 THEN ReadFixed(head.rest) ELSE head
      field == FromBinary(f.type, at.rest, val[id], FALSE)
  IN  IF ~head.ok THEN Failed
      ELSE IF head.v = 0 THEN Complete(T, val, parsed, head.rest)
      ELSE IF id = 0 THEN Failed
      ELSE IF known = {} THEN IF skipped.ok THEN Deserialize(T, skipped.rest, val, parsed) ELSE Failed
      ELSE IF at.ok /\ field.ok
           THEN Deserialize(T, field.rest, [val EXCEPT ![id] = field.v], parsed \cup {id})
           ELSE Failed

-----------------------------------------------------------------------------
Mark(c) == [t |-> c]

Number(v) == <<[t |-> "number", v |-> v]>>

\* The next token, as ExpectNext() looks at it.
Next1(s) == IF s = <<>> THEN "eof" ELSE s[1].t

Separated(parts) ==
  FoldLeft(LAMBDA acc, i : acc \o (IF i > 1 THEN <<Mark(",")>> ELSE <<>>) \o parts[i], <<>>,
           [i \in DOMAIN parts |-> i])

\* JSONSerializationByType.
RECURSIVE ToJSON(_, _), StructToJSON(_, _)
ToJSON(T, v) ==
  CASE T.kind \in {"int", "float"} -> Number(v)
    [] T.kind = "bool" -> <<[t |-> IF v THEN "true" ELSE "false"]>>
    [] T.kind = "str" -> <<[t |-> "string", v |-> v]>>
    [] T.kind = "blob" -> IF v = <<>> THEN <<Mark("null")>> ELSE v
    [] T.kind = "vec" -> LET elems == [i \in DOMAIN v |-> ToJSON(T.of, v[i])]
                         IN  <<Mark("[")>> \o Separated(elems) \o <<Mark("]")>>
    [] T.kind = "pair" -> <<Mark("[")>> \o ToJSON(T.first, v[1]) \o <<Mark(",")>> \o
                          ToJSON(T.second, v[2]) \o <<Mark("]")>>
    [] T.kind = "map" -> LET elems == [i \in DOMAIN v |-> <<[t |-> "string", v |-> v[i][1]], Mark(":")>> \o
                                                         ToJSON(T.of, v[i][2])]
                         IN  <<Mark("{")>> \o Separated(elems) \o <<Mark("}")>>
    [] T.kind = "ptr" -> ToJSON(T.of, IF v = <<>> THEN Zero(T.of) ELSE v[1])
    [] T.kind = "struct" -> StructToJSON(T, v)

\* SerializeJSON
StructToJSON(T, v) ==
  LET Named(name, val) == <<[t |-> "string", v |-> name], Mark(":")>> \o val
      info == IF Initialize(T.vars).typeinfo THEN 1 ELSE 0
      Member(i) == IF i <= info THEN Named(<<"__type_info">>, <<[t |-> "string", v |-> <<"T">>]>>)
                   ELSE LET f == Fields(T)[i - info] IN Named(f.name, ToJSON(f.type, v[f.id]))
  IN  <<Mark("{")>> \o Separated([i \in 1 .. Len(Fields(T)) + info |-> Member(i)]) \o <<Mark("}")>>

\* JSONSkipAheadField(): up to where the brackets are balanced.
JSONSkipAheadField(s) ==
  LET Count(k, marks) == Len(SelectSeq(SubSeq(s, 1, k), LAMBDA x : x.t \in marks))
      ends == {k \in DOMAIN s : Count(k, {"[", "{"}) = Count(k, {"]", "}"})}
  IN  IF ends = {} THEN Failed ELSE Read(SubSeq(s, 1, Min(ends)), From(s, Min(ends) + 1))

\* After a part of a list: on to the next part, or to the end of the list.
Separator(s, close) ==
  CASE Next1(s) = "," -> Read(0, Tail(s)) [] Next1(s) = close -> Read(0, s) [] OTHER -> Failed

\* JSONDeSerializationByType.
RECURSIVE FromJSON(_, _, _), Elements(_, _, _), Pairs(_, _, _), DeserializeJSON(_, _, _, _)
FromJSON(T, s, old) ==
  LET skip == JSONSkipAheadField(s)
  IN  CASE T.kind \in {"int", "float"} -> IF Next1(s) = "number" THEN Read(s[1].v, Tail(s)) ELSE Failed
        [] T.kind = "bool" -> IF s = <<>> THEN Failed ELSE Read(s[1].t = "true", Tail(s))
        [] T.kind = "str" -> IF Next1(s) = "string" THEN Read(s[1].v, Tail(s)) ELSE Failed
        [] T.kind = "blob" -> IF ~skip.ok THEN Failed
                              ELSE Read(IF Next1(s) = "null" THEN <<>> ELSE skip.v, skip.rest)
        [] T.kind = "vec" -> IF Next1(s) = "[" THEN Elements(T, Tail(s), <<>>)
                             ELSE LET r == FromJSON(T.of, s, Zero(T.of))
                                  IN  IF r.ok THEN Read(<<r.v>>, r.rest) ELSE Failed
        [] T.kind = "map" -> IF Next1(s) = "{" THEN Pairs(T, Tail(s), old) ELSE Failed
        [] T.kind = "pair" ->
             LET a == FromJSON(T.first, Tail(s), old[1])
                 b == FromJSON(T.second, Tail(a.rest), old[2])
             IN  IF Next1(s) # "[" THEN Failed
                 ELSE IF ~a.ok \/ Next1(a.rest) # "," THEN Failed
                 ELSE IF ~b.ok \/ Next1(b.rest) # "]" THEN Failed
                 ELSE Read(<<a.v, b.v>>, Tail(b.rest))
        [] T.kind = "ptr" -> LET r == FromJSON(T.of, s, Zero(T.of))
                             IN  IF r.ok THEN Read(<<r.v>>, r.rest) ELSE Failed
        [] T.kind = "struct" -> IF Next1(s) = "{" THEN DeserializeJSON(T, Tail(s), old, {}) ELSE Failed

Elements(T, s, elems) ==
  LET r == FromJSON(T.of, s, Zero(T.of))
      next == Separator(r.rest, "]")
  IN  IF Next1(s) = "]" THEN Read(elems, Tail(s))
      ELSE IF s = <<>> \/ ~r.ok THEN Failed
      ELSE IF next.ok THEN Elements(T, next.rest, Append(elems, r.v)) ELSE Failed

\* A map is not cleared, and insert() keeps what is there.
Pairs(T, s, pairs) ==
  LET r == FromJSON(T.of, From(s, 3), Zero(T.of))
      next == Separator(r.rest, "}")
      has == \E i \in DOMAIN pairs : pairs[i][1] = s[1].v
  IN  IF Next1(s) = "}" THEN Read(pairs, Tail(s))
      ELSE IF Len(s) < 3 \/ Next1(s) # "string" THEN Failed
      ELSE IF s[2].t # ":" \/ ~r.ok THEN Failed
      ELSE IF ~next.ok THEN Failed
      ELSE Pairs(T, next.rest, IF has THEN pairs ELSE Append(pairs, <<s[1].v, r.v>>))

\* DeSerializeJSON::Deserialize(), from the next field on; null is as if the
\* field were not there.
DeserializeJSON(T, s, val, parsed) ==
  LET known == {f \in ToSet(Fields(T)) : f.name = s[1].v}
      f == CHOOSE x \in known : TRUE
      null == known # {} /\ s[3].t = "null"
      r == IF known = {} THEN JSONSkipAheadField(From(s, 3))
           ELSE IF null THEN Read(val[f.id], From(s, 4))
           ELSE FromJSON(f.type, From(s, 3), val[f.id])
      next == Separator(r.rest, "}")
  IN  IF Next1(s) = "}" THEN Complete(T, val, parsed, Tail(s))
      ELSE IF Len(s) < 3 \/ Next1(s) # "string" THEN Failed
      ELSE IF s[2].t # ":" \/ ~r.ok THEN Failed
      ELSE IF ~next.ok THEN Failed
      ELSE IF known = {} THEN DeserializeJSON(T, next.rest, val, parsed)
      ELSE DeserializeJSON(T, next.rest, [val EXCEPT ![f.id] = r.v],
                           IF null THEN parsed ELSE parsed \cup {f.id})

-----------------------------------------------------------------------------
\* ToBinaryPrependSize(), and what a message is in each format.
Message(v) ==
  CASE format = "json" -> ToJSON(Schema[writer], v)
    [] format = "rpc" -> LET body == ToBinary(Schema[writer], v, FALSE) IN Fixed(Len(body)) \o body
    [] OTHER -> ToBinary(Schema[writer], v, format = "raw")

Unread == SubSeq(stream, pos + 1, got)

\* BinaryStreamHasEnoughDataToParsePrependedSize()
HasEnoughData(s) == Len(s) >= 2 /\ Len(s) >= ReadFixed(s).v + 2

FromMessage(s) ==
  LET T == Schema[reader]
  IN  CASE format = "json" -> FromJSON(T, s, Zero(T))
        [] format = "rpc" -> FromBinary(T, From(s, 3), Zero(T), FALSE)
        [] OTHER -> FromBinary(T, s, Zero(T), format = "raw")

Init ==
  /\ \E c \in Cases : format = c[1] /\ writer = c[2] /\ reader = c[3]
  /\ \E v, w \in Values[writer] : sent = IF format = "rpc" THEN <<v>> ELSE <<v, w>>
  /\ LET Part(i) == Message(sent[i]) IN stream = Concat(Len(sent), Part)
  /\ got = 0 /\ pos = 0 /\ received = <<>>

\* A program gives up after an error.
ReadSoFar == \A i \in DOMAIN received : received[i].ok

Arrive ==
  /\ got < Len(stream) /\ ReadSoFar
  /\ got' = got + 1
  /\ UNCHANGED <<format, writer, reader, sent, stream, pos, received>>

\* A program reads a struct from what there is; an RPC message only once it is
\* complete.
ReadMessage ==
  /\ Len(received) < Len(sent) /\ ReadSoFar
  /\ format = "rpc" => HasEnoughData(Unread)
  /\ \E r \in {FromMessage(Unread)} :
       /\ received' = Append(received, [ok |-> r.ok, v |-> r.v, all |-> got = Len(stream)])
       /\ pos' = got - Len(r.rest)
  /\ UNCHANGED <<format, writer, reader, sent, stream, got>>

Next == Arrive \/ ReadMessage

Spec == Init /\ [][Next]_vars

-----------------------------------------------------------------------------
\* The value that the reader's version should give to what was written: the
\* fields both have, and the defaults of the others.
RECURSIVE Converted(_, _, _, _)
Converted(W, R, v, old) ==
  CASE W.kind = "ptr" -> <<Converted(W.of, R.of, IF v = <<>> THEN Zero(W.of) ELSE v[1], Zero(R.of))>>
    [] W.kind = "vec" -> [i \in DOMAIN v |-> Converted(W.of, R.of, v[i], Zero(R.of))]
    [] W.kind = "struct" ->
         [id \in DOMAIN old |->
            LET r == CHOOSE x \in ToSet(Fields(R)) : x.id = id
                same == {w \in ToSet(Fields(W)) : w.id = id}
                w == CHOOSE x \in same : TRUE
            IN  IF same # {} THEN Converted(w.type, r.type, v[id], old[id])
                ELSE IF r.zero THEN Zero(r.type) ELSE old[id]]
    [] OTHER -> v

Readable == \A r \in ToSet(Fields(Schema[reader])) :
              r.required => \E w \in ToSet(Fields(Schema[writer])) : w.id = r.id

\* A struct is read as it was written, up to the fields only one side knows,
\* and the next one is read from where it ends: unknown fields are skipped,
\* missing ones get their defaults, and a missing required field is an error.
VersionsAgree ==
  \A i \in DOMAIN received :
    /\ received[i].ok => /\ Readable
                         /\ received[i].v = Converted(Schema[writer], Schema[reader], sent[i],
                                                      Zero(Schema[reader]))
    /\ received[i].all /\ Readable /\ (i = 1 \/ received[1].ok) => received[i].ok

\* Nothing is read from a part of a message, and an RPC message that is
\* complete by its size can be read.
NoPartRead ==
  /\ \A i \in DOMAIN received :
       received[i].ok => pos <= got /\ pos >= Len(FoldLeft(LAMBDA a, b : a \o b, <<>>,
                                                           [k \in 1 .. i |-> Message(sent[k])]))
  /\ format = "rpc" => \A i \in DOMAIN received : received[i].ok = Readable
=============================================================================
