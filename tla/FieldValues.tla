---------------------------- MODULE FieldValues ----------------------------
(***************************************************************************)
(* The value of one field of src/python_native.rs that is not a message of *)
(* the schema: a scalar, or a well-known type (encode_wkt and read_wkt).   *)
(* A codec encodes an object, or is given bytes; it decodes the bytes, and *)
(* what they were is encoded again.                                        *)
(***************************************************************************)
EXTENDS WktArithmetic, Scalars, SequencesExt

CONSTANTS
  Nothing,     \* what has not been computed
  MAX_DEPTH,
  Given,       \* Given[kind]: calls of encode, [type, depth, naive_utc, object]
  Received     \* Received[kind]: calls of decode, [type, depth, tokens]

VARIABLES
  type,        \* of the value, constant
  depth,       \* the nesting of its payload, constant
  naive_utc,   \* setting of the codec, constant
  object,      \* the object that is encoded, or Nothing
  payload,     \* what encoding wrote, or what was received
  result,      \* what decoding the payload returns
  again        \* what encoding the result writes

vars == <<type, depth, naive_utc, object, payload, result, again>>

(* A type has a kind, and the two that hold a scalar its scalar type:      *)
(* "Field" is an optional field of the schema, "Wrapper" the message       *)
(* around one.                                                             *)
Kinds == {"Field", "Wrapper", "Timestamp", "Duration", "FieldMask", "Struct", "Value",
          "ListValue", "Date"}

ASSUME GivenAssumption ==
  \A k \in Kinds :
    /\ \A g \in Given[k] : g.type.kind = k /\ g.depth \in Nat /\ g.naive_utc \in BOOLEAN
    /\ \A r \in Received[k] : r.type.kind = k /\ r.depth \in Nat

-----------------------------------------------------------------------------
(* Further Python objects.  The offset of a datetime is <<>> if it has     *)
(* none, a dict is its entries <<key, value>> in order.                    *)
None == [none |-> TRUE]
PyDateTime(date, time, micros, offset) ==
  [datetime |-> date, time |-> time, micros |-> micros, offset |-> offset]
PyDate(date) == [date |-> date]
PyDelta(parts) == [delta |-> parts]
PyList(s) == [list |-> s]
PyTuple(s) == [tuple |-> s]
PyDict(entries) == [dict |-> entries]

(* PyDict::set_item: a key stays where it is.                              *)
SetItem(entries, k, v) ==
  IF \E i \in DOMAIN entries : entries[i][1] = k
  THEN [i \in DOMAIN entries |-> IF entries[i][1] = k THEN <<k, v>> ELSE entries[i]]
  ELSE Append(entries, <<k, v>>)

(* A token: a tag and what follows.  The payload of a length-delimited one *)
(* is a text or tokens, whatever the reader takes it for.  Wire types 3    *)
(* and 4 are "group"; what is no field, as a number out of range or a      *)
(* value cut short, has the wire type "bad".                               *)
Token(n, wire, word) == [number |-> n, wire |-> wire, word |-> word, text |-> "", payload |-> <<>>]
Varint(n, word) == Token(n, "varint", word)
Text(n, s) == [Token(n, "len", 0) EXCEPT !.text = s]
Delimited(n, tokens) ==
  IF tokens = Error THEN Error ELSE [Token(n, "len", 0) EXCEPT !.payload = tokens]
ScalarToken(n, scalar, word) ==
  IF scalar \in Texts THEN Text(n, word) ELSE Token(n, wire_type(scalar), word)

(* An exception in one of several calls ends them all.                     *)
Raised(s) == \E i \in DOMAIN s : s[i] = Error
AllOf(s) == IF Raised(s) THEN Error ELSE s

-----------------------------------------------------------------------------
(* Mutant of timestamp_of: the range is that of the local time.            *)
timestamp_of_local(v) ==
  IF ~Is("datetime", v) \/ (v.offset = <<>> /\ ~naive_utc) THEN Error
  ELSE LET offset == IF v.offset = <<>> THEN 0 ELSE v.offset[1]
           pair == civil_to_timestamp(v.datetime, v.time, v.micros, offset)
           local == civil_to_timestamp(v.datetime, v.time, v.micros, 0)
       IN  IF check_timestamp(local[1], local[2]) THEN pair ELSE Error

(* encode_wkt.                                                             *)
timestamp_of(v) ==
  IF ~Is("datetime", v) \/ (v.offset = <<>> /\ ~naive_utc) THEN Error
  ELSE LET offset == IF v.offset = <<>> THEN 0 ELSE v.offset[1]
           pair == civil_to_timestamp(v.datetime, v.time, v.micros, offset)
       IN  IF check_timestamp(pair[1], pair[2]) THEN pair ELSE Error

DurationOf(v) ==
  IF ~Is("delta", v) THEN Error
  ELSE LET pair == duration_from_parts(v.delta[1], v.delta[2], v.delta[3])
       IN  IF check_duration(pair[1], pair[2]) THEN pair ELSE Error

(* Numbers that are not zero, in the fields 1, 2, ...                      *)
write_numbers(numbers) ==
  IF numbers = Error THEN Error
  ELSE SelectSeq([i \in 1 .. Len(numbers) |-> Varint(i, numbers[i] % W64)],
                 LAMBDA t : t.word # 0)

(* A date that is not a datetime, or a dict of its parts.                  *)
DateOf(v) ==
  IF Is("date", v) THEN v.date
  ELSE IF ~Is("dict", v) THEN Error
  ELSE LET Part(key) ==
             LET at == {i \in DOMAIN v.dict : v.dict[i][1] = PyStr(key)}
                 part == IF at = {} THEN PyInt(0) ELSE v.dict[CHOOSE i \in at : TRUE][2]
             IN  IF IsInt(part) /\ IntOf(part) \in Ints("Int32") THEN IntOf(part) ELSE Error
       IN  AllOf(<<Part("year"), Part("month"), Part("day")>>)

(* try_iter; a dict gives its keys, a str its characters, and bytes give   *)
(* ints (an atom that is not empty has one of either).                     *)
IsIterable(v) == \E what \in {"list", "tuple", "dict", "str", "bytes"} : Is(what, v)
Octet(atom) == PyInt(IF atom = BAD THEN 255 ELSE 97)
Items(v) ==
  CASE Is("list", v) -> v.list
    [] Is("tuple", v) -> v.tuple
    [] Is("dict", v) -> [i \in DOMAIN v.dict |-> v.dict[i][1]]
    [] Is("str", v) -> IF v.str = "" THEN <<>> ELSE <<v>>
    [] Is("bytes", v) -> IF v.bytes = "" THEN <<>> ELSE <<Octet(v.bytes)>>

Paths(v) ==
  IF ~IsIterable(v) THEN Error
  ELSE AllOf([i \in DOMAIN Items(v) |->
         IF encode_scalar("String", Items(v)[i]) = Error THEN Error
         ELSE Text(1, Items(v)[i].str)])

RECURSIVE encode_json_value(_, _), encode_struct(_, _), encode_list_value(_, _)

encode_json_value(v, d) ==
  IF d > MAX_DEPTH THEN Error
  ELSE CASE v = None -> <<Varint(1, 0)>>
         [] Is("bool", v) -> <<Varint(4, IntOf(v))>>
         [] Is("int", v) \/ Is("float", v) ->
              LET word == encode_scalar("Double", v)
              IN  IF word = Error THEN Error ELSE <<ScalarToken(2, "Double", word)>>
         [] Is("str", v) -> IF v = PyStr(BAD) THEN Error ELSE <<Text(3, v.str)>>
         [] Is("dict", v) -> AllOf(<<Delimited(5, encode_struct(v, d + 1))>>)
         [] Is("list", v) \/ Is("tuple", v) ->
              AllOf(<<Delimited(6, encode_list_value(v, d + 1))>>)
         [] OTHER -> Error

encode_struct(v, d) ==
  IF ~Is("dict", v) THEN Error
  ELSE AllOf([i \in DOMAIN v.dict |->
         LET key == encode_scalar("String", v.dict[i][1])
             value == Delimited(2, encode_json_value(v.dict[i][2], d + 1))
         IN  IF key = Error THEN Error ELSE Delimited(1, AllOf(<<Text(1, key), value>>))])

encode_list_value(v, d) ==
  IF ~IsIterable(v) THEN Error
  ELSE AllOf([i \in DOMAIN Items(v) |-> Delimited(1, encode_json_value(Items(v)[i], d + 1))])

(* encode_wkt, and encode_field for an optional scalar.                    *)
EncodeScalar(v) ==
  LET word == encode_scalar(type.scalar, v)
  IN  IF word = Error THEN Error
      ELSE IF type.kind = "Wrapper" /\ is_zero(type.scalar, word) THEN <<>>
      ELSE <<ScalarToken(1, type.scalar, word)>>

Encoding(v) ==
  IF type.kind # "Field" /\ depth > MAX_DEPTH THEN Error
  ELSE CASE type.kind \in {"Field", "Wrapper"} -> EncodeScalar(v)
         [] type.kind = "Timestamp" -> write_numbers(timestamp_of(v))
         [] type.kind = "Duration" -> write_numbers(DurationOf(v))
         [] type.kind = "FieldMask" -> Paths(v)
         [] type.kind = "Struct" -> encode_struct(v, depth)
         [] type.kind = "Value" -> encode_json_value(v, depth)
         [] type.kind = "ListValue" -> encode_list_value(v, depth)
         [] type.kind = "Date" -> write_numbers(DateOf(v))

-----------------------------------------------------------------------------
(* Mutant of Malformed: groups are skipped like unknown fields.            *)
MalformedButGroups(tokens) == \E i \in DOMAIN tokens : tokens[i].wire = "bad"

(* read_tag and skip_field refuse groups, as all that is no field, under   *)
(* any number and in every message.                                        *)
Malformed(tokens) == \E i \in DOMAIN tokens : tokens[i].wire \in {"group", "bad"}

(* read_wkt.  The reader of a message takes the tokens it knows; of those  *)
(* with one number the last counts.                                        *)
Known(tokens, n, wire) == SelectSeq(tokens, LAMBDA t : t.number = n /\ t.wire = wire)
LastOr(s, default) == IF s = <<>> THEN default ELSE s[Len(s)]
Word(tokens, n) == LastOr(Known(tokens, n, "varint"), Varint(n, 0)).word

ReadScalar(scalar, t) ==
  read_plain_scalar(scalar, IF scalar \in Texts THEN t.text ELSE t.word)

(* Each occurrence is read, and may raise.                                 *)
ReadLast(values, default) == IF Raised(values) THEN Error ELSE LastOr(values, default)

ReadScalars(tokens, default) ==
  LET known == Known(tokens, 1, wire_type(type.scalar))
  IN  ReadLast([i \in DOMAIN known |-> ReadScalar(type.scalar, known[i])], default)

(* The optional field is None if absent, and has no other wire type.       *)
ReadField(tokens) ==
  IF \E i \in DOMAIN tokens : tokens[i].number = 1 /\ tokens[i].wire # wire_type(type.scalar)
  THEN Error
  ELSE ReadScalars(tokens, None)

ReadTimestamp(tokens) ==
  LET seconds == AsSigned(Word(tokens, 1), W64)
      nanos == AsSigned(Word(tokens, 2), W32)
      civil == timestamp_to_civil(seconds)
  IN  IF check_timestamp(seconds, nanos) /\ IsDate(civil.date)
      THEN PyDateTime(civil.date, civil.time, nanos \div NanosPerMicro, <<0>>)
      ELSE Error

ReadDuration(tokens) ==
  LET seconds == AsSigned(Word(tokens, 1), W64)
      nanos == AsSigned(Word(tokens, 2), W32)
  IN  IF check_duration(seconds, nanos) THEN PyDelta(duration_to_parts(seconds, nanos)) ELSE Error

ReadDate(tokens) ==
  LET date == [i \in 1 .. 3 |-> AsSigned(Word(tokens, i), W32)]
  IN  IF IsDate(date) THEN PyDate(date) ELSE Error

ReadPaths(tokens) ==
  LET known == Known(tokens, 1, "len")
      paths == [i \in DOMAIN known |-> ReadScalar("String", known[i])]
  IN  IF Raised(paths) THEN Error ELSE PyList(paths)

RECURSIVE read_struct(_, _), read_json_value(_, _), read_list_value(_, _)

(* The value a field of google.protobuf.Value sets, if it sets one.        *)
ReadJson(t, d) ==
  CASE t.number = 1 /\ t.wire = "varint" -> None
    [] t.number = 2 /\ t.wire = "i64" -> ReadScalar("Double", t)
    [] t.number = 3 /\ t.wire = "len" -> ReadScalar("String", t)
    [] t.number = 4 /\ t.wire = "varint" -> ReadScalar("Bool", t)
    [] t.number = 5 /\ t.wire = "len" -> read_struct(t.payload, d + 1)
    [] t.number = 6 /\ t.wire = "len" -> read_list_value(t.payload, d + 1)
    [] OTHER -> Nothing

read_json_value(tokens, d) ==
  IF d > MAX_DEPTH \/ Malformed(tokens) THEN Error
  ELSE LET values == [i \in DOMAIN tokens |-> ReadJson(tokens[i], d)]
       IN  ReadLast(SelectSeq(values, LAMBDA v : v # Nothing), None)

read_list_value(tokens, d) ==
  LET known == Known(tokens, 1, "len")
      items == [i \in DOMAIN known |-> read_json_value(known[i].payload, d + 1)]
  IN  IF Malformed(tokens) \/ Raised(items) THEN Error ELSE PyList(items)

(* Mutant of ReadEntry: the value is as deep as its entry.                 *)
ReadEntryAtSameDepth(tokens, d) ==
  LET keys == Known(tokens, 1, "len")
      values == Known(tokens, 2, "len")
  IN  IF Malformed(tokens) THEN Error
      ELSE AllOf(<<ReadLast([i \in DOMAIN keys |-> ReadScalar("String", keys[i])], PyStr("")),
                   ReadLast([i \in DOMAIN values |-> read_json_value(values[i].payload, d)],
                            None)>>)

ReadEntry(tokens, d) ==
  LET keys == Known(tokens, 1, "len")
      values == Known(tokens, 2, "len")
  IN  IF Malformed(tokens) THEN Error
      ELSE AllOf(<<ReadLast([i \in DOMAIN keys |-> ReadScalar("String", keys[i])], PyStr("")),
                   ReadLast([i \in DOMAIN values |-> read_json_value(values[i].payload, d + 1)],
                            None)>>)

read_struct(tokens, d) ==
  LET known == Known(tokens, 1, "len")
      entries == [i \in DOMAIN known |-> ReadEntry(known[i].payload, d)]
  IN  IF Malformed(tokens) \/ Raised(entries) THEN Error
      ELSE PyDict(FoldLeft(LAMBDA dict, e : SetItem(dict, e[1], e[2]), <<>>, entries))

Decoding(tokens) ==
  IF (type.kind # "Field" /\ depth > MAX_DEPTH) \/ Malformed(tokens) THEN Error
  ELSE CASE type.kind = "Field" -> ReadField(tokens)
         [] type.kind = "Wrapper" -> ReadScalars(tokens, scalar_zero(type.scalar))
         [] type.kind = "Timestamp" -> ReadTimestamp(tokens)
         [] type.kind = "Duration" -> ReadDuration(tokens)
         [] type.kind = "Date" -> ReadDate(tokens)
         [] type.kind = "FieldMask" -> ReadPaths(tokens)
         [] type.kind = "Struct" -> read_struct(tokens, depth)
         [] type.kind = "Value" -> read_json_value(tokens, depth)
         [] type.kind = "ListValue" -> read_list_value(tokens, depth)

-----------------------------------------------------------------------------
Constant == UNCHANGED <<type, depth, naive_utc, object>>

Init ==
  /\ result = Nothing /\ again = Nothing
  /\ \E k \in Kinds :
       \/ \E g \in Given[k] :
            /\ type = g.type /\ depth = g.depth /\ naive_utc = g.naive_utc
            /\ object = g.object /\ payload = Nothing
       \/ \E r \in Received[k] :
            /\ type = r.type /\ depth = r.depth /\ naive_utc = FALSE
            /\ object = Nothing /\ payload = r.tokens

Encode ==
  /\ payload = Nothing
  /\ payload' = Encoding(object)
  /\ UNCHANGED <<result, again>>
  /\ Constant

Decode ==
  /\ payload \notin {Nothing, Error}
  /\ result = Nothing
  /\ result' = Decoding(payload)
  /\ UNCHANGED <<payload, again>>
  /\ Constant

(* encode_message skips an optional field that is None.                    *)
LeftOut == type.kind = "Field" /\ result = None

EncodeAgain ==
  /\ result \notin {Nothing, Error} /\ ~LeftOut
  /\ again = Nothing
  /\ again' = Encoding(result)
  /\ UNCHANGED <<payload, result>>
  /\ Constant

Terminated ==
  /\ payload = Error \/ result = Error \/ again # Nothing \/ LeftOut
  /\ UNCHANGED vars

Next == Encode \/ Decode \/ EncodeAgain \/ Terminated

Spec == Init /\ [][Next]_vars
=============================================================================
