---------------------------- MODULE MCFieldValues ----------------------------
(***************************************************************************)
(* FieldReference on scaled units of time and words: each scalar type at   *)
(* the ends of its range, the days of chosen years, instants around the    *)
(* first, the last and the day of the epoch in every offset that matters,  *)
(* and JSON values nested one level more than can be encoded.              *)
(***************************************************************************)
EXTENDS FieldReference

CONSTANT Years

Kind(k) == [kind |-> k]
ScalarKind(k, s) == [kind |-> k, scalar |-> s]
Call(t, d, n, v) == [type |-> t, depth |-> d, naive_utc |-> n, object |-> v]
Bytes_(t, d, tokens) == [type |-> t, depth |-> d, tokens |-> tokens]

Wrapped == {"Double", "Float", "Int64", "Uint64", "Int32", "Uint32", "Bool", "String", "Bytes"}
ScalarKinds ==
  {ScalarKind("Field", s) : s \in ScalarTypes} \cup {ScalarKind("Wrapper", s) : s \in Wrapped}

(* Around the ends of each range.                                          *)
Ends == {0, W32 \div 2, W32, W64 \div 2, W64}
Numbers == UNION {{e - 2, e - 1, e, -e - 1, -e} : e \in Ends} \cup {1}
Words == {n \in Numbers : n \in 0 .. W64 - 1}
Objects ==
  {PyInt(n) : n \in Numbers} \cup {PyBool(b) : b \in BOOLEAN}
  \cup {PyFloat(b, n) : b \in BOOLEAN, n \in {m \in Words : m < W64 \div 2}}
  \cup {PyStr(""), PyStr("a"), PyStr(BAD), PyBytes(""), PyBytes(BAD)}

ScalarCalls == {Call(t, d, FALSE, v) : t \in ScalarKinds, d \in {1, MAX_DEPTH + 1}, v \in Objects}

(* A text is one of the atoms; a float of 32 bits has no more.             *)
WordsOf(s) ==
  CASE wire_type(s) = "len" -> {Text(1, a) : a \in {"", "a", BAD}}
    [] wire_type(s) = "i32" -> {Token(1, "i32", w) : w \in {w \in Words : w < W32}}
    [] OTHER -> {Token(1, wire_type(s), w) : w \in Words}
Strays == {Varint(2, 1), Token(1, "i64", 1), Text(2, "a"), Token(3, "i32", 0),
           Token(1, "group", 0), Token(4, "group", 0), Token(3, "bad", 0)}
ScalarBytes ==
  UNION {{Bytes_(t, 1, <<a, b>>) : a, b \in WordsOf(t.scalar) \cup Strays}
         : t \in {t \in ScalarKinds : t.scalar \in {"Int32", "Uint32", "Sint32", "Bool", "String"}}}
  \cup {Bytes_(t, 1, <<a>>) : t \in {t \in ScalarKinds : TRUE}, a \in Strays}
  \cup UNION {{Bytes_(t, 1, <<a>>) : a \in WordsOf(t.scalar)} : t \in ScalarKinds}

-----------------------------------------------------------------------------
DatesOf(y) ==
  UNION {{<<y, m, d>> : d \in 1 .. MonthLength(y, m)} : m \in 1 .. 12}
Midnight == <<0, 0, 0>>
Calendar == {PyDateTime(date, Midnight, 0, <<0>>) : date \in UNION {DatesOf(y) : y \in Years}}

EdgeDates == {<<1, 1, 1>>, <<1, 1, 2>>, <<1969, 12, 31>>, <<1970, 1, 1>>, <<2000, 2, 29>>,
              <<9999, 12, 30>>, <<9999, 12, 31>>}
Times == (0 .. HoursPerDay - 1) \X (0 .. MinutesPerHour - 1) \X (0 .. SecondsPerMinute - 1)
Offsets ==
  {<<>>} \cup {<<n>> : n \in {1 - MicrosPerDay, -3, -1, 0, 1, MicrosPerSecond, MicrosPerDay - 1}}
EdgeTimes ==
  {PyDateTime(date, time, micros, offset) :
     date \in EdgeDates, time \in Times, micros \in 0 .. MicrosPerSecond - 1, offset \in Offsets}
TimeCalls ==
  {Call(Kind("Timestamp"), 1, FALSE, v) : v \in Calendar}
  \cup {Call(Kind("Timestamp"), 1, n, v) : n \in BOOLEAN, v \in EdgeTimes \cup {PyInt(0)}}

Deltas ==
  {PyDelta(<<d, s, u>>) : d \in -4 .. 4, s \in 0 .. SecondsPerDay - 1, u \in 0 .. MicrosPerSecond - 1}
DurationCalls == {Call(Kind("Duration"), 1, FALSE, v) : v \in Deltas \cup {PyInt(0)}}

Seconds ==
  {n + m : n \in {0, TIMESTAMP_MIN_SECONDS, TIMESTAMP_MAX_SECONDS, DURATION_MAX_SECONDS,
                  -DURATION_MAX_SECONDS}, m \in -2 .. 2}
  \cup {-(W64 \div 2), W64 \div 2 - 1}
Nanos == -NanosPerSecond .. NanosPerSecond \cup {W32, W32 + 1, W64 - 1}
PairBytes(s, n) == <<Varint(1, s % W64), Varint(2, n % W64)>>
TimeBytes ==
  {Bytes_(Kind(k), 1, PairBytes(s, n)) : k \in {"Timestamp", "Duration"}, s \in Seconds, n \in Nanos}
  \cup {Bytes_(Kind(k), d, PairBytes(s, -1) \o <<a>> \o PairBytes(1, n)) :
          k \in {"Timestamp", "Duration"}, d \in {1, MAX_DEPTH + 1}, s \in {0, 1}, n \in {-1, 0, 1},
          a \in Strays}

PartialDates == {<<y, m, d>> : y \in {0, 2023, 2024, 10000}, m \in {0, 2, 12, 13}, d \in {0, 28, 29, 30, 31, 32}}
DateDict(date) ==
  PyDict(<<<<PyStr("day"), PyInt(date[3])>>, <<PyStr("month"), PyInt(date[2])>>,
           <<PyStr("year"), PyInt(date[1])>>>>)
DateCalls ==
  {Call(Kind("Date"), 1, FALSE, v) :
     v \in {PyDate(date) : date \in EdgeDates} \cup {DateDict(date) : date \in PartialDates}
           \cup {PyDateTime(date, Midnight, 0, <<0>>) : date \in EdgeDates}
           \cup {PyDict(<<>>), PyDict(<<<<PyStr("year"), None>>>>), DateDict(<<W32, 1, 1>>),
                 PyDict(<<<<PyStr("month"), PyInt(1)>>, <<PyStr("a"), None>>>>), PyInt(0)}}
DateBytes ==
  {Bytes_(Kind("Date"), d, <<Varint(3, date[3]), Varint(1, date[1]), Varint(2, date[2])>>) :
     d \in {1, MAX_DEPTH + 1}, date \in PartialDates \cup {<<W32 + 2024, 1, W32 + 1>>}}

-----------------------------------------------------------------------------
Leaves == {None, PyBool(TRUE), PyInt(1), PyInt(W64), PyFloat(FALSE, 1), PyStr("a"), PyStr(BAD),
           PyBytes(""), PyBytes("a"), PyBytes(BAD)}
Around(values, others) ==
  {PyList(<<v>>) : v \in values} \cup {PyTuple(<<v, w>>) : v \in others, w \in values}
  \cup {PyDict(<<<<PyStr("a"), v>>>>) : v \in values}
  \cup {PyDict(<<<<PyStr("b"), v>>, <<PyStr("a"), w>>>>) : v \in values, w \in others}
Empty == {PyList(<<>>), PyDict(<<>>)}
Level1 == Leaves \cup Empty \cup Around(Leaves, Leaves) \cup {PyDict(<<<<PyInt(1), None>>>>)}
Level2 == Around(Level1, {None})
Level3 == Around({PyList(<<None>>), PyDict(<<<<PyStr("a"), PyInt(1)>>>>), PyList(<<PyList(<<>>)>>)}, {None})
Level4 == Around(Level3, {None})
JsonKinds == {Kind(k) : k \in {"Struct", "Value", "ListValue"}}
JsonCalls ==
  {Call(t, d, FALSE, v) : t \in JsonKinds, d \in 1 .. MAX_DEPTH + 1,
                          v \in Level1 \cup Level2 \cup Level3 \cup Level4}
  \cup {Call(Kind("FieldMask"), d, FALSE, v) : d \in {1, MAX_DEPTH + 1}, v \in Level1 \cup {PyStr("")}}

(* Values, their containers and entries as other writers may write them:   *)
(* repeated, out of order, without a key or a value.                       *)
Atoms == {Varint(1, 1), Token(2, "i64", 1), Text(3, "a"), Text(3, BAD), Varint(4, 2), Varint(7, 0),
          Token(3, "bad", 0), Token(3, "group", 0), Token(6, "varint", 0)}
ValueBytes == {<<>>} \cup {<<a, b>> : a, b \in Atoms}
EntryBytes ==
  {<<Text(1, "a"), Delimited(2, v)>> : v \in ValueBytes}
  \cup {<<Delimited(2, v), Delimited(2, <<Varint(1, 0)>>), Text(1, "b"), Text(1, "a")>> : v \in ValueBytes}
  \cup {<<Text(1, "a")>>, <<Text(1, BAD)>>, <<>>, <<Varint(1, 0), Varint(3, 1)>>}
StructBytes ==
  {<<Delimited(1, e), Delimited(1, <<Text(1, "a")>>), Varint(1, 0)>> : e \in EntryBytes}
  \cup {<<Delimited(1, e)>> : e \in EntryBytes}
Wrap(tokens, n) ==
  {<<Delimited(5, <<Delimited(1, <<Text(1, "a"), Delimited(2, <<Delimited(6, <<Delimited(1, tokens)>>)>>)>>)>>), n>>}
JsonBytes ==
  {Bytes_(Kind("Value"), d, v) : d \in {1, MAX_DEPTH, MAX_DEPTH + 1}, v \in ValueBytes}
  \cup {Bytes_(Kind("Struct"), d, s) : d \in 1 .. MAX_DEPTH + 1, s \in StructBytes}
  \cup {Bytes_(Kind("Value"), d, <<Delimited(5, s)>>) : d \in 1 .. MAX_DEPTH, s \in StructBytes}
  \cup {Bytes_(Kind("ListValue"), d, <<Delimited(1, v), Delimited(1, w)>>) :
          d \in 1 .. MAX_DEPTH, v \in ValueBytes, w \in {<<>>, <<Delimited(6, <<Delimited(1, <<>>)>>)>>}}
  \cup {Bytes_(Kind("FieldMask"), 1, <<Text(1, "a"), a, Text(1, "b")>>) : a \in Atoms \cup {Text(1, BAD)}}

MCGiven ==
  [k \in Kinds |->
     CASE k \in {"Field", "Wrapper"} -> {c \in ScalarCalls : c.type.kind = k}
       [] k = "Timestamp" -> TimeCalls
       [] k = "Duration" -> DurationCalls
       [] k = "Date" -> DateCalls
       [] OTHER -> {c \in JsonCalls : c.type.kind = k}]
MCReceived ==
  [k \in Kinds |->
     CASE k \in {"Field", "Wrapper"} -> {r \in ScalarBytes : r.type.kind = k}
       [] k \in {"Timestamp", "Duration"} -> {r \in TimeBytes : r.type.kind = k}
       [] k = "Date" -> DateBytes
       [] OTHER -> {r \in JsonBytes : r.type.kind = k}]
=============================================================================
