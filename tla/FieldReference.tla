--------------------------- MODULE FieldReference ---------------------------
(***************************************************************************)
(* What FieldValues is for, said without its arithmetic: days are counted  *)
(* from the first of year 1, instants and durations in microseconds, and   *)
(* JSON values have a height.                                              *)
(***************************************************************************)
EXTENDS FieldValues, FiniteSetsExt

(* What a Python loop over an object meets: the values of a list or tuple, *)
(* the keys of a dict, the characters of a text, the numbers that bytes    *)
(* are.  No other object here can be looped over.                          *)
Loops(v) == DOMAIN v \cap {"list", "tuple", "dict", "str", "bytes"} # {}
Met(v) ==
  CASE v \in {PyStr(""), PyBytes("")} -> <<>>
    [] Is("str", v) /\ v # PyStr("") -> <<v>>
    [] Is("bytes", v) /\ v # PyBytes("") -> <<Octet(v.bytes)>>
    [] Is("dict", v) -> [i \in DOMAIN v.dict |-> v.dict[i][1]]
    [] OTHER -> v[CHOOSE what \in DOMAIN v : TRUE]

(* Days since 0001-01-01, and microseconds since its midnight in UTC.      *)
DaysBefore(y) == 365 * (y - 1) + (y - 1) \div 4 - (y - 1) \div 100 + (y - 1) \div 400
Ordinal(date) ==
  DaysBefore(date[1])
  + MapThenSumSet(LAMBDA m : MonthLength(date[1], m), 1 .. date[2] - 1) + date[3] - 1

MicrosOf(days, time, micros) ==
  (((days * HoursPerDay + time[1]) * MinutesPerHour + time[2]) * SecondsPerMinute + time[3])
  * MicrosPerSecond + micros
Instant(v) ==
  MicrosOf(Ordinal(v.datetime), v.time, v.micros) - (IF v.offset = <<>> THEN 0 ELSE v.offset[1])
Abs(n) == IF n < 0 THEN -n ELSE n
Epoch == Ordinal(<<1970, 1, 1>>) * MicrosPerDay
InYears(instant) == instant \in 0 .. (Ordinal(<<9999, 12, 31>>) + 1) * MicrosPerDay - 1

IsTime(v) ==
  /\ IsDate(v.datetime)
  /\ v.time[1] \in 0 .. HoursPerDay - 1 /\ v.time[2] \in 0 .. MinutesPerHour - 1
  /\ v.time[3] \in 0 .. SecondsPerMinute - 1 /\ v.micros \in 0 .. MicrosPerSecond - 1
IsDelta(v) == v.delta[2] \in 0 .. SecondsPerDay - 1 /\ v.delta[3] \in 0 .. MicrosPerSecond - 1
Length(v) == (v.delta[1] * SecondsPerDay + v.delta[2]) * MicrosPerSecond + v.delta[3]
InDurations(length) ==
  length \in -((DURATION_MAX_SECONDS + 1) * MicrosPerSecond - 1)
             .. (DURATION_MAX_SECONDS + 1) * MicrosPerSecond - 1

-----------------------------------------------------------------------------
(* The object that v becomes when it is written and read: an int written   *)
(* as a float is one, a bool as an int too, a tuple a list.  A 32-bit      *)
(* float loses the low part.                                               *)
RECURSIVE Normal(_)
Normal(v) ==
  CASE Is("list", v) \/ Is("tuple", v) ->
         PyList([i \in DOMAIN Met(v) |-> Normal(Met(v)[i])])
    [] Is("dict", v) -> PyDict([i \in DOMAIN v.dict |-> <<v.dict[i][1], Normal(v.dict[i][2])>>])
    [] Is("int", v) -> ToFloat(v)
    [] OTHER -> v

NormalScalar(v) ==
  CASE type.scalar \in Integral -> PyInt(IntOf(v))
    [] type.scalar = "Double" -> ToFloat(v)
    [] type.scalar = "Float" -> [ToFloat(v) EXCEPT !.float = @ - (@ % (W64 \div W32))]
    [] OTHER -> v

(* Containers in one another.                                              *)
RECURSIVE Height(_), IsJson(_)
Children(v) ==
  IF Is("dict", v) THEN [i \in DOMAIN v.dict |-> v.dict[i][2]] ELSE Met(v)
IsText(v) == Is("str", v) /\ v # PyStr(BAD)
IsContainer(v) == Is("list", v) \/ Is("tuple", v) \/ Is("dict", v)
HeightOf(values) == Max({0} \cup {Height(values[i]) + 1 : i \in DOMAIN values})
Height(v) == IF IsContainer(v) THEN HeightOf(Children(v)) ELSE 0
IsJson(v) ==
  \/ v = None \/ Is("bool", v) \/ IsText(v)
  \/ (Is("int", v) \/ Is("float", v)) /\ IsFloat(v)
  \/ /\ IsContainer(v)
     /\ Is("dict", v) => \A i \in DOMAIN v.dict : IsText(v.dict[i][1])
     /\ \A i \in DOMAIN Children(v) : IsJson(Children(v)[i])

-----------------------------------------------------------------------------
InScalar(v) ==
  CASE type.scalar \in Integral -> IsInt(v) /\ IntOf(v) \in Ints(type.scalar)
    [] type.scalar \in Floats -> IsFloat(v)
    [] type.scalar = "Bool" -> Is("bool", v)
    [] type.scalar = "String" -> IsText(v)
    [] type.scalar = "Bytes" -> Is("bytes", v)

(* The objects of the type.  A container in a payload at depth d has its   *)
(* values two messages further down, and those of a Struct or a ListValue  *)
(* one.                                                                    *)
Encodable(v) ==
  /\ type.kind # "Field" => depth <= MAX_DEPTH
  /\ CASE type.kind \in {"Field", "Wrapper"} -> InScalar(v)
       [] type.kind = "Timestamp" ->
            Is("datetime", v) /\ (v.offset = <<>> => naive_utc) /\ InYears(Instant(v))
       [] type.kind = "Duration" -> Is("delta", v) /\ InDurations(Length(v))
       [] type.kind = "FieldMask" -> Loops(v) /\ \A i \in DOMAIN Met(v) : IsText(Met(v)[i])
       [] type.kind = "Value" -> IsJson(v) /\ depth + 2 * Height(v) <= MAX_DEPTH
       [] type.kind = "Struct" ->
            Is("dict", v) /\ IsJson(v) /\ depth + 2 * Height(v) - 1 <= MAX_DEPTH
       [] type.kind = "ListValue" ->
            /\ Loops(v) /\ \A i \in DOMAIN Met(v) : IsJson(Met(v)[i])
            /\ depth + 2 * HeightOf(Met(v)) - 1 <= MAX_DEPTH
       [] type.kind = "Date" ->
            \/ Is("date", v)
            \/ /\ Is("dict", v)
               /\ \A i \in DOMAIN v.dict :
                    v.dict[i][1].str \in {"year", "month", "day"}
                    => IsInt(v.dict[i][2]) /\ IntOf(v.dict[i][2]) \in Ints("Int32")

(* Encoding refuses exactly the objects that are not of the type, are out  *)
(* of its range or are nested too deep; a timestamp is out of range if its *)
(* instant is, whatever its offset.  A ListValue and a FieldMask are       *)
(* written from all that can be looped over, bytes too: empty bytes are an *)
(* empty list, others a list of numbers and no paths.                      *)
RefusesExactly == object # Nothing /\ payload # Nothing => (payload = Error <=> ~Encodable(object))

(* What was encoded is read as the same instant, in UTC, the same          *)
(* duration, the same scalar or the same JSON value; a date with a zero    *)
(* part is refused.                                                        *)
Reads(v) ==
  CASE type.kind \in {"Field", "Wrapper"} -> result = NormalScalar(v)
    [] type.kind = "Timestamp" ->
         /\ Is("datetime", result) /\ IsTime(result) /\ result.offset = <<0>>
         /\ Instant(result) = Instant(v)
    [] type.kind = "Duration" -> result = v
    [] type.kind = "FieldMask" -> result = PyList(Met(v))
    [] type.kind \in {"Struct", "Value"} -> result = Normal(v)
    [] type.kind = "ListValue" -> result = Normal(PyList(Met(v)))
    [] type.kind = "Date" -> result = IF IsDate(DateOf(v)) THEN PyDate(DateOf(v)) ELSE Error
RoundTrips == object # Nothing /\ result # Nothing => Reads(object)

(* A payload is a sequence of fields with one of four wire types.  Of a    *)
(* number that comes more than once the last one counts.                   *)
IsMessage(tokens) == \A i \in DOMAIN tokens : tokens[i].wire \in {"varint", "i64", "len", "i32"}
LastWord(tokens, n) ==
  LET at == {i \in DOMAIN tokens : tokens[i].number = n /\ tokens[i].wire = "varint"}
  IN  IF at = {} THEN 0 ELSE tokens[Max(at)].word

(* The times of other writers: what is in the ranges of timestamp.proto    *)
(* and duration.proto is read, to the microsecond, a timestamp down and a  *)
(* duration towards zero, whatever unknown fields come with it; nothing    *)
(* else is, and no payload with a group in it.                             *)
TimeReads(seconds, nanos) ==
  IF nanos \in 0 .. NanosPerSecond - 1 /\ InYears(Epoch + seconds * MicrosPerSecond)
  THEN /\ Is("datetime", result) /\ IsTime(result)
       /\ Instant(result) = Epoch + seconds * MicrosPerSecond + nanos \div NanosPerMicro
  ELSE result = Error

DurationReads(seconds, nanos) ==
  LET whole == seconds * NanosPerSecond + nanos
      read == Length(result) * NanosPerMicro
  IN  IF /\ Abs(seconds) <= DURATION_MAX_SECONDS /\ Abs(nanos) < NanosPerSecond
         /\ (seconds >= 0 /\ nanos >= 0) \/ (seconds <= 0 /\ nanos <= 0)
      THEN /\ Is("delta", result) /\ IsDelta(result)
           /\ IF whole >= 0 THEN whole - read \in 0 .. NanosPerMicro - 1
              ELSE read - whole \in 0 .. NanosPerMicro - 1
      ELSE result = Error

TimesReadExactly ==
  result # Nothing /\ type.kind \in {"Timestamp", "Duration"} =>
    LET seconds == AsSigned(LastWord(payload, 1), W64)
        nanos == AsSigned(LastWord(payload, 2), W32)
    IN  IF depth > MAX_DEPTH \/ ~IsMessage(payload) THEN result = Error
        ELSE IF type.kind = "Timestamp" THEN TimeReads(seconds, nanos)
             ELSE DurationReads(seconds, nanos)

(* v without the entries of dicts that are None.                           *)
RECURSIVE Pruned(_)
Pruned(v) ==
  IF ~IsContainer(v) THEN v
  ELSE IF Is("list", v) THEN PyList([i \in DOMAIN v.list |-> Pruned(v.list[i])])
  ELSE LET entries == SelectSeq(v.dict, LAMBDA e : e[2] # None)
       IN  PyDict([i \in DOMAIN entries |-> <<entries[i][1], Pruned(entries[i][2])>>])

(* Whatever was read can be written, and reads the same again; what this   *)
(* codec wrote is written the same.  An entry of a Struct that came        *)
(* without a value is read even where its value would be nested too deep;  *)
(* nothing else is read that cannot be written.                            *)
ReadsAgain ==
  again # Nothing =>
    /\ Encodable(Pruned(result))
    /\ IF again = Error THEN result # Pruned(result) /\ ~Encodable(result)
       ELSE Decoding(again) = result /\ (object # Nothing => again = payload)
=============================================================================
