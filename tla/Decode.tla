------------------------------- MODULE Decode -------------------------------
(***************************************************************************)
(* NativeCodec::decode_dict of src/python_native.rs: one message of wire   *)
(* tokens becomes nested dicts.  decode_message and read_map_entry, which  *)
(* call each other, are frames of a stack; a step handles one token, or    *)
(* ends a frame.                                                           *)
(***************************************************************************)
EXTENDS MessageValues, Subsequences

CONSTANT Inputs  \* the token sequences to decode

VARIABLES
  strict,  \* strict_enums, constant
  input,   \* the bytes of the call, constant
  stack,   \* calls of decode_message and read_map_entry, innermost last
  result,  \* what decode_dict returns, or Running
  reads    \* history: the number of tokens read

vars == <<strict, input, stack, result, reads>>

-----------------------------------------------------------------------------
(* read_scalar fails for an enum number that is not declared, in strict    *)
(* mode.                                                                   *)
Allowed(scalar, n) == scalar = "enum" /\ strict => n \in Declared

PairValid(tokens) ==
  /\ \A i \in 1 .. Len(tokens) : tokens[i].wire # "bad"
  /\ InRange(LastOf(tokens, 2))

-----------------------------------------------------------------------------
(* Frames.  A frame of decode_message has slots and pending payloads; one  *)
(* of read_map_entry has a key and a value; "of" is the message type or    *)
(* the map field, "at" the field of the frame below that wants the result. *)
MessageFrame(m, tokens, depth, at) ==
  [call |-> "message", of |-> m, data |-> tokens, depth |-> depth, at |-> at,
   slots |-> [i \in 1 .. Len(Plan[m]) |-> Absent], pending |-> <<>>]
EntryFrame(f, tokens, depth, at) ==
  [call |-> "entry", of |-> f, data |-> tokens, depth |-> depth, at |-> at,
   key |-> Absent, value |-> Absent]

Init ==
  /\ strict \in BOOLEAN
  /\ input \in Inputs
  /\ stack = <<MessageFrame(Root, input, 0, 0)>>
  /\ result = Running
  /\ reads = 0

Top == stack[Len(stack)]
InMessage == stack # <<>> /\ Top.call = "message"
InEntry == stack # <<>> /\ Top.call = "entry"
Reading == Top.data # <<>>
Token == Head(Top.data)
Fields == Plan[Top.of]

(* MessagePlan::field_index, 0 for None.                                   *)
Index ==
  IF \E i \in 1 .. Len(Fields) : Fields[i].number = Token.number
  THEN CHOOSE i \in 1 .. Len(Fields) : Fields[i].number = Token.number ELSE 0
Field == Fields[Index]

(* A token of a known field of the message being read.                     *)
AtField == InMessage /\ Reading /\ Token.wire # "bad" /\ Index # 0

Replace(frame) == stack' = [stack EXCEPT ![Len(stack)] = frame]
Read == reads' = reads + 1
Constant == UNCHANGED <<strict, input>>

Fail ==
  /\ stack' = <<>>
  /\ result' = Error
  /\ Constant

(* Goes on with frame in place of the innermost one.                       *)
Continue(frame) ==
  /\ Replace(frame)
  /\ UNCHANGED result
  /\ Constant

Advanced == [Top EXCEPT !.data = Tail(@)]

Set(frame, i, v) == [frame EXCEPT !.slots[i] = v]
Added(slot, v) == List(IF slot = Absent THEN <<v>> ELSE Append(slot.list, v))

(* What a frame does with the value decoded for its field at.              *)
Delivered(frame, at, v) ==
  IF frame.call = "entry" THEN [frame EXCEPT !.value = v]
  ELSE IF Plan[frame.of][at].kind = "repeated"
       THEN Set(frame, at, Added(frame.slots[at], v))
       ELSE Set(frame, at, v)

(* Mutant of ReadPayload: the depth is not limited.                        *)
ReadPayloadUnlimited(frame, value, tokens, at) ==
  IF value = "pair"
  THEN IF PairValid(tokens) THEN Continue(Delivered(frame, at, PairOf(tokens))) ELSE Fail
  ELSE /\ stack' = Append([stack EXCEPT ![Len(stack)] = frame],
                          MessageFrame(value, tokens, frame.depth + 1, at))
       /\ UNCHANGED result
       /\ Constant

(* read_payload: reads a pair at once, or calls decode_message, unless the *)
(* tokens are nested too deep.                                             *)
ReadPayload(frame, value, tokens, at) ==
  IF frame.depth + 1 > MAX_DEPTH
  THEN Fail
  ELSE IF value = "pair"
       THEN IF PairValid(tokens) THEN Continue(Delivered(frame, at, PairOf(tokens))) ELSE Fail
       ELSE /\ stack' = Append([stack EXCEPT ![Len(stack)] = frame],
                               MessageFrame(value, tokens, frame.depth + 1, at))
            /\ UNCHANGED result
            /\ Constant

(* The tokens ReadPayload reads itself.                                    *)
Pairs(value, tokens) == IF value = "pair" THEN Len(tokens) ELSE 0

(* Mutant of ClearOneof: forgets the payloads that wait.                   *)
ClearOneofSlots(frame, i) ==
  LET fields == Plan[frame.of]
      others == {j \in 1 .. Len(fields) \ {i} : fields[j].group = fields[i].group}
  IN  IF fields[i].group = 0 THEN frame
      ELSE [frame EXCEPT !.slots = [j \in DOMAIN @ |-> IF j \in others THEN Absent ELSE @[j]]]

(* clear_oneof: field i was read, the other members of its group are unset.*)
ClearOneof(frame, i) ==
  LET fields == Plan[frame.of]
      others == {j \in 1 .. Len(fields) \ {i} : fields[j].group = fields[i].group}
      kept == {p \in 1 .. Len(frame.pending) : frame.pending[p].field \notin others}
  IN  IF fields[i].group = 0 THEN frame
      ELSE [frame EXCEPT
              !.slots = [j \in DOMAIN @ |-> IF j \in others THEN Absent ELSE @[j]],
              !.pending = Subsequence(@, kept)]

(* Mutant of Pend: the last payload counts.                                *)
PendLast(pending, i, tokens) ==
  Append(SelectSeq(pending, LAMBDA p : p.field # i), [field |-> i, tokens |-> tokens])

(* Mutant of Pend: each occurrence decodes the earlier payloads again.     *)
PendAgain(pending, i, tokens) ==
  LET earlier == {p \in 1 .. Len(pending) : pending[p].field = i}
      last == CHOOSE p \in earlier : \A q \in earlier : q <= p
  IN  Append(pending, [field |-> i,
                       tokens |-> IF earlier = {} THEN tokens ELSE pending[last].tokens \o tokens])

(* The payload of singular message field i waits, after earlier ones.      *)
Pend(pending, i, tokens) ==
  IF \E p \in 1 .. Len(pending) : pending[p].field = i
  THEN [p \in 1 .. Len(pending) |->
          IF pending[p].field = i THEN [pending[p] EXCEPT !.tokens = @ \o tokens] ELSE pending[p]]
  ELSE Append(pending, [field |-> i, tokens |-> tokens])

-----------------------------------------------------------------------------
(* read_tag, or the reader of what follows the tag, fails.                 *)
BadToken ==
  /\ stack # <<>> /\ Reading
  /\ Token.wire = "bad"
  /\ Fail /\ Read

(* Mutant of SkipUnknown: reads the tag and not what follows it.           *)
SkipUnknownTag ==
  /\ InMessage /\ Reading /\ Token.wire # "bad"
  /\ Index = 0
  /\ Continue(Top) /\ Read

SkipUnknown ==
  /\ InMessage /\ Reading /\ Token.wire # "bad"
  /\ Index = 0
  /\ Continue(Advanced) /\ Read

(* A singular message field is decoded when the whole message is read.     *)
Postpone ==
  /\ AtField
  /\ Field.kind = "single" /\ IsMessage(Field.value)
  /\ Token.wire = "len"
  /\ Continue(ClearOneof([Advanced EXCEPT !.pending = Pend(@, Index, Token.payload)], Index))
  /\ Read

(* A singular scalar: the last one counts.                                 *)
ReadSingle ==
  /\ AtField
  /\ Field.kind = "single" /\ Field.value \in Scalars
  /\ Token.wire = WireType(Field.value)
  /\ Allowed(Field.value, Token.value)
  /\ Continue(ClearOneof(Set(Advanced, Index, Number(Token.value)), Index))
  /\ Read

(* One element of a repeated scalar field.                                 *)
ReadElement ==
  /\ AtField
  /\ Field.kind = "repeated" /\ Field.value \in Scalars
  /\ Token.wire = WireType(Field.value)
  /\ Allowed(Field.value, Token.value)
  /\ Continue(Set(Advanced, Index, Added(Top.slots[Index], Number(Token.value))))
  /\ Read

(* Packed elements of a repeated scalar field, whether or not it is        *)
(* declared packed.                                                        *)
ReadPacked ==
  LET old == IF Top.slots[Index] = Absent THEN <<>> ELSE Top.slots[Index].list
      new == [j \in 1 .. Len(Token.packed) |-> Number(Token.packed[j])]
  IN  /\ AtField
      /\ Field.kind = "repeated" /\ Field.value \in Scalars /\ Packable(Field.value)
      /\ Token.wire = "len"
      /\ IF \A j \in 1 .. Len(Token.packed) : Allowed(Field.value, Token.packed[j])
         THEN Continue(Set(Advanced, Index, List(old \o new)))
         ELSE Fail
      /\ Read

(* A wire type that is not the field's, or a number strict_enums refuses.  *)
WrongWire ==
  CASE Field.kind = "map" -> Token.wire # "len"
    [] IsMessage(Field.value) -> Token.wire # "len"
    [] Field.kind = "repeated" /\ Packable(Field.value) /\ Token.wire = "len" -> FALSE
    [] OTHER -> Token.wire # WireType(Field.value) \/ ~Allowed(Field.value, Token.value)
RefuseField ==
  /\ AtField
  /\ WrongWire
  /\ Fail /\ Read

(* An element of a repeated message field is decoded at once.              *)
ReadMessageElement ==
  /\ AtField
  /\ Field.kind = "repeated" /\ IsMessage(Field.value)
  /\ Token.wire = "len"
  /\ ReadPayload(Advanced, Field.value, Token.payload, Index)
  /\ reads' = reads + 1 + Pairs(Field.value, Token.payload)

(* An entry of a map: the call of read_map_entry, at the same depth.       *)
ReadEntry ==
  /\ AtField
  /\ Field.kind = "map"
  /\ Token.wire = "len"
  /\ stack' = Append([stack EXCEPT ![Len(stack)] = Advanced],
                     EntryFrame(Field, Token.payload, Top.depth, Index))
  /\ UNCHANGED result
  /\ Constant
  /\ Read

-----------------------------------------------------------------------------
(* read_map_entry: field 1 is the key, an int, and field 2 the value, here *)
(* a message, a pair or an int.                                            *)
AtEntryField(n) == InEntry /\ Reading /\ Token.wire # "bad" /\ Token.number = n

SkipInEntry ==
  /\ InEntry /\ Reading /\ Token.wire # "bad"
  /\ Token.number \notin {1, 2}
  /\ Continue(Advanced) /\ Read

ReadKey ==
  /\ AtEntryField(1)
  /\ IF Token.wire = "varint"
     THEN Continue([Advanced EXCEPT !.key = Number(Token.value)])
     ELSE Fail
  /\ Read

ReadEntryScalar ==
  /\ AtEntryField(2)
  /\ Top.of.value \in Scalars
  /\ IF Token.wire = WireType(Top.of.value) /\ Allowed(Top.of.value, Token.value)
     THEN Continue([Advanced EXCEPT !.value = Number(Token.value)])
     ELSE Fail
  /\ Read

(* Decoded at each occurrence; the last one counts.                        *)
ReadEntryMessage ==
  /\ AtEntryField(2)
  /\ IsMessage(Top.of.value)
  /\ IF Token.wire = "len"
     THEN ReadPayload(Advanced, Top.of.value, Token.payload, 2)
     ELSE Fail
  /\ reads' = reads + 1 + Pairs(Top.of.value, Token.payload)

(* An entry without a value has the zero value, for a message the decoding *)
(* of no bytes, which is one level deeper.                                 *)
DefaultEntryValue ==
  /\ InEntry /\ ~Reading
  /\ Top.value = Absent
  /\ IF IsMessage(Top.of.value)
     THEN ReadPayload(Top, Top.of.value, <<>>, 2)
     ELSE Continue([Top EXCEPT !.value = Number(0)])
  /\ UNCHANGED reads

(* Mutant of Store: an entry is stored once.                               *)
StoreFirst(f, k, v) == IF k \in DOMAIN f THEN f ELSE Insert(f, k, v)

(* The later of two entries with one key wins.                             *)
Store(f, k, v) == Insert(f, k, v)

FinishEntry ==
  LET below == SubSeq(stack, 1, Len(stack) - 1)
      caller == below[Len(below)]
      k == IF Top.key = Absent THEN 0 ELSE Top.key.number
      f == IF caller.slots[Top.at] = Absent THEN <<>> ELSE caller.slots[Top.at].map
  IN  /\ InEntry /\ ~Reading
      /\ Top.value # Absent
      /\ stack' = [below EXCEPT ![Len(below)] = Set(caller, Top.at, Map(Store(f, k, Top.value)))]
      /\ UNCHANGED <<result, reads>>
      /\ Constant

-----------------------------------------------------------------------------
(* The message is read: the first of the payloads that wait is decoded.    *)
DecodePending ==
  LET p == Head(Top.pending)
      value == Fields[p.field].value
  IN  /\ InMessage /\ ~Reading
      /\ Top.pending # <<>>
      /\ ReadPayload([Top EXCEPT !.pending = Tail(@)], value, p.tokens, p.field)
      /\ reads' = reads + Pairs(value, p.tokens)

(* Everything is decoded: the dict is returned.                            *)
FinishMessage ==
  LET below == SubSeq(stack, 1, Len(stack) - 1)
      v == DictOf(Top.of, Top.slots)
  IN  /\ InMessage /\ ~Reading
      /\ Top.pending = <<>>
      /\ IF below = <<>>
         THEN stack' = <<>> /\ result' = v
         ELSE /\ stack' = [below EXCEPT ![Len(below)] = Delivered(@, Top.at, v)]
              /\ UNCHANGED result
      /\ UNCHANGED reads
      /\ Constant

Terminated == stack = <<>> /\ UNCHANGED vars

Step ==
  \/ BadToken \/ SkipUnknown \/ Postpone \/ ReadSingle \/ ReadElement \/ ReadPacked
  \/ RefuseField \/ ReadMessageElement \/ ReadEntry
  \/ SkipInEntry \/ ReadKey \/ ReadEntryScalar \/ ReadEntryMessage
  \/ DefaultEntryValue \/ FinishEntry
  \/ DecodePending \/ FinishMessage
Next == Step \/ Terminated

Spec == Init /\ [][Next]_vars

-----------------------------------------------------------------------------
(* At most one member of a oneof is set at any time, be it decoded or      *)
(* waiting to be, so the last member read is what the dict gets.           *)
OneofExclusive ==
  \A i \in 1 .. Len(stack) : stack[i].call = "message" =>
    LET frame == stack[i]
        fields == Plan[frame.of]
        set == {j \in 1 .. Len(fields) :
                  \/ frame.slots[j] # Absent
                  \/ \E p \in 1 .. Len(frame.pending) : frame.pending[p].field = j}
    IN  \A j, k \in set : fields[j].group = fields[k].group /\ fields[j].group # 0 => j = k

(* The recursion of the decoder is bounded, whatever is nested in the      *)
(* input: messages by max_depth, and one more call for each that a map     *)
(* entry holds.  Each call counts its own level from its caller's; no      *)
(* counter of the calls there are exists.                                  *)
RecursionBounded ==
  /\ Cardinality({i \in 1 .. Len(stack) : stack[i].call = "message"}) <= MAX_DEPTH + 1
  /\ Len(stack) <= 2 * (MAX_DEPTH + 1)
=============================================================================
