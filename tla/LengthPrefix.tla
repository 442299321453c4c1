---------------------------- MODULE LengthPrefix ----------------------------
(***************************************************************************)
(* write_len_delimited of src/native/wire.rs, as encode_field of           *)
(* src/python_native.rs nests it.  All calls write into one buffer.  A     *)
(* call reserves one byte for a length that it does not know yet; if the   *)
(* length turns out to need more, the payload is shifted.                  *)
(***************************************************************************)
EXTENDS Varints

CONSTANTS
  Fixed32, Fixed64,   \* 4 and 8, the sizes of the values that have one
  MAX_FIELD_NUMBER,   \* 2^29 - 1
  MaxLength           \* bound: no field is begun behind so many bytes

ASSUME MaxLengthAssumption == MaxLength \in Nat

(* The messages a reader accepts.                                          *)
Read == INSTANCE WireGrammar WITH Groups <- Width \div Bits

(* Descriptors number fields so, and the bytes of an Encoded are what      *)
(* to_le_bytes returns for its type.                                       *)
ASSUME SizeAssumption ==
  /\ Fixed32 \in Nat \ {0} /\ Fixed64 \in Nat \ {0} /\ MAX_FIELD_NUMBER \in Nat
  /\ Numbers \subseteq 1 .. MAX_FIELD_NUMBER
  /\ \A e \in Values : /\ e.wire \in Read!WireTypes
                       /\ e.wire = Read!WIRE_I32 => Len(e.bytes) = Fixed32
                       /\ e.wire = Read!WIRE_I64 => Len(e.bytes) = Fixed64

VARIABLES
  buf,      \* the buffer
  frames,   \* calls of write_len_delimited, innermost last
  status    \* of encode: "writing", "done" or "failed"

vars == <<buf, frames, status>>

(* A call knows where its length goes; in a packed field it writes numbers *)
(* without tags.                                                           *)
Frame(start, packed) == [start |-> start, packed |-> packed]
Depth == Len(frames)
InPacked == Depth > 0 /\ frames[Depth].packed

Init ==
  /\ buf = <<>>
  /\ frames = <<>>
  /\ status = "writing"

Writing == status = "writing"
Room == Len(buf) < MaxLength

(* write_tag and Encoded::write, for a scalar field.                       *)
WriteField(n, e) ==
  /\ Writing /\ Room /\ ~InPacked
  /\ buf' = buf \o write_tag(n, e.wire) \o Written(e)
  /\ UNCHANGED <<frames, status>>

(* Encoded::write, for an element of a packed field, which is no string.   *)
WriteElement(e) ==
  /\ Writing /\ Room /\ InPacked /\ e.wire # WIRE_LEN
  /\ buf' = buf \o Written(e)
  /\ UNCHANGED <<frames, status>>

(* write_tag, and write_len_delimited up to the call of body.              *)
Open(n, packed) ==
  /\ Writing /\ Room /\ ~InPacked
  /\ buf' = buf \o write_tag(n, WIRE_LEN) \o <<0>>
  /\ frames' = Append(frames, Frame(Len(buf) + Len(write_tag(n, WIRE_LEN)) + 1, packed))
  /\ UNCHANGED status

(* Mutant of Splice: the payload is overwritten.                           *)
SpliceOver(b, start, n) ==
  [i \in 1 .. Len(b) + n |-> IF i <= Len(b) THEN b[i] ELSE 0]

(* buf.splice: n zeros between the byte at start and what follows it.      *)
Splice(b, start, n) ==
  [i \in 1 .. Len(b) + n |-> IF i <= start THEN b[i] ELSE IF i <= start + n THEN 0 ELSE b[i - n]]

(* Mutant of Patch: the last byte keeps the bit that says another follows. *)
PatchAll(b, start, n, value) ==
  [i \in 1 .. Len(b) |-> IF i \in start .. start + n - 1 THEN Digit(value, i - start) + Base ELSE b[i]]

(* The loop over the prefix, which clears the upper bit of its last byte.  *)
Patch(b, start, n, value) ==
  [i \in 1 .. Len(b) |->
     IF i \in start .. start + n - 2 THEN Digit(value, i - start) + Base
     ELSE IF i = start + n - 1 THEN Digit(value, i - start)
     ELSE b[i]]

(* The rest of write_len_delimited, after body.  There is no buffer whose  *)
(* length does not fit in 64 bits.                                         *)
Close ==
  /\ Writing /\ Depth > 0
  /\ LET start == frames[Depth].start
         len == Len(buf) - start
         prefix == varint_len(len)
     IN  /\ len < U64
         /\ buf' = IF prefix = 1
                   THEN [buf EXCEPT ![start] = len % (2 * Base)]
                   ELSE Patch(Splice(buf, start, prefix - 1), start, prefix, len)
  /\ frames' = SubSeq(frames, 1, Depth - 1)
  /\ UNCHANGED status

(* encode returns the buffer, or an error that some body returned: then    *)
(* nothing is written any more, and the buffer is dropped.                 *)
Finish == Writing /\ Depth = 0 /\ status' = "done" /\ UNCHANGED <<buf, frames>>
Fail == Writing /\ status' = "failed" /\ UNCHANGED <<buf, frames>>

Terminated == ~Writing /\ UNCHANGED vars

Next ==
  \/ \E n \in Numbers, e \in Values : WriteField(n, e)
  \/ \E e \in Values : WriteElement(e)
  \/ \E n \in Numbers, packed \in BOOLEAN : Open(n, packed)
  \/ Close \/ Finish \/ Fail
  \/ Terminated

Spec == Init /\ [][Next]_vars

-----------------------------------------------------------------------------
(* The payloads of the calls lie one behind the other in the buffer, with  *)
(* a reserved byte between them.                                           *)
First(i) == IF i = 1 THEN 1 ELSE frames[i - 1].start + 1
Last(i) == IF i = Depth + 1 THEN Len(buf) ELSE frames[i].start - 1
Packed(i) == i > 1 /\ frames[i - 1].packed
Payload(i) == SubSeq(buf, First(i), Last(i))
Levels == [i \in 1 .. Depth + 1 |-> [packed |-> Packed(i), bytes |-> Payload(i)]]

Nested == INSTANCE NestedWriter WITH levels <- Levels

(* Writing lengths in place writes what one would write knowing them: a    *)
(* call that shifts its payload moves nothing of the calls around it, and  *)
(* every prefix is the varint that write_varint writes.                    *)
WritesPrefixed == Nested!Spec

(* What is written so far of the innermost message is a message for the    *)
(* reader, with everything closed in it.                                   *)
Readable ==
  ~InPacked => Read!IsMessage(Payload(Depth + 1))

(* The reserved bytes of the calls are in order, in the buffer, and not    *)
(* written to; only the innermost call can be in a packed field.           *)
TypeOK ==
  /\ buf \in Seq(Bytes)
  /\ frames \in Seq([start : 1 .. Len(buf), packed : BOOLEAN])
  /\ status \in {"writing", "done", "failed"}
  /\ \A i, j \in 1 .. Depth : i < j => frames[i].start < frames[j].start /\ ~frames[i].packed
  /\ \A i \in 1 .. Depth : buf[frames[i].start] = 0
  /\ status = "done" => frames = <<>>
=============================================================================
