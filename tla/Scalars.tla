------------------------------ MODULE Scalars ------------------------------
(***************************************************************************)
(* The scalar types of src/native/plan.rs, and how src/python_native.rs    *)
(* writes a Python object as one and reads it back.                        *)
(*                                                                         *)
(* A word is a number below W64 (a u64) or W32 (a u32).  A float is its    *)
(* sign and its magnitude, of which a 32-bit float keeps the high part.  A *)
(* text or some bytes are an atom: "" has none, BAD are not UTF-8.         *)
(***************************************************************************)
EXTENDS Integers

CONSTANTS
  W32, W64,  \* 2^32 and 2^64
  Error      \* what a call that raises returns

ASSUME WordAssumption ==
  W32 \in Nat \ {0} /\ W64 \in Nat \ {0} /\ W32 % 2 = 0 /\ W64 % W32 = 0

BAD == "BAD"

Signed32 == {"Int32", "Sint32", "Sfixed32"}
Signed64 == {"Int64", "Sint64", "Sfixed64"}
Unsigned32 == {"Uint32", "Fixed32"}
Unsigned64 == {"Uint64", "Fixed64"}
Integral == Signed32 \cup Signed64 \cup Unsigned32 \cup Unsigned64
Floats == {"Float", "Double"}
Texts == {"String", "Bytes"}
ScalarTypes == Integral \cup Floats \cup Texts \cup {"Bool"}

wire_type(scalar) ==
  CASE scalar \in {"Double", "Fixed64", "Sfixed64"} -> "i64"
    [] scalar \in {"Float", "Fixed32", "Sfixed32"} -> "i32"
    [] scalar \in Texts -> "len"
    [] OTHER -> "varint"

(* Python objects.                                                         *)
PyInt(n) == [int |-> n]
PyBool(b) == [bool |-> b]
PyFloat(negative, magnitude) == [float |-> magnitude, negative |-> negative]
PyStr(s) == [str |-> s]
PyBytes(s) == [bytes |-> s]
Is(what, v) == what \in DOMAIN v

-----------------------------------------------------------------------------
(* `as`: a word of w values read with a sign.                              *)
AsSigned(n, w) == ((n + w \div 2) % w) - w \div 2

Ints(scalar) ==
  CASE scalar \in Signed32 -> -(W32 \div 2) .. W32 \div 2 - 1
    [] scalar \in Signed64 -> -(W64 \div 2) .. W64 \div 2 - 1
    [] scalar \in Unsigned32 -> 0 .. W32 - 1
    [] scalar \in Unsigned64 -> 0 .. W64 - 1

zigzag(n) == IF n >= 0 THEN 2 * n ELSE -2 * n - 1
unzigzag(n) == IF n % 2 = 0 THEN n \div 2 ELSE -(n \div 2) - 1

(* A bool is an int; an int is a float if it is not too large for one.     *)
IsInt(v) == Is("int", v) \/ Is("bool", v)
IntOf(v) == IF Is("int", v) THEN v.int ELSE IF v.bool THEN 1 ELSE 0
ToFloat(v) ==
  IF Is("float", v) THEN v
  ELSE LET n == IntOf(v) IN PyFloat(n < 0, IF n < 0 THEN -n ELSE n)
IsFloat(v) ==
  \/ Is("float", v)
  \/ IsInt(v) /\ ToFloat(v).float < W64 \div 2

(* to_bits, of a float and of the 32-bit one it is rounded to.             *)
Bits(f, half) == f.float + (IF f.negative THEN half ELSE 0)
To32(f) == [f EXCEPT !.float = @ \div (W64 \div W32)]
FloatOf(bits, half, unit) == PyFloat(bits >= half, (bits % half) * unit)

(* The word of an integer within the range of its type.                    *)
IntWord(scalar, n) ==
  CASE scalar \in {"Int32", "Int64", "Sfixed64"} -> n % W64
    [] scalar = "Sfixed32" -> n % W32
    [] scalar \in {"Sint32", "Sint64"} -> zigzag(n)
    [] OTHER -> n

(* encode_scalar: a word, or an atom of the text types.                    *)
encode_scalar(scalar, v) ==
  CASE scalar \in Integral /\ IsInt(v) /\ IntOf(v) \in Ints(scalar) -> IntWord(scalar, IntOf(v))
    [] scalar = "Bool" /\ Is("bool", v) -> IntOf(v)
    [] scalar = "Float" /\ IsFloat(v) -> Bits(To32(ToFloat(v)), W32 \div 2)
    [] scalar = "Double" /\ IsFloat(v) -> Bits(ToFloat(v), W64 \div 2)
    [] scalar = "String" /\ Is("str", v) /\ v # PyStr(BAD) -> v.str
    [] scalar = "Bytes" /\ Is("bytes", v) -> v.bytes
    [] OTHER -> Error

(* The integer that a word of the wire is.                                 *)
WordInt(scalar, word) ==
  CASE scalar \in {"Int32", "Sfixed32"} -> AsSigned(word, W32)
    [] scalar \in {"Int64", "Sfixed64"} -> AsSigned(word, W64)
    [] scalar = "Uint32" -> word % W32
    [] scalar = "Sint32" -> unzigzag(word % W32)
    [] scalar = "Sint64" -> unzigzag(word)
    [] OTHER -> word

read_plain_scalar(scalar, word) ==
  CASE scalar \in Integral -> PyInt(WordInt(scalar, word))
    [] scalar = "Bool" -> PyBool(word # 0)
    [] scalar = "Float" -> FloatOf(word, W32 \div 2, W64 \div W32)
    [] scalar = "Double" -> FloatOf(word, W64 \div 2, 1)
    [] scalar = "String" -> IF word = BAD THEN Error ELSE PyStr(word)
    [] scalar = "Bytes" -> PyBytes(word)

scalar_zero(scalar) ==
  CASE scalar \in Floats -> PyFloat(FALSE, 0)
    [] scalar = "Bool" -> PyBool(FALSE)
    [] scalar = "String" -> PyStr("")
    [] scalar = "Bytes" -> PyBytes("")
    [] OTHER -> PyInt(0)

is_zero(scalar, word) == word = IF scalar \in Texts THEN "" ELSE 0
=============================================================================
