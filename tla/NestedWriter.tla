---------------------------- MODULE NestedWriter ----------------------------
(***************************************************************************)
(* What the encoder is to write: messages in one another, each payload     *)
(* behind its length.  This writer keeps the payloads apart until they are *)
(* complete, so it knows their lengths when it writes them.                *)
(***************************************************************************)
EXTENDS Varints

VARIABLES
  levels,   \* the payloads that are being written, outermost first
  status    \* "writing", "done" or "failed"

vars == <<levels, status>>

Level(packed, bytes) == [packed |-> packed, bytes |-> bytes]
Top == Len(levels)

Init ==
  /\ levels = <<Level(FALSE, <<>>)>>
  /\ status = "writing"

(* Adds s to the innermost payload.                                        *)
Append_(s) ==
  /\ levels' = [levels EXCEPT ![Top] = Level(@.packed, @.bytes \o s)]
  /\ UNCHANGED status

(* A scalar field of a message; a packed payload has no tags, and no       *)
(* strings.                                                                *)
WriteField(n, e) ==
  /\ status = "writing" /\ ~levels[Top].packed
  /\ Append_(write_tag(n, e.wire) \o Written(e))
WriteElement(e) ==
  /\ status = "writing" /\ levels[Top].packed /\ e.wire # WIRE_LEN
  /\ Append_(Written(e))

(* A field with a payload of its own begins.                               *)
Open(n, packed) ==
  /\ status = "writing" /\ ~levels[Top].packed
  /\ levels' = [i \in 1 .. Top + 1 |->
                  IF i = Top + 1 THEN Level(packed, <<>>)
                  ELSE IF i = Top
                  THEN Level(levels[i].packed, levels[i].bytes \o write_tag(n, WIRE_LEN))
                  ELSE levels[i]]
  /\ UNCHANGED status

(* The innermost payload is complete.                                      *)
Close ==
  /\ status = "writing" /\ Top > 1
  /\ LET payload == levels[Top].bytes
     IN  levels' = [i \in 1 .. Top - 1 |->
                      IF i = Top - 1
                      THEN Level(levels[i].packed,
                                 levels[i].bytes \o write_varint(Len(payload)) \o payload)
                      ELSE levels[i]]
  /\ UNCHANGED status

Finish == status = "writing" /\ Top = 1 /\ status' = "done" /\ UNCHANGED levels
Fail == status = "writing" /\ status' = "failed" /\ UNCHANGED levels

Next ==
  \/ \E n \in Numbers, e \in Values : WriteField(n, e)
  \/ \E e \in Values : WriteElement(e)
  \/ \E n \in Numbers, packed \in BOOLEAN : Open(n, packed)
  \/ Close \/ Finish \/ Fail

Spec == Init /\ [][Next]_vars
=============================================================================
