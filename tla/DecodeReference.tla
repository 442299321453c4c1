--------------------------- MODULE DecodeReference ---------------------------
(***************************************************************************)
(* What the decoding of Decode must compute, said as the protobuf language *)
(* guide says it: fields are merged into the message one by one as they    *)
(* are read, a singular message field into the message that is already     *)
(* there.  The code gets the same by concatenating payloads.               *)
(***************************************************************************)
EXTENDS DecodeProgress

Failed == [failed |-> TRUE, slots |-> <<>>]
Parsed(slots) == [failed |-> FALSE, slots |-> slots]
Nothing(m) == [i \in 1 .. Len(Plan[m]) |-> Absent]

(* The slots of a message being merged into hold messages unfinished: the  *)
(* slots of their own fields, or the failure to merge them, which counts   *)
(* unless the message is unset by a later member of its oneof.             *)
Unfinished(merged) == [unfinished |-> merged]

(* slots with field i of m set to v and the rest of its oneof unset.       *)
Chosen(m, slots, i, v) ==
  [j \in DOMAIN slots |->
     IF j = i THEN v
     ELSE IF Plan[m][i].group # 0 /\ Plan[m][j].group = Plan[m][i].group THEN Absent
     ELSE slots[j]]

RECURSIVE MergeTokens(_, _, _, _), MergeEntry(_, _, _, _), Finished(_, _), AllInRange(_, _)

(* The same for a message or a pair, whose slots are its tokens.           *)
Blank(value) == IF value = "pair" THEN <<>> ELSE Nothing(value)
Merge(value, merged, tokens, depth) ==
  IF merged.failed \/ depth > MAX_DEPTH THEN Failed
  ELSE IF value # "pair" THEN MergeTokens(value, merged.slots, tokens, depth)
  ELSE IF \E j \in 1 .. Len(tokens) : tokens[j].wire = "bad" THEN Failed
  ELSE Parsed(merged.slots \o tokens)

(* The value of merged slots; a time out of range is found once merged.    *)
Value(value, slots) == IF value = "pair" THEN PairOf(slots) ELSE Finished(value, slots)
Valid(value, slots) == IF value = "pair" THEN PairValid(slots) ELSE AllInRange(value, slots)

(* An entry is a message of a key, field 1, and a value, field 2: merged   *)
(* is the merge of the values read so far.                                 *)
MergeEntry(f, merged, tokens, depth) ==
  IF tokens = <<>> THEN merged
  ELSE LET t == Head(tokens)
           go(m) == IF m.failed THEN Failed ELSE MergeEntry(f, m, Tail(tokens), depth)
       IN  CASE t.wire = "bad" -> Failed
             [] t.wire # "bad" /\ t.number = 1 -> IF t.wire = "varint" THEN go(merged) ELSE Failed
             [] t.wire # "bad" /\ t.number \notin {1, 2} -> go(merged)
             [] t.wire # "bad" /\ t.number = 2 /\ IsMessage(f.value) ->
                  IF t.wire # "len" THEN Failed
                  ELSE go(Merge(f.value, merged, t.payload, depth + 1))
             [] OTHER -> IF t.wire = WireType(f.value) /\ Allowed(f.value, t.value)
                         THEN go(Parsed(Number(t.value))) ELSE Failed

(* The slots of a message of type m after token t.                         *)
MergeToken(m, slots, t, depth) ==
  LET fields == {j \in 1 .. Len(Plan[m]) : Plan[m][j].number = t.number}
      i == CHOOSE j \in fields : TRUE
      f == Plan[m][i]
      put(v) == Parsed(Chosen(m, slots, i, v))
      elements == IF slots[i] = Absent THEN <<>> ELSE slots[i].list
      entries == IF slots[i] = Absent THEN <<>> ELSE slots[i].map
      packed == f.kind = "repeated" /\ Packable(f.value) /\ t.wire = "len"
      base == IF f.kind = "single" /\ slots[i] # Absent
              THEN slots[i].unfinished ELSE Parsed(Blank(f.value))
      scalar ==
        CASE packed /\ \A j \in 1 .. Len(t.packed) : Allowed(f.value, t.packed[j]) ->
               put(List(elements \o [j \in 1 .. Len(t.packed) |-> Number(t.packed[j])]))
          [] ~packed /\ t.wire = WireType(f.value) /\ Allowed(f.value, t.value) ->
               put(IF f.kind = "single" THEN Number(t.value)
                   ELSE List(Append(elements, Number(t.value))))
          [] OTHER -> Failed
      message(merged) ==
        IF f.kind = "single" THEN put(Unfinished(merged))
        ELSE IF ~merged.failed /\ Valid(f.value, merged.slots)
             THEN put(List(Append(elements, Value(f.value, merged.slots)))) ELSE Failed
      entry(merged) ==
        IF merged.failed THEN Failed
        ELSE IF ~IsMessage(f.value)
             THEN put(Map(Insert(entries, LastOf(t.payload, 1), merged.slots)))
        ELSE IF Valid(f.value, merged.slots) /\ depth + 1 <= MAX_DEPTH
             THEN put(Map(Insert(entries, LastOf(t.payload, 1), Value(f.value, merged.slots))))
             ELSE Failed
  IN  IF t.wire = "bad" THEN Failed
      ELSE IF fields = {} THEN Parsed(slots)
      ELSE IF f.kind # "map" /\ f.value \in Scalars THEN scalar
      ELSE IF t.wire # "len" THEN Failed
      ELSE IF f.kind # "map" THEN message(Merge(f.value, base, t.payload, depth + 1))
      ELSE entry(MergeEntry(f, Parsed(IF IsMessage(f.value) THEN Blank(f.value) ELSE Number(0)),
                            t.payload, depth))

MergeTokens(m, slots, tokens, depth) ==
  IF tokens = <<>> THEN Parsed(slots)
  ELSE LET go(r) == IF r.failed THEN r ELSE MergeTokens(m, r.slots, Tail(tokens), depth)
       IN  go(MergeToken(m, slots, Head(tokens), depth))

(* The dict of a message whose slots are merged.                           *)
Finished(m, slots) ==
  DictOf(m, [i \in DOMAIN slots |->
               IF Plan[m][i].kind = "single" /\ IsMessage(Plan[m][i].value) /\ slots[i] # Absent
               THEN Value(Plan[m][i].value, slots[i].unfinished.slots)
               ELSE slots[i]])
AllInRange(m, slots) ==
  \A i \in DOMAIN slots :
    Plan[m][i].kind = "single" /\ IsMessage(Plan[m][i].value) /\ slots[i] # Absent =>
      /\ ~slots[i].unfinished.failed
      /\ Valid(Plan[m][i].value, slots[i].unfinished.slots)

Reference ==
  LET r == MergeTokens(Root, Nothing(Root), input, 0)
  IN  IF r.failed \/ ~AllInRange(Root, r.slots) THEN Error ELSE Finished(Root, r.slots)

(* Every token can be read as what the schema says it is.                  *)
RECURSIVE WellFormed(_, _, _)
ValueFits(value, t, depth) ==
  IF ~IsMessage(value) THEN t.wire = WireType(value) /\ Allowed(value, t.value)
  ELSE /\ t.wire = "len" /\ depth < MAX_DEPTH
       /\ value # "pair" => WellFormed(value, t.payload, depth + 1)
       /\ \A i \in 1 .. Len(t.payload) : t.payload[i].wire # "bad"
EntryFits(f, t, depth) ==
  CASE t.number = 1 -> t.wire = "varint"
    [] t.number = 2 -> ValueFits(f.value, t, depth)
    [] OTHER -> t.wire # "bad"
FieldFits(f, t, depth) ==
  CASE f.kind = "map" ->
         t.wire = "len" /\ \A i \in 1 .. Len(t.payload) : EntryFits(f, t.payload[i], depth)
    [] f.kind = "repeated" /\ f.value \in Scalars /\ Packable(f.value) /\ t.wire = "len" ->
         \A j \in 1 .. Len(t.packed) : Allowed(f.value, t.packed[j])
    [] OTHER -> ValueFits(f.value, t, depth)
WellFormed(m, tokens, depth) ==
  \A i \in 1 .. Len(tokens) :
    /\ tokens[i].wire # "bad"
    /\ \A j \in 1 .. Len(Plan[m]) :
         Plan[m][j].number = tokens[i].number => FieldFits(Plan[m][j], tokens[i], depth)

-----------------------------------------------------------------------------
(* decode_dict returns the merge of the fields of its input: scalars from  *)
(* the last occurrence, repeated fields concatenated, messages merged, the *)
(* last member of a oneof kept, zero values filled in.  It raises exactly  *)
(* if something that counts is malformed or out of range.                  *)
DecodesAsReference == result # Running => result = Reference

(* Malformed input raises, wherever in the message it is                   *)
(* (docs/api/reference.md, "Decoding errors").                             *)
MalformedRaises ==
  result # Running /\ ~WellFormed(Root, input, 0) => result = Error
=============================================================================
