----------------------------- MODULE MCCodecPlan -----------------------------
(***************************************************************************)
(* CodecPlan over all schemas of three ordinary message types with up to   *)
(* two fields, a leaf type and one well-known type.  Numbers reach both    *)
(* sides of the dense limit and are declared in and out of order.          *)
(***************************************************************************)
EXTENDS CodecPlan

CONSTANTS A, B, C, Struct, Color, choice, _optional

MCMessages == {A, B, C}
MCWellKnown == {Struct}
MCEnums == {Color}
MCGroups == {choice, _optional}

Field(n, kind, value, group) == [number |-> n, kind |-> kind, value |-> value, group |-> group]
Of(fields) == [fields |-> fields, groups |-> <<>>]
With(groups, fields) == [fields |-> fields, groups |-> groups]
Real == [name |-> choice, synthetic |-> FALSE]
Synthetic == [name |-> _optional, synthetic |-> TRUE]

(* Message types as protoc makes them, where a synthetic group follows the *)
(* real ones and members of groups are singular, and one of another writer *)
(* of descriptors, where it comes first.                                   *)
Bodies ==
  {Of(<<>>)}
  \cup {Of(<<Field(n, "single", v, NoGroup)>>) : n \in {1, 4}, v \in {B, C, Color, Scalar, Struct}}
  \cup {Of(<<Field(2, k, v, NoGroup), Field(1, "repeated", w, NoGroup)>>) :
          k \in {"single", "map"}, v \in {A, C}, w \in {A, B, Color}}
  \cup {With(<<Real>>, <<Field(5, "single", v, choice), Field(3, "single", w, choice)>>) :
          v \in {A, Scalar}, w \in {B, Color}}
  \cup {With(<<Real, Synthetic>>, <<Field(3, "single", Scalar, _optional),
                                    Field(2, "single", v, choice)>>) : v \in {B, C}}
  \cup {With(<<Synthetic, Real>>, <<Field(3, "single", Scalar, _optional),
                                    Field(2, "single", A, choice)>>)}

MCSchemas ==
  {[m \in MCMessages \cup MCWellKnown |->
      IF m = A THEN s ELSE IF m = B THEN t ELSE IF m = C THEN u
      ELSE Of(<<Field(1, "map", Struct, NoGroup)>>)] :
   s \in Bodies, t \in Bodies,
   u \in {Of(<<>>), Of(<<Field(1, "single", A, NoGroup)>>),
          Of(<<Field(3, "map", C, NoGroup), Field(2, "repeated", B, NoGroup)>>)}}
=============================================================================
