--------------------------- MODULE MCPydanticPlan ---------------------------
(***************************************************************************)
(* PydanticPlan on graphs of three models.                                 *)
(***************************************************************************)
EXTENDS PydanticPlan

CONSTANTS m1, m2, m3

Field(key, shape, leaf) == [key |-> key, annotation |-> [shape |-> shape, leaf |-> leaf]]

(* References between models, through each kind of type, and which of them *)
(* have bytes of their own.                                                *)
Edges == {<<m1, m2>>, <<m2, m3>>, <<m3, m1>>, <<m2, m2>>}
FieldsOf(m, edges, bytes) ==
  {Field(e[2], IF e = <<m2, m3>> THEN <<"optional", "dict">> ELSE <<"list">>, e[2]) :
     e \in {e \in edges : e[1] = m}}
  \cup (IF m \in bytes THEN {Field("data", <<"dict", "list">>, "bytes")} ELSE {})
MCSchemas ==
  {[m \in Models |-> FieldsOf(m, edges, bytes)] :
     edges \in SUBSET Edges, bytes \in {{}, {m3}}}
  \cup {[m \in Models |-> {Field("a", <<"union">>, "bytes"), Field("b", <<"list", "bare">>, m2),
                           Field("c", <<"optional">>, IF m = m2 THEN "bytes" ELSE m3),
                           Field("d", <<>>, "other")}]}
=============================================================================
