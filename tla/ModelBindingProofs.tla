------------------------- MODULE ModelBindingProofs -------------------------
(***************************************************************************)
(* bind_models gives every message type the class that the annotations     *)
(* say, and an instance that decode_message then makes is the one pydantic *)
(* would make, for any plan and any models.                                *)
(***************************************************************************)
EXTENDS ModelBinding, Lemmas

(* The fields of t were followed: its enum fields have their classes, the  *)
(* messages it links to have some.                                         *)
Linked(t) ==
  \A i \in DOMAIN fields[t] :
    /\ enum_class[t][i] = IF fields[t][i].is = "enum" THEN Annotated(t, i) ELSE None
    /\ fields[t][i].is = "enum" => Annotated(t, i) \notin Models
    /\ fields[t][i].is = "message" /\ Annotated(t, i) # None => classes[fields[t][i].type] # None

(* Some message is annotated with an enum, or an enum with a model.        *)
WrongKind ==
  \E t \in Types : \E i \in DOMAIN fields[t] :
    \/ fields[t][i].is = "enum" /\ Annotated(t, i) \in Models
    \/ fields[t][i].is = "message" /\ Annotated(t, i) \in Enums

BindTypes ==
  /\ program \in Programs
  /\ pc \in {"bind", "inform", "ready", "failed"}
  /\ classes \in [Types -> Models \cup Enums \cup {None}]
  /\ pending \in Seq(Types)
  /\ DOMAIN enum_class = Types

BindInv ==
  /\ BindTypes
  /\ classes[Root] = program.model
  /\ \A t \in Types : classes[t] \in Models => classes[t] \in model_links
  /\ \A t \in Types \ {Root} : classes[t] # None => classes[t] \in Said(t)
  /\ \A t \in Types : classes[t] \notin Models => \A i \in DOMAIN fields[t] : enum_class[t][i] = None
  /\ pc # "failed" => \A t \in Types : classes[t] # None => t \in ToSet(pending) \/ Linked(t)
  /\ pc \in {"inform", "ready"} => pending = <<>>
  /\ pc = "ready" => \A t \in Types : classes[t] \notin Enums
  /\ pc = "failed" => WrongKind

-----------------------------------------------------------------------------
(* The plan of a program.                                                  *)
LEMMA PlanFacts ==
  ASSUME program \in Programs
  PROVE  /\ program.model \in Models
         /\ \A t \in Types : fields[t] \in Seq(PlanFields)
         /\ \A t \in Types : \A i \in DOMAIN fields[t] :
              fields[t][i].is = "message" => fields[t][i].type \in Types
BY ProgramAssumption DEF fields

(* What a field holds is a class or nothing.                               *)
LEMMA TargetType ==
  ASSUME NEW m, NEW name
  PROVE  Target(m, name) \in Models \cup Enums \cup {None}
BY DEF Target, _target

(* The models with links are closed.                                       *)
LEMMA LinksClosed ==
  ASSUME program \in Programs
  PROVE  /\ program.model \in model_links
         /\ model_links \subseteq Models
         /\ \A m \in model_links : \A name : Target(m, name) \in Models => Target(m, name) \in model_links
<1>1. program.model \in model_links
  BY PlanFacts DEF model_links
<1>2. model_links \subseteq Models
  BY DEF model_links
<1>3. ASSUME NEW m \in model_links, NEW name, Target(m, name) \in Models
      PROVE  Target(m, name) \in model_links
  <2>1. PICK k \in DOMAIN model_fields[m] : Target(m, name) = _target(model_fields[m][k].annotation)
    BY <1>3, ClassAssumption DEF Target
  <2> DEFINE n == _target(model_fields[m][k].annotation)
             Closed(S) == /\ program.model \in S
                          /\ \A l \in S : \A j \in DOMAIN model_fields[l] :
                               _target(model_fields[l][j].annotation) \notin Models \ S
  <2>2. n \in Models
    BY <1>3, <2>1
  <2>3. ASSUME NEW S \in SUBSET Models, Closed(S) PROVE n \in S
    <3>1. m \in S
      BY <2>3 DEF model_links
    <3> QED BY <2>2, <2>3, <3>1
  <2>4. n \in model_links
    BY <2>2, <2>3 DEF model_links
  <2> QED BY <2>1, <2>4
<1> QED BY <1>1, <1>2, <1>3

(* What is said of a message type.                                         *)
LEMMA SaidFacts ==
  ASSUME NEW t, NEW c
  PROVE  c \in Said(t) <=>
           /\ c # None
           /\ \E s \in Types : \E i \in DOMAIN fields[s] :
                fields[s][i].is = "message" /\ fields[s][i].type = t /\ Annotated(s, i) = c
BY DEF Said, Holding

(* The constructor does not change what it reads.                          *)
LEMMA ProgramStays ==
  ASSUME program' = program
  PROVE  /\ fields' = fields
         /\ model_links' = model_links
         /\ \A m, name : Target(m, name)' = Target(m, name)
BY DEF fields, model_links, model_fields, Target

(* What a bound model's field is annotated with stays.                     *)
LEMMA AnnotatedStays ==
  ASSUME program' = program, NEW s, NEW i, classes'[s] = classes[s]
  PROVE  Annotated(s, i)' = Annotated(s, i)
BY DEF Annotated, Target, model_fields, fields

(* The state after a step that binds nothing.                              *)
LEMMA NothingBound ==
  ASSUME program' = program, classes' = classes, enum_class' = enum_class
  PROVE  /\ fields' = fields
         /\ model_links' = model_links
         /\ WrongKind' = WrongKind
         /\ \A t : Linked(t)' = Linked(t)
         /\ \A t : Said(t)' = Said(t)
<1>1. /\ fields' = fields
      /\ model_links' = model_links
      /\ \A m, name : Target(m, name)' = Target(m, name)
  BY ProgramStays
<1>2. \A s, i : Annotated(s, i)' = Annotated(s, i)
  BY <1>1 DEF Annotated, Target, model_fields, fields
<1>3. WrongKind' = WrongKind
  BY <1>1, <1>2 DEF WrongKind
<1>4. ASSUME NEW t PROVE Linked(t)' = Linked(t)
  BY <1>1, <1>2 DEF Linked
<1>5. ASSUME NEW t PROVE Said(t)' = Said(t)
  BY <1>1, <1>2 DEF Said, Holding
<1> QED BY <1>1, <1>3, <1>4, <1>5

-----------------------------------------------------------------------------
(* The constructor starts with the class of the root.                      *)
LEMMA BindInit == ASSUME Init PROVE BindInv
<1> USE PlanFacts, ProgramAssumption, ClassAssumption
<1>1. program \in Programs /\ Root \in Types /\ program.model \in Models
  BY DEF Init
<1>2. BindTypes
  BY <1>1 DEF Init, BindTypes
<1>3. /\ classes[Root] = program.model
      /\ \A t \in Types \ {Root} : classes[t] = None
      /\ \A t \in Types : \A i \in DOMAIN fields[t] : enum_class[t][i] = None
      /\ Root \in ToSet(pending)
      /\ pc = "bind"
  BY <1>1 DEF Init, ToSet
<1>4. \A t \in Types : classes[t] \in Models => classes[t] \in model_links
  BY <1>1, <1>3, LinksClosed
<1> QED BY <1>2, <1>3, <1>4 DEF BindInv

(* Of several fields with the same message that could give it a class, one *)
(* does.                                                                   *)
LEMMA SomeGives ==
  ASSUME BindTypes, NEW t \in Types, NEW j \in DOMAIN fields[t], fields[t][j].is = "message",
         Target(classes[t], fields[t][j].key) # None, classes[fields[t][j].type] = None
  PROVE  \E i \in DOMAIN fields[t] : Gives(t, i) /\ fields[t][i].type = fields[t][j].type
<1> DEFINE gives(i) == /\ fields[t][i].is = "message"
                       /\ Target(classes[t], fields[t][i].key) # None
                       /\ classes[fields[t][i].type] = None
           c == fields[t][j].type
           J == {i \in DOMAIN fields[t] : gives(i) /\ fields[t][i].type = c}
<1>1. fields[t] \in Seq(PlanFields)
  BY PlanFacts DEF BindTypes
<1>2. Len(fields[t]) \in Nat /\ DOMAIN fields[t] = 1 .. Len(fields[t])
  BY <1>1
<1>3. J \subseteq Nat /\ J # {}
  BY <1>2
<1> HIDE DEF J
<1>4. PICK i \in J : \A l \in J : i <= l
  BY <1>3, LeastElement
<1>5. i \in DOMAIN fields[t] /\ gives(i) /\ fields[t][i].type = c
  BY DEF J
<1>6. ASSUME NEW l \in 1 .. i - 1, fields[t][l].type = fields[t][i].type PROVE ~gives(l)
  <2>1. l \in DOMAIN fields[t] /\ ~(i <= l)
    BY <1>2, <1>5
  <2> HIDE DEF c, gives
  <2>2. l \notin J
    BY <1>4, <2>1
  <2> QED BY <1>5, <1>6, <2>1, <2>2 DEF J
<1>7. Gives(t, i)
  BY <1>5, <1>6 DEF Gives
<1> QED BY <1>5, <1>7

(* The types of some fields are those of the fields that were chosen.      *)
LEMMA TypesOf ==
  ASSUME NEW s \in Seq(PlanFields), NEW I \in SUBSET (1 .. Len(s)), \A i \in I : s[i].type \in Types
  PROVE  LET giving == Subsequence(s, I)
             given == TypesIn(giving)
         IN  /\ given \in Seq(Types)
             /\ \A i \in I : s[i].type \in ToSet(given)
             /\ \A c \in ToSet(given) : \E i \in I : s[i].type = c /\ FieldFor(giving, c) = s[i]
<1> DEFINE giving == Subsequence(s, I)
           n == Cardinality(I)
<1>1. /\ giving \in Seq(PlanFields)
      /\ Len(giving) = n
      /\ \A k \in 1 .. n : Nth(I, k) \in I /\ giving[k] = s[Nth(I, k)]
      /\ \A k, l \in 1 .. n : k < l => Nth(I, k) < Nth(I, l)
      /\ \A i \in I : \E k \in 1 .. n : Nth(I, k) = i
  <2>1. s \in Seq(PlanFields) /\ I \in SUBSET (1 .. Len(s))
    OBVIOUS
  <2> DEFINE S == PlanFields
  <2> HIDE DEF S
  <2>2. s \in Seq(S)
    BY <2>1 DEF S
  <2>3. /\ Subsequence(s, I) \in Seq(S)
        /\ Len(Subsequence(s, I)) = Cardinality(I)
        /\ \A k \in 1 .. Cardinality(I) : Nth(I, k) \in I /\ Subsequence(s, I)[k] = s[Nth(I, k)]
        /\ \A k, l \in 1 .. Cardinality(I) : k < l => Nth(I, k) < Nth(I, l)
        /\ \A i \in I : \E k \in 1 .. Cardinality(I) : Nth(I, k) = i
    BY <2>1, <2>2, SubsequenceProperties
  <2> QED BY <2>3 DEF S
<1> HIDE DEF giving, n
<1>2. DOMAIN giving = 1 .. n /\ n \in Nat
  BY <1>1
<1>3. \A k \in 1 .. n : \E i \in I : giving[k] = s[i]
  BY <1>1
<1>4. \A i \in I : \E k \in 1 .. n : giving[k] = s[i]
  BY <1>1
<1>5. \A k \in 1 .. n : giving[k].type \in Types
  BY <1>3
<1> DEFINE given == TypesIn(giving)
<1>6. given \in [1 .. n -> Types] /\ DOMAIN given = 1 .. n
      /\ \A k \in 1 .. n : given[k] = giving[k].type
  BY <1>2, <1>5 DEF TypesIn
<1> HIDE DEF given
<1>7. given \in Seq(Types)
  BY <1>2, <1>6
<1>8. \A i \in I : s[i].type \in ToSet(given)
  BY <1>4, <1>6 DEF ToSet
<1>9. ASSUME NEW c \in ToSet(given)
      PROVE  \E i \in I : s[i].type = c /\ FieldFor(giving, c) = s[i]
  <2> DEFINE k0 == CHOOSE k \in DOMAIN giving : giving[k].type = c
  <2>1. \E k \in DOMAIN giving : giving[k].type = c
    BY <1>2, <1>6 DEF ToSet
  <2>2. k0 \in DOMAIN giving /\ giving[k0].type = c
    BY <2>1
  <2> HIDE DEF k0
  <2>3. PICK i \in I : giving[k0] = s[i]
    BY <1>2, <1>3, <2>2
  <2>4. \E j \in I : s[j].type = c /\ giving[k0] = s[j]
    BY <2>2, <2>3
  <2> QED BY <2>4 DEF k0, FieldFor
<1> QED BY <1>7, <1>8, <1>9 DEF giving, given

(* The classes and pending types after a round.                            *)
LEMMA GivingFacts ==
  ASSUME BindTypes, NEW t \in Types, Follow, t = Last(pending), classes[t] \in model_links,
         pc' # "failed"
  PROVE  /\ program' = program /\ pc' = pc
         /\ ~MemberMapMissing(t)
         /\ enum_class' = [enum_class EXCEPT ![t] =
               [i \in DOMAIN fields[t] |->
                  IF fields[t][i].is = "enum" THEN Target(classes[t], fields[t][i].key) ELSE None]]
         /\ \E given \in Seq(Types) :
              /\ pending' = Front(pending) \o given
              /\ classes' \in [Types -> Models \cup Enums \cup {None}]
              /\ \A c \in Types \ ToSet(given) : classes'[c] = classes[c]
              /\ \A i \in DOMAIN fields[t] : Gives(t, i) => fields[t][i].type \in ToSet(given)
              /\ \A c \in ToSet(given) : \E i \in DOMAIN fields[t] :
                   /\ Gives(t, i) /\ fields[t][i].type = c
                   /\ classes'[c] = Target(classes[t], fields[t][i].key)
<1> DEFINE s == fields[t]
           I == {i \in DOMAIN s : Gives(t, i)}
           giving == Giving(t)
           given == TypesIn(giving)
           chosen(c) == FieldFor(giving, c)
<1>1. s \in Seq(PlanFields)
  BY PlanFacts DEF BindTypes
<1>2. DOMAIN s = 1 .. Len(s) /\ I \in SUBSET (1 .. Len(s))
  BY <1>1
<1>3. \A i \in I : s[i].type \in Types
  BY PlanFacts DEF BindTypes, Gives
<1>4. /\ program' = program /\ pc' = pc /\ ~MemberMapMissing(t)
      /\ enum_class' = [enum_class EXCEPT ![t] =
               [i \in DOMAIN fields[t] |->
                  IF fields[t][i].is = "enum" THEN Target(classes[t], fields[t][i].key) ELSE None]]
      /\ pending' = Front(pending) \o given
      /\ classes' = [c \in Types |-> IF c \in ToSet(given)
                                    THEN Target(classes[t], chosen(c).key) ELSE classes[c]]
  BY DEF Follow
<1>5. \A i : i \in I <=> i \in DOMAIN fields[t] /\ Gives(t, i)
  OBVIOUS
<1>6. giving = Subsequence(s, I)
  BY DEF Giving
<1> HIDE DEF I, giving
<1>7. /\ given \in Seq(Types)
      /\ \A i \in I : s[i].type \in ToSet(given)
      /\ \A c \in ToSet(given) : \E i \in I : s[i].type = c /\ chosen(c) = s[i]
  <2> HIDE DEF s
  <2>1. /\ TypesIn(giving) \in Seq(Types)
        /\ \A i \in I : s[i].type \in ToSet(TypesIn(giving))
        /\ \A c \in ToSet(TypesIn(giving)) :
             \E i \in I : s[i].type = c /\ FieldFor(giving, c) = s[i]
    BY <1>1, <1>2, <1>3, <1>6, TypesOf
  <2> QED BY <2>1
<1> HIDE DEF given, chosen
<1>8. ASSUME NEW c \in ToSet(given)
      PROVE  \E i \in I : s[i].type = c /\ classes'[c] = Target(classes[t], s[i].key)
  <2>1. PICK i \in I : s[i].type = c /\ chosen(c) = s[i]
    BY <1>7
  <2>2. classes'[c] = Target(classes[t], chosen(c).key)
    BY <1>3, <1>4, <2>1
  <2> QED BY <2>1, <2>2
<1>9. \A c \in Types \ ToSet(given) : classes'[c] = classes[c]
  BY <1>4
<1>10. classes' \in [Types -> Models \cup Enums \cup {None}]
  <2>1. \A c \in Types : classes[c] \in Models \cup Enums \cup {None}
    BY DEF BindTypes
  <2>2. \A c : Target(classes[t], chosen(c).key) \in Models \cup Enums \cup {None}
    BY TargetType
  <2> QED BY <1>4, <2>1, <2>2
<1>11. \A i \in DOMAIN fields[t] : Gives(t, i) => fields[t][i].type \in ToSet(given)
  BY <1>5, <1>7
<1>12. \A c \in ToSet(given) : \E i \in DOMAIN fields[t] :
         /\ Gives(t, i) /\ fields[t][i].type = c
         /\ classes'[c] = Target(classes[t], fields[t][i].key)
  BY <1>5, <1>8
<1> HIDE DEF s
<1> QED BY <1>4, <1>7, <1>9, <1>10, <1>11, <1>12

-----------------------------------------------------------------------------
(* The pending types without the last one.                                 *)
LEMMA FrontAndLast ==
  ASSUME NEW S, NEW s \in Seq(S), s # <<>>
  PROVE  /\ Front(s) \in Seq(S) /\ Last(s) \in S
         /\ \A x \in ToSet(s) : x = Last(s) \/ x \in ToSet(Front(s))
<1> DEFINE n == Len(s) - 1
           t == SubSeq(s, 1, n)
<1>1. n \in Nat /\ Len(s) = n + 1 /\ DOMAIN s = 1 .. n + 1
  BY LenProperties, EmptySeq
<1>2. \A i \in 1 .. n + 1 : s[i] \in S
  BY <1>1, ElementOfSeq
<1> HIDE DEF n
<1>3. t \in Seq(S) /\ Len(t) = n /\ \A i \in 1 .. n : t[i] = s[i]
  BY <1>1, <1>2, SubSeqProperties, SMT
<1>4. Front(s) = t /\ Last(s) = s[n + 1]
  BY <1>1 DEF Front, Last, n
<1>5. DOMAIN t = 1 .. n
  BY <1>3, LenProperties
<1> HIDE DEF t
<1>6. ASSUME NEW x \in ToSet(s) PROVE x = Last(s) \/ x \in ToSet(Front(s))
  <2>1. PICK i \in 1 .. n + 1 : x = s[i]
    BY <1>1 DEF ToSet
  <2>2. CASE i = n + 1
    BY <1>4, <2>1, <2>2
  <2>3. CASE i # n + 1
    <3>1. i \in 1 .. n
      BY <1>1, <2>3
    <3> QED BY <1>3, <1>4, <1>5, <2>1, <3>1 DEF ToSet
  <2> QED BY <2>2, <2>3
<1>7. Last(s) \in S
  BY <1>1, <1>2, <1>4
<1> QED BY <1>3, <1>4, <1>6, <1>7

(* Two lists of types together.                                            *)
LEMMA BothIn ==
  ASSUME NEW S, NEW s \in Seq(S), NEW t \in Seq(S)
  PROVE  /\ s \o t \in Seq(S)
         /\ ToSet(s) \cup ToSet(t) \subseteq ToSet(s \o t)
<1> DEFINE u == s \o t
<1>1. /\ u \in Seq(S) /\ Len(u) = Len(s) + Len(t)
      /\ \A i \in 1 .. Len(s) + Len(t) : u[i] = IF i <= Len(s) THEN s[i] ELSE t[i - Len(s)]
  BY ConcatProperties
<1> HIDE DEF u
<1>2. /\ DOMAIN s = 1 .. Len(s) /\ DOMAIN t = 1 .. Len(t) /\ DOMAIN u = 1 .. Len(s) + Len(t)
      /\ Len(s) \in Nat /\ Len(t) \in Nat
  BY <1>1, LenProperties
<1>3. \A i \in 1 .. Len(s) : i \in DOMAIN u /\ u[i] = s[i]
  BY <1>1, <1>2
<1>4. \A i \in 1 .. Len(t) : i + Len(s) \in DOMAIN u /\ u[i + Len(s)] = t[i]
  BY <1>1, <1>2
<1>5. ToSet(s) \subseteq ToSet(u)
  BY <1>2, <1>3 DEF ToSet
<1>6. ToSet(t) \subseteq ToSet(u)
  BY <1>2, <1>4 DEF ToSet
<1> QED BY <1>1, <1>5, <1>6 DEF u

(* A round binds the messages that the fields of t hold, and forgets no    *)
(* class.                                                                  *)
LEMMA LinkKeeps ==
  ASSUME BindInv, Follow, classes[Last(pending)] \in model_links, pc' # "failed"
  PROVE  BindInv'
<1>1. /\ BindTypes /\ program \in Programs /\ pending # <<>> /\ pc = "bind"
      /\ pending \in Seq(Types) /\ classes \in [Types -> Models \cup Enums \cup {None}]
      /\ DOMAIN enum_class = Types
  BY DEF BindInv, BindTypes, Follow
<1>2. PICK t \in Types :
        /\ t = Last(pending) /\ Front(pending) \in Seq(Types)
        /\ \A x \in ToSet(pending) : x = t \/ x \in ToSet(Front(pending))
  BY <1>1, FrontAndLast
<1>3. classes[t] \in model_links /\ classes[t] \in Models /\ classes[t] # None
  BY <1>1, <1>2, LinksClosed, ClassAssumption
<1>4. /\ program' = program /\ pc' = pc
      /\ ~MemberMapMissing(t)
      /\ enum_class' = [enum_class EXCEPT ![t] =
            [i \in DOMAIN fields[t] |->
               IF fields[t][i].is = "enum" THEN Target(classes[t], fields[t][i].key) ELSE None]]
      /\ \E given \in Seq(Types) :
           /\ pending' = Front(pending) \o given
           /\ classes' \in [Types -> Models \cup Enums \cup {None}]
           /\ \A c \in Types \ ToSet(given) : classes'[c] = classes[c]
           /\ \A i \in DOMAIN fields[t] : Gives(t, i) => fields[t][i].type \in ToSet(given)
           /\ \A c \in ToSet(given) : \E i \in DOMAIN fields[t] :
                /\ Gives(t, i) /\ fields[t][i].type = c
                /\ classes'[c] = Target(classes[t], fields[t][i].key)
  BY <1>1, <1>2, <1>3, GivingFacts
<1>5. PICK given \in Seq(Types) :
        /\ pending' = Front(pending) \o given
        /\ classes' \in [Types -> Models \cup Enums \cup {None}]
        /\ \A c \in Types \ ToSet(given) : classes'[c] = classes[c]
        /\ \A i \in DOMAIN fields[t] : Gives(t, i) => fields[t][i].type \in ToSet(given)
        /\ \A c \in ToSet(given) : \E i \in DOMAIN fields[t] :
             /\ Gives(t, i) /\ fields[t][i].type = c
             /\ classes'[c] = Target(classes[t], fields[t][i].key)
  BY <1>4
<1>6. /\ fields' = fields /\ model_links' = model_links
      /\ \A m, name : Target(m, name)' = Target(m, name)
  BY <1>4, ProgramStays
<1>7. \A c \in ToSet(given) : \E i \in DOMAIN fields[t] :
        /\ fields[t][i].is = "message" /\ fields[t][i].type = c
        /\ classes[c] = None /\ classes'[c] # None
        /\ classes'[c] = Target(classes[t], fields[t][i].key)
  BY <1>5 DEF Gives
<1>8. \A c \in Types : classes[c] # None => classes'[c] = classes[c] /\ c \notin ToSet(given)
  BY <1>5, <1>7
<1>9. classes'[t] = classes[t]
  BY <1>2, <1>3, <1>8
<1>10. \A s \in Types : \A i : Annotated(s, i) # None => Annotated(s, i)' = Annotated(s, i)
  <2> SUFFICES ASSUME NEW s \in Types, NEW i, Annotated(s, i) # None
               PROVE  Annotated(s, i)' = Annotated(s, i)
    OBVIOUS
  <2>1. classes[s] \in Models /\ classes[s] # None
    BY ClassAssumption DEF Annotated
  <2>2. classes'[s] = classes[s]
    BY <1>8, <2>1
  <2> QED BY <1>4, <2>2, AnnotatedStays
<1>11. \A i : Annotated(t, i)' = Target(classes[t], fields[t][i].key)
  <2>1. \A i : Annotated(t, i)' = Annotated(t, i)
    BY <1>4, <1>9, AnnotatedStays
  <2>2. \A i : Annotated(t, i) = Target(classes[t], fields[t][i].key)
    BY <1>3 DEF Annotated
  <2> QED BY <2>1, <2>2
<1>12. /\ pending' \in Seq(Types)
       /\ ToSet(Front(pending)) \cup ToSet(given) \subseteq ToSet(pending')
  BY <1>2, <1>5, BothIn
<1>13. BindTypes'
  BY <1>1, <1>4, <1>5, <1>12 DEF BindTypes
<1>14. (classes[Root] = program.model)'
  BY <1>1, <1>4, <1>8, PlanFacts, ClassAssumption, ProgramAssumption DEF BindInv
<1>15. ASSUME NEW c \in Types, classes'[c] \in Models PROVE classes'[c] \in model_links
  <2>1. CASE c \in ToSet(given)
    BY <1>1, <1>3, <1>7, <1>15, <2>1, LinksClosed
  <2>2. CASE c \notin ToSet(given)
    BY <1>5, <1>15, <2>2 DEF BindInv
  <2> QED BY <2>1, <2>2
<1>16. ASSUME NEW c \in Types \ {Root}, classes'[c] # None PROVE classes'[c] \in Said(c)'
  <2>1. \E s \in Types : \E i \in DOMAIN fields[s] :
          fields[s][i].is = "message" /\ fields[s][i].type = c /\ Annotated(s, i)' = classes'[c]
    <3>1. CASE c \in ToSet(given)
      <4>1. PICK i \in DOMAIN fields[t] :
              /\ fields[t][i].is = "message" /\ fields[t][i].type = c
              /\ classes'[c] = Target(classes[t], fields[t][i].key)
        BY <1>7, <3>1
      <4>2. Annotated(t, i)' = classes'[c]
        BY <1>11, <4>1
      <4> QED BY <1>2, <4>1, <4>2
    <3>2. CASE c \notin ToSet(given)
      <4>1. classes'[c] = classes[c] /\ classes[c] \in Said(c)
        BY <1>5, <1>16, <3>2 DEF BindInv
      <4>2. PICK s \in Types : \E i \in DOMAIN fields[s] :
              fields[s][i].is = "message" /\ fields[s][i].type = c /\ Annotated(s, i) = classes[c]
        BY <4>1, SaidFacts
      <4>3. \A i : Annotated(s, i) = classes[c] => Annotated(s, i)' = classes'[c]
        BY <1>10, <1>16, <4>1
      <4> QED BY <4>2, <4>3
    <3> QED BY <3>1, <3>2
  <2> QED BY <1>6, <1>16, <2>1 DEF Said, Holding
<1>17. ASSUME NEW c \in Types, classes'[c] \notin Models, NEW i \in DOMAIN fields[c]
       PROVE  enum_class'[c][i] = None
  <2>1. c # t
    BY <1>3, <1>9, <1>17
  <2>2. enum_class'[c] = enum_class[c]
    BY <1>1, <1>4, <2>1
  <2>3. classes[c] \notin Models
    BY <1>8, <1>17, ClassAssumption
  <2> QED BY <2>2, <2>3 DEF BindInv
<1>18. ASSUME NEW c \in Types, classes'[c] # None, c \notin ToSet(pending') PROVE Linked(c)'
  <2>1. c \notin ToSet(given) /\ classes[c] # None
    BY <1>5, <1>12, <1>18
  <2>2. CASE c = t
    <3> SUFFICES ASSUME NEW i \in DOMAIN fields[t]
                 PROVE  /\ enum_class'[t][i] =
                             IF fields[t][i].is = "enum" THEN Annotated(t, i)' ELSE None
                        /\ fields[t][i].is = "enum" => Annotated(t, i)' \notin Models
                        /\ fields[t][i].is = "message" /\ Annotated(t, i)' # None =>
                             classes'[fields[t][i].type] # None
      <4>1. \A i \in DOMAIN fields'[t] :
               /\ enum_class'[t][i] = IF fields'[t][i].is = "enum" THEN Annotated(t, i)' ELSE None
               /\ fields'[t][i].is = "enum" => Annotated(t, i)' \notin Models
               /\ fields'[t][i].is = "message" /\ Annotated(t, i)' # None =>
                    classes'[fields'[t][i].type] # None
        BY <1>6
      <4>2. Linked(t)'
        BY <4>1, Zenon DEF Linked
      <4> QED BY <2>2, <4>2
    <3>1. enum_class'[t][i] = IF fields[t][i].is = "enum" THEN Annotated(t, i)' ELSE None
      BY <1>1, <1>2, <1>4, <1>11
    <3>2. fields[t][i].is = "enum" => Annotated(t, i)' \notin Models
      BY <1>4, <1>11 DEF MemberMapMissing
    <3>3. ASSUME fields[t][i].is = "message", Annotated(t, i)' # None
          PROVE  classes'[fields[t][i].type] # None
      <4>1. fields[t][i].type \in Types
        BY <1>1, <1>2, <3>3, PlanFacts
      <4>2. CASE classes[fields[t][i].type] # None
        BY <1>8, <4>1, <4>2
      <4>3. CASE classes[fields[t][i].type] = None
        <5>1. Target(classes[t], fields[t][i].key) # None
          BY <1>11, <3>3
        <5>2. PICK j \in DOMAIN fields[t] : Gives(t, j) /\ fields[t][j].type = fields[t][i].type
          BY <1>1, <1>2, <3>3, <4>3, <5>1, SomeGives
        <5>3. fields[t][i].type \in ToSet(given)
          BY <1>5, <5>2
        <5> QED BY <1>7, <5>3
      <4> QED BY <4>2, <4>3
    <3> QED BY <3>1, <3>2, <3>3
  <2>3. CASE c # t
    <3>1. c \notin ToSet(pending)
      BY <1>2, <1>12, <1>18, <2>3
    <3>2. Linked(c)
      BY <1>1, <2>1, <3>1 DEF BindInv
    <3>3. enum_class'[c] = enum_class[c] /\ classes'[c] = classes[c]
      BY <1>1, <1>4, <1>8, <2>1, <2>3
    <3>4. \A i : Annotated(c, i)' = Annotated(c, i)
      BY <1>4, <3>3, AnnotatedStays
    <3>5. \A i \in DOMAIN fields[c] : fields[c][i].is = "message" => fields[c][i].type \in Types
      BY <1>1, PlanFacts
    <3> QED BY <1>6, <1>8, <3>2, <3>3, <3>4, <3>5 DEF Linked
  <2> QED BY <2>2, <2>3
<1>19. pc' = "bind"
  BY <1>1, <1>4
<1>20. \A c \in Types : classes'[c] \in Models => classes'[c] \in model_links'
  BY <1>6, <1>15
<1>21. \A c \in Types : classes'[c] \notin Models => \A i \in DOMAIN fields'[c] : enum_class'[c][i] = None
  BY <1>6, <1>17
<1> QED BY <1>13, <1>14, <1>16, <1>18, <1>19, <1>20, <1>21 DEF BindInv

(* A type that is bound to no model has nothing to follow.                 *)
LEMMA SkipKeeps ==
  ASSUME BindInv, Follow, classes[Last(pending)] \notin model_links
  PROVE  BindInv'
<1>1. /\ BindTypes /\ pending \in Seq(Types) /\ pending # <<>> /\ pc = "bind"
  BY DEF BindInv, BindTypes, Follow
<1>2. PICK t \in Types :
        /\ t = Last(pending) /\ Front(pending) \in Seq(Types)
        /\ \A x \in ToSet(pending) : x = t \/ x \in ToSet(Front(pending))
  BY <1>1, FrontAndLast
<1>3. /\ program' = program /\ pc' = pc /\ classes' = classes /\ enum_class' = enum_class
      /\ pending' = Front(pending)
  BY DEF Follow
<1>4. /\ fields' = fields /\ model_links' = model_links
      /\ \A c : Linked(c)' = Linked(c)
      /\ \A c : Said(c)' = Said(c)
  BY <1>3, NothingBound
<1>5. classes[t] \notin Models
  BY <1>2 DEF BindInv
<1>6. Linked(t)
  <2>1. \A i : Annotated(t, i) = None
    BY <1>5 DEF Annotated
  <2>2. \A i \in DOMAIN fields[t] : enum_class[t][i] = None
    BY <1>5 DEF BindInv
  <2> QED BY <2>1, <2>2, ClassAssumption DEF Linked
<1>7. ASSUME NEW c \in Types, classes'[c] # None PROVE c \in ToSet(pending') \/ Linked(c)'
  <2>1. c \in ToSet(pending) \/ Linked(c)
    BY <1>1, <1>3, <1>7 DEF BindInv
  <2>2. Linked(c)' = Linked(c)
    BY <1>4
  <2>3. c = t => Linked(c)
    BY <1>6
  <2>4. c \in ToSet(pending) /\ c # t => c \in ToSet(pending')
    BY <1>2, <1>3
  <2> QED BY <2>1, <2>2, <2>3, <2>4
<1>8. BindTypes'
  BY <1>1, <1>2, <1>3 DEF BindTypes
<1>9. \A c \in Types : classes'[c] \in Models => classes'[c] \in model_links'
  BY <1>3, <1>4 DEF BindInv
<1>10. \A c \in Types \ {Root} : classes'[c] # None => classes'[c] \in Said(c)'
  BY <1>3, <1>4 DEF BindInv
<1>11. \A c \in Types : classes'[c] \notin Models => \A i \in DOMAIN fields'[c] : enum_class'[c][i] = None
  BY <1>3, <1>4 DEF BindInv
<1>12. pc' = "bind" /\ classes'[Root] = program'.model
  BY <1>1, <1>3 DEF BindInv
<1> QED BY <1>7, <1>8, <1>9, <1>10, <1>11, <1>12 DEF BindInv

(* A step that binds nothing keeps what is bound.                          *)
LEMMA BoundStays ==
  ASSUME BindInv, program' = program, classes' = classes, enum_class' = enum_class,
         pending' = pending, pc' \in {"bind", "inform", "ready", "failed"},
         pc' # "failed" => pc # "failed",
         pc' \in {"inform", "ready"} => pending = <<>>,
         pc' = "ready" => \A t \in Types : classes[t] \notin Enums,
         pc' = "failed" => WrongKind
  PROVE  BindInv'
<1>1. /\ fields' = fields /\ model_links' = model_links
      /\ WrongKind' = WrongKind
      /\ \A t : Linked(t)' = Linked(t)
      /\ \A t : Said(t)' = Said(t)
  BY NothingBound
<1>2. BindTypes'
  BY DEF BindInv, BindTypes
<1>3. ASSUME pc' # "failed" PROVE \A t \in Types : classes[t] # None => t \in ToSet(pending) \/ Linked(t)
  BY <1>3 DEF BindInv
<1>4. \A t \in Types : classes'[t] \in Models => classes'[t] \in model_links'
  BY <1>1 DEF BindInv
<1>5. \A t \in Types \ {Root} : classes'[t] # None => classes'[t] \in Said(t)'
  BY <1>1 DEF BindInv
<1>6. \A t \in Types : classes'[t] \notin Models => \A i \in DOMAIN fields'[t] : enum_class'[t][i] = None
  BY <1>1 DEF BindInv
<1>7. pc' # "failed" => \A t \in Types : classes'[t] # None => t \in ToSet(pending') \/ Linked(t)'
  BY <1>1, <1>3
<1>8. pc' = "failed" => WrongKind'
  BY <1>1
<1>9. classes'[Root] = program'.model
  BY DEF BindInv
<1> QED BY <1>2, <1>4, <1>5, <1>6, <1>7, <1>8, <1>9 DEF BindInv

(* No step breaks the invariant.                                           *)
LEMMA BindStep == ASSUME BindInv, [Next]_vars PROVE BindInv'
<1> USE DEF BindInv
<1>1. CASE Follow
  <2>1. CASE classes[Last(pending)] \notin model_links
    BY <1>1, <2>1, SkipKeeps
  <2>2. CASE classes[Last(pending)] \in model_links /\ pc' # "failed"
    BY <1>1, <2>2, LinkKeeps
  <2>3. CASE classes[Last(pending)] \in model_links /\ pc' = "failed"
    <3>1. /\ pc = "bind" /\ pending # <<>> /\ pending \in Seq(Types) /\ program \in Programs
      BY <1>1 DEF BindTypes, Follow
    <3>2. PICK t \in Types : t = Last(pending)
      BY <3>1, FrontAndLast
    <3>3. /\ MemberMapMissing(t) /\ program' = program
          /\ classes' = classes /\ pending' = pending /\ enum_class' = enum_class
      BY <1>1, <2>3, <3>1, <3>2 DEF Follow
    <3>4. classes[t] \in Models
      BY <2>3, <3>1, <3>2, LinksClosed
    <3>5. WrongKind
      BY <3>3, <3>4 DEF MemberMapMissing, WrongKind, Annotated
    <3> QED BY <2>3, <3>3, <3>5, BoundStays
  <2> QED BY <2>1, <2>2, <2>3
<1>2. CASE Followed
  BY <1>2, BoundStays DEF Followed
<1>3. CASE Inform
  <2>1. /\ pc = "inform" /\ program' = program /\ classes' = classes
        /\ pending' = pending /\ enum_class' = enum_class
        /\ \/ pc' = "failed" /\ \E t \in Types : classes[t] \in Enums
           \/ pc' = "ready" /\ \A t \in Types : classes[t] \notin Enums
    BY <1>3 DEF Inform
  <2>2. ASSUME NEW t \in Types, classes[t] \in Enums PROVE WrongKind
    <3>1. t # Root /\ classes[t] # None
      BY <2>2, PlanFacts, ClassAssumption DEF BindTypes
    <3>2. classes[t] \in Said(t)
      BY <3>1
    <3> QED BY <2>2, <3>2, SaidFacts DEF WrongKind
  <2> QED BY <2>1, <2>2, BoundStays
<1>4. CASE UNCHANGED vars
  BY <1>4, BoundStays DEF vars, BindTypes
<1>5. ASSUME NEW t \in Types, decode_message(t) PROVE BindInv'
  BY <1>5, BoundStays DEF decode_message, BindTypes
<1>6. CASE Change
  BY <1>6, BoundStays DEF Change, BindTypes
<1> QED BY <1>1, <1>2, <1>3, <1>4, <1>5, <1>6 DEF Next

(* In every state: a model that is bound is one whose links are known, a   *)
(* class was said by some field, and the fields of a bound message were    *)
(* followed or are about to be.                                            *)
THEOREM BindInvariance == Spec => []BindInv
BY BindInit, BindStep, PTL DEF Spec

(* In whatever order messages are followed, and however they hold one      *)
(* another, each is bound to a class that some field's annotation says,    *)
(* and stays unbound only if none says any; construction fails only for an *)
(* annotation of the wrong kind.                                           *)
THEOREM AnnotationsBind == Spec => []BoundAsAnnotated
<1>1. ASSUME BindInv PROVE BoundAsAnnotated
  <2> USE <1>1
  <2>1. ASSUME pc \in {"inform", "ready"}, NEW t \in Types, classes[t] # None PROVE Linked(t)
    <3>1. pending = <<>>
      BY <2>1 DEF BindInv
    <3>2. ToSet(pending) = {}
      BY <3>1 DEF ToSet
    <3> QED BY <2>1, <3>2 DEF BindInv
  <2>2. ASSUME pc \in {"inform", "ready"}, NEW t \in Types, NEW i \in DOMAIN fields[t]
        PROVE  /\ enum_class[t][i] = IF fields[t][i].is = "enum" THEN Annotated(t, i) ELSE None
               /\ enum_class[t][i] \notin Models
    <3>1. CASE classes[t] = None
      <4>1. Annotated(t, i) = None
        BY <3>1, ClassAssumption DEF Annotated
      <4>2. enum_class[t][i] = None
        BY <3>1, ClassAssumption DEF BindInv
      <4> QED BY <4>1, <4>2, ClassAssumption
    <3>2. CASE classes[t] # None
      BY <2>1, <2>2, <3>2, ClassAssumption DEF Linked
    <3> QED BY <3>1, <3>2
  <2>3. ASSUME pc \in {"inform", "ready"}, NEW t \in Types \ {Root}
        PROVE  IF Said(t) = {} THEN classes[t] = None ELSE classes[t] \in Said(t)
    <3>1. CASE classes[t] # None
      BY <3>1 DEF BindInv
    <3>2. CASE classes[t] = None
      <4> SUFFICES ASSUME NEW c \in Said(t) PROVE FALSE
        BY <3>2
      <4>1. PICK s \in Types : \E i \in DOMAIN fields[s] :
              fields[s][i].is = "message" /\ fields[s][i].type = t /\ Annotated(s, i) = c
        BY SaidFacts
      <4>2. c # None
        BY SaidFacts
      <4>3. classes[s] # None
        BY <4>1, <4>2, ClassAssumption DEF Annotated
      <4>4. Linked(s)
        BY <2>1, <2>3, <4>3
      <4> QED BY <3>2, <4>1, <4>2, <4>4 DEF Linked
    <3> QED BY <3>1, <3>2
  <2>4. pc = "failed" => WrongKind
    BY DEF BindInv
  <2>5. pc = "ready" => \A t \in Types : classes[t] \notin Enums
    BY DEF BindInv
  <2>6. classes[Root] = program.model
    BY DEF BindInv
  <2> QED BY <2>2, <2>3, <2>4, <2>5, <2>6 DEF BoundAsAnnotated, WrongKind
<1> QED BY <1>1, BindInvariance, PTL

-----------------------------------------------------------------------------
(* What the annotations say is unambiguous, and only that is bound.        *)
SuitInv ==
  \A B \in [Types -> Models \cup {None}] :
    Suits(B) => \A t \in Types : classes[t] # None => classes[t] = B[t]

(* An object that was not made for this instance is a default of its class *)
(* that nobody can change.                                                 *)
SharedDefault(m, key) ==
  \E k \in DOMAIN model_fields[m] :
    model_fields[m][k].name = key /\ DefaultKind(model_fields[m][k].default) = "shared"
OwnObjects(built) ==
  /\ built.class \in Models
  /\ \A k \in DOMAIN built.values :
       LET entry == built.values[k] IN
       entry.value.at.n = 0 => entry.value.content = Default /\ SharedDefault(built.class, entry.key)

(* What BuildsAsPydantic says of one instance, but for its class.          *)
BuiltRight(instance) ==
  LET t == instance.type
      slots == instance.slots
      built == instance.built
      m == built.class
  IN  /\ [k \in DOMAIN built.values |-> Entry(built.values[k].key, built.values[k].value.content)]
          = Present([k \in DOMAIN model_fields[m] |-> Expected(t, slots, m, k)])
      /\ built.fields_set = {name \in {model_fields[m][k].name : k \in DOMAIN model_fields[m]} :
                              Given(t, slots, name) # {}}
      /\ built.extra = IF m \in program.extra THEN {} ELSE None

(* What the codec knows of a message is what its class says.               *)
InfoInv ==
  /\ DOMAIN construct = Types
  /\ \A t \in Types : \A m \in Models \cup Enums \cup {None} :
       classes[t] = m =>
         construct[t] = IF pc = "ready" /\ m # None THEN Construct(t, m) ELSE None

BuildInv ==
  /\ BindInv
  /\ SuitInv
  /\ InfoInv
  /\ pc # "ready" => instances = <<>>
  /\ IsSequence(instances)
  /\ \A n \in DOMAIN instances :
       /\ instances[n].built.class = classes[instances[n].type]
       /\ OwnObjects(instances[n].built)
       /\ OneClassPerType => BuiltRight(instances[n])
  /\ \A at \in touched : at.n # 0

(* What a model declares.                                                  *)
LEMMA ModelFacts ==
  ASSUME program \in Programs, NEW m \in Models
  PROVE  /\ DOMAIN model_fields[m] = 1 .. Len(model_fields[m]) /\ Len(model_fields[m]) \in Nat
         /\ \A j, k \in DOMAIN model_fields[m] :
              model_fields[m][j].name = model_fields[m][k].name => j = k
         /\ \A k \in DOMAIN model_fields[m] :
              /\ model_fields[m][k].name \in STRING
              /\ Target(m, model_fields[m][k].name) = _target(model_fields[m][k].annotation)
<1>1. model_fields[m] \in Seq(Declarations)
  BY ProgramAssumption DEF model_fields
<1>2. DOMAIN model_fields[m] = 1 .. Len(model_fields[m]) /\ Len(model_fields[m]) \in Nat
  BY <1>1
<1>3. \A j, k \in DOMAIN model_fields[m] :
        model_fields[m][j].name = model_fields[m][k].name => j = k
  BY NamesAssumption DEF model_fields
<1>4. ASSUME NEW k \in DOMAIN model_fields[m]
      PROVE  /\ model_fields[m][k].name \in STRING
             /\ Target(m, model_fields[m][k].name) = _target(model_fields[m][k].annotation)
  <2>1. model_fields[m][k] \in Declarations
    BY <1>1, <1>2, ElementOfSeq
  <2> DEFINE named == {j \in DOMAIN model_fields[m] :
                         model_fields[m][j].name = model_fields[m][k].name}
  <2>2. named = {k}
    BY <1>3
  <2>3. (CHOOSE j \in named : TRUE) = k
    BY <2>2
  <2> HIDE DEF named
  <2>4. Target(m, model_fields[m][k].name) =
          IF named = {} THEN None
          ELSE _target(model_fields[m][CHOOSE j \in named : TRUE].annotation)
    BY DEF Target, named
  <2> QED BY <2>1, <2>2, <2>3, <2>4 DEF Declarations
<1> QED BY <1>2, <1>3, <1>4

(* The class of the root fits.                                             *)
LEMMA SuitInit == ASSUME Init PROVE SuitInv
BY DEF Init, SuitInv, Suits

(* Which class fits depends on the program only.                           *)
LEMMA SuitsSame ==
  ASSUME program' = program
  PROVE  \A B : Suits(B)' = Suits(B)
BY DEF Suits, Target, fields, model_fields

(* A step that binds nothing.                                              *)
LEMMA SuitStays ==
  ASSUME SuitInv, program' = program, classes' = classes
  PROVE  SuitInv'
BY SuitsSame DEF SuitInv

(* A class that is given is the one that fits.                             *)
LEMMA SuitFollow ==
  ASSUME BindInv, SuitInv, Follow
  PROVE  SuitInv'
<1>1. /\ BindTypes /\ program \in Programs /\ pending # <<>> /\ pending \in Seq(Types)
      /\ program' = program
  BY DEF BindInv, BindTypes, Follow
<1>2. PICK t \in Types : t = Last(pending)
  BY <1>1, FrontAndLast
<1>3. CASE classes' = classes
  BY <1>1, <1>3, SuitStays
<1>4. CASE classes' # classes
  <2>1. classes[t] \in model_links /\ pc' # "failed"
    BY <1>2, <1>4 DEF Follow
  <2>2. classes[t] # None
    BY <1>1, <2>1, LinksClosed, ClassAssumption
  <2>3. PICK given \in Seq(Types) :
          /\ \A c \in Types \ ToSet(given) : classes'[c] = classes[c]
          /\ \A c \in ToSet(given) : \E i \in DOMAIN fields[t] :
               /\ Gives(t, i) /\ fields[t][i].type = c
               /\ classes'[c] = Target(classes[t], fields[t][i].key)
    BY <1>1, <1>2, <2>1, GivingFacts
  <2> SUFFICES ASSUME NEW B \in [Types -> Models \cup {None}], Suits(B)',
                      NEW c \in Types, classes'[c] # None
               PROVE  classes'[c] = B[c]
    BY DEF SuitInv
  <2>4. Suits(B)
    BY <1>1, SuitsSame
  <2>5. CASE c \in ToSet(given)
    <3>1. PICK i \in DOMAIN fields[t] :
            Gives(t, i) /\ fields[t][i].type = c /\ classes'[c] = Target(classes[t], fields[t][i].key)
      BY <2>3, <2>5
    <3>2. classes[t] = B[t] /\ fields[t][i].is = "message"
      BY <2>2, <2>4, <3>1 DEF SuitInv, Gives
    <3>3. Target(B[t], fields[t][i].key) = B[fields[t][i].type]
      BY <2>2, <2>4, <3>2 DEF Suits
    <3> QED BY <3>1, <3>2, <3>3
  <2>6. CASE c \notin ToSet(given)
    BY <2>3, <2>4, <2>6 DEF SuitInv
  <2> QED BY <2>5, <2>6
<1> QED BY <1>3, <1>4

-----------------------------------------------------------------------------
(* A member, or the number.                                                *)
LEMMA EnumFacts ==
  ASSUME program \in Programs, NEW number \in {0, 1, 9}, NEW class \in Enums \cup {None}
  PROVE  /\ enum_object(number, class) =
              IF number \in NumbersOf(class) THEN Value(class, number) ELSE Value("plain", number)
         /\ enum_object(number, class) \in Values
<1>1. program.open \subseteq Enums /\ None \notin Enums
  BY ProgramAssumption, ClassAssumption
<1>2. CASE class = None
  <2>1. NumbersOf(class) = {}
    BY <1>1, <1>2 DEF NumbersOf
  <2> QED BY <1>2, <2>1 DEF enum_object, Value, Values
<1>3. CASE class # None
  <2>1. class \in Enums
    BY <1>3
  <2> QED BY <1>1, <1>3, <2>1 DEF enum_object, NumbersOf, Value, Values
<1> QED BY <1>2, <1>3

(* What construct has for a class.                                         *)
LEMMA ConstructFacts ==
  ASSUME program \in Programs, NEW t \in Types, NEW m \in Models
  PROVE  Construct(t, m) \in Constructs /\ Construct(t, m) # None
<1> DEFINE info == construct_info(m)
           n == Len(model_fields[m])
           D == [name : STRING, kind : {"required", "shared", "copied", "factory"}]
<1>1. /\ DOMAIN model_fields[m] = 1 .. n /\ n \in Nat
      /\ \A k \in 1 .. n : model_fields[m][k].name \in STRING
  BY ModelFacts
<1>2. \A default : DefaultKind(default) \in {"required", "shared", "copied", "factory"}
  BY DEF DefaultKind
<1>3. info.defaults \in Seq(D)
  <2> HIDE DEF n
  <2>1. info.defaults \in [1 .. n -> D]
    BY <1>1, <1>2 DEF construct_info
  <2> HIDE DEF info, D
  <2> QED BY <1>1, <2>1
<1>4. info.fast \in BOOLEAN /\ info.extra_allow \in BOOLEAN
  <2> DEFINE fast == /\ m \notin program.slow
                     /\ \A k \in DOMAIN model_fields[m] :
                          model_fields[m][k].default.value # "factory_of_data"
             extra == m \in program.extra
  <2>1. info.fast = fast /\ info.extra_allow = extra
    BY Zenon DEF construct_info
  <2>2. fast \in BOOLEAN /\ extra \in BOOLEAN
    OBVIOUS
  <2> HIDE DEF info, fast, extra
  <2> QED BY <2>1, <2>2, Zenon
<1>5. DOMAIN fields[t] \subseteq Nat
  BY PlanFacts
<1> HIDE DEF info
<1>6. Construct(t, m) \in Constructs
  BY <1>3, <1>4, <1>5 DEF Construct, Constructs, info
<1> QED BY <1>6, NoneAssumption

LEMMA InfoFollows ==
  ASSUME BuildInv, NEW t \in Types
  PROVE  construct[t] = IF pc = "ready" /\ classes[t] # None THEN Construct(t, classes[t]) ELSE None
BY DEF BuildInv, BindInv, BindTypes, InfoInv

(* The classes when the codec is ready.                                    *)
LEMMA ReadyFacts ==
  ASSUME BuildInv, pc = "ready", NEW t \in Types, classes[t] # None
  PROVE  /\ program \in Programs /\ classes[t] \in Models
         /\ \A i \in DOMAIN fields[t] :
              /\ enum_class[t][i] =
                   IF fields[t][i].is = "enum" THEN Target(classes[t], fields[t][i].key) ELSE None
              /\ enum_class[t][i] \in Enums \cup {None}
         /\ \A i \in DOMAIN fields[t] : fields[t][i].is = "message" =>
              LET c == fields[t][i].type IN
              /\ c \in Types /\ classes[c] \in Models \cup {None}
              /\ construct[c] = IF classes[c] = None THEN None ELSE Construct(c, classes[c])
              /\ OneClassPerType => classes[c] = Target(classes[t], fields[t][i].key)
<1>1. /\ program \in Programs /\ classes \in [Types -> Models \cup Enums \cup {None}]
      /\ \A c \in Types : classes[c] \notin Enums
      /\ pending = <<>>
  BY DEF BuildInv, BindInv, BindTypes
<1>2. \A c \in Types : classes[c] \in Models \cup {None}
  BY <1>1
<1>3. Linked(t)
  <2>1. ToSet(pending) = {}
    BY <1>1 DEF ToSet
  <2> QED BY <2>1 DEF BuildInv, BindInv
<1>4. classes[t] \in Models /\ \A i : Annotated(t, i) = Target(classes[t], fields[t][i].key)
  BY <1>2 DEF Annotated
<1>5. ASSUME NEW i \in DOMAIN fields[t]
      PROVE  /\ enum_class[t][i] =
                  IF fields[t][i].is = "enum" THEN Target(classes[t], fields[t][i].key) ELSE None
             /\ enum_class[t][i] \in Enums \cup {None}
  <2>1. Target(classes[t], fields[t][i].key) \in Models \cup Enums \cup {None}
    BY TargetType
  <2> QED BY <1>3, <1>4, <2>1 DEF Linked
<1>6. ASSUME NEW i \in DOMAIN fields[t], fields[t][i].is = "message"
      PROVE  LET c == fields[t][i].type IN
             /\ c \in Types /\ classes[c] \in Models \cup {None}
             /\ construct[c] = IF classes[c] = None THEN None ELSE Construct(c, classes[c])
             /\ OneClassPerType => classes[c] = Target(classes[t], fields[t][i].key)
  <2> DEFINE c == fields[t][i].type
  <2>1. c \in Types
    BY <1>1, <1>6, PlanFacts
  <2>2. construct[c] = IF classes[c] = None THEN None ELSE Construct(c, classes[c])
    BY <2>1, InfoFollows
  <2>3. ASSUME OneClassPerType PROVE classes[c] = Target(classes[t], fields[t][i].key)
    <3>1. PICK B \in [Types -> Models \cup {None}] : Suits(B)
      BY <2>3 DEF OneClassPerType
    <3>2. \A s \in Types : classes[s] # None => classes[s] = B[s]
      BY <3>1 DEF BuildInv, SuitInv
    <3>3. Target(classes[t], fields[t][i].key) = B[c]
      BY <1>6, <3>1, <3>2 DEF Suits
    <3>4. Target(classes[t], fields[t][i].key) # None => classes[c] # None
      BY <1>3, <1>4, <1>6 DEF Linked
    <3> QED BY <2>1, <3>2, <3>3, <3>4
  <2> QED BY <1>2, <2>1, <2>2, <2>3
<1> QED BY <1>1, <1>4, <1>5, <1>6

(* A field that is there has the value that pydantic makes of it.          *)
LEMMA PresentFacts ==
  ASSUME BuildInv, pc = "ready", NEW t \in Types, classes[t] # None,
         NEW slots \in SlotsOf(t), NEW i \in DOMAIN fields[t]
  PROVE  /\ i \in Given(t, slots, fields[t][i].key) =>
              /\ present_value(t, i, slots) \in Values
              /\ OneClassPerType =>
                   present_value(t, i, slots) =
                     Converted(t, i, slots, Target(classes[t], fields[t][i].key))
         /\ i \notin Given(t, slots, fields[t][i].key) => present_value(t, i, slots) = None
<1> DEFINE f == fields[t][i]
           m == classes[t]
           target == Target(m, f.key)
           given == i \in Given(t, slots, f.key)
           pv == present_value(t, i, slots)
<1>1. /\ program \in Programs /\ m \in Models
      /\ enum_class[t][i] = IF f.is = "enum" THEN target ELSE None
      /\ enum_class[t][i] \in Enums \cup {None}
  BY ReadyFacts
<1>2. f.is \in {"message", "enum", "other"} /\ f.many \in BOOLEAN /\ f.presence \in BOOLEAN
  <2>1. fields[t] \in Seq(PlanFields)
    BY <1>1, PlanFacts
  <2>2. f \in PlanFields
    BY <2>1, ElementOfSeq
  <2> HIDE DEF f
  <2> QED BY <2>2 DEF PlanFields
<1>3. slots[i] \in {None, 1, 9} /\ None \notin Nat /\ None \notin Values
  BY NoneAssumption DEF SlotsOf
<1>4. given <=> slots[i] # None \/ f.many \/ (f.is # "message" /\ ~f.presence)
  BY DEF Given
<1>5. ASSUME slots[i] # None
      PROVE  pv \in Values /\ (OneClassPerType => pv = Converted(t, i, slots, target))
  <2>1. slots[i] \in {1, 9} /\ slots[i] \in {0, 1, 9} /\ slots[i] \in Nat
    BY <1>3, <1>5
  <2>2. pv = Read(t, i, slots)
    BY <1>5 DEF present_value
  <2>3. CASE f.is = "enum"
    <3>1. pv = enum_object(slots[i], target) /\ target \in Enums \cup {None}
      BY <1>1, <2>2, <2>3 DEF Read
    <3>2. /\ pv = IF slots[i] \in NumbersOf(target) THEN Value(target, slots[i])
                  ELSE Value("plain", slots[i])
          /\ pv \in Values
      BY <1>1, <2>1, <3>1, EnumFacts
    <3> QED BY <1>5, <2>3, <3>2 DEF Converted
  <2>4. CASE f.is = "other"
    <3>1. pv = Value("plain", slots[i])
      BY <2>2, <2>4 DEF Read
    <3> QED BY <1>5, <2>1, <2>4, <3>1 DEF Converted, Value, Values
  <2>5. CASE f.is = "message"
    <3> DEFINE c == f.type
    <3>1. /\ c \in Types /\ classes[c] \in Models \cup {None}
          /\ construct[c] = IF classes[c] = None THEN None ELSE Construct(c, classes[c])
          /\ OneClassPerType => classes[c] = target
      BY <2>5, ReadyFacts
    <3>2. pv = Value(IF construct[c] = None THEN "dict" ELSE construct[c].class, slots[i])
      BY <2>2, <2>5 DEF Read
    <3>3. pv = Value(IF classes[c] = None THEN "dict" ELSE classes[c], slots[i])
      <4>1. CASE classes[c] = None
        BY <3>1, <3>2, <4>1
      <4>2. CASE classes[c] # None
        <5>1. Construct(c, classes[c]) # None
          BY <1>1, <3>1, <4>2, ConstructFacts
        <5>2. Construct(c, classes[c]).class = classes[c]
          BY DEF Construct
        <5> QED BY <3>1, <3>2, <4>2, <5>1, <5>2
      <4> QED BY <4>1, <4>2
    <3>4. pv \in Values
      BY <2>1, <3>1, <3>3 DEF Value, Values
    <3>5. ASSUME OneClassPerType PROVE pv = Converted(t, i, slots, target)
      <4>1. Converted(t, i, slots, target) =
              Value(IF target \in Models THEN target ELSE "dict", slots[i])
        BY <1>5, <2>5 DEF Converted
      <4>2. target \in Models \cup {None} /\ None \notin Models /\ classes[c] = target
        BY <3>1, <3>5, ClassAssumption
      <4> HIDE DEF target, c
      <4> QED BY <3>3, <4>1, <4>2
    <3> QED BY <3>4, <3>5
  <2> QED BY <1>2, <2>3, <2>4, <2>5
<1>6. ASSUME slots[i] = None, f.many
      PROVE  pv \in Values /\ pv = Converted(t, i, slots, target)
  <2>1. pv = EmptyContainer
    BY <1>6 DEF present_value
  <2>2. Converted(t, i, slots, target) = EmptyContainer
    BY <1>6 DEF Converted
  <2>3. EmptyContainer \in Values
    BY DEF EmptyContainer, Value, Values
  <2> HIDE DEF pv, target
  <2> QED BY <2>1, <2>2, <2>3
<1>7. ASSUME slots[i] = None, ~f.many, f.is # "message", ~f.presence
      PROVE  pv \in Values /\ pv = Converted(t, i, slots, target)
  <2>1. pv = IF enum_class[t][i] # None THEN enum_object(0, enum_class[t][i]) ELSE Zero
    BY <1>7 DEF present_value
  <2>2. CASE f.is = "enum"
    <3>1. target \in Enums \cup {None} /\ enum_class[t][i] = target
      BY <1>1, <2>2
    <3>2. /\ enum_object(0, target) =
                IF 0 \in NumbersOf(target) THEN Value(target, 0) ELSE Value("plain", 0)
          /\ enum_object(0, target) \in Values
      BY <1>1, <3>1, EnumFacts
    <3>3. Converted(t, i, slots, target) =
            IF 0 \in NumbersOf(target) THEN Value(target, 0) ELSE Value("plain", 0)
      BY <1>7, <2>2 DEF Converted
    <3>4. target = None => enum_object(0, target) = Zero
      BY DEF enum_object, Zero
    <3>5. pv = enum_object(0, target)
      BY <2>1, <3>1, <3>4
    <3> QED BY <3>2, <3>3, <3>5
  <2>3. CASE f.is = "other"
    <3>1. enum_class[t][i] = None
      BY <1>1, <2>3
    <3> QED BY <1>7, <2>1, <2>3, <3>1 DEF Converted, Zero, Value, Values
  <2> QED BY <1>2, <1>7, <2>2, <2>3
<1>8. ASSUME slots[i] = None, ~f.many, f.is = "message" \/ f.presence PROVE pv = None
  BY <1>8 DEF present_value
<1> HIDE DEF pv, target
<1>9. given => pv \in Values /\ (OneClassPerType => pv = Converted(t, i, slots, target))
  BY <1>4, <1>5, <1>6, <1>7
<1>10. ~given => pv = None
  BY <1>4, <1>8
<1> QED BY <1>9, <1>10 DEF pv, target

(* A field that is not read has its declared default: one that is its own  *)
(* or that nobody can have changed.                                        *)
LEMMA DefaultFacts ==
  ASSUME program \in Programs, \A at \in touched : at.n # 0, Len(instances) \in Nat,
         NEW m \in Models, NEW k \in DOMAIN model_fields[m]
  PROVE  LET default == construct_info(m).defaults[k]
             value == default_value(m, default)
             declared == model_fields[m][k].default
         IN  /\ default.name = model_fields[m][k].name
             /\ declared.value = "undefined" => value = None
             /\ declared.value # "undefined" =>
                  /\ value \in Objects /\ value.content = Default
                  /\ value.at.n = 0 => DefaultKind(declared) = "shared"
<1> DEFINE name == model_fields[m][k].name
           declared == model_fields[m][k].default
           kind == DefaultKind(declared)
           default == construct_info(m).defaults[k]
           original == [n |-> 0, class |-> m, key |-> name]
           n == Len(instances) + 1
<1>1. default = [name |-> name, kind |-> kind]
  BY DEF construct_info
<1>2. kind \in {"required", "shared", "copied", "factory"} /\
      (kind = "required" <=> declared.value = "undefined")
  BY DEF DefaultKind
<1>3. name \in STRING
  BY ModelFacts
<1>4. original \notin touched
  BY DEF original
<1>5. /\ kind = "shared" => default_value(m, default) = Object(Default, 0, m, name)
      /\ kind \in {"copied", "factory"} => default_value(m, default) = Object(Default, n, m, name)
      /\ kind = "required" => default_value(m, default) = None
  <2> HIDE DEF name, declared, kind
  <2>1. CASE kind = "shared"
    BY <1>1, <1>4, <2>1 DEF default_value
  <2>2. CASE kind \in {"copied", "factory"}
    BY <1>1, <1>4, <2>2 DEF default_value
  <2>3. CASE kind = "required"
    BY <1>1, <2>3 DEF default_value
  <2> QED BY <1>2, <2>1, <2>2, <2>3
<1>6. Default \in Values
  BY DEF Default, Value, Values
<1>7. \A i \in Nat : /\ Object(Default, i, m, name) \in Objects
                    /\ Object(Default, i, m, name).content = Default
                    /\ Object(Default, i, m, name).at.n = i
  BY <1>3, <1>6 DEF Object, Objects
<1>8. n \in Nat /\ n # 0
  OBVIOUS
<1>9. default.name = name
  BY <1>1
<1> HIDE DEF default, name, declared, kind, n
<1>10. /\ declared.value = "undefined" => default_value(m, default) = None
       /\ declared.value # "undefined" =>
            /\ default_value(m, default) \in Objects /\ default_value(m, default).content = Default
            /\ default_value(m, default).at.n = 0 => kind = "shared"
  BY <1>2, <1>5, <1>7, <1>8
<1> QED BY <1>9, <1>10 DEF default, name, declared, kind

(* A loop that stores values under keys leaves the last one under each.    *)
Stored(dict, key, value, i) ==
  /\ DOMAIN dict = {key[j] : j \in {j \in 1 .. i : value[j] # None}}
  /\ \A j \in 1 .. i :
       value[j] # None /\ (\A l \in j + 1 .. i : key[l] = key[j] => value[l] = None) =>
         dict[key[j]] = value[j]

(* What the loop leaves after each of n fields.                            *)
Storing(f, n, key, value) ==
  /\ f = [i \in 0 .. n |-> f[i]]
  /\ f[0] = <<>>
  /\ \A i \in 1 .. n :
       f[i] = IF value[i] = None THEN f[i - 1] ELSE set_item(f[i - 1], key[i], value[i])

(* The loop runs for any fields ...                                        *)
LEMMA StoringExists ==
  ASSUME NEW n \in Nat, NEW O, NEW key \in [1 .. n -> STRING],
         NEW value \in [1 .. n -> O \cup {None}]
  PROVE  \E f : Storing(f, n, key, value)
<1> DEFINE V == UNION {[K -> O] : K \in SUBSET STRING}
           Next1(i, dict) == IF value[i] = None THEN dict ELSE set_item(dict, key[i], value[i])
           step == [p \in (1 .. n) \X V |-> Next1(p[1], p[2])]
           start == <<>>
<1>1. start \in V
  <2>1. start \in [{} -> O] /\ {} \in SUBSET STRING
    OBVIOUS
  <2> QED BY <2>1
<1>2. ASSUME NEW i \in 1 .. n, NEW dict \in V PROVE Next1(i, dict) \in V
  <2>1. PICK K \in SUBSET STRING : dict \in [K -> O]
    OBVIOUS
  <2>2. CASE value[i] # None
    <3>1. value[i] \in O /\ K \cup {key[i]} \in SUBSET STRING
      BY <2>2
    <3>2. set_item(dict, key[i], value[i]) \in [K \cup {key[i]} -> O]
      BY <2>1, <3>1 DEF set_item
    <3>3. set_item(dict, key[i], value[i]) \in V
      BY <3>1, <3>2
    <3> HIDE DEF V
    <3> QED BY <2>2, <3>3
  <2> QED BY <2>2
<1>3. step \in [(1 .. n) \X V -> V]
  <2> HIDE DEF V, Next1
  <2> QED BY <1>2
<1> HIDE DEF V, start, step
<1>4. PICK f : Runs(f, n, V, start, step)
  BY <1>1, <1>3, Loop
<1>5. ASSUME NEW i \in 1 .. n PROVE f[i] = Next1(i, f[i - 1])
  <2>1. f[i - 1] \in V /\ f[i] = step[<<i, f[i - 1]>>]
    BY <1>4 DEF Runs
  <2> HIDE DEF Next1
  <2>2. <<i, f[i - 1]>> \in (1 .. n) \X V
    BY <2>1
  <2>3. step[<<i, f[i - 1]>>] = Next1(i, f[i - 1])
    BY <2>2 DEF step
  <2> QED BY <2>1, <2>3
<1>6. f = [i \in 0 .. n |-> f[i]] /\ f[0] = <<>>
  BY <1>4 DEF Runs, start
<1>7. Storing(f, n, key, value)
  BY <1>5, <1>6 DEF Storing
<1> QED BY <1>7

(* ... and stores the last value of each key.                              *)
LEMMA StoringStores ==
  ASSUME NEW n \in Nat, NEW key, NEW value, NEW f, Storing(f, n, key, value)
  PROVE  Stored(f[n], key, value, n)
<1> DEFINE Next1(i, dict) == IF value[i] = None THEN dict ELSE set_item(dict, key[i], value[i])
           S == {i \in 0 .. n : Stored(f[i], key, value, i)}
<1>1. 0 \in S
  <2>1. DOMAIN f[0] = {} /\ 1 .. 0 = {}
    BY DEF Storing
  <2> QED BY <2>1 DEF Stored
<1>2. ASSUME NEW i \in 1 .. n, i - 1 \in S PROVE i \in S
  <2> DEFINE d == f[i - 1]
             e == f[i]
  <2>1. Stored(d, key, value, i - 1)
    BY <1>2
  <2>2. e = Next1(i, d)
    BY DEF Storing
  <2>3. 1 .. i = (1 .. i - 1) \cup {i}
    OBVIOUS
  <2> HIDE DEF d, e
  <2>4. CASE value[i] = None
    <3>1. e = d
      BY <2>2, <2>4
    <3>2. DOMAIN e = {key[j] : j \in {j \in 1 .. i : value[j] # None}}
      BY <2>1, <2>3, <2>4, <3>1 DEF Stored
    <3>3. ASSUME NEW j \in 1 .. i, value[j] # None,
                 \A l \in j + 1 .. i : key[l] = key[j] => value[l] = None
          PROVE  e[key[j]] = value[j]
      <4>1. j \in 1 .. i - 1 /\ j + 1 .. i - 1 \subseteq j + 1 .. i
        BY <2>4, <3>3
      <4> QED BY <2>1, <3>1, <3>3, <4>1 DEF Stored
    <3> QED BY <3>2, <3>3 DEF Stored, e
  <2>5. CASE value[i] # None
    <3>1. e = [x \in DOMAIN d \cup {key[i]} |-> IF x = key[i] THEN value[i] ELSE d[x]]
      BY <2>2, <2>5 DEF set_item
    <3>2. DOMAIN e = {key[j] : j \in {j \in 1 .. i : value[j] # None}}
      <4>1. DOMAIN e = DOMAIN d \cup {key[i]}
        BY <3>1
      <4> QED BY <2>1, <2>3, <2>5, <4>1 DEF Stored
    <3>3. ASSUME NEW j \in 1 .. i, value[j] # None,
                 \A l \in j + 1 .. i : key[l] = key[j] => value[l] = None
          PROVE  e[key[j]] = value[j]
      <4>1. CASE j = i
        BY <3>1, <4>1
      <4>2. CASE j # i
        <5>1. j \in 1 .. i - 1 /\ j + 1 .. i - 1 \subseteq j + 1 .. i /\ i \in j + 1 .. i
          BY <4>2
        <5>2. key[i] # key[j]
          BY <2>5, <3>3, <5>1
        <5>3. d[key[j]] = value[j] /\ key[j] \in DOMAIN d
          BY <2>1, <3>3, <5>1 DEF Stored
        <5> QED BY <3>1, <5>2, <5>3
      <4> QED BY <4>1, <4>2
    <3> QED BY <3>2, <3>3 DEF Stored, e
  <2> QED BY <2>4, <2>5
<1>3. n \in S
  <2> HIDE DEF S
  <2>1. \A i \in 0 .. n : i \in S
    BY <1>1, <1>2, UpTo
  <2> QED BY <2>1
<1> QED BY <1>3

(* What is read for the i-th field of t, as an object of this instance.    *)
ObjectRead(t, i, slots) ==
  Object(present_value(t, i, slots), Len(instances) + 1, classes[t], fields[t][i].key)

LEMMA ReadFacts ==
  ASSUME BuildInv, pc = "ready", NEW t \in Types, classes[t] # None,
         NEW slots \in SlotsOf(t), NEW i \in DOMAIN fields[t]
  PROVE  /\ fields[t][i].key \in STRING
         /\ present_value(t, i, slots) # None <=> i \in Given(t, slots, fields[t][i].key)
         /\ i \in Given(t, slots, fields[t][i].key) =>
              /\ ObjectRead(t, i, slots) \in Objects
              /\ ObjectRead(t, i, slots).content = present_value(t, i, slots)
              /\ ObjectRead(t, i, slots).at.n # 0
<1> DEFINE pv == present_value(t, i, slots)
           key == fields[t][i].key
           n == Len(instances) + 1
<1>1. program \in Programs /\ classes[t] \in Models
  BY ReadyFacts
<1>2. key \in STRING
  <2>1. fields[t] \in Seq(PlanFields)
    BY <1>1, PlanFacts
  <2>2. fields[t][i] \in PlanFields
    BY <2>1, ElementOfSeq
  <2> QED BY <2>2 DEF PlanFields
<1>3. /\ i \in Given(t, slots, key) => pv \in Values
      /\ i \notin Given(t, slots, key) => pv = None
  BY PresentFacts
<1>4. n \in Nat /\ n # 0
  BY SequenceLength DEF BuildInv
<1> HIDE DEF pv, key, n
<1>5. pv # None <=> i \in Given(t, slots, key)
  BY <1>3, NoneAssumption
<1>6. pv \in Values =>
        /\ Object(pv, n, classes[t], key) \in Objects
        /\ Object(pv, n, classes[t], key).content = pv
        /\ Object(pv, n, classes[t], key).at.n # 0
  BY <1>1, <1>2, <1>4 DEF Object, Objects
<1> QED BY <1>2, <1>3, <1>5, <1>6 DEF pv, key, n, ObjectRead

(* The dict has the last value read for each key.                          *)
LEMMA DictFacts ==
  ASSUME BuildInv, pc = "ready", NEW t \in Types, classes[t] # None, NEW slots \in SlotsOf(t)
  PROVE  LET dict == DecodedDict(t, classes[t], slots) IN
         /\ DOMAIN dict = {fields[t][i].key : i \in {i \in DOMAIN fields[t] :
                                                       i \in Given(t, slots, fields[t][i].key)}}
         /\ \A name : \A i \in Given(t, slots, name) :
              (\A j \in Given(t, slots, name) : j <= i) => dict[name] = ObjectRead(t, i, slots)
<1> DEFINE n == Len(fields[t])
           key == [i \in 1 .. n |-> fields[t][i].key]
           given == [i \in 1 .. n |-> i \in Given(t, slots, fields[t][i].key)]
           value == [i \in 1 .. n |->
                       IF present_value(t, i, slots) = None THEN None ELSE ObjectRead(t, i, slots)]
           dict == DecodedDict(t, classes[t], slots)
           body(g) == [i \in 0 .. n |->
                         IF i = 0 THEN <<>>
                         ELSE IF present_value(t, i, slots) = None THEN g[i - 1]
                         ELSE set_item(g[i - 1], fields[t][i].key, ObjectRead(t, i, slots))]
           h == CHOOSE g : g = body(g)
<1>1. n \in Nat /\ DOMAIN fields[t] = 1 .. n
  <2>1. fields[t] \in Seq(PlanFields)
    BY ReadyFacts, PlanFacts
  <2> QED BY <2>1
<1>2. ASSUME NEW i \in 1 .. n
      PROVE  /\ fields[t][i].key \in STRING
             /\ present_value(t, i, slots) # None <=> i \in Given(t, slots, fields[t][i].key)
             /\ present_value(t, i, slots) # None => ObjectRead(t, i, slots) \in Objects
  BY <1>1, ReadFacts
<1>3. key \in [1 .. n -> STRING] /\ value \in [1 .. n -> Objects \cup {None}] /\ None \notin Objects
  BY <1>2, NoneAssumption
<1>4. ASSUME NEW i \in 1 .. n
      PROVE  /\ key[i] = fields[t][i].key
             /\ value[i] # None <=> present_value(t, i, slots) # None
             /\ value[i] # None => value[i] = ObjectRead(t, i, slots)
  BY <1>2, NoneAssumption
<1>5. dict = h[n]
  BY DEF DecodedDict, ObjectRead
<1> HIDE DEF n, key, value, dict
<1>6. ASSUME NEW g PROVE g = body(g) <=> Storing(g, n, key, value)
  <2>1. ASSUME Storing(g, n, key, value) PROVE g = body(g)
    <3>1. \A i \in 1 .. n :
            g[i] = IF present_value(t, i, slots) = None THEN g[i - 1]
                   ELSE set_item(g[i - 1], fields[t][i].key, ObjectRead(t, i, slots))
      BY <1>4, <2>1 DEF Storing
    <3>2. g = [i \in 0 .. n |-> g[i]] /\ g[0] = <<>>
      BY <2>1 DEF Storing
    <3>3. ASSUME NEW i \in 0 .. n PROVE g[i] = body(g)[i]
      <4>1. CASE i = 0
        BY <1>1, <3>2, <4>1
      <4>2. CASE i # 0
        <5>1. i \in 1 .. n
          BY <1>1, <4>2
        <5> QED BY <3>1, <4>2, <5>1
      <4> QED BY <4>1, <4>2
    <3> QED BY <3>2, <3>3
  <2>2. ASSUME g = body(g) PROVE Storing(g, n, key, value)
    <3>1. g = [i \in 0 .. n |-> g[i]]
      BY <2>2
    <3>2. g[0] = <<>>
      BY <1>1, <2>2
    <3>3. ASSUME NEW i \in 1 .. n
          PROVE  g[i] = IF value[i] = None THEN g[i - 1] ELSE set_item(g[i - 1], key[i], value[i])
      <4>1. g[i] = body(g)[i] /\ i \in 0 .. n /\ i # 0
        BY <1>1, <2>2
      <4>2. g[i] = IF present_value(t, i, slots) = None THEN g[i - 1]
                   ELSE set_item(g[i - 1], fields[t][i].key, ObjectRead(t, i, slots))
        BY <4>1
      <4> QED BY <1>4, <4>2
    <3> QED BY <3>1, <3>2, <3>3 DEF Storing
  <2> QED BY <2>1, <2>2
<1>7. Storing(h, n, key, value)
  <2>1. PICK f : Storing(f, n, key, value)
    BY <1>1, <1>3, StoringExists
  <2> HIDE DEF body
  <2>2. h = body(h)
    BY <1>6, <2>1
  <2> HIDE DEF h
  <2> QED BY <1>6, <2>2
<1>8. Stored(dict, key, value, n)
  <2> HIDE DEF h
  <2> QED BY <1>1, <1>5, <1>7, StoringStores
<1>9. DOMAIN dict = {fields[t][i].key : i \in {i \in 1 .. n : i \in Given(t, slots, fields[t][i].key)}}
  BY <1>2, <1>4, <1>8 DEF Stored
<1>10. ASSUME NEW name, NEW i \in Given(t, slots, name), \A j \in Given(t, slots, name) : j <= i
       PROVE  dict[name] = ObjectRead(t, i, slots)
  <2>1. i \in 1 .. n /\ fields[t][i].key = name
    BY <1>1 DEF Given
  <2>2. value[i] # None /\ value[i] = ObjectRead(t, i, slots) /\ key[i] = name
    BY <1>2, <1>4, <2>1
  <2>3. ASSUME NEW l \in i + 1 .. n, key[l] = key[i] PROVE value[l] = None
    <3>1. l \in 1 .. n /\ ~(l <= i)
      BY <1>1, <2>1
    <3>2. l \notin Given(t, slots, name)
      BY <1>10, <3>1
    <3> QED BY <1>2, <1>4, <2>2, <2>3, <3>1, <3>2
  <2> QED BY <1>8, <2>1, <2>2, <2>3 DEF Stored
<1> QED BY <1>1, <1>9, <1>10 DEF dict

-----------------------------------------------------------------------------
(* The field that counts for a name: the last of those that are there.     *)
LastGiven(t, slots, name) ==
  CHOOSE i \in Given(t, slots, name) : \A j \in Given(t, slots, name) : j <= i

LEMMA LastGivenFacts ==
  ASSUME program \in Programs, NEW t \in Types, NEW slots, NEW name, Given(t, slots, name) # {}
  PROVE  /\ LastGiven(t, slots, name) \in Given(t, slots, name)
         /\ \A j \in Given(t, slots, name) : j <= LastGiven(t, slots, name)
<1> DEFINE G == Given(t, slots, name)
           n == Len(fields[t])
<1>1. n \in Nat /\ G \subseteq 1 .. n
  <2>1. fields[t] \in Seq(PlanFields)
    BY PlanFacts
  <2> QED BY <2>1 DEF Given
<1> HIDE DEF G, n
<1>2. PICK i \in G : \A j \in G : j <= i
  BY <1>1, GreatestElement DEF G
<1> QED BY <1>2 DEF G, LastGiven

(* The instance that every path makes: for each field of the model, in     *)
(* their order, what was read last under its name or its default.          *)
Filled(t, slots, k) ==
  LET m == classes[t]
      name == model_fields[m][k].name
  IN  Entry(name, IF Given(t, slots, name) # {} THEN ObjectRead(t, LastGiven(t, slots, name), slots)
                  ELSE default_value(m, construct_info(m).defaults[k]))

FilledFields(t, slots) == [k \in DOMAIN model_fields[classes[t]] |-> Filled(t, slots, k)]

NamesRead(t, slots) ==
  {name \in {model_fields[classes[t]][k].name : k \in DOMAIN model_fields[classes[t]]} :
     Given(t, slots, name) # {}}

BuiltAs(t, slots) ==
  [class |-> classes[t], values |-> Present(FilledFields(t, slots)),
   fields_set |-> NamesRead(t, slots),
   extra |-> IF classes[t] \in program.extra THEN {} ELSE None]

(* What construct_info says of the fields.                                 *)
LEMMA InfoFacts ==
  ASSUME NEW m
  PROVE  LET info == construct_info(m) IN
         /\ DOMAIN info.defaults = DOMAIN model_fields[m]
         /\ Names(info) = [k \in DOMAIN model_fields[m] |-> model_fields[m][k].name]
         /\ \A k \in DOMAIN model_fields[m] : info.defaults[k].name = model_fields[m][k].name
BY DEF construct_info, Names

(* An item of the dict, or the default, is what the field has.             *)
LEMMA ItemFacts ==
  ASSUME BuildInv, pc = "ready", NEW t \in Types, classes[t] # None, NEW slots \in SlotsOf(t),
         NEW k \in DOMAIN model_fields[classes[t]], NEW dict,
         LET name == model_fields[classes[t]][k].name
             full == DecodedDict(t, classes[t], slots)
         IN  (name \in DOMAIN dict <=> name \in DOMAIN full) /\ dict[name] = full[name]
  PROVE  ItemOrDefault(classes[t], dict, construct_info(classes[t]).defaults[k])
           = Filled(t, slots, k)
<1> DEFINE name == model_fields[classes[t]][k].name
           full == DecodedDict(t, classes[t], slots)
           G == Given(t, slots, name)
           default == construct_info(classes[t]).defaults[k]
<1>1. default.name = name
  BY InfoFacts
<1>2. name \in DOMAIN full <=> G # {}
  <2>1. DOMAIN full = {fields[t][i].key : i \in {i \in DOMAIN fields[t] :
                                                  i \in Given(t, slots, fields[t][i].key)}}
    BY DictFacts
  <2>2. \A i \in G : i \in DOMAIN fields[t] /\ fields[t][i].key = name
    BY DEF Given
  <2> QED BY <2>1, <2>2
<1>3. ASSUME G # {} PROVE full[name] = ObjectRead(t, LastGiven(t, slots, name), slots)
  <2>1. /\ LastGiven(t, slots, name) \in G
        /\ \A j \in G : j <= LastGiven(t, slots, name)
    BY <1>3, ReadyFacts, LastGivenFacts
  <2> HIDE DEF name
  <2> QED BY <2>1, DictFacts
<1>4. ItemOrDefault(classes[t], dict, default) =
        Entry(name, IF name \in DOMAIN dict THEN dict[name] ELSE default_value(classes[t], default))
  BY <1>1 DEF ItemOrDefault
<1>5. Filled(t, slots, k) =
        Entry(name, IF G # {} THEN ObjectRead(t, LastGiven(t, slots, name), slots)
                    ELSE default_value(classes[t], default))
  BY DEF Filled
<1> HIDE DEF name, full, G, default
<1>6. (name \in DOMAIN dict <=> name \in DOMAIN full) /\ dict[name] = full[name]
  BY DEF name, full
<1>7. (IF name \in DOMAIN dict THEN dict[name] ELSE default_value(classes[t], default)) =
        (IF G # {} THEN ObjectRead(t, LastGiven(t, slots, name), slots)
                    ELSE default_value(classes[t], default))
  BY <1>2, <1>3, <1>6
<1>8. ItemOrDefault(classes[t], dict, default) = Filled(t, slots, k)
  BY <1>4, <1>5, <1>7
<1> QED BY <1>8 DEF default

(* The names in the dict that the model declares.                          *)
LEMMA DictNames ==
  ASSUME BuildInv, pc = "ready", NEW t \in Types, classes[t] # None, NEW slots \in SlotsOf(t)
  PROVE  DOMAIN DecodedDict(t, classes[t], slots)
           \cap {model_fields[classes[t]][k].name : k \in DOMAIN model_fields[classes[t]]}
         = NamesRead(t, slots)
<1> DEFINE full == DecodedDict(t, classes[t], slots)
<1>1. \A name : name \in DOMAIN full <=> Given(t, slots, name) # {}
  <2>1. DOMAIN full = {fields[t][i].key : i \in {i \in DOMAIN fields[t] :
                                                  i \in Given(t, slots, fields[t][i].key)}}
    BY DictFacts
  <2>2. \A name : \A i \in Given(t, slots, name) : i \in DOMAIN fields[t] /\ fields[t][i].key = name
    BY DEF Given
  <2> HIDE DEF full
  <2> QED BY <2>1, <2>2
<1> HIDE DEF full
<1>2. DOMAIN full \cap {model_fields[classes[t]][k].name : k \in DOMAIN model_fields[classes[t]]}
        = NamesRead(t, slots)
  BY <1>1 DEF NamesRead
<1> QED BY <1>2 DEF full

(* Two conditions that construct_info and Construct evaluate.              *)
LEMMA InfoConditions ==
  ASSUME NEW t, NEW m
  PROVE  /\ Construct(t, m).same_order = (Names(construct_info(m)) = Keys(t))
         /\ Construct(t, m).extra_allow = (m \in program.extra)
<1>1. Construct(t, m).same_order = (Names(construct_info(m)) = Keys(t))
  BY Zenon DEF Construct
<1>2. Construct(t, m).extra_allow = construct_info(m).extra_allow
  BY Zenon DEF Construct
<1>3. construct_info(m).extra_allow = (m \in program.extra)
  BY Zenon DEF construct_info
<1> QED BY <1>1, <1>2, <1>3, Zenon

(* What the codec knows of a bound message.                                *)
LEMMA BoundInfo ==
  ASSUME BuildInv, pc = "ready", NEW t \in Types, classes[t] # None
  PROVE  LET info == construct[t] IN
         /\ info.class = classes[t]
         /\ info.defaults = construct_info(classes[t]).defaults
         /\ info.in_model = {i \in DOMAIN fields[t] : \E k \in DOMAIN model_fields[classes[t]] :
                                fields[t][i].key = model_fields[classes[t]][k].name}
         /\ info.same_order =>
              /\ DOMAIN fields[t] = DOMAIN model_fields[classes[t]]
              /\ \A i \in DOMAIN fields[t] : model_fields[classes[t]][i].name = fields[t][i].key
<1> DEFINE m == classes[t]
           info == construct_info(m)
           names == [k \in DOMAIN model_fields[m] |-> model_fields[m][k].name]
<1>1. construct[t] = Construct(t, m)
  BY InfoFollows
<1>2. Names(info) = names
  BY InfoFacts
<1> HIDE DEF info
<1>3. ToSet(Names(info)) = {model_fields[m][k].name : k \in DOMAIN model_fields[m]}
  BY <1>2 DEF ToSet
<1>4. /\ construct[t].class = m /\ construct[t].defaults = info.defaults
      /\ construct[t].in_model = {i \in DOMAIN fields[t] : fields[t][i].key \in ToSet(Names(info))}
  BY <1>1 DEF Construct, info
<1>5. construct[t].same_order = (Names(info) = Keys(t))
  <2>1. Construct(t, m).same_order = (Names(construct_info(m)) = Keys(t))
    BY InfoConditions, Zenon
  <2> HIDE DEF m
  <2> QED BY <1>1, <2>1, Zenon DEF info
<1>6. ASSUME Names(info) = Keys(t)
      PROVE  /\ DOMAIN fields[t] = DOMAIN model_fields[m]
             /\ \A i \in DOMAIN fields[t] : model_fields[m][i].name = fields[t][i].key
  <2>1. names = [i \in DOMAIN fields[t] |-> fields[t][i].key]
    BY <1>2, <1>6 DEF Keys
  <2>2. DOMAIN names = DOMAIN model_fields[m] /\ \A i \in DOMAIN names : names[i] = model_fields[m][i].name
    OBVIOUS
  <2> HIDE DEF names
  <2>3. DOMAIN names = DOMAIN fields[t] /\ \A i \in DOMAIN names : names[i] = fields[t][i].key
    BY <2>1
  <2> QED BY <2>2, <2>3
<1>7. construct[t].in_model = {i \in DOMAIN fields[t] : \E k \in DOMAIN model_fields[m] :
                                 fields[t][i].key = model_fields[m][k].name}
  BY <1>3, <1>4
<1>8. construct[t].same_order =>
        /\ DOMAIN fields[t] = DOMAIN model_fields[m]
        /\ \A i \in DOMAIN fields[t] : model_fields[m][i].name = fields[t][i].key
  BY <1>5, <1>6, Zenon
<1> QED BY <1>4, <1>7, <1>8 DEF info

(* The extra values of a new instance.                                     *)
LEMMA ExtraFacts ==
  ASSUME BuildInv, pc = "ready", NEW t \in Types, classes[t] # None, NEW values, NEW names
  PROVE  new_instance(construct[t], values, names) =
           [class |-> classes[t], values |-> values, fields_set |-> names,
            extra |-> IF classes[t] \in program.extra THEN {} ELSE None]
<1>1. construct[t] = Construct(t, classes[t])
  BY InfoFollows
<1>2. construct[t].extra_allow = (classes[t] \in program.extra)
  <2>1. Construct(t, classes[t]).extra_allow = (classes[t] \in program.extra)
    BY InfoConditions, Zenon
  <2> QED BY <1>1, <2>1, Zenon
<1>3. (IF construct[t].extra_allow THEN {} ELSE None) = IF classes[t] \in program.extra THEN {} ELSE None
  BY <1>2, Zenon
<1>4. construct[t].class = classes[t]
  BY BoundInfo
<1> QED BY <1>3, <1>4, Zenon DEF new_instance

(* The first path: as many fields as the model has, in the same order.     *)
LEMMA InOrder ==
  ASSUME BuildInv, pc = "ready", NEW t \in Types, classes[t] # None, NEW slots \in SlotsOf(t),
         construct[t].same_order
  PROVE  build_in_order(t, construct[t], slots) = BuiltAs(t, slots)
<1> DEFINE m == classes[t]
           info == construct[t]
           D == DOMAIN fields[t]
           name(i) == model_fields[m][i].name
           pv(i) == present_value(t, i, slots)
           entries == [i \in D |-> Entry(info.defaults[i].name,
                                        ValueOrDefault(t, i, slots, info.class, info.defaults[i]))]
           names == {info.defaults[i].name : i \in {i \in D : pv(i) # None}}
<1>1. program \in Programs /\ m \in Models
  BY ReadyFacts
<1>2. /\ info.class = m /\ info.defaults = construct_info(m).defaults
      /\ D = DOMAIN model_fields[m] /\ \A i \in D : name(i) = fields[t][i].key
  BY BoundInfo
<1>3. \A i, j \in D : name(i) = name(j) => i = j
  BY <1>1, <1>2, ModelFacts
<1>4. ASSUME NEW i \in D
      PROVE  /\ info.defaults[i].name = name(i)
             /\ pv(i) # None <=> Given(t, slots, name(i)) # {}
             /\ pv(i) # None => LastGiven(t, slots, name(i)) = i
  <2>1. info.defaults[i].name = name(i)
    BY <1>2, InfoFacts
  <2>2. \A j \in Given(t, slots, name(i)) : j \in D /\ fields[t][j].key = name(i)
    BY DEF Given
  <2>3. Given(t, slots, name(i)) \subseteq {i}
    BY <1>2, <1>3, <2>2
  <2>4. pv(i) # None <=> i \in Given(t, slots, name(i))
    BY <1>2, ReadFacts
  <2> HIDE DEF name
  <2>5. Given(t, slots, name(i)) # {} => LastGiven(t, slots, name(i)) \in Given(t, slots, name(i))
    BY <1>1, LastGivenFacts
  <2> HIDE DEF pv
  <2> QED BY <2>1, <2>3, <2>4, <2>5
<1>5. entries = FilledFields(t, slots)
  <2>1. ASSUME NEW i \in D
        PROVE  Entry(info.defaults[i].name, ValueOrDefault(t, i, slots, info.class, info.defaults[i]))
                 = Filled(t, slots, i)
    <3>1. ValueOrDefault(t, i, slots, info.class, info.defaults[i]) =
            IF pv(i) # None THEN ObjectRead(t, i, slots) ELSE default_value(m, info.defaults[i])
      <4>1. info.defaults[i].name = fields[t][i].key /\ info.class = m
        BY <1>2, <1>4
      <4> QED BY <4>1 DEF ValueOrDefault, ObjectRead
    <3>2. Filled(t, slots, i) =
            Entry(name(i), IF Given(t, slots, name(i)) # {}
                           THEN ObjectRead(t, LastGiven(t, slots, name(i)), slots)
                           ELSE default_value(m, info.defaults[i]))
      BY <1>2 DEF Filled
    <3> HIDE DEF name, pv, info, m
    <3> QED BY <1>4, <3>1, <3>2
  <2> QED BY <1>2, <2>1 DEF FilledFields
<1>6. names = NamesRead(t, slots)
  <2> HIDE DEF info, pv
  <2> QED BY <1>2, <1>4 DEF NamesRead
<1>7. build_in_order(t, info, slots) = new_instance(info, Present(entries), names)
  BY DEF build_in_order
<1> HIDE DEF entries, names, info, m
<1>8. build_in_order(t, info, slots) = new_instance(info, Present(FilledFields(t, slots)), NamesRead(t, slots))
  BY <1>5, <1>6, <1>7
<1> QED BY <1>8, ExtraFacts DEF BuiltAs, info, m

(* The second: by name, the model's fields in its own order.               *)
LEMMA Reordered ==
  ASSUME BuildInv, pc = "ready", NEW t \in Types, classes[t] # None, NEW slots \in SlotsOf(t),
         construct[t].fast
  PROVE  build_reordered(t, construct[t], DecodedDict(t, classes[t], slots)) = BuiltAs(t, slots)
<1> DEFINE m == classes[t]
           info == construct[t]
           full == DecodedDict(t, m, slots)
           entries == [k \in DOMAIN info.defaults |->
                         ItemOrDefault(info.class, full, info.defaults[k])]
           names == {info.defaults[k].name : k \in DOMAIN info.defaults} \cap DOMAIN full
<1>1. info.class = m /\ info.defaults = construct_info(m).defaults
  BY BoundInfo
<1>2. DOMAIN info.defaults = DOMAIN model_fields[m]
  BY <1>1, InfoFacts
<1>3. entries = FilledFields(t, slots)
  <2>1. ASSUME NEW k \in DOMAIN model_fields[m]
        PROVE  ItemOrDefault(info.class, full, info.defaults[k]) = Filled(t, slots, k)
    BY <1>1, ItemFacts
  <2> QED BY <1>2, <2>1 DEF FilledFields
<1>4. names = NamesRead(t, slots)
  <2>1. {info.defaults[k].name : k \in DOMAIN info.defaults} =
          {model_fields[m][k].name : k \in DOMAIN model_fields[m]}
    BY <1>1, InfoFacts
  <2> QED BY <2>1, DictNames
<1>5. build_reordered(t, info, full) = new_instance(info, Present(entries), names)
  BY DEF build_reordered
<1> HIDE DEF entries, names, info, m, full
<1>6. build_reordered(t, info, full) = new_instance(info, Present(FilledFields(t, slots)), NamesRead(t, slots))
  BY <1>3, <1>4, <1>5
<1> QED BY <1>6, ExtraFacts DEF BuiltAs, info, m, full

(* The third: what the model does not declare is taken out, and pydantic's *)
(* own model_construct is given the rest.                                  *)
LEMMA Constructed ==
  ASSUME BuildInv, pc = "ready", NEW t \in Types, classes[t] # None, NEW slots \in SlotsOf(t),
         ~construct[t].fast
  PROVE  build_reordered(t, construct[t], DecodedDict(t, classes[t], slots)) = BuiltAs(t, slots)
<1> DEFINE m == classes[t]
           info == construct_info(m)
           full == DecodedDict(t, m, slots)
           in_model == construct[t].in_model
           undeclared == {fields[t][i].key : i \in DOMAIN fields[t] \ in_model}
           dict == [key \in DOMAIN full \ undeclared |-> full[key]]
           declared == {model_fields[m][k].name : k \in DOMAIN model_fields[m]}
           entries == [k \in DOMAIN info.defaults |-> ItemOrDefault(m, dict, info.defaults[k])]
<1>1. /\ construct[t].class = m
      /\ in_model = {i \in DOMAIN fields[t] : fields[t][i].key \in declared}
  BY BoundInfo
<1>2. DOMAIN info.defaults = DOMAIN model_fields[m] /\ ToSet(Names(info)) = declared
  BY InfoFacts DEF ToSet
<1>3. \A name \in declared : name \notin undeclared
  <2> HIDE DEF in_model, declared
  <2> QED BY <1>1
<1>4. DOMAIN dict \subseteq declared
  <2> DEFINE G == {i \in DOMAIN fields[t] : i \in Given(t, slots, fields[t][i].key)}
  <2>1. DOMAIN full = {fields[t][i].key : i \in G} /\ G \subseteq DOMAIN fields[t]
    BY DictFacts
  <2> HIDE DEF G
  <2> HIDE DEF full, in_model, declared
  <2> QED BY <1>1, <2>1
<1>5. entries = FilledFields(t, slots)
  <2>1. ASSUME NEW k \in DOMAIN model_fields[m]
        PROVE  ItemOrDefault(m, dict, info.defaults[k]) = Filled(t, slots, k)
    <3> DEFINE name == model_fields[m][k].name
    <3>1. name \in declared
      OBVIOUS
    <3> HIDE DEF name, undeclared, full
    <3>2. (name \in DOMAIN dict <=> name \in DOMAIN full)
      BY <1>3, <3>1
    <3>3. CASE name \in DOMAIN full
      <4>1. dict[name] = full[name]
        BY <3>2, <3>3
      <4> HIDE DEF dict
      <4> QED BY <3>2, <4>1, ItemFacts DEF name, full
    <3>4. CASE name \notin DOMAIN full
      <4>1. ItemOrDefault(m, dict, info.defaults[k]) = ItemOrDefault(m, full, info.defaults[k])
        <5>1. info.defaults[k].name = name
          BY InfoFacts DEF name
        <5> HIDE DEF dict, info, m
        <5> QED BY <3>2, <3>4, <5>1 DEF ItemOrDefault
      <4>2. ItemOrDefault(m, full, info.defaults[k]) = Filled(t, slots, k)
        BY ItemFacts DEF full
      <4> QED BY <4>1, <4>2
    <3> QED BY <3>3, <3>4
  <2> QED BY <1>2, <2>1 DEF FilledFields
<1>6. DOMAIN dict \cap declared = NamesRead(t, slots)
  <2>1. DOMAIN full \cap declared = NamesRead(t, slots)
    BY DictNames
  <2> HIDE DEF full, undeclared, declared
  <2> QED BY <1>3, <2>1
<1>7. info.extra_allow = (m \in program.extra)
  BY Zenon DEF construct_info
<1>8. (IF info.extra_allow THEN DOMAIN dict \ declared ELSE None) =
        IF m \in program.extra THEN {} ELSE None
  <2>1. DOMAIN dict \ declared = {}
    <3> HIDE DEF dict, declared
    <3> QED BY <1>4
  <2> HIDE DEF dict, declared, info
  <2> QED BY <1>7, <2>1, Zenon
<1>9. build_reordered(t, construct[t], full) = model_construct(m, dict)
  <2> HIDE DEF full
  <2>1. build_reordered(t, construct[t], full) = model_construct(construct[t].class, dict)
    BY DEF build_reordered
  <2> HIDE DEF m
  <2> QED BY <1>1, <2>1
<1>10. model_construct(m, dict) =
         [class |-> m, values |-> Present(entries), fields_set |-> DOMAIN dict \cap ToSet(Names(info)),
          extra |-> IF info.extra_allow THEN DOMAIN dict \ ToSet(Names(info)) ELSE None]
  <2> HIDE DEF dict
  <2> QED BY Zenon DEF model_construct
<1> HIDE DEF entries, dict, declared, info, full
<1>11. model_construct(m, dict) =
         [class |-> m, values |-> Present(FilledFields(t, slots)), fields_set |-> NamesRead(t, slots),
          extra |-> IF m \in program.extra THEN {} ELSE None]
  BY <1>2, <1>5, <1>6, <1>8, <1>10
<1> QED BY <1>9, <1>11 DEF BuiltAs, full

(* Whatever path a message takes, and in whatever order the plan and the   *)
(* model have the fields, the instance is the same.                        *)
LEMMA PathsAgree ==
  ASSUME BuildInv, pc = "ready", NEW t \in Types, classes[t] # None, NEW slots \in SlotsOf(t)
  PROVE  Build(t, slots) = BuiltAs(t, slots)
<1>1. construct[t].class = classes[t]
  BY BoundInfo
<1>2. CASE construct[t].fast /\ construct[t].same_order
  BY <1>2, InOrder DEF Build
<1>3. CASE ~(construct[t].fast /\ construct[t].same_order)
  <2>1. Build(t, slots) = build_reordered(t, construct[t], DecodedDict(t, classes[t], slots))
    BY <1>1, <1>3 DEF Build
  <2>2. CASE construct[t].fast
    BY <2>1, <2>2, Reordered
  <2>3. CASE ~construct[t].fast
    BY <2>1, <2>3, Constructed
  <2> QED BY <2>2, <2>3
<1> QED BY <1>2, <1>3

-----------------------------------------------------------------------------
(* The entries that are present, and where they come from.                 *)
LEMMA PresentEntries ==
  ASSUME NEW n \in Nat, NEW s, DOMAIN s = 1 .. n
  PROVE  LET I == {k \in DOMAIN s : s[k].value # None} IN
         /\ Present(s) = [k \in 1 .. Cardinality(I) |-> s[Nth(I, k)]]
         /\ \A k \in 1 .. Cardinality(I) : Nth(I, k) \in 1 .. n /\ s[Nth(I, k)].value # None
<1> DEFINE I == {k \in DOMAIN s : s[k].value # None}
<1>1. I \subseteq Nat /\ I \subseteq 1 .. n /\ \A i \in I : s[i].value # None
  OBVIOUS
<1> HIDE DEF I
<1>2. IsFiniteSet(I)
  <2>1. IsFiniteSet(1 .. n)
    BY FS_Interval
  <2> QED BY <1>1, <2>1, FS_Subset
<1>3. \A k \in 1 .. Cardinality(I) : Nth(I, k) \in I
  BY <1>1, <1>2, NthProperties
<1>4. Present(s) = [k \in 1 .. Cardinality(I) |-> s[Nth(I, k)]]
  BY DEF Present, Subsequence, I
<1>5. \A k \in 1 .. Cardinality(I) : Nth(I, k) \in 1 .. n /\ s[Nth(I, k)].value # None
  BY <1>1, <1>3
<1> QED BY <1>4, <1>5 DEF I

(* Choosing entries by what they hold and looking at their contents can be *)
(* done in either order.                                                   *)
LEMMA PresentMapped ==
  ASSUME NEW n \in Nat, NEW s, NEW e, DOMAIN s = 1 .. n, DOMAIN e = 1 .. n,
         \A k \in 1 .. n : s[k].value = None <=> e[k].value = None,
         \A k \in 1 .. n : s[k].value # None => e[k] = Entry(s[k].key, s[k].value.content)
  PROVE  [k \in DOMAIN Present(s) |-> Entry(Present(s)[k].key, Present(s)[k].value.content)]
           = Present(e)
<1> DEFINE I == {k \in DOMAIN s : s[k].value # None}
           J == {k \in DOMAIN e : e[k].value # None}
           c == Cardinality(I)
<1>1. I = J
  OBVIOUS
<1>2. /\ Present(s) = [k \in 1 .. c |-> s[Nth(I, k)]]
      /\ \A k \in 1 .. c : Nth(I, k) \in 1 .. n /\ s[Nth(I, k)].value # None
  BY PresentEntries
<1>3. Present(e) = [k \in 1 .. c |-> e[Nth(I, k)]]
  <2>1. Present(e) = Subsequence(e, J)
    BY DEF Present
  <2> HIDE DEF I, J
  <2> QED BY <1>1, <2>1 DEF Subsequence
<1> HIDE DEF c, I
<1>4. DOMAIN Present(s) = 1 .. c
  BY <1>2
<1>5. ASSUME NEW k \in 1 .. c
      PROVE  Present(e)[k] = Entry(Present(s)[k].key, Present(s)[k].value.content)
  <2>1. Present(s)[k] = s[Nth(I, k)] /\ Present(e)[k] = e[Nth(I, k)]
    BY <1>2, <1>3
  <2> QED BY <1>2, <2>1
<1> QED BY <1>3, <1>4, <1>5

(* One field of the instance: its own object, or a default that nobody can *)
(* change; and the content that pydantic would give it.                    *)
LEMMA FilledFacts ==
  ASSUME BuildInv, pc = "ready", NEW t \in Types, classes[t] # None, NEW slots \in SlotsOf(t),
         NEW k \in DOMAIN model_fields[classes[t]]
  PROVE  LET m == classes[t]
             filled == Filled(t, slots, k)
             expected == Expected(t, slots, m, k)
         IN  /\ filled.value # None /\ filled.value.at.n = 0 =>
                  filled.value.content = Default /\ SharedDefault(m, filled.key)
             /\ OneClassPerType =>
                  /\ filled.value = None <=> expected.value = None
                  /\ filled.value # None => expected = Entry(filled.key, filled.value.content)
<1> DEFINE m == classes[t]
           name == model_fields[m][k].name
           declared == model_fields[m][k].default
           G == Given(t, slots, name)
           last == LastGiven(t, slots, name)
           filled == Filled(t, slots, k)
           expected == Expected(t, slots, m, k)
           default == construct_info(m).defaults[k]
           value == default_value(m, default)
           target == _target(model_fields[m][k].annotation)
           right == /\ filled.value # None /\ filled.value.at.n = 0 =>
                         filled.value.content = Default /\ SharedDefault(m, filled.key)
                    /\ OneClassPerType =>
                         /\ filled.value = None <=> expected.value = None
                         /\ filled.value # None => expected = Entry(filled.key, filled.value.content)
<1>1. program \in Programs /\ m \in Models
  BY ReadyFacts
<1>2. filled = Entry(name, IF G # {} THEN ObjectRead(t, last, slots) ELSE value)
  BY DEF Filled
<1>3. None \notin Values /\ None \notin Objects /\ Default # None
  <2>1. Default \in Values
    BY DEF Default, Value, Values
  <2> QED BY <2>1, NoneAssumption
<1>4. ASSUME G # {} PROVE right
  <2>1. last \in G
    BY <1>1, <1>4, LastGivenFacts
  <2>2. last \in DOMAIN fields[t] /\ fields[t][last].key = name
    BY <2>1 DEF Given
  <2>3. /\ ObjectRead(t, last, slots) \in Objects
        /\ ObjectRead(t, last, slots).content = present_value(t, last, slots)
        /\ ObjectRead(t, last, slots).at.n # 0
    BY <2>1, <2>2, ReadFacts
  <2>4. /\ present_value(t, last, slots) \in Values
        /\ OneClassPerType =>
             present_value(t, last, slots) = Converted(t, last, slots, Target(m, name))
    BY <2>1, <2>2, PresentFacts
  <2>5. Target(m, name) = target
    BY <1>1, ModelFacts
  <2>6. expected = Entry(name, Converted(t, last, slots, target))
    BY <1>4 DEF Expected, LastGiven
  <2>7. filled = Entry(name, ObjectRead(t, last, slots))
    BY <1>2, <1>4
  <2> DEFINE object == ObjectRead(t, last, slots)
  <2>8. filled.value = object /\ filled.key = name
    BY <2>7 DEF Entry
  <2>9. object # None /\ object.at.n # 0
    BY <1>3, <2>3
  <2>10. OneClassPerType => object.content # None /\ expected = Entry(name, object.content)
    <3> HIDE DEF last, m, name, target, expected
    <3> QED BY <1>3, <2>3, <2>4, <2>5, <2>6
  <2>11. \A x, y : Entry(x, y).value = y
    BY DEF Entry
  <2> HIDE DEF last, m, name, target, filled, expected, G, object
  <2>12. OneClassPerType => expected.value # None
    BY <2>10, <2>11
  <2> QED BY <2>8, <2>9, <2>10, <2>12
<1>5. ASSUME G = {} PROVE right
  <2>1. /\ declared.value = "undefined" => value = None
        /\ declared.value # "undefined" =>
             /\ value \in Objects /\ value.content = Default
             /\ value.at.n = 0 => DefaultKind(declared) = "shared"
    <3>1. Len(instances) \in Nat /\ \A at \in touched : at.n # 0
      BY SequenceLength DEF BuildInv
    <3> QED BY <1>1, <3>1, DefaultFacts
  <2>2. filled = Entry(name, value)
    BY <1>2, <1>5
  <2>3. expected = Entry(name, IF declared.value = "undefined" THEN None ELSE Default)
    BY <1>5 DEF Expected
  <2>4. DefaultKind(declared) = "shared" => SharedDefault(m, name)
    BY DEF SharedDefault
  <2>5. filled.value = value /\ filled.key = name
    BY <2>2 DEF Entry
  <2>6. expected.value = IF declared.value = "undefined" THEN None ELSE Default
    BY <2>3 DEF Entry
  <2> HIDE DEF value, declared, m, name, filled, expected, G
  <2> QED BY <1>3, <2>1, <2>3, <2>4, <2>5, <2>6
<1>6. right
  <2> HIDE DEF right
  <2> QED BY <1>4, <1>5
<1> QED BY <1>6

(* The instance that decode_message returns.                               *)
LEMMA NewInstance ==
  ASSUME BuildInv, pc = "ready", NEW t \in Types, classes[t] # None, NEW slots \in SlotsOf(t)
  PROVE  LET instance == [type |-> t, slots |-> slots, built |-> Build(t, slots)]
         IN  /\ instance.built.class = classes[t] /\ instance.type = t
             /\ OwnObjects(instance.built)
             /\ OneClassPerType => BuiltRight(instance)
<1> DEFINE m == classes[t]
           n == Len(model_fields[m])
           s == FilledFields(t, slots)
           e == [k \in DOMAIN model_fields[m] |-> Expected(t, slots, m, k)]
           built == Build(t, slots)
           instance == [type |-> t, slots |-> slots, built |-> built]
<1>1. m \in Models /\ n \in Nat /\ DOMAIN model_fields[m] = 1 .. n
  BY ReadyFacts, ModelFacts
<1>2. built = BuiltAs(t, slots)
  BY PathsAgree
<1>3. DOMAIN s = 1 .. n /\ DOMAIN e = 1 .. n /\ \A k \in 1 .. n : e[k] = Expected(t, slots, m, k)
  BY <1>1 DEF FilledFields
<1>4. \A k \in 1 .. n : s[k] = Filled(t, slots, k)
  BY <1>1 DEF FilledFields
<1>5. /\ built.class = m /\ built.values = Present(s) /\ built.fields_set = NamesRead(t, slots)
      /\ built.extra = IF m \in program.extra THEN {} ELSE None
  BY <1>2 DEF BuiltAs
<1> HIDE DEF s, e, n, built
<1>6. \A k \in DOMAIN Present(s) : \E i \in 1 .. n : Present(s)[k] = s[i] /\ s[i].value # None
  <2> DEFINE I == {k \in DOMAIN s : s[k].value # None}
             c == Cardinality(I)
  <2>1. /\ Present(s) = [k \in 1 .. c |-> s[Nth(I, k)]]
        /\ \A k \in 1 .. c : Nth(I, k) \in 1 .. n /\ s[Nth(I, k)].value # None
    <3>1. n \in Nat /\ DOMAIN s = 1 .. n
      BY <1>1, <1>3
    <3> QED BY <3>1, PresentEntries, Zenon
  <2> HIDE DEF c, I
  <2>2. ASSUME NEW k \in 1 .. c
        PROVE  \E i \in 1 .. n : Present(s)[k] = s[i] /\ s[i].value # None
    <3>1. Present(s)[k] = s[Nth(I, k)]
      BY <2>1
    <3> QED BY <2>1, <3>1
  <2>3. DOMAIN Present(s) = 1 .. c
    BY <2>1
  <2> QED BY <2>2, <2>3
<1>7. OwnObjects(built)
  <2> SUFFICES ASSUME NEW k \in DOMAIN Present(s), Present(s)[k].value.at.n = 0
               PROVE  /\ Present(s)[k].value.content = Default
                      /\ SharedDefault(m, Present(s)[k].key)
    BY <1>1, <1>5 DEF OwnObjects
  <2>1. PICK i \in 1 .. n : Present(s)[k] = Filled(t, slots, i) /\ Filled(t, slots, i).value # None
    BY <1>4, <1>6
  <2> QED BY <1>1, <2>1, FilledFacts
<1>8. ASSUME OneClassPerType PROVE BuiltRight(instance)
  <2>1. \A k \in 1 .. n : /\ s[k].value = None <=> e[k].value = None
                          /\ s[k].value # None => e[k] = Entry(s[k].key, s[k].value.content)
    BY <1>1, <1>3, <1>4, <1>8, FilledFacts
  <2>2. [k \in DOMAIN Present(s) |-> Entry(Present(s)[k].key, Present(s)[k].value.content)] = Present(e)
    BY <1>1, <1>3, <2>1, PresentMapped
  <2>3. /\ instance.type = t /\ instance.slots = slots /\ instance.built = built
    OBVIOUS
  <2> HIDE DEF instance
  <2> QED BY <1>5, <2>2, <2>3 DEF BuiltRight, NamesRead, e
<1> QED BY <1>5, <1>7, <1>8 DEF built

-----------------------------------------------------------------------------
(* What is asked of an instance depends on the program and the classes.    *)
LEMMA InstancesSame ==
  ASSUME program' = program
  PROVE  /\ \A built : OwnObjects(built)' = OwnObjects(built)
         /\ OneClassPerType' = OneClassPerType
         /\ \A instance : BuiltRight(instance)' = BuiltRight(instance)
<1>1. \A m, key : SharedDefault(m, key)' = SharedDefault(m, key)
  BY DEF SharedDefault, model_fields
<1>2. \A built : OwnObjects(built)' = OwnObjects(built)
  BY <1>1 DEF OwnObjects
<1>3. OneClassPerType' = OneClassPerType
  BY SuitsSame DEF OneClassPerType
<1>4. \A t, slots, name : Given(t, slots, name)' = Given(t, slots, name)
  BY DEF Given, fields
<1>5. \A t, i, slots, target : Converted(t, i, slots, target)' = Converted(t, i, slots, target)
  BY DEF Converted, NumbersOf, fields
<1>6. \A t, slots, m, k : Expected(t, slots, m, k)' = Expected(t, slots, m, k)
  BY SMTT(20), ZenonT(20) DEF Expected, Given, Converted, NumbersOf, fields, model_fields
<1>7. ASSUME NEW instance PROVE BuiltRight(instance)' = BuiltRight(instance)
  <2> DEFINE t == instance.type
             slots == instance.slots
             m == instance.built.class
             expected == [k \in DOMAIN model_fields[m] |-> Expected(t, slots, m, k)]
             declared == {model_fields[m][k].name : k \in DOMAIN model_fields[m]}
             names == {name \in declared : Given(t, slots, name) # {}}
  <2>1. expected' = expected
    BY <1>6 DEF model_fields
  <2>2. declared' = declared
    BY DEF model_fields
  <2>3. names' = names
    <3> HIDE DEF declared
    <3> QED BY <1>4, <2>2
  <2> DEFINE right ==
               /\ [k \in DOMAIN instance.built.values |->
                     Entry(instance.built.values[k].key, instance.built.values[k].value.content)]
                  = Present(expected)
               /\ instance.built.fields_set = names
               /\ instance.built.extra = IF m \in program.extra THEN {} ELSE None
  <2>4. BuiltRight(instance) = right /\ BuiltRight(instance)' = right'
    BY Zenon DEF BuiltRight
  <2> HIDE DEF expected, names
  <2>5. Present(expected)' = Present(expected)
    BY <2>1 DEF Present, Subsequence
  <2>6. right' = right
    BY <2>1, <2>3, <2>5
  <2> HIDE DEF right
  <2> QED BY <2>4, <2>6, Zenon
<1> QED BY <1>2, <1>3, <1>7

(* So does what construct has for them.                                    *)
LEMMA ConstructSame ==
  ASSUME program' = program
  PROVE  \A t, m : Construct(t, m)' = Construct(t, m)
BY DEF Construct, construct_info, Keys, fields, model_fields

(* A caller can change no default that instances share.                    *)
LEMMA ChangeKeepsDefaults ==
  ASSUME BuildInv, Change
  PROVE  \A at \in touched' : at.n # 0
<1>1. PICK n \in DOMAIN instances : \E k \in DOMAIN instances[n].built.values :
        LET entry == instances[n].built.values[k] IN
        Mutable(instances[n].built.class, entry) /\ touched' = touched \cup {entry.value.at}
  BY DEF Change
<1> DEFINE built == instances[n].built
           m == built.class
<1>2. PICK k \in DOMAIN built.values :
        Mutable(m, built.values[k]) /\ touched' = touched \cup {built.values[k].value.at}
  BY <1>1
<1> DEFINE entry == built.values[k]
<1>3. OwnObjects(built) /\ program \in Programs
  BY DEF BuildInv, BindInv, BindTypes
<1>4. m \in Models /\ (entry.value.at.n = 0 => entry.value.content = Default /\ SharedDefault(m, entry.key))
  BY <1>3 DEF OwnObjects
<1> HIDE DEF built, m, entry
<1>5. ASSUME entry.value.at.n = 0 PROVE FALSE
  <2>1. PICK j \in DOMAIN model_fields[m] :
          model_fields[m][j].name = entry.key /\ DefaultKind(model_fields[m][j].default) = "shared"
    BY <1>4, <1>5 DEF SharedDefault
  <2>2. _immutable(model_fields[m][j].default)
    BY <2>1 DEF DefaultKind
  <2>3. entry.value.content = Default /\ Default # EmptyContainer
    BY <1>4, <1>5 DEF Default, EmptyContainer, Value
  <2>4. PICK i \in DOMAIN model_fields[m] :
          LET default == model_fields[m][i].default IN
          /\ model_fields[m][i].name = entry.key
          /\ \/ default.value # "scalar"
             \/ \E l \in DOMAIN default.shape : default.shape[l] \in {"list", "dict", "set"}
    BY <1>2, <2>3 DEF Mutable, entry
  <2>5. i = j
    BY <1>3, <1>4, <2>1, <2>4, ModelFacts
  <2> QED BY <2>2, <2>4, <2>5 DEF _immutable
<1>6. \A at \in touched : at.n # 0
  BY DEF BuildInv
<1>7. touched' = touched \cup {entry.value.at}
  BY <1>2 DEF entry
<1> QED BY <1>5, <1>6, <1>7

LEMMA BuildInit == ASSUME Init PROVE BuildInv
<1>1. BindInv /\ SuitInv
  BY BindInit, SuitInit
<1>2. /\ construct = [t \in Types |-> None] /\ pc = "bind" /\ instances = <<>> /\ touched = {}
  BY DEF Init
<1>3. IsSequence(instances)
  <2>1. instances \in Seq({})
    BY <1>2
  <2> QED BY <2>1, SequenceOf
<1>4. DOMAIN instances = {}
  BY <1>2
<1>5. InfoInv
  BY <1>2 DEF InfoInv
<1> QED BY <1>1, <1>2, <1>3, <1>4, <1>5 DEF BuildInv

(* What the codec knows changes when its state does.                       *)
LEMMA InfoStays ==
  ASSUME InfoInv, UNCHANGED <<program, pc, classes, construct>>
  PROVE  InfoInv'
<1>1. \A t, m : Construct(t, m)' = Construct(t, m)
  BY ConstructSame
<1> QED BY <1>1 DEF InfoInv

(* A step before the codec is ready.                                       *)
LEMMA StillBuilding ==
  ASSUME BuildInv, pc # "ready", pc' # "ready", BindInv', SuitInv',
         UNCHANGED <<construct, instances, touched>>
  PROVE  BuildInv'
<1>1. \A t \in Types : construct[t] = None
  BY InfoFollows
<1>2. InfoInv'
  <2>1. DOMAIN construct' = Types /\ \A t \in Types : construct'[t] = None
    BY <1>1 DEF BuildInv, InfoInv
  <2> QED BY <2>1 DEF InfoInv
<1>3. instances' = <<>> /\ IsSequence(instances') /\ \A at \in touched' : at.n # 0
  BY DEF BuildInv
<1>4. DOMAIN instances' = {}
  BY <1>3
<1> QED BY <1>2, <1>3, <1>4 DEF BuildInv

(* A step of the codec that is ready, or one that does nothing.            *)
LEMMA StaysBuilt ==
  ASSUME BuildInv, BindInv', UNCHANGED <<program, pc, classes, construct>>,
         pc' # "ready" => instances' = <<>>,
         IsSequence(instances'),
         \A n \in DOMAIN instances' :
           /\ instances'[n].built.class = classes[instances'[n].type]
           /\ OwnObjects(instances'[n].built)
           /\ OneClassPerType => BuiltRight(instances'[n]),
         \A at \in touched' : at.n # 0
  PROVE  BuildInv'
<1>1. SuitInv' /\ InfoInv'
  BY SuitStays, InfoStays DEF BuildInv
<1>2. ASSUME NEW n \in DOMAIN instances'
      PROVE  /\ instances'[n].built.class = classes'[instances'[n].type]
             /\ OwnObjects(instances[n].built)'
             /\ OneClassPerType' => BuiltRight(instances[n])'
  <2>1. PICK instance : instance = instances'[n]
    OBVIOUS
  <2>2. OwnObjects(instance.built)' /\ (OneClassPerType' => BuiltRight(instance)')
    BY <2>1, InstancesSame
  <2> QED BY <2>1, <2>2
<1> QED BY <1>1, <1>2 DEF BuildInv

(* The codec becomes ready.                                                *)
LEMMA BuildInform ==
  ASSUME BuildInv, Inform, BindInv'
  PROVE  BuildInv'
<1>1. /\ pc = "inform" /\ program' = program /\ classes' = classes
      /\ instances' = instances /\ touched' = touched
      /\ \/ pc' = "failed" /\ construct' = construct
         \/ /\ pc' = "ready"
            /\ construct' = [t \in Types |-> IF classes[t] = None THEN None
                                             ELSE Construct(t, classes[t])]
  BY DEF Inform
<1>2. SuitInv'
  BY <1>1, SuitStays DEF BuildInv
<1>3. CASE pc' = "failed"
  BY <1>1, <1>2, <1>3, StillBuilding
<1>4. CASE pc' = "ready"
  <2>1. ASSUME NEW t \in Types, NEW m \in Models \cup Enums \cup {None}, classes'[t] = m
        PROVE  construct'[t] = IF m # None THEN Construct(t, m)' ELSE None
    <3>1. construct'[t] = IF m = None THEN None ELSE Construct(t, m)
      BY <1>1, <1>4, <2>1
    <3>2. Construct(t, m)' = Construct(t, m)
      BY <1>1, ConstructSame
    <3> QED BY <3>1, <3>2
  <2>2. DOMAIN construct' = Types
    BY <1>1, <1>4
  <2>3. InfoInv'
    BY <1>4, <2>1, <2>2 DEF InfoInv
  <2>4. instances' = <<>> /\ IsSequence(instances') /\ \A at \in touched' : at.n # 0
    BY <1>1 DEF BuildInv
  <2>5. DOMAIN instances' = {}
    BY <2>4
  <2> QED BY <1>2, <1>4, <2>3, <2>4, <2>5 DEF BuildInv
<1> QED BY <1>1, <1>3, <1>4

(* A message is decoded.                                                   *)
LEMMA BuildDecode ==
  ASSUME BuildInv, BindInv', NEW t \in Types, decode_message(t)
  PROVE  BuildInv'
<1>1. /\ pc = "ready" /\ construct[t] # None
      /\ UNCHANGED <<program, pc, classes, construct, touched>>
  BY DEF decode_message
<1>2. PICK slots \in SlotsOf(t) :
        instances' = Append(instances, [type |-> t, slots |-> slots, built |-> Build(t, slots)])
  BY DEF decode_message
<1>3. classes[t] # None
  BY <1>1, InfoFollows
<1>4. PICK instance : instance = [type |-> t, slots |-> slots, built |-> Build(t, slots)]
  OBVIOUS
<1>5. /\ instance.built.class = classes[instance.type]
      /\ OwnObjects(instance.built)
      /\ OneClassPerType => BuiltRight(instance)
  BY <1>1, <1>3, <1>4, NewInstance
<1>6. /\ IsSequence(instances) /\ \A at \in touched' : at.n # 0
      /\ \A n \in DOMAIN instances :
           /\ instances[n].built.class = classes[instances[n].type]
           /\ OwnObjects(instances[n].built)
           /\ OneClassPerType => BuiltRight(instances[n])
  BY <1>1 DEF BuildInv
<1>7. instances' = Append(instances, instance)
  BY <1>2, <1>4
<1>8. /\ IsSequence(instances') /\ Len(instances') = Len(instances) + 1
      /\ \A n \in 1 .. Len(instances) : instances'[n] = instances[n]
      /\ instances'[Len(instances) + 1] = instance
  BY <1>6, <1>7, SequenceAppend
<1>9. /\ DOMAIN instances = 1 .. Len(instances) /\ DOMAIN instances' = 1 .. Len(instances')
      /\ Len(instances) \in Nat
  BY <1>6, <1>8, SequenceLength
<1>10. ASSUME NEW n \in DOMAIN instances'
       PROVE  /\ instances'[n].built.class = classes[instances'[n].type]
              /\ OwnObjects(instances'[n].built)
              /\ OneClassPerType => BuiltRight(instances'[n])
  <2>1. CASE n = Len(instances) + 1
    BY <1>5, <1>8, <2>1
  <2>2. CASE n # Len(instances) + 1
    <3>1. n \in 1 .. Len(instances)
      BY <1>8, <1>9, <2>2
    <3> QED BY <1>6, <1>8, <1>9, <3>1
  <2> QED BY <2>1, <2>2
<1> QED BY <1>1, <1>6, <1>8, <1>10, StaysBuilt

LEMMA BuildStep == ASSUME BuildInv, [Next]_vars PROVE BuildInv'
<1>1. BindInv'
  BY BindStep DEF BuildInv
<1>2. CASE Follow
  <2>1. SuitInv'
    BY <1>2, SuitFollow DEF BuildInv
  <2>2. pc = "bind" /\ pc' # "ready" /\ UNCHANGED <<construct, instances, touched>>
    BY <1>2 DEF Follow
  <2> QED BY <1>1, <2>1, <2>2, StillBuilding
<1>3. CASE Followed
  <2>1. pc = "bind" /\ pc' = "inform" /\ UNCHANGED <<program, classes, construct, instances, touched>>
    BY <1>3 DEF Followed
  <2>2. SuitInv'
    BY <2>1, SuitStays DEF BuildInv
  <2> QED BY <1>1, <2>1, <2>2, StillBuilding
<1>4. CASE Inform
  BY <1>1, <1>4, BuildInform
<1>5. ASSUME NEW t \in Types, decode_message(t) PROVE BuildInv'
  BY <1>1, <1>5, BuildDecode
<1>6. CASE Change
  <2>1. \A at \in touched' : at.n # 0
    BY <1>6, ChangeKeepsDefaults
  <2>2. UNCHANGED <<program, pc, classes, construct, instances>>
    BY <1>6 DEF Change
  <2>3. /\ pc' # "ready" => instances' = <<>>
        /\ IsSequence(instances')
        /\ \A n \in DOMAIN instances' :
             /\ instances'[n].built.class = classes[instances'[n].type]
             /\ OwnObjects(instances'[n].built)
             /\ OneClassPerType => BuiltRight(instances'[n])
    BY <2>2 DEF BuildInv
  <2> QED BY <1>1, <2>1, <2>2, <2>3, StaysBuilt
<1>7. CASE UNCHANGED vars
  <2>1. UNCHANGED <<program, pc, classes, construct, instances, touched>>
    BY <1>7 DEF vars
  <2>2. /\ pc' # "ready" => instances' = <<>>
        /\ IsSequence(instances')
        /\ \A n \in DOMAIN instances' :
             /\ instances'[n].built.class = classes[instances'[n].type]
             /\ OwnObjects(instances'[n].built)
             /\ OneClassPerType => BuiltRight(instances'[n])
        /\ \A at \in touched' : at.n # 0
    BY <2>1 DEF BuildInv
  <2> QED BY <1>1, <2>1, <2>2, StaysBuilt
<1> QED BY <1>2, <1>3, <1>4, <1>5, <1>6, <1>7 DEF Next

(* In every state: every bound message has the class that fits, if one     *)
(* does; what instances share are defaults that cannot be changed, and     *)
(* nobody has changed them.                                                *)
THEOREM BuildInvariance == Spec => []BuildInv
BY BuildInit, BuildStep, PTL DEF Spec

(* For any plan, any models and any annotations that give a message type   *)
(* one class: whichever of its three paths the codec takes, and whatever   *)
(* callers have done with earlier instances, it builds what                *)
(* model_construct does, given values of the classes that _target finds.   *)
THEOREM BuildsLikePydantic == Spec => []BuildsAsPydantic
<1>1. ASSUME BuildInv PROVE BuildsAsPydantic
  <2> SUFFICES ASSUME OneClassPerType, NEW n \in DOMAIN instances
               PROVE  LET t == instances[n].type
                          m == classes[t]
                          slots == instances[n].slots
                          built == instances[n].built
                      IN  /\ [k \in DOMAIN built.values |->
                                Entry(built.values[k].key, built.values[k].value.content)]
                              = Present([k \in DOMAIN model_fields[m] |-> Expected(t, slots, m, k)])
                          /\ built.class = m
                          /\ built.fields_set =
                               {name \in {model_fields[m][k].name : k \in DOMAIN model_fields[m]} :
                                  Given(t, slots, name) # {}}
                          /\ built.extra = IF m \in program.extra THEN {} ELSE None
    BY DEF BuildsAsPydantic
  <2>1. PICK instance : instance = instances[n]
    OBVIOUS
  <2>2. PICK m : m = instance.built.class
    OBVIOUS
  <2>3. BuiltRight(instance) /\ m = classes[instances[n].type]
    BY <1>1, <2>1, <2>2 DEF BuildInv
  <2> QED BY <2>1, <2>2, <2>3 DEF BuiltRight
<1> QED BY <1>1, BuildInvariance, PTL
=============================================================================
