---------------------------- MODULE ModelBinding ----------------------------
(***************************************************************************)
(* mode="construct" of the native codec: bind_models and the building of   *)
(* instances in src/python_native.rs, model_links and construct_info in    *)
(* src/python/protoruf/_native.py.                                         *)
(*                                                                         *)
(* A decode_message call is one step, given what it has read for each      *)
(* field; that reading is the subject of Decode.  An instance is kept as   *)
(* it was when decoded.  Its caller may change the mutable objects in it.  *)
(* Model fields have no aliases here.                                      *)
(***************************************************************************)
EXTENDS Naturals, SequencesExt, Subsequences

CONSTANTS
  Types, Root,     \* message types of the plan, and the one to decode
  Models, Enums,   \* Python classes
  Programs,        \* the plans with the classes they may be bound to
  MAX_INSTANCES,   \* bound on the instances decoded
  None

ASSUME ClassAssumption == Models \cap Enums = {} /\ None \notin Models \cup Enums

(* In a program, fields[t] is the sequence of the fields of message type t *)
(* in order of their numbers, each with its key, what it is ("message",    *)
(* "enum" or "other"), the type of the message, whether it is repeated (or *)
(* a map) and whether it has presence.  model_fields[m] is the sequence of *)
(* the fields a model declares: name, annotation and default.  slow, extra *)
(* are the models that cannot be assembled directly and those configured   *)
(* with extra="allow".  members[e] are the numbers an enum class declares, *)
(* and open the classes that make members for others.                      *)
Containers == {"optional", "list", "dict", "tuple", "set", "frozenset", "union"}
Declarations ==
  [name : STRING,
   annotation : [shape : Seq(Containers), leaf : STRING \cup Models \cup Enums],
   default : [shape : Seq(Containers), value : STRING]]
PlanFields ==
  [key : STRING, is : {"message", "enum", "other"}, type : Types \cup {None},
   many : BOOLEAN, presence : BOOLEAN]

ASSUME ProgramAssumption ==
  /\ Root \in Types
  /\ \A p \in Programs :
       /\ p.model \in Models
       /\ p.fields \in [Types -> Seq(PlanFields)]
       /\ \A t \in Types : \A i \in DOMAIN p.fields[t] :
            p.fields[t][i].is = "message" => p.fields[t][i].type \in Types
       /\ p.model_fields \in [Models -> Seq(Declarations)]
       /\ p.open \subseteq Enums

(* model_fields of a class is a dict: a name is declared once.             *)
ASSUME NamesAssumption ==
  \A p \in Programs : \A m \in Models : \A j, k \in DOMAIN p.model_fields[m] :
    p.model_fields[m][j].name = p.model_fields[m][k].name => j = k

VARIABLES
  program,     \* constant
  pc,          \* "bind", "inform", then "ready" or "failed"
  classes,     \* bind_models: the model bound to each message type
  pending,     \* bind_models: types whose fields it has yet to follow
  enum_class,  \* PyField: enum_class[t][i] is that of the i-th field of t
  construct,   \* PyMessage: what to build for a type, None without a class
  instances,   \* what decode_message has returned, in order
  touched      \* objects that callers have changed

vars == <<program, pc, classes, pending, enum_class, construct, instances, touched>>

fields == program.fields
model_fields == program.model_fields

-----------------------------------------------------------------------------
(* _native.py                                                              *)

(* Optional, the values of dicts and the (first) element of lists, tuples  *)
(* and sets are looked through; other unions are not, nor are containers   *)
(* without an argument, which are leaves.                                  *)
_target(annotation) ==
  IF /\ \A i \in DOMAIN annotation.shape :
          annotation.shape[i] \in {"optional", "list", "tuple", "set", "frozenset", "dict"}
     /\ annotation.leaf \in Models \cup Enums
  THEN annotation.leaf ELSE None

(* What a model's field of this name links to.                             *)
Target(m, name) ==
  LET named == {k \in DOMAIN model_fields[m] : model_fields[m][k].name = name}
  IN  IF named = {} THEN None ELSE _target(model_fields[m][CHOOSE k \in named : TRUE].annotation)

(* The models with links: the least set that holds the root model and      *)
(* those that fields of its members hold.                                  *)
model_links ==
  {m \in Models : \A S \in SUBSET Models :
     (/\ program.model \in S
      /\ \A n \in S : \A k \in DOMAIN model_fields[n] :
           _target(model_fields[n][k].annotation) \notin Models \ S)
     => m \in S}

(* Mutant of _immutable: does not look into a tuple.                       *)
ImmutableOutside(default) ==
  /\ default.value = "scalar"
  /\ default.shape # <<>> => default.shape[1] \in {"tuple", "frozenset"}

(* A default is a value inside containers.                                 *)
_immutable(default) ==
  /\ default.value = "scalar"
  /\ \A i \in DOMAIN default.shape : default.shape[i] \in {"tuple", "frozenset"}

DefaultKind(default) ==
  CASE default.value \in {"factory", "factory_of_data"} -> "factory"
    [] default.value = "undefined" -> "required"
    [] default.value \in {"scalar", "object"} /\ _immutable(default) -> "shared"
    [] OTHER -> "copied"

construct_info(m) ==
  [fast |-> /\ m \notin program.slow
            /\ \A k \in DOMAIN model_fields[m] :
                 model_fields[m][k].default.value # "factory_of_data",
   extra_allow |-> m \in program.extra,
   defaults |-> [k \in DOMAIN model_fields[m] |->
                   [name |-> model_fields[m][k].name,
                    kind |-> DefaultKind(model_fields[m][k].default)]]]

-----------------------------------------------------------------------------
(* bind_models                                                             *)
Init ==
  /\ program \in Programs
  /\ pc = "bind"
  /\ classes = [t \in Types |-> IF t = Root THEN program.model ELSE None]
  /\ pending = <<Root>>
  /\ enum_class = [t \in Types |-> [i \in DOMAIN fields[t] |-> None]]
  /\ construct = [t \in Types |-> None]
  /\ instances = <<>>
  /\ touched = {}

(* Mutants of Gives: a class replaces an earlier one; one new class per    *)
(* model is followed.                                                      *)
GivesAgain(t, i) ==
  /\ fields[t][i].is = "message"
  /\ Target(classes[t], fields[t][i].key) # None

GivesOne(t, i) ==
  LET gives(j) == /\ fields[t][j].is = "message"
                  /\ Target(classes[t], fields[t][j].key) # None
                  /\ classes[fields[t][j].type] = None
  IN  gives(i) /\ \A j \in 1 .. i - 1 : ~gives(j)

(* The i-th field of t is the first that gives its message type a class.   *)
Gives(t, i) ==
  LET gives(j) == /\ fields[t][j].is = "message"
                  /\ Target(classes[t], fields[t][j].key) # None
                  /\ classes[fields[t][j].type] = None
  IN  gives(i) /\ \A j \in 1 .. i - 1 : fields[t][j].type = fields[t][i].type => ~gives(j)

(* These fields, the types they give a class, and the one that gives it.   *)
Giving(t) == Subsequence(fields[t], {i \in DOMAIN fields[t] : Gives(t, i)})
TypesIn(giving) == [k \in DOMAIN giving |-> giving[k].type]
FieldFor(giving, c) == giving[CHOOSE k \in DOMAIN giving : giving[k].type = c]

(* An enum class has _value2member_map_; a model does not.                 *)
MemberMapMissing(t) ==
  \E i \in DOMAIN fields[t] :
    fields[t][i].is = "enum" /\ Target(classes[t], fields[t][i].key) \in Models

(* One round of `while let Some(index) = pending.pop()`.                   *)
Follow ==
  /\ pc = "bind"
  /\ pending # <<>>
  /\ LET t == Last(pending) IN
     \/ /\ classes[t] \notin model_links
        /\ pending' = Front(pending)
        /\ UNCHANGED <<pc, classes, enum_class>>
     \/ /\ classes[t] \in model_links /\ MemberMapMissing(t)
        /\ pc' = "failed"
        /\ UNCHANGED <<classes, pending, enum_class>>
     \/ /\ classes[t] \in model_links /\ ~MemberMapMissing(t)
        /\ classes' = [c \in Types |-> IF c \in ToSet(TypesIn(Giving(t)))
                                      THEN Target(classes[t], FieldFor(Giving(t), c).key)
                                      ELSE classes[c]]
        /\ pending' = Front(pending) \o TypesIn(Giving(t))
        /\ enum_class' = [enum_class EXCEPT ![t] =
             [i \in DOMAIN fields[t] |->
                IF fields[t][i].is = "enum" THEN Target(classes[t], fields[t][i].key) ELSE None]]
        /\ UNCHANGED pc
  /\ UNCHANGED <<program, construct, instances, touched>>

Followed ==
  /\ pc = "bind"
  /\ pending = <<>>
  /\ pc' = "inform"
  /\ UNCHANGED <<program, classes, pending, enum_class, construct, instances, touched>>

(* The loop over the bound classes; construct_info takes no enum class.    *)
Names(info) == [k \in DOMAIN info.defaults |-> info.defaults[k].name]
Keys(t) == [i \in DOMAIN fields[t] |-> fields[t][i].key]

Construct(t, m) ==
  LET info == construct_info(m) IN
  [class |-> m, fast |-> info.fast, extra_allow |-> info.extra_allow, defaults |-> info.defaults,
   in_model |-> {i \in DOMAIN fields[t] : fields[t][i].key \in ToSet(Names(info))},
   same_order |-> Names(info) = Keys(t)]

Inform ==
  /\ pc = "inform"
  /\ \/ /\ \E t \in Types : classes[t] \in Enums
        /\ pc' = "failed"
        /\ UNCHANGED construct
     \/ /\ \A t \in Types : classes[t] \notin Enums
        /\ pc' = "ready"
        /\ construct' = [t \in Types |-> IF classes[t] = None THEN None ELSE Construct(t, classes[t])]
  /\ UNCHANGED <<program, classes, pending, enum_class, instances, touched>>

-----------------------------------------------------------------------------
(* Objects.  What is asked of one is its class and number, or the builtin  *)
(* type it has; an object is known by where it was made: by the n-th       *)
(* decode_message for a key, or, if n is 0, with a class, for a field.     *)
Value(of, number) == [of |-> of, number |-> number]
Object(content, n, class, key) == [content |-> content, at |-> [n |-> n, class |-> class, key |-> key]]

Zero == Value("plain", 0)
EmptyContainer == Value("container", 0)
Default == Value("default", 0)
Spoiled == Value("default", 1)

Values ==
  [of : {"plain", "container", "default", "dict"} \cup Models \cup Enums, number : Nat]
Objects == [content : Values, at : [n : Nat, class : Models, key : STRING]]
Constructs ==
  [class : Models, fast : BOOLEAN, extra_allow : BOOLEAN,
   defaults : Seq([name : STRING, kind : {"required", "shared", "copied", "factory"}]),
   in_model : SUBSET Nat, same_order : BOOLEAN]

(* None is none of them, and no number.                                    *)
ASSUME NoneAssumption == None \notin Nat \cup Values \cup Objects \cup Constructs

(* enum_object: a member, also one that an open class makes, or the int.   *)
enum_object(number, class) ==
  IF class # None /\ (number \in program.members[class] \/ class \in program.open)
  THEN Value(class, number) ELSE Value("plain", number)

(* What decode_message reads for a field, the type being told by the plan; *)
(* slots[i] is None if the field is absent, or the number of an enum.      *)
Read(t, i, slots) ==
  CASE fields[t][i].is = "enum" -> enum_object(slots[i], enum_class[t][i])
    [] fields[t][i].is = "other" -> Value("plain", slots[i])
    [] OTHER -> LET child == construct[fields[t][i].type]
                IN  Value(IF child = None THEN "dict" ELSE child.class, slots[i])

present_value(t, i, slots) ==
  CASE slots[i] # None -> Read(t, i, slots)
    [] slots[i] = None /\ fields[t][i].many -> EmptyContainer
    [] slots[i] = None /\ ~fields[t][i].many /\ fields[t][i].is # "message" /\ ~fields[t][i].presence ->
         IF enum_class[t][i] # None THEN enum_object(0, enum_class[t][i]) ELSE Zero
    [] OTHER -> None

(* A field's default: a new object, or the class's own.  A copy is like    *)
(* the original, which a caller that has got hold of it may have changed.  *)
default_value(m, default) ==
  LET n == Len(instances) + 1
      original == [n |-> 0, class |-> m, key |-> default.name]
      content == IF original \in touched THEN Spoiled ELSE Default
  IN  CASE default.kind = "shared" -> Object(content, 0, m, default.name)
        [] default.kind = "copied" -> Object(content, n, m, default.name)
        [] default.kind = "factory" -> Object(Default, n, m, default.name)
        [] default.kind = "required" -> None

-----------------------------------------------------------------------------
(* The __dict__ of an instance is a sequence of entries; its order counts. *)
Entry(key, value) == [key |-> key, value |-> value]
Present(s) == Subsequence(s, {k \in DOMAIN s : s[k].value # None})

(* A dict that is only looked into is a function.                          *)
set_item(dict, key, value) ==
  [x \in DOMAIN dict \cup {key} |-> IF x = key THEN value ELSE dict[x]]

new_instance(info, values, fields_set) ==
  [class |-> info.class, values |-> values, fields_set |-> fields_set,
   extra |-> IF info.extra_allow THEN {} ELSE None]

(* In `values` for the field of the model: what was read, or the default.  *)
ValueOrDefault(t, i, slots, m, default) ==
  LET read == present_value(t, i, slots)
  IN  IF read # None THEN Object(read, Len(instances) + 1, m, default.name)
      ELSE default_value(m, default)

build_in_order(t, info, slots) ==
  new_instance(info,
    Present([i \in DOMAIN fields[t] |->
      Entry(info.defaults[i].name, ValueOrDefault(t, i, slots, info.class, info.defaults[i]))]),
    {info.defaults[i].name : i \in {i \in DOMAIN fields[t] : present_value(t, i, slots) # None}})

(* The loop over the fields, in order of their numbers.                    *)
DecodedDict(t, m, slots) ==
  LET dict[i \in 0 .. Len(fields[t])] ==
        IF i = 0 THEN <<>>
        ELSE IF present_value(t, i, slots) = None THEN dict[i - 1]
        ELSE set_item(dict[i - 1], fields[t][i].key,
                      Object(present_value(t, i, slots), Len(instances) + 1, m, fields[t][i].key))
  IN  dict[Len(fields[t])]

(* What the dict has for a field of the model, or the default.             *)
ItemOrDefault(m, dict, default) ==
  Entry(default.name, IF default.name \in DOMAIN dict THEN dict[default.name]
                      ELSE default_value(m, default))

(* BaseModel.model_construct, given values by name: in order of            *)
(* declaration, and what is not declared goes to the extra values.         *)
model_construct(m, dict) ==
  LET info == construct_info(m)
      declared == ToSet(Names(info))
  IN  [class |-> m,
       values |-> Present([k \in DOMAIN info.defaults |-> ItemOrDefault(m, dict, info.defaults[k])]),
       fields_set |-> DOMAIN dict \cap declared,
       extra |-> IF info.extra_allow THEN DOMAIN dict \ declared ELSE None]

build_reordered(t, info, dict) ==
  IF ~info.fast
  THEN LET undeclared == {fields[t][i].key : i \in DOMAIN fields[t] \ info.in_model}
       IN  model_construct(info.class, [key \in DOMAIN dict \ undeclared |-> dict[key]])
  ELSE new_instance(info,
         Present([k \in DOMAIN info.defaults |->
           ItemOrDefault(info.class, dict, info.defaults[k])]),
         {info.defaults[k].name : k \in DOMAIN info.defaults} \cap DOMAIN dict)

Build(t, slots) ==
  LET info == construct[t] IN
  IF info.fast /\ info.same_order
  THEN build_in_order(t, info, slots)
  ELSE build_reordered(t, info, DecodedDict(t, info.class, slots))

(* What a field can hold: an undeclared enum number is one of them.        *)
SlotsOf(t) ==
  {slots \in [DOMAIN fields[t] -> {None, 1, 9}] :
     \A i \in DOMAIN fields[t] : slots[i] = 9 => fields[t][i].is = "enum"}

decode_message(t) ==
  /\ pc = "ready"
  /\ construct[t] # None
  /\ Len(instances) < MAX_INSTANCES
  /\ \E slots \in SlotsOf(t) :
       instances' = Append(instances, [type |-> t, slots |-> slots, built |-> Build(t, slots)])
  /\ UNCHANGED <<program, pc, classes, pending, enum_class, construct, touched>>

(* A caller adds to a container it finds in an instance, however deep.     *)
Mutable(m, entry) ==
  \/ entry.value.content \in {EmptyContainer}
  \/ /\ entry.value.content \in {Default, Spoiled}
     /\ \E k \in DOMAIN model_fields[m] :
          LET default == model_fields[m][k].default IN
          /\ model_fields[m][k].name = entry.key
          /\ \/ default.value # "scalar"
             \/ \E j \in DOMAIN default.shape : default.shape[j] \in {"list", "dict", "set"}

Change ==
  /\ \E n \in DOMAIN instances : \E k \in DOMAIN instances[n].built.values :
       LET entry == instances[n].built.values[k] IN
       /\ Mutable(instances[n].built.class, entry)
       /\ touched' = touched \cup {entry.value.at}
  /\ UNCHANGED <<program, pc, classes, pending, enum_class, construct, instances>>

Next == Follow \/ Followed \/ Inform \/ (\E t \in Types : decode_message(t)) \/ Change

(* The constructor runs until it returns.                                  *)
Spec == Init /\ [][Next]_vars /\ WF_vars(Follow \/ Followed \/ Inform)

-----------------------------------------------------------------------------
(* Read off the annotations, whatever the order in which they were         *)
(* followed: a message type has a class if and only if a field of a bound  *)
(* model says so (the root's is given), and it is one of those said; an    *)
(* enum field has the class of its own annotation.  Construction fails     *)
(* only if a message is annotated with an enum or an enum with a model.    *)
Annotated(s, i) == IF classes[s] \in Models THEN Target(classes[s], fields[s][i].key) ELSE None
Holding(s, t) == {i \in DOMAIN fields[s] : fields[s][i].is = "message" /\ fields[s][i].type = t}
Said(t) == (UNION {{Annotated(s, i) : i \in Holding(s, t)} : s \in Types}) \ {None}

BoundAsAnnotated ==
  /\ pc \in {"inform", "ready"} =>
       /\ classes[Root] = program.model
       /\ \A t \in Types \ {Root} : IF Said(t) = {} THEN classes[t] = None ELSE classes[t] \in Said(t)
       /\ \A t \in Types : \A i \in DOMAIN fields[t] :
            enum_class[t][i] = IF fields[t][i].is = "enum" THEN Annotated(t, i) ELSE None
  /\ pc = "ready" => \A t \in Types :
       /\ classes[t] \notin Enums
       /\ \A i \in DOMAIN fields[t] : enum_class[t][i] \notin Models
  /\ pc = "failed" => \E t \in Types : \E i \in DOMAIN fields[t] :
       \/ fields[t][i].is = "enum" /\ Annotated(t, i) \in Models
       \/ fields[t][i].is = "message" /\ Annotated(t, i) \in Enums

(* Recursive messages and models do not keep the constructor going.        *)
BindingEnds == <>(pc \in {"ready", "failed"})

(* What an instance has of the dict of a message: the fields of a name     *)
(* that are read or have no presence, the last of them, or else the        *)
(* default; a number no member has stays.  The class of a value is that    *)
(* which _target finds in the annotation; where it finds none, as in a     *)
(* union of several types, what was read stays as it is.                   *)
Given(t, slots, name) ==
  {i \in DOMAIN fields[t] :
     /\ fields[t][i].key = name
     /\ \/ slots[i] # None \/ fields[t][i].many
        \/ fields[t][i].is # "message" /\ ~fields[t][i].presence}

NumbersOf(target) ==
  IF target \in program.open THEN {0, 1, 9}
  ELSE IF target \in Enums THEN program.members[target] ELSE {}

Converted(t, i, slots, target) ==
  LET number == IF slots[i] = None THEN 0 ELSE slots[i]
  IN  IF slots[i] = None /\ fields[t][i].many THEN EmptyContainer
      ELSE CASE fields[t][i].is = "message" ->
                  Value(IF target \in Models THEN target ELSE "dict", number)
             [] fields[t][i].is = "enum" /\ number \in NumbersOf(target) -> Value(target, number)
             [] OTHER -> Value("plain", number)

Expected(t, slots, m, k) ==
  LET name == model_fields[m][k].name
      given == Given(t, slots, name)
      last == CHOOSE i \in given : \A j \in given : j <= i
  IN  CASE given # {} -> Entry(name, Converted(t, last, slots, _target(model_fields[m][k].annotation)))
        [] given = {} /\ model_fields[m][k].default.value # "undefined" -> Entry(name, Default)
        [] OTHER -> Entry(name, None)

(* One class suits every field of a message type.                          *)
Suits(B) ==
  /\ B[Root] = program.model
  /\ \A t \in Types : B[t] # None =>
       \A i \in DOMAIN fields[t] : fields[t][i].is = "message" =>
         Target(B[t], fields[t][i].key) = B[fields[t][i].type]
OneClassPerType == \E B \in [Types -> Models \cup {None}] : Suits(B)

(* On each of its three paths the codec builds "exactly what               *)
(* BaseModel.model_construct does", given values of the classes that       *)
(* _target finds: the values in the order of the declarations, the fields  *)
(* set, no undeclared ones, and defaults as declared, whatever callers     *)
(* have done with earlier instances.                                       *)
BuildsAsPydantic ==
  OneClassPerType => \A n \in DOMAIN instances :
    LET t == instances[n].type
        m == classes[t]
        slots == instances[n].slots
        built == instances[n].built
    IN  /\ [k \in DOMAIN built.values |-> Entry(built.values[k].key, built.values[k].value.content)]
            = Present([k \in DOMAIN model_fields[m] |-> Expected(t, slots, m, k)])
        /\ built.class = m
        /\ built.fields_set = {name \in {model_fields[m][k].name : k \in DOMAIN model_fields[m]} :
                                Given(t, slots, name) # {}}
        /\ built.extra = IF m \in program.extra THEN {} ELSE None
=============================================================================
