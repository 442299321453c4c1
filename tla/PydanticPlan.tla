---------------------------- MODULE PydanticPlan ----------------------------
(***************************************************************************)
(* src/python/protoruf/_pydantic.py: where the bytes of a model are, found *)
(* by _plan for every model that a class reaches and kept in the dict      *)
(* _plans, which threads share without a lock.                             *)
(*                                                                         *)
(* A thread runs one statement that touches _plans, or one round of a      *)
(* loop, at a time.  The order of lists (pending, reachable) is left open: *)
(* the plans must not depend on it.                                        *)
(***************************************************************************)
EXTENDS Naturals, Sequences

CONSTANTS
  Threads, Models,
  Schemas,      \* the sets of annotated fields that each model may have
  MAX_NESTING,  \* bound on the models inside one another of a JSON value
  None

(* What an annotation is made of: optional, list and dict types, looked    *)
(* through to a leaf; a union of several types and a bare list or dict are *)
(* not.  The leaf is bytes, a model or another type.                       *)
Through == {"optional", "list", "dict"}
Leaves == Models \cup {"bytes", "other"}

IsThrough(annotation) == \A i \in DOMAIN annotation.shape : annotation.shape[i] \in Through

(* _spec is not None, and what it is.                                      *)
HasSpec(annotation, holders) ==
  IsThrough(annotation) /\ annotation.leaf \in holders \cup {"bytes"}
_spec(annotation) ==
  [kinds |-> SelectSeq(annotation.shape, LAMBDA w : w # "optional"), inner |-> annotation.leaf]

PlanOf(fields, holders) ==
  {[key |-> field.key, spec |-> _spec(field.annotation)] :
     field \in {f \in fields : HasSpec(f.annotation, holders)}}

ASSUME SchemasAssumption ==
  \A schema \in Schemas : \A m \in Models :
    /\ \A field \in schema[m] : field.annotation.leaf \in Leaves
    /\ \A holders \in SUBSET Models : PlanOf(schema[m], holders) # None

ASSUME ModelsAssumption ==
  /\ None \notin Models /\ MAX_NESTING \in Nat
  /\ Models \cap {"bytes", "other", "idle", "cached", "reach", "mark", "check", "apply"} = {}

VARIABLES
  model_fields,  \* the fields [key, annotation] of each model, constant
  plans,         \* _plans: of each model its plan, or None
  pc,
  model_class,   \* argument of the call
  pending, reachable, with_bytes,  \* local variables of _plan
  todo,          \* the reachable models it has yet to store
  plan,          \* what the caller has got
  nesting        \* of the JSON value the caller is in

vars == <<model_fields, plans, pc, model_class, pending, reachable, with_bytes, todo, plan, nesting>>
locals == <<pending, reachable, with_bytes, todo>>

-----------------------------------------------------------------------------
_models_in(annotation) == IF IsThrough(annotation) THEN {annotation.leaf} \cap Models ELSE {}

(* The models that a model's fields can hold.                              *)
Successors(m) == UNION {_models_in(field.annotation) : field \in model_fields[m]}

(* One of the fields has a spec.                                           *)
Holds(m, holders) == \E field \in model_fields[m] : HasSpec(field.annotation, holders)

-----------------------------------------------------------------------------
Goto(t, label) == pc' = [pc EXCEPT ![t] = label]
Got(t, p) == plan' = [plan EXCEPT ![t] = p]

Init ==
  /\ model_fields \in Schemas
  /\ plans = [m \in Models |-> None]
  /\ pc = [t \in Threads |-> "idle"]
  /\ model_class = [t \in Threads |-> None]
  /\ pending = [t \in Threads |-> {}] /\ reachable = [t \in Threads |-> {}]
  /\ with_bytes = [t \in Threads |-> {}] /\ todo = [t \in Threads |-> {}]
  /\ plan = [t \in Threads |-> None]
  /\ nesting = [t \in Threads |-> 0]

(* model_to_json, model_from_json: plan = _plans.get(model_class).         *)
Convert(t) ==
  /\ pc[t] = "idle"
  /\ \E m \in Models :
       /\ model_class' = [model_class EXCEPT ![t] = m]
       /\ Got(t, plans[m])
       /\ Goto(t, IF plans[m] = None THEN "cached" ELSE "apply")
  /\ UNCHANGED <<model_fields, plans, locals, nesting>>

Hit(t) ==
  /\ pc[t] = "cached"
  /\ plans[model_class[t]] # None
  /\ Got(t, plans[model_class[t]])
  /\ Goto(t, "apply")
  /\ UNCHANGED <<model_fields, plans, model_class, locals, nesting>>

Miss(t) ==
  /\ pc[t] = "cached"
  /\ plans[model_class[t]] = None
  /\ pending' = [pending EXCEPT ![t] = {model_class[t]}]
  /\ Goto(t, "reach")
  /\ UNCHANGED <<model_fields, plans, model_class, reachable, with_bytes, todo, plan, nesting>>

(* Mutant of Reach: goes through a model each time it is pending.          *)
ReachAgain(t) ==
  /\ pc[t] = "reach"
  /\ \E current \in pending[t] :
       /\ reachable' = [reachable EXCEPT ![t] = @ \cup {current}]
       /\ pending' = [pending EXCEPT ![t] = (@ \ {current}) \cup Successors(current)]
  /\ UNCHANGED <<model_fields, plans, pc, model_class, with_bytes, todo, plan, nesting>>

(* One round of `while pending`.                                           *)
Reach(t) ==
  /\ pc[t] = "reach"
  /\ \E current \in pending[t] :
       IF current \in reachable[t]
       THEN pending' = [pending EXCEPT ![t] = @ \ {current}] /\ UNCHANGED reachable
       ELSE /\ reachable' = [reachable EXCEPT ![t] = @ \cup {current}]
            /\ pending' = [pending EXCEPT ![t] = (@ \ {current}) \cup Successors(current)]
  /\ UNCHANGED <<model_fields, plans, pc, model_class, with_bytes, todo, plan, nesting>>

Reached(t) ==
  /\ pc[t] = "reach"
  /\ pending[t] = {}
  /\ Goto(t, "mark")
  /\ UNCHANGED <<model_fields, plans, model_class, locals, plan, nesting>>

(* Mutants of Mark: one round only; only the class asked for is stored.    *)
MarkOnce(t) ==
  /\ pc[t] = "mark"
  /\ with_bytes' = [with_bytes EXCEPT ![t] = {m \in reachable[t] : Holds(m, with_bytes[t])}]
  /\ Goto(t, "check") /\ todo' = [todo EXCEPT ![t] = reachable[t]]
  /\ UNCHANGED <<model_fields, plans, model_class, pending, reachable, plan, nesting>>

MarkForItself(t) ==
  /\ pc[t] = "mark"
  /\ LET found == {m \in reachable[t] : Holds(m, with_bytes[t])}
     IN  /\ with_bytes' = [with_bytes EXCEPT ![t] = found]
         /\ IF found = with_bytes[t]
            THEN Goto(t, "check") /\ todo' = [todo EXCEPT ![t] = {model_class[t]}]
            ELSE UNCHANGED <<pc, todo>>
  /\ UNCHANGED <<model_fields, plans, model_class, pending, reachable, plan, nesting>>

(* One round of `while changed`.                                           *)
Mark(t) ==
  /\ pc[t] = "mark"
  /\ LET found == {m \in reachable[t] : Holds(m, with_bytes[t])}
     IN  /\ with_bytes' = [with_bytes EXCEPT ![t] = found]
         /\ IF found = with_bytes[t]
            THEN Goto(t, "check") /\ todo' = [todo EXCEPT ![t] = reachable[t]]
            ELSE UNCHANGED <<pc, todo>>
  /\ UNCHANGED <<model_fields, plans, model_class, pending, reachable, plan, nesting>>

(* `if model not in _plans`, for the next of the reachable models, ...     *)
Check(t) ==
  /\ pc[t] = "check"
  /\ \E m \in todo[t] :
       \/ plans[m] # None /\ todo' = [todo EXCEPT ![t] = @ \ {m}] /\ UNCHANGED pc
       \/ plans[m] = None /\ Goto(t, m) /\ UNCHANGED todo
  /\ UNCHANGED <<model_fields, plans, model_class, pending, reachable, with_bytes, plan, nesting>>

(* ... and _plans[model] = plan.                                           *)
Store(t) ==
  /\ pc[t] \in Models
  /\ plans' = [plans EXCEPT ![pc[t]] = PlanOf(model_fields[pc[t]], with_bytes[t])]
  /\ todo' = [todo EXCEPT ![t] = @ \ {pc[t]}]
  /\ Goto(t, "check")
  /\ UNCHANGED <<model_fields, model_class, pending, reachable, with_bytes, plan, nesting>>

(* return _plans[model_class].                                             *)
Return(t) ==
  /\ pc[t] = "check"
  /\ todo[t] = {}
  /\ Got(t, plans[model_class[t]])
  /\ Goto(t, "apply")
  /\ reachable' = [reachable EXCEPT ![t] = {}]
  /\ with_bytes' = [with_bytes EXCEPT ![t] = {}]
  /\ UNCHANGED <<model_fields, plans, model_class, pending, todo, nesting>>

(* Mutant of Descend: the outer plan is applied to the value.              *)
DescendWithPlan(t) ==
  /\ pc[t] = "apply"
  /\ nesting[t] < MAX_NESTING
  /\ \E entry \in plan[t] :
       /\ entry.spec.inner \in Models
       /\ model_class' = [model_class EXCEPT ![t] = entry.spec.inner]
  /\ nesting' = [nesting EXCEPT ![t] = @ + 1]
  /\ UNCHANGED <<model_fields, plans, pc, plan, locals>>

(* _decode: a value of a model inside the value, if the JSON has one.      *)
Descend(t) ==
  /\ pc[t] = "apply"
  /\ nesting[t] < MAX_NESTING
  /\ \E entry \in plan[t] :
       /\ entry.spec.inner \in Models
       /\ model_class' = [model_class EXCEPT ![t] = entry.spec.inner]
  /\ nesting' = [nesting EXCEPT ![t] = @ + 1]
  /\ Got(t, None)
  /\ Goto(t, "cached")
  /\ UNCHANGED <<model_fields, plans, locals>>

Finish(t) ==
  /\ pc[t] = "apply"
  /\ Goto(t, "idle")
  /\ model_class' = [model_class EXCEPT ![t] = None]
  /\ Got(t, None)
  /\ nesting' = [nesting EXCEPT ![t] = 0]
  /\ UNCHANGED <<model_fields, plans, locals>>

Call(t) ==
  \/ Hit(t) \/ Miss(t) \/ Reach(t) \/ Reached(t) \/ Mark(t) \/ Check(t) \/ Store(t) \/ Return(t)
  \/ Descend(t) \/ Finish(t)

Next == \E t \in Threads : Convert(t) \/ Call(t)

(* A thread that is in a call is scheduled.                                *)
Spec == Init /\ [][Next]_vars /\ \A t \in Threads : WF_vars(Call(t))

-----------------------------------------------------------------------------
TypeOK ==
  /\ model_fields \in Schemas
  /\ pc \in [Threads -> {"idle", "cached", "reach", "mark", "check", "apply"} \cup Models]
  /\ model_class \in [Threads -> Models \cup {None}]
  /\ pending \in [Threads -> SUBSET Models]
  /\ reachable \in [Threads -> SUBSET Models]
  /\ with_bytes \in [Threads -> SUBSET Models]
  /\ todo \in [Threads -> SUBSET Models]
  /\ DOMAIN plans = Models /\ DOMAIN plan = Threads
  /\ nesting \in [Threads -> 0 .. MAX_NESTING]

(* The least sets of models: those that hold bytes, and those that m       *)
(* reaches.                                                                *)
ByteHolders ==
  {m \in Models : \A S \in SUBSET Models : (\A n \in Models : Holds(n, S) => n \in S) => m \in S}
ReachedFrom(m) ==
  {n \in Models : \A S \in SUBSET Models :
                    m \in S /\ (\A k \in S : Successors(k) \subseteq S) => n \in S}

(* Whatever threads interleave and whichever class was asked for first,    *)
(* the plan kept for a model has exactly its fields that lead to bytes,    *)
(* through however many models; models that only hold one another have an  *)
(* empty plan, and keep the direct JSON path.                              *)
PlansExact ==
  \A m \in Models : plans[m] # None => plans[m] = PlanOf(model_fields[m], ByteHolders)

(* What a caller applies is such a plan, of the model its value is of.     *)
AppliesExactly ==
  \A t \in Threads : pc[t] = "apply" => plan[t] = PlanOf(model_fields[model_class[t]], ByteHolders)

(* "computing those of every model it reaches": a model reached from one   *)
(* that has a plan has one too, or a thread is about to store it.          *)
NoneLeftOut ==
  \A m \in Models : plans[m] # None =>
    \A n \in ReachedFrom(m) : plans[n] # None \/ \E t \in Threads : n \in todo[t]

(* The two fixed points are reached, in any graph of models.               *)
EveryCallReturns == \A t \in Threads : pc[t] # "idle" ~> pc[t] = "idle"
=============================================================================
