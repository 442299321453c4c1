------------------------- MODULE PydanticPlanProofs -------------------------
(***************************************************************************)
(* PydanticPlan for any models, any annotations and any number of threads. *)
(***************************************************************************)
EXTENDS PydanticPlan, TLAPS

(* A thread's own findings: what it has reached is closed but for what is  *)
(* pending, what it has marked holds bytes, and nothing else of what it    *)
(* reached does when it stores.                                            *)
Storing(t) == pc[t] \in {"check"} \cup Models
Closed(t) == \A m \in reachable[t] : Successors(m) \subseteq reachable[t] \cup pending[t]
Found(t) == with_bytes[t] \subseteq ByteHolders \cap reachable[t]
AllFound(t) == Storing(t) => pending[t] = {} /\ with_bytes[t] = ByteHolders \cap reachable[t]
Labels(t) ==
  /\ pc[t] = "mark" => pending[t] = {}
  /\ pc[t] # "reach" /\ pc[t] # "mark" /\ ~Storing(t) =>
       pending[t] = {} /\ reachable[t] = {} /\ with_bytes[t] = {}
  /\ ~Storing(t) => todo[t] = {}
  /\ pc[t] \in Models => pc[t] \in todo[t]
  /\ pc[t] # "idle" => model_class[t] \in Models
  /\ pc[t] \in {"reach", "mark"} \cup {"check"} \cup Models =>
       model_class[t] \in reachable[t] \cup pending[t]
Stored(t) ==
  Storing(t) => todo[t] \subseteq reachable[t]
                /\ \A m \in reachable[t] \ todo[t] : plans[m] # None

(* The successors of a model that has a plan are planned or to be stored.  *)
Planned(n) == plans[n] # None \/ \E t \in Threads : n \in todo[t]
PlannedOnward == \A m \in Models : plans[m] # None => \A n \in Successors(m) : Planned(n)

ThreadInv(t) == Closed(t) /\ Found(t) /\ AllFound(t) /\ Labels(t) /\ Stored(t)

IInv ==
  /\ TypeOK
  /\ \A t \in Threads : ThreadInv(t)
  /\ PlansExact
  /\ AppliesExactly
  /\ PlannedOnward

(* What a model reaches in one step are models.                            *)
LEMMA SuccessorModels ==
  ASSUME NEW m PROVE Successors(m) \subseteq Models
  BY DEF Successors, _models_in

(* A field with a spec leads to bytes or to a successor that holds some.   *)
LEMMA HoldsThrough ==
  ASSUME NEW m, NEW holders, NEW field \in model_fields[m], HasSpec(field.annotation, holders)
  PROVE  /\ IsThrough(field.annotation)
         /\ \/ field.annotation.leaf = "bytes"
            \/ field.annotation.leaf \in holders
               /\ (field.annotation.leaf \in Models => field.annotation.leaf \in Successors(m))
  BY DEF HasSpec, Successors, _models_in

(* More holders, more models that hold one.                                *)
LEMMA Monotone ==
  ASSUME NEW m, NEW S, NEW T, S \subseteq T, Holds(m, S)
  PROVE  Holds(m, T)
  BY DEF Holds, HasSpec

(* The least set is closed.                                                *)
LEMMA HoldersClosed ==
  ASSUME NEW m \in Models, Holds(m, ByteHolders)
  PROVE  m \in ByteHolders
<1> SUFFICES ASSUME NEW S \in SUBSET Models, \A n \in Models : Holds(n, S) => n \in S
             PROVE  m \in S
  BY DEF ByteHolders
<1>1. ByteHolders \subseteq S
  BY DEF ByteHolders
<1>2. Holds(m, S)
  BY <1>1, Monotone
<1> QED BY <1>2

(* A closed set of models that the marking has stopped on holds no others: *)
(* with the models outside it, the marked ones are closed too.             *)
LEMMA FixedPoint ==
  ASSUME NEW R \in SUBSET Models, \A m \in R : Successors(m) \subseteq R,
         NEW W, W = {m \in R : Holds(m, W)}, W \subseteq ByteHolders
  PROVE  W = ByteHolders \cap R
<1> DEFINE S == W \cup (Models \ R)
<1>1. S \in SUBSET Models
  OBVIOUS
<1>2. ASSUME NEW n \in Models, Holds(n, S)
      PROVE  n \in S
  <2>1. CASE n \in R
    <3>1. PICK field \in model_fields[n] : HasSpec(field.annotation, S)
      BY <1>2 DEF Holds
    <3>2. IsThrough(field.annotation) /\ field.annotation.leaf \in W \cup {"bytes"}
      <4>1. /\ IsThrough(field.annotation)
            /\ \/ field.annotation.leaf = "bytes"
               \/ field.annotation.leaf \in S /\ field.annotation.leaf \in Successors(n)
        BY <1>1, <3>1, HoldsThrough
      <4> QED BY <2>1, <4>1
    <3>3. Holds(n, W)
      BY <3>2 DEF Holds, HasSpec
    <3> QED BY <2>1, <3>3
  <2> QED BY <2>1
<1>3. ByteHolders \subseteq S
  BY <1>1, <1>2 DEF ByteHolders
<1> QED BY <1>3

(* The plan of a model of a closed set needs no other holders.             *)
LEMMA PlanAgrees ==
  ASSUME NEW R \in SUBSET Models, \A m \in R : Successors(m) \subseteq R,
         NEW W, W = ByteHolders \cap R, NEW m \in R
  PROVE  PlanOf(model_fields[m], W) = PlanOf(model_fields[m], ByteHolders)
<1>1. ASSUME NEW field \in model_fields[m]
      PROVE  HasSpec(field.annotation, W) <=> HasSpec(field.annotation, ByteHolders)
  <2>1. ASSUME HasSpec(field.annotation, ByteHolders) PROVE HasSpec(field.annotation, W)
    <3>1. ByteHolders \subseteq Models
      BY DEF ByteHolders
    <3>2. IsThrough(field.annotation) /\ field.annotation.leaf \in W \cup {"bytes"}
      BY <2>1, <3>1, HoldsThrough
    <3> QED BY <3>2 DEF HasSpec
  <2> QED BY <2>1 DEF HasSpec
<1> QED BY <1>1 DEF PlanOf

(* The schema is constant, and so is what it holds.                        *)
LEMMA Unchanged ==
  ASSUME model_fields' = model_fields
  PROVE  /\ ByteHolders' = ByteHolders
         /\ \A m : Successors(m)' = Successors(m)
  BY DEF ByteHolders, Holds, Successors

(* A model is not taken for a label of pc.                                 *)
LEMMA NoLabel ==
  \A m \in Models : m # None /\ m \notin {"idle", "cached", "reach", "mark", "check", "apply"}
  BY ModelsAssumption

(* Without calls and plans the invariant holds.                            *)
LEMMA InitInv == ASSUME Init PROVE IInv
  BY NoLabel, ModelsAssumption
     DEF Init, IInv, TypeOK, ThreadInv, Closed, Found, AllFound, Labels, Stored, Storing,
         PlansExact, AppliesExactly, PlannedOnward

(* What a step of another thread leaves true of u.                         *)
LEMMA OtherThread ==
  ASSUME NEW u \in Threads, ThreadInv(u), model_fields' = model_fields,
         pc'[u] = pc[u], model_class'[u] = model_class[u], pending'[u] = pending[u],
         reachable'[u] = reachable[u], with_bytes'[u] = with_bytes[u], todo'[u] = todo[u],
         reachable[u] \subseteq Models,
         \A m \in Models : plans[m] # None => plans'[m] # None
  PROVE  ThreadInv(u)'
<1>1. ByteHolders' = ByteHolders /\ \A m : Successors(m)' = Successors(m)
  BY Unchanged
<1>2. Closed(u)' /\ Found(u)'
  BY <1>1 DEF ThreadInv, Closed, Found
<1>3. AllFound(u)' /\ Labels(u)'
  BY <1>1 DEF ThreadInv, AllFound, Labels, Storing
<1>4. Stored(u)'
  BY DEF ThreadInv, Stored, Storing
<1> QED BY <1>2, <1>3, <1>4 DEF ThreadInv

(* A step that stores nothing, and forgets nothing that is to be stored.   *)
LEMMA SamePlans ==
  ASSUME IInv, model_fields' = model_fields, plans' = plans,
         \A t \in Threads : todo[t] \subseteq todo'[t] \/ \A n \in todo[t] \ todo'[t] : plans[n] # None
  PROVE  PlansExact' /\ PlannedOnward'
<1>1. ByteHolders' = ByteHolders /\ \A m : Successors(m)' = Successors(m)
  BY Unchanged
<1>2. PlansExact'
  BY <1>1 DEF IInv, PlansExact
<1>3. ASSUME NEW n, Planned(n) PROVE Planned(n)'
  BY <1>3 DEF Planned
<1>4. PlannedOnward'
  BY <1>1, <1>3 DEF IInv, PlannedOnward
<1> QED BY <1>2, <1>4

(* A step of t that leaves the plans of other threads alone, and its own   *)
(* exact.                                                                  *)
LEMMA SameApplies ==
  ASSUME IInv, model_fields' = model_fields, NEW t \in Threads,
         \A u \in Threads \ {t} : pc'[u] = pc[u] /\ plan'[u] = plan[u] /\ model_class'[u] = model_class[u],
         pc'[t] = "apply" => plan'[t] = PlanOf(model_fields[model_class'[t]], ByteHolders)
  PROVE  AppliesExactly'
<1>1. ByteHolders' = ByteHolders
  BY Unchanged
<1> QED BY <1>1 DEF IInv, AppliesExactly

(* A call begins, with the plan if there is one.                           *)
LEMMA ConvertInv == ASSUME IInv, NEW t \in Threads, Convert(t) PROVE IInv'
<1>1. PICK m \in Models :
        /\ pc[t] = "idle" /\ model_class' = [model_class EXCEPT ![t] = m]
        /\ Got(t, plans[m]) /\ Goto(t, IF plans[m] = None THEN "cached" ELSE "apply")
        /\ UNCHANGED <<model_fields, plans, locals, nesting>>
  BY DEF Convert
<1>2. TypeOK'
  BY <1>1 DEF IInv, TypeOK, Got, Goto, locals
<1>3. \A u \in Threads \ {t} : ThreadInv(u)'
  BY <1>1, OtherThread DEF IInv, TypeOK, Got, Goto, locals
<1>4. ThreadInv(t)'
  <2>1. ByteHolders' = ByteHolders /\ \A k : Successors(k)' = Successors(k)
    BY <1>1, Unchanged
  <2>2. /\ pc'[t] \in {"cached", "apply"} /\ model_class'[t] = m
        /\ ~Storing(t) /\ ~Storing(t)'
    BY <1>1, NoLabel DEF IInv, TypeOK, Goto, Storing
  <2>3. /\ pending[t] = {} /\ reachable[t] = {} /\ with_bytes[t] = {} /\ todo[t] = {}
    BY <1>1, <2>2 DEF IInv, ThreadInv, Labels
  <2>4. Closed(t)' /\ Found(t)' /\ AllFound(t)' /\ Stored(t)'
    BY <1>1, <2>1, <2>2, <2>3 DEF Closed, Found, AllFound, Stored, locals
  <2>5. Labels(t)'
    BY <1>1, <2>2, <2>3, NoLabel DEF Labels, locals
  <2> QED BY <2>4, <2>5 DEF ThreadInv
<1>5. PlansExact' /\ PlannedOnward'
  BY <1>1, SamePlans DEF locals
<1>6. AppliesExactly'
  <2>1. pc'[t] = "apply" => plan'[t] = PlanOf(model_fields[m], ByteHolders)
    BY <1>1 DEF IInv, TypeOK, PlansExact, Got, Goto
  <2> QED BY <1>1, <2>1, SameApplies DEF IInv, TypeOK, Got, Goto
<1> QED BY <1>2, <1>3, <1>4, <1>5, <1>6 DEF IInv

(* The class has got a plan by now.                                        *)
LEMMA HitInv == ASSUME IInv, NEW t \in Threads, Hit(t) PROVE IInv'
<1>1. /\ pc[t] = "cached" /\ plans[model_class[t]] # None
      /\ Got(t, plans[model_class[t]]) /\ Goto(t, "apply")
      /\ UNCHANGED <<model_fields, plans, model_class, locals, nesting>>
  BY DEF Hit
<1>2. TypeOK'
  BY <1>1 DEF IInv, TypeOK, Got, Goto, locals
<1>3. \A u \in Threads \ {t} : ThreadInv(u)'
  BY <1>1, OtherThread DEF IInv, TypeOK, Got, Goto, locals
<1>4. ThreadInv(t)'
  <2>1. ByteHolders' = ByteHolders /\ \A k : Successors(k)' = Successors(k)
    BY <1>1, Unchanged
  <2>2. pc'[t] = "apply" /\ ~Storing(t) /\ ~Storing(t)'
    BY <1>1, NoLabel DEF IInv, TypeOK, Goto, Storing
  <2>3. /\ pending[t] = {} /\ reachable[t] = {} /\ with_bytes[t] = {} /\ todo[t] = {}
        /\ model_class[t] \in Models
    BY <1>1, <2>2 DEF IInv, ThreadInv, Labels
  <2>4. Closed(t)' /\ Found(t)' /\ AllFound(t)' /\ Stored(t)'
    BY <1>1, <2>1, <2>2, <2>3 DEF Closed, Found, AllFound, Stored, locals
  <2>5. Labels(t)'
    BY <1>1, <2>2, <2>3, NoLabel DEF Labels, locals
  <2> QED BY <2>4, <2>5 DEF ThreadInv
<1>5. PlansExact' /\ PlannedOnward'
  BY <1>1, SamePlans DEF locals
<1>6. AppliesExactly'
  <2>1. model_class[t] \in Models
    BY <1>1 DEF IInv, ThreadInv, Labels
  <2>2. plan'[t] = PlanOf(model_fields[model_class'[t]], ByteHolders)
    BY <1>1, <2>1 DEF IInv, TypeOK, PlansExact, Got
  <2> QED BY <1>1, <2>2, SameApplies DEF IInv, TypeOK, Got, Goto
<1> QED BY <1>2, <1>3, <1>4, <1>5, <1>6 DEF IInv

(* It has none: the search begins.                                         *)
LEMMA MissInv == ASSUME IInv, NEW t \in Threads, Miss(t) PROVE IInv'
<1>1. /\ pc[t] = "cached" /\ pending' = [pending EXCEPT ![t] = {model_class[t]}] /\ Goto(t, "reach")
      /\ UNCHANGED <<model_fields, plans, model_class, reachable, with_bytes, todo, plan, nesting>>
  BY DEF Miss
<1>2. model_class[t] \in Models
  BY <1>1 DEF IInv, ThreadInv, Labels
<1>3. TypeOK'
  BY <1>1, <1>2 DEF IInv, TypeOK, Goto
<1>4. \A u \in Threads \ {t} : ThreadInv(u)'
  BY <1>1, OtherThread DEF IInv, TypeOK, Goto
<1>5. ThreadInv(t)'
  <2>1. ByteHolders' = ByteHolders /\ \A k : Successors(k)' = Successors(k)
    BY <1>1, Unchanged
  <2>2. pc'[t] = "reach" /\ ~Storing(t) /\ ~Storing(t)'
    BY <1>1, NoLabel DEF IInv, TypeOK, Goto, Storing
  <2>3. reachable[t] = {} /\ with_bytes[t] = {} /\ todo[t] = {} /\ pending'[t] = {model_class[t]}
    BY <1>1, <2>2 DEF IInv, TypeOK, ThreadInv, Labels
  <2>4. Closed(t)' /\ Found(t)' /\ AllFound(t)' /\ Stored(t)'
    BY <1>1, <2>1, <2>2, <2>3 DEF Closed, Found, AllFound, Stored
  <2>5. Labels(t)'
    BY <1>1, <1>2, <2>2, <2>3, NoLabel DEF Labels
  <2> QED BY <2>4, <2>5 DEF ThreadInv
<1>6. PlansExact' /\ PlannedOnward'
  BY <1>1, SamePlans
<1>7. AppliesExactly'
  BY <1>1, SameApplies DEF IInv, TypeOK, Goto
<1> QED BY <1>3, <1>4, <1>5, <1>6, <1>7 DEF IInv

(* A round of the search.                                                  *)
LEMMA ReachInv == ASSUME IInv, NEW t \in Threads, Reach(t) PROVE IInv'
<1>1. PICK current \in pending[t] :
        /\ pc[t] = "reach"
        /\ IF current \in reachable[t]
           THEN pending' = [pending EXCEPT ![t] = @ \ {current}] /\ UNCHANGED reachable
           ELSE /\ reachable' = [reachable EXCEPT ![t] = @ \cup {current}]
                /\ pending' = [pending EXCEPT ![t] = (@ \ {current}) \cup Successors(current)]
        /\ UNCHANGED <<model_fields, plans, pc, model_class, with_bytes, todo, plan, nesting>>
  BY DEF Reach
<1>2. current \in Models /\ pending[t] \subseteq Models /\ reachable[t] \subseteq Models
  BY <1>1 DEF IInv, TypeOK
<1>3. TypeOK'
  BY <1>1, <1>2, SuccessorModels DEF IInv, TypeOK
<1>4. \A u \in Threads \ {t} : ThreadInv(u)'
  BY <1>1, OtherThread DEF IInv, TypeOK
<1>5. ThreadInv(t)'
  <2>1. ByteHolders' = ByteHolders /\ \A k : Successors(k)' = Successors(k)
    BY <1>1, Unchanged
  <2>2. ~Storing(t) /\ ~Storing(t)'
    BY <1>1, NoLabel DEF Storing
  <2>3. /\ reachable'[t] = reachable[t] \cup {current}
        /\ pending'[t] = pending[t] \ {current} \/ pending'[t] = (pending[t] \ {current}) \cup Successors(current)
    BY <1>1 DEF IInv, TypeOK
  <2>4. Closed(t)'
    <3>1. Closed(t)
      BY DEF IInv, ThreadInv
    <3>2. CASE current \in reachable[t]
      BY <1>1, <2>1, <2>3, <3>1, <3>2 DEF Closed
    <3>3. CASE current \notin reachable[t]
      <4>1. pending'[t] = (pending[t] \ {current}) \cup Successors(current)
        BY <1>1, <3>3 DEF IInv, TypeOK
      <4> QED BY <2>1, <2>3, <3>1, <4>1 DEF Closed
    <3> QED BY <3>2, <3>3
  <2>5. Found(t)' /\ AllFound(t)' /\ Stored(t)'
    BY <1>1, <2>1, <2>2, <2>3 DEF IInv, ThreadInv, Found, AllFound, Stored
  <2>6. Labels(t)'
    BY <1>1, <2>2, <2>3, NoLabel DEF IInv, ThreadInv, Labels, Storing
  <2> QED BY <2>4, <2>5, <2>6 DEF ThreadInv
<1>6. PlansExact' /\ PlannedOnward'
  BY <1>1, SamePlans
<1>7. AppliesExactly'
  BY <1>1, SameApplies
<1> QED BY <1>3, <1>4, <1>5, <1>6, <1>7 DEF IInv

(* The reachable models are closed when nothing is pending.                *)
LEMMA ReachedInv == ASSUME IInv, NEW t \in Threads, Reached(t) PROVE IInv'
<1>1. /\ pc[t] = "reach" /\ pending[t] = {} /\ Goto(t, "mark")
      /\ UNCHANGED <<model_fields, plans, model_class, locals, plan, nesting>>
  BY DEF Reached
<1>2. TypeOK'
  BY <1>1 DEF IInv, TypeOK, Goto, locals
<1>3. \A u \in Threads \ {t} : ThreadInv(u)'
  BY <1>1, OtherThread DEF IInv, TypeOK, Goto, locals
<1>4. ThreadInv(t)'
  <2>1. ByteHolders' = ByteHolders /\ \A k : Successors(k)' = Successors(k)
    BY <1>1, Unchanged
  <2>2. pc'[t] = "mark" /\ ~Storing(t) /\ ~Storing(t)'
    BY <1>1, NoLabel DEF IInv, TypeOK, Goto, Storing
  <2>3. Closed(t)' /\ Found(t)' /\ AllFound(t)' /\ Stored(t)'
    BY <1>1, <2>1, <2>2 DEF IInv, ThreadInv, Closed, Found, AllFound, Stored, locals
  <2>4. Labels(t)'
    BY <1>1, <2>2, NoLabel DEF IInv, ThreadInv, Labels, locals
  <2> QED BY <2>3, <2>4 DEF ThreadInv
<1>5. PlansExact' /\ PlannedOnward'
  BY <1>1, SamePlans DEF locals
<1>6. AppliesExactly'
  BY <1>1, SameApplies DEF IInv, TypeOK, Goto, locals
<1> QED BY <1>2, <1>3, <1>4, <1>5, <1>6 DEF IInv

(* A round of the marking; the last finds the fixed point.                 *)
LEMMA MarkInv == ASSUME IInv, NEW t \in Threads, Mark(t) PROVE IInv'
<1> DEFINE found == {m \in reachable[t] : Holds(m, with_bytes[t])}
<1>1. /\ pc[t] = "mark"
      /\ with_bytes' = [with_bytes EXCEPT ![t] = found]
      /\ IF found = with_bytes[t]
         THEN Goto(t, "check") /\ todo' = [todo EXCEPT ![t] = reachable[t]]
         ELSE UNCHANGED <<pc, todo>>
      /\ UNCHANGED <<model_fields, plans, model_class, pending, reachable, plan, nesting>>
  BY DEF Mark
<1>2. reachable[t] \in SUBSET Models /\ found \in SUBSET Models
  BY DEF IInv, TypeOK
<1>3. pending[t] = {} /\ Closed(t) /\ Found(t) /\ Labels(t)
  BY <1>1 DEF IInv, ThreadInv, Labels
<1>4. found \subseteq ByteHolders \cap reachable[t]
  <2> SUFFICES ASSUME NEW m \in reachable[t], Holds(m, with_bytes[t]) PROVE m \in ByteHolders
    OBVIOUS
  <2>1. Holds(m, ByteHolders)
    BY <1>3, Monotone DEF Found
  <2> QED BY <1>2, <2>1, HoldersClosed
<1>5. found = with_bytes[t] => found = ByteHolders \cap reachable[t]
  <2>1. \A m \in reachable[t] : Successors(m) \subseteq reachable[t]
    BY <1>3 DEF Closed
  <2> QED BY <1>2, <1>4, <2>1, FixedPoint
<1> HIDE DEF found
<1>6. TypeOK'
  BY <1>1, <1>2 DEF IInv, TypeOK, Goto
<1>7. \A u \in Threads \ {t} : ThreadInv(u)'
  BY <1>1, OtherThread DEF IInv, TypeOK, Goto
<1>8. /\ with_bytes'[t] = found
      /\ \/ found = with_bytes[t] /\ pc'[t] = "check" /\ todo'[t] = reachable[t]
         \/ pc'[t] = "mark" /\ todo'[t] = todo[t]
  BY <1>1 DEF IInv, TypeOK, Goto
<1>9. ThreadInv(t)'
  <2>1. ByteHolders' = ByteHolders /\ \A k : Successors(k)' = Successors(k)
    BY <1>1, Unchanged
  <2>2. Closed(t)' /\ Found(t)'
    BY <1>1, <1>3, <1>4, <1>8, <2>1 DEF Closed, Found
  <2>3. AllFound(t)' /\ Stored(t)'
    BY <1>1, <1>3, <1>5, <1>8, <2>1, NoLabel DEF AllFound, Stored, Storing
  <2>4. Labels(t)'
    BY <1>1, <1>3, <1>8, NoLabel DEF Labels, Storing
  <2> QED BY <2>2, <2>3, <2>4 DEF ThreadInv
<1>10. PlansExact' /\ PlannedOnward'
  <2>1. todo[t] = {}
    BY <1>1, <1>3, NoLabel DEF Labels, Storing
  <2>2. \A u \in Threads : todo[u] \subseteq todo'[u]
    BY <1>1, <2>1 DEF IInv, TypeOK
  <2> QED BY <1>1, <2>2, SamePlans
<1>11. AppliesExactly'
  BY <1>1, <1>8, SameApplies DEF IInv, TypeOK, Goto
<1> QED BY <1>6, <1>7, <1>9, <1>10, <1>11 DEF IInv

(* A model has a plan already, or is chosen to be stored.                  *)
LEMMA CheckInv == ASSUME IInv, NEW t \in Threads, Check(t) PROVE IInv'
<1>1. PICK m \in todo[t] :
        /\ pc[t] = "check"
        /\ \/ plans[m] # None /\ todo' = [todo EXCEPT ![t] = @ \ {m}] /\ UNCHANGED pc
           \/ plans[m] = None /\ Goto(t, m) /\ UNCHANGED todo
        /\ UNCHANGED <<model_fields, plans, model_class, pending, reachable, with_bytes, plan, nesting>>
  BY DEF Check
<1>2. m \in Models
  BY <1>1 DEF IInv, TypeOK
<1>3. TypeOK'
  BY <1>1, <1>2 DEF IInv, TypeOK, Goto
<1>4. \A u \in Threads \ {t} : ThreadInv(u)'
  BY <1>1, OtherThread DEF IInv, TypeOK, Goto
<1>5. \/ plans[m] # None /\ todo'[t] = todo[t] \ {m} /\ pc'[t] = "check"
      \/ todo'[t] = todo[t] /\ pc'[t] = m
  BY <1>1 DEF IInv, TypeOK, Goto
<1>6. ThreadInv(t)'
  <2>1. ByteHolders' = ByteHolders /\ \A k : Successors(k)' = Successors(k)
    BY <1>1, Unchanged
  <2>2. Storing(t) /\ Storing(t)'
    BY <1>1, <1>2, <1>5 DEF Storing
  <2>3. Closed(t)' /\ Found(t)' /\ AllFound(t)' /\ Stored(t)'
    BY <1>1, <1>5, <2>1, <2>2 DEF IInv, ThreadInv, Closed, Found, AllFound, Stored
  <2>4. Labels(t)'
    BY <1>1, <1>2, <1>5, <2>2, NoLabel DEF IInv, ThreadInv, Labels
  <2> QED BY <2>3, <2>4 DEF ThreadInv
<1>7. PlansExact' /\ PlannedOnward'
  <2>1. \A u \in Threads : todo[u] \subseteq todo'[u] \/ \A n \in todo[u] \ todo'[u] : plans[n] # None
    BY <1>1, <1>5 DEF IInv, TypeOK
  <2> QED BY <1>1, <2>1, SamePlans
<1>8. AppliesExactly'
  BY <1>1, <1>2, <1>5, NoLabel, SameApplies DEF IInv, TypeOK, Goto
<1> QED BY <1>3, <1>4, <1>6, <1>7, <1>8 DEF IInv

(* The plan that is stored is exact.                                       *)
LEMMA StoreInv == ASSUME IInv, NEW t \in Threads, Store(t) PROVE IInv'
<1> DEFINE m == pc[t]
<1>1. /\ m \in Models
      /\ plans' = [plans EXCEPT ![m] = PlanOf(model_fields[m], with_bytes[t])]
      /\ todo' = [todo EXCEPT ![t] = @ \ {m}] /\ Goto(t, "check")
      /\ UNCHANGED <<model_fields, model_class, pending, reachable, with_bytes, plan, nesting>>
  BY DEF Store
<1>2. /\ Storing(t) /\ Closed(t) /\ AllFound(t) /\ Stored(t) /\ Labels(t) /\ Found(t)
      /\ m \in todo[t] /\ todo[t] \subseteq reachable[t] /\ pending[t] = {}
      /\ reachable[t] \in SUBSET Models /\ with_bytes[t] = ByteHolders \cap reachable[t]
  BY <1>1 DEF IInv, TypeOK, ThreadInv, Labels, Stored, AllFound, Storing
<1> HIDE DEF m
<1>3. \A n \in reachable[t] : Successors(n) \subseteq reachable[t]
  BY <1>2 DEF Closed
<1>4. PlanOf(model_fields[m], with_bytes[t]) = PlanOf(model_fields[m], ByteHolders)
  BY <1>2, <1>3, PlanAgrees
<1>5. PlanOf(model_fields[m], with_bytes[t]) # None
  <2>1. model_fields \in Schemas /\ with_bytes[t] \in SUBSET Models
    BY <1>2 DEF IInv, TypeOK
  <2> QED BY <1>1, <2>1, SchemasAssumption
<1>6. /\ plans'[m] = PlanOf(model_fields[m], ByteHolders) /\ plans'[m] # None
      /\ \A n \in Models : n # m => plans'[n] = plans[n]
  BY <1>1, <1>4, <1>5 DEF IInv, TypeOK
<1>7. ByteHolders' = ByteHolders /\ \A k : Successors(k)' = Successors(k)
  BY <1>1, Unchanged
<1>8. TypeOK'
  BY <1>1, <1>2 DEF IInv, TypeOK, Goto
<1>9. \A u \in Threads \ {t} : ThreadInv(u)'
  BY <1>1, <1>6, OtherThread DEF IInv, TypeOK, Goto
<1>10. todo'[t] = todo[t] \ {m} /\ pc'[t] = "check"
  BY <1>1 DEF IInv, TypeOK, Goto
<1>11. ThreadInv(t)'
  <2>1. Storing(t)'
    BY <1>10 DEF Storing
  <2>2. Closed(t)' /\ Found(t)' /\ AllFound(t)'
    BY <1>1, <1>2, <1>7 DEF Closed, Found, AllFound
  <2>3. Stored(t)'
    BY <1>1, <1>2, <1>6, <1>10 DEF Stored
  <2>4. Labels(t)'
    BY <1>1, <1>2, <1>10, <2>1, NoLabel DEF Labels, m
  <2> QED BY <2>2, <2>3, <2>4 DEF ThreadInv
<1>12. PlansExact'
  BY <1>1, <1>6, <1>7 DEF IInv, PlansExact
<1>13. PlannedOnward'
  <2>1. ASSUME NEW n \in Models, Planned(n) PROVE Planned(n)'
    <3>1. CASE n = m
      BY <1>6, <3>1 DEF Planned
    <3>2. CASE n # m
      <4>1. \A u \in Threads : n \in todo[u] => n \in todo'[u]
        BY <1>1, <3>2 DEF IInv, TypeOK
      <4> QED BY <1>6, <2>1, <3>2, <4>1 DEF Planned
    <3> QED BY <3>1, <3>2
  <2>2. \A n \in Successors(m) : Planned(n)
    <3> SUFFICES ASSUME NEW n \in Successors(m) PROVE Planned(n)
      OBVIOUS
    <3>1. n \in reachable[t]
      BY <1>2, <1>3
    <3> QED BY <1>2, <3>1 DEF Stored, Planned
  <2>3. ASSUME NEW k \in Models, plans'[k] # None, NEW n \in Successors(k) PROVE Planned(n)'
    <3>1. n \in Models
      BY SuccessorModels
    <3>2. Planned(n)
      BY <1>6, <2>2, <2>3 DEF IInv, PlannedOnward
    <3> QED BY <2>1, <3>1, <3>2
  <2> QED BY <1>7, <2>3 DEF PlannedOnward
<1>14. AppliesExactly'
  <2>1. \A u \in Threads : pc'[u] = "apply" => pc[u] = "apply"
    BY <1>1, <1>10 DEF IInv, TypeOK, Goto
  <2> QED BY <1>1, <1>7, <2>1 DEF IInv, AppliesExactly
<1> QED BY <1>8, <1>9, <1>11, <1>12, <1>13, <1>14 DEF IInv

(* Every reachable model has its plan.                                     *)
LEMMA ReturnInv == ASSUME IInv, NEW t \in Threads, Return(t) PROVE IInv'
<1>1. /\ pc[t] = "check" /\ todo[t] = {}
      /\ Got(t, plans[model_class[t]]) /\ Goto(t, "apply")
      /\ reachable' = [reachable EXCEPT ![t] = {}]
      /\ with_bytes' = [with_bytes EXCEPT ![t] = {}]
      /\ UNCHANGED <<model_fields, plans, model_class, pending, todo, nesting>>
  BY DEF Return
<1>2. /\ model_class[t] \in Models /\ pending[t] = {} /\ model_class[t] \in reachable[t]
      /\ plans[model_class[t]] # None
  <2>1. Storing(t)
    BY <1>1 DEF Storing
  <2>2. model_class[t] \in Models /\ pending[t] = {} /\ model_class[t] \in reachable[t]
    BY <1>1, <2>1 DEF IInv, ThreadInv, Labels, AllFound
  <2> QED BY <1>1, <2>1, <2>2 DEF IInv, ThreadInv, Stored
<1>3. TypeOK'
  BY <1>1 DEF IInv, TypeOK, Got, Goto
<1>4. \A u \in Threads \ {t} : ThreadInv(u)'
  BY <1>1, OtherThread DEF IInv, TypeOK, Got, Goto
<1>5. ThreadInv(t)'
  <2>1. pc'[t] = "apply" /\ ~Storing(t)' /\ reachable'[t] = {} /\ with_bytes'[t] = {}
    BY <1>1, NoLabel DEF IInv, TypeOK, Goto, Storing
  <2>2. Closed(t)' /\ Found(t)' /\ AllFound(t)' /\ Stored(t)'
    BY <2>1 DEF Closed, Found, AllFound, Stored
  <2>3. Labels(t)'
    BY <1>1, <1>2, <2>1, NoLabel DEF Labels
  <2> QED BY <2>2, <2>3 DEF ThreadInv
<1>6. PlansExact' /\ PlannedOnward'
  BY <1>1, SamePlans
<1>7. AppliesExactly'
  <2>1. plan'[t] = PlanOf(model_fields[model_class'[t]], ByteHolders)
    BY <1>1, <1>2 DEF IInv, TypeOK, PlansExact, Got
  <2> QED BY <1>1, <2>1, SameApplies DEF IInv, TypeOK, Got, Goto
<1> QED BY <1>3, <1>4, <1>5, <1>6, <1>7 DEF IInv

(* The caller asks for the plan of a model inside the value.               *)
LEMMA DescendInv == ASSUME IInv, NEW t \in Threads, Descend(t) PROVE IInv'
<1>1. PICK m \in Models :
        /\ pc[t] = "apply" /\ nesting[t] < MAX_NESTING
        /\ model_class' = [model_class EXCEPT ![t] = m]
        /\ nesting' = [nesting EXCEPT ![t] = @ + 1] /\ Got(t, None) /\ Goto(t, "cached")
        /\ UNCHANGED <<model_fields, plans, locals>>
  BY DEF Descend
<1>2. TypeOK'
  BY <1>1, ModelsAssumption DEF IInv, TypeOK, Got, Goto, locals
<1>3. \A u \in Threads \ {t} : ThreadInv(u)'
  BY <1>1, OtherThread DEF IInv, TypeOK, Got, Goto, locals
<1>4. ThreadInv(t)'
  <2>1. ByteHolders' = ByteHolders /\ \A k : Successors(k)' = Successors(k)
    BY <1>1, Unchanged
  <2>2. pc'[t] = "cached" /\ model_class'[t] = m /\ ~Storing(t) /\ ~Storing(t)'
    BY <1>1, NoLabel DEF IInv, TypeOK, Goto, Storing
  <2>3. /\ pending[t] = {} /\ reachable[t] = {} /\ with_bytes[t] = {} /\ todo[t] = {}
    BY <1>1, <2>2 DEF IInv, ThreadInv, Labels
  <2>4. Closed(t)' /\ Found(t)' /\ AllFound(t)' /\ Stored(t)'
    BY <1>1, <2>1, <2>2, <2>3 DEF Closed, Found, AllFound, Stored, locals
  <2>5. Labels(t)'
    BY <1>1, <2>2, <2>3, NoLabel DEF Labels, locals
  <2> QED BY <2>4, <2>5 DEF ThreadInv
<1>5. PlansExact' /\ PlannedOnward'
  BY <1>1, SamePlans DEF locals
<1>6. AppliesExactly'
  BY <1>1, SameApplies DEF IInv, TypeOK, Got, Goto
<1> QED BY <1>2, <1>3, <1>4, <1>5, <1>6 DEF IInv

(* The call ends.                                                          *)
LEMMA FinishInv == ASSUME IInv, NEW t \in Threads, Finish(t) PROVE IInv'
<1>1. /\ pc[t] = "apply" /\ Goto(t, "idle") /\ model_class' = [model_class EXCEPT ![t] = None]
      /\ Got(t, None) /\ nesting' = [nesting EXCEPT ![t] = 0]
      /\ UNCHANGED <<model_fields, plans, locals>>
  BY DEF Finish
<1>2. TypeOK'
  BY <1>1, ModelsAssumption DEF IInv, TypeOK, Got, Goto, locals
<1>3. \A u \in Threads \ {t} : ThreadInv(u)'
  BY <1>1, OtherThread DEF IInv, TypeOK, Got, Goto, locals
<1>4. ThreadInv(t)'
  <2>1. ByteHolders' = ByteHolders /\ \A k : Successors(k)' = Successors(k)
    BY <1>1, Unchanged
  <2>2. pc'[t] = "idle" /\ ~Storing(t) /\ ~Storing(t)'
    BY <1>1, NoLabel DEF IInv, TypeOK, Goto, Storing
  <2>3. /\ pending[t] = {} /\ reachable[t] = {} /\ with_bytes[t] = {} /\ todo[t] = {}
    BY <1>1, <2>2 DEF IInv, ThreadInv, Labels
  <2>4. Closed(t)' /\ Found(t)' /\ AllFound(t)' /\ Stored(t)'
    BY <1>1, <2>1, <2>2, <2>3 DEF Closed, Found, AllFound, Stored, locals
  <2>5. Labels(t)'
    BY <1>1, <2>2, <2>3, NoLabel DEF Labels, locals
  <2> QED BY <2>4, <2>5 DEF ThreadInv
<1>5. PlansExact' /\ PlannedOnward'
  BY <1>1, SamePlans DEF locals
<1>6. AppliesExactly'
  BY <1>1, SameApplies DEF IInv, TypeOK, Got, Goto
<1> QED BY <1>2, <1>3, <1>4, <1>5, <1>6 DEF IInv

(* The invariant of the steps above holds in every behaviour.              *)
THEOREM Inductive == Spec => []IInv
<1>1. Init => IInv
  BY InitInv
<1>2. IInv /\ [Next]_vars => IInv'
  <2> SUFFICES ASSUME IInv, [Next]_vars PROVE IInv'
    OBVIOUS
  <2>1. CASE UNCHANGED vars
    <3>1. ByteHolders' = ByteHolders /\ \A k : Successors(k)' = Successors(k)
      BY <2>1, Unchanged DEF vars
    <3>2. \A u \in Threads : ThreadInv(u)'
      BY <2>1, OtherThread DEF vars, locals, IInv, TypeOK
    <3>3. PlansExact' /\ PlannedOnward'
      BY <2>1, SamePlans DEF vars, locals
    <3> QED BY <2>1, <3>1, <3>2, <3>3 DEF IInv, TypeOK, AppliesExactly, vars, locals
  <2>2. CASE Next
    <3>1. PICK t \in Threads : Convert(t) \/ Call(t)
      BY <2>2 DEF Next
    <3> QED BY <3>1, ConvertInv, HitInv, MissInv, ReachInv, ReachedInv, MarkInv, CheckInv,
               StoreInv, ReturnInv, DescendInv, FinishInv DEF Call
  <2> QED BY <2>1, <2>2
<1> QED BY <1>1, <1>2, PTL DEF Spec

(* Every variable has its type (_pydantic.py).                             *)
THEOREM TypeCorrect == Spec => []TypeOK
<1>1. IInv => TypeOK
  BY DEF IInv
<1> QED BY <1>1, Inductive, PTL

(* Whatever threads run _plan at once, on whatever graph of models: every  *)
(* plan in _plans has exactly the fields that lead to bytes.               *)
THEOREM StoresExactPlans == Spec => []PlansExact
<1>1. IInv => PlansExact
  BY DEF IInv
<1> QED BY <1>1, Inductive, PTL

(* What model_to_json, model_from_json and _decode apply is the exact plan *)
(* of the model in hand.                                                   *)
THEOREM AppliesExactPlans == Spec => []AppliesExactly
<1>1. IInv => AppliesExactly
  BY DEF IInv
<1> QED BY <1>1, Inductive, PTL

(* A model reached from one with a plan has a plan, or a thread in _plan   *)
(* is about to store it.                                                   *)
THEOREM LeavesNoneOut == Spec => []NoneLeftOut
<1>1. IInv => NoneLeftOut
  <2> SUFFICES ASSUME IInv, NEW m \in Models, plans[m] # None, NEW n \in ReachedFrom(m)
               PROVE  Planned(n)
    BY DEF NoneLeftOut, Planned
  <2> DEFINE S == {k \in Models : Planned(k)}
  <2>1. m \in S
    BY DEF Planned
  <2>2. ASSUME NEW k \in S PROVE Successors(k) \subseteq S
    <3>1. CASE plans[k] # None
      BY <2>2, <3>1, SuccessorModels DEF IInv, PlannedOnward
    <3>2. CASE \E t \in Threads : k \in todo[t]
      <4>1. PICK t \in Threads : k \in todo[t]
        BY <3>2
      <4>2. Storing(t) /\ ThreadInv(t)
        BY <4>1 DEF IInv, ThreadInv, Labels
      <4>3. Successors(k) \subseteq reachable[t]
        BY <4>1, <4>2 DEF ThreadInv, Stored, AllFound, Closed
      <4>4. \A j \in reachable[t] : Planned(j)
        BY <4>2 DEF ThreadInv, Stored, Planned
      <4> QED BY <4>3, <4>4, SuccessorModels
    <3> QED BY <2>2, <3>1, <3>2 DEF Planned
  <2>3. S \in SUBSET Models
    OBVIOUS
  <2> HIDE DEF S
  <2>4. n \in S
    BY <2>1, <2>2, <2>3 DEF ReachedFrom
  <2> QED BY <2>4 DEF S
<1> QED BY <1>1, Inductive, PTL
=============================================================================
