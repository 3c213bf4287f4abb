---------------------- MODULE ResourceReconcileProofs ----------------------
(***************************************************************************)
(* Proofs about the resource pass, for any number of resources, owners and *)
(* contents.                                                               *)
(***************************************************************************)
EXTENDS ResourceReconcile, TLAPS

-----------------------------------------------------------------------------
(* The inductive invariant. *)

\* The loop is past slot r.  (In this module's own specification the worker is
\* never at "label", "resolve" or "write"; Controller has these steps before and
\* after the loop, and its proofs use this invariant too.)
Processed(r) == r < idx \/ pc = "state" \/ (pc = "write" /\ uid # Other)

\* Before the loop starts nothing is left of the last pass.
Clean == pc \in {"idle", "label", "resolve"} => idx = 1 /\ descendants = NoDescendants /\ errs = {}

\* The loop ends at the last slot.
LoopEnd == pc = "state" => idx = N

\* A slot that was passed without an error has a descendant exactly when it is
\* wanted; a slot not yet reached has none.
Progress ==
  \A r \in Resource :
    /\ Processed(r) /\ descendants[r] # "error" => (descendants[r] # "none" <=> want[r] # Nil)
    /\ ~Processed(r) => descendants[r] = "none"

\* A call is only made on what was read: an update or a delete of an object
\* that is ours, a create or an update of a wanted resource.
CallJustified ==
  pc = "call" =>
    /\ action \in {"create", "update", "delete"}
    /\ action \in {"update", "delete"} => IsControlledBy(current, uid)
    /\ action = "delete" <=> want[idx] = Nil

IInv == TypeOK /\ Clean /\ LoopEnd /\ FailuresReported /\ Progress /\ CallJustified

-----------------------------------------------------------------------------
(* Lemmas about the operators the pass is made of. *)

\* What DetermineReconcileAction answers: it asks for a write only where the
\* code may make one, and for none only when the slot is as it should be.
LEMMA ActionMeaning ==
  ASSUME NEW o \in Object \cup {NoObject}, NEW d \in Value \cup {Nil}, NEW u
  PROVE  LET a == DetermineReconcileAction(o, d, u)
         IN  /\ a \in {"create", "update", "delete", "none", "error"}
             /\ a \in {"update", "delete"} => IsControlledBy(o, u)
             /\ a = "delete" => d = Nil
             /\ a \in {"create", "update", "error"} => d # Nil
  BY DEF DetermineReconcileAction, IsControlledBy

\* A write keeps the store and the event markers well typed.
LEMMA StoreType ==
  ASSUME TypeOK, NEW r \in Known, NEW o \in Object \cup {NoObject}, Store(r, o)
  PROVE  /\ obj' \in [Known -> Object \cup {NoObject}]
         /\ pend' \in [Known -> {"no", "other", "ours"}]
         /\ \A q \in Known : q # r => obj'[q] = obj[q]
  BY DEF TypeOK, Store

\* A slot that is being worked on has no descendant yet.
LEMMA SlotEmpty ==
  ASSUME IInv, pc \in {"get", "call"}
  PROVE  /\ idx \in Resource
         /\ descendants[idx] = "none"
         /\ descendants = [descendants EXCEPT ![idx] = "none"]
  <1>1. idx \in Resource /\ ~Processed(idx)
    BY ConstantsAssumption DEF IInv, TypeOK, Processed, Resource
  <1> QED BY <1>1 DEF IInv, TypeOK, Progress

\* The common end of every way a slot can be handled.
LEMMA SlotDone ==
  ASSUME IInv, pc \in {"get", "call"},
         NEW failed \in BOOLEAN, NEW result \in Result,
         Return(failed),
         descendants' = [descendants EXCEPT ![idx] = result],
         failed <=> result = "error",
         ~failed => (result # "none" <=> want[idx] # Nil),
         UNCHANGED scopeVars,
         obj' \in [Known -> Object \cup {NoObject}],
         pend' \in [Known -> {"no", "other", "ours"}],
         UNCHANGED cache
  PROVE  IInv'
<1> USE ConstantsAssumption DEF IInv, scopeVars
<1>1. /\ idx \in Resource /\ idx' \in Resource
      /\ pc' \in {"get", "state"}
      /\ pc' = "state" => idx' = N
      /\ current' = NoObject /\ action' = "none"
      /\ errs' = IF failed THEN errs \cup {idx} ELSE errs
  BY DEF Return, TypeOK, Resource
<1>2. TypeOK'
  BY <1>1 DEF TypeOK
<1>3. FailuresReported'
  <2>0. \A r \in Resource : r \in errs <=> descendants[r] = "error"
    BY DEF FailuresReported
  <2>1. \A r \in Resource : r \in errs' <=> descendants'[r] = "error"
    <3>1. CASE failed
      BY <1>1, <2>0, <3>1 DEF TypeOK
    <3>2. CASE ~failed
      <4>1. idx \notin errs
        BY <1>1, <2>0, SlotEmpty
      <4> QED BY <1>1, <2>0, <3>2, <4>1 DEF TypeOK
    <3> QED BY <3>1, <3>2
  <2> QED BY <1>2, <2>1 DEF FailuresReported, TypeOK
<1>4. \A r \in Resource : (Processed(r))' <=> Processed(r) \/ r = idx
  BY DEF Processed, Return, TypeOK, Resource, LoopEnd
<1>5. Progress'
  <2> SUFFICES ASSUME NEW r \in Resource
               PROVE  /\ (Processed(r))' /\ descendants'[r] # "error"
                            => (descendants'[r] # "none" <=> want'[r] # Nil)
                      /\ ~(Processed(r))' => descendants'[r] = "none"
    BY DEF Progress
  <2>1. CASE r = idx
    BY <2>1, <1>1, <1>4 DEF TypeOK
  <2>2. CASE r # idx
    BY <2>2, <1>1, <1>4 DEF TypeOK, Progress
  <2> QED BY <2>1, <2>2
<1>6. Clean' /\ LoopEnd' /\ CallJustified'
  BY <1>1 DEF Clean, LoopEnd, CallJustified
<1> QED BY <1>2, <1>3, <1>5, <1>6

-----------------------------------------------------------------------------
(* One lemma for each part of the next-state relation. *)

\* The initial states, between two passes, satisfy the invariant.
LEMMA InitIInv == Init => IInv
  BY ConstantsAssumption
  DEF Init, PassInit, IInv, TypeOK, Clean, LoopEnd, FailuresReported, Progress,
      CallJustified, Processed, NoDescendants, NothingWanted, Resource, Result, Owner, Unpublished

\* ResolveSecurityConfig hands a fresh scope to the loop of doReconcile.
LEMMA StartIInv ==
  ASSUME IInv, NEW u \in Uid, NEW w \in [Resource -> Value \cup {Nil}], StartPass(u, w)
  PROVE  IInv'
<1> USE DEF IInv, StartPass, storeVars, slotVars
<1>1. TypeOK'
  BY DEF TypeOK, Owner
<1>2. Clean' /\ LoopEnd' /\ FailuresReported' /\ CallJustified'
  BY DEF Clean, LoopEnd, FailuresReported, CallJustified
<1>3. Progress'
  BY ConstantsAssumption DEF Progress, Processed, Clean, NoDescendants, Resource
<1> QED BY <1>1, <1>2, <1>3

\* The end of a pass clears what it kept.
LEMMA EndIInv ==
  ASSUME IInv, EndPass
  PROVE  IInv'
  BY ConstantsAssumption
  DEF IInv, EndPass, storeVars, TypeOK, Clean, LoopEnd, FailuresReported, Progress,
      CallJustified, Processed, NoDescendants, NothingWanted, Resource, Result, Owner

\* Reading a slot and choosing its action (ReconcileControllerResource) keeps
\* the invariant, whether it fails, is refused, or asks for a call or for none.
LEMMA GetIInv ==
  ASSUME IInv, GetFails \/ RefuseUnowned \/ NoActionNeeded \/ ChooseCall
  PROVE  IInv'
<1>0. /\ pc = "get" /\ TypeOK
      /\ cache[idx] \in Object \cup {NoObject} /\ want[idx] \in Value \cup {Nil}
  BY SlotEmpty DEF IInv, TypeOK, Known, GetFails, RefuseUnowned, NoActionNeeded, ChooseCall
<1>1. CASE GetFails
  BY <1>0, <1>1, SlotDone DEF GetFails, ReplaceDescendant, storeVars, TypeOK, Result
<1>2. CASE RefuseUnowned
  BY <1>0, <1>2, SlotDone DEF RefuseUnowned, ReplaceDescendant, storeVars, TypeOK, Result
<1>3. CASE NoActionNeeded
  <2>1. CASE want[idx] # Nil
    BY <1>0, <1>3, <2>1, SlotDone
    DEF NoActionNeeded, ReplaceDescendant, storeVars, TypeOK, Result
  <2>2. CASE want[idx] = Nil
    <3>1. descendants' = [descendants EXCEPT ![idx] = "none"]
      BY <1>0, <1>3, <2>2, SlotEmpty DEF NoActionNeeded
    <3> QED
      BY <1>0, <1>3, <2>2, <3>1, SlotDone DEF NoActionNeeded, storeVars, TypeOK, Result
  <2> QED BY <2>1, <2>2
<1>4. CASE ChooseCall
  <2>1. TypeOK'
    BY <1>0, <1>4 DEF ChooseCall, TypeOK, storeVars, scopeVars
  <2>2. Clean' /\ LoopEnd' /\ FailuresReported'
    BY <1>4 DEF IInv, ChooseCall, Clean, LoopEnd, FailuresReported
  <2>3. Progress'
    BY <1>0, <1>4 DEF IInv, ChooseCall, Progress, Processed, scopeVars
  <2>4. CallJustified'
    BY <1>0, <1>4, ActionMeaning DEF ChooseCall, Chosen, CallJustified, scopeVars, IsControlledBy
  <2> QED BY <2>1, <2>2, <2>3, <2>4 DEF IInv
<1> QED BY <1>1, <1>2, <1>3, <1>4

\* ReconcileOnCreate, ReconcileOnUpdate and ReconcileOnDelete keep it,
\* however the API server answers.
LEMMA CallIInv ==
  ASSUME IInv, NEW outcome \in Outcome,
         \/ ReconcileOnCreate(outcome)
         \/ ReconcileOnUpdate(outcome)
         \/ ReconcileOnDelete(outcome)
  PROVE  IInv'
<1>0. /\ pc = "call" /\ TypeOK /\ CallJustified
      /\ idx \in Resource /\ idx \in Known
      /\ want[idx] \in Value \cup {Nil} /\ uid \in Owner
      /\ obj[idx] \in Object \cup {NoObject}
  BY SlotEmpty DEF IInv, TypeOK, Known, ReconcileOnCreate, ReconcileOnUpdate, ReconcileOnDelete
<1>1. CASE ReconcileOnCreate(outcome)
  <2> DEFINE failed == outcome # "ok" \/ obj[idx] # NoObject
             new    == [owner |-> uid, val |-> want[idx], sync |-> Nil]
  <2>1. want[idx] # Nil /\ new \in Object
    BY <1>0, <1>1 DEF ReconcileOnCreate, CallJustified, Object
  <2>2. /\ obj' \in [Known -> Object \cup {NoObject}]
        /\ pend' \in [Known -> {"no", "other", "ours"}]
    BY <1>0, <1>1, <2>1, StoreType DEF ReconcileOnCreate, storeVars, TypeOK
  <2> QED
    BY <1>0, <1>1, <2>1, <2>2, SlotDone DEF ReconcileOnCreate, ReplaceDescendant, Result
<1>2. CASE ReconcileOnUpdate(outcome)
  <2>1. want[idx] # Nil /\ (obj[idx] # NoObject => WithContent(obj[idx], want[idx]) \in Object)
    BY <1>0, <1>2 DEF ReconcileOnUpdate, CallJustified, Object, WithContent
  <2>2. /\ obj' \in [Known -> Object \cup {NoObject}]
        /\ pend' \in [Known -> {"no", "other", "ours"}]
    BY <1>0, <1>2, <2>1, StoreType DEF ReconcileOnUpdate, storeVars, TypeOK
  <2> QED
    BY <1>0, <1>2, <2>1, <2>2, SlotDone DEF ReconcileOnUpdate, ReplaceDescendant, Result
<1>3. CASE ReconcileOnDelete(outcome)
  <2> DEFINE failed == outcome # "ok" \/ obj[idx] = NoObject
  <2>1. want[idx] = Nil
    BY <1>0, <1>3 DEF ReconcileOnDelete, CallJustified
  <2>2. /\ obj' \in [Known -> Object \cup {NoObject}]
        /\ pend' \in [Known -> {"no", "other", "ours"}]
    BY <1>0, <1>3, StoreType DEF ReconcileOnDelete, storeVars, TypeOK
  <2>3. descendants' = [descendants EXCEPT ![idx] = IF failed THEN "error" ELSE "none"]
    BY <1>0, <1>3, SlotEmpty DEF ReconcileOnDelete, ReplaceDescendant
  <2> QED
    BY <1>0, <1>3, <2>1, <2>2, <2>3, SlotDone DEF ReconcileOnDelete, Result
<1> QED BY <1>1, <1>2, <1>3

\* The rest of the cluster touches nothing of the pass.
LEMMA EnvironmentIInv ==
  ASSUME IInv, Environment
  PROVE  IInv'
<1> USE DEF IInv
<1>1. UNCHANGED passVars
  BY DEF Environment
<1>2. TypeOK'
  <2>1. ASSUME NEW r \in Known, Deliver(r) PROVE TypeOK'
    BY <1>1, <2>1 DEF Deliver, TypeOK, passVars, scopeVars, slotVars
  <2>2. ASSUME NEW r \in Known, NEW o \in Unpublished, ForeignWrite(r, o), UNCHANGED cache
        PROVE  TypeOK'
    BY <1>1, <2>2, StoreType DEF ForeignWrite, Unpublished, TypeOK, passVars, scopeVars, slotVars
  <2>3. ASSUME NEW r \in Known, ForeignDelete(r), UNCHANGED cache PROVE TypeOK'
    BY <1>1, <2>3, StoreType DEF ForeignDelete, TypeOK, passVars, scopeVars, slotVars
  <2> QED BY <2>1, <2>2, <2>3 DEF Environment
<1>3. Clean' /\ LoopEnd' /\ FailuresReported' /\ Progress' /\ CallJustified'
  BY <1>1 DEF passVars, scopeVars, slotVars, Clean, LoopEnd, FailuresReported, Progress,
              Processed, CallJustified
<1> QED BY <1>2, <1>3

\* One step of doReconcile's loop keeps it.
LEMMA StepIInv ==
  ASSUME IInv, NEW outcome \in Outcome, ReconcileStep(outcome)
  PROVE  IInv'
  BY GetIInv, CallIInv DEF ReconcileStep

\* Every step keeps the invariant.
LEMMA NextIInv ==
  ASSUME IInv, [Next]_rrVars
  PROVE  IInv'
<1>2. CASE UNCHANGED rrVars
  BY <1>2 DEF IInv, rrVars, storeVars, passVars, scopeVars, slotVars, TypeOK, Clean, LoopEnd,
              FailuresReported, Progress, Processed, CallJustified
<1> QED BY <1>2, StepIInv, StartIInv, EndIInv, EnvironmentIInv DEF Next

-----------------------------------------------------------------------------
(* The results. *)

\* The inductive invariant holds throughout: everything below follows from it.
THEOREM Invariance == Spec => []IInv
  BY InitIInv, NextIInv, PTL DEF Spec

\* The pass never leaves its types: the loop stays inside the slice of
\* ControllerResources and records one of the known messages per slot.
THEOREM TypeCorrect == Spec => []TypeOK
  <1>1. IInv => TypeOK
    BY DEF IInv
  <1> QED BY Invariance, <1>1, PTL

\* The errors doReconcile returns are exactly the error descendants its status
\* update will find.
THEOREM FailuresAreReported == Spec => []FailuresReported
  <1>1. IInv => FailuresReported
    BY DEF IInv
  <1> QED BY Invariance, <1>1, PTL

\* A loop without errors leaves one descendant per non-nil resource, whatever
\* the other writers do and however stale the cache is.
THEOREM DescendantsAreComplete == Spec => []DescendantsComplete
  <1>1. IInv => DescendantsComplete
    <2> SUFFICES ASSUME IInv, pc = "state", errs = {}
                 PROVE  {r \in Resource : descendants[r] # "none"} = {r \in Resource : want[r] # Nil}
      BY DEF DescendantsComplete
    <2>1. \A r \in Resource : descendants[r] # "error"
      BY DEF IInv, FailuresReported
    <2>2. \A r \in Resource : descendants[r] # "none" <=> want[r] # Nil
      BY <2>1 DEF IInv, Progress, Processed
    <2> QED BY <2>2
  <1> QED BY Invariance, <1>1, PTL

\* ReconcileOnUpdate and ReconcileOnDelete reach the API server only for an
\* object that was the SecurityConfig's own when it was read, and
\* ReconcileOnCreate only fills an empty name.
THEOREM OnlyOwnedIsWritten == Spec => WritesOnlyOwned
<1> DEFINE Allowed == \A r \in Known : WorkerStep /\ obj'[r] # obj[r] =>
                        \/ IsControlledBy(current, uid)
                        \/ action = "create" /\ obj[r] = NoObject
<1>1. IInv /\ [Next]_rrVars => [Allowed]_rrVars
  <2> SUFFICES ASSUME IInv, Next, NEW r \in Known, WorkerStep, obj'[r] # obj[r]
               PROVE  \/ IsControlledBy(current, uid)
                      \/ action = "create" /\ obj[r] = NoObject
    OBVIOUS
  <2>0. idx \in Known /\ TypeOK
    BY DEF IInv, TypeOK, Known
  <2>1. ~ Environment
    BY DEF Environment, WorkerStep, passVars, slotVars
  <2>2. ~ EndPass /\ ~ \E u \in Uid, w \in [Resource -> Value \cup {Nil}] : StartPass(u, w)
    BY DEF EndPass, StartPass, storeVars
  <2>3. PICK outcome \in Outcome : ReconcileStep(outcome)
    BY <2>1, <2>2 DEF Next
  <2>4. ~ (GetFails \/ RefuseUnowned \/ NoActionNeeded \/ ChooseCall)
    BY DEF GetFails, RefuseUnowned, NoActionNeeded, ChooseCall, storeVars
  <2>5. CASE ReconcileOnCreate(outcome)
    <3>1. Store(idx, [owner |-> uid, val |-> want[idx], sync |-> Nil]) /\ obj[idx] = NoObject
      BY <2>5 DEF ReconcileOnCreate, storeVars
    <3>2. r = idx
      BY <2>0, <3>1 DEF Store, TypeOK
    <3> QED BY <2>5, <3>1, <3>2 DEF ReconcileOnCreate
  <2>6. CASE ReconcileOnUpdate(outcome) \/ ReconcileOnDelete(outcome)
    BY <2>6 DEF IInv, CallJustified, ReconcileOnUpdate, ReconcileOnDelete
  <2> QED BY <2>3, <2>4, <2>5, <2>6 DEF ReconcileStep
<1>2. []IInv /\ [][Next]_rrVars => [][Allowed]_rrVars
  BY <1>1, PTL
<1> QED BY <1>2, Invariance, PTL DEF Spec, WritesOnlyOwned

=============================================================================
