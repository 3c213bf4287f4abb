------------------------- MODULE ResourceReconcile -------------------------
(***************************************************************************)
(* One pass of the accesserator operator over the objects a SecurityConfig *)
(* owns: the loop of doReconcile (internal/controller) and, for each       *)
(* resource, ReconcileControllerResource (pkg/reconciliation): a read from *)
(* the informer cache, the choice of an action, and one call to the API    *)
(* server.  Other writers of the cluster act between any two of its steps, *)
(* and the cache lags behind the store.                                    *)
(*                                                                         *)
(* A resource is its position in the slice ControllerResources returns.    *)
(* The content of an object (spec, labels, annotations) is one Value.      *)
(***************************************************************************)
EXTENDS Naturals, FiniteSets

CONSTANTS
  N,         \* length of the slice ControllerResources returns
  Ref,       \* objects that are read and never reconciled (clientRef)
  Uid,       \* UIDs of the SecurityConfig's successive incarnations
  Other,     \* any other controller reference, or none at all
  Value,     \* contents an object can have
  NoObject,  \* no object of that name exists
  Nil        \* a nil desired resource; a secret name not yet published

Resource == 1..N
Known    == Resource \cup Ref
Owner    == Uid \cup {Other}

\* sync is the secret name in the object's status, which the operator of that
\* kind (jwker, digdirator, azurerator) publishes for the content it has seen.
Object == [owner : Owner, val : Value, sync : Value \cup {Nil}]

ASSUME ConstantsAssumption ==
  /\ N \in Nat \ {0}
  /\ Ref \cap Resource = {}
  /\ Other \notin Uid
  /\ Nil \notin Value
  /\ NoObject \notin Object

Outcome == {"ok", "rejected", "lost"}  \* lost: applied, but the answer is not received
Result  == {"none", "created", "updated", "reconciled", "error"}

VARIABLES
  obj,          \* the API server's copy of every object
  cache,        \* the informer's copy, which every read returns
  pend,         \* watch events not yet delivered: none, about others, about us
  pc,           \* where the worker is
  uid,          \* scope.SecurityConfig.UID
  want,         \* the desired resource of every slot, Nil when it must not exist
  idx,          \* the loop's position
  current,      \* what Get returned for that slot
  action,       \* the ReconcileAction it leads to
  descendants,  \* scope.Descendants: the message recorded for every slot
  errs          \* the slots whose Reconcile returned an error

storeVars == <<obj, pend>>
slotVars  == <<idx, current, action, descendants, errs>>
scopeVars == <<uid, want>>
passVars  == <<pc, scopeVars, slotVars>>
rrVars    == <<storeVars, cache, passVars>>

\* Every variable keeps its type: in particular the loop of doReconcile never
\* runs past its last slot.
TypeOK ==
  /\ obj   \in [Known -> Object \cup {NoObject}]
  /\ cache \in [Known -> Object \cup {NoObject}]
  /\ pend  \in [Known -> {"no", "other", "ours"}]
  /\ pc \in {"idle", "label", "resolve", "get", "call", "state", "write"}
  /\ uid \in Owner
  /\ want \in [Resource -> Value \cup {Nil}]
  /\ idx \in Resource
  /\ current \in Object \cup {NoObject}
  /\ action \in {"none", "create", "update", "delete"}
  /\ descendants \in [Resource -> Result]
  /\ errs \in SUBSET Resource

-----------------------------------------------------------------------------
(* The store and its informer. *)

OwnedBySC(o) == o # NoObject /\ o.owner \in Uid

\* A write of the API server.  The informer delivers every version, so an
\* object of ours that comes and goes unseen still produces events; a write
\* that changes nothing produces none.
Store(r, o) ==
  /\ obj' = [obj EXCEPT ![r] = o]
  /\ pend' = [pend EXCEPT ![r] =
       IF o = obj[r] THEN pend[r]
       ELSE IF pend[r] = "ours" \/ OwnedBySC(obj[r]) \/ OwnedBySC(o) THEN "ours"
       ELSE "other"]

\* The informer catches up with one object.
Deliver(r) ==
  /\ pend[r] # "no"
  /\ cache' = [cache EXCEPT ![r] = obj[r]]
  /\ pend' = [pend EXCEPT ![r] = "no"]
  /\ UNCHANGED obj

-----------------------------------------------------------------------------
(* ReconcileControllerResource. *)

IsControlledBy(o, u) == o # NoObject /\ o.owner = u

\* Mutant: the owner is not looked at.
DetermineReconcileAction_AnyOwner(o, desired, u) ==
  IF desired = Nil THEN IF o # NoObject THEN "delete" ELSE "none"
  ELSE IF o = NoObject THEN "create"
  ELSE IF o.val # desired THEN "update" ELSE "none"

\* "error" is the error it returns for a wanted object with another controller.
DetermineReconcileAction(o, desired, u) ==
  IF desired = Nil THEN IF IsControlledBy(o, u) THEN "delete" ELSE "none"
  ELSE IF o = NoObject THEN "create"
  ELSE IF ~IsControlledBy(o, u) THEN "error"
  ELSE IF o.val # desired THEN "update" ELSE "none"

ReplaceDescendant(r, result) == descendants' = [descendants EXCEPT ![r] = result]

\* Mutant: the loop runs one past the end.
Return_PastEnd(failed) ==
  /\ errs' = IF failed THEN errs \cup {idx} ELSE errs
  /\ current' = NoObject
  /\ action' = "none"
  /\ idx' = idx + 1
  /\ pc' = IF idx > N THEN "state" ELSE "get"

\* Reconcile of this slot returned; doReconcile collects the error, if there is
\* one, and goes on with the next slot in every case.
Return(failed) ==
  /\ errs' = IF failed THEN errs \cup {idx} ELSE errs
  /\ current' = NoObject
  /\ action' = "none"
  /\ IF idx = N
       THEN /\ pc' = "state"
            /\ UNCHANGED idx
       ELSE /\ pc' = "get"
            /\ idx' = idx + 1

Chosen == DetermineReconcileAction(cache[idx], want[idx], uid)

\* Get failed with something else than NotFound.
GetFails ==
  /\ pc = "get"
  /\ ReplaceDescendant(idx, "error")
  /\ Return(TRUE)
  /\ UNCHANGED <<storeVars, cache, scopeVars>>

\* The object exists and has another controller, or none.
RefuseUnowned ==
  /\ pc = "get"
  /\ Chosen = "error"
  /\ ReplaceDescendant(idx, "error")
  /\ Return(TRUE)
  /\ UNCHANGED <<storeVars, cache, scopeVars>>

\* Mutant: only changes are recorded.
NoActionNeeded_Unrecorded ==
  /\ pc = "get"
  /\ Chosen = "none"
  /\ Return(FALSE)
  /\ UNCHANGED <<storeVars, cache, scopeVars, descendants>>

\* A slot that is as desired is reported; an empty slot is not.
NoActionNeeded ==
  /\ pc = "get"
  /\ Chosen = "none"
  /\ IF want[idx] # Nil THEN ReplaceDescendant(idx, "reconciled")
                        ELSE UNCHANGED descendants
  /\ Return(FALSE)
  /\ UNCHANGED <<storeVars, cache, scopeVars>>

\* What was read is kept; the cluster may change before the call is made.
ChooseCall ==
  /\ pc = "get"
  /\ Chosen \in {"create", "update", "delete"}
  /\ current' = cache[idx]
  /\ action' = Chosen
  /\ pc' = "call"
  /\ UNCHANGED <<storeVars, cache, scopeVars, idx, descendants, errs>>

ReconcileOnCreate(outcome) ==
  /\ pc = "call"
  /\ action = "create"
  /\ LET free   == obj[idx] = NoObject
         failed == outcome # "ok" \/ ~free           \* AlreadyExists
     IN  /\ IF outcome # "rejected" /\ free
              THEN Store(idx, [owner |-> uid, val |-> want[idx], sync |-> Nil])
              ELSE UNCHANGED storeVars
         /\ ReplaceDescendant(idx, IF failed THEN "error" ELSE "created")
         /\ Return(failed)
  /\ UNCHANGED <<cache, scopeVars>>

WithContent(o, v) == [owner |-> o.owner, val |-> v, sync |-> o.sync]

\* A merge patch without a resourceVersion: it applies to whatever object has
\* the name now.
ReconcileOnUpdate(outcome) ==
  /\ pc = "call"
  /\ action = "update"
  /\ LET found  == obj[idx] # NoObject
         failed == outcome # "ok" \/ ~found          \* NotFound
     IN  /\ IF outcome # "rejected" /\ found
              THEN Store(idx, WithContent(obj[idx], want[idx]))
              ELSE UNCHANGED storeVars
         /\ ReplaceDescendant(idx, IF failed THEN "error" ELSE "updated")
         /\ Return(failed)
  /\ UNCHANGED <<cache, scopeVars>>

\* Mutant: a failed delete is returned and not recorded.
ReconcileOnDelete_Unrecorded(outcome) ==
  /\ pc = "call"
  /\ action = "delete"
  /\ LET found == obj[idx] # NoObject
     IN  /\ IF outcome # "rejected" /\ found
              THEN Store(idx, NoObject)
              ELSE UNCHANGED storeVars
         /\ Return(outcome # "ok" \/ ~found)
  /\ UNCHANGED <<cache, scopeVars, descendants>>

\* A delete by name, without a UID precondition.  Success records nothing.
ReconcileOnDelete(outcome) ==
  /\ pc = "call"
  /\ action = "delete"
  /\ LET found  == obj[idx] # NoObject
         failed == outcome # "ok" \/ ~found          \* NotFound
     IN  /\ IF outcome # "rejected" /\ found
              THEN Store(idx, NoObject)
              ELSE UNCHANGED storeVars
         /\ IF failed THEN ReplaceDescendant(idx, "error") ELSE UNCHANGED descendants
         /\ Return(failed)
  /\ UNCHANGED <<cache, scopeVars>>

\* doReconcile, one step: with outcome "ok" the API server does what it is asked.
ReconcileStep(outcome) ==
  \/ outcome = "rejected" /\ GetFails
  \/ outcome = "ok" /\ (RefuseUnowned \/ NoActionNeeded \/ ChooseCall)
  \/ ReconcileOnCreate(outcome)
  \/ ReconcileOnUpdate(outcome)
  \/ ReconcileOnDelete(outcome)

-----------------------------------------------------------------------------
(* Everyone else who writes these objects. *)

\* Another controller or a user creates, replaces or edits an object, or takes
\* its controller reference away.
ForeignWrite(r, o) ==
  /\ o.owner = Other \/ (obj[r] # NoObject /\ o.owner = obj[r].owner)
  /\ o # obj[r]
  /\ Store(r, o)

ForeignDelete(r) ==
  /\ obj[r] # NoObject
  /\ Store(r, NoObject)

-----------------------------------------------------------------------------
(* The pass on its own: scopes come from anywhere. *)

NoDescendants == [r \in Resource |-> "none"]
NothingWanted == [r \in Resource |-> Nil]

StartPass(u, w) ==
  /\ pc = "idle"
  /\ pc' = "get"
  /\ uid' = u
  /\ want' = w
  /\ UNCHANGED <<storeVars, cache, slotVars>>

EndPass ==
  /\ pc = "state"
  /\ pc' = "idle"
  /\ uid' = Other
  /\ want' = NothingWanted
  /\ idx' = 1
  /\ descendants' = NoDescendants
  /\ errs' = {}
  /\ UNCHANGED <<storeVars, cache, current, action>>

\* The worker is idle and nothing of a pass is left.
PassInit ==
  /\ pc = "idle"
  /\ uid = Other
  /\ want = NothingWanted
  /\ idx = 1
  /\ current = NoObject
  /\ action = "none"
  /\ descendants = NoDescendants
  /\ errs = {}

\* Objects without a status, which the pass does not read.
Unpublished == {o \in Object : o.sync = Nil}

\* The cluster may hold objects of these names that have nothing to do with us.
Init ==
  /\ obj \in [Known -> {o \in Unpublished : o.owner = Other} \cup {NoObject}]
  /\ cache = obj
  /\ pend = [r \in Known |-> "no"]
  /\ PassInit

Environment ==
  \/ \E r \in Known : Deliver(r) /\ UNCHANGED passVars
  \/ \E r \in Known, o \in Unpublished : ForeignWrite(r, o) /\ UNCHANGED <<cache, passVars>>
  \/ \E r \in Known : ForeignDelete(r) /\ UNCHANGED <<cache, passVars>>

Next ==
  \/ \E u \in Uid, w \in [Resource -> Value \cup {Nil}] : StartPass(u, w)
  \/ \E outcome \in Outcome : ReconcileStep(outcome)
  \/ EndPass
  \/ Environment

Spec == Init /\ [][Next]_rrVars

-----------------------------------------------------------------------------
(* What the pass promises. *)

\* Every slot whose Reconcile returned an error has an error descendant, and no
\* other has one: the error that requeues the SecurityConfig and the error that
\* its status shows never disagree (doReconcile's errs, scope.GetErrors).
FailuresReported == errs = {r \in Resource : descendants[r] = "error"}

\* A loop that ended without an error has a descendant for exactly the non-nil
\* resources, so the comparison with CountNonNilResources in
\* DetermineReconciliationState holds and StatePending is never its verdict.
DescendantsComplete ==
  pc = "state" /\ errs = {} =>
    {r \in Resource : descendants[r] # "none"} = {r \in Resource : want[r] # Nil}

WorkerStep == <<pc, idx>>' # <<pc, idx>>

\* The worker changes or removes an object only when the object it had read was
\* controlled by its SecurityConfig, and otherwise only fills an empty name.
WritesOnlyOwned ==
  [][\A r \in Known : WorkerStep /\ obj'[r] # obj[r] =>
        \/ IsControlledBy(current, uid)
        \/ action = "create" /\ obj[r] = NoObject]_rrVars

=============================================================================
