----------------------------- MODULE Controller -----------------------------
(***************************************************************************)
(* The life of one SecurityConfig under the accesserator controller:       *)
(* Reconcile (internal/controller), the status manager, the watches and    *)
(* event handlers that decide when Reconcile runs again, and everyone who  *)
(* writes the same cluster meanwhile.  The loop over the owned objects is  *)
(* ResourceReconcile's.                                                    *)
(*                                                                         *)
(* controller-runtime gives the controller one worker and a queue that     *)
(* holds a SecurityConfig at most once; every read goes to an informer     *)
(* cache.  The API server, the informers, the queue, the garbage collector *)
(* and the operators of Jwker, MaskinportenClient and AzureAdApplication   *)
(* are external and modelled by what src/ relies on.                       *)
(***************************************************************************)
EXTENDS ResourceReconcile, Sequences

CONSTANTS
  Specs,       \* specs a user can submit: see SpecType
  FromInput,   \* desired content that is computed from a referenced object
  NoSC,        \* the SecurityConfig does not exist
  MaxGen,      \* bound on a SecurityConfig's generation
  MaxTries,    \* attempts RetryOnConflict makes (retry.DefaultBackoff.Steps)
  Disturbances,     \* the kinds of disturbance that happen: see Disturbance
  MaxDisturbances   \* bound on their number

\* A spec is the desired resource of each slot as the resolvers and generators
\* derive it, and the objects whose status the SecurityConfig waits for, in the
\* order in which DetermineReconciliationState reports them.
SpecType == [desired : [Resource -> Value \cup {Nil, FromInput}], gates : Seq(Known)]

Phase   == {"", "Pending", "Ready", "Failed"}
Message == {"", "ready", "failed", "missing", "waiting", "unresolved"}

Status == [observed : 0..MaxGen, ready : BOOLEAN, phase : Phase,
           msg : Message, waitFor : Known \cup {Nil},
           conds : [Resource -> Result \cup {"missing"}],
           secret : [Known -> Value \cup {Nil}]]

SecurityConfig == [uid : Uid, gen : 1..MaxGen, spec : Specs, labelled : BOOLEAN,
                   deleting : BOOLEAN, status : Status]

\* An API call that fails or whose answer is lost, a restart of the operator, a
\* change of the referenced object, a write, a removal of the controller
\* reference or a deletion by someone else, an object that loses its
\* synchronised state, the deletion of the SecurityConfig.
Disturbance == {"fault", "restart", "input", "write", "disown", "delete", "desync", "remove"}

ASSUME ControllerAssumption ==
  /\ Specs \subseteq SpecType
  /\ FromInput \notin Value \cup {Nil}
  /\ NoSC \notin SecurityConfig
  /\ MaxGen \in Nat \ {0}
  /\ MaxTries \in Nat \ {0}
  /\ Disturbances \subseteq Disturbance
  /\ MaxDisturbances \in Nat

\* The state waits for a generated object only under the condition under which
\* the object is generated: Enabled and, where there is a choice, the type
\* InlineClient or None.
ASSUME GatesAssumption ==
  \A s \in Specs : \A i \in DOMAIN s.gates :
    s.gates[i] \in Resource => s.desired[s.gates[i]] # Nil

VARIABLES
  sc,          \* the API server's SecurityConfig
  scCache,     \* the informer's
  born,        \* UIDs already given out
  input,       \* a referenced Application, Secret or ConfigMap: its content
  inputCache,  \* the informer's copy of it
  queued,      \* the work queue holds the SecurityConfig
  self,        \* the copy this pass works on (securityConfig, then scope.SecurityConfig)
  base,        \* deepCopiedSecurityConfig.Status, the "original" of the comparison
  tries,       \* attempts RetryOnConflict has left
  report,      \* what the last pass did with its status: see Report
  budget       \* disturbances left

clusterVars == <<sc, born, input>>
cacheVars   == <<scCache, inputCache>>
localVars   == <<self, base, tries>>
vars == <<rrVars, clusterVars, cacheVars, localVars, queued, report, budget>>

\* The status was written, was the stored one already, was that of a copy which
\* the stored one has outrun, or was lost.
Report == {"none", "written", "skipped", "outdated", "dropped"}

NoStatus == [observed |-> 0, ready |-> FALSE, phase |-> "", msg |-> "", waitFor |-> Nil,
             conds |-> NoDescendants, secret |-> [k \in Known |-> Nil]]

\* Every variable keeps its type: in particular UpdateStatus never makes more
\* attempts than RetryOnConflict allows.
ControllerTypeOK ==
  /\ TypeOK
  /\ sc \in SecurityConfig \cup {NoSC}
  /\ scCache \in SecurityConfig \cup {NoSC}
  /\ born \subseteq Uid
  /\ input \in Value \cup {Nil}
  /\ inputCache \in Value \cup {Nil}
  /\ queued \in BOOLEAN
  /\ self \in SecurityConfig \cup {NoSC}
  /\ base \in Status
  /\ tries \in 0..MaxTries
  /\ report \in Report
  /\ budget \in 0..MaxDisturbances

Disturb(kind) ==
  /\ kind \in Disturbances
  /\ budget > 0
  /\ budget' = budget - 1

\* A call that is not answered as asked is a disturbance.
Spend(outcome) == IF outcome = "ok" THEN UNCHANGED budget ELSE Disturb("fault")

-----------------------------------------------------------------------------
(* Reconcile. *)

RefersToInput(s) == \E r \in Resource : s.desired[r] = FromInput

WaitsFor(s, k) == \E i \in DOMAIN s.gates : s.gates[i] = k

InitializeStatus(st, gen) ==
  [st EXCEPT !.observed = gen, !.ready = FALSE, !.phase = "Pending"]

\* Nothing of a pass survives it.
PassOver ==
  /\ pc' = "idle"
  /\ uid' = Other
  /\ want' = NothingWanted
  /\ idx' = 1
  /\ current' = NoObject
  /\ action' = "none"
  /\ descendants' = NoDescendants
  /\ errs' = {}
  /\ self' = NoSC
  /\ base' = NoStatus
  /\ tries' = 0

\* Mutant: the error of a pass is logged and not returned.
FinishPass_Swallowed(rep, failed) ==
  /\ report' = rep
  /\ queued' = queued
  /\ PassOver

\* Mutant: every pass asks for another one.
FinishPass_Requeues(rep, failed) ==
  /\ report' = rep
  /\ queued' = TRUE
  /\ PassOver

\* Reconcile returns: the deferred status update has run, and an error puts the
\* SecurityConfig back on the queue (after a backoff that is not modelled).
FinishPass(rep, failed) ==
  /\ report' = rep
  /\ queued' = (queued \/ failed)
  /\ PassOver

\* Mutant: the deletion timestamp is not looked at.
BeginReconcile_Deleting ==
  /\ pc = "idle"
  /\ queued
  /\ queued' = FALSE
  /\ IF scCache = NoSC
       THEN UNCHANGED <<pc, self, base>>
       ELSE LET st == InitializeStatus(scCache.status, scCache.gen)
            IN  /\ self' = [scCache EXCEPT !.status = st]
                /\ base' = st
                /\ pc' = IF scCache.labelled THEN "resolve" ELSE "label"
  /\ UNCHANGED <<storeVars, cache, scopeVars, slotVars, clusterVars, cacheVars,
                 tries, report, budget>>

\* The worker takes the request and reads the SecurityConfig from the cache.
\* One that is gone or marked for deletion ends the pass at once.  (Get failing
\* otherwise puts the request back: no step.)
BeginReconcile ==
  /\ pc = "idle"
  /\ queued
  /\ queued' = FALSE
  /\ IF scCache = NoSC \/ (scCache # NoSC /\ scCache.deleting)
       THEN UNCHANGED <<pc, self, base>>
       ELSE LET st == InitializeStatus(scCache.status, scCache.gen)
            IN  /\ self' = [scCache EXCEPT !.status = st]
                /\ base' = st
                /\ pc' = IF scCache.labelled THEN "resolve" ELSE "label"
  /\ UNCHANGED <<storeVars, cache, scopeVars, slotVars, clusterVars, cacheVars,
                 tries, report, budget>>

\* The standard labels are missing: a merge patch of the labels by name.  Its
\* answer overwrites deepCopiedSecurityConfig, stored status included.
PatchLabels(outcome) ==
  /\ pc = "label"
  /\ sc' = IF sc # NoSC /\ outcome # "rejected" THEN [sc EXCEPT !.labelled = TRUE] ELSE sc
  /\ IF sc # NoSC /\ outcome = "ok"
       THEN /\ base' = sc.status
            /\ pc' = "resolve"
            /\ UNCHANGED <<scopeVars, slotVars, self, tries, queued, report>>
       ELSE FinishPass(report, TRUE)
  /\ Spend(outcome)
  /\ UNCHANGED <<storeVars, cache, born, input, cacheVars>>

Resolvable(s, in) == RefersToInput(s) => in # Nil

Desired(s, in) ==
  [r \in Resource |-> IF s.desired[r] = FromInput THEN in ELSE s.desired[r]]

\* ResolveSecurityConfig succeeds: the scope is fixed for the rest of the pass.
ResolveSucceeds ==
  /\ pc = "resolve"
  /\ Resolvable(self.spec, inputCache)
  /\ uid' = self.uid
  /\ want' = Desired(self.spec, inputCache)
  /\ pc' = "get"
  /\ UNCHANGED <<storeVars, cache, slotVars, clusterVars, cacheVars, localVars,
                 queued, report, budget>>

\* A reference cannot be resolved, or a read or the registry fails on the way.
ResolveFails(outcome) ==
  /\ pc = "resolve"
  /\ outcome = "ok" => ~Resolvable(self.spec, inputCache)
  /\ self' = [self EXCEPT !.status.phase = "Failed", !.status.msg = "unresolved"]
  /\ tries' = MaxTries
  /\ pc' = "write"
  /\ Spend(outcome)
  /\ UNCHANGED <<storeVars, cache, scopeVars, slotVars, clusterVars, cacheVars,
                 base, queued, report>>

Resolved == uid # Other

ReconcileResources(outcome) ==
  /\ ReconcileStep(outcome)
  /\ Spend(outcome)
  /\ UNCHANGED <<clusterVars, cacheVars, localVars, queued, report>>

-----------------------------------------------------------------------------
(* The status manager. *)

\* DetermineReconciliationState up to the reads: what the loop left behind.
LoopVerdict ==
  IF \E r \in Resource : descendants[r] = "error" THEN "failed"
  ELSE IF Cardinality({r \in Resource : descendants[r] # "none"})
            # Cardinality({r \in Resource : want[r] # Nil}) THEN "missing"
  ELSE "complete"

\* An object the verdict depends on is not in the cache: the error returned.
GateMissing(s) == \E i \in DOMAIN s.gates : cache[s.gates[i]] = NoObject

\* Mutant: an object that exists counts as synchronised.
Waiting_Existing(s, objs) == {i \in DOMAIN s.gates : objs[s.gates[i]] = NoObject}

\* The gates that are not synchronised; the first one names the state.
Waiting(s, objs) == {i \in DOMAIN s.gates : objs[s.gates[i]].sync = Nil}
First(S) == CHOOSE i \in S : \A j \in S : i <= j

\* Mutant: a secret name that is already in the status stays.
BuildStatus_OldSecret(scope, verdict, objs) ==
  LET waiting == IF verdict = "complete" THEN Waiting(scope.spec, objs) ELSE {}
      ready   == verdict = "complete" /\ waiting = {}
  IN  [observed |-> scope.gen,
       ready    |-> ready,
       phase    |-> IF verdict = "failed" THEN "Failed" ELSE IF ready THEN "Ready" ELSE "Pending",
       msg      |-> IF verdict # "complete" THEN verdict
                    ELSE IF ready THEN "ready" ELSE "waiting",
       waitFor  |-> IF waiting = {} THEN Nil ELSE scope.spec.gates[First(waiting)],
       conds    |-> [r \in Resource |-> IF descendants[r] = "none" /\ want[r] # Nil
                                          THEN "missing" ELSE descendants[r]],
       secret   |-> [k \in Known |->
                       IF verdict = "complete" /\ WaitsFor(scope.spec, k)
                          /\ scope.status.secret[k] = Nil
                         THEN objs[k].sync ELSE scope.status.secret[k]]]

\* UpdateSecurityConfigStatus: the status built for the verdict, on top of the
\* one the pass started from (fields of disabled capabilities stay).
BuildStatus(scope, verdict, objs) ==
  LET waiting == IF verdict = "complete" THEN Waiting(scope.spec, objs) ELSE {}
      ready   == verdict = "complete" /\ waiting = {}
  IN  [observed |-> scope.gen,
       ready    |-> ready,
       phase    |-> IF verdict = "failed" THEN "Failed" ELSE IF ready THEN "Ready" ELSE "Pending",
       msg      |-> IF verdict # "complete" THEN verdict
                    ELSE IF ready THEN "ready" ELSE "waiting",
       waitFor  |-> IF waiting = {} THEN Nil ELSE scope.spec.gates[First(waiting)],
       conds    |-> [r \in Resource |-> IF descendants[r] = "none" /\ want[r] # Nil
                                          THEN "missing" ELSE descendants[r]],
       secret   |-> [k \in Known |->
                       IF verdict = "complete" /\ WaitsFor(scope.spec, k)
                         THEN objs[k].sync ELSE scope.status.secret[k]]]

\* The reconciliation state cannot be determined: nothing is written, and the
\* pass ends as the loop did.
StateUnknown ==
  /\ pc = "state"
  /\ LoopVerdict = "complete"
  /\ GateMissing(self.spec)
  /\ FinishPass("dropped", errs # {})
  /\ UNCHANGED <<storeVars, cache, clusterVars, cacheVars, budget>>

\* The copy that deepCopiedSecurityConfig was made from is the stored one: as
\* InitializeStatus altered it, or as the label patch returned it.
ComparedWithStored ==
  /\ sc # NoSC
  /\ sc.uid = self.uid
  /\ base \in {sc.status, InitializeStatus(sc.status, self.gen)}

\* The new status is compared with deepCopiedSecurityConfig's.
StateKnown ==
  /\ pc = "state"
  /\ LoopVerdict = "complete" => ~GateMissing(self.spec)
  /\ LET st == BuildStatus(self, LoopVerdict, cache)
     IN  IF st = base
           THEN FinishPass(IF ComparedWithStored THEN "skipped" ELSE "outdated", errs # {})
           ELSE /\ self' = [self EXCEPT !.status = st]
                /\ tries' = MaxTries
                /\ pc' = "write"
                /\ UNCHANGED <<scopeVars, slotVars, base, queued, report>>
  /\ UNCHANGED <<storeVars, cache, clusterVars, cacheVars, budget>>

\* Another writer was faster than the cache.  (SecurityConfigs are equal exactly
\* when their resourceVersions are: see the README.)
Conflict == sc # NoSC /\ scCache # NoSC /\ sc # scCache

\* Mutant: attempts are counted and not limited.
UpdateStatusConflict_Unlimited ==
  /\ pc = "write"
  /\ Conflict
  /\ tries' = tries - 1
  /\ UNCHANGED <<rrVars, clusterVars, cacheVars, self, base, queued, report, budget>>

\* UpdateStatus: one attempt of RetryOnConflict, which reads the cached object,
\* puts the status into it and updates the status subresource.
UpdateStatusConflict ==
  /\ pc = "write"
  /\ Conflict
  /\ tries > 1
  /\ tries' = tries - 1
  /\ UNCHANGED <<rrVars, clusterVars, cacheVars, self, base, queued, report, budget>>

UpdateStatusFails(outcome) ==
  /\ pc = "write"
  /\ outcome = "ok" => sc = NoSC \/ scCache = NoSC \/ (Conflict /\ tries = 1)
  /\ sc' = IF outcome = "lost" /\ sc # NoSC /\ sc = scCache
             THEN [sc EXCEPT !.status = self.status] ELSE sc
  /\ FinishPass("dropped", errs # {} \/ ~Resolved)
  /\ Spend(outcome)
  /\ UNCHANGED <<storeVars, cache, born, input, cacheVars>>

\* Mutant: the status is labelled with the generation that is stored now.
UpdateStatusSucceeds_Relabelled ==
  /\ pc = "write"
  /\ sc # NoSC
  /\ sc = scCache
  /\ sc' = [sc EXCEPT !.status = [self.status EXCEPT !.observed = sc.gen]]
  /\ FinishPass("written", errs # {} \/ ~Resolved)
  /\ UNCHANGED <<storeVars, cache, born, input, cacheVars, budget>>

UpdateStatusSucceeds ==
  /\ pc = "write"
  /\ sc # NoSC
  /\ sc = scCache
  /\ sc' = [sc EXCEPT !.status = self.status]
  /\ FinishPass("written", errs # {} \/ ~Resolved)
  /\ UNCHANGED <<storeVars, cache, born, input, cacheVars, budget>>

-----------------------------------------------------------------------------
(* Watches: the informer catches up, and the event may queue a request. *)

\* Mutant: only new generations.
DeliverSC_GenerationOnly ==
  /\ scCache # sc
  /\ scCache' = sc
  /\ queued' = (queued \/ (NoSC \notin {sc, scCache} /\ sc.gen # scCache.gen)
                       \/ scCache = NoSC)
  /\ UNCHANGED <<rrVars, clusterVars, inputCache, localVars, report, budget>>

\* For, with GenerationChangedPredicate: creations, deletions and new generations.
DeliverSC ==
  /\ scCache # sc
  /\ scCache' = sc
  /\ queued' = \/ queued
               \/ NoSC \in {sc, scCache}
               \/ sc.uid # scCache.uid
               \/ sc.gen # scCache.gen
  /\ UNCHANGED <<rrVars, clusterVars, inputCache, localVars, report, budget>>

\* Mutant: without Owns.
DeliverObject_NotOwned(k) ==
  /\ Deliver(k)
  /\ queued' = (queued \/ (k \in Ref /\ scCache # NoSC /\ WaitsFor(scCache.spec, k)))
  /\ UNCHANGED <<passVars, clusterVars, cacheVars, localVars, report, budget>>

\* Mutant: without the handlers for clientRef.
DeliverObject_OwnedOnly(k) ==
  /\ Deliver(k)
  /\ queued' = (queued \/ pend[k] = "ours")
  /\ UNCHANGED <<passVars, clusterVars, cacheVars, localVars, report, budget>>

\* Owns: every event of an object that a SecurityConfig controls.  Watches with
\* HandleMaskinportenClientEvent, HandleAzureAdApplicationEvent: every event of
\* an object that the cached spec names as its clientRef.
DeliverObject(k) ==
  /\ Deliver(k)
  /\ queued' = \/ queued
               \/ pend[k] = "ours"
               \/ k \in Ref /\ scCache # NoSC /\ WaitsFor(scCache.spec, k)
  /\ UNCHANGED <<passVars, clusterVars, cacheVars, localVars, report, budget>>

\* HandleSkiperatorApplicationEvent, HandleSecretEvent, HandleConfigMapEvent:
\* the SecurityConfigs whose cached spec names the object.
DeliverInput ==
  /\ inputCache # input
  /\ inputCache' = input
  /\ queued' = (queued \/ (scCache # NoSC /\ RefersToInput(scCache.spec)))
  /\ UNCHANGED <<rrVars, clusterVars, scCache, localVars, report, budget>>

\* The operator is killed and started again: the caches are filled before the
\* worker starts, and what they hold is queued.
Restart ==
  /\ Disturb("restart")
  /\ FinishPass(report, sc # NoSC \/ \E k \in Known : OwnedBySC(obj[k]))
  /\ scCache' = sc
  /\ inputCache' = input
  /\ cache' = obj
  /\ pend' = [k \in Known |-> "no"]
  /\ UNCHANGED <<obj, clusterVars>>

-----------------------------------------------------------------------------
(* Everyone else. *)

workerVars == <<passVars, cache, cacheVars, localVars, queued, report>>

UserCreates(s) ==
  /\ sc = NoSC
  /\ \E u \in Uid \ born :
       /\ born' = born \cup {u}
       /\ sc' = [uid |-> u, gen |-> 1, spec |-> s, labelled |-> FALSE,
                 deleting |-> FALSE, status |-> NoStatus]
  /\ UNCHANGED <<storeVars, workerVars, input, budget>>

UserEdits(s) ==
  /\ sc # NoSC
  /\ ~sc.deleting
  /\ s # sc.spec
  /\ sc.gen < MaxGen
  /\ sc' = [sc EXCEPT !.spec = s, !.gen = sc.gen + 1]
  /\ UNCHANGED <<storeVars, workerVars, born, input, budget>>

UserDeletes ==
  /\ sc # NoSC
  /\ sc' = NoSC
  /\ Disturb("remove")
  /\ UNCHANGED <<storeVars, workerVars, born, input>>

\* Foreground deletion: the object stays until what it owns is gone.
UserDeletesForeground ==
  /\ sc # NoSC
  /\ ~sc.deleting
  /\ sc.gen < MaxGen
  /\ sc' = [sc EXCEPT !.deleting = TRUE, !.gen = sc.gen + 1]
  /\ Disturb("remove")
  /\ UNCHANGED <<storeVars, workerVars, born, input>>

InputChanges(v) ==
  /\ v # input
  /\ input' = v
  /\ Disturb("input")
  /\ UNCHANGED <<storeVars, workerVars, sc, born>>

\* Drift, a conflicting object, a lost controller reference; for a clientRef,
\* its creation.
OthersWrite(k, v) ==
  /\ ForeignWrite(k, [owner |-> IF OwnedBySC(obj[k]) THEN obj[k].owner ELSE Other,
                      val |-> v,
                      sync |-> IF obj[k] = NoObject THEN Nil ELSE obj[k].sync])
  /\ Disturb("write")
  /\ UNCHANGED <<workerVars, clusterVars>>

OthersDisown(k) ==
  /\ OwnedBySC(obj[k])
  /\ Store(k, [obj[k] EXCEPT !.owner = Other])
  /\ Disturb("disown")
  /\ UNCHANGED <<workerVars, clusterVars>>

OthersDelete(k) ==
  /\ ForeignDelete(k)
  /\ Disturb("delete")
  /\ UNCHANGED <<workerVars, clusterVars>>

\* The operator of the object's kind publishes a secret for its content.
Synchronise(k) ==
  /\ obj[k] # NoObject
  /\ obj[k].sync # obj[k].val
  /\ Store(k, [obj[k] EXCEPT !.sync = obj[k].val])
  /\ UNCHANGED <<workerVars, clusterVars, budget>>

\* It reports that the object is no longer synchronised.
Desynchronise(k) ==
  /\ obj[k] # NoObject
  /\ obj[k].sync # Nil
  /\ Store(k, [obj[k] EXCEPT !.sync = Nil])
  /\ Disturb("desync")
  /\ UNCHANGED <<workerVars, clusterVars>>

\* The garbage collector removes what a deleted owner left behind.
Collect(k) ==
  /\ OwnedBySC(obj[k])
  /\ sc # NoSC => sc.uid # obj[k].owner \/ sc.deleting
  /\ Store(k, NoObject)
  /\ UNCHANGED <<workerVars, clusterVars, budget>>

FinishDeletion ==
  /\ sc # NoSC
  /\ sc.deleting
  /\ \A k \in Known : ~IsControlledBy(obj[k], sc.uid)
  /\ sc' = NoSC
  /\ UNCHANGED <<storeVars, workerVars, born, input, budget>>

-----------------------------------------------------------------------------
\* The objects whose kind has an operator that reports on them.
Gates == UNION {{s.gates[i] : i \in DOMAIN s.gates} : s \in Specs}

ControllerInit ==
  /\ Init
  /\ sc = NoSC
  /\ scCache = NoSC
  /\ born = {}
  /\ input \in Value \cup {Nil}
  /\ inputCache = input
  /\ queued = FALSE
  /\ self = NoSC
  /\ base = NoStatus
  /\ tries = 0
  /\ report = "none"
  /\ budget = MaxDisturbances

\* A step of the worker, with the API server answering as asked or not.
Worker(outcome) ==
  \/ outcome = "ok" /\ BeginReconcile
  \/ PatchLabels(outcome)
  \/ outcome = "ok" /\ ResolveSucceeds
  \/ ResolveFails(outcome)
  \/ ReconcileResources(outcome)
  \/ outcome = "ok" /\ (StateUnknown \/ StateKnown)
  \/ outcome = "ok" /\ (UpdateStatusConflict \/ UpdateStatusSucceeds)
  \/ UpdateStatusFails(outcome)

Informers == DeliverSC \/ DeliverInput \/ \E k \in Known : DeliverObject(k)

Users ==
  \/ \E s \in Specs : UserCreates(s) \/ UserEdits(s)
  \/ UserDeletes
  \/ UserDeletesForeground
  \/ \E v \in Value \cup {Nil} : InputChanges(v)

Others ==
  \/ \E k \in Known, v \in Value : OthersWrite(k, v)
  \/ \E k \in Known : OthersDisown(k) \/ OthersDelete(k)
  \/ \E k \in Gates : Synchronise(k) \/ Desynchronise(k)
  \/ \E k \in Known : Collect(k)
  \/ FinishDeletion

ControllerNext ==
  \/ \E outcome \in Outcome : Worker(outcome)
  \/ Informers
  \/ Restart
  \/ Users
  \/ Others

\* The worker runs, watches deliver, and the external operators and the garbage
\* collector do their work.  Users and disturbances owe nothing.
Fairness ==
  /\ WF_vars(Worker("ok"))
  /\ WF_vars(DeliverSC)
  /\ WF_vars(DeliverInput)
  /\ \A k \in Known : WF_vars(DeliverObject(k))
  /\ \A k \in Gates : WF_vars(Synchronise(k))
  /\ \A k \in Known : WF_vars(Collect(k))
  /\ WF_vars(FinishDeletion)

ControllerSpec == ControllerInit /\ [][ControllerNext]_vars /\ Fairness

-----------------------------------------------------------------------------
(* What the controller promises. *)

\* Nothing is running, waiting in the queue, or on its way to a cache.
AtRest ==
  /\ pc = "idle"
  /\ ~queued
  /\ scCache = sc
  /\ inputCache = input
  /\ \A k \in Known : pend[k] = "no"

Alive == sc # NoSC /\ ~sc.deleting

\* The slot holds what the stored spec asks for, or nothing of ours.
AsDesired(r) ==
  LET w == Desired(sc.spec, input)[r]
  IN  IF w = Nil THEN ~IsControlledBy(obj[r], sc.uid)
                 ELSE IsControlledBy(obj[r], sc.uid) /\ obj[r].val = w

\* An object the spec wants exists and belongs to someone else.
ObstructedBy(c) ==
  \E r \in Resource : /\ c.spec.desired[r] # Nil
                      /\ obj[r] # NoObject
                      /\ ~IsControlledBy(obj[r], c.uid)

\* No wake-up is lost: whenever the controller has come to rest, every reference
\* resolves and every slot is as the stored spec and the stored references want
\* it, after any sequence of edits, faults, restarts and writes of others.  It
\* rests on the watches of SetupWithManager, on errors being returned by
\* Reconcile, and on Reconcile reading everything again.
RestsAsDesired ==
  AtRest /\ Alive => Resolvable(sc.spec, input) /\ \A r \in Resource : AsDesired(r)

\* When the controller has come to rest after a pass that wrote its status, or
\* found the stored one to say the same, the status tells the truth: its
\* readiness, secret names and conditions are those of the stored objects
\* (UpdateSecurityConfigStatus).  Only a written one is sure to have the stored
\* generation: InitializeStatus sets observedGeneration in the copy that the
\* new status is compared with, so an edit that changes nothing else in the
\* status is not recorded there.  Nothing is claimed of a pass that compared
\* with an outdated copy, or whose status was lost.
RestsWithTrueStatus ==
  AtRest /\ Alive /\ report \in {"written", "skipped"} =>
    /\ report = "written" => sc.status.observed = sc.gen
    /\ \A k \in Known : WaitsFor(sc.spec, k) =>
         obj[k] # NoObject /\ sc.status.secret[k] = obj[k].sync
    /\ sc.status.ready <=> \A k \in Known : WaitsFor(sc.spec, k) => obj[k].sync # Nil
    /\ {r \in Resource : sc.status.conds[r] # "none"} =
         {r \in Resource : sc.spec.desired[r] # Nil}

\* A SecurityConfig that says it is ready for its present generation lists
\* exactly the resources of its present spec, none of them failed: a status is
\* never labelled with a generation whose spec it was not built from.  This is
\* claimed of the first SecurityConfig of the name.  UpdateStatus gets the
\* object by name, so a pass over a deleted one can still write into the next,
\* whose generations start again at 1.
ReadyMeansReconciled ==
  sc # NoSC /\ born = {sc.uid} /\ sc.status.ready /\ sc.status.observed = sc.gen =>
    \A r \in Resource : sc.status.conds[r] \in
       IF sc.spec.desired[r] = Nil THEN {"none"} ELSE {"created", "updated", "reconciled"}

\* Once users and disturbances have stopped, the controller stops too, unless a
\* reference is missing or an object of someone else is in its way: no write of
\* its own (labels, objects, status) keeps waking it up.  With RestsAsDesired,
\* every edit is eventually carried out.
ComesToRest ==
  <>[](Alive /\ Resolvable(sc.spec, input) /\ ~ObstructedBy(sc) => AtRest)

\* A SecurityConfig deleted in the foreground goes away: once the cache shows
\* the deletion timestamp, Reconcile returns before it can recreate what the
\* garbage collector removes.
DeletionCompletes ==
  \A u \in Uid : (sc # NoSC /\ sc.uid = u /\ sc.deleting) ~> (sc # NoSC => sc.uid # u)

\* The claim of the controller's tests, "SecurityConfig is PhasePending before
\* Jwker is ready": a controller at rest does not call a SecurityConfig ready
\* whose client object is missing or not synchronised.
RestsNotFalselyReady ==
  AtRest /\ Alive /\ sc.status.ready =>
    \A k \in Known : WaitsFor(sc.spec, k) => obj[k] # NoObject /\ obj[k].sync # Nil

=============================================================================
