# accesserator: TLA+ specifications and proofs

accesserator is a Kubernetes operator. From one `SecurityConfig` per
application it creates and maintains the objects that give the application
TokenX, Maskinporten, Entra ID, ID-porten, Ansattporten and Open Policy Agent,
and it injects the sidecars Texas and OPA into the application's Pods. Every
definition in these modules is translated from the Go source; `PROJECT.json`
maps each of them to the lines it stands for.

## 1. Inventory

| Component | State it keeps | Operations | Interacts with |
|---|---|---|---|
| SecurityConfig controller (`internal/controller`) | work queue, one worker; the copy of the SecurityConfig a pass works on | `Reconcile`, `doReconcile`; what wakes it up is declared in `SetupWithManager` | reads informer caches, writes labels, owned objects and status |
| Resource reconciliation (`pkg/reconciliation`, `internal/reconciler`, `internal/state`) | `Scope`: desired resources, descendants | read, `DetermineReconcileAction`, create / patch / delete / nothing, for each of twelve slots | called by `doReconcile`; descendants are read by the status manager |
| Status manager (`internal/statusmanager`) | none of its own; writes `status` | `DetermineReconciliationState`, `BuildConditions`, `UpdateStatus` with `RetryOnConflict` | deferred by `Reconcile`; reads Jwker, MaskinportenClient, AzureAdApplication |
| Resolvers, generators, namers (`internal/resolver`, `pkg/resourcegenerators`, `pkg/utilities`) | none | spec and referenced objects to desired resources and their names | Application, Secrets, ConfigMaps, Namespaces, OCI registry |
| Event handlers (`internal/eventhandler`) | none | from an event of a referenced object to the SecurityConfigs to reconcile | informer caches, work queue |
| Pod webhook (`internal/webhook/pods`) | the Pod under admission | `Default` mutates, `validatePod` validates | SecurityConfigs and Namespaces in the cache |
| SecurityConfig webhook (`internal/webhook/securityconfigs`, `pkg/validation`) | the admission under way | checks on names and URLs of OPA bundles, `VerifyBundleSource` for each bundle | OCI registry; the controller's label patch goes through it |
| OCI access (`pkg/utilities/oci_helpers.go`, `pkg/model`) | none | resolve a reference, fetch a layer, list referrers | webhook, resolver and startup, each on its own |
| Bundle verification (`pkg/validation`, `pkg/utilities/sigstore_helpers.go`) | per call: goroutines, `hasValid`, two lists; per process: trusted roots behind `sync.Once` | `ValidateSigstoreBundlesMatchesExpectedSource` | registry, TUF mirrors |
| Startup and configuration (`cmd`, `pkg/config`) | per process: configuration, trusted roots, the self-authorization bundle | `main`, `Load`, `validateAndLoadSelfAuthorizationBundle` | two replicas, of which the leader reconciles and both admit |

What makes each correct:

* controller and status: no wake-up is lost, whatever fails in between; when
  nothing is left to do the cluster is what the spec asks for and the status
  says so; it does not wake itself up forever; a deletion ends;
* resource reconciliation: all failures are reported, objects of others are not
  touched;
* resolvers, generators, names, handlers: every Application, Secret, ConfigMap
  and client that is read is watched (Namespaces are not: see inbound rules); no
  two slots have one name; nothing is left behind when a capability goes;
* clients' Secrets: accesserator and the operator of a client may meet on one
  name, and the credentials the spec asks for end up there;
* Pod webhook: the two halves agree; an admitted Pod is consistent;
* verification: the concurrent search answers as a sequential one would, and
  never without a trusted root;
* OPA bundles: a ConfigMap holds all the bundles of one spec and nothing else,
  they are verified as far as a verification can last, and whoever leads, the
  ConfigMaps follow;
* inbound rules: the Jwker has the rules of policy, Application and labels, and
  is not rewritten without need.

What is hard here, and hard to test: reads come from caches that lag behind;
patches and deletions carry no preconditions; API calls may be applied although
their answer is lost; status updates race the cache they read; other operators,
the garbage collector and users write the same objects; a SecurityConfig can be
deleted and created again under its name; admission spans two calls between
which everything may change; goroutines are cancelled by each other and by a
deadline; a tag is resolved three times, by three parts, and may move; replicas
differ in configuration and content during a rollout; labels of namespaces are
read and not watched. `PROJECT.json` lists these hazards at their lines under `hazards`.

## 2. Modules

    ResourceReconcile ----> Controller ----> MC_Controller (four configurations)
        |  \--> MC_ResourceReconcile  \--> ControllerProofs
        \--> ResourceReconcileProofs -----------^
    SigstoreVerify --INSTANCE--> VerificationContract
        |  \--> MC_SigstoreVerify
        \--> SigstoreVerifyProofs
    PodWebhook ----> MC_PodWebhook (two configurations)
        \--> PodWebhookProofs
    DesiredResources ----> MC_DesiredResources
        \--> DesiredResourcesProofs
    SecretHandover ----> MC_SecretHandover
        \--> SecretHandoverProofs
    OpaBundles ----> MC_OpaBundles
        \--> OpaBundlesProofs
    InboundRules ----> MC_InboundRules
        \--> InboundRulesProofs

**ResourceReconcile** is the loop of `doReconcile` over the slots, with
`ReconcileControllerResource` in two steps per slot: the cached read with the
choice of an action (`GetFails`, `RefuseUnowned`, `NoActionNeeded`,
`ChooseCall`), and the call (`ReconcileOnCreate`, `ReconcileOnUpdate`,
`ReconcileOnDelete`), whose outcome is ok, rejected, or lost (applied, but
reported as an error). `obj` is the API server, `cache` the informer; between
the two steps anyone may write. An object is its controller reference, one
content (spec, labels and annotations together, which is what the `ShouldUpdate`
functions compare) and, for client objects, the secret name its operator
publishes.

**Controller** adds everything around the loop: `BeginReconcile` (read from the
cache, `InitializeStatus`, deletion timestamp), `PatchLabels`,
`ResolveSucceeds` / `ResolveFails`, `StateUnknown` / `StateKnown` (status
manager up to the comparison with the copy), `UpdateStatusConflict` / `Fails` /
`Succeeds` (one attempt of `RetryOnConflict` each), `FinishPass` (deferred
update done, error returned or not); the watches `DeliverSC`, `DeliverObject`,
`DeliverInput`; `Restart`; and users, other writers, external operators and the
garbage collector. A spec is the desired content of each slot and the sequence
of objects whose status is waited for; a desired content may be `FromInput`, i.e.
computed from a referenced object.

**DesiredResources** looks at the same passes from the other side: all twelve
slots, the real capabilities and the ways to configure them, several
SecurityConfigs in one namespace, and which event wakes whom. A pass is one step
that reads the store; its interleavings are Controller's business, and
SecretHandover's where the operator of a client takes part.

**SecretHandover** takes one capability, Maskinporten, and goes through it call
by call: `BeginPass`, `ReconcileClient` and `GetSecret` / `CallSecret` (the two
slots, in this order), `SlotFails`, `FinishPass`; the operator with a queue of its
own, `OperatorBegin`, `OperatorGet`, `OperatorWrites`, `OperatorCollides`,
`OperatorReports`, `OperatorFindsNone`, `OperatorFails`; `CollectSecret`, `Resync`
and `Edit`. The operator is `mockReconciler`: it creates the Secret its client
names, or writes into the one it finds without taking ownership, and it is woken
by its client and by Secrets a client controls (`For` and `Owns`, main.go:228-231),
not by a Secret of accesserator's. `Store` says whom the event of a Secret wakes;
`Overtaken` is the conflict of an Update with an old resourceVersion. Entra ID is
handled by the same code on both sides.

**PodWebhook** follows one Pod through the mutating webhook, the API server's
schema check and the validating webhook, while SecurityConfigs change.

**SigstoreVerify** has one action per step of the calling goroutine and of the
goroutine of each referrer, and `InitTrustedRoots`, by which `main` loads the
roots before anything can call, or exits; `Restart` starts over.
**VerificationContract** is what its callers rely on: one answer per call,
acceptance only with a match, refusal only without one or when the call was cut
short by its deadline. `KeepsContract` says that the former implements the
latter under the mapping in `Contract`.

**OpaBundles** composes the parts an OPA bundle passes through. Each replica
starts (`Start`, `VerifySelf`, `MatchSelf`, `ResolveSelf`, `FetchSelf`) with the
configuration of the moment; the webhook of any replica admits a spec (`Submit`,
`VerifyBundleSignatures`, `VerifyBundleSource`, `AdmissionFails`, `Admit`); the
leader reconciles it (`BeginPass`, `PatchLabels`, which goes through a webhook
again, `ResolveOpaConfig`, `ResolveBundle`, `FetchBundle`, `ResolveFails`,
`WriteConfigMap`, `WriteConfigMapFails`, `WriteStatus`). Each resolution of a
reference and each use of what it found are steps of their own, between which
tags move, replicas crash, the lease changes hands (`Elect`) and a rollout
changes the configuration. The verification of one digest answers as
VerificationContract says. `configMap` and `sc` carry the configurations they
were made under, for the properties to speak of.

**InboundRules** is the resolver of a Jwker's rules, one step per rule since each
lists namespaces anew, the write that wakes the controller again, and the world
around it: labels that change without an event, edits, drift, restarts, and the
resync of the informers. The lists come in any order (`SetToSeqs`), of which
sorting picks the one that is `Ascending`; removal of duplicates is an operator,
and `CalledFor` is the reference the outcome is compared with, a plain set.

Operators named `X_Something` next to an operator `X` are deliberately wrong
variants, used to test that a property notices the bug.

### Abstractions worth knowing

* Two SecurityConfigs are compared with `=` where the API server compares
  resourceVersions. Only the worker writes the status, labels only go from
  missing to present and a generation never returns, so a version that was left
  does not come back.
* Informer deliveries are coalesced per object; `pend` remembers whether an
  undelivered event concerned an object of ours, so that an object that came and
  went still wakes the controller. A relist that hides a delete and re-create
  from the informer altogether is not modelled.
* The status manager's reads of several client objects are one step. The read
  of a cache that fails for other reasons than absence is a fault only where the
  code reacts to it in a way of its own (`GetFails`, `ResolveFails`); the first
  `Get` of `Reconcile` merely puts the request back.
* Time does not exist: backoff is a queue entry that is taken some time, a
  deadline is `Expire`, the attempts of `RetryOnConflict` are `MaxTries`.
* Messages are kinds of messages; conditions are the result per descendant.
  `StateInvalid` is left out because nothing sets `scope.InvalidConfig`.
* A status that waits for a client names the object (`BuildStatus`), where the
  code's message names only its kind (status_manager.go:258-263), so the model
  skips fewer writes; an object's `sync` is its SynchronizationState and its
  SynchronizationSecretName in one.
* `Store` of ResourceReconcile replaces the whole content, where the code sends a
  merge patch: a content is one value, which `UpdateFields` sets in full.
  Descendants are kept by slot; the code keys them by kind and name, and that
  these differ between slots is shown in DesiredResources (`SlotKeyInjective`).
* Finalizers of others on the SecurityConfig are not modelled; deletion is
  immediate or in the foreground.
* Names are `<<kind, base, suffix>>`. The namers append suffixes of which none
  is the end of another, and a hash of the whole, so equal names mean equal
  triples. `SecretName` and `SecretFromRefName` coincide when SecurityConfig and
  Application are namesakes; the instance has such a pair. The `secretName` that
  a user may give in an inline Entra ID client (entraid_resolver.go:56, 116-121)
  is not modelled: `ClientSecret` is the namers'.
* In DesiredResources the content of a client object and of the OPA ConfigMap
  is `Fixed`: it depends on the spec alone. What else they depend on, OCI tags
  and labels of namespaces, is in OpaBundles and InboundRules.
* In OpaBundles and InboundRules the cache is up to date and a status update is
  not lost: that is Controller's subject. One admission is under way at a time;
  the webhook has no state that two would share. The verification that the label
  patch causes is one step. A content is its digest; `SourceOf` says which
  sources a digest satisfies, the result of SigstoreVerify.
* The resync of the informers is that of controller-runtime, every ten hours
  unless `SyncPeriod` is set, which `main` does not. Controller leaves it out:
  a resync can only wake it once more.
* A name is used again in DesiredResources only when nothing of its former
  bearer is left; the other case is run `controller_recreated`.
* The operators of client objects are modelled after
  `hack/mock_controller/main.go`. In DesiredResources `Publish` is one step that
  may happen whenever the client exists, and no property there speaks of the
  Secrets' existence; that, with the operator's steps and what wakes it, is
  SecretHandover. There reads are of the stored objects, no answer and no status
  update is lost, and the Secrets that a secretRef points to exist.
* One trusted root stands for two that are loaded in the same way. Setting
  `hasValid` and cancelling are one step: the loop reads only the former, the
  goroutines only the latter, and a goroutine that looks in between commutes
  with the loop, so it may as well have looked before.
* The Pod webhook's containers are compared as the code compares them, reduced to
  what the SecurityConfig determines: the secret Texas loads, the bundles OPA
  runs. Texas stands for its TokenX part. That the API server refuses a secret
  reference without a name is external. A failing List of SecurityConfigs
  (security_config.go:16-18), which refuses the Pod, is left out, and a Pod that
  has only some other annotation with the prefix, which the code finds eligible
  and passes on unchanged (pod_webhook.go:402-407, 245-250), is skipped.
* That `spec.tokenx` on a cluster without TokenX is an error
  (tokenx_resolver.go:24-26) is in DesiredResources, not in InboundRules.

## 3. Runs

| Run | Bounds | What it shows |
|---|---|---|
| `resource_pass` | 2 slots, 2 incarnations, 2 contents, every initial store and cache; unbounded other writers and passes | `FailuresReported`, `DescendantsComplete`, `WritesOnlyOwned` |
| `controller_faults` | 2 slots, generation up to 2, one fault or restart | `RestsAsDesired`, `RestsWithTrueStatus`, `ReadyMeansReconciled` |
| `controller_disturbed` | 1 slot, generation up to 2, one disturbance of eight kinds | `RestsAsDesired` and `RestsWithTrueStatus` under interference, `ComesToRest`, `DeletionCompletes` |
| `controller_recreated` | 1 slot that waits for a client of someone else, 2 incarnations, generation up to 2, one disturbance | `RestsAsDesired` when a name is used again, and `RestsWithTrueStatus` through the clientRef handlers |
| `sigstore` | 3 referrers, limit 2 (so the loop blocks), repeated calls, process restarts | `KeepsContract`, `CallReturns`, `RootIsMaterial`, and no deadlock |
| `pod_webhook` | 1 Pod of 11 kinds, 2 SecurityConfigs, 2 changes | `MutatedValidates`, `AdmittedFromOneVersion` |
| `desired_resources` | 2 SecurityConfigs, 8 specs that cover every capability and configuration, 3 changes by users | `UpToDate`, `PendingHasReason`, `NothingLeftBehind` |
| `secret_handover` | namesakes or not, from any of three modes, 3 edits, 2 faults of either controller | `RestsWithCredentials`, `EventuallyServed`; `TypeOK` with at most one client per edit |
| `opa_bundles` | 2 replicas, 2 SecurityConfigs, 4 specs, 4 configurations, 3 manifests, 1 tag, 4 events | `ConfigMapIsExact`, `PinnedIsVerified`, `SelfBundleKept`, `RestsWithLeader`, `AuthorizationHasPolicy` |
| `inbound_rules` | 3 namespaces, 1 label, 3 lists of rules, 3 policies, 3 events | `RestsCurrent`, `RewritesOnlyOnChange`, `EventuallyCurrent` |

Why these bounds are enough for the questions asked. A pass treats the slots
alike and in order, so two show that a failure in one neither hides nor is
hidden by the other (and the proofs hold for every number). Two generations
give every race of an edit with a pass in progress. One disturbance at any step
reaches every error path and every write of others at every point of a pass
(the proofs are for any number of them). Three edits lead through all ways to
configure a client and back to the first. Three
changes are the shortest that create a SecurityConfig, edit it and change what
it refers to; two SecurityConfigs suffice to compete for a name. Two replicas are
what `config/manager/base/deployment.yaml` asks for, with `-leader-elect`; four
events give an admission, a rollout, a crash with its failover and a tag that
moves in between, and the two SecurityConfigs show what one pass leaves to the
next. The configurations have a self-authorization bundle that is pinned, one
that goes by the tag, none, and OPA disabled. Three namespaces can be listed in
six orders; with two rules for one label a change falls between their lists.

`AtRest` says that no pass runs, none is queued and no event is under way:
properties `Rests...` are about such states because a controller of this kind
promises nothing earlier. That such states are reached is `ComesToRest`.
The deadlock check is off where a quiet cluster is the goal.

**What the properties deliberately do not say.**

* `WritesOnlyOwned` speaks of what the pass has *read*. Patch and Delete have no
  precondition on UID or resourceVersion, so an object that changes hands
  between the cached read and the call is written nevertheless; the stronger
  statement is false.
* `ReadyMeansReconciled` speaks of the first bearer of a name (`born = {sc.uid}`):
  `UpdateStatus` gets the object by name and does not compare UIDs, so a pass
  over a SecurityConfig that is deleted meanwhile can put its status into the
  next bearer, whose generations start at 1 again. The pass that the new bearer
  is queued for corrects it (`RestsWithTrueStatus` has no such exception).
* `RestsWithTrueStatus` speaks of passes that wrote their status, or did not have
  to because it equals the stored one (`report` is "written" or "skipped"):
  readiness, secrets and conditions are then true of the cluster.
  `observedGeneration` is claimed of written statuses only: the copy that the new
  status is compared with went through `InitializeStatus`
  (securityconfig_types.go:639), which sets it there, so that after an edit that
  changes nothing else of the status the write is skipped and the old generation
  stands. It excepts passes whose update was dropped, which the code only logs,
  and those that compared with an "outdated" copy: the cached SecurityConfig may
  carry a status that has since been replaced, by the previous pass's write or by
  its failure to resolve, and if the new status equals that one the replaced
  status stands although the pass found otherwise.
* `RestsWithCredentials` excepts one gap, `DeletedAfterReport`, which TLC shows to
  be reachable (drop the disjunct). SecurityConfig and Application are namesakes
  and an edit goes from secretRef to an inline client. The pass creates the
  client; the operator is woken, finds the Secret that the SecurityConfig still
  controls, writes into it and reports Ready; the pass comes to the Secret's slot
  and deletes it. That deletion is an event for accesserator alone, so the
  operator is not woken, and both rest with a Ready status that names a missing
  Secret, until a resync lets the operator look again (`EventuallyServed`).
* `NothingLeftBehind` excepts client objects named after a former
  `applicationRef`: no slot names them any more.
* `AdmittedFromOneVersion` is about Pods the validating webhook has looked at;
  a namespace that cannot be read lets a Pod through.
* `PinnedIsVerified` is about references by digest. A tag is verified at
  admission and resolved again by every pass (and twice at the start, for the
  self-authorization bundle): a tag that moves is served unverified.
* `SelfBundleKept` asks that the configuration of the last admission and that of
  the leader reserve the same name. A name that a later configuration reserves
  is not looked for in stored specs, and `opa_resolver.go:93` lets the spec's
  bundle win.
* `AuthorizationHasPolicy` asks that the replica that builds the container has
  the configuration of the pass that wrote the status.
* `RestsCurrent` excepts labels that changed after the pass began; that they are
  caught up with is `EventuallyCurrent`, and it takes a resync.

**Fairness.** controller-runtime runs the worker and the informers as
goroutines that are always ready when they have something to do, hence weak
fairness of the worker (with calls answered) and of each delivery. External
operators and the garbage collector eventually do their work; without that no
SecurityConfig gets ready and no deletion ends. Users, faults and restarts owe
nothing, and there are finitely many. In SigstoreVerify goroutines are scheduled
and fetches end, because their context has a deadline. In InboundRules the
worker, and the resync, come round; in SecretHandover also the operator, which
runs on controller-runtime too, and the garbage collector. OpaBundles states no liveness: that queued
requests are worked off is `ComesToRest` of Controller, and a registry owes
nothing.

### Disagreements between code and claims

Two runs are expected to be violated; `PROJECT.json` quotes the claims.

* `client_gone`: a SecurityConfig is ready and the client named by its
  `clientRef` is deleted. The event wakes the controller, the state cannot be
  determined, `UpdateSecurityConfigStatus` returns without writing, `Reconcile`
  returns no error: it stays Ready. (A status update that exhausts its retries
  has the same effect.)
* `webhook_panic`: OPA is enabled in a ready SecurityConfig and a Pod arrives
  before the controller has reported. `GetOpaContainer` dereferences
  `status.opaBundleSource`, which is nil.

A third disagreement has no run of its own: the comment at
status_manager.go:141 says "If MaskinportenConfigType is secretRef, the
integration secret is derived from the applicationRef.", while the line below it
calls `SecretFromRefName`, which is derived from the name of the SecurityConfig
(helper_functions.go:101), as is the name of the slot that makes the Secret. The
modules follow the code (`ClientField`, `NewStatus`); with the name of the comment
the status of a SecurityConfig that is no namesake of its Application would name
a Secret that nobody makes.

## 4. Proofs

TLAPS proves these for every value of the constants that satisfies the
assumptions stated in the modules (`ConstantsAssumption`, `ControllerAssumption`,
`GatesAssumption`, `SigstoreAssumption`, `PodAssumption`, `OpaAssumption`,
`NilAssumption`, `DesiredAssumption`, `ReferencesAssumption`,
`InboundAssumption`, `PassAssumption`, `HandoverAssumption`), which TLC evaluates in the runs of the
modules that state them. Each proof has one inductive
invariant; TLC has checked it on the runs' instances, and one lemma per action,
or per kind of action, shows that steps keep it. The fairness conjunct of a
specification is not used.

`ResourceReconcileProofs` (any number of slots, owners, contents):

* `TypeCorrect`, `FailuresAreReported`, `DescendantsAreComplete` and
  `OnlyOwnedIsWritten` state the four properties of run `resource_pass`.
* They rest on `Invariance`. `FailuresReported` alone is not inductive: that a
  slot's success does not hide a failure needs that the slot has no descendant
  while it is worked on. `IInv` adds `Progress` (slots behind the loop have a
  descendant exactly when wanted, slots ahead have none), `Clean` and
  `LoopEnd` for the ends of the loop, and `CallJustified`, which carries the
  ownership found at the read to the call and gives `OnlyOwnedIsWritten`.
* `ActionMeaning` says what `DetermineReconcileAction` may answer; `SlotDone` is
  the argument common to all ways a slot can end.

`ControllerProofs` (any number of slots, specs, incarnations, generations,
attempts and disturbances) proves all invariants that the controller's passing
runs check: `ControllerTypeCorrect`, `NoLostWakeUp` (`RestsAsDesired`),
`StatusIsTrue` (`RestsWithTrueStatus`) and `ReadyIsReconciled`
(`ReadyMeansReconciled`); `CountsAgree` adds that the branch of
`DetermineReconciliationState` for a wrong number of descendants is dead. A
property of states at rest says nothing of the states before, so the invariant
`CInv` says what holds on the way:

* `Wakeful`, the heart: while a SecurityConfig is cached and no request is
  queued (`Quiet`), a running pass works on the cached version and the cached
  input, the call it is about to make is about what the cache still holds, and
  every slot that is done is as desired in the cache or has an event of ours
  under way. Every step that could spoil this either queues the SecurityConfig
  (deliveries, errors, restarts) or leaves such an event (`WriteAnnounced`: even
  a patch that changes nothing is announced, since someone else must have
  changed the object since it was read).
* `Events` ties the marks of undelivered events to store and cache. Without it
  an event that wakes nobody could concern an owned object.
* `StatusTold` carries the truth of a status from its building (`Built`) through
  the write, or the comparison that makes it unnecessary, to the state at rest; `HarmlessEvent` shows that no event outside the
  watches can make it false, and here `GatesAssumption` is needed: the state
  waits for a generated object only when the object is generated, which is how
  status manager and generators branch.
* `Versions` says that UID and generation determine the spec across store,
  cache and pass; `Labelled` and `StoredLabelled` that a status is labelled with
  the generation it was built from. They give `ReadyIsReconciled`.
* The loop itself is `IInv` of `ResourceReconcileProofs`, used through `StepIInv`.

`SigstoreVerifyProofs` (any number of referrers, any limit, any sources):

* `TypeCorrect`, `ContractKept`: `Spec => KeepsContract`, the refinement, and
  `RootAlwaysMaterial`: `Spec => []RootIsMaterial`.
* `IInv` consists of `Sound` (a noted match exists), `CancelledByMatch` (only a
  match cancels), `NoneMissed` (a goroutine ends without noting its match only
  if the call is cut short or another match was noted), `LoopProgress` (the loop
  leaves a referrer out only after a match), `RootLoaded` (outside of startup
  the roots are loaded, which is what makes `RootIsMaterial` inductive), and
  `NoEarlyAnswer` (an answer exactly when returned, and then nothing runs). `AnswerAllowed`
  derives the contract's `Answer` from them, `StepRefines` maps every step.

`OpaBundlesProofs` (any number of replicas, SecurityConfigs, manifests, tags,
configurations and events, specs with any number of bundles) proves the six
invariants of run `opa_bundles`. `IInv` has, besides `Control` (types, which
process is where, who leads):

* `Admission` and `Admitted`: the bundles before the webhook's position were
  verified, so a stored spec is one whose pinned bundles all were;
  `PassAdmitted` carries this to the spec a pass works on. With `Maps` this gives
  `PinnedVerified` and `SelfKept`.
* `Gathered`: a pass has gathered exactly the names of the bundles before its
  position on top of the leader's own, each with a content that its reference
  allows; at the end of the loop this is `ConfigMapExact`.
* `Settled`: what is not queued has been written by the present leader for the
  present spec, hence `LeaderRests`.

`PodWebhookProofs` (any SecurityConfigs and Pods, annotations of any length)
proves the three invariants of run `pod_webhook`. `Recorded` remembers that a
mutated Pod is the Pod as it arrived with what the SecurityConfig of the
mutation prescribes; `HalvesAgree` follows by comparing the two halves operator
by operator, `OneVersion` from what the validation has compared at the end.

`DesiredResourcesProofs` (any number of SecurityConfigs, Applications, references
and changes, and any specs made of them) proves the four invariants of run
`desired_resources`. `IInv` has, besides the types:

* `Resting` for every SecurityConfig that is neither queued nor gone: its
  resolvers succeed, each wanted slot holds its own object with the desired
  content and no other slot holds one of its own, and its status says what
  `DetermineReconciliationState` would say now. That a pass
  establishes this is `AppliedSlot` and `AppliedNothing`, and needs
  `SlotKeyInjective`: no two of the twelve slots share a kind and a name.
* That others do not destroy it is `RestingKept` with `Unwoken`: an event that
  wakes nobody concerns an object that the SecurityConfig neither owns nor
  refers to, and by `DependsOnReferred` resolvers and generators depend on
  nothing else. This is where a handler that overlooks a reference would show.
* `UsersValues` (users' objects hold users' data, no slot is ever one of them) and
  `OwnsSlots` (a SecurityConfig owns only objects that its slots, with the present
  or a former applicationRef, name), which gives `LeavesNothingBehind`.
* `DescendantsCounted` shows that the comparison of numbers in the status manager
  makes nobody wait, hence `PendingForAClient`.

`ReferencesAssumption` says that whatever a spec refers to is an object that users
may create. A reference to an object that the controller or an operator has
generated (a `clientRef` to the client of another SecurityConfig, a `secretRef` to
a published Secret) is therefore outside of both the run and the proof.

`SecretHandoverProofs` (any number of edits and faults) proves `HandoverTypeCorrect`
and `CredentialsInPlace` (`RestsWithCredentials`). A state at rest says nothing of
how two controllers got there, so `HInv` says what each of them owes the other:

* `WorkerInv`: unless the SecurityConfig is queued, a pass works for the stored
  spec, the client is there exactly when wanted, the action it has chosen is still
  justified by the stored Secret, and what it has established stands. Whatever
  could spoil this touches an object the SecurityConfig controls, and `Store`
  queues it.
* `OperatorInv`: unless its client is queued, an idle operator has reported it
  ready, and outside of namesakes the Secret is there. Between namesakes the
  second half fails, which is the gap.
* `Holders`: a Secret that a client controls holds the client's credentials, so
  whatever survives a handover is right; `OneClientPerEdit` counts the clients.

`InboundRulesProofs` (any number of namespaces, labels, rules, clients and events)
proves `TypeOK`, `RestsCurrent` and the action property `RewritesOnlyOnChange`:

* `OneSortedList` and `UniqueElements` say what sorting and `UniqueSliceElements`
  compute, for lists of any length: a set has one sorted list, and the unique
  elements of a slice are all of its elements, each once. Both are proved with
  least elements (`LeastElement`) where one would use induction.
* `Resolves` describes what the loop has gathered after some rules by the history
  of its rounds; `ResolvesOnce` says that there is one such result for given
  labels and rules, however namespaces were listed, `ResolvesNext` that a round
  extends it and covers what one more rule calls for.
* The invariant: a pass that nothing has disturbed works from what there is
  (`Faithful`), the Jwker after such a pass is `Written` as long as nothing
  changes (`Outcome`), and whoever is not queued has missed nothing but labels
  (`Awake`). `RestsWithCurrentRules` compares `Written` with `CalledFor`;
  `RewritesNothingUnchanged` is `WrittenOnce` applied to two passes.

Only model-checked: all liveness (`ComesToRest`, `DeletionCompletes`,
`CallReturns`, `EventuallyCurrent`, `EventuallyServed`), which is out of the prover's reach. Every
invariant, action property and refinement that a passing run checks is proved.

## 5. Not modelled

* Parsing of image references and of environment variables, patterns of names,
  resource quantities, flags, certificates and metrics of `main`: sequential,
  done once, and an error exits.
* The identities a certificate may have (`BuildGitHubSANRegex`), certificate and
  TUF verification itself: libraries, external to SigstoreVerify.
* Envoy JSON and rego contents, the settings of an OPA request policy beyond its
  being enabled, logging and events: data no branch depends on.
* Generated code; schema validation of the custom resource except where a
  module assumes it (unique names and URLs of bundles in `IsSpec`).
* `ENABLE_WEBHOOKS=false`, meant for development.
* `hack/url2crd` and test scaffolding; of `hack/mock_controller` only what stands
  for the operators of client objects, and of them the one for MaskinportenClients
  (that of AzureAdApplications is the same code).
* A `clientRef` in SecretHandover: its slots are empty and its client is no part of
  the handover; Controller and DesiredResources have it.
* A failing List in an event handler: it reads a synchronised cache, and a model
  where it fails at will would lose every wake-up and show nothing else.

## 6. Plan

Done: the modules above, and a proof of every safety property that a passing run
checks.

Next: a composition of Controller's status with PodWebhook, so that the states
the webhook meets are those the controller produces, with its proof.
