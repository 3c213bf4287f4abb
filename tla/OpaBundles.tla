----------------------------- MODULE OpaBundles -----------------------------
(***************************************************************************)
(* The way of an OPA bundle from the registry to the ConfigMap that an OPA *)
(* container loads: a replica of accesserator starts and loads the         *)
(* self-authorization bundle of its configuration (cmd/main.go); the       *)
(* SecurityConfig webhook of some replica verifies the bundles of a spec   *)
(* (internal/webhook/securityconfigs, pkg/validation); the leader resolves *)
(* and fetches them again (internal/resolver) and writes the ConfigMap and *)
(* the status; the Pod webhook of some replica turns that status into the  *)
(* arguments of a container.  Meanwhile tags move, replicas crash, and a   *)
(* rollout changes the configuration of the replicas that start after it.  *)
(*                                                                         *)
(* The registry and the verification of one digest are external: the       *)
(* latter answers as VerificationContract says.  A bundle's content is     *)
(* known by the digest of its manifest.  One admission is under way at a   *)
(* time, and the reconciler has one worker.                                *)
(***************************************************************************)
EXTENDS Naturals, Sequences

CONSTANTS
  Replica,    \* processes, one of which is the leader
  SC,         \* SecurityConfigs
  Tag,        \* references by tag
  Digest,     \* manifests; a reference that is pinned to one is the digest itself
  Name,       \* names of bundles
  Source,     \* sources a user can ask for
  SourceOf,   \* the sources in Source that a verified attestation of a digest satisfies
  HasLayer,   \* digests with a layer of OpaBundleLayerMediaType
  Specs,      \* spec.opa of the SecurityConfigs that users submit
  Configs,    \* configurations a replica may be started with
  Nil,        \* a field that is not set
  MaxEvents   \* bound on faults, crashes, rollouts, moved tags and what users do

URL == Tag \cup Digest

Bundle == [name : Name, url : URL, verification : Source \cup {Nil}]

\* No bundle URLs: spec.opa is not set.
NoOpa == [enabled |-> FALSE, bundleURLs |-> <<>>]

\* The names and URLs of a list of bundles are unique, by the schema.
IsSpec(s) ==
  /\ s \in [enabled : BOOLEAN, bundleURLs : Seq(Bundle)]
  /\ \A i, j \in DOMAIN s.bundleURLs :
       s.bundleURLs[i].name = s.bundleURLs[j].name
         \/ s.bundleURLs[i].url = s.bundleURLs[j].url => i = j
  /\ s.bundleURLs = <<>> => s = NoOpa

\* allowed: the URLs with a prefix that is allowed.
Config == [opaEnabled : BOOLEAN, allowed : SUBSET URL, self : Bundle \cup {Nil}]

ASSUME OpaAssumption ==
  /\ Tag \cap Digest = {} /\ Nil \notin Digest \cup Source \cup Bundle \cup Replica \cup SC
  /\ SourceOf \in [Digest -> SUBSET Source]
  /\ HasLayer \subseteq Digest
  /\ \A s \in Specs : IsSpec(s)
  /\ Configs \subseteq Config
  /\ MaxEvents \in Nat

VARIABLES
  tags,       \* what the registry's tags point to
  env,        \* the configuration the next replica is started with
  proc,       \* each replica: where main is, config.Get() and
              \* config.OpaSelfAuthorizationBundleBinaryData
  leader,
  request,    \* the admission that is under way
  sc,         \* the stored SecurityConfigs
  queued,     \* the leader's work queue
  pass,       \* the leader's pass
  configMap,  \* the ConfigMaps of the SecurityConfigs
  events      \* what may still happen

vars == <<tags, env, proc, leader, request, sc, queued, pass, configMap, events>>

\* The data of a ConfigMap: contents by the bundles' names.
Empty == <<>>
Data  == UNION {[names -> Digest] : names \in SUBSET Name}

\* The assignment data[name] = content to a map.
Assigned(data, name, content) ==
  [x \in DOMAIN data \cup {name} |-> IF x = name THEN content ELSE data[x]]

Proc == [pc : {"down", "verify", "match", "resolve", "fetch", "run"},
         cfg : Configs, digest : Digest \cup {Nil}, data : Data]
Request == [pc : {"resolve", "match"}, sc : SC, spec : Specs, replica : Replica,
            i : Nat \ {0}, digest : Digest \cup {Nil}]
\* admitted: the configuration of the last admission; names, by: status.opaBundleSource,
\* and the configuration of the pass that wrote it.
Stored == [spec : Specs, admitted : Configs, labelled : BOOLEAN, ready : BOOLEAN,
           names : SUBSET Name, by : Configs \cup {Nil}]
Pass == [pc : {"label", "start", "resolve", "fetch", "write", "status"}, sc : SC,
         spec : Specs, admitted : Configs, i : Nat \ {0}, digest : Digest \cup {Nil},
         data : Data, failed : BOOLEAN]
\* What a ConfigMap holds, and the spec, the configurations and the
\* self-authorization bundle it was made from.
ConfigMap == [data : Data, spec : Specs, admitted : Configs, by : Configs, self : Data]

ASSUME NilAssumption ==
  Nil \notin Configs /\ Nil \notin Request /\ Nil \notin Stored /\ Nil \notin Pass /\ Nil \notin ConfigMap

\* Every variable keeps its type: in particular no name is bound to a content
\* that was not found.
TypeOK ==
  /\ tags \in [Tag -> Digest]
  /\ env \in Configs
  /\ proc \in [Replica -> Proc]
  /\ leader \in Replica \cup {Nil}
  /\ request \in Request \cup {Nil}
  /\ sc \in [SC -> Stored \cup {Nil}]
  /\ queued \subseteq SC
  /\ pass \in Pass \cup {Nil}
  /\ configMap \in [SC -> ConfigMap \cup {Nil}]
  /\ events \in 0..MaxEvents

Spend == events > 0 /\ events' = events - 1

Cfg == proc[leader].cfg

-----------------------------------------------------------------------------
(* The registry (pkg/utilities/oci_helpers.go). *)

\* ResolveOciRepositoryAndDigest: a reference by digest needs no lookup.
ResolveOciRepositoryAndDigest(url) == IF url \in Digest THEN url ELSE tags[url]

\* Mutant: a manifest without the layer yields nothing, and no error.
FetchLayerMatchingMediaType_Nothing(digest) == IF digest \in HasLayer THEN {digest} ELSE {Nil}

\* FetchLayerMatchingMediaType: the content, or none.
FetchLayerMatchingMediaType(digest) == {digest} \cap HasLayer

\* The last step of VerifyBundleSource: the answer for a digest.
MatchesExpectedSource(digest, bundle) == bundle.verification \in SourceOf[digest]

MoveTag(t, d) ==
  /\ tags[t] # d
  /\ Spend
  /\ tags' = [tags EXCEPT ![t] = d]
  /\ UNCHANGED <<env, proc, leader, request, sc, queued, pass, configMap>>

-----------------------------------------------------------------------------
(* A replica: main, up to the start of the manager. *)

Advance(r, p) == proc' = [proc EXCEPT ![r] = p]

Down(cfg) == [pc |-> "down", cfg |-> cfg, digest |-> Nil, data |-> Empty]

\* config.Load, as far as OPA is concerned: ValidateOpaBundle wants a source.
Load(c) ==
  /\ c.opaEnabled => c.allowed # {}
  /\ c.self # Nil => c.self.verification # Nil

HasAllowedPrefix(c, bundle) == bundle.url \in c.allowed

\* main exits with a configuration that does not load, or whose bundle has a
\* prefix that is not allowed: then the replica stays down.
Start(r) ==
  /\ proc[r].pc = "down"
  /\ Load(env)
  /\ env.self # Nil => HasAllowedPrefix(env, env.self)
  /\ Advance(r, [Down(env) EXCEPT !.pc = IF env.self = Nil THEN "run" ELSE "verify"])
  /\ UNCHANGED <<tags, env, leader, request, sc, queued, pass, configMap, events>>

\* validateAndLoadSelfAuthorizationBundle: VerifyBundleSource resolves the
\* reference and verifies what it finds, ...
VerifySelf(r) ==
  /\ proc[r].pc = "verify"
  /\ Advance(r, [proc[r] EXCEPT !.pc = "match",
                                !.digest = ResolveOciRepositoryAndDigest(proc[r].cfg.self.url)])
  /\ UNCHANGED <<tags, env, leader, request, sc, queued, pass, configMap, events>>

MatchSelf(r) ==
  /\ proc[r].pc = "match"
  /\ Advance(r, IF MatchesExpectedSource(proc[r].digest, proc[r].cfg.self)
                  THEN [proc[r] EXCEPT !.pc = "resolve"] ELSE Down(proc[r].cfg))
  /\ UNCHANGED <<tags, env, leader, request, sc, queued, pass, configMap, events>>

\* ... then the reference is resolved once more, and its layer fetched.
ResolveSelf(r) ==
  /\ proc[r].pc = "resolve"
  /\ Advance(r, [proc[r] EXCEPT !.pc = "fetch",
                                !.digest = ResolveOciRepositoryAndDigest(proc[r].cfg.self.url)])
  /\ UNCHANGED <<tags, env, leader, request, sc, queued, pass, configMap, events>>

FetchSelf(r) ==
  /\ proc[r].pc = "fetch"
  /\ LET found == FetchLayerMatchingMediaType(proc[r].digest)
     IN  Advance(r, IF found = {} THEN Down(proc[r].cfg)
                    ELSE [proc[r] EXCEPT !.pc = "run", !.digest = Nil, !.data =
                            Assigned(@, proc[r].cfg.self.name, CHOOSE content \in found : TRUE)])
  /\ UNCHANGED <<tags, env, leader, request, sc, queued, pass, configMap, events>>

\* The lease is free.  The informers list what is stored.
Elect(r) ==
  /\ leader = Nil
  /\ proc[r].pc = "run"
  /\ leader' = r
  /\ queued' = {n \in SC : sc[n] # Nil}
  /\ UNCHANGED <<tags, env, proc, request, sc, pass, configMap, events>>

\* A replica ends: a crash, an error or timeout during startup, a lost lease,
\* a rollout.  failurePolicy is Fail, so what it was admitting is refused.
Crash(r) ==
  /\ proc[r].pc # "down"
  /\ Spend
  /\ Advance(r, Down(proc[r].cfg))
  /\ IF leader = r THEN leader' = Nil /\ pass' = Nil /\ queued' = {}
                   ELSE UNCHANGED <<leader, pass, queued>>
  /\ request' = IF request # Nil /\ request.replica = r THEN Nil ELSE request
  /\ UNCHANGED <<tags, env, sc, configMap>>

\* The replicas that start from now on get another configuration.
Rollout(c) ==
  /\ c # env
  /\ Spend
  /\ env' = c
  /\ UNCHANGED <<tags, proc, leader, request, sc, queued, pass, configMap>>

-----------------------------------------------------------------------------
(* The SecurityConfig webhook. *)

\* Mutant: names are compared with no pre-configured one.
ValidateCollisionWithConfiguredSelfAuthBundle_Never(c, s) == TRUE

ValidateCollisionWithConfiguredSelfAuthBundle(c, s) ==
  c.self # Nil => \A i \in DOMAIN s.bundleURLs : s.bundleURLs[i].name # c.self.name

ValidateBundleUrlPrefixes(c, s) ==
  \A i \in DOMAIN s.bundleURLs : HasAllowedPrefix(c, s.bundleURLs[i])

\* validateSecurityConfig and validateOpa, up to verifyBundleSignatures.
Validates(c, s) ==
  s # NoOpa => /\ c.opaEnabled
               /\ ValidateCollisionWithConfiguredSelfAuthBundle(c, s)
               /\ ValidateBundleUrlPrefixes(c, s)

\* Mutant: nothing is verified unless every bundle has verification configured.
AnyHasVerification_All(s) == \A i \in DOMAIN s.bundleURLs : s.bundleURLs[i].verification # Nil

AnyHasVerification(s) == \E i \in DOMAIN s.bundleURLs : s.bundleURLs[i].verification # Nil

\* A user creates or edits a SecurityConfig, and the API server asks a replica.
\* A spec that does not validate is refused, and nothing changes.
Submit(n, s, r) ==
  /\ request = Nil
  /\ proc[r].pc = "run"
  /\ sc[n] # Nil => sc[n].spec # s
  /\ Spend
  /\ Validates(proc[r].cfg, s)
  /\ request' = [pc |-> "resolve", sc |-> n, spec |-> s, replica |-> r, digest |-> Nil,
                 i |-> IF AnyHasVerification(s) THEN 1 ELSE Len(s.bundleURLs) + 1]
  /\ UNCHANGED <<tags, env, proc, leader, sc, queued, pass, configMap>>

\* verifyBundleSignatures: a bundle without verification is skipped; for another
\* one, VerifyBundleSource resolves its reference, ...
VerifyBundleSignatures ==
  /\ request # Nil
  /\ request.pc = "resolve"
  /\ request.i <= Len(request.spec.bundleURLs)
  /\ LET bundle == request.spec.bundleURLs[request.i]
     IN  request' = IF bundle.verification = Nil THEN [request EXCEPT !.i = @ + 1]
                    ELSE [request EXCEPT !.pc = "match",
                                         !.digest = ResolveOciRepositoryAndDigest(bundle.url)]
  /\ UNCHANGED <<tags, env, proc, leader, sc, queued, pass, configMap, events>>

\* ... and verifies what it found.
VerifyBundleSource ==
  /\ request # Nil
  /\ request.pc = "match"
  /\ request' = IF MatchesExpectedSource(request.digest, request.spec.bundleURLs[request.i])
                  THEN [request EXCEPT !.pc = "resolve", !.i = @ + 1, !.digest = Nil]
                  ELSE Nil
  /\ UNCHANGED <<tags, env, proc, leader, sc, queued, pass, configMap, events>>

\* An error of the registry, or the timeout of 30 seconds.
AdmissionFails ==
  /\ request # Nil
  /\ Spend
  /\ request' = Nil
  /\ UNCHANGED <<tags, env, proc, leader, sc, queued, pass, configMap>>

\* The spec is stored, and the informers tell the leader.
Admit ==
  /\ request # Nil
  /\ request.pc = "resolve"
  /\ request.i > Len(request.spec.bundleURLs)
  /\ LET cfg == proc[request.replica].cfg
         n   == request.sc
     IN  sc' = [sc EXCEPT ![n] =
           IF @ = Nil THEN [spec |-> request.spec, admitted |-> cfg, labelled |-> FALSE,
                            ready |-> FALSE, names |-> {}, by |-> Nil]
           ELSE [@ EXCEPT !.spec = request.spec, !.admitted = cfg]]
  /\ queued' = IF leader = Nil THEN {} ELSE queued \cup {request.sc}
  /\ request' = Nil
  /\ UNCHANGED <<tags, env, proc, leader, pass, configMap, events>>

\* A user deletes a SecurityConfig.  The garbage collector takes its ConfigMap,
\* and whatever a pass that goes on still creates for it.
Delete(n) ==
  /\ sc[n] # Nil
  /\ Spend
  /\ sc' = [sc EXCEPT ![n] = Nil]
  /\ configMap' = [configMap EXCEPT ![n] = Nil]
  /\ queued' = queued \ {n}
  /\ pass' = IF pass # Nil /\ pass.sc = n THEN Nil ELSE pass
  /\ UNCHANGED <<tags, env, proc, leader, request>>

-----------------------------------------------------------------------------
(* The leader's pass: Reconcile, as far as OPA is concerned. *)

Reconciling(pc) == pass # Nil /\ pass.pc = pc

\* An error is returned, and the request queued again.
ReturnError ==
  /\ queued' = queued \cup {pass.sc}
  /\ pass' = Nil

BeginPass(n) ==
  /\ leader # Nil
  /\ pass = Nil
  /\ n \in queued
  /\ queued' = queued \ {n}
  /\ pass' = [pc |-> IF sc[n].labelled THEN "start" ELSE "label", sc |-> n,
              spec |-> sc[n].spec, admitted |-> sc[n].admitted, i |-> 1, digest |-> Nil,
              data |-> Empty, failed |-> FALSE]
  /\ UNCHANGED <<tags, env, proc, leader, request, sc, configMap, events>>

\* The standard labels are missing.  The patch goes through the webhook of some
\* replica, which validates and verifies the spec that is stored by now.
PatchLabels(r) ==
  /\ Reconciling("label")
  /\ proc[r].pc = "run"
  /\ LET n   == pass.sc
         s   == sc[n].spec
         c   == proc[r].cfg
         ok  == /\ Validates(c, s)
                /\ \A i \in DOMAIN s.bundleURLs :
                     s.bundleURLs[i].verification # Nil => MatchesExpectedSource(
                       ResolveOciRepositoryAndDigest(s.bundleURLs[i].url), s.bundleURLs[i])
     IN  IF ok THEN /\ sc' = [sc EXCEPT ![n].labelled = TRUE, ![n].admitted = c]
                    /\ pass' = [pass EXCEPT !.pc = "start", !.admitted =
                                  IF s = pass.spec THEN c ELSE @]
                    /\ UNCHANGED queued
               ELSE ReturnError /\ UNCHANGED sc
  /\ UNCHANGED <<tags, env, proc, leader, request, configMap, events>>

\* ResolveOpaConfigWithFetcher, up to the loop: the bundles are added to a copy
\* of the self-authorization bundle.
ResolveOpaConfig ==
  /\ Reconciling("start")
  /\ IF pass.spec # NoOpa /\ ~Cfg.opaEnabled THEN ReturnError
     ELSE /\ pass' = IF pass.spec.enabled
                       THEN [pass EXCEPT !.pc = "resolve", !.data = proc[leader].data]
                       ELSE [pass EXCEPT !.pc = "write"]
          /\ UNCHANGED queued
  /\ UNCHANGED <<tags, env, proc, leader, request, sc, configMap, events>>

\* resolveOpaBundle: the reference is resolved, ...
ResolveBundle ==
  /\ Reconciling("resolve")
  /\ pass.i <= Len(pass.spec.bundleURLs)
  /\ pass' = [pass EXCEPT !.pc = "fetch", !.digest =
                ResolveOciRepositoryAndDigest(pass.spec.bundleURLs[pass.i].url)]
  /\ UNCHANGED <<tags, env, proc, leader, request, sc, queued, configMap, events>>

\* Mutant: maps.Clone is missing, so that the bundle goes into the map of the
\* process.
FetchBundle_Shared ==
  /\ Reconciling("fetch")
  /\ LET found == FetchLayerMatchingMediaType(pass.digest)
         data  == Assigned(pass.data, pass.spec.bundleURLs[pass.i].name, pass.digest)
     IN  IF found = {} THEN ReturnError /\ UNCHANGED proc
         ELSE /\ pass' = [pass EXCEPT !.pc = "resolve", !.i = @ + 1, !.digest = Nil,
                                      !.data = data]
              /\ proc' = [proc EXCEPT ![leader].data = data]
              /\ UNCHANGED queued
  /\ UNCHANGED <<tags, env, leader, request, sc, configMap, events>>

\* ... and its layer fetched.
FetchBundle ==
  /\ Reconciling("fetch")
  /\ LET found == FetchLayerMatchingMediaType(pass.digest)
     IN  IF found = {} THEN ReturnError
         ELSE /\ pass' = [pass EXCEPT !.pc = "resolve", !.i = @ + 1, !.digest = Nil, !.data =
                            Assigned(@, pass.spec.bundleURLs[pass.i].name,
                                     CHOOSE content \in found : TRUE)]
              /\ UNCHANGED queued
  /\ UNCHANGED <<tags, env, proc, leader, request, sc, configMap, events>>

\* Mutant: the error is logged, and not returned.
ResolveFails_Logged ==
  /\ pass # Nil /\ pass.pc \in {"resolve", "fetch"}
  /\ Spend
  /\ pass' = Nil
  /\ UNCHANGED <<tags, env, proc, leader, request, sc, queued, configMap>>

\* An error of the registry, or the timeout of 60 seconds.
ResolveFails ==
  /\ pass # Nil /\ pass.pc \in {"resolve", "fetch"}
  /\ Spend
  /\ ReturnError
  /\ UNCHANGED <<tags, env, proc, leader, request, sc, configMap>>

Resolved == pass # Nil /\ (\/ pass.pc = "write"
                           \/ pass.pc = "resolve" /\ pass.i > Len(pass.spec.bundleURLs))

\* The ConfigMap is created, updated or deleted; it holds what was resolved.
WriteConfigMap ==
  /\ Resolved
  /\ configMap' = [configMap EXCEPT ![pass.sc] =
       IF ~pass.spec.enabled THEN Nil
       ELSE [data |-> pass.data, spec |-> pass.spec, admitted |-> pass.admitted,
             by |-> Cfg, self |-> proc[leader].data]]
  /\ pass' = [pass EXCEPT !.pc = "status"]
  /\ UNCHANGED <<tags, env, proc, leader, request, sc, queued, events>>

WriteConfigMapFails ==
  /\ Resolved
  /\ Spend
  /\ pass' = [pass EXCEPT !.pc = "status", !.failed = TRUE]
  /\ UNCHANGED <<tags, env, proc, leader, request, sc, queued, configMap>>

\* Mutant: the names are those of the spec.
BundleNames_OfSpec(p) == {p.spec.bundleURLs[i].name : i \in DOMAIN p.spec.bundleURLs}

BundleNames(p) == DOMAIN p.data

\* UpdateSecurityConfigStatus, which is called after a failed write too; a
\* spec with OPA disabled keeps the names it had.
WriteStatus ==
  /\ Reconciling("status")
  /\ LET old == sc[pass.sc]
     IN  sc' = [sc EXCEPT ![pass.sc] = [old EXCEPT
           !.ready = ~pass.failed,
           !.names = IF pass.spec.enabled THEN BundleNames(pass) ELSE old.names,
           !.by    = IF pass.spec.enabled THEN Cfg ELSE old.by]]
  /\ IF pass.failed THEN ReturnError ELSE pass' = Nil /\ UNCHANGED queued
  /\ UNCHANGED <<tags, env, proc, leader, request, configMap, events>>

-----------------------------------------------------------------------------
Init ==
  /\ tags \in [Tag -> Digest]
  /\ env \in Configs
  /\ proc = [r \in Replica |-> Down(env)]
  /\ leader = Nil
  /\ request = Nil
  /\ sc = [n \in SC |-> Nil]
  /\ queued = {}
  /\ pass = Nil
  /\ configMap = [n \in SC |-> Nil]
  /\ events = MaxEvents

Main(r) == Start(r) \/ VerifySelf(r) \/ MatchSelf(r) \/ ResolveSelf(r) \/ FetchSelf(r) \/ Elect(r)

Webhook == VerifyBundleSignatures \/ VerifyBundleSource \/ AdmissionFails \/ Admit

Reconciler ==
  \/ \E n \in SC : BeginPass(n)
  \/ \E r \in Replica : PatchLabels(r)
  \/ ResolveOpaConfig \/ ResolveBundle \/ FetchBundle \/ ResolveFails
  \/ WriteConfigMap \/ WriteConfigMapFails \/ WriteStatus

Environment ==
  \/ \E t \in Tag, d \in Digest : MoveTag(t, d)
  \/ \E c \in Configs : Rollout(c)
  \/ \E r \in Replica : Crash(r)
  \/ \E n \in SC : Delete(n) \/ \E s \in Specs, r \in Replica : Submit(n, s, r)

Next ==
  \/ \E r \in Replica : Main(r)
  \/ Webhook
  \/ Reconciler
  \/ Environment

Spec == Init /\ [][Next]_vars

-----------------------------------------------------------------------------
(* What the parts promise together. *)

NamesOf(s) == {s.bundleURLs[i].name : i \in DOMAIN s.bundleURLs}

SelfName(c) == IF c.self = Nil THEN {} ELSE {c.self.name}

\* A ConfigMap holds the bundles of one spec and the self-authorization bundle
\* of one configuration, all of them and nothing else: no failure leaves some
\* out, and none is left over from another spec, another SecurityConfig or an
\* earlier pass.  Rests on ResolveOpaConfigWithFetcher copying the map that
\* belongs to the process, and on giving up at the first error.
ConfigMapIsExact ==
  \A n \in SC : configMap[n] # Nil =>
    DOMAIN configMap[n].data = NamesOf(configMap[n].spec) \cup SelfName(configMap[n].by)

\* A bundle that is pinned to a digest and has a verification is served only if
\* its content satisfies it, whatever tags, configurations and restarts came
\* between its admission and the pass; and it is the content it is pinned to.
\* So is the self-authorization bundle.  (With a tag only the content of the
\* moment of admission has been verified: the reconciler resolves it again.)
PinnedIsVerified ==
  /\ \A n \in SC : configMap[n] # Nil =>
       \A i \in DOMAIN configMap[n].spec.bundleURLs :
         LET b == configMap[n].spec.bundleURLs[i]
         IN  b.url \in Digest =>
               /\ configMap[n].data[b.name] = b.url
               /\ b.verification # Nil => b.verification \in SourceOf[configMap[n].data[b.name]]
  /\ \A r \in Replica : LET self == proc[r].cfg.self IN
       proc[r].pc = "run" /\ self # Nil /\ self.url \in Digest =>
         self.verification \in SourceOf[proc[r].data[self.name]]

\* No bundle of a user takes the place of the self-authorization bundle, if the
\* spec was last admitted under a configuration that reserves the same name.
\* (A name that a later configuration reserves is not looked for in the specs
\* that are stored already.)
SelfBundleKept ==
  \A n \in SC : configMap[n] # Nil =>
    LET m == configMap[n]
    IN  \A name \in SelfName(m.by) \cap SelfName(m.admitted) : m.data[name] = m.self[name]

\* Whenever the leader has nothing to do, every ConfigMap is what the stored
\* spec and the leader's own self-authorization bundle call for, although the
\* leader before it may have loaded another content; and the status of a spec
\* with OPA names exactly what is in it.
RestsWithLeader ==
  leader # Nil /\ pass = Nil =>
    \A n \in SC \ queued : sc[n] # Nil =>
      IF sc[n].spec.enabled
        THEN /\ configMap[n] # Nil
             /\ configMap[n].spec = sc[n].spec
             /\ configMap[n].by = Cfg
             /\ configMap[n].self = proc[leader].data
             /\ sc[n].ready /\ sc[n].names = DOMAIN configMap[n].data
        ELSE configMap[n] = Nil

\* GetOpaContainer of a replica: whether OPA runs with --authorization=basic.
Authorization(r) == proc[r].cfg.self # Nil

\* An OPA container that is told to authorize its own API is given the bundle
\* with the policy for that, provided that the replica whose webhook builds it
\* has the configuration of the pass that wrote the status.
AuthorizationHasPolicy ==
  \A r \in Replica, n \in SC :
    /\ proc[r].pc = "run" /\ Authorization(r)
    /\ sc[n] # Nil /\ sc[n].spec.enabled /\ sc[n].by = proc[r].cfg
    => proc[r].cfg.self.name \in sc[n].names

=============================================================================
