-------------------------- MODULE OpaBundlesProofs --------------------------
(***************************************************************************)
(* Proofs about the way of OPA bundles, for any number of replicas,        *)
(* SecurityConfigs, bundles, tags and configurations, and any number of    *)
(* events.                                                                 *)
(***************************************************************************)
EXTENDS OpaBundles, TLAPS

-----------------------------------------------------------------------------
(* The inductive invariant, one part for each piece of the state. *)

\* A bundle that is pinned and has a verification satisfies it.
Vetted(b) == b.url \in Digest /\ b.verification # Nil => b.verification \in SourceOf[b.url]

VettedSpec(s) == \A i \in DOMAIN s.bundleURLs : Vetted(s.bundleURLs[i])

\* The content of the bundle is what it is pinned to.
Pinned(b, data) == b.url \in Digest => data[b.name] = b.url

\* A replica has its self-authorization bundle, and nothing else, once it runs.
ProcessOK(p) ==
  /\ p.pc \in {"verify", "match", "resolve", "fetch"} => p.cfg.self # Nil
  /\ p.pc # "run" => p.data = Empty
  /\ p.pc = "run" => DOMAIN p.data = SelfName(p.cfg)

\* If it is pinned, what is fetched is what was verified.
SelfOK(p) ==
  p.cfg.self # Nil /\ p.cfg.self.url \in Digest =>
    /\ p.pc \in {"match", "fetch"} => p.digest = p.cfg.self.url
    /\ p.pc \in {"resolve", "fetch", "run"} => p.cfg.self.verification \in SourceOf[p.cfg.self.url]
    /\ p.pc = "run" => p.data[p.cfg.self.name] = p.cfg.self.url

Processes == \A r \in Replica : ProcessOK(proc[r]) /\ SelfOK(proc[r])

\* Only a running replica leads, and only a leader reconciles, and only what
\* is stored.
Leadership ==
  /\ leader # Nil => proc[leader].pc = "run"
  /\ leader = Nil => pass = Nil /\ queued = {}
  /\ \A n \in queued : sc[n] # Nil
  /\ pass # Nil => sc[pass.sc] # Nil

\* The bundles before i have been matched, by a replica that still runs with
\* the configuration under which the spec validates.
Admission ==
  request # Nil =>
    /\ proc[request.replica].pc = "run"
    /\ Validates(proc[request.replica].cfg, request.spec)
    /\ \A j \in DOMAIN request.spec.bundleURLs :
         j < request.i => Vetted(request.spec.bundleURLs[j])
    /\ request.pc = "match" =>
         /\ request.i \in DOMAIN request.spec.bundleURLs
         /\ request.spec.bundleURLs[request.i].url \in Digest =>
              request.digest = request.spec.bundleURLs[request.i].url

\* What is stored has been through an admission, and a status that names
\* bundles names the self-authorization bundle of its configuration.
Admitted ==
  \A n \in SC : sc[n] # Nil =>
    /\ VettedSpec(sc[n].spec)
    /\ ValidateCollisionWithConfiguredSelfAuthBundle(sc[n].admitted, sc[n].spec)
    /\ sc[n].by # Nil => SelfName(sc[n].by) \subseteq sc[n].names

\* The pass works on such a spec.
PassAdmitted ==
  pass # Nil =>
    /\ VettedSpec(pass.spec)
    /\ ValidateCollisionWithConfiguredSelfAuthBundle(pass.admitted, pass.spec)

\* Where the loop over the bundles is.
Loop ==
  pass # Nil =>
    /\ pass.i \in 1..(Len(pass.spec.bundleURLs) + 1)
    /\ pass.pc \in {"label", "start"} => pass.i = 1
    /\ pass.pc \in {"resolve", "fetch"} => pass.spec.enabled
    /\ pass.pc = "fetch" =>
         /\ pass.i <= Len(pass.spec.bundleURLs)
         /\ pass.spec.bundleURLs[pass.i].url \in Digest =>
              pass.digest = pass.spec.bundleURLs[pass.i].url
    /\ pass.pc = "write" => ~pass.spec.enabled
    /\ pass.pc = "status" /\ pass.spec.enabled => pass.i = Len(pass.spec.bundleURLs) + 1

Gathering == pass # Nil /\ pass.spec.enabled /\ pass.pc \in {"resolve", "fetch", "status"}

\* It has gathered the bundles before i on top of the leader's own.
Gathered ==
  Gathering =>
    /\ DOMAIN pass.data = SelfName(Cfg) \cup {pass.spec.bundleURLs[j].name : j \in 1..(pass.i - 1)}
    /\ \A j \in 1..(pass.i - 1) : Pinned(pass.spec.bundleURLs[j], pass.data)
    /\ \A x \in SelfName(Cfg) \ NamesOf(pass.spec) : pass.data[x] = proc[leader].data[x]

\* So has every ConfigMap, all of them.
MapOK(m) ==
  /\ VettedSpec(m.spec)
  /\ ValidateCollisionWithConfiguredSelfAuthBundle(m.admitted, m.spec)
  /\ DOMAIN m.data = NamesOf(m.spec) \cup SelfName(m.by)
  /\ \A i \in DOMAIN m.spec.bundleURLs : Pinned(m.spec.bundleURLs[i], m.data)
  /\ \A x \in SelfName(m.by) \ NamesOf(m.spec) : m.data[x] = m.self[x]

Maps == \A n \in SC : configMap[n] # Nil => MapOK(configMap[n])

\* The ConfigMap m is the one for the spec s, made by the process p.
MapIs(m, s, p) ==
  IF s.enabled THEN m # Nil /\ m.spec = s /\ m.by = p.cfg /\ m.self = p.data ELSE m = Nil

\* What is neither queued nor worked on is as it should be; a spec that is
\* worked on is the stored one, unless it is queued again.
Settled ==
  leader # Nil =>
    /\ \A n \in SC \ queued : sc[n] # Nil /\ (pass = Nil \/ pass.sc # n) =>
         /\ MapIs(configMap[n], sc[n].spec, proc[leader])
         /\ sc[n].spec.enabled => sc[n].ready /\ sc[n].names = DOMAIN configMap[n].data
    /\ pass # Nil /\ pass.sc \notin queued => pass.spec = sc[pass.sc].spec
    /\ pass # Nil /\ pass.pc = "status" /\ ~pass.failed =>
         /\ MapIs(configMap[pass.sc], pass.spec, proc[leader])
         /\ pass.spec.enabled => configMap[pass.sc].data = pass.data

Control == TypeOK /\ Processes /\ Leadership /\ Loop

IInv ==
  /\ Control
  /\ Admission /\ Admitted /\ PassAdmitted
  /\ Gathered /\ Maps /\ Settled

-----------------------------------------------------------------------------
(* The operators. *)

\* The empty map is one, and has no names.
LEMMA EmptyData == Empty \in Data /\ DOMAIN Empty = {}
BY DEF Empty, Data

\* A map has contents for names.
LEMMA DataFacts ==
  ASSUME NEW data \in Data
  PROVE  DOMAIN data \subseteq Name /\ \A x \in DOMAIN data : data[x] \in Digest
BY DEF Data

\* An assignment sets one name and leaves the others.
LEMMA AssignedFacts ==
  ASSUME NEW data \in Data, NEW name \in Name, NEW content \in Digest
  PROVE  /\ Assigned(data, name, content) \in Data
         /\ DOMAIN Assigned(data, name, content) = DOMAIN data \cup {name}
         /\ Assigned(data, name, content)[name] = content
         /\ \A x \in DOMAIN data \ {name} : Assigned(data, name, content)[x] = data[x]
<1>1. DOMAIN data \cup {name} \in SUBSET Name
  BY DataFacts
<1>2. Assigned(data, name, content) \in [DOMAIN data \cup {name} -> Digest]
  BY DataFacts DEF Assigned
<1> QED
  BY <1>1, <1>2 DEF Assigned, Data

\* A bundle has a name, a reference and perhaps a source.
LEMMA BundleFacts ==
  ASSUME NEW b \in Bundle
  PROVE  b.name \in Name /\ b.url \in URL /\ b.verification \in Source \cup {Nil} /\ b # Nil
BY OpaAssumption DEF Bundle

\* The bundles of a spec are a list without a name that occurs twice.
LEMMA SpecFacts ==
  ASSUME NEW s \in Specs
  PROVE  /\ s.enabled \in BOOLEAN
         /\ s.bundleURLs \in Seq(Bundle)
         /\ Len(s.bundleURLs) \in Nat
         /\ DOMAIN s.bundleURLs = 1..Len(s.bundleURLs)
         /\ \A i \in DOMAIN s.bundleURLs : s.bundleURLs[i] \in Bundle
         /\ \A i, j \in DOMAIN s.bundleURLs :
              s.bundleURLs[i].name = s.bundleURLs[j].name => i = j
<1>1. IsSpec(s)
  BY OpaAssumption
<1>2. s.enabled \in BOOLEAN /\ s.bundleURLs \in Seq(Bundle)
  BY <1>1 DEF IsSpec
<1>3. \A i, j \in DOMAIN s.bundleURLs : s.bundleURLs[i].name = s.bundleURLs[j].name => i = j
  BY <1>1 DEF IsSpec
<1> QED
  BY <1>2, <1>3

\* A configuration has its fields.
LEMMA ConfigFacts ==
  ASSUME NEW c \in Configs
  PROVE  c.opaEnabled \in BOOLEAN /\ c.self \in Bundle \cup {Nil}
BY OpaAssumption DEF Config

\* A reference resolves to a digest, and one that is a digest to itself.
LEMMA ResolveFacts ==
  ASSUME TypeOK, NEW url \in URL
  PROVE  /\ ResolveOciRepositoryAndDigest(url) \in Digest
         /\ url \in Digest => ResolveOciRepositoryAndDigest(url) = url
BY DEF TypeOK, URL, ResolveOciRepositoryAndDigest

\* The content that is found is that of the digest.
LEMMA FetchFacts ==
  ASSUME NEW digest, FetchLayerMatchingMediaType(digest) # {}
  PROVE  /\ digest \in Digest
         /\ (CHOOSE content \in FetchLayerMatchingMediaType(digest) : TRUE) = digest
<1>1. FetchLayerMatchingMediaType(digest) = {digest} /\ digest \in Digest
  BY OpaAssumption DEF FetchLayerMatchingMediaType
<1>2. (CHOOSE content \in FetchLayerMatchingMediaType(digest) : TRUE)
        \in FetchLayerMatchingMediaType(digest)
  BY <1>1
<1> QED
  BY <1>1, <1>2

\* A process that is down has nothing.
LEMMA DownFacts ==
  ASSUME NEW c \in Configs
  PROVE  Down(c) \in Proc /\ ProcessOK(Down(c)) /\ SelfOK(Down(c))
BY EmptyData DEF Down, Proc, ProcessOK, SelfOK

-----------------------------------------------------------------------------
(* Types. *)

\* The parts of the state have their types.
LEMMA TypeFacts ==
  ASSUME TypeOK
  PROVE  /\ \A r \in Replica : proc[r] \in Proc
         /\ leader # Nil => leader \in Replica
         /\ request # Nil => request \in Request
         /\ \A n \in SC : sc[n] # Nil => sc[n] \in Stored
         /\ pass # Nil => pass \in Pass
         /\ \A n \in SC : configMap[n] # Nil => configMap[n] \in ConfigMap
BY DEF TypeOK

\* What counts as an event leaves fewer of them.
LEMMA SpendTypes ==
  ASSUME TypeOK, Spend
  PROVE  events' \in 0..MaxEvents
<1>1. MaxEvents \in Nat
  BY OpaAssumption
<1> QED
  BY <1>1 DEF TypeOK, Spend

\* An admission stores the spec, under the configuration of its replica.
LEMMA AdmitEffect ==
  ASSUME TypeOK, Admit
  PROVE  LET n == request.sc IN
         /\ n \in SC
         /\ sc'[n] \in Stored
         /\ sc'[n].spec = request.spec
         /\ sc'[n].admitted = proc[request.replica].cfg
         /\ sc[n] = Nil => sc'[n].by = Nil
         /\ sc[n] # Nil => sc'[n].by = sc[n].by /\ sc'[n].names = sc[n].names
         /\ sc' \in [SC -> Stored \cup {Nil}]
         /\ \A m \in SC \ {n} : sc'[m] = sc[m]
<1>1. request \in Request /\ request.sc \in SC
  BY TypeFacts DEF Admit, Request
<1> DEFINE n   == request.sc
           cfg == proc[request.replica].cfg
           new == [spec |-> request.spec, admitted |-> cfg, labelled |-> FALSE,
                   ready |-> FALSE, names |-> {}, by |-> Nil]
           old == [sc[n] EXCEPT !.spec = request.spec, !.admitted = cfg]
<1>2. cfg \in Configs
  BY <1>1, TypeFacts DEF Request, Proc
<1>3. new \in Stored
  BY <1>1, <1>2 DEF Request, Stored
<1>4. sc[n] # Nil => /\ old \in Stored
                     /\ old.spec = request.spec /\ old.admitted = cfg
                     /\ old.by = sc[n].by /\ old.names = sc[n].names
  BY <1>1, <1>2, TypeFacts DEF Request, Stored
<1>5. new.spec = request.spec /\ new.admitted = cfg /\ new.by = Nil
  OBVIOUS
<1>6. sc' = [sc EXCEPT ![n] = IF sc[n] = Nil THEN new ELSE old]
  BY DEF Admit
<1> HIDE DEF new, old, cfg
<1>7. sc'[n] = (IF sc[n] = Nil THEN new ELSE old) /\ \A m \in SC \ {n} : sc'[m] = sc[m]
  BY <1>1, <1>6 DEF TypeOK
<1>8. sc' \in [SC -> Stored \cup {Nil}]
  BY <1>1, <1>3, <1>4, <1>6 DEF TypeOK
<1> QED
  BY <1>1, <1>3, <1>4, <1>5, <1>7, <1>8 DEF cfg

\* A patch that the webhook lets through is another admission of the stored spec.
LEMMA PatchEffect ==
  ASSUME TypeOK, pass # Nil, sc[pass.sc] # Nil, NEW r \in Replica, PatchLabels(r)
  PROVE  LET n == pass.sc
             c == proc[r].cfg IN
         \/ ReturnError /\ sc' = sc
         \/ /\ Validates(c, sc[n].spec)
            /\ n \in SC
            /\ sc'[n] \in Stored
            /\ sc'[n].spec = sc[n].spec
            /\ sc'[n].admitted = c
            /\ sc'[n].by = sc[n].by /\ sc'[n].names = sc[n].names /\ sc'[n].ready = sc[n].ready
            /\ sc' \in [SC -> Stored \cup {Nil}]
            /\ \A m \in SC \ {n} : sc'[m] = sc[m]
            /\ pass' = [pass EXCEPT !.pc = "start", !.admitted =
                          IF sc[n].spec = pass.spec THEN c ELSE pass.admitted]
            /\ queued' = queued
<1> DEFINE n == pass.sc
           c == proc[r].cfg
           new == [[sc[n] EXCEPT !.labelled = TRUE] EXCEPT !.admitted = c]
<1>1. n \in SC /\ sc[n] \in Stored /\ c \in Configs
  BY TypeFacts DEF Pass, Proc
<1>2. /\ new \in Stored
      /\ new.spec = sc[n].spec /\ new.admitted = c
      /\ new.by = sc[n].by /\ new.names = sc[n].names /\ new.ready = sc[n].ready
  BY <1>1 DEF Stored
<1>3. CASE ReturnError /\ UNCHANGED sc
  BY <1>3
<1>4. CASE ~(ReturnError /\ UNCHANGED sc)
  <2>1. /\ Validates(c, sc[n].spec)
        /\ sc' = [sc EXCEPT ![n].labelled = TRUE, ![n].admitted = c]
        /\ pass' = [pass EXCEPT !.pc = "start", !.admitted =
                      IF sc[n].spec = pass.spec THEN c ELSE pass.admitted]
        /\ queued' = queued
    BY <1>4 DEF PatchLabels
  <2>2. sc' = [sc EXCEPT ![n] = new]
    BY <1>1, <2>1 DEF TypeOK
  <2> HIDE DEF new
  <2>3. sc'[n] = new /\ \A m \in SC \ {n} : sc'[m] = sc[m]
    BY <1>1, <2>2 DEF TypeOK
  <2>4. sc' \in [SC -> Stored \cup {Nil}]
    BY <1>1, <1>2, <2>2 DEF TypeOK
  <2> QED
    BY <1>1, <1>2, <2>1, <2>3, <2>4
<1> QED
  BY <1>3, <1>4

\* The status of a spec with OPA names what the pass has gathered.
LEMMA StatusEffect ==
  ASSUME TypeOK, Leadership, WriteStatus
  PROVE  LET n == pass.sc IN
         /\ pass \in Pass /\ n \in SC
         /\ sc'[n] \in Stored
         /\ sc'[n].spec = sc[n].spec
         /\ sc'[n].admitted = sc[n].admitted
         /\ sc'[n].ready = ~pass.failed
         /\ pass.spec.enabled => sc'[n].names = DOMAIN pass.data /\ sc'[n].by = Cfg
         /\ ~pass.spec.enabled => sc'[n].names = sc[n].names /\ sc'[n].by = sc[n].by
         /\ sc' \in [SC -> Stored \cup {Nil}]
         /\ \A m \in SC \ {n} : sc'[m] = sc[m]
<1> DEFINE n == pass.sc
           names == IF pass.spec.enabled THEN DOMAIN pass.data ELSE sc[n].names
           by == IF pass.spec.enabled THEN Cfg ELSE sc[n].by
           new == [sc[n] EXCEPT !.ready = ~pass.failed, !.names = names, !.by = by]
<1>1. pass # Nil /\ pass \in Pass /\ n \in SC /\ sc[n] \in Stored /\ leader \in Replica
  BY TypeFacts DEF WriteStatus, Reconciling, Leadership, Pass
<1>2. DOMAIN pass.data \subseteq Name /\ Cfg \in Configs
  BY <1>1, TypeFacts, DataFacts DEF Cfg, Proc, Pass
<1>3. names \subseteq Name /\ by \in Configs \cup {Nil}
  BY <1>1, <1>2 DEF Stored
<1>4. sc' = [sc EXCEPT ![n] = new]
  BY DEF WriteStatus, BundleNames
<1> HIDE DEF names, by
<1>5. /\ new \in Stored
      /\ new.spec = sc[n].spec /\ new.admitted = sc[n].admitted /\ new.ready = ~pass.failed
      /\ new.names = names /\ new.by = by
  BY <1>1, <1>3 DEF Stored, Pass
<1> HIDE DEF new
<1>6. sc'[n] = new /\ \A m \in SC \ {n} : sc'[m] = sc[m]
  BY <1>1, <1>4 DEF TypeOK
<1>7. sc' \in [SC -> Stored \cup {Nil}]
  BY <1>1, <1>4, <1>5 DEF TypeOK
<1> QED
  BY <1>1, <1>5, <1>6, <1>7 DEF names, by

\* A step of main keeps the type.
LEMMA MainTypes ==
  ASSUME TypeOK, Processes, NEW r \in Replica, Main(r)
  PROVE  TypeOK'
<1>p. proc[r] \in Proc /\ ProcessOK(proc[r])
  BY TypeFacts DEF Processes
<1>a. ASSUME NEW p \in Proc, Advance(r, p),
             UNCHANGED <<tags, env, leader, request, sc, queued, pass, configMap, events>>
      PROVE  TypeOK'
  BY <1>a DEF TypeOK, Advance
<1>c. proc[r].cfg \in Configs
  BY <1>p DEF Proc
<1>s. proc[r].pc \in {"verify", "match", "resolve", "fetch"} => proc[r].cfg.self \in Bundle
  BY <1>p, <1>c, ConfigFacts DEF ProcessOK
<1>1. CASE Start(r)
  <2>1. env \in Configs
    BY DEF TypeOK
  <2>2. [Down(env) EXCEPT !.pc = IF env.self = Nil THEN "run" ELSE "verify"] \in Proc
    BY <2>1, EmptyData DEF Down, Proc
  <2> QED
    BY <1>1, <1>a, <2>2 DEF Start
<1>2. CASE VerifySelf(r)
  <2>1. ResolveOciRepositoryAndDigest(proc[r].cfg.self.url) \in Digest
    BY <1>2, <1>s, BundleFacts, ResolveFacts DEF VerifySelf
  <2>2. [proc[r] EXCEPT !.pc = "match",
                        !.digest = ResolveOciRepositoryAndDigest(proc[r].cfg.self.url)] \in Proc
    BY <1>p, <2>1 DEF Proc
  <2> QED
    BY <1>2, <1>a, <2>2 DEF VerifySelf
<1>3. CASE MatchSelf(r)
  <2>1. [proc[r] EXCEPT !.pc = "resolve"] \in Proc /\ Down(proc[r].cfg) \in Proc
    BY <1>p, <1>c, DownFacts DEF Proc
  <2> QED
    BY <1>3, <1>a, <2>1 DEF MatchSelf
<1>4. CASE ResolveSelf(r)
  <2>1. ResolveOciRepositoryAndDigest(proc[r].cfg.self.url) \in Digest
    BY <1>4, <1>s, BundleFacts, ResolveFacts DEF ResolveSelf
  <2>2. [proc[r] EXCEPT !.pc = "fetch",
                        !.digest = ResolveOciRepositoryAndDigest(proc[r].cfg.self.url)] \in Proc
    BY <1>p, <2>1 DEF Proc
  <2> QED
    BY <1>4, <1>a, <2>2 DEF ResolveSelf
<1>5. CASE FetchSelf(r)
  <2>1. CASE FetchLayerMatchingMediaType(proc[r].digest) = {}
    BY <1>5, <1>a, <1>c, <2>1, DownFacts DEF FetchSelf
  <2>2. CASE FetchLayerMatchingMediaType(proc[r].digest) # {}
    <3> DEFINE content == CHOOSE content \in FetchLayerMatchingMediaType(proc[r].digest) : TRUE
               data    == Assigned(proc[r].data, proc[r].cfg.self.name, content)
    <3>1. data \in Data
      BY <1>5, <1>p, <1>s, <2>2, FetchFacts, BundleFacts, AssignedFacts DEF FetchSelf, Proc
    <3> HIDE DEF data
    <3>2. [proc[r] EXCEPT !.pc = "run", !.digest = Nil, !.data = data] \in Proc
      BY <1>p, <3>1 DEF Proc
    <3> QED
      BY <1>5, <1>a, <2>2, <3>2 DEF FetchSelf, data
  <2> QED
    BY <2>1, <2>2
<1>6. CASE Elect(r)
  BY <1>6 DEF Elect, TypeOK
<1> QED
  BY <1>1, <1>2, <1>3, <1>4, <1>5, <1>6 DEF Main

\* A step of the SecurityConfig webhook keeps the type.
LEMMA WebhookTypes ==
  ASSUME TypeOK, Admission, Webhook
  PROVE  TypeOK'
<1>r. request # Nil /\ request \in Request /\ request.spec \in Specs /\ request.i \in Nat \ {0}
  BY TypeFacts DEF Webhook, VerifyBundleSignatures, VerifyBundleSource, AdmissionFails, Admit, Request
<1>i. request.i + 1 \in Nat \ {0}
  BY <1>r
<1>a. ASSUME request' \in Request \cup {Nil}, UNCHANGED <<tags, env, proc, leader, sc, queued, pass, configMap, events>>
      PROVE  TypeOK'
  BY <1>a DEF TypeOK
<1>1. CASE VerifyBundleSignatures
  <2> DEFINE bundle == request.spec.bundleURLs[request.i]
  <2>1. bundle \in Bundle
    BY <1>1, <1>r, SpecFacts DEF VerifyBundleSignatures
  <2>2. ResolveOciRepositoryAndDigest(bundle.url) \in Digest
    BY <2>1, BundleFacts, ResolveFacts
  <2>3. /\ [request EXCEPT !.i = @ + 1] \in Request
        /\ [request EXCEPT !.pc = "match", !.digest = ResolveOciRepositoryAndDigest(bundle.url)] \in Request
    BY <1>r, <1>i, <2>2 DEF Request
  <2> QED
    BY <1>1, <1>a, <2>3 DEF VerifyBundleSignatures
<1>2. CASE VerifyBundleSource
  <2>1. [request EXCEPT !.pc = "resolve", !.i = @ + 1, !.digest = Nil] \in Request
    BY <1>r, <1>i DEF Request
  <2> QED
    BY <1>2, <1>a, <2>1 DEF VerifyBundleSource
<1>3. CASE AdmissionFails
  BY <1>3, SpendTypes DEF AdmissionFails, TypeOK
<1>4. CASE Admit
  BY <1>4, AdmitEffect DEF Admit, TypeOK
<1> QED
  BY <1>1, <1>2, <1>3, <1>4 DEF Webhook

\* A returned error queues the SecurityConfig again.
LEMMA ErrorTypes ==
  ASSUME TypeOK, pass # Nil, ReturnError
  PROVE  pass' = Nil /\ queued' = queued \cup {pass.sc} /\ queued' \subseteq SC
BY TypeFacts DEF ReturnError, TypeOK, Pass

\* A pass that resolves and fetches goes on, or returns an error.
LEMMA ResolveEffect ==
  ASSUME TypeOK, Leadership, Loop, ResolveOpaConfig \/ ResolveBundle \/ FetchBundle
  PROVE  /\ pass # Nil /\ sc' = sc /\ configMap' = configMap
         /\ \/ ReturnError
            \/ /\ pass' \in Pass /\ pass'.sc = pass.sc /\ pass'.spec = pass.spec
               /\ pass'.pc # "status" /\ queued' = queued
<1>1. pass # Nil /\ sc' = sc /\ configMap' = configMap
  BY DEF ResolveOpaConfig, ResolveBundle, FetchBundle, Reconciling
<1>p. /\ pass \in Pass /\ pass.spec \in Specs /\ pass.i \in Nat \ {0}
      /\ leader \in Replica /\ proc[leader] \in Proc
  BY <1>1, TypeFacts DEF Pass, Leadership
<1>2. CASE ResolveOpaConfig
  <2> DEFINE loaded   == [pass EXCEPT !.pc = "resolve", !.data = proc[leader].data]
             disabled == [pass EXCEPT !.pc = "write"]
  <2>1. loaded \in Pass /\ loaded.sc = pass.sc /\ loaded.spec = pass.spec /\ loaded.pc = "resolve"
    BY <1>p DEF Pass, Proc
  <2>2. disabled \in Pass /\ disabled.sc = pass.sc /\ disabled.spec = pass.spec /\ disabled.pc = "write"
    BY <1>p DEF Pass
  <2>3. ReturnError \/ (queued' = queued /\ (pass' = loaded \/ pass' = disabled))
    BY <1>2 DEF ResolveOpaConfig
  <2> HIDE DEF loaded, disabled
  <2> QED
    BY <1>1, <2>1, <2>2, <2>3
<1>3. CASE ResolveBundle
  <2>1. pass.i <= Len(pass.spec.bundleURLs)
    BY <1>3 DEF ResolveBundle
  <2>2. ResolveOciRepositoryAndDigest(pass.spec.bundleURLs[pass.i].url) \in Digest
    BY <1>p, <2>1, SpecFacts, BundleFacts, ResolveFacts
  <2> QED
    BY <1>1, <1>p, <1>3, <2>2 DEF ResolveBundle, Pass
<1>4. CASE FetchBundle
  <2>1. pass.pc = "fetch"
    BY <1>4 DEF FetchBundle, Reconciling
  <2>2. CASE FetchLayerMatchingMediaType(pass.digest) = {}
    BY <1>1, <1>4, <2>2 DEF FetchBundle
  <2>3. CASE FetchLayerMatchingMediaType(pass.digest) # {}
    <3> DEFINE content == CHOOSE content \in FetchLayerMatchingMediaType(pass.digest) : TRUE
               data == Assigned(pass.data, pass.spec.bundleURLs[pass.i].name, content)
    <3>1. pass.spec.bundleURLs[pass.i] \in Bundle
      BY <1>1, <1>p, <2>1, SpecFacts DEF Loop
    <3>2. data \in Data
      BY <1>p, <2>1, <2>3, <3>1, FetchFacts, BundleFacts, AssignedFacts DEF Pass
    <3>3. /\ pass' = [pass EXCEPT !.pc = "resolve", !.i = @ + 1, !.digest = Nil, !.data = data]
          /\ queued' = queued
      BY <1>4, <2>3 DEF FetchBundle
    <3> HIDE DEF data
    <3>4. pass.i + 1 \in Nat \ {0}
      BY <1>p
    <3> QED
      BY <1>1, <1>p, <3>2, <3>3, <3>4 DEF Pass
  <2> QED
    BY <2>2, <2>3
<1> QED
  BY <1>2, <1>3, <1>4

\* A step of the reconciler keeps the type.
LEMMA ReconcilerTypes ==
  ASSUME TypeOK, Leadership, Loop, Reconciler
  PROVE  TypeOK'
<1>p. pass # Nil =>
        /\ pass \in Pass /\ pass.sc \in SC /\ pass.spec \in Specs /\ pass.i \in Nat \ {0}
        /\ sc[pass.sc] \in Stored
        /\ leader \in Replica
        /\ proc[leader] \in Proc
  BY TypeFacts DEF Pass, Leadership
<1>a. ASSUME pass' \in Pass \cup {Nil}, queued' \subseteq SC,
             UNCHANGED <<tags, env, proc, leader, request, sc, configMap>>, events' \in 0..MaxEvents
      PROVE  TypeOK'
  BY <1>a DEF TypeOK
<1>e. events' = events => events' \in 0..MaxEvents
  BY DEF TypeOK
<1>s. Spend => events' \in 0..MaxEvents
  BY SpendTypes
<1>q. queued' = queued => queued' \subseteq SC
  BY DEF TypeOK
<1>1. ASSUME NEW n \in SC, BeginPass(n)
      PROVE  TypeOK'
  <2>1. sc[n] \in Stored
    BY <1>1, TypeFacts DEF BeginPass, Leadership
  <2>2. pass' \in Pass
    BY <1>1, <2>1, EmptyData DEF BeginPass, Stored, Pass
  <2> QED
    BY <1>1, <1>a, <1>e, <2>2 DEF BeginPass, TypeOK
<1>2. ASSUME NEW r \in Replica, PatchLabels(r)
      PROVE  TypeOK'
  <2>1. pass # Nil
    BY <1>2 DEF PatchLabels, Reconciling
  <2>2. CASE ReturnError /\ UNCHANGED sc
    BY <1>2, <1>a, <1>e, <2>1, <2>2, ErrorTypes DEF PatchLabels
  <2>3. CASE ~(ReturnError /\ UNCHANGED sc)
    <3>1. sc' \in [SC -> Stored \cup {Nil}] /\ queued' = queued
      BY <1>2, <2>1, <2>3, PatchEffect DEF Leadership
    <3>2. pass' \in Pass
      <4>1. proc[r].cfg \in Configs
        BY TypeFacts DEF Proc
      <4> QED
        BY <1>2, <1>p, <2>1, <2>3, <4>1, PatchEffect DEF Leadership, Pass
    <3> QED
      BY <1>2, <3>1, <3>2 DEF PatchLabels, TypeOK
  <2> QED
    BY <2>2, <2>3
<1>3. CASE ResolveOpaConfig \/ ResolveBundle \/ FetchBundle
  BY <1>3, <1>a, <1>e, <1>q, ResolveEffect, ErrorTypes DEF ResolveOpaConfig, ResolveBundle, FetchBundle
<1>4. CASE ResolveFails
  BY <1>4, <1>a, <1>s, ErrorTypes DEF ResolveFails
<1>5. CASE WriteConfigMap
  <2>1. pass # Nil
    BY <1>5 DEF WriteConfigMap, Resolved
  <2>2. pass' \in Pass
    BY <1>5, <1>p, <2>1 DEF WriteConfigMap, Pass
  <2>3. [data |-> pass.data, spec |-> pass.spec, admitted |-> pass.admitted,
         by |-> Cfg, self |-> proc[leader].data] \in ConfigMap
    BY <1>p, <2>1 DEF Cfg, Proc, Pass, ConfigMap
  <2>4. configMap' \in [SC -> ConfigMap \cup {Nil}]
    BY <1>5, <1>p, <2>1, <2>3 DEF WriteConfigMap, TypeOK
  <2> QED
    BY <1>5, <2>2, <2>4 DEF WriteConfigMap, TypeOK
<1>6. CASE WriteConfigMapFails
  <2>1. pass' \in Pass
    BY <1>6, <1>p DEF WriteConfigMapFails, Resolved, Pass
  <2> QED
    BY <1>6, <1>a, <1>q, <1>s, <2>1 DEF WriteConfigMapFails
<1>7. CASE WriteStatus
  <2>1. pass # Nil
    BY <1>7 DEF WriteStatus, Reconciling
  <2>2. pass' = Nil /\ queued' \subseteq SC
    BY <1>7, <1>q, <2>1, ErrorTypes DEF WriteStatus
  <2> QED
    BY <1>7, <2>2, StatusEffect DEF WriteStatus, TypeOK
<1> QED
  BY <1>1, <1>2, <1>3, <1>4, <1>5, <1>6, <1>7 DEF Reconciler

\* What the registry, the platform and users do keeps the type.
LEMMA EnvironmentTypes ==
  ASSUME TypeOK, Environment
  PROVE  TypeOK'
<1>s. Spend => events' \in 0..MaxEvents
  BY SpendTypes
<1>1. ASSUME NEW t \in Tag, NEW d \in Digest, MoveTag(t, d)
      PROVE  TypeOK'
  BY <1>1, <1>s DEF MoveTag, TypeOK
<1>2. ASSUME NEW c \in Configs, Rollout(c)
      PROVE  TypeOK'
  BY <1>2, <1>s DEF Rollout, TypeOK
<1>3. ASSUME NEW r \in Replica, Crash(r)
      PROVE  TypeOK'
  <2>1. Down(proc[r].cfg) \in Proc
    BY TypeFacts, DownFacts DEF Proc
  <2> QED
    BY <1>3, <1>s, <2>1 DEF Crash, Advance, TypeOK
<1>4. ASSUME NEW n \in SC, Delete(n)
      PROVE  TypeOK'
  BY <1>4, <1>s DEF Delete, TypeOK
<1>5. ASSUME NEW n \in SC, NEW s \in Specs, NEW r \in Replica, Submit(n, s, r)
      PROVE  TypeOK'
  <2>1. request' \in Request
    BY <1>5, SpecFacts DEF Submit, Request
  <2> QED
    BY <1>5, <1>s, <2>1 DEF Submit, TypeOK
<1> QED
  BY <1>1, <1>2, <1>3, <1>4, <1>5 DEF Environment

\* Every step keeps the type.
LEMMA TypeStep ==
  ASSUME TypeOK, Processes, Leadership, Loop, Admission, [Next]_vars
  PROVE  TypeOK'
<1>1. CASE UNCHANGED vars
  BY <1>1 DEF vars, TypeOK
<1> QED
  BY <1>1, MainTypes, WebhookTypes, ReconcilerTypes, EnvironmentTypes DEF Next

-----------------------------------------------------------------------------
(* Which actions write which part of the state. *)

\* Only main and the end of a process change a replica.
LEMMA ProcWriters ==
  ASSUME [Next]_vars, proc' # proc
  PROVE  \E r \in Replica : Start(r) \/ VerifySelf(r) \/ MatchSelf(r) \/ ResolveSelf(r)
                              \/ FetchSelf(r) \/ Crash(r)
BY DEF Next, vars, Main, Webhook, Reconciler, Environment, Elect, MoveTag, Rollout, Delete, Submit,
  VerifyBundleSignatures, VerifyBundleSource, AdmissionFails, Admit, BeginPass, PatchLabels,
  ResolveOpaConfig, ResolveBundle, FetchBundle, ResolveFails, WriteConfigMap, WriteConfigMapFails,
  WriteStatus

\* Only an election and the end of a process change the leader.
LEMMA LeaderWriters ==
  ASSUME [Next]_vars, leader' # leader
  PROVE  \E r \in Replica : Elect(r) \/ Crash(r)
BY DEF Next, vars, Main, Webhook, Reconciler, Environment, Start, VerifySelf, MatchSelf, ResolveSelf,
  FetchSelf, MoveTag, Rollout, Delete, Submit, VerifyBundleSignatures, VerifyBundleSource,
  AdmissionFails, Admit, BeginPass, PatchLabels, ResolveOpaConfig, ResolveBundle, FetchBundle,
  ResolveFails, WriteConfigMap, WriteConfigMapFails, WriteStatus

\* An admission begins with a submission, and goes on in the webhook.
LEMMA RequestWriters ==
  ASSUME [Next]_vars, request' # request, request' # Nil
  PROVE  \/ VerifyBundleSignatures \/ VerifyBundleSource
         \/ \E n \in SC, s \in Specs, r \in Replica : Submit(n, s, r)
BY DEF Next, vars, Main, Webhook, Reconciler, Environment, Start, VerifySelf, MatchSelf, ResolveSelf,
  FetchSelf, Elect, Crash, MoveTag, Rollout, Delete, AdmissionFails, Admit, BeginPass, PatchLabels,
  ResolveOpaConfig, ResolveBundle, FetchBundle, ResolveFails, WriteConfigMap, WriteConfigMapFails,
  WriteStatus

\* A stored SecurityConfig is written by admissions, users and the leader.
LEMMA StoredWriters ==
  ASSUME [Next]_vars, sc' # sc
  PROVE  \/ Admit \/ WriteStatus
         \/ \E n \in SC : Delete(n)
         \/ \E r \in Replica : PatchLabels(r)
BY DEF Next, vars, Main, Webhook, Reconciler, Environment, Start, VerifySelf, MatchSelf, ResolveSelf,
  FetchSelf, Elect, Crash, MoveTag, Rollout, Submit, VerifyBundleSignatures, VerifyBundleSource,
  AdmissionFails, BeginPass, ResolveOpaConfig, ResolveBundle, FetchBundle, ResolveFails,
  WriteConfigMap, WriteConfigMapFails

\* A pass that goes on does so in the reconciler.
LEMMA PassWriters ==
  ASSUME [Next]_vars, pass' # pass, pass' # Nil
  PROVE  \/ ResolveOpaConfig \/ ResolveBundle \/ FetchBundle \/ WriteConfigMap \/ WriteConfigMapFails
         \/ \E n \in SC : BeginPass(n)
         \/ \E r \in Replica : PatchLabels(r)
BY DEF Next, vars, Main, Webhook, Reconciler, Environment, Start, VerifySelf, MatchSelf, ResolveSelf,
  FetchSelf, Elect, Crash, MoveTag, Rollout, Delete, Submit, VerifyBundleSignatures,
  VerifyBundleSource, AdmissionFails, Admit, ResolveFails, ReturnError, WriteStatus

\* A ConfigMap is written by the leader and taken by the garbage collector.
LEMMA MapWriters ==
  ASSUME [Next]_vars, configMap' # configMap
  PROVE  WriteConfigMap \/ \E n \in SC : Delete(n)
BY DEF Next, vars, Main, Webhook, Reconciler, Environment, Start, VerifySelf, MatchSelf, ResolveSelf,
  FetchSelf, Elect, Crash, MoveTag, Rollout, Submit, VerifyBundleSignatures, VerifyBundleSource,
  AdmissionFails, Admit, BeginPass, PatchLabels, ResolveOpaConfig, ResolveBundle, FetchBundle,
  ResolveFails, WriteConfigMapFails, WriteStatus

-----------------------------------------------------------------------------
(* The replicas. *)

\* A replica that is started, goes on, or ends is as it should be.
LEMMA ProcessesStep ==
  ASSUME TypeOK, Processes, [Next]_vars
  PROVE  Processes'
<1>1. CASE proc' = proc
  BY <1>1 DEF Processes
<1>2. CASE proc' # proc
  <2>1. PICK r \in Replica : Start(r) \/ VerifySelf(r) \/ MatchSelf(r) \/ ResolveSelf(r)
                               \/ FetchSelf(r) \/ Crash(r)
    BY <1>2, ProcWriters
  <2>p. proc[r] \in Proc /\ ProcessOK(proc[r]) /\ SelfOK(proc[r]) /\ proc[r].cfg \in Configs
    BY TypeFacts DEF Processes, Proc
  <2>s. proc[r].pc \in {"verify", "match", "resolve", "fetch"} => proc[r].cfg.self \in Bundle
    BY <2>p, ConfigFacts DEF ProcessOK
  <2>a. ASSUME NEW p, Advance(r, p), ProcessOK(p), SelfOK(p)
        PROVE  Processes'
    BY <2>a DEF Advance, Processes, TypeOK
  <2>2. CASE Start(r)
    <3>1. env \in Configs
      BY DEF TypeOK
    <3> DEFINE p == [Down(env) EXCEPT !.pc = IF env.self = Nil THEN "run" ELSE "verify"]
    <3>2. ProcessOK(p) /\ SelfOK(p)
      BY <3>1, EmptyData DEF Down, ProcessOK, SelfOK, SelfName
    <3> QED
      BY <2>2, <2>a, <3>2 DEF Start
  <2>3. CASE VerifySelf(r)
    <3> DEFINE p == [proc[r] EXCEPT !.pc = "match",
                       !.digest = ResolveOciRepositoryAndDigest(proc[r].cfg.self.url)]
    <3>1. proc[r].pc = "verify"
      BY <2>3 DEF VerifySelf
    <3>2. proc[r].cfg.self.url \in Digest =>
            ResolveOciRepositoryAndDigest(proc[r].cfg.self.url) = proc[r].cfg.self.url
      BY <3>1, <2>s, BundleFacts, ResolveFacts
    <3>3. ProcessOK(p) /\ SelfOK(p)
      BY <2>p, <3>1, <3>2 DEF Proc, ProcessOK, SelfOK
    <3> QED
      BY <2>3, <2>a, <3>3 DEF VerifySelf
  <2>4. CASE MatchSelf(r)
    <3>1. proc[r].pc = "match"
      BY <2>4 DEF MatchSelf
    <3>2. CASE MatchesExpectedSource(proc[r].digest, proc[r].cfg.self)
      <4> DEFINE p == [proc[r] EXCEPT !.pc = "resolve"]
      <4>1. ProcessOK(p) /\ SelfOK(p)
        BY <2>p, <3>1, <3>2 DEF Proc, ProcessOK, SelfOK, MatchesExpectedSource
      <4> QED
        BY <2>4, <2>a, <3>2, <4>1 DEF MatchSelf
    <3>3. CASE ~MatchesExpectedSource(proc[r].digest, proc[r].cfg.self)
      BY <2>4, <2>a, <2>p, <3>3, DownFacts DEF MatchSelf
    <3> QED
      BY <3>2, <3>3
  <2>5. CASE ResolveSelf(r)
    <3> DEFINE p == [proc[r] EXCEPT !.pc = "fetch",
                       !.digest = ResolveOciRepositoryAndDigest(proc[r].cfg.self.url)]
    <3>1. proc[r].pc = "resolve"
      BY <2>5 DEF ResolveSelf
    <3>2. proc[r].cfg.self.url \in Digest =>
            ResolveOciRepositoryAndDigest(proc[r].cfg.self.url) = proc[r].cfg.self.url
      BY <3>1, <2>s, BundleFacts, ResolveFacts
    <3>3. ProcessOK(p) /\ SelfOK(p)
      BY <2>p, <3>1, <3>2 DEF Proc, ProcessOK, SelfOK
    <3> QED
      BY <2>5, <2>a, <3>3 DEF ResolveSelf
  <2>6. CASE FetchSelf(r)
    <3>1. proc[r].pc = "fetch"
      BY <2>6 DEF FetchSelf
    <3>2. CASE FetchLayerMatchingMediaType(proc[r].digest) = {}
      BY <2>6, <2>a, <2>p, <3>2, DownFacts DEF FetchSelf
    <3>3. CASE FetchLayerMatchingMediaType(proc[r].digest) # {}
      <4> DEFINE content == CHOOSE content \in FetchLayerMatchingMediaType(proc[r].digest) : TRUE
                 data    == Assigned(proc[r].data, proc[r].cfg.self.name, content)
                 p       == [proc[r] EXCEPT !.pc = "run", !.digest = Nil, !.data = data]
      <4>1. content = proc[r].digest /\ content \in Digest
        BY <3>3, FetchFacts
      <4>2. proc[r].data = Empty /\ proc[r].cfg.self \in Bundle /\ proc[r].cfg.self # Nil
        BY <2>p, <2>s, <3>1, BundleFacts DEF ProcessOK
      <4>3. DOMAIN data = {proc[r].cfg.self.name} /\ data[proc[r].cfg.self.name] = content
        <5> DEFINE before == proc[r].data
                   name   == proc[r].cfg.self.name
        <5>1. before \in Data /\ DOMAIN before = {} /\ name \in Name
          BY <4>2, EmptyData, BundleFacts
        <5> HIDE DEF content, before, name
        <5>2. /\ DOMAIN Assigned(before, name, content) = DOMAIN before \cup {name}
              /\ Assigned(before, name, content)[name] = content
          BY <4>1, <5>1, AssignedFacts
        <5>3. DOMAIN Assigned(before, name, content) = {name}
          BY <5>1, <5>2
        <5> QED
          BY <5>2, <5>3 DEF before, name
      <4> HIDE DEF data, content
      <4>4. p.pc = "run" /\ p.cfg = proc[r].cfg /\ p.data = data
        BY <2>p DEF Proc
      <4>5. ProcessOK(p)
        BY <4>2, <4>3, <4>4 DEF ProcessOK, SelfName
      <4>6. SelfOK(p)
        BY <2>p, <3>1, <4>1, <4>3, <4>4 DEF SelfOK
      <4>7. Advance(r, p)
        BY <2>6, <3>3 DEF FetchSelf, data, content
      <4> QED
        BY <2>a, <4>5, <4>6, <4>7
    <3> QED
      BY <3>2, <3>3
  <2>7. CASE Crash(r)
    BY <2>7, <2>a, <2>p, DownFacts DEF Crash
  <2> QED
    BY <2>1, <2>2, <2>3, <2>4, <2>5, <2>6, <2>7
<1> QED
  BY <1>1, <1>2

\* A replica that runs keeps its configuration and its data, or ends.
LEMMA RunningKept ==
  ASSUME TypeOK, [Next]_vars, NEW r \in Replica, proc[r].pc = "run"
  PROVE  proc'[r] = proc[r] \/ Crash(r)
<1>1. CASE proc' = proc
  BY <1>1
<1>2. CASE proc' # proc
  <2>1. PICK q \in Replica : Start(q) \/ VerifySelf(q) \/ MatchSelf(q) \/ ResolveSelf(q)
                               \/ FetchSelf(q) \/ Crash(q)
    BY <1>2, ProcWriters
  <2>2. PICK p : Advance(q, p)
    BY <2>1 DEF Start, VerifySelf, MatchSelf, ResolveSelf, FetchSelf, Crash
  <2>3. CASE Crash(q)
    BY <2>2, <2>3 DEF Advance, TypeOK
  <2>4. CASE ~Crash(q)
    <3>1. proc[q].pc # "run"
      BY <2>1, <2>4 DEF Start, VerifySelf, MatchSelf, ResolveSelf, FetchSelf
    <3> QED
      BY <2>2, <3>1 DEF Advance, TypeOK
  <2> QED
    BY <2>3, <2>4
<1> QED
  BY <1>1, <1>2

\* So the leader keeps both while it leads.
LEMMA LeaderKept ==
  ASSUME TypeOK, Leadership, [Next]_vars, leader # Nil
  PROVE  \/ leader' = leader /\ proc'[leader] = proc[leader]
         \/ leader' = Nil /\ pass' = Nil /\ queued' = {}
<1>1. leader \in Replica /\ proc[leader].pc = "run"
  BY TypeFacts DEF Leadership
<1>2. CASE Crash(leader)
  BY <1>2 DEF Crash
<1>3. CASE ~Crash(leader)
  <2>1. proc'[leader] = proc[leader]
    BY <1>1, <1>3, RunningKept
  <2>2. leader' = leader
    <3>1. SUFFICES ASSUME leader' # leader
                   PROVE  FALSE
      OBVIOUS
    <3>2. PICK r \in Replica : Elect(r) \/ Crash(r)
      BY <3>1, LeaderWriters
    <3> QED
      BY <1>3, <3>1, <3>2 DEF Elect, Crash
  <2> QED
    BY <2>1, <2>2
<1> QED
  BY <1>2, <1>3

-----------------------------------------------------------------------------
(* The leader and its loop. *)

\* No step but a deletion removes what is stored.
LEMMA StoredKept ==
  ASSUME TypeOK, Leadership, [Next]_vars, NEW n \in SC, sc[n] # Nil
  PROVE  sc'[n] # Nil \/ Delete(n)
<1>1. CASE sc' = sc
  BY <1>1
<1>2. CASE Admit
  BY <1>2, AdmitEffect, NilAssumption
<1>3. CASE WriteStatus
  BY <1>3, StatusEffect, NilAssumption
<1>4. ASSUME NEW m \in SC, Delete(m)
      PROVE  sc'[n] # Nil \/ Delete(n)
  BY <1>4 DEF Delete, TypeOK
<1>5. ASSUME NEW r \in Replica, PatchLabels(r)
      PROVE  sc'[n] # Nil
  <2>1. pass # Nil /\ sc[pass.sc] # Nil
    BY <1>5 DEF PatchLabels, Reconciling, Leadership
  <2> QED
    BY <1>5, <2>1, PatchEffect, NilAssumption
<1> QED
  BY <1>1, <1>2, <1>3, <1>4, <1>5, StoredWriters

\* How the queue of the leader changes.
LEMMA QueueWriters ==
  ASSUME [Next]_vars, queued' # queued
  PROVE  \/ Admit
         \/ pass # Nil /\ ReturnError /\ (sc' = sc \/ WriteStatus)
         \/ \E r \in Replica : Elect(r)
         \/ (\E r \in Replica : Crash(r)) /\ queued' = {}
         \/ \E n \in SC : Delete(n) \/ BeginPass(n)
<1>1. CASE Webhook
  BY <1>1 DEF Webhook, VerifyBundleSignatures, VerifyBundleSource, AdmissionFails
<1>2. CASE Reconciler
  <2>1. ASSUME NEW n \in SC, BeginPass(n)
        PROVE  \E m \in SC : BeginPass(m)
    BY <2>1
  <2>2. ASSUME NEW r \in Replica, PatchLabels(r)
        PROVE  pass # Nil /\ ReturnError /\ sc' = sc
    BY <2>2 DEF PatchLabels, Reconciling
  <2>3. CASE ResolveOpaConfig
    BY <2>3 DEF ResolveOpaConfig, Reconciling
  <2>4. CASE FetchBundle
    BY <2>4 DEF FetchBundle, Reconciling
  <2>5. CASE ResolveFails
    BY <2>5 DEF ResolveFails
  <2>6. CASE WriteStatus
    BY <2>6 DEF WriteStatus, Reconciling
  <2> QED
    BY <1>2, <2>1, <2>2, <2>3, <2>4, <2>5, <2>6
    DEF Reconciler, ResolveBundle, WriteConfigMap, WriteConfigMapFails
<1>3. CASE Environment
  <2>1. ASSUME NEW r \in Replica, Crash(r)
        PROVE  queued' = {}
    BY <2>1 DEF Crash
  <2> QED
    BY <1>3, <2>1 DEF Environment, MoveTag, Rollout, Submit
<1> QED
  BY <1>1, <1>2, <1>3
  DEF Next, vars, Main, Start, VerifySelf, MatchSelf, ResolveSelf, FetchSelf

\* A pass stays with its SecurityConfig, and with the admission it began with
\* unless it patches.
LEMMA PassKept ==
  ASSUME TypeOK, [Next]_vars, pass # Nil, pass' # Nil
  PROVE  /\ pass'.sc = pass.sc /\ pass'.spec = pass.spec
         /\ pass'.admitted = pass.admitted \/ \E r \in Replica : PatchLabels(r)
<1>1. pass \in Pass
  BY TypeFacts
<1>2. CASE pass' = pass
  BY <1>2
<1>3. CASE pass' # pass
  <2>1. ~\E n \in SC : BeginPass(n)
    BY DEF BeginPass
  <2>2. ASSUME NEW r \in Replica, PatchLabels(r)
        PROVE  pass'.sc = pass.sc /\ pass'.spec = pass.spec
    BY <1>1, <2>2 DEF PatchLabels, ReturnError, Pass
  <2>3. CASE ResolveOpaConfig
    BY <1>1, <2>3 DEF ResolveOpaConfig, ReturnError, Pass
  <2>4. CASE ResolveBundle
    BY <1>1, <2>4 DEF ResolveBundle, Pass
  <2>5. CASE FetchBundle
    <3> DEFINE data == Assigned(pass.data, pass.spec.bundleURLs[pass.i].name,
                         CHOOSE content \in FetchLayerMatchingMediaType(pass.digest) : TRUE)
    <3>1. pass' = [pass EXCEPT !.pc = "resolve", !.i = @ + 1, !.digest = Nil, !.data = data]
      BY <2>5 DEF FetchBundle, ReturnError
    <3> HIDE DEF data
    <3> QED
      BY <1>1, <3>1 DEF Pass
  <2>6. CASE WriteConfigMap
    BY <1>1, <2>6 DEF WriteConfigMap, Pass
  <2>7. CASE WriteConfigMapFails
    BY <1>1, <2>7 DEF WriteConfigMapFails, Pass
  <2> QED
    BY <1>3, <2>1, <2>2, <2>3, <2>4, <2>5, <2>6, <2>7, PassWriters
<1> QED
  BY <1>2, <1>3

\* Only a running replica leads, and it works on what is stored.
LEMMA LeadershipStep ==
  ASSUME TypeOK, Leadership, [Next]_vars
  PROVE  Leadership'
<1>n. Nil \notin Replica
  BY OpaAssumption
<1>e. leader = Nil /\ leader' # leader => \E r \in Replica : Elect(r)
  <2>1. SUFFICES ASSUME leader = Nil, leader' # leader
                 PROVE  \E r \in Replica : Elect(r)
    OBVIOUS
  <2>2. PICK r \in Replica : Elect(r) \/ Crash(r)
    BY <2>1, LeaderWriters
  <2>3. ~Crash(r)
    BY <1>n, <2>1 DEF Crash
  <2> QED
    BY <2>2, <2>3
<1>1. leader' # Nil => proc'[leader'].pc = "run"
  <2>1. CASE leader # Nil
    BY <2>1, LeaderKept DEF Leadership
  <2>2. CASE leader = Nil
    BY <2>2, <1>e DEF Elect
  <2> QED
    BY <2>1, <2>2
<1>2. leader' = Nil => pass' = Nil /\ queued' = {}
  <2>1. CASE leader # Nil
    BY <2>1, LeaderKept
  <2>2. CASE leader = Nil
    <3>1. pass = Nil /\ queued = {}
      BY <2>2 DEF Leadership
    <3>2. pass' = Nil
      <4>1. SUFFICES ASSUME pass' # Nil
                     PROVE  FALSE
        OBVIOUS
      <4> QED
        BY <2>2, <3>1, <4>1, PassWriters
        DEF BeginPass, PatchLabels, ResolveOpaConfig, ResolveBundle, FetchBundle, WriteConfigMap,
            WriteConfigMapFails, Reconciling, Resolved
    <3>3. leader' = Nil => queued' = {}
      <4>1. SUFFICES ASSUME leader' = Nil, queued' # {}
                     PROVE  FALSE
        OBVIOUS
      <4>2. ~\E r \in Replica : Elect(r)
        BY <1>n, <4>1 DEF Elect
      <4>3. ~\E n \in SC : Delete(n) \/ BeginPass(n)
        BY <2>2, <3>1, <4>1 DEF Delete, BeginPass
      <4>4. ~Admit
        BY <2>2, <4>1 DEF Admit
      <4> QED
        BY <3>1, <4>1, <4>2, <4>3, <4>4, QueueWriters
    <3> QED
      BY <3>2, <3>3
  <2> QED
    BY <2>1, <2>2
<1>3. \A n \in queued' : sc'[n] # Nil
  <2>1. ASSUME NEW n \in queued, n \in queued'
        PROVE  sc'[n] # Nil
    <3>1. n \in SC /\ sc[n] # Nil
      BY DEF TypeOK, Leadership
    <3>2. ~Delete(n)
      BY <2>1 DEF Delete
    <3> QED
      BY <3>1, <3>2, StoredKept
  <2>2. ASSUME NEW n \in queued', n \notin queued
        PROVE  sc'[n] # Nil
    <3>1. queued' # queued
      BY <2>2
    <3>2. ~\E m \in SC : Delete(m) \/ BeginPass(m)
      BY <2>2 DEF Delete, BeginPass
    <3>3. CASE Admit
      <4>1. n = request.sc
        BY <2>2, <3>3 DEF Admit
      <4> QED
        BY <3>3, <4>1, AdmitEffect, NilAssumption
    <3>4. CASE pass # Nil /\ ReturnError /\ (sc' = sc \/ WriteStatus)
      <4>1. n = pass.sc
        BY <2>2, <3>4 DEF ReturnError
      <4>2. n \in SC /\ sc[n] # Nil
        BY <3>4, <4>1, TypeFacts DEF Pass, Leadership
      <4> QED
        BY <3>4, <4>1, <4>2, StatusEffect, NilAssumption
    <3>5. ASSUME NEW r \in Replica, Elect(r)
          PROVE  sc'[n] # Nil
      BY <2>2, <3>5 DEF Elect
    <3> QED
      BY <2>2, <3>1, <3>2, <3>3, <3>4, <3>5, QueueWriters
  <2> QED
    BY <2>1, <2>2
<1>4. pass' # Nil => sc'[pass'.sc] # Nil
  <2>1. SUFFICES ASSUME pass' # Nil
                 PROVE  sc'[pass'.sc] # Nil
    OBVIOUS
  <2>2. CASE pass # Nil
    <3>1. pass'.sc = pass.sc /\ pass.sc \in SC /\ sc[pass.sc] # Nil
      BY <2>1, <2>2, PassKept, TypeFacts DEF Pass, Leadership
    <3>2. ~Delete(pass.sc)
      BY <2>1, <2>2 DEF Delete
    <3> QED
      BY <3>1, <3>2, StoredKept
  <2>3. CASE pass = Nil
    <3>1. PICK n \in SC : BeginPass(n)
      BY <2>1, <2>3, PassWriters
      DEF PatchLabels, ResolveOpaConfig, ResolveBundle, FetchBundle, WriteConfigMap,
          WriteConfigMapFails, Reconciling, Resolved
    <3> QED
      BY <3>1 DEF BeginPass, Leadership
  <2> QED
    BY <2>2, <2>3
<1> QED
  BY <1>1, <1>2, <1>3, <1>4 DEF Leadership

\* The loop over the bundles is where the program counter says.
LEMMA LoopStep ==
  ASSUME TypeOK, Leadership, Loop, [Next]_vars
  PROVE  Loop'
<1>1. SUFFICES ASSUME pass' # Nil, pass' # pass
               PROVE  Loop'
  BY DEF Loop
<1>p. pass # Nil => pass \in Pass /\ pass.spec \in Specs /\ pass.i \in Nat \ {0} /\ leader \in Replica
  BY TypeFacts DEF Pass, Leadership
<1>l. pass # Nil => /\ Len(pass.spec.bundleURLs) \in Nat
                    /\ pass.i \in 1..(Len(pass.spec.bundleURLs) + 1)
                    /\ pass.spec.enabled \in BOOLEAN
  BY <1>p, SpecFacts DEF Loop
<1>2. ASSUME NEW n \in SC, BeginPass(n)
      PROVE  Loop'
  <2>1. sc[n] \in Stored /\ sc[n].spec \in Specs
    BY <1>2, TypeFacts DEF BeginPass, Leadership, Stored
  <2>2. Len(sc[n].spec.bundleURLs) \in Nat
    BY <2>1, SpecFacts
  <2>3. pass'.i = 1 /\ pass'.pc \in {"label", "start"} /\ pass'.spec = sc[n].spec
    BY <1>2 DEF BeginPass
  <2> QED
    BY <2>2, <2>3 DEF Loop
<1>3. ASSUME NEW r \in Replica, PatchLabels(r)
      PROVE  Loop'
  <2>1. pass # Nil /\ pass.pc = "label"
    BY <1>3 DEF PatchLabels, Reconciling
  <2>2. pass'.pc = "start" /\ pass'.i = pass.i /\ pass'.spec = pass.spec
    BY <1>1, <1>3, <1>p, <2>1 DEF PatchLabels, ReturnError, Pass
  <2> QED
    BY <1>l, <2>1, <2>2 DEF Loop
<1>4. CASE ResolveOpaConfig
  <2>1. pass # Nil /\ pass.pc = "start"
    BY <1>4 DEF ResolveOpaConfig, Reconciling
  <2>2. /\ pass'.i = pass.i /\ pass'.spec = pass.spec
        /\ IF pass.spec.enabled THEN pass'.pc = "resolve" ELSE pass'.pc = "write"
    BY <1>1, <1>4, <1>p, <2>1 DEF ResolveOpaConfig, ReturnError, Pass
  <2> QED
    BY <1>l, <2>1, <2>2 DEF Loop
<1>5. CASE ResolveBundle
  <2>1. pass # Nil /\ pass.pc = "resolve" /\ pass.i <= Len(pass.spec.bundleURLs)
    BY <1>5 DEF ResolveBundle, Reconciling
  <2> DEFINE url == pass.spec.bundleURLs[pass.i].url
  <2>2. url \in Digest => ResolveOciRepositoryAndDigest(url) = url
    BY <1>p, <1>l, <2>1, SpecFacts, BundleFacts, ResolveFacts
  <2>3. /\ pass'.pc = "fetch" /\ pass'.i = pass.i /\ pass'.spec = pass.spec
        /\ pass'.digest = ResolveOciRepositoryAndDigest(url)
    BY <1>5, <1>p, <2>1 DEF ResolveBundle, Pass
  <2> QED
    BY <1>l, <2>1, <2>2, <2>3 DEF Loop
<1>6. CASE FetchBundle
  <2>1. pass # Nil /\ pass.pc = "fetch"
    BY <1>6 DEF FetchBundle, Reconciling
  <2> DEFINE data == Assigned(pass.data, pass.spec.bundleURLs[pass.i].name,
                       CHOOSE content \in FetchLayerMatchingMediaType(pass.digest) : TRUE)
  <2>2. pass' = [pass EXCEPT !.pc = "resolve", !.i = @ + 1, !.digest = Nil, !.data = data]
    BY <1>1, <1>6 DEF FetchBundle, ReturnError
  <2> HIDE DEF data
  <2>3. pass'.pc = "resolve" /\ pass'.i = pass.i + 1 /\ pass'.spec = pass.spec
    BY <1>p, <2>1, <2>2 DEF Pass
  <2> QED
    BY <1>l, <2>1, <2>3 DEF Loop
<1>7. CASE WriteConfigMap \/ WriteConfigMapFails
  <2>1. pass # Nil /\ Resolved
    BY <1>7 DEF WriteConfigMap, WriteConfigMapFails, Resolved
  <2>2. pass'.pc = "status" /\ pass'.i = pass.i /\ pass'.spec = pass.spec
    BY <1>7, <1>p, <2>1 DEF WriteConfigMap, WriteConfigMapFails, Pass
  <2> QED
    BY <1>l, <2>1, <2>2 DEF Loop, Resolved
<1> QED
  BY <1>1, <1>2, <1>3, <1>4, <1>5, <1>6, <1>7, PassWriters

-----------------------------------------------------------------------------
(* Admissions. *)

\* A spec that validates has no bundle with the reserved name.
LEMMA NoCollision ==
  ASSUME NEW c, NEW s \in Specs, Validates(c, s)
  PROVE  ValidateCollisionWithConfiguredSelfAuthBundle(c, s)
<1>1. CASE s = NoOpa
  <2>1. DOMAIN s.bundleURLs = {}
    BY <1>1 DEF NoOpa
  <2> QED
    BY <2>1 DEF ValidateCollisionWithConfiguredSelfAuthBundle
<1> QED
  BY <1>1 DEF Validates

\* The bundles before i have been matched, under the replica's configuration.
LEMMA AdmissionStep ==
  ASSUME TypeOK, Admission, [Next]_vars
  PROVE  Admission'
<1>1. SUFFICES ASSUME request' # Nil
               PROVE  Admission'
  BY DEF Admission
<1>r. request # Nil =>
        /\ request \in Request /\ request.spec \in Specs /\ request.i \in Nat \ {0}
        /\ request.replica \in Replica
        /\ Len(request.spec.bundleURLs) \in Nat
        /\ DOMAIN request.spec.bundleURLs = 1..Len(request.spec.bundleURLs)
  BY TypeFacts, SpecFacts DEF Request
<1>k. request # Nil /\ request'.replica = request.replica =>
        proc'[request.replica] = proc[request.replica]
  <2>1. SUFFICES ASSUME request # Nil, request'.replica = request.replica
                 PROVE  proc'[request.replica] = proc[request.replica]
    OBVIOUS
  <2>2. request.replica \in Replica /\ proc[request.replica].pc = "run"
    BY <1>r, <2>1 DEF Admission
  <2>3. ~Crash(request.replica)
    BY <1>1, <2>1 DEF Crash
  <2> QED
    BY <2>2, <2>3, RunningKept
<1>2. CASE request' = request
  BY <1>1, <1>2, <1>k DEF Admission
<1>3. ASSUME NEW n \in SC, NEW s \in Specs, NEW r \in Replica, Submit(n, s, r)
      PROVE  Admission'
  <2>1. /\ request'.spec = s /\ request'.replica = r /\ request'.pc = "resolve"
        /\ request'.i = IF AnyHasVerification(s) THEN 1 ELSE Len(s.bundleURLs) + 1
        /\ proc' = proc /\ proc[r].pc = "run" /\ Validates(proc[r].cfg, s)
    BY <1>3 DEF Submit
  <2>2. \A j \in DOMAIN s.bundleURLs : j < request'.i => Vetted(s.bundleURLs[j])
    <3>1. SUFFICES ASSUME NEW j \in DOMAIN s.bundleURLs, j < request'.i
                   PROVE  Vetted(s.bundleURLs[j])
      OBVIOUS
    <3>2. j \in 1..Len(s.bundleURLs) /\ Len(s.bundleURLs) \in Nat
      BY SpecFacts
    <3>3. ~AnyHasVerification(s)
      BY <2>1, <3>1, <3>2
    <3> QED
      BY <3>3 DEF AnyHasVerification, Vetted
  <2> QED
    BY <2>1, <2>2 DEF Admission
<1>4. CASE VerifyBundleSignatures
  <2> DEFINE bundle == request.spec.bundleURLs[request.i]
  <2>1. /\ request # Nil /\ request.pc = "resolve" /\ request.i <= Len(request.spec.bundleURLs)
        /\ request' = IF bundle.verification = Nil THEN [request EXCEPT !.i = @ + 1]
                      ELSE [request EXCEPT !.pc = "match",
                                           !.digest = ResolveOciRepositoryAndDigest(bundle.url)]
    BY <1>4 DEF VerifyBundleSignatures
  <2>2. bundle \in Bundle /\ request.i \in DOMAIN request.spec.bundleURLs
    BY <1>r, <2>1, SpecFacts
  <2>3. request'.spec = request.spec /\ request'.replica = request.replica
    BY <1>r, <2>1 DEF Request
  <2>4. CASE bundle.verification = Nil
    <3>1. request'.i = request.i + 1 /\ request'.pc = "resolve"
      BY <1>r, <2>1, <2>4 DEF Request
    <3>2. Vetted(bundle)
      BY <2>4 DEF Vetted
    <3>3. \A j \in DOMAIN request.spec.bundleURLs :
            j < request.i + 1 => Vetted(request.spec.bundleURLs[j])
      BY <1>r, <2>1, <3>2 DEF Admission
    <3> QED
      BY <1>k, <2>1, <2>3, <3>1, <3>3 DEF Admission
  <2>5. CASE bundle.verification # Nil
    <3>1. request'.i = request.i /\ request'.pc = "match"
            /\ request'.digest = ResolveOciRepositoryAndDigest(bundle.url)
      BY <1>r, <2>1, <2>5 DEF Request
    <3>2. bundle.url \in Digest => request'.digest = bundle.url
      BY <2>2, <3>1, BundleFacts, ResolveFacts
    <3> QED
      BY <1>k, <2>1, <2>2, <2>3, <3>1, <3>2 DEF Admission
  <2> QED
    BY <2>4, <2>5
<1>5. CASE VerifyBundleSource
  <2> DEFINE bundle == request.spec.bundleURLs[request.i]
  <2>1. /\ request # Nil /\ request.pc = "match"
        /\ MatchesExpectedSource(request.digest, bundle)
        /\ request' = [request EXCEPT !.pc = "resolve", !.i = @ + 1, !.digest = Nil]
    BY <1>1, <1>5 DEF VerifyBundleSource
  <2>2. /\ request'.spec = request.spec /\ request'.replica = request.replica
        /\ request'.i = request.i + 1 /\ request'.pc = "resolve"
    BY <1>r, <2>1 DEF Request
  <2>3. Vetted(bundle)
    BY <2>1 DEF Admission, MatchesExpectedSource, Vetted
  <2>4. \A j \in DOMAIN request.spec.bundleURLs :
          j < request.i + 1 => Vetted(request.spec.bundleURLs[j])
    BY <1>r, <2>1, <2>3 DEF Admission
  <2> QED
    BY <1>k, <2>1, <2>2, <2>4 DEF Admission
<1> QED
  BY <1>1, <1>2, <1>3, <1>4, <1>5, RequestWriters

\* What is stored has been through an admission.
LEMMA AdmittedStep ==
  ASSUME TypeOK, Leadership, Admission, Admitted, Gathered, [Next]_vars
  PROVE  Admitted'
<1> DEFINE OK(x) == /\ VettedSpec(x.spec)
                    /\ ValidateCollisionWithConfiguredSelfAuthBundle(x.admitted, x.spec)
                    /\ x.by # Nil => SelfName(x.by) \subseteq x.names
<1>a. \A n \in SC : sc[n] # Nil => OK(sc[n])
  BY DEF Admitted
<1>b. (\A n \in SC : sc'[n] # Nil => OK(sc'[n])) => Admitted'
  BY DEF Admitted
<1> HIDE DEF OK
<1>1. CASE sc' = sc
  BY <1>1, <1>a, <1>b
<1>2. CASE Admit
  <2>1. request \in Request /\ request.spec \in Specs /\ request.i > Len(request.spec.bundleURLs)
    BY <1>2, TypeFacts DEF Admit, Request
  <2>2. VettedSpec(request.spec)
    BY <1>2, <2>1, SpecFacts DEF Admit, Admission, VettedSpec, Request
  <2>3. ValidateCollisionWithConfiguredSelfAuthBundle(proc[request.replica].cfg, request.spec)
    BY <1>2, <2>1, NoCollision DEF Admit, Admission
  <2>4. OK(sc'[request.sc])
    BY <1>2, <1>a, <2>2, <2>3, AdmitEffect DEF OK
  <2> QED
    BY <1>2, <1>a, <1>b, <2>4, AdmitEffect
<1>3. CASE WriteStatus
  <2>1. pass # Nil /\ pass.pc = "status" /\ sc[pass.sc] # Nil
    BY <1>3 DEF WriteStatus, Reconciling, Leadership
  <2>2. pass.spec.enabled => SelfName(Cfg) \subseteq DOMAIN pass.data
    BY <2>1 DEF Gathered, Gathering
  <2>3. pass \in Pass /\ pass.sc \in SC /\ pass.spec.enabled \in BOOLEAN
    BY <2>1, TypeFacts, SpecFacts DEF Pass
  <2>4. OK(sc'[pass.sc])
    BY <1>3, <1>a, <2>1, <2>2, <2>3, StatusEffect DEF OK
  <2> QED
    BY <1>3, <1>a, <1>b, <2>4, StatusEffect
<1>4. ASSUME NEW n \in SC, Delete(n)
      PROVE  Admitted'
  BY <1>4, <1>a, <1>b DEF Delete, TypeOK
<1>5. ASSUME NEW r \in Replica, PatchLabels(r)
      PROVE  Admitted'
  <2>1. pass # Nil /\ sc[pass.sc] # Nil
    BY <1>5 DEF PatchLabels, Reconciling, Leadership
  <2>2. CASE sc' = sc
    BY <1>a, <1>b, <2>2
  <2>3. CASE sc' # sc
    <3>1. sc[pass.sc].spec \in Specs /\ pass.sc \in SC
      BY <2>1, TypeFacts DEF Pass, Stored
    <3>2. ValidateCollisionWithConfiguredSelfAuthBundle(proc[r].cfg, sc[pass.sc].spec)
      BY <1>5, <2>1, <2>3, <3>1, PatchEffect, NoCollision
    <3>3. OK(sc'[pass.sc])
      BY <1>5, <1>a, <2>1, <2>3, <3>1, <3>2, PatchEffect DEF OK
    <3> QED
      BY <1>5, <1>a, <1>b, <2>1, <2>3, <3>3, PatchEffect
  <2> QED
    BY <2>2, <2>3
<1> QED
  BY <1>1, <1>2, <1>3, <1>4, <1>5, StoredWriters

\* So has what the pass works on.
LEMMA PassAdmittedStep ==
  ASSUME TypeOK, Leadership, Admitted, PassAdmitted, [Next]_vars
  PROVE  PassAdmitted'
<1>1. SUFFICES ASSUME pass' # Nil
               PROVE  PassAdmitted'
  BY DEF PassAdmitted
<1>2. CASE pass = Nil
  <2>1. PICK n \in SC : BeginPass(n)
    BY <1>1, <1>2, PassWriters
    DEF PatchLabels, ResolveOpaConfig, ResolveBundle, FetchBundle, WriteConfigMap,
        WriteConfigMapFails, Reconciling, Resolved
  <2>2. sc[n] # Nil /\ pass'.spec = sc[n].spec /\ pass'.admitted = sc[n].admitted
    BY <2>1 DEF BeginPass, Leadership
  <2> QED
    BY <2>2 DEF Admitted, PassAdmitted
<1>3. CASE pass # Nil
  <2>1. CASE pass'.admitted = pass.admitted
    BY <1>1, <1>3, <2>1, PassKept DEF PassAdmitted
  <2>2. CASE pass'.admitted # pass.admitted
    <3>1. PICK r \in Replica : PatchLabels(r)
      BY <1>1, <1>3, <2>2, PassKept
    <3>2. sc[pass.sc] # Nil /\ pass \in Pass /\ pass.spec \in Specs
      BY <1>3, TypeFacts DEF Leadership, Pass
    <3>3. /\ Validates(proc[r].cfg, sc[pass.sc].spec)
          /\ pass'.admitted = IF sc[pass.sc].spec = pass.spec THEN proc[r].cfg ELSE pass.admitted
      BY <1>1, <1>3, <3>1, <3>2, PatchEffect DEF ReturnError, Pass
    <3>4. pass'.admitted = proc[r].cfg /\ Validates(proc[r].cfg, pass.spec)
      BY <2>2, <3>3
    <3>5. ValidateCollisionWithConfiguredSelfAuthBundle(pass'.admitted, pass.spec)
      BY <3>2, <3>4, NoCollision
    <3> QED
      BY <1>1, <1>3, <3>5, PassKept DEF PassAdmitted
  <2> QED
    BY <2>1, <2>2
<1> QED
  BY <1>2, <1>3

-----------------------------------------------------------------------------
(* What a pass gathers and writes. *)

\* A pass that goes on does so under the same leader.
LEMMA PassLeader ==
  ASSUME TypeOK, Leadership, [Next]_vars, pass # Nil, pass' # Nil
  PROVE  /\ leader # Nil /\ leader \in Replica /\ leader' = leader
         /\ proc'[leader] = proc[leader] /\ Cfg' = Cfg
<1>1. leader # Nil /\ leader \in Replica
  BY TypeFacts DEF Leadership
<1>2. leader' = leader /\ proc'[leader] = proc[leader]
  BY <1>1, LeaderKept
<1> QED
  BY <1>1, <1>2 DEF Cfg

\* The pass has the leader's own bundle and the bundles before i.
LEMMA GatheredStep ==
  ASSUME TypeOK, Processes, Leadership, Loop, Gathered, [Next]_vars
  PROVE  Gathered'
<1>1. SUFFICES ASSUME Gathering'
               PROVE  Gathered'
  BY DEF Gathered
<1>g. pass' # Nil /\ pass'.spec.enabled /\ pass'.pc \in {"resolve", "fetch", "status"}
  BY <1>1 DEF Gathering
<1>2. pass # Nil
  <2>1. SUFFICES ASSUME pass = Nil
                 PROVE  FALSE
    OBVIOUS
  <2>2. PICK n \in SC : BeginPass(n)
    BY <1>g, <2>1, PassWriters
    DEF PatchLabels, ResolveOpaConfig, ResolveBundle, FetchBundle, WriteConfigMap,
        WriteConfigMapFails, Reconciling, Resolved
  <2> QED
    BY <1>g, <2>2 DEF BeginPass
<1>l. /\ leader # Nil /\ leader \in Replica /\ leader' = leader
      /\ proc'[leader] = proc[leader] /\ Cfg' = Cfg
  BY <1>2, <1>g, PassLeader
<1>p. /\ pass \in Pass /\ pass.spec \in Specs /\ pass.i \in Nat \ {0} /\ pass.data \in Data
      /\ Len(pass.spec.bundleURLs) \in Nat
      /\ DOMAIN pass.spec.bundleURLs = 1..Len(pass.spec.bundleURLs)
  BY <1>2, TypeFacts, SpecFacts DEF Pass
<1>k. pass'.spec = pass.spec
  BY <1>2, <1>g, PassKept
<1>3. CASE pass' = pass
  BY <1>1, <1>3, <1>l DEF Gathered, Gathering
<1>4. ~\E r \in Replica : PatchLabels(r)
  BY <1>g, <1>p DEF PatchLabels, ReturnError, Pass
<1>5. ~\E n \in SC : BeginPass(n)
  BY <1>2 DEF BeginPass
<1>6. CASE ResolveOpaConfig
  <2>1. pass.pc = "start" /\ pass.i = 1
    BY <1>2, <1>6 DEF ResolveOpaConfig, Reconciling, Loop
  <2>2. pass'.data = proc[leader].data /\ pass'.i = 1
    BY <1>g, <1>p, <1>6, <2>1 DEF ResolveOpaConfig, ReturnError, Pass
  <2>3. DOMAIN proc[leader].data = SelfName(Cfg)
    BY <1>l DEF Processes, ProcessOK, Leadership, Cfg
  <2>4. 1..(pass'.i - 1) = {}
    BY <2>2
  <2> QED
    BY <1>k, <1>l, <2>2, <2>3, <2>4 DEF Gathered
<1>7. CASE ResolveBundle \/ WriteConfigMap \/ WriteConfigMapFails
  <2>1. Gathering
    BY <1>g, <1>k, <1>2, <1>7
    DEF Gathering, ResolveBundle, WriteConfigMap, WriteConfigMapFails, Reconciling, Resolved, Loop
  <2>2. pass'.data = pass.data /\ pass'.i = pass.i
    BY <1>p, <1>7 DEF ResolveBundle, WriteConfigMap, WriteConfigMapFails, Pass
  <2> QED
    BY <1>k, <1>l, <2>1, <2>2 DEF Gathered
<1>8. CASE FetchBundle
  <2> DEFINE data    == pass.data
             bundle  == pass.spec.bundleURLs[pass.i]
             name    == bundle.name
             content == pass.digest
             now     == Assigned(data, name, content)
  <2>1. pass.pc = "fetch" /\ FetchLayerMatchingMediaType(pass.digest) # {}
    BY <1>g, <1>8 DEF FetchBundle, Reconciling, ReturnError
  <2>2. content \in Digest /\ (CHOOSE c \in FetchLayerMatchingMediaType(pass.digest) : TRUE) = content
    BY <2>1, FetchFacts
  <2>3. pass' = [pass EXCEPT !.pc = "resolve", !.i = @ + 1, !.digest = Nil, !.data = now]
    BY <1>8, <2>1, <2>2 DEF FetchBundle
  <2>4. pass.i \in DOMAIN pass.spec.bundleURLs /\ (bundle.url \in Digest => content = bundle.url)
    BY <1>2, <1>p, <2>1 DEF Loop
  <2>5. bundle \in Bundle /\ name \in Name
    BY <1>p, <2>4, SpecFacts, BundleFacts
  <2>6. data \in Data
    BY <1>p
  <2>7. /\ DOMAIN data = SelfName(Cfg) \cup {pass.spec.bundleURLs[j].name : j \in 1..(pass.i - 1)}
        /\ \A j \in 1..(pass.i - 1) : Pinned(pass.spec.bundleURLs[j], data)
        /\ \A x \in SelfName(Cfg) \ NamesOf(pass.spec) : data[x] = proc[leader].data[x]
    BY <1>g, <1>k, <1>2, <2>1 DEF Gathered, Gathering
  <2>8. \A j \in 1..(pass.i - 1) :
          j \in DOMAIN pass.spec.bundleURLs /\ pass.spec.bundleURLs[j].name # name
    BY <1>p, <2>4, SpecFacts
  <2> HIDE DEF data, name, content
  <2>9. /\ DOMAIN now = DOMAIN data \cup {name}
        /\ now[name] = content
        /\ \A x \in DOMAIN data \ {name} : now[x] = data[x]
    BY <2>2, <2>5, <2>6, AssignedFacts
  <2> HIDE DEF now
  <2>10. pass'.i = pass.i + 1 /\ pass'.data = now
    BY <1>p, <2>3 DEF Pass
  <2>11. {pass.spec.bundleURLs[j].name : j \in 1..(pass.i - 1)} \cup {name}
           = {pass.spec.bundleURLs[j].name : j \in 1..pass.i}
    BY <1>p DEF name
  <2>12. DOMAIN now = SelfName(Cfg) \cup {pass.spec.bundleURLs[j].name : j \in 1..pass.i}
    BY <2>7, <2>9, <2>11
  <2>13. \A j \in 1..pass.i : Pinned(pass.spec.bundleURLs[j], now)
    <3>1. SUFFICES ASSUME NEW j \in 1..pass.i
                   PROVE  Pinned(pass.spec.bundleURLs[j], now)
      OBVIOUS
    <3>2. CASE j = pass.i
      BY <2>4, <2>9, <3>2 DEF Pinned, name
    <3>3. CASE j # pass.i
      <4>1. j \in 1..(pass.i - 1)
        BY <1>p, <3>3
      <4>2. pass.spec.bundleURLs[j].name \in DOMAIN data \ {name}
        BY <2>7, <2>8, <4>1
      <4> QED
        BY <2>7, <2>9, <4>1, <4>2 DEF Pinned
    <3> QED
      BY <3>2, <3>3
  <2>14. \A x \in SelfName(Cfg) \ NamesOf(pass.spec) : now[x] = proc[leader].data[x]
    <3>1. name \in NamesOf(pass.spec)
      BY <2>4 DEF NamesOf, name
    <3> QED
      BY <2>7, <2>9, <3>1
  <2>15. 1..(pass'.i - 1) = 1..pass.i
    BY <1>p, <2>10
  <2> QED
    BY <1>k, <1>l, <2>10, <2>12, <2>13, <2>14, <2>15 DEF Gathered
<1> QED
  BY <1>g, <1>3, <1>4, <1>5, <1>6, <1>7, <1>8, PassWriters

\* What is written is what was gathered, once all of it is there.
LEMMA WriteEffect ==
  ASSUME TypeOK, Leadership, Loop, PassAdmitted, Gathered, WriteConfigMap, pass.spec.enabled
  PROVE  LET m == configMap'[pass.sc] IN
         /\ m \in ConfigMap /\ MapOK(m)
         /\ m.spec = pass.spec /\ m.by = Cfg /\ m.self = proc[leader].data /\ m.data = pass.data
<1>p. /\ pass # Nil /\ pass \in Pass /\ pass.sc \in SC /\ pass.spec \in Specs
      /\ leader \in Replica /\ proc[leader] \in Proc
      /\ DOMAIN pass.spec.bundleURLs = 1..Len(pass.spec.bundleURLs)
      /\ Len(pass.spec.bundleURLs) \in Nat
  BY TypeFacts, SpecFacts DEF WriteConfigMap, Resolved, Leadership, Pass
<1> DEFINE m == [data |-> pass.data, spec |-> pass.spec, admitted |-> pass.admitted,
                 by |-> Cfg, self |-> proc[leader].data]
<1>1. configMap'[pass.sc] = m
  BY <1>p DEF WriteConfigMap, TypeOK
<1>2. m \in ConfigMap
  BY <1>p DEF ConfigMap, Pass, Proc, Cfg
<1>3. pass.pc = "resolve" /\ pass.i = Len(pass.spec.bundleURLs) + 1
  BY <1>p DEF WriteConfigMap, Resolved, Loop
<1>4. 1..(pass.i - 1) = DOMAIN pass.spec.bundleURLs
  BY <1>p, <1>3
<1>5. /\ DOMAIN pass.data = NamesOf(pass.spec) \cup SelfName(Cfg)
      /\ \A i \in DOMAIN pass.spec.bundleURLs : Pinned(pass.spec.bundleURLs[i], pass.data)
      /\ \A x \in SelfName(Cfg) \ NamesOf(pass.spec) : pass.data[x] = proc[leader].data[x]
  BY <1>p, <1>3, <1>4 DEF Gathered, Gathering, NamesOf
<1>6. MapOK(m)
  BY <1>p, <1>5 DEF MapOK, PassAdmitted
<1> QED
  BY <1>1, <1>2, <1>6

\* Every ConfigMap holds what it should.
LEMMA MapsStep ==
  ASSUME TypeOK, Leadership, Loop, PassAdmitted, Gathered, Maps, [Next]_vars
  PROVE  Maps'
<1>1. CASE configMap' = configMap
  BY <1>1 DEF Maps
<1>2. CASE WriteConfigMap
  <2>1. pass # Nil /\ pass.sc \in SC
    BY <1>2, TypeFacts DEF WriteConfigMap, Resolved, Pass
  <2>2. \A n \in SC \ {pass.sc} : configMap'[n] = configMap[n]
    BY <1>2 DEF WriteConfigMap, TypeOK
  <2>3. CASE pass.spec.enabled
    BY <1>2, <2>2, <2>3, WriteEffect DEF Maps
  <2>4. CASE ~pass.spec.enabled
    <3>1. configMap'[pass.sc] = Nil
      BY <1>2, <2>1, <2>4 DEF WriteConfigMap, TypeOK
    <3> QED
      BY <2>2, <3>1 DEF Maps
  <2> QED
    BY <2>3, <2>4
<1>3. ASSUME NEW n \in SC, Delete(n)
      PROVE  Maps'
  BY <1>3 DEF Delete, TypeOK, Maps
<1> QED
  BY <1>1, <1>2, <1>3, MapWriters

-----------------------------------------------------------------------------
(* What rests. *)

\* An error puts the SecurityConfig of the pass back, and leaves the rest settled.
LEMMA ErrorSettles ==
  ASSUME TypeOK, Settled, pass # Nil, ReturnError, leader # Nil, leader' = leader,
         proc'[leader] = proc[leader], configMap' = configMap,
         \A n \in SC \ {pass.sc} : sc'[n] = sc[n]
  PROVE  Settled'
<1>1. pass' = Nil /\ queued' = queued \cup {pass.sc}
  BY DEF ReturnError
<1>2. SUFFICES ASSUME NEW n \in SC \ queued', sc'[n] # Nil
               PROVE  /\ MapIs(configMap'[n], sc'[n].spec, proc'[leader'])
                      /\ sc'[n].spec.enabled =>
                           sc'[n].ready /\ sc'[n].names = DOMAIN configMap'[n].data
  BY <1>1 DEF Settled
<1>3. n \in SC \ queued /\ n # pass.sc /\ sc'[n] = sc[n] /\ sc[n] # Nil
  BY <1>1, <1>2
<1> QED
  BY <1>3 DEF Settled

\* A pass that goes on without writing anything, and is not done yet, leaves
\* everything settled.
LEMMA ProgressSettles ==
  ASSUME TypeOK, Settled, pass # Nil, pass' # Nil, leader # Nil, leader' = leader,
         proc'[leader] = proc[leader], configMap' = configMap, queued' = queued,
         pass'.sc = pass.sc, pass'.spec = pass.spec, pass'.pc # "status" \/ pass'.failed,
         \A n \in SC \ {pass.sc} : sc'[n] = sc[n], sc'[pass.sc].spec = sc[pass.sc].spec
  PROVE  Settled'
<1>1. ASSUME NEW n \in SC \ queued', sc'[n] # Nil, pass'.sc # n
      PROVE  /\ MapIs(configMap'[n], sc'[n].spec, proc'[leader'])
             /\ sc'[n].spec.enabled =>
                  sc'[n].ready /\ sc'[n].names = DOMAIN configMap'[n].data
  <2>1. n \in SC \ queued /\ n # pass.sc /\ sc'[n] = sc[n] /\ sc[n] # Nil
    BY <1>1
  <2> QED
    BY <2>1 DEF Settled
<1>2. pass'.sc \notin queued' => pass'.spec = sc'[pass'.sc].spec
  BY DEF Settled
<1> QED
  BY <1>1, <1>2 DEF Settled

\* What is neither queued nor worked on is as it should be.
LEMMA SettledStep ==
  ASSUME TypeOK, Leadership, Loop, PassAdmitted, Gathered, Settled, [Next]_vars
  PROVE  Settled'
<1>1. SUFFICES ASSUME leader' # Nil
               PROVE  Settled'
  BY DEF Settled
<1>2. CASE leader = Nil
  <2>1. PICK r \in Replica : Elect(r) \/ Crash(r)
    BY <1>1, <1>2, LeaderWriters
  <2>2. Elect(r)
    BY <1>1, <1>2, <2>1, OpaAssumption DEF Crash
  <2>3. pass' = Nil /\ queued' = {n \in SC : sc[n] # Nil} /\ sc' = sc
    BY <1>2, <2>2 DEF Elect, Leadership
  <2> QED
    BY <2>3 DEF Settled
<1>3. CASE leader # Nil
  <2>l. leader' = leader /\ proc'[leader] = proc[leader]
    BY <1>1, <1>3, LeaderKept
  <2>e. ~\E r \in Replica : Elect(r)
    BY <1>3 DEF Elect
  <2>p. pass # Nil => pass \in Pass /\ pass.sc \in SC /\ sc[pass.sc] # Nil /\ pass.spec.enabled \in BOOLEAN
    BY TypeFacts, SpecFacts DEF Pass, Leadership
  <2>1. CASE UNCHANGED <<sc, queued, pass, configMap>>
    BY <1>3, <2>l, <2>1 DEF Settled
  <2>2. CASE Admit
    <3> DEFINE n == request.sc
    <3>1. /\ n \in SC /\ n \in queued' /\ queued \subseteq queued'
          /\ pass' = pass /\ configMap' = configMap
          /\ \A m \in SC \ {n} : sc'[m] = sc[m]
      BY <1>3, <2>2, AdmitEffect DEF Admit
    <3> HIDE DEF n
    <3>2. ASSUME NEW m \in SC \ queued', sc'[m] # Nil, pass' = Nil \/ pass'.sc # m
          PROVE  /\ MapIs(configMap'[m], sc'[m].spec, proc'[leader'])
                 /\ sc'[m].spec.enabled =>
                      sc'[m].ready /\ sc'[m].names = DOMAIN configMap'[m].data
      <4>1. m \in SC \ queued /\ sc'[m] = sc[m] /\ sc[m] # Nil /\ (pass = Nil \/ pass.sc # m)
        BY <3>1, <3>2
      <4> QED
        BY <1>3, <2>l, <3>1, <4>1 DEF Settled
    <3>3. pass' # Nil /\ pass'.sc \notin queued' => pass'.spec = sc'[pass'.sc].spec
      BY <1>3, <2>p, <3>1 DEF Settled
    <3> QED
      BY <1>3, <2>l, <3>1, <3>2, <3>3 DEF Settled
  <2>3. ASSUME NEW n \in SC, Delete(n)
        PROVE  Settled'
    <3>1. /\ sc'[n] = Nil /\ queued' = queued \ {n}
          /\ \A m \in SC \ {n} : sc'[m] = sc[m] /\ configMap'[m] = configMap[m]
          /\ pass' = IF pass # Nil /\ pass.sc = n THEN Nil ELSE pass
      BY <2>3 DEF Delete, TypeOK
    <3>2. ASSUME NEW m \in SC \ queued', sc'[m] # Nil, pass' = Nil \/ pass'.sc # m
          PROVE  /\ MapIs(configMap'[m], sc'[m].spec, proc'[leader'])
                 /\ sc'[m].spec.enabled =>
                      sc'[m].ready /\ sc'[m].names = DOMAIN configMap'[m].data
      <4>1. m # n /\ m \in SC \ queued /\ sc'[m] = sc[m] /\ sc[m] # Nil
              /\ configMap'[m] = configMap[m]
        BY <3>1, <3>2
      <4>2. pass = Nil \/ pass.sc # m
        BY <3>1, <3>2, <4>1
      <4> QED
        BY <1>3, <2>l, <4>1, <4>2 DEF Settled
    <3>3. pass' # Nil /\ pass'.sc \notin queued' => pass'.spec = sc'[pass'.sc].spec
      BY <1>3, <2>p, <3>1 DEF Settled
    <3>4. pass' # Nil /\ pass'.pc = "status" /\ ~pass'.failed =>
            /\ MapIs(configMap'[pass'.sc], pass'.spec, proc'[leader'])
            /\ pass'.spec.enabled => configMap'[pass'.sc].data = pass'.data
      BY <1>3, <2>l, <2>p, <3>1 DEF Settled
    <3> QED
      BY <3>2, <3>3, <3>4 DEF Settled
  <2>4. ASSUME NEW n \in SC, BeginPass(n)
        PROVE  Settled'
    <3>1. /\ pass = Nil /\ sc' = sc /\ configMap' = configMap /\ queued' = queued \ {n}
          /\ pass'.sc = n /\ pass'.spec = sc[n].spec /\ pass'.pc # "status"
      BY <2>4 DEF BeginPass
    <3>2. ASSUME NEW m \in SC \ queued', sc'[m] # Nil, pass' = Nil \/ pass'.sc # m
          PROVE  /\ MapIs(configMap'[m], sc'[m].spec, proc'[leader'])
                 /\ sc'[m].spec.enabled =>
                      sc'[m].ready /\ sc'[m].names = DOMAIN configMap'[m].data
      <4>1. pass' # Nil
        <5>1. pass' \in Pass
          <6>1. sc[n] \in Stored
            BY <2>4, TypeFacts DEF BeginPass, Leadership
          <6> QED
            BY <2>4, <6>1, EmptyData DEF BeginPass, Stored, Pass
        <5> QED
          BY <5>1, NilAssumption
      <4>2. m # n /\ m \in SC \ queued
        BY <3>1, <3>2, <4>1
      <4> QED
        BY <1>3, <2>l, <3>1, <3>2, <4>2 DEF Settled
    <3> QED
      BY <3>1, <3>2 DEF Settled
  <2>5. CASE pass # Nil /\ ReturnError /\ sc' = sc /\ configMap' = configMap
    BY <1>3, <2>l, <2>5, ErrorSettles
  <2>6. ASSUME NEW r \in Replica, PatchLabels(r)
        PROVE  Settled'
    <3>1. pass # Nil /\ sc[pass.sc] # Nil /\ configMap' = configMap
      BY <2>6, <2>p DEF PatchLabels, Reconciling
    <3>2. CASE ReturnError /\ sc' = sc
      BY <2>5, <3>1, <3>2
    <3>3. CASE ~(ReturnError /\ sc' = sc)
      <4>1. /\ sc'[pass.sc].spec = sc[pass.sc].spec
            /\ \A m \in SC \ {pass.sc} : sc'[m] = sc[m]
            /\ pass' = [pass EXCEPT !.pc = "start", !.admitted =
                          IF sc[pass.sc].spec = pass.spec THEN proc[r].cfg ELSE pass.admitted]
            /\ queued' = queued
        BY <2>6, <3>1, <3>3, PatchEffect
      <4>2. pass'.sc = pass.sc /\ pass'.spec = pass.spec /\ pass'.pc = "start" /\ pass' # Nil
        <5>1. proc[r].cfg \in Configs
          BY TypeFacts DEF Proc
        <5>2. pass' \in Pass
          BY <2>p, <3>1, <4>1, <5>1 DEF Pass
        <5> QED
          BY <2>p, <3>1, <4>1, <5>2, NilAssumption DEF Pass
      <4> QED
        BY <1>3, <2>l, <3>1, <4>1, <4>2, ProgressSettles
    <3> QED
      BY <3>2, <3>3
  <2>7. CASE ResolveOpaConfig \/ ResolveBundle \/ FetchBundle
    <3>1. CASE ReturnError
      BY <2>5, <2>7, <3>1, ResolveEffect
    <3>2. CASE ~ReturnError
      BY <1>3, <2>l, <2>7, <3>2, ResolveEffect, ProgressSettles, NilAssumption
    <3> QED
      BY <3>1, <3>2
  <2>8. CASE WriteConfigMap
    <3>1. /\ pass # Nil /\ sc' = sc /\ queued' = queued
          /\ pass' = [pass EXCEPT !.pc = "status"]
          /\ \A m \in SC \ {pass.sc} : configMap'[m] = configMap[m]
      BY <2>8 DEF WriteConfigMap, Resolved, TypeOK
    <3>2. /\ pass'.sc = pass.sc /\ pass'.spec = pass.spec /\ pass'.data = pass.data
          /\ pass' # Nil
      <4>1. pass' \in Pass
        BY <2>p, <3>1 DEF Pass
      <4> QED
        BY <2>p, <3>1, <4>1, NilAssumption DEF Pass
    <3>3. /\ MapIs(configMap'[pass.sc], pass.spec, proc[leader])
          /\ pass.spec.enabled => configMap'[pass.sc].data = pass.data
      <4>1. CASE pass.spec.enabled
        BY <2>8, <4>1, WriteEffect, NilAssumption DEF MapIs, Cfg
      <4>2. CASE ~pass.spec.enabled
        BY <2>8, <2>p, <3>1, <4>2 DEF WriteConfigMap, TypeOK, MapIs
      <4> QED
        BY <4>1, <4>2
    <3>4. ASSUME NEW m \in SC \ queued', sc'[m] # Nil, pass'.sc # m
          PROVE  /\ MapIs(configMap'[m], sc'[m].spec, proc'[leader'])
                 /\ sc'[m].spec.enabled =>
                      sc'[m].ready /\ sc'[m].names = DOMAIN configMap'[m].data
      <4>1. m \in SC \ queued /\ pass.sc # m /\ sc[m] # Nil /\ configMap'[m] = configMap[m]
        BY <3>1, <3>2, <3>4
      <4> QED
        BY <1>3, <2>l, <3>1, <4>1 DEF Settled
    <3>5. pass'.sc \notin queued' => pass'.spec = sc'[pass'.sc].spec
      BY <1>3, <3>1, <3>2 DEF Settled
    <3> QED
      BY <2>l, <3>2, <3>3, <3>4, <3>5 DEF Settled
  <2>9. CASE WriteConfigMapFails
    <3>1. /\ pass # Nil /\ sc' = sc /\ queued' = queued /\ configMap' = configMap
          /\ pass' = [pass EXCEPT !.pc = "status", !.failed = TRUE]
      BY <2>9 DEF WriteConfigMapFails, Resolved
    <3>2. pass'.sc = pass.sc /\ pass'.spec = pass.spec /\ pass'.failed /\ pass' # Nil
      <4>1. pass' \in Pass
        BY <2>p, <3>1 DEF Pass
      <4> QED
        BY <2>p, <3>1, <4>1, NilAssumption DEF Pass
    <3> QED
      BY <1>3, <2>l, <3>1, <3>2, ProgressSettles
  <2>10. CASE WriteStatus
    <3>1. pass # Nil /\ pass.pc = "status" /\ configMap' = configMap
      BY <2>10 DEF WriteStatus, Reconciling
    <3>2. \A m \in SC \ {pass.sc} : sc'[m] = sc[m]
      BY <2>10, StatusEffect
    <3>3. CASE pass.failed
      <4>1. ReturnError
        BY <2>10, <3>3 DEF WriteStatus
      <4> QED
        BY <1>3, <2>l, <3>1, <3>2, <4>1, ErrorSettles
    <3>4. CASE ~pass.failed
      <4>1. pass' = Nil /\ queued' = queued
        BY <2>10, <3>4 DEF WriteStatus
      <4>2. ASSUME NEW m \in SC \ queued', sc'[m] # Nil
            PROVE  /\ MapIs(configMap'[m], sc'[m].spec, proc'[leader'])
                   /\ sc'[m].spec.enabled =>
                        sc'[m].ready /\ sc'[m].names = DOMAIN configMap'[m].data
        <5>1. CASE m # pass.sc
          <6>1. m \in SC \ queued /\ sc'[m] = sc[m] /\ sc[m] # Nil
            BY <3>2, <4>1, <4>2, <5>1
          <6> QED
            BY <1>3, <2>l, <3>1, <5>1, <6>1 DEF Settled
        <5>2. CASE m = pass.sc
          <6>1. pass.spec = sc[m].spec
            BY <1>3, <3>1, <4>1, <5>2 DEF Settled
          <6>2. sc'[m].spec = pass.spec /\ sc'[m].ready = ~pass.failed
                  /\ (pass.spec.enabled => sc'[m].names = DOMAIN pass.data)
            BY <2>10, <5>2, <6>1, StatusEffect
          <6>3. /\ MapIs(configMap[m], pass.spec, proc[leader])
                /\ pass.spec.enabled => configMap[m].data = pass.data
            BY <1>3, <3>1, <3>4, <5>2 DEF Settled
          <6> QED
            BY <2>l, <3>1, <3>4, <6>2, <6>3
        <5> QED
          BY <5>1, <5>2
      <4> QED
        BY <4>1, <4>2 DEF Settled
    <3> QED
      BY <3>3, <3>4
  <2>11. CASE Webhook
    BY <2>1, <2>2, <2>11 DEF Webhook, VerifyBundleSignatures, VerifyBundleSource, AdmissionFails
  <2>12. CASE Reconciler
    <3>1. CASE ResolveFails
      BY <2>5, <3>1 DEF ResolveFails
    <3> QED
      BY <2>4, <2>6, <2>7, <2>8, <2>9, <2>10, <2>12, <3>1 DEF Reconciler
  <2>13. CASE Environment
    <3>1. ASSUME NEW r \in Replica, Crash(r)
          PROVE  Settled'
      <4>1. UNCHANGED <<sc, queued, pass, configMap>>
        BY <1>1, <3>1 DEF Crash
      <4> QED
        BY <2>1, <4>1
    <3> QED
      BY <2>1, <2>3, <2>13, <3>1 DEF Environment, MoveTag, Rollout, Submit
  <2> QED
    BY <2>1, <2>e, <2>11, <2>12, <2>13
    DEF Next, vars, Main, Start, VerifySelf, MatchSelf, ResolveSelf, FetchSelf
<1> QED
  BY <1>2, <1>3

-----------------------------------------------------------------------------
(* The theorems. *)

\* Nothing is stored, led or admitted at first, and every replica is down.
LEMMA Initially ==
  ASSUME Init
  PROVE  IInv
<1>1. /\ leader = Nil /\ request = Nil /\ pass = Nil /\ queued = {}
      /\ \A n \in SC : sc[n] = Nil /\ configMap[n] = Nil
      /\ env \in Configs
  BY DEF Init
<1>2. \A r \in Replica : proc[r] = Down(env)
  BY DEF Init
<1>3. TypeOK
  <2>1. proc \in [Replica -> Proc]
    BY <1>1, DownFacts DEF Init
  <2>2. MaxEvents \in 0..MaxEvents
    BY OpaAssumption
  <2> QED
    BY <2>1, <2>2 DEF Init, TypeOK
<1>4. Processes
  BY <1>1, <1>2, DownFacts DEF Processes
<1>5. Leadership /\ Loop /\ Admission /\ PassAdmitted /\ Settled
  BY <1>1 DEF Leadership, Loop, Admission, PassAdmitted, Settled
<1>6. Admitted /\ Maps
  BY <1>1 DEF Admitted, Maps
<1>7. Gathered
  BY <1>1 DEF Gathered, Gathering
<1> QED
  BY <1>3, <1>4, <1>5, <1>6, <1>7 DEF IInv, Control

\* Every step of a replica, the webhook, the reconciler or the environment
\* keeps the invariant.
LEMMA Inductive ==
  ASSUME IInv, [Next]_vars
  PROVE  IInv'
<1>1. /\ TypeOK /\ Processes /\ Leadership /\ Loop /\ Admission /\ Admitted /\ PassAdmitted
      /\ Gathered /\ Maps /\ Settled
  BY DEF IInv, Control
<1>2. TypeOK' /\ Processes' /\ Leadership' /\ Loop'
  BY <1>1, TypeStep, ProcessesStep, LeadershipStep, LoopStep
<1>3. Admission' /\ Admitted' /\ PassAdmitted'
  BY <1>1, AdmissionStep, AdmittedStep, PassAdmittedStep
<1>4. Gathered' /\ Maps' /\ Settled'
  BY <1>1, GatheredStep, MapsStep, SettledStep
<1> QED
  BY <1>2, <1>3, <1>4 DEF IInv, Control

\* The invariant holds throughout.
THEOREM Invariance == Spec => []IInv
<1>1. Init => IInv
  BY Initially
<1>2. IInv /\ [Next]_vars => IInv'
  BY Inductive
<1> QED
  BY <1>1, <1>2, PTL DEF Spec

\* Every variable keeps its type, whatever fails and restarts: main never binds
\* the name of its bundle, and the reconciler no name at all, to a content that
\* was not found.
THEOREM TypeCorrect == Spec => []TypeOK
<1>1. IInv => TypeOK
  BY DEF IInv, Control
<1> QED
  BY <1>1, Invariance, PTL

\* A ConfigMap holds exactly the bundles of one spec and the self-authorization
\* bundle of one configuration: ResolveOpaConfigWithFetcher starts every pass
\* from a copy of the process's map, and gives up at the first error.
THEOREM ConfigMapExact == Spec => []ConfigMapIsExact
<1>1. IInv => ConfigMapIsExact
  BY DEF IInv, Maps, MapOK, ConfigMapIsExact
<1> QED
  BY <1>1, Invariance, PTL

\* A pinned bundle is served with the content it is pinned to, and only if that
\* satisfies its verification: verifyBundleSignatures and the reconciler resolve
\* a reference on their own, and a digest resolves to itself.
THEOREM PinnedVerified == Spec => []PinnedIsVerified
<1>1. IInv => PinnedIsVerified
  <2>1. SUFFICES ASSUME IInv
                 PROVE  PinnedIsVerified
    OBVIOUS
  <2>2. ASSUME NEW n \in SC, configMap[n] # Nil, NEW i \in DOMAIN configMap[n].spec.bundleURLs,
               configMap[n].spec.bundleURLs[i].url \in Digest
        PROVE  LET b == configMap[n].spec.bundleURLs[i] IN
               /\ configMap[n].data[b.name] = b.url
               /\ b.verification # Nil => b.verification \in SourceOf[configMap[n].data[b.name]]
    <3>1. MapOK(configMap[n])
      BY <2>1, <2>2 DEF IInv, Maps
    <3> QED
      BY <2>2, <3>1 DEF MapOK, VettedSpec, Vetted, Pinned
  <2>3. ASSUME NEW r \in Replica, proc[r].pc = "run", proc[r].cfg.self # Nil,
               proc[r].cfg.self.url \in Digest
        PROVE  proc[r].cfg.self.verification \in SourceOf[proc[r].data[proc[r].cfg.self.name]]
    <3>1. SelfOK(proc[r])
      BY <2>1 DEF IInv, Control, Processes
    <3> QED
      BY <2>3, <3>1 DEF SelfOK
  <2> QED
    BY <2>2, <2>3 DEF PinnedIsVerified
<1> QED
  BY <1>1, Invariance, PTL

\* A bundle of a user never takes the place of the self-authorization bundle
\* whose name was reserved when it was admitted
\* (ValidateCollisionWithConfiguredSelfAuthBundle).
THEOREM SelfKept == Spec => []SelfBundleKept
<1>1. IInv => SelfBundleKept
  <2>1. SUFFICES ASSUME IInv, NEW n \in SC, configMap[n] # Nil,
                        NEW x \in SelfName(configMap[n].by) \cap SelfName(configMap[n].admitted)
                 PROVE  configMap[n].data[x] = configMap[n].self[x]
    BY DEF SelfBundleKept
  <2>2. MapOK(configMap[n])
    BY <2>1 DEF IInv, Maps
  <2>3. x \notin NamesOf(configMap[n].spec)
    BY <2>2 DEF MapOK, ValidateCollisionWithConfiguredSelfAuthBundle, NamesOf, SelfName
  <2> QED
    BY <2>2, <2>3 DEF MapOK
<1> QED
  BY <1>1, Invariance, PTL

\* A leader with nothing to do has brought every ConfigMap and status in line
\* with the stored specs and its own bundle, whatever the leaders before it did
\* and failed to do.
THEOREM LeaderRests == Spec => []RestsWithLeader
<1>1. IInv => RestsWithLeader
  <2>1. SUFFICES ASSUME IInv, leader # Nil, pass = Nil, NEW n \in SC \ queued, sc[n] # Nil
                 PROVE  IF sc[n].spec.enabled
                          THEN /\ configMap[n] # Nil
                               /\ configMap[n].spec = sc[n].spec
                               /\ configMap[n].by = Cfg
                               /\ configMap[n].self = proc[leader].data
                               /\ sc[n].ready /\ sc[n].names = DOMAIN configMap[n].data
                          ELSE configMap[n] = Nil
    BY DEF RestsWithLeader
  <2>2. /\ MapIs(configMap[n], sc[n].spec, proc[leader])
        /\ sc[n].spec.enabled => sc[n].ready /\ sc[n].names = DOMAIN configMap[n].data
    BY <2>1 DEF IInv, Settled
  <2> QED
    BY <2>2 DEF MapIs, Cfg
<1> QED
  BY <1>1, Invariance, PTL

\* A container that GetOpaContainer starts with authorization finds the policy
\* in its bundles, under the configuration the status was written with.
THEOREM AuthorizationPolicy == Spec => []AuthorizationHasPolicy
<1>1. IInv => AuthorizationHasPolicy
  <2>1. SUFFICES ASSUME IInv, NEW r \in Replica, NEW n \in SC, Authorization(r), sc[n] # Nil,
                        sc[n].by = proc[r].cfg
                 PROVE  proc[r].cfg.self.name \in sc[n].names
    BY DEF AuthorizationHasPolicy
  <2>2. TypeOK
    BY <2>1 DEF IInv, Control
  <2>3. sc[n].by # Nil
    BY <2>1, <2>2, TypeFacts, NilAssumption DEF Proc
  <2>4. SelfName(sc[n].by) \subseteq sc[n].names
    BY <2>1, <2>3 DEF IInv, Admitted
  <2> QED
    BY <2>1, <2>4 DEF SelfName, Authorization
<1> QED
  BY <1>1, Invariance, PTL

=============================================================================
