----------------------------- MODULE PodWebhook -----------------------------
(***************************************************************************)
(* Admission of one Pod (internal/webhook/pods): the mutating webhook puts *)
(* the Texas and OPA sidecars into it, other webhooks edit it, and the     *)
(* validating webhook compares it with what it would have put there.  Each *)
(* of the two reads the SecurityConfigs from the informer cache, where     *)
(* users and the controller change spec and status between the two calls.  *)
(*                                                                         *)
(* A sidecar container is what distinguishes it: the secret the Texas      *)
(* container loads, the bundles the OPA container runs.  Image, probes and *)
(* resources come from the operator's configuration, which is fixed.       *)
(***************************************************************************)
EXTENDS Naturals, Sequences, FiniteSets, SequencesExt

CONSTANTS
  Name,        \* names of SecurityConfigs in the Pod's namespace
  App,         \* names of Applications
  Value,       \* secret names, sets of bundles
  Nil,         \* a status field that is not set, a label that is not there
  Off,         \* the content of a sidecar whose capability is disabled
  NoConfig,    \* no SecurityConfig of that name
  OpaEnabled,  \* the cluster's configuration
  Requests,    \* Pods that are submitted: see RequestType
  MaxEdits     \* bound on what everyone else does during the admission

\* tokenx stands for every capability whose secret Texas loads.
Config == [app : App, tokenx : BOOLEAN, opa : BOOLEAN, ready : BOOLEAN,
           secret : Value \cup {Nil}, bundles : Value \cup {Nil}]

Service == {"texas", "opa"}

\* app is the Skiperator label, services the comma-separated annotation, hasApp
\* whether the Pod has a container named after the Application; obstacles are
\* things of its own that a sidecar, its URL or its volume would collide with.
RequestType ==
  [app : App \cup {Nil}, verify : BOOLEAN, services : Seq(Service \cup {"unknown"}),
   hasApp : BOOLEAN, obstacles : SUBSET {"container", "env", "volume"}]

ASSUME PodAssumption ==
  /\ Nil \notin Value \cup App
  /\ Off \notin Value \cup {Nil}
  /\ NoConfig \notin Config
  /\ OpaEnabled \in BOOLEAN
  /\ Requests \subseteq RequestType
  /\ MaxEdits \in Nat

VARIABLES
  configs,   \* the cached SecurityConfigs
  request,   \* the Pod as submitted
  stage,     \* new, mutated, admitted, rejected, panicked
  eligible,  \* what IsWebhookEligible said in the last call
  sidecars,  \* the init containers added, in order
  env,       \* the services whose URL was added to the Application's container
  volume,    \* whose bundles the added volume holds
  fresh,     \* nothing has changed since the mutating webhook
  seen,      \* every SecurityConfig that was ready at some time
  edits      \* edits left

podVars == <<request, stage, eligible, sidecars, env, volume>>
vars == <<configs, podVars, fresh, seen, edits>>

Container == [service : Service, content : Value \cup {Nil, Off}]

\* Every variable keeps its type, and no sidecar is injected twice
\* (ParseAccesseratorServices).
TypeOK ==
  /\ configs \in [Name -> Config \cup {NoConfig}]
  /\ request \in Requests
  /\ stage \in {"new", "mutated", "admitted", "rejected", "panicked"}
  /\ eligible \in BOOLEAN
  /\ sidecars \in Seq(Container)
  /\ \A i, j \in DOMAIN sidecars : sidecars[i].service = sidecars[j].service => i = j
  /\ env \in SUBSET Service
  /\ volume \in Name \cup {Nil}
  /\ fresh \in BOOLEAN
  /\ seen \in SUBSET (Name \X Config)
  /\ edits \in 0..MaxEdits

-----------------------------------------------------------------------------
(* GetPodSecurityConfiguration. *)

Annotated == request.verify \/ request.services # <<>>

\* A Pod without the label or an annotation, or in a namespace that is not
\* labelled or cannot be read, is let through untouched.
IsWebhookEligible(namespaceOK) == request.app # Nil /\ Annotated /\ namespaceOK

\* The name of the single SecurityConfig of the Application, if it is ready.
GetSecurityConfigForApplication ==
  LET matches == {n \in Name : configs[n] # NoConfig /\ configs[n].app = request.app}
  IN  {n \in matches : matches = {n} /\ configs[n].ready}

Requested == ToSet(request.services)

\* An unknown service, or one that the cluster has not enabled.
ParseFails ==
  \E s \in Requested : s = "unknown" \/ (s = "opa" /\ ~OpaEnabled)

\* Mutant: duplicates stay.
ParseAccesseratorServices_Duplicates == request.services

\* Duplicates are dropped: what is left is the service that comes first, and the
\* other one if it occurs.
ParseAccesseratorServices ==
  LET first == request.services[1]
      other == Requested \ {first}
  IN  IF Requested = {} THEN <<>>
      ELSE IF other = {} THEN <<first>> ELSE <<first, CHOOSE s \in other : TRUE>>

\* GetTexasContainer and GetOpaContainer: the secret that is loaded, the bundles
\* that are run.  The latter dereferences status.opaBundleSource.
GetServiceContainer(s, c) ==
  [service |-> s,
   content |-> IF s = "texas" THEN IF c.tokenx THEN c.secret ELSE Off
                              ELSE IF c.opa THEN c.bundles ELSE Off]

DereferencesNil(c) == "opa" \in Requested /\ c.opa /\ c.bundles = Nil

Configured == GetSecurityConfigForApplication # {} /\ ~ParseFails

-----------------------------------------------------------------------------
(* The mutating webhook. *)

Skip ==
  /\ eligible' = FALSE
  /\ UNCHANGED <<configs, request, sidecars, env, volume, seen, edits>>

Refuse(how) ==
  /\ stage' = how
  /\ eligible' = TRUE
  /\ UNCHANGED <<configs, request, sidecars, env, volume, fresh, seen, edits>>

\* Something of the Pod's own has the name, the port, the variable or the volume.
Collides(s, c) ==
  \/ "container" \in request.obstacles
  \/ request.hasApp /\ "env" \in request.obstacles
  \/ s = "opa" /\ c.opa /\ "volume" \in request.obstacles

MutateSkips(namespaceOK) ==
  /\ stage = "new"
  /\ ~IsWebhookEligible(namespaceOK)
  /\ stage' = "mutated"
  /\ UNCHANGED fresh
  /\ Skip

MutateRejects ==
  /\ stage = "new"
  /\ IsWebhookEligible(TRUE)
  /\ Configured => \E n \in GetSecurityConfigForApplication :
                      /\ ~DereferencesNil(configs[n])
                      /\ \E s \in Requested : Collides(s, configs[n])
  /\ Refuse("rejected")

MutatePanics ==
  /\ stage = "new"
  /\ IsWebhookEligible(TRUE)
  /\ Configured
  /\ \E n \in GetSecurityConfigForApplication : DereferencesNil(configs[n])
  /\ Refuse("panicked")

\* Without a container of the Application's name no URL is set, and that is no
\* error.
MutatePodWithURLEnvVar == env' = IF request.hasApp THEN Requested ELSE {}

MutatePodWithOpaBundleVolume(n) ==
  volume' = IF "opa" \in Requested /\ configs[n].opa THEN n ELSE Nil

\* MutateTexasOnPod and MutateOpaOnPod.
MutateSucceeds ==
  /\ stage = "new"
  /\ IsWebhookEligible(TRUE)
  /\ Configured
  /\ \E n \in GetSecurityConfigForApplication :
       /\ ~DereferencesNil(configs[n])
       /\ \A s \in Requested : ~Collides(s, configs[n])
       /\ LET services == ParseAccesseratorServices
          IN  sidecars' = [i \in DOMAIN services |->
                             GetServiceContainer(services[i], configs[n])]
       /\ MutatePodWithOpaBundleVolume(n)
  /\ MutatePodWithURLEnvVar
  /\ stage' = "mutated"
  /\ eligible' = TRUE
  /\ fresh' = TRUE
  /\ UNCHANGED <<configs, request, seen, edits>>

-----------------------------------------------------------------------------
(* The API server and the validating webhook. *)

\* A secret reference without a name.
Malformed ==
  \E i \in DOMAIN sidecars : sidecars[i].content = Nil

SchemaRejects ==
  /\ stage = "mutated"
  /\ Malformed
  /\ stage' = "rejected"
  /\ UNCHANGED <<configs, request, eligible, sidecars, env, volume, fresh, seen, edits>>

\* Mutant: ValidateOpaBundleVolume is not called.
ValidatesService_NoVolume(s, n) ==
  /\ request.hasApp /\ s \in env
  /\ \E i \in DOMAIN sidecars : sidecars[i] = GetServiceContainer(s, configs[n])

\* Mutant: the volume is expected even when OPA is disabled.
ValidatesService_AlwaysVolume(s, n) ==
  /\ request.hasApp /\ s \in env
  /\ s = "opa" => volume = n
  /\ \E i \in DOMAIN sidecars : sidecars[i] = GetServiceContainer(s, configs[n])

\* The URL, the volume and the container are what this SecurityConfig leads to.
ValidateTexasOnPod(n) ==
  /\ request.hasApp /\ "texas" \in env
  /\ \E i \in DOMAIN sidecars : sidecars[i] = GetServiceContainer("texas", configs[n])

ValidateOpaOnPod(n) ==
  /\ request.hasApp /\ "opa" \in env
  /\ configs[n].opa => volume = n
  /\ \E i \in DOMAIN sidecars : sidecars[i] = GetServiceContainer("opa", configs[n])

ValidatesService(s, n) == IF s = "texas" THEN ValidateTexasOnPod(n) ELSE ValidateOpaOnPod(n)

ValidateSkips(namespaceOK) ==
  /\ stage = "mutated"
  /\ ~Malformed
  /\ ~IsWebhookEligible(namespaceOK)
  /\ stage' = "admitted"
  /\ UNCHANGED fresh
  /\ Skip

ValidateRejects ==
  /\ stage = "mutated"
  /\ ~Malformed
  /\ IsWebhookEligible(TRUE)
  /\ Configured => \E n \in GetSecurityConfigForApplication :
                      /\ ~DereferencesNil(configs[n])
                      /\ \E s \in Requested : ~ValidatesService(s, n)
  /\ Refuse("rejected")

ValidatePanics ==
  /\ stage = "mutated"
  /\ ~Malformed
  /\ IsWebhookEligible(TRUE)
  /\ Configured
  /\ \E n \in GetSecurityConfigForApplication : DereferencesNil(configs[n])
  /\ Refuse("panicked")

\* Every requested service validates against the single ready SecurityConfig.
Validates ==
  /\ Configured
  /\ \A n \in GetSecurityConfigForApplication :
       ~DereferencesNil(configs[n]) /\ \A s \in Requested : ValidatesService(s, n)

ValidateAdmits ==
  /\ stage = "mutated"
  /\ ~Malformed
  /\ IsWebhookEligible(TRUE)
  /\ Validates
  /\ stage' = "admitted"
  /\ eligible' = TRUE
  /\ UNCHANGED <<configs, request, sidecars, env, volume, fresh, seen, edits>>

-----------------------------------------------------------------------------
(* Everyone else, while the admission is under way. *)

Underway ==
  /\ stage \in {"new", "mutated"}
  /\ edits > 0
  /\ edits' = edits - 1
  /\ fresh' = FALSE

SetConfig(n, c) ==
  /\ Underway
  /\ configs' = [configs EXCEPT ![n] = c]
  /\ seen' = IF c # NoConfig /\ c.ready THEN seen \cup {<<n, c>>} ELSE seen
  /\ UNCHANGED podVars

UserCreates(n, app, tokenx, opa) ==
  /\ configs[n] = NoConfig
  /\ SetConfig(n, [app |-> app, tokenx |-> tokenx, opa |-> opa, ready |-> FALSE,
                   secret |-> Nil, bundles |-> Nil])

\* An edit of the spec leaves the status as it is, Ready included.
UserEdits(n, app, tokenx, opa) ==
  /\ configs[n] # NoConfig
  /\ SetConfig(n, [configs[n] EXCEPT !.app = app, !.tokenx = tokenx, !.opa = opa])

UserDeletes(n) ==
  /\ configs[n] # NoConfig
  /\ SetConfig(n, NoConfig)

\* The controller reports on the present spec; fields of disabled capabilities stay.
ControllerReports(n, v, ready) ==
  /\ configs[n] # NoConfig
  /\ LET c == configs[n]
     IN  SetConfig(n, [c EXCEPT !.ready = ready,
                                !.secret = IF c.tokenx THEN v ELSE c.secret,
                                !.bundles = IF c.opa THEN v ELSE c.bundles])

\* Another mutating webhook takes out what this one has put in.
OthersStrip ==
  /\ stage = "mutated"
  /\ Underway
  /\ \/ /\ \E i \in DOMAIN sidecars : sidecars' = RemoveAt(sidecars, i)
        /\ UNCHANGED <<env, volume>>
     \/ /\ \E s \in env : env' = env \ {s}
        /\ UNCHANGED <<sidecars, volume>>
     \/ /\ volume # Nil
        /\ volume' = Nil
        /\ UNCHANGED <<sidecars, env>>
  /\ UNCHANGED <<configs, request, stage, eligible, seen>>

-----------------------------------------------------------------------------
\* What the controller leaves behind when it has caught up with a spec.
Settled(c) == (c.tokenx => c.secret # Nil) /\ (c.opa => c.bundles # Nil)

Init ==
  /\ configs \in [Name -> {c \in Config : c.ready /\ Settled(c)} \cup {NoConfig}]
  /\ Cardinality({n \in Name : configs[n] # NoConfig}) <= 1
  /\ request \in Requests
  /\ stage = "new"
  /\ eligible = FALSE
  /\ sidecars = <<>>
  /\ env = {}
  /\ volume = Nil
  /\ fresh = FALSE
  /\ seen = {<<n, configs[n]>> : n \in {m \in Name : configs[m] # NoConfig}}
  /\ edits = MaxEdits

Mutate   == MutateRejects \/ MutatePanics \/ MutateSucceeds
              \/ \E ok \in BOOLEAN : MutateSkips(ok)
Validate == ValidateRejects \/ ValidatePanics \/ ValidateAdmits
              \/ \E ok \in BOOLEAN : ValidateSkips(ok)

Others ==
  \/ \E n \in Name, app \in App, tokenx, opa \in BOOLEAN :
       UserCreates(n, app, tokenx, opa) \/ UserEdits(n, app, tokenx, opa)
  \/ \E n \in Name : UserDeletes(n)
  \/ \E n \in Name, v \in Value, ready \in BOOLEAN : ControllerReports(n, v, ready)
  \/ OthersStrip

Next == Mutate \/ SchemaRejects \/ Validate \/ Others

Spec == Init /\ [][Next]_vars

-----------------------------------------------------------------------------
(* What the two webhooks promise together. *)

\* What the mutating webhook makes of a Pod, the validating webhook accepts, if
\* nothing has changed in between and the Pod has the Application's container:
\* the two halves of Texas and OPA agree about URL, volume and container.
MutatedValidates ==
  stage = "mutated" /\ fresh /\ eligible /\ ~Malformed =>
    Validates \/ (request.services # <<>> /\ ~request.hasApp)

\* Whatever happens between the two calls, a Pod that the validating webhook
\* has looked at and admitted carries sidecars, URLs and volume that all come
\* from one version of one ready SecurityConfig of its Application.
AdmittedFromOneVersion ==
  stage = "admitted" /\ eligible =>
    \E p \in seen :
      /\ p[2].app = request.app
      /\ \A s \in Requested :
           /\ s \in env
           /\ \E i \in DOMAIN sidecars :
                /\ sidecars[i].service = s
                /\ sidecars[i].content # Nil
                /\ sidecars[i].content = CASE s = "texas" /\ p[2].tokenx -> p[2].secret
                                           [] s = "opa" /\ p[2].opa -> p[2].bundles
                                           [] OTHER -> Off
           /\ s = "opa" /\ p[2].opa => volume = p[1]

\* The claim of GetPodSecurityConfiguration, "returns a non-nil
\* PodSecurityConfiguration in all non-error cases": it returns, with a
\* configuration or an error, for every cached SecurityConfig.
NeverPanics == stage # "panicked"

=============================================================================
