-------------------------- MODULE DesiredResources --------------------------
(***************************************************************************)
(* What accesserator makes of the capabilities of a SecurityConfig: the    *)
(* resolvers (internal/resolver) read what the spec refers to, the         *)
(* generators (pkg/resourcegenerators) decide which of the twelve slots of *)
(* ControllerResources are filled, the namers (pkg/utilities) give them    *)
(* names, the status manager waits for client objects, and the event       *)
(* handlers (internal/eventhandler) find the SecurityConfigs to wake up.   *)
(*                                                                         *)
(* Several SecurityConfigs share one namespace.  A pass over one of them   *)
(* is a single step that reads the stored objects: what can happen inside  *)
(* a pass is the subject of ResourceReconcile and Controller, and of       *)
(* SecretHandover where a client's operator takes part.                    *)
(***************************************************************************)
EXTENDS Naturals, FiniteSets, Functions

CONSTANTS
  SC,             \* names of SecurityConfigs
  App,            \* names of Applications; a SecurityConfig may have the same name
  Ext,            \* names users give to their Secrets, ConfigMaps and clients
  Value,          \* contents of users' objects
  Fixed,          \* a content that depends on nothing but the names
  Nil,            \* nothing: a field or desired resource that is not set
  Absent,         \* no object of that name
  NoSC,           \* no SecurityConfig of that name
  UserKeys,       \* the Applications, Secrets and ConfigMaps of users
  UserClients,    \* the clients of users, for clientRef
  Specs,          \* the specs users submit for each name: see SpecType
  TokenxEnabled,  \* the cluster's configuration
  OpaEnabled,
  MaxChanges      \* bound on what users do

\* A client of Maskinporten or Entra ID: inline, by reference, or by the Secrets
\* that hold its ID and its key.
ClientSpec == [enabled : BOOLEAN, client : BOOLEAN, clientRef : Ext \cup {Nil},
               secretRef : [id : Ext, jwk : Ext] \cup {Nil}]
\* An allowed audience of ID-porten or Ansattporten.
AudienceSpec == [enabled : BOOLEAN, value : Value \cup {Nil},
                 configMap : Ext \cup {Nil}, secret : Ext \cup {Nil}]

\* inherit is accessPolicy.inheritInboundRules; OPA bundles are fixed by the spec.
SpecType == [app : App, tokenx : {"unset", "disabled", "enabled", "inherit"},
             maskinporten : ClientSpec, entraid : ClientSpec,
             idporten : AudienceSpec, ansattporten : AudienceSpec,
             opa : {"unset", "disabled", "enabled", "policy"}]

\* An object is known by its kind and its name, which is a name someone chose
\* and a suffix a namer added (with its hash), "none" where there is none.
ObjectKey(kind, base, suffix) == <<kind, base, suffix>>

\* Mutant: the capability is not part of the name.
ServiceEntryKey_OneName(n, capability) == ObjectKey("ServiceEntry", n, "none")

\* ServiceEntryName of the four namers that have one.
ServiceEntryKey(n, capability) == ObjectKey("ServiceEntry", n, capability)

\* ControllerResources: the twelve slots, and the names their namers give.
SlotKey(n, app) ==
  [jwker                    |-> ObjectKey("Jwker", app, "none"),
   tokenxEgress             |-> ObjectKey("NetworkPolicy", n, "egress"),
   maskinportenClient       |-> ObjectKey("MaskinportenClient", app, "none"),
   maskinportenSecret       |-> ObjectKey("Secret", n, "maskinporten"),
   maskinportenServiceEntry |-> ServiceEntryKey(n, "maskinporten"),
   azureAdApplication       |-> ObjectKey("AzureAdApplication", app, "none"),
   azureAdSecret            |-> ObjectKey("Secret", n, "entraid"),
   azureAdServiceEntry      |-> ServiceEntryKey(n, "entraid"),
   idportenServiceEntry     |-> ServiceEntryKey(n, "idporten"),
   ansattportenServiceEntry |-> ServiceEntryKey(n, "ansattporten"),
   opaConfigMap             |-> ObjectKey("ConfigMap", n, "opa"),
   opaEnvoyFilter           |-> ObjectKey("EnvoyFilter", n, "opa")]

Slot == {"jwker", "tokenxEgress", "maskinportenClient", "maskinportenSecret",
         "maskinportenServiceEntry", "azureAdApplication", "azureAdSecret",
         "azureAdServiceEntry", "idportenServiceEntry", "ansattportenServiceEntry",
         "opaConfigMap", "opaEnvoyFilter"}

ClientKind == {"Jwker", "MaskinportenClient", "AzureAdApplication"}

\* The SecretName of a client object's spec, where its operator puts the
\* credentials (a user's own client names one of its own).  The name a user may
\* give in an inline Entra ID client is not modelled.
ClientSecret(k) ==
  ObjectKey("Secret", k[2], IF k[2] \in Ext THEN k[1]
                            ELSE CASE k[1] = "Jwker" -> "jwker-secret"
                                   [] k[1] = "MaskinportenClient" -> "maskinporten"
                                   [] OTHER -> "entraid")

Clients  == {ObjectKey(kind, a, "none") : kind \in ClientKind, a \in App} \cup UserClients
Keys     == UserKeys \cup Clients \cup {ClientSecret(k) : k \in Clients}
          \cup {SlotKey(n, a)[s] : n \in SC, a \in App, s \in Slot}

\* sync: the object's operator has published its Secret.
Object == [owner : SC \cup Clients \cup {Nil}, sync : BOOLEAN,
           val : Value \cup App \cup {Fixed} \cup (Value \X Value)]

Capability == {"tokenx", "maskinporten", "entraid", "idporten", "ansattporten"}
Status == [phase : {"unset", "Pending", "Ready", "Failed"},
           field : [Capability -> Keys \cup Value \cup {Nil}]]

ASSUME DesiredAssumption ==
  /\ SC \cap Ext = {} /\ App \cap Ext = {} /\ SC \cap Clients = {}
  /\ UserKeys \subseteq {ObjectKey("Application", a, "none") : a \in App} \cup
       {ObjectKey(kind, e, "none") : kind \in {"Secret", "ConfigMap"}, e \in Ext}
  /\ UserClients \subseteq {ObjectKey(kind, e, "none") : kind \in ClientKind \ {"Jwker"}, e \in Ext}
  /\ Specs \in [SC -> SUBSET SpecType]
  /\ Value # {} /\ Fixed \notin Value
  /\ Nil \notin Value \cup {Fixed} \cup Ext \cup App \cup SC \cup (Value \X Value)
  /\ Absent \notin Object /\ NoSC \notin SpecType
  /\ TokenxEnabled \in BOOLEAN /\ OpaEnabled \in BOOLEAN /\ MaxChanges \in Nat

VARIABLES
  spec,     \* the SecurityConfigs' specs
  obj,      \* the objects of the namespace
  queued,   \* the work queue
  status,   \* the SecurityConfigs' statuses
  changes   \* what users may still do

vars == <<spec, obj, queued, status, changes>>

NoStatus == [phase |-> "unset", field |-> [c \in Capability |-> Nil]]

\* Every variable keeps its type: in particular no object and no status is built
\* from data a resolver has not found.
TypeOK ==
  /\ DOMAIN spec = SC /\ \A n \in SC : spec[n] \in Specs[n] \cup {NoSC}
  /\ obj \in [Keys -> Object \cup {Absent}]
  /\ queued \subseteq SC
  /\ status \in [SC -> Status]
  /\ changes \in 0..MaxChanges

-----------------------------------------------------------------------------
(* Resolvers. *)

\* The content of a user's object, Nil when it or the key in it is missing.
Content(o, kind, name) ==
  LET k == ObjectKey(kind, name, "none") IN IF o[k] = Absent THEN Nil ELSE o[k].val

DetermineConfigType(c) ==
  LET given == {t \in {"InlineClient", "ClientRef", "SecretRef"} :
                  CASE t = "InlineClient" -> c.client
                    [] t = "ClientRef"    -> c.clientRef # Nil
                    [] t = "SecretRef"    -> c.secretRef # Nil}
  IN  IF given = {} THEN "None"
      ELSE IF Cardinality(given) > 1 THEN "error"
      ELSE CHOOSE t \in given : TRUE

\* GetSecretDataByKey for both Secrets of a secretRef.
SecretData(c, o) == <<Content(o, "Secret", c.secretRef.id), Content(o, "Secret", c.secretRef.jwk)>>

\* ResolveAudiences for one audience; Nil is an error.
Audience(a, o) ==
  IF Cardinality({f \in {"value", "configMap", "secret"} : a[f] # Nil}) # 1 THEN Nil
  ELSE IF a.value # Nil THEN a.value
  ELSE IF a.configMap # Nil THEN Content(o, "ConfigMap", a.configMap)
  ELSE Content(o, "Secret", a.secret)

TokenX(s) == s.tokenx \in {"enabled", "inherit"}
Opa(s) == s.opa \in {"enabled", "policy"}

\* Each resolver is true when it returns no error.
ResolveTokenXConfig(s, o) ==
  /\ s.tokenx # "unset" => TokenxEnabled
  /\ TokenX(s) => Content(o, "Application", s.app) # Nil

\* Mutant: a missing key yields no data, and no error.
ResolveMaskinportenConfig_Unchecked(c, o) == c.enabled => DetermineConfigType(c) # "error"

ResolveMaskinportenConfig(c, o) ==
  c.enabled => /\ DetermineConfigType(c) # "error"
               /\ DetermineConfigType(c) = "SecretRef" => Nil \notin Range(SecretData(c, o))

ResolveEntraIdConfig(c, o) ==
  c.enabled => /\ DetermineConfigType(c) # "error"
               /\ DetermineConfigType(c) = "SecretRef" => Nil \notin Range(SecretData(c, o))

ResolveIdPortenConfig(a, o) == a.enabled => Audience(a, o) # Nil

ResolveAnsattportenConfig(a, o) == a.enabled => Audience(a, o) # Nil

\* The registry, which may fail too, is in ResolveFails.
ResolveOpaConfig(s) == s.opa # "unset" => OpaEnabled

ResolveSecurityConfig(s, o) ==
  /\ ResolveTokenXConfig(s, o)
  /\ ResolveMaskinportenConfig(s.maskinporten, o)
  /\ ResolveEntraIdConfig(s.entraid, o)
  /\ ResolveIdPortenConfig(s.idporten, o)
  /\ ResolveAnsattportenConfig(s.ansattporten, o)
  /\ ResolveOpaConfig(s)

-----------------------------------------------------------------------------
(* Generators: the desired resource of every slot, Nil when there is none. *)

If(wanted, content) == IF wanted THEN content ELSE Nil

\* The access policy is the Application's when it is inherited.
GetDesiredJwker(s, o) ==
  If(TokenX(s), IF s.tokenx = "inherit" THEN Content(o, "Application", s.app) ELSE Fixed)
GetDesiredEgress(s) == If(TokenX(s), s.app)

HasClient(c) == c.enabled /\ DetermineConfigType(c) \in {"InlineClient", "None"}
GetDesiredMaskinportenClient(s) == If(HasClient(s.maskinporten), Fixed)
GetDesiredAzureAdApplication(s) == If(HasClient(s.entraid), Fixed)

HasSecret(c) == c.enabled /\ DetermineConfigType(c) = "SecretRef"

\* Mutant: a disabled capability keeps its Secret.
GetDesiredMaskinportenSecret_Disabled(s, o) ==
  If(DetermineConfigType(s.maskinporten) = "SecretRef", SecretData(s.maskinporten, o))

GetDesiredMaskinportenSecret(s, o) == If(HasSecret(s.maskinporten), SecretData(s.maskinporten, o))
GetDesiredAzureAdSecret(s, o)      == If(HasSecret(s.entraid), SecretData(s.entraid, o))

GetDesiredMaskinportenServiceEntry(s) == If(s.maskinporten.enabled, Fixed)
GetDesiredAzureAdServiceEntry(s)      == If(s.entraid.enabled, Fixed)
GetDesiredIdPortenServiceEntry(s)     == If(s.idporten.enabled, Fixed)
GetDesiredAnsattportenServiceEntry(s) == If(s.ansattporten.enabled, Fixed)

GetDesiredOpaConfigMap(s)   == If(Opa(s), Fixed)
GetDesiredOpaEnvoyFilter(s) == If(s.opa = "policy", s.app)

Desired(s, o) ==
  [jwker                    |-> GetDesiredJwker(s, o),
   tokenxEgress             |-> GetDesiredEgress(s),
   maskinportenClient       |-> GetDesiredMaskinportenClient(s),
   maskinportenSecret       |-> GetDesiredMaskinportenSecret(s, o),
   maskinportenServiceEntry |-> GetDesiredMaskinportenServiceEntry(s),
   azureAdApplication       |-> GetDesiredAzureAdApplication(s),
   azureAdSecret            |-> GetDesiredAzureAdSecret(s, o),
   azureAdServiceEntry      |-> GetDesiredAzureAdServiceEntry(s),
   idportenServiceEntry     |-> GetDesiredIdPortenServiceEntry(s),
   ansattportenServiceEntry |-> GetDesiredAnsattportenServiceEntry(s),
   opaConfigMap             |-> GetDesiredOpaConfigMap(s),
   opaEnvoyFilter           |-> GetDesiredOpaEnvoyFilter(s)]

-----------------------------------------------------------------------------
(* Event handlers: whether the one for an object's kind finds a SecurityConfig, *)
(* whose capability may be enabled or not.                                      *)

HandleSkiperatorApplicationEvent(s, k) == k = ObjectKey("Application", s.app, "none")

HandleMaskinportenClientEvent(s, k) ==
  k = ObjectKey("MaskinportenClient", s.maskinporten.clientRef, "none")

HandleAzureAdApplicationEvent(s, k) ==
  k = ObjectKey("AzureAdApplication", s.entraid.clientRef, "none")

\* Mutant: only the Secret with the client's ID is looked for.
ReferencesSecretRef_IdOnly(c, k) ==
  c.secretRef # Nil /\ k = ObjectKey("Secret", c.secretRef.id, "none")

ReferencesSecretRef(c, k) ==
  c.secretRef # Nil /\ \E e \in {c.secretRef.id, c.secretRef.jwk} : k = ObjectKey("Secret", e, "none")

HandleSecretEvent(s, k) ==
  \/ ReferencesSecretRef(s.maskinporten, k) \/ ReferencesSecretRef(s.entraid, k)
  \/ \E e \in {s.idporten.secret, s.ansattporten.secret} : k = ObjectKey("Secret", e, "none")

HandleConfigMapEvent(s, k) ==
  \E e \in {s.idporten.configMap, s.ansattporten.configMap} : k = ObjectKey("ConfigMap", e, "none")

References(s, k) ==
  \/ HandleSkiperatorApplicationEvent(s, k)
  \/ HandleMaskinportenClientEvent(s, k) \/ HandleAzureAdApplicationEvent(s, k)
  \/ HandleSecretEvent(s, k) \/ HandleConfigMapEvent(s, k)

\* What a spec refers to, users may create.
ASSUME ReferencesAssumption ==
  \A n \in SC : \A s \in Specs[n] :
    \A kind \in {"Application", "Secret", "ConfigMap"} \cup ClientKind, e \in App \cup Ext :
      References(s, ObjectKey(kind, e, "none")) => ObjectKey(kind, e, "none") \in UserKeys \cup UserClients

OwnedBy(o, n) == o # Absent /\ o.owner = n

\* SetupWithManager, Owns and Watches: whom a change of the objects wakes up.
Woken(before, after) ==
  LET changed == {k \in Keys : before[k] # after[k]}
  IN  {n \in SC : \E k \in changed : \/ OwnedBy(before[k], n) \/ OwnedBy(after[k], n)
                                     \/ spec[n] # NoSC /\ References(spec[n], k)}

-----------------------------------------------------------------------------
(* A pass. *)

\* The client object whose status a capability waits for.
ClientKey(c, kind, app) ==
  ObjectKey(kind, IF DetermineConfigType(c) = "ClientRef" THEN c.clientRef ELSE app, "none")

ClientGate(c, kind, app) ==
  IF ~c.enabled \/ HasSecret(c) THEN {} ELSE {ClientKey(c, kind, app)}

Gates(s) == (IF TokenX(s) THEN {ObjectKey("Jwker", s.app, "none")} ELSE {})
            \cup ClientGate(s.maskinporten, "MaskinportenClient", s.app)
            \cup ClientGate(s.entraid, "AzureAdApplication", s.app)

Refused(n, s) ==
  LET key  == SlotKey(n, s.app)
      want == Desired(s, obj)
  IN  {r \in Slot : want[r] # Nil /\ obj[key[r]] # Absent /\ obj[key[r]].owner # n}

\* ReconcileControllerResource: what becomes of an object for the content that
\* is desired.
ReconcileControllerResource(n, old, content) ==
  IF content = Nil THEN IF OwnedBy(old, n) THEN Absent ELSE old
  ELSE IF old = Absent THEN [owner |-> n, val |-> content, sync |-> FALSE]
  ELSE [old EXCEPT !.val = content]

\* Every slot that is not refused is reconciled.
Applied(n, s) ==
  LET key     == SlotKey(n, s.app)
      handled == Slot \ Refused(n, s)
  IN  [k \in Keys |->
         IF \E r \in handled : key[r] = k
           THEN ReconcileControllerResource(n, obj[k],
                  Desired(s, obj)[CHOOSE r \in handled : key[r] = k])
           ELSE obj[k]]

\* The secret name or audience DetermineReconciliationState puts into the status
\* for an enabled capability; a disabled one keeps what it had.  The Secret of a
\* secretRef has the SecurityConfig's name (SecretFromRefName), although the
\* comment above the branch derives it from the applicationRef.
ClientField(n, c, kind, suffix, app, o, old) ==
  IF ~c.enabled THEN old
  ELSE IF HasSecret(c) THEN ObjectKey("Secret", n, suffix)
  ELSE LET k == ClientKey(c, kind, app)
       IN  IF o[k].sync THEN ClientSecret(k) ELSE Nil

Fields(n, s, o, old) ==
  [tokenx       |-> LET k == ObjectKey("Jwker", s.app, "none")
                    IN  IF ~TokenX(s) THEN old["tokenx"]
                        ELSE IF o[k].sync THEN ClientSecret(k) ELSE Nil,
   maskinporten |-> ClientField(n, s.maskinporten, "MaskinportenClient", "maskinporten",
                                s.app, o, old["maskinporten"]),
   entraid      |-> ClientField(n, s.entraid, "AzureAdApplication", "entraid",
                                s.app, o, old["entraid"]),
   idporten     |-> IF s.idporten.enabled THEN Audience(s.idporten, o) ELSE old["idporten"],
   ansattporten |-> IF s.ansattporten.enabled THEN Audience(s.ansattporten, o)
                                              ELSE old["ansattporten"]]

\* Descendants are kept by kind and name (GetID).
Descendants(n, s) == {SlotKey(n, s.app)[r] : r \in {q \in Slot : Desired(s, obj)[q] # Nil}}
CountNonNilResources(s) == Cardinality({r \in Slot : Desired(s, obj)[r] # Nil})

ReconcileGone(n) ==
  /\ n \in queued
  /\ spec[n] = NoSC
  /\ queued' = queued \ {n}
  /\ UNCHANGED <<spec, obj, status, changes>>

\* An error is returned, by a resolver or by the registry that holds the OPA
\* bundles: the SecurityConfig stays on the queue.
ResolveFails(n) ==
  /\ n \in queued
  /\ spec[n] # NoSC
  /\ ResolveSecurityConfig(spec[n], obj) => Opa(spec[n])
  /\ status' = [status EXCEPT ![n].phase = "Failed"]
  /\ UNCHANGED <<spec, obj, queued, changes>>

Reconcile(n) ==
  /\ n \in queued
  /\ spec[n] # NoSC
  /\ ResolveSecurityConfig(spec[n], obj)
  /\ LET s      == spec[n]
         failed == Refused(n, s) # {}
         after  == Applied(n, s)
     IN  /\ obj' = after
         /\ queued' = (IF failed THEN queued ELSE queued \ {n}) \cup Woken(obj, after)
         /\ IF failed THEN status' = [status EXCEPT ![n].phase = "Failed"]
            ELSE IF Cardinality(Descendants(n, s)) # CountNonNilResources(s)
              THEN status' = [status EXCEPT ![n].phase = "Pending"]
            ELSE IF \E k \in Gates(s) : after[k] = Absent
              THEN UNCHANGED status
            ELSE status' = [status EXCEPT ![n] =
                   [phase |-> IF \A k \in Gates(s) : after[k].sync THEN "Ready" ELSE "Pending",
                    field |-> Fields(n, s, after, status[n].field)]]
  /\ UNCHANGED <<spec, changes>>

-----------------------------------------------------------------------------
(* Everyone else. *)

Change(after) ==
  /\ obj' = after
  /\ queued' = queued \cup Woken(obj, after)

Spend == changes > 0 /\ changes' = changes - 1

\* A SecurityConfig is created or edited; the schema has accepted its spec.  A
\* name is used again only when nothing is left of its last bearer.
UserSubmits(n, s) ==
  /\ s # spec[n]
  /\ spec[n] = NoSC => \A k \in Keys : ~OwnedBy(obj[k], n)
  /\ Spend
  /\ spec' = [spec EXCEPT ![n] = s]
  /\ queued' = queued \cup {n}
  /\ status' = IF spec[n] = NoSC THEN [status EXCEPT ![n] = NoStatus] ELSE status
  /\ UNCHANGED obj

UserDeletes(n) ==
  /\ spec[n] # NoSC
  /\ Spend
  /\ spec' = [spec EXCEPT ![n] = NoSC]
  /\ queued' = queued \cup {n}
  /\ UNCHANGED <<obj, status>>

\* A user creates, edits or deletes an Application, Secret, ConfigMap or client.
UserWrites(k, o) ==
  /\ k \in UserKeys \cup UserClients
  /\ o # obj[k]
  /\ Spend
  /\ Change([obj EXCEPT ![k] = o])
  /\ UNCHANGED <<spec, status>>

\* The operator of a client object creates the client's Secret, or writes to one
\* that has the name already without becoming its owner (hack/mock_controller),
\* and reports it.  What wakes the operator is not modelled: it may come at any
\* time, and need never come (SecretHandover has its queue).
Publish(k) ==
  /\ obj[k] # Absent
  /\ LET secret == obj[ClientSecret(k)]
     IN  Change([obj EXCEPT
           ![k].sync = TRUE,
           ![ClientSecret(k)] = [owner |-> IF secret = Absent THEN k ELSE secret.owner,
                                 val |-> Fixed, sync |-> FALSE]])
  /\ UNCHANGED <<spec, status, changes>>

\* The garbage collector.
Collect(k) ==
  /\ obj[k] # Absent
  /\ \/ obj[k].owner \in SC /\ spec[obj[k].owner] = NoSC
     \/ obj[k].owner \in Clients /\ obj[obj[k].owner] = Absent
  /\ Change([obj EXCEPT ![k] = Absent])
  /\ UNCHANGED <<spec, status, changes>>

-----------------------------------------------------------------------------
UsersObject(v) == [owner |-> Nil, val |-> v, sync |-> FALSE]

\* Users' objects are there, and the operators have dealt with their clients.
Init ==
  /\ spec = [n \in SC |-> NoSC]
  /\ LET v == CHOOSE w \in Value : TRUE
     IN  obj = [k \in Keys |->
                 IF k \in UserKeys THEN UsersObject(v)
                 ELSE IF k \in UserClients THEN [UsersObject(v) EXCEPT !.sync = TRUE]
                 ELSE IF \E c \in UserClients : k = ClientSecret(c)
                   THEN [owner |-> CHOOSE c \in UserClients : k = ClientSecret(c),
                         val |-> Fixed, sync |-> FALSE]
                 ELSE Absent]
  /\ queued = {}
  /\ status = [n \in SC |-> NoStatus]
  /\ changes = MaxChanges

Controller == \E n \in SC : ReconcileGone(n) \/ ResolveFails(n) \/ Reconcile(n)

Users ==
  \/ \E n \in SC : UserDeletes(n) \/ \E s \in Specs[n] : UserSubmits(n, s)
  \/ \E k \in UserKeys \cup UserClients :
       \E o \in {UsersObject(v) : v \in Value} \cup {Absent} : UserWrites(k, o)

Next ==
  \/ Controller
  \/ Users
  \/ \E k \in Clients : Publish(k)
  \/ \E k \in Keys : Collect(k)

Spec == Init /\ [][Next]_vars

-----------------------------------------------------------------------------
(* What the parts promise together. *)

AtRest(n) == n \notin queued /\ spec[n] # NoSC

\* No input is forgotten: a SecurityConfig that no event has woken up has every
\* object its spec, the present Application, Secrets and ConfigMaps call for,
\* and its status names the Secrets and audiences of the present: whichever of
\* these objects a resolver or the status manager reads, a handler or Owns
\* watches.  Namespaces, which are read and not watched, are in InboundRules.
UpToDate ==
  \A n \in SC : AtRest(n) =>
    LET s == spec[n]
    IN  /\ ResolveSecurityConfig(s, obj)
        /\ Applied(n, s) = obj /\ Refused(n, s) = {}
        /\ (\A k \in Gates(s) : obj[k] # Absent) =>
             status[n].field = Fields(n, s, obj, status[n].field)

\* A SecurityConfig rests as Pending only because a client object that it waits
\* for is not synchronised or not there: no two slots share a kind and name, so
\* the comparison of Descendants with CountNonNilResources does not keep it so.
PendingHasReason ==
  \A n \in SC : AtRest(n) /\ status[n].phase = "Pending" =>
    \E k \in Gates(spec[n]) : obj[k] = Absent \/ ~obj[k].sync

\* The capability of the spec that an object supports.
Supported(s, k) ==
  CASE k[1] \in {"Jwker", "NetworkPolicy"} -> s.tokenx \in {"enabled", "inherit"}
    [] k[1] = "MaskinportenClient" ->
         s.maskinporten.enabled /\ s.maskinporten.clientRef = Nil /\ s.maskinporten.secretRef = Nil
    [] k[1] = "AzureAdApplication" ->
         s.entraid.enabled /\ s.entraid.clientRef = Nil /\ s.entraid.secretRef = Nil
    [] k[1] = "Secret" -> s[k[3]].enabled /\ s[k[3]].secretRef # Nil
    [] k[1] = "ServiceEntry" -> s[k[3]].enabled
    [] k[1] = "ConfigMap" -> s.opa \in {"enabled", "policy"}
    [] k[1] = "EnvoyFilter" -> s.opa = "policy"

\* Whatever sequence of edits led to the present spec, a SecurityConfig at rest
\* owns nothing that supports no enabled capability, except client objects
\* named after an Application it no longer refers to, which no slot names.
NothingLeftBehind ==
  \A n \in SC, k \in Keys : AtRest(n) /\ OwnedBy(obj[k], n) =>
    \/ Supported(spec[n], k)
    \/ k[1] \in ClientKind /\ k[2] # spec[n].app

=============================================================================
