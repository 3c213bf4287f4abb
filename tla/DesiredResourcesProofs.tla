----------------------- MODULE DesiredResourcesProofs -----------------------
(***************************************************************************)
(* Proofs about what accesserator makes of the capabilities of a           *)
(* SecurityConfig, for any number of SecurityConfigs, Applications, users' *)
(* objects and specs, and any number of changes.                           *)
(***************************************************************************)
EXTENDS DesiredResources, FiniteSetTheorems, TLAPS

-----------------------------------------------------------------------------
(* Names. *)

\* The names of the slots, one by one.
LEMMA SlotKeyOf ==
  ASSUME NEW n, NEW a
  PROVE  /\ SlotKey(n, a)["jwker"] = <<"Jwker", a, "none">>
         /\ SlotKey(n, a)["tokenxEgress"] = <<"NetworkPolicy", n, "egress">>
         /\ SlotKey(n, a)["maskinportenClient"] = <<"MaskinportenClient", a, "none">>
         /\ SlotKey(n, a)["maskinportenSecret"] = <<"Secret", n, "maskinporten">>
         /\ SlotKey(n, a)["maskinportenServiceEntry"] = <<"ServiceEntry", n, "maskinporten">>
         /\ SlotKey(n, a)["azureAdApplication"] = <<"AzureAdApplication", a, "none">>
         /\ SlotKey(n, a)["azureAdSecret"] = <<"Secret", n, "entraid">>
         /\ SlotKey(n, a)["azureAdServiceEntry"] = <<"ServiceEntry", n, "entraid">>
         /\ SlotKey(n, a)["idportenServiceEntry"] = <<"ServiceEntry", n, "idporten">>
         /\ SlotKey(n, a)["ansattportenServiceEntry"] = <<"ServiceEntry", n, "ansattporten">>
         /\ SlotKey(n, a)["opaConfigMap"] = <<"ConfigMap", n, "opa">>
         /\ SlotKey(n, a)["opaEnvoyFilter"] = <<"EnvoyFilter", n, "opa">>
  BY DEF SlotKey, ServiceEntryKey, ObjectKey

\* Only client objects have the name of the Application.
LEMMA NamedAfterApplication ==
  ASSUME NEW n, NEW a, NEW b, NEW r \in Slot,
         r \notin {"jwker", "maskinportenClient", "azureAdApplication"}
  PROVE  SlotKey(n, a)[r] = SlotKey(n, b)[r]
  BY DEF SlotKey, Slot, ServiceEntryKey, ObjectKey

\* No two slots share a kind and a name.
LEMMA SlotKeyInjective ==
  ASSUME NEW n, NEW a, NEW r \in Slot, NEW q \in Slot,
         SlotKey(n, a)[r] = SlotKey(n, a)[q]
  PROVE  r = q
<1> DEFINE key == SlotKey(n, a)
<1>1. key[r][1] = key[q][1] /\ key[r][3] = key[q][3]
  OBVIOUS
<1> QED
  BY <1>1, SlotKeyOf DEF Slot

\* Users' objects have no suffix, and are of kinds of their own.
LEMMA UsersKeys ==
  /\ \A k \in UserKeys : k[1] \in {"Application", "Secret", "ConfigMap"} /\ k[3] = "none"
  /\ \A k \in UserClients : k[1] \in ClientKind /\ k[2] \in Ext /\ k[3] = "none"
<1>1. /\ UserKeys \subseteq {ObjectKey("Application", a, "none") : a \in App} \cup
            {ObjectKey(kind, e, "none") : kind \in {"Secret", "ConfigMap"}, e \in Ext}
      /\ UserClients \subseteq
            {ObjectKey(kind, e, "none") : kind \in ClientKind \ {"Jwker"}, e \in Ext}
  BY DesiredAssumption
<1>2. ASSUME NEW k \in UserKeys
      PROVE  k[1] \in {"Application", "Secret", "ConfigMap"} /\ k[3] = "none"
  <2>1. \/ \E a \in App : k = <<"Application", a, "none">>
        \/ \E kind \in {"Secret", "ConfigMap"}, e \in Ext : k = <<kind, e, "none">>
    BY <1>1 DEF ObjectKey
  <2> QED
    BY <2>1
<1>3. ASSUME NEW k \in UserClients
      PROVE  k[1] \in ClientKind /\ k[2] \in Ext /\ k[3] = "none"
  <2>1. \E kind \in ClientKind, e \in Ext : k = <<kind, e, "none">>
    BY <1>1 DEF ObjectKey
  <2> QED
    BY <2>1
<1> QED
  BY <1>2, <1>3

LEMMA ClientKeys ==
  ASSUME NEW k \in Clients
  PROVE  k[1] \in ClientKind /\ k[3] = "none" /\ k[2] \in App \cup Ext
<1>1. CASE k \in UserClients
  BY <1>1, UsersKeys
<1>2. CASE \E kind \in ClientKind, a \in App : k = <<kind, a, "none">>
  BY <1>2
<1> QED
  BY <1>1, <1>2 DEF Clients, ObjectKey

\* The slots have names of their own, which are no users' objects.
LEMMA SlotKeys ==
  ASSUME NEW n \in SC, NEW a \in App, NEW r \in Slot
  PROVE  SlotKey(n, a)[r] \in Keys /\ SlotKey(n, a)[r] \notin UserKeys
<1>1. SlotKey(n, a)[r] \in Keys
  BY DEF Keys
<1> DEFINE k == SlotKey(n, a)[r]
<1>2. k[1] \notin {"Application", "Secret", "ConfigMap"} \/ k[3] # "none"
  BY SlotKeyOf DEF Slot
<1> QED
  BY <1>1, <1>2, UsersKeys

\* The credentials of a client have a name of their own too.
LEMMA ClientSecrets ==
  ASSUME NEW k \in Clients
  PROVE  /\ k \in Keys /\ k \notin UserKeys
         /\ ClientSecret(k) \in Keys
         /\ ClientSecret(k) \notin UserKeys
         /\ ClientSecret(k) \notin Clients
<1>1. k \in Keys /\ ClientSecret(k) \in Keys
  BY DEF Keys
<1>2. k \notin UserKeys
  BY ClientKeys, UsersKeys DEF ClientKind
<1>3. ClientSecret(k)[1] = "Secret" /\ ClientSecret(k)[3] # "none"
  BY ClientKeys DEF ClientSecret, ObjectKey, ClientKind
<1>4. ClientSecret(k) \notin UserKeys
  BY <1>3, UsersKeys
<1>5. ClientSecret(k) \notin Clients
  BY <1>3, ClientKeys DEF ClientKind
<1> QED
  BY <1>1, <1>2, <1>4, <1>5

-----------------------------------------------------------------------------
(* Ways to configure a client. *)

ConfigTypes == {"None", "error", "InlineClient", "ClientRef", "SecretRef"}

\* A clientRef or secretRef is used only when it is set, and an inline client
\* only when neither is.
LEMMA ConfigType ==
  ASSUME NEW c \in ClientSpec
  PROVE  /\ DetermineConfigType(c) \in ConfigTypes
         /\ DetermineConfigType(c) = "ClientRef" => c.clientRef \in Ext
         /\ DetermineConfigType(c) = "SecretRef" =>
              c.secretRef # Nil /\ c.secretRef.id \in Ext /\ c.secretRef.jwk \in Ext
         /\ DetermineConfigType(c) \in {"InlineClient", "None"} =>
              c.clientRef = Nil /\ c.secretRef = Nil
<1> DEFINE given == {t \in {"InlineClient", "ClientRef", "SecretRef"} :
                       CASE t = "InlineClient" -> c.client
                         [] t = "ClientRef"    -> c.clientRef # Nil
                         [] t = "SecretRef"    -> c.secretRef # Nil}
<1>1. /\ "ClientRef" \in given <=> c.clientRef # Nil
      /\ "SecretRef" \in given <=> c.secretRef # Nil
      /\ given \subseteq {"InlineClient", "ClientRef", "SecretRef"}
  OBVIOUS
<1>2. /\ c.clientRef # Nil => c.clientRef \in Ext
      /\ c.secretRef # Nil => c.secretRef.id \in Ext /\ c.secretRef.jwk \in Ext
  BY DEF ClientSpec
<1>3. DetermineConfigType(c) = IF given = {} THEN "None"
                               ELSE IF Cardinality(given) > 1 THEN "error"
                               ELSE CHOOSE t \in given : TRUE
  BY DEF DetermineConfigType
<1> HIDE DEF given
<1>4. IsFiniteSet({"InlineClient", "ClientRef", "SecretRef"})
  <2>1. IsFiniteSet({"InlineClient"})
    BY FS_Singleton
  <2>2. IsFiniteSet({"InlineClient"} \cup {"ClientRef"})
    BY <2>1, FS_AddElement
  <2>3. IsFiniteSet(({"InlineClient"} \cup {"ClientRef"}) \cup {"SecretRef"})
    BY <2>2, FS_AddElement
  <2>4. ({"InlineClient"} \cup {"ClientRef"}) \cup {"SecretRef"}
          = {"InlineClient", "ClientRef", "SecretRef"}
    OBVIOUS
  <2> QED
    BY <2>3, <2>4
<1>5. IsFiniteSet(given)
  BY <1>1, <1>4, FS_Subset
<1>6. Cardinality(given) \in Nat
  BY <1>5, FS_CardinalityType
<1>7. given # {} /\ ~ Cardinality(given) > 1 => \E t : given = {t}
  <2> SUFFICES ASSUME given # {}, ~ Cardinality(given) > 1
               PROVE  \E t : given = {t}
    OBVIOUS
  <2>1. Cardinality(given) # 0
    BY <1>5, FS_EmptySet
  <2>2. Cardinality(given) = 1
    BY <2>1, <1>6
  <2> QED
    BY <2>2, <1>5, FS_Singleton
<1>8. CASE given = {}
  BY <1>8, <1>1, <1>3 DEF ConfigTypes
<1>9. CASE given # {} /\ Cardinality(given) > 1
  BY <1>9, <1>3 DEF ConfigTypes
<1>10. CASE given # {} /\ ~ Cardinality(given) > 1
  <2>1. PICK t : given = {t}
    BY <1>7, <1>10
  <2>2. DetermineConfigType(c) = t
    BY <2>1, <1>3, <1>10
  <2> QED
    BY <2>1, <2>2, <1>1, <1>2 DEF ConfigTypes
<1> QED
  BY <1>8, <1>9, <1>10

\* An audience that is resolved is a value, or what the one object holds that it
\* refers to.
LEMMA AudienceOf ==
  ASSUME NEW a \in AudienceSpec, NEW o
  PROVE  \/ Audience(a, o) = Nil /\ \A p : Audience(a, p) = Nil
         \/ Audience(a, o) = a.value /\ a.value \in Value /\ \A p : Audience(a, p) = a.value
         \/ /\ a.configMap \in Ext
            /\ \A p : Audience(a, p) = Content(p, "ConfigMap", a.configMap)
         \/ /\ a.secret \in Ext
            /\ \A p : Audience(a, p) = Content(p, "Secret", a.secret)
<1> DEFINE set == {f \in {"value", "configMap", "secret"} : a[f] # Nil}
<1>1. \A p : Audience(a, p) =
               IF Cardinality(set) # 1 THEN Nil
               ELSE IF a.value # Nil THEN a.value
               ELSE IF a.configMap # Nil THEN Content(p, "ConfigMap", a.configMap)
               ELSE Content(p, "Secret", a.secret)
  BY DEF Audience
<1>2. a.value = Nil /\ a.configMap = Nil /\ a.secret = Nil => set = {}
  BY DEF AudienceSpec
<1>3. /\ a.value # Nil => a.value \in Value
      /\ a.configMap # Nil => a.configMap \in Ext
      /\ a.secret # Nil => a.secret \in Ext
  BY DEF AudienceSpec
<1> HIDE DEF set
<1>4. set = {} => Cardinality(set) # 1
  BY FS_EmptySet
<1> QED
  BY <1>1, <1>2, <1>3, <1>4

-----------------------------------------------------------------------------
(* What a pass reads. *)

Objects == [Keys -> Object \cup {Absent}]

\* The Secrets that may be referred to.
SecretKey(e) == ObjectKey("Secret", e, "none")
ConfigMapKey(e) == ObjectKey("ConfigMap", e, "none")

\* Whatever a resolver reads, a handler watches, and only users write.
LEMMA Referred ==
  ASSUME NEW n \in SC, NEW s \in Specs[n]
  PROVE  /\ s \in SpecType
         /\ LET k == ObjectKey("Application", s.app, "none")
            IN  k \in UserKeys /\ References(s, k)
         /\ \A c \in {s.maskinporten, s.entraid} : c.secretRef # Nil =>
              \A e \in {c.secretRef.id, c.secretRef.jwk} :
                SecretKey(e) \in UserKeys /\ References(s, SecretKey(e))
         /\ \A a \in {s.idporten, s.ansattporten} :
              /\ a.secret \in Ext =>
                   SecretKey(a.secret) \in UserKeys /\ References(s, SecretKey(a.secret))
              /\ a.configMap \in Ext =>
                   ConfigMapKey(a.configMap) \in UserKeys /\ References(s, ConfigMapKey(a.configMap))
         /\ s.maskinporten.clientRef \in Ext =>
              LET k == ObjectKey("MaskinportenClient", s.maskinporten.clientRef, "none")
              IN  k \in UserClients /\ References(s, k)
         /\ s.entraid.clientRef \in Ext =>
              LET k == ObjectKey("AzureAdApplication", s.entraid.clientRef, "none")
              IN  k \in UserClients /\ References(s, k)
<1>1. s \in SpecType
  BY DesiredAssumption
<1>2. /\ s.app \in App
      /\ s.maskinporten \in ClientSpec /\ s.entraid \in ClientSpec
      /\ s.idporten \in AudienceSpec /\ s.ansattporten \in AudienceSpec
  BY <1>1 DEF SpecType
<1>3. ASSUME NEW kind \in {"Application", "Secret", "ConfigMap"}, NEW e \in App \cup Ext,
             References(s, ObjectKey(kind, e, "none"))
      PROVE  ObjectKey(kind, e, "none") \in UserKeys
  <2> DEFINE k == ObjectKey(kind, e, "none")
  <2>1. k \in UserKeys \cup UserClients
    BY <1>3, ReferencesAssumption
  <2>2. k[1] \notin ClientKind
    BY DEF ObjectKey, ClientKind
  <2> QED
    BY <2>1, <2>2, UsersKeys
<1>4. ASSUME NEW kind \in ClientKind, NEW e \in App \cup Ext,
             References(s, ObjectKey(kind, e, "none"))
      PROVE  ObjectKey(kind, e, "none") \in UserClients
  <2> DEFINE k == ObjectKey(kind, e, "none")
  <2>1. k \in UserKeys \cup UserClients
    BY <1>4, ReferencesAssumption
  <2>2. k[1] \in ClientKind
    BY DEF ObjectKey
  <2> QED
    BY <2>1, <2>2, UsersKeys DEF ClientKind
<1>5. References(s, ObjectKey("Application", s.app, "none"))
  BY DEF References, HandleSkiperatorApplicationEvent
<1>6. ASSUME NEW c \in {s.maskinporten, s.entraid}, c.secretRef # Nil,
             NEW e \in {c.secretRef.id, c.secretRef.jwk}
      PROVE  e \in Ext /\ References(s, SecretKey(e))
  <2>1. e \in Ext
    BY <1>2, <1>6 DEF ClientSpec
  <2>2. ReferencesSecretRef(c, SecretKey(e))
    BY <1>6 DEF ReferencesSecretRef, SecretKey
  <2> QED
    BY <2>1, <2>2 DEF References, HandleSecretEvent
<1>7. ASSUME NEW a \in {s.idporten, s.ansattporten}
      PROVE  /\ References(s, SecretKey(a.secret))
             /\ References(s, ConfigMapKey(a.configMap))
  BY DEF References, HandleSecretEvent, HandleConfigMapEvent, SecretKey, ConfigMapKey
<1>8. /\ References(s, ObjectKey("MaskinportenClient", s.maskinporten.clientRef, "none"))
      /\ References(s, ObjectKey("AzureAdApplication", s.entraid.clientRef, "none"))
  BY DEF References, HandleMaskinportenClientEvent, HandleAzureAdApplicationEvent
<1> HIDE DEF References
<1>9. \A e \in Ext : References(s, SecretKey(e)) => SecretKey(e) \in UserKeys
  BY <1>3 DEF SecretKey
<1>10. \A e \in Ext : References(s, ConfigMapKey(e)) => ConfigMapKey(e) \in UserKeys
  BY <1>3 DEF ConfigMapKey
<1>11. ObjectKey("Application", s.app, "none") \in UserKeys
  BY <1>2, <1>3, <1>5
<1>12. /\ s.maskinporten.clientRef \in Ext =>
            ObjectKey("MaskinportenClient", s.maskinporten.clientRef, "none") \in UserClients
       /\ s.entraid.clientRef \in Ext =>
            ObjectKey("AzureAdApplication", s.entraid.clientRef, "none") \in UserClients
  BY <1>4, <1>8 DEF ClientKind
<1> QED
  BY <1>1, <1>5, <1>6, <1>7, <1>8, <1>9, <1>10, <1>11, <1>12

\* The result of the resolvers and of the generators depends on nothing but the
\* objects the SecurityConfig refers to.
LEMMA DependsOnReferred ==
  ASSUME NEW n \in SC, NEW s \in Specs[n], NEW o, NEW p,
         \A k \in Keys : References(s, k) => o[k] = p[k]
  PROVE  /\ ResolveSecurityConfig(s, o) <=> ResolveSecurityConfig(s, p)
         /\ Desired(s, o) = Desired(s, p)
         /\ Audience(s.idporten, o) = Audience(s.idporten, p)
         /\ Audience(s.ansattporten, o) = Audience(s.ansattporten, p)
<1>1. /\ s.maskinporten \in ClientSpec /\ s.entraid \in ClientSpec
      /\ s.idporten \in AudienceSpec /\ s.ansattporten \in AudienceSpec
  BY Referred DEF SpecType
<1>2. UserKeys \subseteq Keys
  BY DEF Keys
<1>3. Content(o, "Application", s.app) = Content(p, "Application", s.app)
  BY <1>2, Referred DEF Content
<1>4. ASSUME NEW c \in {s.maskinporten, s.entraid}, DetermineConfigType(c) = "SecretRef"
      PROVE  SecretData(c, o) = SecretData(c, p)
  <2>1. c.secretRef # Nil
    BY <1>1, <1>4, ConfigType
  <2>2. \A e \in {c.secretRef.id, c.secretRef.jwk} : o[SecretKey(e)] = p[SecretKey(e)]
    BY <1>2, <2>1, Referred
  <2>3. \A e \in {c.secretRef.id, c.secretRef.jwk} :
          Content(o, "Secret", e) = Content(p, "Secret", e)
    BY <2>2 DEF Content, SecretKey
  <2> QED
    BY <2>3 DEF SecretData
<1>5. ASSUME NEW a \in {s.idporten, s.ansattporten}
      PROVE  Audience(a, o) = Audience(a, p)
  <2>1. a \in AudienceSpec
    BY <1>1
  <2>2. a.secret \in Ext => Content(o, "Secret", a.secret) = Content(p, "Secret", a.secret)
    BY <1>2, Referred DEF Content, SecretKey
  <2>3. a.configMap \in Ext =>
          Content(o, "ConfigMap", a.configMap) = Content(p, "ConfigMap", a.configMap)
    BY <1>2, Referred DEF Content, ConfigMapKey
  <2> QED
    BY <2>1, <2>2, <2>3, AudienceOf
<1>6. /\ Audience(s.idporten, o) = Audience(s.idporten, p)
      /\ Audience(s.ansattporten, o) = Audience(s.ansattporten, p)
  BY <1>5
<1>7. ResolveSecurityConfig(s, o) <=> ResolveSecurityConfig(s, p)
  <2>1. ResolveTokenXConfig(s, o) <=> ResolveTokenXConfig(s, p)
    BY <1>3 DEF ResolveTokenXConfig
  <2>2. ResolveMaskinportenConfig(s.maskinporten, o) <=> ResolveMaskinportenConfig(s.maskinporten, p)
    BY <1>4 DEF ResolveMaskinportenConfig
  <2>3. ResolveEntraIdConfig(s.entraid, o) <=> ResolveEntraIdConfig(s.entraid, p)
    BY <1>4 DEF ResolveEntraIdConfig
  <2>4. /\ ResolveIdPortenConfig(s.idporten, o) <=> ResolveIdPortenConfig(s.idporten, p)
        /\ ResolveAnsattportenConfig(s.ansattporten, o) <=>
             ResolveAnsattportenConfig(s.ansattporten, p)
    BY <1>6 DEF ResolveIdPortenConfig, ResolveAnsattportenConfig
  <2> QED
    BY <2>1, <2>2, <2>3, <2>4 DEF ResolveSecurityConfig
<1>8. Desired(s, o) = Desired(s, p)
  <2>1. GetDesiredJwker(s, o) = GetDesiredJwker(s, p)
    BY <1>3 DEF GetDesiredJwker
  <2>2. /\ GetDesiredMaskinportenSecret(s, o) = GetDesiredMaskinportenSecret(s, p)
        /\ GetDesiredAzureAdSecret(s, o) = GetDesiredAzureAdSecret(s, p)
    BY <1>4 DEF GetDesiredMaskinportenSecret, GetDesiredAzureAdSecret, HasSecret, If
  <2> QED
    BY <2>1, <2>2 DEF Desired
<1> QED
  BY <1>6, <1>7, <1>8

-----------------------------------------------------------------------------
(* What a pass makes of it. *)

Contents == Value \cup App \cup {Fixed} \cup (Value \X Value)

\* Users' objects hold what users put into them.
UsersValues(o) == \A k \in UserKeys : o[k] # Absent => o[k].val \in Value

LEMMA NilIsNoContent == Nil \notin Contents
  BY DesiredAssumption DEF Contents

\* The slots that are filled.
Wanted(s, r) ==
  \/ r \in {"jwker", "tokenxEgress"} /\ TokenX(s)
  \/ r = "maskinportenClient" /\ HasClient(s.maskinporten)
  \/ r = "maskinportenSecret" /\ HasSecret(s.maskinporten)
  \/ r = "maskinportenServiceEntry" /\ s.maskinporten.enabled
  \/ r = "azureAdApplication" /\ HasClient(s.entraid)
  \/ r = "azureAdSecret" /\ HasSecret(s.entraid)
  \/ r = "azureAdServiceEntry" /\ s.entraid.enabled
  \/ r = "idportenServiceEntry" /\ s.idporten.enabled
  \/ r = "ansattportenServiceEntry" /\ s.ansattporten.enabled
  \/ r = "opaConfigMap" /\ Opa(s)
  \/ r = "opaEnvoyFilter" /\ s.opa = "policy"

\* After the resolvers have succeeded, a slot is filled exactly if the spec asks
\* for it, and with data that has been found.
LEMMA DesiredContents ==
  ASSUME NEW n \in SC, NEW s \in Specs[n], NEW o \in Objects, UsersValues(o),
         ResolveSecurityConfig(s, o), NEW r \in Slot
  PROVE  /\ Desired(s, o)[r] \in Contents \cup {Nil}
         /\ Desired(s, o)[r] # Nil <=> Wanted(s, r)
<1>1. /\ s.app \in App
      /\ s.maskinporten \in ClientSpec /\ s.entraid \in ClientSpec
  BY Referred DEF SpecType
<1>2. \A content \in Contents : content # Nil
  BY NilIsNoContent
<1>3. Fixed \in Contents /\ s.app \in Contents
  BY <1>1 DEF Contents
<1>4. ASSUME NEW wanted, NEW content, wanted => content \in Contents
      PROVE  /\ If(wanted, content) \in Contents \cup {Nil}
             /\ If(wanted, content) # Nil <=> wanted
  BY <1>2, <1>4 DEF If
<1>5. TokenX(s) => Content(o, "Application", s.app) \in Contents
  <2>1. TokenX(s) => Content(o, "Application", s.app) # Nil
    BY DEF ResolveSecurityConfig, ResolveTokenXConfig
  <2>2. Content(o, "Application", s.app) \in Value \cup {Nil}
    BY Referred DEF Content, UsersValues
  <2> QED
    BY <2>1, <2>2 DEF Contents
<1>6. ASSUME NEW c \in {s.maskinporten, s.entraid}, HasSecret(c),
             Nil \notin Range(SecretData(c, o))
      PROVE  SecretData(c, o) \in Contents
  <2>1. c.secretRef # Nil
    BY <1>1, <1>6, ConfigType DEF HasSecret
  <2>2. \A e \in {c.secretRef.id, c.secretRef.jwk} : Content(o, "Secret", e) \in Value \cup {Nil}
    BY <2>1, Referred DEF Content, UsersValues, SecretKey
  <2>3. Nil \notin {Content(o, "Secret", c.secretRef.id), Content(o, "Secret", c.secretRef.jwk)}
    BY <1>6 DEF SecretData, Range
  <2> QED
    BY <2>2, <2>3 DEF SecretData, Contents
<1>7. /\ HasSecret(s.maskinporten) => SecretData(s.maskinporten, o) \in Contents
      /\ HasSecret(s.entraid) => SecretData(s.entraid, o) \in Contents
  BY <1>6 DEF ResolveSecurityConfig, ResolveMaskinportenConfig, ResolveEntraIdConfig, HasSecret
<1> DEFINE Fills(content, wanted) ==
             content \in Contents \cup {Nil} /\ (content # Nil <=> wanted)
<1>8. Fills(GetDesiredJwker(s, o), TokenX(s)) /\ Fills(GetDesiredEgress(s), TokenX(s))
  BY <1>3, <1>4, <1>5 DEF GetDesiredJwker, GetDesiredEgress
<1>9. /\ Fills(GetDesiredMaskinportenClient(s), HasClient(s.maskinporten))
      /\ Fills(GetDesiredAzureAdApplication(s), HasClient(s.entraid))
  BY <1>3, <1>4 DEF GetDesiredMaskinportenClient, GetDesiredAzureAdApplication
<1>10. /\ Fills(GetDesiredMaskinportenSecret(s, o), HasSecret(s.maskinporten))
       /\ Fills(GetDesiredAzureAdSecret(s, o), HasSecret(s.entraid))
  BY <1>4, <1>7 DEF GetDesiredMaskinportenSecret, GetDesiredAzureAdSecret
<1>11. /\ Fills(GetDesiredMaskinportenServiceEntry(s), s.maskinporten.enabled)
       /\ Fills(GetDesiredAzureAdServiceEntry(s), s.entraid.enabled)
       /\ Fills(GetDesiredIdPortenServiceEntry(s), s.idporten.enabled)
       /\ Fills(GetDesiredAnsattportenServiceEntry(s), s.ansattporten.enabled)
  BY <1>3, <1>4 DEF GetDesiredMaskinportenServiceEntry, GetDesiredAzureAdServiceEntry,
     GetDesiredIdPortenServiceEntry, GetDesiredAnsattportenServiceEntry
<1>12. /\ Fills(GetDesiredOpaConfigMap(s), Opa(s))
       /\ Fills(GetDesiredOpaEnvoyFilter(s), s.opa = "policy")
  BY <1>3, <1>4 DEF GetDesiredOpaConfigMap, GetDesiredOpaEnvoyFilter
<1>13. CASE r \in {"jwker", "tokenxEgress"}
  BY <1>8, <1>13 DEF Desired, Wanted
<1>14. CASE r \in {"maskinportenClient", "azureAdApplication"}
  BY <1>9, <1>14 DEF Desired, Wanted
<1>15. CASE r \in {"maskinportenSecret", "azureAdSecret"}
  BY <1>10, <1>15 DEF Desired, Wanted
<1>16. CASE r \in {"maskinportenServiceEntry", "azureAdServiceEntry",
                   "idportenServiceEntry", "ansattportenServiceEntry"}
  BY <1>11, <1>16 DEF Desired, Wanted
<1>17. CASE r \in {"opaConfigMap", "opaEnvoyFilter"}
  BY <1>12, <1>17 DEF Desired, Wanted
<1> QED
  BY <1>13, <1>14, <1>15, <1>16, <1>17 DEF Slot

\* A slot is reconciled on its own, unless it is refused.
LEMMA AppliedSlot ==
  ASSUME NEW n \in SC, NEW s, s.app \in App, NEW r \in Slot
  PROVE  Applied(n, s)[SlotKey(n, s.app)[r]] =
           IF r \in Refused(n, s) THEN obj[SlotKey(n, s.app)[r]]
           ELSE ReconcileControllerResource(n, obj[SlotKey(n, s.app)[r]], Desired(s, obj)[r])
<1> DEFINE key == SlotKey(n, s.app)
           handled == Slot \ Refused(n, s)
<1>1. key[r] \in Keys
  BY SlotKeys
<1>2. \A q \in Slot : key[q] = key[r] => q = r
  BY SlotKeyInjective
<1>3. Applied(n, s)[key[r]] =
        IF \E q \in handled : key[q] = key[r]
          THEN ReconcileControllerResource(n, obj[key[r]],
                 Desired(s, obj)[CHOOSE q \in handled : key[q] = key[r]])
          ELSE obj[key[r]]
  BY <1>1 DEF Applied
<1> HIDE DEF key
<1>4. CASE r \in Refused(n, s)
  <2>1. ~ \E q \in handled : key[q] = key[r]
    BY <1>2, <1>4
  <2> QED
    BY <2>1, <1>3, <1>4 DEF key
<1>5. CASE r \notin Refused(n, s)
  <2>1. \E q \in handled : key[q] = key[r]
    BY <1>5
  <2>2. (CHOOSE q \in handled : key[q] = key[r]) = r
    BY <1>2, <2>1
  <2> QED
    BY <2>1, <2>2, <1>3, <1>5 DEF key
<1> QED
  BY <1>4, <1>5

\* Nothing else is touched.
LEMMA AppliedElsewhere ==
  ASSUME NEW n \in SC, NEW s, NEW k \in Keys, \A r \in Slot : k # SlotKey(n, s.app)[r]
  PROVE  Applied(n, s)[k] = obj[k]
  BY DEF Applied

-----------------------------------------------------------------------------
(* The inductive invariant. *)

\* A SecurityConfig owns nothing but what has the name of one of its slots, for
\* the Application it refers to or has once referred to.
OwnsSlots ==
  \A n \in SC, k \in Keys : OwnedBy(obj[k], n) =>
    \E a \in App, r \in Slot : k = SlotKey(n, a)[r]

\* A slot that is to be filled holds the SecurityConfig's own object with the
\* desired content, and any other slot nothing of its own.
Filled(n, s, o, r) ==
  LET old  == o[SlotKey(n, s.app)[r]]
      want == Desired(s, o)[r]
  IN  IF want = Nil THEN ~OwnedBy(old, n) ELSE OwnedBy(old, n) /\ old.val = want

\* The status tells the truth about the objects.
TrueFields(n, s, o, st) ==
  (\A k \in Gates(s) : o[k] # Absent) => st.field = Fields(n, s, o, st.field)

TruePending(s, o, st) ==
  st.phase = "Pending" => \E k \in Gates(s) : o[k] = Absent \/ ~o[k].sync

Resting(n, s, o, st) ==
  /\ ResolveSecurityConfig(s, o)
  /\ \A r \in Slot : Filled(n, s, o, r)
  /\ TrueFields(n, s, o, st)
  /\ TruePending(s, o, st)

IInv ==
  /\ TypeOK
  /\ UsersValues(obj)
  /\ OwnsSlots
  /\ \A n \in SC : AtRest(n) => Resting(n, spec[n], obj, status[n])

\* A client object that is waited for is one of the SecurityConfig's own, or a
\* user's, whose events are handled.
LEMMA GateKeys ==
  ASSUME NEW n \in SC, NEW s \in Specs[n], NEW o, ResolveSecurityConfig(s, o),
         NEW k \in Gates(s)
  PROVE  /\ k \in Clients
         /\ \/ \E r \in Slot : k = SlotKey(n, s.app)[r] /\ Wanted(s, r)
            \/ References(s, k)
<1>1. /\ s.app \in App
      /\ s.maskinporten \in ClientSpec /\ s.entraid \in ClientSpec
  BY Referred DEF SpecType
<1>2. /\ {ObjectKey(kind, s.app, "none") : kind \in ClientKind} \subseteq Clients
      /\ UserClients \subseteq Clients
  BY <1>1 DEF Clients
<1>3. CASE TokenX(s) /\ k = ObjectKey("Jwker", s.app, "none")
  <2>1. k = SlotKey(n, s.app)["jwker"] /\ Wanted(s, "jwker") /\ "jwker" \in Slot
    BY <1>3, SlotKeyOf DEF Wanted, Slot, ObjectKey
  <2> QED
    BY <1>2, <1>3, <2>1 DEF ClientKind
<1>4. CASE k \in ClientGate(s.maskinporten, "MaskinportenClient", s.app)
  <2> DEFINE c == s.maskinporten
  <2>1. c.enabled /\ ~HasSecret(c) /\ k = ClientKey(c, "MaskinportenClient", s.app)
    BY <1>4 DEF ClientGate
  <2>2. DetermineConfigType(c) \in {"InlineClient", "None", "ClientRef"}
    BY <1>1, <2>1, ConfigType
       DEF ConfigTypes, HasSecret, ResolveSecurityConfig, ResolveMaskinportenConfig
  <2>3. CASE DetermineConfigType(c) = "ClientRef"
    BY <1>1, <1>2, <2>1, <2>3, ConfigType, Referred DEF ClientKey
  <2>4. CASE DetermineConfigType(c) # "ClientRef"
    <3>1. k = ObjectKey("MaskinportenClient", s.app, "none")
      BY <2>1, <2>4 DEF ClientKey
    <3>2. k = SlotKey(n, s.app)["maskinportenClient"]
      BY <3>1, SlotKeyOf DEF ObjectKey
    <3>3. Wanted(s, "maskinportenClient") /\ "maskinportenClient" \in Slot
      BY <2>1, <2>2, <2>4 DEF Wanted, HasClient, Slot
    <3> QED
      BY <1>2, <3>1, <3>2, <3>3 DEF ClientKind
  <2> QED
    BY <2>3, <2>4
<1>5. CASE k \in ClientGate(s.entraid, "AzureAdApplication", s.app)
  <2> DEFINE c == s.entraid
  <2>1. c.enabled /\ ~HasSecret(c) /\ k = ClientKey(c, "AzureAdApplication", s.app)
    BY <1>5 DEF ClientGate
  <2>2. DetermineConfigType(c) \in {"InlineClient", "None", "ClientRef"}
    BY <1>1, <2>1, ConfigType
       DEF ConfigTypes, HasSecret, ResolveSecurityConfig, ResolveEntraIdConfig
  <2>3. CASE DetermineConfigType(c) = "ClientRef"
    BY <1>1, <1>2, <2>1, <2>3, ConfigType, Referred DEF ClientKey
  <2>4. CASE DetermineConfigType(c) # "ClientRef"
    <3>1. k = ObjectKey("AzureAdApplication", s.app, "none")
      BY <2>1, <2>4 DEF ClientKey
    <3>2. k = SlotKey(n, s.app)["azureAdApplication"]
      BY <3>1, SlotKeyOf DEF ObjectKey
    <3>3. Wanted(s, "azureAdApplication") /\ "azureAdApplication" \in Slot
      BY <2>1, <2>2, <2>4 DEF Wanted, HasClient, Slot
    <3> QED
      BY <1>2, <3>1, <3>2, <3>3 DEF ClientKind
  <2> QED
    BY <2>3, <2>4
<1> QED
  BY <1>3, <1>4, <1>5 DEF Gates

\* What a status says of the clients and audiences depends on the client objects
\* that are waited for and on what the spec refers to.
LEMMA FieldsDepend ==
  ASSUME NEW n \in SC, NEW s \in Specs[n], NEW o, NEW p, NEW old,
         \A k \in Gates(s) : o[k] = p[k],
         Audience(s.idporten, o) = Audience(s.idporten, p),
         Audience(s.ansattporten, o) = Audience(s.ansattporten, p)
  PROVE  Fields(n, s, o, old) = Fields(n, s, p, old)
<1>1. TokenX(s) => LET k == ObjectKey("Jwker", s.app, "none") IN o[k] = p[k]
  BY DEF Gates
<1>2. ClientField(n, s.maskinporten, "MaskinportenClient", "maskinporten", s.app, o,
                  old["maskinporten"])
        = ClientField(n, s.maskinporten, "MaskinportenClient", "maskinporten", s.app, p,
                      old["maskinporten"])
  BY DEF Gates, ClientGate, ClientField
<1>3. ClientField(n, s.entraid, "AzureAdApplication", "entraid", s.app, o, old["entraid"])
        = ClientField(n, s.entraid, "AzureAdApplication", "entraid", s.app, p, old["entraid"])
  BY DEF Gates, ClientGate, ClientField
<1> QED
  BY <1>1, <1>2, <1>3 DEF Fields

\* To determine the state again changes nothing.
LEMMA FieldsIdempotent ==
  ASSUME NEW n, NEW s, NEW o, NEW old
  PROVE  Fields(n, s, o, Fields(n, s, o, old)) = Fields(n, s, o, old)
  BY DEF Fields, ClientField

\* A SecurityConfig at rest stays so when only objects change that it neither
\* owns nor refers to.
LEMMA RestingKept ==
  ASSUME NEW n \in SC, NEW s \in Specs[n], NEW o \in Objects, NEW p \in Objects, NEW st,
         UsersValues(o), Resting(n, s, o, st),
         \A k \in Keys : o[k] # p[k] =>
           ~OwnedBy(o[k], n) /\ ~OwnedBy(p[k], n) /\ ~References(s, k)
  PROVE  Resting(n, s, p, st)
<1>1. /\ ResolveSecurityConfig(s, o) /\ ResolveSecurityConfig(s, p)
      /\ Desired(s, o) = Desired(s, p)
      /\ Audience(s.idporten, o) = Audience(s.idporten, p)
      /\ Audience(s.ansattporten, o) = Audience(s.ansattporten, p)
  BY DependsOnReferred DEF Resting
<1>2. s.app \in App
  BY Referred DEF SpecType
<1>3. ASSUME NEW r \in Slot
      PROVE  Filled(n, s, p, r)
  <2>1. SlotKey(n, s.app)[r] \in Keys
    BY <1>2, SlotKeys
  <2> QED
    BY <1>1, <2>1 DEF Resting, Filled
<1>4. ASSUME NEW k \in Gates(s)
      PROVE  o[k] = p[k]
  <2>1. k \in Keys
    BY <1>1, GateKeys, ClientSecrets
  <2>2. CASE References(s, k)
    BY <2>1, <2>2
  <2>3. CASE \E r \in Slot : k = SlotKey(n, s.app)[r] /\ Wanted(s, r)
    <3>1. PICK r \in Slot : k = SlotKey(n, s.app)[r] /\ Wanted(s, r)
      BY <2>3
    <3>2. Desired(s, o)[r] # Nil
      BY <1>1, <3>1, DesiredContents
    <3>3. OwnedBy(o[k], n)
      BY <3>1, <3>2 DEF Resting, Filled
    <3> QED
      BY <2>1, <3>3
  <2> QED
    BY <1>1, <2>2, <2>3, GateKeys
<1>5. TrueFields(n, s, p, st)
  <2>1. Fields(n, s, o, st.field) = Fields(n, s, p, st.field)
    BY <1>1, <1>4, FieldsDepend
  <2> QED
    BY <1>4, <2>1 DEF Resting, TrueFields
<1>6. TruePending(s, p, st)
  BY <1>4 DEF Resting, TruePending
<1> QED
  BY <1>1, <1>3, <1>5, <1>6 DEF Resting

\* An object that a pass writes is one of a slot, and the SecurityConfig's own
\* before or after.
LEMMA AppliedChanges ==
  ASSUME NEW n \in SC, NEW s \in Specs[n], obj \in Objects, NEW k \in Keys,
         Applied(n, s)[k] # obj[k]
  PROVE  /\ OwnedBy(obj[k], n) \/ OwnedBy(Applied(n, s)[k], n)
         /\ \E r \in Slot : k = SlotKey(n, s.app)[r]
<1>1. s.app \in App
  BY Referred DEF SpecType
<1>2. PICK r \in Slot : k = SlotKey(n, s.app)[r]
  BY AppliedElsewhere
<1>3. /\ r \notin Refused(n, s)
      /\ Applied(n, s)[k] = ReconcileControllerResource(n, obj[k], Desired(s, obj)[r])
  BY <1>1, <1>2, AppliedSlot
<1>4. Desired(s, obj)[r] # Nil /\ obj[k] # Absent => obj[k].owner = n
  BY <1>2, <1>3 DEF Refused
<1>5. CASE Desired(s, obj)[r] = Nil
  BY <1>2, <1>3, <1>5 DEF ReconcileControllerResource
<1>6. CASE Desired(s, obj)[r] # Nil /\ obj[k] # Absent
  BY <1>2, <1>4, <1>6 DEF OwnedBy
<1>7. CASE Desired(s, obj)[r] # Nil /\ obj[k] = Absent
  <2> DEFINE new == [owner |-> n, val |-> Desired(s, obj)[r], sync |-> FALSE]
  <2>1. Applied(n, s)[k] = new /\ new.owner = n
    BY <1>3, <1>7 DEF ReconcileControllerResource
  <2> HIDE DEF new
  <2>2. new # Absent
    BY <1>3, <1>7, <2>1
  <2> QED
    BY <1>2, <2>1, <2>2 DEF OwnedBy
<1> QED
  BY <1>2, <1>5, <1>6, <1>7

\* A pass keeps the objects well-typed, leaves users' objects alone and takes
\* nobody's ownership.
LEMMA AppliedTyped ==
  ASSUME NEW n \in SC, NEW s \in Specs[n], obj \in Objects, UsersValues(obj),
         ResolveSecurityConfig(s, obj)
  PROVE  /\ Applied(n, s) \in Objects
         /\ UsersValues(Applied(n, s))
         /\ \A k \in Keys : Applied(n, s)[k] # Absent =>
              \/ Applied(n, s)[k].owner = n /\ \E r \in Slot : k = SlotKey(n, s.app)[r]
              \/ obj[k] # Absent /\ Applied(n, s)[k].owner = obj[k].owner
<1>1. s.app \in App
  BY Referred DEF SpecType
<1>2. ASSUME NEW k \in Keys
      PROVE  /\ Applied(n, s)[k] \in Object \cup {Absent}
             /\ Applied(n, s)[k] # Absent =>
                  \/ Applied(n, s)[k].owner = n /\ \E r \in Slot : k = SlotKey(n, s.app)[r]
                  \/ obj[k] # Absent /\ Applied(n, s)[k].owner = obj[k].owner
  <2>1. obj[k] \in Object \cup {Absent}
    BY DEF Objects
  <2>2. CASE Applied(n, s)[k] = obj[k]
    BY <2>1, <2>2
  <2>3. CASE Applied(n, s)[k] # obj[k]
    <3>1. PICK r \in Slot : k = SlotKey(n, s.app)[r]
      BY <2>3, AppliedChanges
    <3> DEFINE content == Desired(s, obj)[r]
    <3>2. Applied(n, s)[k] = ReconcileControllerResource(n, obj[k], content)
      BY <1>1, <2>3, <3>1, AppliedSlot
    <3>3. content \in Contents \cup {Nil}
      BY DesiredContents
    <3> HIDE DEF content
    <3>4. CASE content = Nil
      BY <2>1, <3>2, <3>4 DEF ReconcileControllerResource
    <3>5. CASE content # Nil /\ obj[k] = Absent
      <4> DEFINE new == [owner |-> n, val |-> content, sync |-> FALSE]
      <4>1. new \in Object /\ new.owner = n
        BY <3>3, <3>5 DEF Object, Contents
      <4>2. Applied(n, s)[k] = new
        BY <3>2, <3>5 DEF ReconcileControllerResource
      <4> HIDE DEF new
      <4> QED
        BY <4>1, <4>2, <3>1
    <3>6. CASE content # Nil /\ obj[k] # Absent
      <4> DEFINE new == [obj[k] EXCEPT !.val = content]
      <4>1. new \in Object /\ new.owner = obj[k].owner
        BY <2>1, <3>3, <3>6 DEF Object, Contents
      <4>2. Applied(n, s)[k] = new
        BY <3>2, <3>6 DEF ReconcileControllerResource
      <4> HIDE DEF new
      <4> QED
        BY <4>1, <4>2, <3>6
    <3> QED
      BY <3>4, <3>5, <3>6
  <2> QED
    BY <2>2, <2>3
<1>3. Applied(n, s) \in Objects
  <2>1. Applied(n, s) = [k \in Keys |-> Applied(n, s)[k]]
    BY DEF Applied
  <2> QED
    BY <1>2, <2>1 DEF Objects
<1>4. UsersValues(Applied(n, s))
  <2>1. ASSUME NEW k \in UserKeys
        PROVE  Applied(n, s)[k] = obj[k]
    <3>1. k \in Keys
      BY DEF Keys
    <3> QED
      BY <1>1, <3>1, SlotKeys, AppliedElsewhere
  <2> QED
    BY <2>1 DEF UsersValues
<1> QED
  BY <1>2, <1>3, <1>4

LEMMA FiniteSlot == IsFiniteSet(Slot)
<1> DEFINE S1 == {"jwker"} \cup {"tokenxEgress"}
           S2 == {"maskinportenClient"} \cup {"maskinportenSecret"}
           S3 == {"maskinportenServiceEntry"} \cup {"azureAdApplication"}
           S4 == {"azureAdSecret"} \cup {"azureAdServiceEntry"}
           S5 == {"idportenServiceEntry"} \cup {"ansattportenServiceEntry"}
           S6 == {"opaConfigMap"} \cup {"opaEnvoyFilter"}
<1>1. \A x, y : IsFiniteSet({x} \cup {y})
  <2> TAKE x, y
  <2>1. IsFiniteSet({x})
    BY FS_Singleton
  <2> QED
    BY <2>1, FS_AddElement
<1>2. /\ IsFiniteSet(S1) /\ IsFiniteSet(S2) /\ IsFiniteSet(S3)
      /\ IsFiniteSet(S4) /\ IsFiniteSet(S5) /\ IsFiniteSet(S6)
  BY <1>1
<1>3. Slot = ((S1 \cup S2) \cup (S3 \cup S4)) \cup (S5 \cup S6)
  BY DEF Slot
<1> HIDE DEF S1, S2, S3, S4, S5, S6
<1>4. IsFiniteSet(S1 \cup S2) /\ IsFiniteSet(S3 \cup S4) /\ IsFiniteSet(S5 \cup S6)
  BY <1>2, FS_Union
<1>5. IsFiniteSet((S1 \cup S2) \cup (S3 \cup S4))
  BY <1>4, FS_Union
<1>6. IsFiniteSet(((S1 \cup S2) \cup (S3 \cup S4)) \cup (S5 \cup S6))
  BY <1>4, <1>5, FS_Union
<1> QED
  BY <1>3, <1>6

\* The comparison of the number of descendants with that of the resources never
\* makes a SecurityConfig wait.
LEMMA DescendantsCounted ==
  ASSUME NEW n, NEW s
  PROVE  Cardinality(Descendants(n, s)) = CountNonNilResources(s)
<1> DEFINE S == {q \in Slot : Desired(s, obj)[q] # Nil}
           key == SlotKey(n, s.app)
           T == {key[r] : r \in S}
           f == [r \in S |-> key[r]]
<1>1. IsFiniteSet(S)
  BY FiniteSlot, FS_Subset
<1>2. \A r, q \in S : key[r] = key[q] => r = q
  BY SlotKeyInjective
<1>3. Descendants(n, s) = T /\ CountNonNilResources(s) = Cardinality(S)
  BY DEF Descendants, CountNonNilResources
<1> HIDE DEF S, key
<1>4. f \in Bijection(S, T)
  BY <1>2 DEF Bijection, Injection, Surjection, IsInjective
<1>5. Cardinality(T) = Cardinality(S)
  BY <1>1, <1>4, FS_Bijection DEF ExistsBijection
<1> QED
  BY <1>3, <1>5

\* What the status manager puts into a status exists.
LEMMA FieldsTyped ==
  ASSUME NEW n \in SC, NEW s \in Specs[n], NEW o \in Objects, UsersValues(o),
         ResolveSecurityConfig(s, o), NEW old \in [Capability -> Keys \cup Value \cup {Nil}]
  PROVE  Fields(n, s, o, old) \in [Capability -> Keys \cup Value \cup {Nil}]
<1> DEFINE T == Keys \cup Value \cup {Nil}
<1>1. /\ s.app \in App
      /\ s.maskinporten \in ClientSpec /\ s.entraid \in ClientSpec
      /\ s.idporten \in AudienceSpec /\ s.ansattporten \in AudienceSpec
  BY Referred DEF SpecType
<1>2. \A c \in Capability : old[c] \in T
  OBVIOUS
<1>3. \A k \in Gates(s) : ClientSecret(k) \in T
  BY GateKeys, ClientSecrets
<1>4. /\ ObjectKey("Secret", n, "maskinporten") \in T
      /\ ObjectKey("Secret", n, "entraid") \in T
  <2>1. /\ ObjectKey("Secret", n, "maskinporten") = SlotKey(n, s.app)["maskinportenSecret"]
        /\ ObjectKey("Secret", n, "entraid") = SlotKey(n, s.app)["azureAdSecret"]
    BY SlotKeyOf DEF ObjectKey
  <2> QED
    BY <1>1, <2>1, SlotKeys DEF Slot
<1>5. ASSUME NEW a \in {s.idporten, s.ansattporten}
      PROVE  Audience(a, o) \in T
  <2>1. a.secret \in Ext => Content(o, "Secret", a.secret) \in Value \cup {Nil}
    BY Referred DEF Content, UsersValues, SecretKey
  <2>2. a.configMap \in Ext => Content(o, "ConfigMap", a.configMap) \in Value \cup {Nil}
    BY Referred DEF Content, UsersValues, ConfigMapKey
  <2>3. a \in AudienceSpec
    BY <1>1
  <2> QED
    BY <2>1, <2>2, <2>3, AudienceOf
<1>6. ClientField(n, s.maskinporten, "MaskinportenClient", "maskinporten", s.app, o,
                  old["maskinporten"]) \in T
  <2>1. old["maskinporten"] \in T
    BY <1>2 DEF Capability
  <2>2. s.maskinporten.enabled /\ ~HasSecret(s.maskinporten) =>
          ClientSecret(ClientKey(s.maskinporten, "MaskinportenClient", s.app)) \in T
    BY <1>3 DEF Gates, ClientGate
  <2> QED
    BY <1>4, <2>1, <2>2 DEF ClientField
<1>7. ClientField(n, s.entraid, "AzureAdApplication", "entraid", s.app, o, old["entraid"]) \in T
  <2>1. old["entraid"] \in T
    BY <1>2 DEF Capability
  <2>2. s.entraid.enabled /\ ~HasSecret(s.entraid) =>
          ClientSecret(ClientKey(s.entraid, "AzureAdApplication", s.app)) \in T
    BY <1>3 DEF Gates, ClientGate
  <2> QED
    BY <1>4, <2>1, <2>2 DEF ClientField
<1>8. TokenX(s) => ClientSecret(ObjectKey("Jwker", s.app, "none")) \in T
  BY <1>3 DEF Gates
<1>9. /\ old["tokenx"] \in T /\ old["idporten"] \in T /\ old["ansattporten"] \in T
      /\ Audience(s.idporten, o) \in T /\ Audience(s.ansattporten, o) \in T
  BY <1>2, <1>5 DEF Capability
<1> HIDE DEF T
<1>10. Nil \in T
  BY DEF T
<1>11. Fields(n, s, o, old) \in [Capability -> T]
  BY <1>6, <1>7, <1>8, <1>9, <1>10 DEF Fields, Capability
<1> QED
  BY <1>11 DEF T

-----------------------------------------------------------------------------
(* The invariant holds at first, and every step preserves it. *)

LEMMA InitIInv == Init => IInv
<1> SUFFICES ASSUME Init PROVE IInv
  OBVIOUS
<1> DEFINE v == CHOOSE w \in Value : TRUE
<1>1. v \in Value
  BY DesiredAssumption
<1> HIDE DEF v
<1>2. obj = [k \in Keys |->
              IF k \in UserKeys THEN UsersObject(v)
              ELSE IF k \in UserClients THEN [UsersObject(v) EXCEPT !.sync = TRUE]
              ELSE IF \E c \in UserClients : k = ClientSecret(c)
                THEN [owner |-> CHOOSE c \in UserClients : k = ClientSecret(c),
                      val |-> Fixed, sync |-> FALSE]
              ELSE Absent]
  BY DEF Init, v
<1>3. ASSUME NEW k \in Keys
      PROVE  /\ obj[k] \in Object \cup {Absent}
             /\ k \in UserKeys => obj[k] \in Object /\ obj[k].val = v
             /\ obj[k] # Absent => obj[k].owner \in {Nil} \cup Clients
  <2>1. CASE k \in UserKeys
    <3> DEFINE new == UsersObject(v)
    <3>1. new \in Object /\ new.val = v /\ new.owner = Nil
      BY <1>1 DEF UsersObject, Object
    <3>2. obj[k] = new
      BY <1>2, <2>1
    <3> HIDE DEF new
    <3> QED
      BY <3>1, <3>2
  <2>2. CASE k \notin UserKeys /\ k \in UserClients
    <3> DEFINE new == [UsersObject(v) EXCEPT !.sync = TRUE]
    <3>1. new \in Object /\ new.val = v /\ new.owner = Nil
      BY <1>1 DEF UsersObject, Object
    <3>2. obj[k] = new
      BY <1>2, <2>2
    <3> HIDE DEF new
    <3> QED
      BY <3>1, <3>2, <2>2
  <2>3. CASE k \notin UserKeys /\ k \notin UserClients /\ \E c \in UserClients : k = ClientSecret(c)
    <3> DEFINE c0 == CHOOSE c \in UserClients : k = ClientSecret(c)
               new == [owner |-> c0, val |-> Fixed, sync |-> FALSE]
    <3>1. c0 \in Clients
      BY <2>3 DEF Clients
    <3> HIDE DEF c0
    <3>2. new \in Object /\ new.owner = c0
      BY <3>1 DEF Object
    <3>3. obj[k] = new
      BY <1>2, <2>3 DEF c0
    <3> HIDE DEF new
    <3> QED
      BY <3>1, <3>2, <3>3, <2>3
  <2>4. CASE k \notin UserKeys /\ k \notin UserClients
               /\ ~ \E c \in UserClients : k = ClientSecret(c)
    BY <1>2, <2>4
  <2> QED
    BY <2>1, <2>2, <2>3, <2>4
<1>4. TypeOK
  <2>1. obj \in [Keys -> Object \cup {Absent}]
    BY <1>2, <1>3
  <2>2. NoStatus \in Status
    BY DEF NoStatus, Status
  <2> QED
    BY <2>1, <2>2, DesiredAssumption DEF Init, TypeOK
<1>5. UsersValues(obj)
  BY <1>1, <1>3 DEF UsersValues, Keys
<1>6. OwnsSlots
  <2>1. ASSUME NEW n \in SC, NEW k \in Keys, OwnedBy(obj[k], n)
        PROVE  FALSE
    BY <1>3, <2>1, DesiredAssumption DEF OwnedBy
  <2> QED
    BY <2>1 DEF OwnsSlots
<1>7. ~ \E n \in SC : AtRest(n)
  BY DEF Init, AtRest
<1> QED
  BY <1>4, <1>5, <1>6, <1>7 DEF IInv

\* Whom no event wakes, nothing has changed for.
LEMMA Unwoken ==
  ASSUME IInv, NEW after \in Objects, NEW m \in SC,
         AtRest(m), m \notin Woken(obj, after)
  PROVE  Resting(m, spec[m], after, status[m])
<1>1. spec[m] \in Specs[m] /\ spec[m] # NoSC
  BY DEF IInv, TypeOK, AtRest
<1>2. \A k \in Keys : obj[k] # after[k] =>
        ~OwnedBy(obj[k], m) /\ ~OwnedBy(after[k], m) /\ ~References(spec[m], k)
  BY <1>1 DEF Woken
<1>3. obj \in Objects /\ UsersValues(obj) /\ Resting(m, spec[m], obj, status[m])
  BY DEF IInv, TypeOK, Objects
<1> QED
  BY <1>1, <1>2, <1>3, RestingKept

\* A change of the objects by somebody else.
LEMMA ChangeIInv ==
  ASSUME IInv, NEW after \in Objects, UsersValues(after), Change(after),
         spec' = spec, status' = status, changes' \in 0..MaxChanges,
         \A n \in SC, k \in Keys : OwnedBy(after[k], n) => OwnedBy(obj[k], n)
  PROVE  IInv'
<1>1. obj' = after /\ queued' = queued \cup Woken(obj, after)
  BY DEF Change
<1>2. TypeOK'
  BY <1>1 DEF IInv, TypeOK, Objects, Woken
<1>3. UsersValues(obj)'
  BY <1>1 DEF UsersValues
<1>4. OwnsSlots'
  BY <1>1 DEF IInv, OwnsSlots
<1>5. ASSUME NEW m \in SC, AtRest(m)'
      PROVE  Resting(m, spec[m], obj, status[m])'
  <2>1. AtRest(m) /\ m \notin Woken(obj, after)
    BY <1>1, <1>5 DEF AtRest
  <2>2. Resting(m, spec[m], after, status[m])
    BY <2>1, Unwoken
  <2> QED
    BY <1>1, <2>2
<1> QED
  BY <1>2, <1>3, <1>4, <1>5 DEF IInv

\* A pass that changes nothing has found everything in its place.
LEMMA AppliedNothing ==
  ASSUME NEW n \in SC, NEW s \in Specs[n], obj \in Objects, Refused(n, s) = {},
         UsersValues(obj), ResolveSecurityConfig(s, obj), NEW r \in Slot
  PROVE  Applied(n, s) = obj => Filled(n, s, obj, r)
<1> SUFFICES ASSUME Applied(n, s) = obj PROVE Filled(n, s, obj, r)
  OBVIOUS
<1> DEFINE old == obj[SlotKey(n, s.app)[r]]
           want == Desired(s, obj)[r]
<1>1. s.app \in App
  BY Referred DEF SpecType
<1>2. old \in Object \cup {Absent}
  BY <1>1, SlotKeys DEF Objects
<1>3. ReconcileControllerResource(n, old, want) = old
  BY <1>1, AppliedSlot
<1>4. want # Nil /\ old # Absent => old.owner = n
  BY DEF Refused
<1>5. want \in Contents \cup {Nil}
  BY DesiredContents
<1>6. Filled(n, s, obj, r) <=>
        IF want = Nil THEN ~OwnedBy(old, n) ELSE OwnedBy(old, n) /\ old.val = want
  BY DEF Filled
<1> HIDE DEF old, want
<1>7. CASE want = Nil
  BY <1>3, <1>6, <1>7 DEF ReconcileControllerResource, OwnedBy
<1>8. CASE want # Nil /\ old = Absent
  <2> DEFINE new == [owner |-> n, val |-> want, sync |-> FALSE]
  <2>1. new \in Object
    BY <1>5, <1>8 DEF Object, Contents
  <2>2. new = Absent
    BY <1>3, <1>8 DEF ReconcileControllerResource
  <2> HIDE DEF new
  <2> QED
    BY <2>1, <2>2, DesiredAssumption
<1>9. CASE want # Nil /\ old # Absent
  <2> DEFINE new == [old EXCEPT !.val = want]
  <2>1. new.val = want
    BY <1>2, <1>9 DEF Object
  <2>2. new = old
    BY <1>3, <1>9 DEF ReconcileControllerResource
  <2> HIDE DEF new
  <2> QED
    BY <1>4, <1>6, <1>9, <2>1, <2>2 DEF OwnedBy
<1> QED
  BY <1>7, <1>8, <1>9

\* A pass does not change what it depends on.
LEMMA SlotsNotReferred ==
  ASSUME NEW n \in SC, NEW s \in Specs[n], NEW a \in App, NEW r \in Slot
  PROVE  ~References(s, SlotKey(n, a)[r])
<1> DEFINE k == SlotKey(n, a)[r]
<1>1. /\ s.maskinporten.clientRef \notin App /\ s.entraid.clientRef \notin App
  BY Referred, DesiredAssumption DEF SpecType, ClientSpec
<1>2. \/ k[1] \in ClientKind /\ k[2] = a
      \/ k[1] \notin ClientKind \cup {"Application"} /\ k[3] # "none"
  BY SlotKeyOf DEF Slot, ClientKind
<1>3. ASSUME NEW e PROVE k # SecretKey(e) /\ k # ConfigMapKey(e)
  BY <1>2 DEF SecretKey, ConfigMapKey, ObjectKey, ClientKind
<1>4. k # ObjectKey("Application", s.app, "none")
  BY <1>2 DEF ObjectKey, ClientKind
<1>5. /\ k # ObjectKey("MaskinportenClient", s.maskinporten.clientRef, "none")
      /\ k # ObjectKey("AzureAdApplication", s.entraid.clientRef, "none")
  BY <1>1, <1>2 DEF ObjectKey, ClientKind
<1> HIDE DEF k
<1>6. ~HandleSecretEvent(s, k) /\ ~HandleConfigMapEvent(s, k)
  BY <1>3 DEF HandleSecretEvent, HandleConfigMapEvent, ReferencesSecretRef, SecretKey, ConfigMapKey
<1> QED
  BY <1>4, <1>5, <1>6 DEF References, HandleSkiperatorApplicationEvent,
     HandleMaskinportenClientEvent, HandleAzureAdApplicationEvent, k

LEMMA AppliedResolves ==
  ASSUME NEW n \in SC, NEW s \in Specs[n], obj \in Objects, ResolveSecurityConfig(s, obj)
  PROVE  ResolveSecurityConfig(s, Applied(n, s))
<1>1. s.app \in App
  BY Referred DEF SpecType
<1>2. ASSUME NEW k \in Keys, References(s, k)
      PROVE  obj[k] = Applied(n, s)[k]
  BY <1>1, <1>2, AppliedChanges, SlotsNotReferred
<1> QED
  BY <1>2, DependsOnReferred

LEMMA ReconcileIInv ==
  ASSUME IInv, NEW n \in SC, Reconcile(n)
  PROVE  IInv'
<1> DEFINE s == spec[n]
           after == Applied(n, s)
           fresh == [phase |-> IF \A k \in Gates(s) : after[k].sync THEN "Ready" ELSE "Pending",
                     field |-> Fields(n, s, after, status[n].field)]
<1>1. /\ s \in Specs[n]
      /\ obj \in Objects /\ UsersValues(obj) /\ ResolveSecurityConfig(s, obj)
  BY DEF IInv, TypeOK, Objects, Reconcile
<1>2. /\ after \in Objects /\ UsersValues(after)
      /\ \A k \in Keys : after[k] # Absent =>
           \/ after[k].owner = n /\ \E r \in Slot : k = SlotKey(n, s.app)[r]
           \/ obj[k] # Absent /\ after[k].owner = obj[k].owner
      /\ ResolveSecurityConfig(s, after)
  BY <1>1, AppliedTyped, AppliedResolves
<1>3. /\ obj' = after /\ spec' = spec /\ changes' = changes
      /\ queued' = (IF Refused(n, s) # {} THEN queued ELSE queued \ {n}) \cup Woken(obj, after)
      /\ n \in queued
  BY DEF Reconcile
<1>4. \/ status' = [status EXCEPT ![n].phase = "Failed"] /\ Refused(n, s) # {}
      \/ Refused(n, s) = {} /\ status' = status /\ \E k \in Gates(s) : after[k] = Absent
      \/ /\ Refused(n, s) = {} /\ \A k \in Gates(s) : after[k] # Absent
         /\ status' = [status EXCEPT ![n] = fresh]
  BY DescendantsCounted DEF Reconcile
<1>5. status \in [SC -> Status]
  BY DEF IInv, TypeOK
<1>6. n \notin Woken(obj, after) => after = obj
  <2>1. DOMAIN after = Keys /\ after = [k \in Keys |-> after[k]] /\ obj = [k \in Keys |-> obj[k]]
    BY <1>1, <1>2 DEF Objects
  <2>2. ASSUME NEW k \in Keys, after[k] # obj[k]
        PROVE  n \in Woken(obj, after)
    <3>1. OwnedBy(obj[k], n) \/ OwnedBy(after[k], n)
      BY <1>1, <2>2, AppliedChanges
    <3> QED
      BY <2>2, <3>1 DEF Woken
  <2> HIDE DEF after
  <2> QED
    BY <2>1, <2>2
<1> HIDE DEF after
<1>7. fresh \in Status
  <2>1. status[n].field \in [Capability -> Keys \cup Value \cup {Nil}]
    BY <1>5 DEF Status
  <2>2. Fields(n, s, after, status[n].field) \in [Capability -> Keys \cup Value \cup {Nil}]
    BY <1>1, <1>2, <2>1, FieldsTyped
  <2> QED
    BY <2>2 DEF Status
<1>8. fresh.field = Fields(n, s, after, status[n].field)
  OBVIOUS
<1>9. fresh.phase = "Pending" => \E k \in Gates(s) : ~after[k].sync
  OBVIOUS
<1> HIDE DEF fresh
<1>10. status' \in [SC -> Status] /\ \A m \in SC \ {n} : status'[m] = status[m]
  <2>1. CASE status' = [status EXCEPT ![n].phase = "Failed"]
    BY <1>5, <2>1 DEF Status
  <2>2. CASE status' = status
    BY <1>5, <2>2
  <2>3. CASE status' = [status EXCEPT ![n] = fresh]
    BY <1>5, <1>7, <2>3
  <2> QED
    BY <1>4, <2>1, <2>2, <2>3
<1>11. TypeOK'
  BY <1>2, <1>3, <1>10 DEF IInv, TypeOK, Objects, Woken
<1>12. UsersValues(obj)'
  BY <1>2, <1>3 DEF UsersValues
<1>13. OwnsSlots'
  <2>1. s.app \in App
    BY <1>1, Referred DEF SpecType
  <2>2. ASSUME NEW m \in SC, NEW k \in Keys, OwnedBy(after[k], m)
        PROVE  \E a \in App, r \in Slot : k = SlotKey(m, a)[r]
    <3>1. CASE after[k].owner = n /\ \E r \in Slot : k = SlotKey(n, s.app)[r]
      BY <2>1, <2>2, <3>1 DEF OwnedBy
    <3>2. CASE obj[k] # Absent /\ after[k].owner = obj[k].owner
      BY <2>2, <3>2 DEF IInv, OwnsSlots, OwnedBy
    <3> QED
      BY <1>2, <2>2, <3>1, <3>2 DEF OwnedBy
  <2> QED
    BY <1>3, <2>2 DEF OwnsSlots
<1>14. ASSUME NEW m \in SC, AtRest(m)'
       PROVE  Resting(m, spec[m], obj, status[m])'
  <2>1. CASE m # n
    <3>1. AtRest(m) /\ m \notin Woken(obj, after)
      BY <1>3, <1>14, <2>1 DEF AtRest
    <3>2. Resting(m, spec[m], after, status[m])
      BY <1>2, <3>1, Unwoken
    <3> QED
      BY <1>3, <1>10, <2>1, <3>2
  <2>2. CASE m = n
    <3>1. Refused(n, s) = {} /\ n \notin Woken(obj, after)
      BY <1>3, <1>14, <2>2 DEF AtRest
    <3>2. after = obj
      BY <1>6, <3>1
    <3>3. \A r \in Slot : Filled(n, s, after, r)
      BY <1>1, <3>1, <3>2, AppliedNothing DEF after
    <3>4. TrueFields(n, s, after, status'[n]) /\ TruePending(s, after, status'[n])
      <4>1. CASE \E k \in Gates(s) : after[k] = Absent
        BY <4>1 DEF TrueFields, TruePending
      <4>2. CASE status' = [status EXCEPT ![n] = fresh]
        <5>1. status'[n] = fresh
          BY <1>5, <4>2
        <5>2. fresh.field = Fields(n, s, after, fresh.field)
          BY <1>8, FieldsIdempotent
        <5> QED
          BY <1>9, <5>1, <5>2 DEF TrueFields, TruePending
      <4> QED
        BY <1>4, <3>1, <4>1, <4>2
    <3> QED
      BY <1>2, <1>3, <2>2, <3>3, <3>4 DEF Resting
  <2> QED
    BY <2>1, <2>2
<1> QED
  BY <1>11, <1>12, <1>13, <1>14 DEF IInv

LEMMA ReconcileGoneIInv ==
  ASSUME IInv, NEW n \in SC, ReconcileGone(n)
  PROVE  IInv'
<1>1. TypeOK'
  BY DEF IInv, TypeOK, ReconcileGone
<1>2. UsersValues(obj)' /\ OwnsSlots'
  BY DEF IInv, UsersValues, OwnsSlots, ReconcileGone
<1>3. ASSUME NEW m \in SC, AtRest(m)'
      PROVE  Resting(m, spec[m], obj, status[m])'
  <2>1. AtRest(m)
    BY <1>3 DEF AtRest, ReconcileGone
  <2> QED
    BY <2>1 DEF IInv, ReconcileGone
<1> QED
  BY <1>1, <1>2, <1>3 DEF IInv

LEMMA ResolveFailsIInv ==
  ASSUME IInv, NEW n \in SC, ResolveFails(n)
  PROVE  IInv'
<1>1. TypeOK'
  BY DEF IInv, TypeOK, ResolveFails, Status
<1>2. UsersValues(obj)' /\ OwnsSlots'
  BY DEF IInv, UsersValues, OwnsSlots, ResolveFails
<1>3. ASSUME NEW m \in SC, AtRest(m)'
      PROVE  Resting(m, spec[m], obj, status[m])'
  <2>1. AtRest(m) /\ m # n
    BY <1>3 DEF AtRest, ResolveFails
  <2>2. status'[m] = status[m]
    BY <2>1 DEF IInv, TypeOK, ResolveFails
  <2> QED
    BY <2>1, <2>2 DEF IInv, ResolveFails
<1> QED
  BY <1>1, <1>2, <1>3 DEF IInv

LEMMA UserSubmitsIInv ==
  ASSUME IInv, NEW n \in SC, NEW s \in Specs[n], UserSubmits(n, s)
  PROVE  IInv'
<1>1. TypeOK'
  <2>1. NoStatus \in Status
    BY DEF NoStatus, Status
  <2> QED
    BY <2>1, DesiredAssumption DEF IInv, TypeOK, UserSubmits, Spend
<1>2. UsersValues(obj)' /\ OwnsSlots'
  BY DEF IInv, UsersValues, OwnsSlots, UserSubmits
<1>3. ASSUME NEW m \in SC, AtRest(m)'
      PROVE  Resting(m, spec[m], obj, status[m])'
  <2>1. AtRest(m) /\ m # n
    BY <1>3 DEF IInv, TypeOK, AtRest, UserSubmits
  <2>2. status'[m] = status[m] /\ spec'[m] = spec[m]
    BY <2>1 DEF IInv, TypeOK, UserSubmits
  <2> QED
    BY <2>1, <2>2 DEF IInv, UserSubmits
<1> QED
  BY <1>1, <1>2, <1>3 DEF IInv

LEMMA UserDeletesIInv ==
  ASSUME IInv, NEW n \in SC, UserDeletes(n)
  PROVE  IInv'
<1>1. TypeOK'
  BY DesiredAssumption DEF IInv, TypeOK, UserDeletes, Spend
<1>2. UsersValues(obj)' /\ OwnsSlots'
  BY DEF IInv, UsersValues, OwnsSlots, UserDeletes
<1>3. ASSUME NEW m \in SC, AtRest(m)'
      PROVE  Resting(m, spec[m], obj, status[m])'
  <2>1. AtRest(m) /\ m # n
    BY <1>3 DEF IInv, TypeOK, AtRest, UserDeletes
  <2>2. status'[m] = status[m] /\ spec'[m] = spec[m]
    BY <2>1 DEF IInv, TypeOK, UserDeletes
  <2> QED
    BY <2>1, <2>2 DEF IInv, UserDeletes
<1> QED
  BY <1>1, <1>2, <1>3 DEF IInv

LEMMA UserWritesIInv ==
  ASSUME IInv, NEW k \in UserKeys \cup UserClients,
         NEW o \in {UsersObject(v) : v \in Value} \cup {Absent}, UserWrites(k, o)
  PROVE  IInv'
<1> DEFINE after == [obj EXCEPT ![k] = o]
<1>1. o # Absent => o \in Object /\ o.owner = Nil /\ o.val \in Value
  <2>1. CASE o # Absent
    <3>1. PICK v \in Value : o = UsersObject(v)
      BY <2>1
    <3> DEFINE new == UsersObject(v)
    <3>2. new \in Object /\ new.owner = Nil /\ new.val = v
      BY DEF UsersObject, Object
    <3>3. o = new
      BY <3>1
    <3> HIDE DEF new
    <3> QED
      BY <3>2, <3>3
  <2> QED
    BY <2>1
<1>2. k \in Keys
  BY DEF Keys, Clients
<1>3. obj \in Objects /\ UsersValues(obj)
  BY DEF IInv, TypeOK, Objects
<1>4. after \in Objects
  BY <1>1, <1>2, <1>3 DEF Objects
<1>5. UserKeys \subseteq Keys
  BY DEF Keys
<1>6. UsersValues(after)
  BY <1>1, <1>2, <1>3, <1>5 DEF Objects, UsersValues
<1>7. \A n \in SC, j \in Keys : OwnedBy(after[j], n) => OwnedBy(obj[j], n)
  BY <1>1, <1>2, <1>3, DesiredAssumption DEF Objects, OwnedBy
<1>8. Change(after) /\ spec' = spec /\ status' = status /\ changes' \in 0..MaxChanges
  BY DesiredAssumption DEF IInv, TypeOK, UserWrites, Spend
<1> HIDE DEF after
<1> QED
  BY <1>4, <1>6, <1>7, <1>8, ChangeIInv

LEMMA PublishIInv ==
  ASSUME IInv, NEW k \in Clients, Publish(k)
  PROVE  IInv'
<1> DEFINE secret == obj[ClientSecret(k)]
           owner == IF secret = Absent THEN k ELSE secret.owner
           new == [owner |-> owner, val |-> Fixed, sync |-> FALSE]
           after == [obj EXCEPT ![k].sync = TRUE, ![ClientSecret(k)] = new]
<1>1. /\ k \in Keys /\ k \notin UserKeys /\ ClientSecret(k) \in Keys
      /\ ClientSecret(k) \notin UserKeys /\ ClientSecret(k) # k
  BY ClientSecrets
<1>2. /\ obj \in Objects /\ UsersValues(obj) /\ obj[k] # Absent
      /\ obj[k] \in Object /\ secret \in Object \cup {Absent}
  BY <1>1 DEF IInv, TypeOK, Objects, Publish
<1>3. Change(after) /\ spec' = spec /\ status' = status /\ changes' = changes
  BY DEF Publish
<1>4. changes' \in 0..MaxChanges
  BY <1>3 DEF IInv, TypeOK
<1> HIDE DEF secret
<1>5. /\ secret = Absent => owner = k
      /\ secret # Absent => owner = secret.owner
  OBVIOUS
<1> HIDE DEF owner
<1>6. new \in Object /\ new.owner = owner
  BY <1>2, <1>5 DEF Object
<1> HIDE DEF new
<1> DEFINE synced == [obj[k] EXCEPT !.sync = TRUE]
<1>7. synced \in Object /\ synced.owner = obj[k].owner
  BY <1>2 DEF Object
<1>8. \A j \in Keys : after[j] = IF j = ClientSecret(k) THEN new
                                 ELSE IF j = k THEN synced ELSE obj[j]
  BY <1>1, <1>2 DEF Objects
<1>9. after = [j \in Keys |-> after[j]]
  BY <1>2 DEF Objects
<1> HIDE DEF after, synced
<1>10. after \in Objects
  BY <1>2, <1>6, <1>7, <1>8, <1>9 DEF Objects
<1>11. UserKeys \subseteq Keys
  BY DEF Keys
<1>12. UsersValues(after)
  BY <1>1, <1>2, <1>8, <1>11 DEF UsersValues
<1>13. ASSUME NEW n \in SC, NEW j \in Keys, OwnedBy(after[j], n)
       PROVE  OwnedBy(obj[j], n)
  <2>1. k # n
    <3>1. SC \cap Clients = {}
      BY DesiredAssumption
    <3> QED
      BY <3>1
  <2>2. CASE j = ClientSecret(k)
    BY <1>5, <1>6, <1>8, <1>13, <2>1, <2>2 DEF OwnedBy, secret
  <2>3. CASE j # ClientSecret(k) /\ j = k
    BY <1>2, <1>7, <1>8, <1>13, <2>3 DEF OwnedBy
  <2>4. CASE j # ClientSecret(k) /\ j # k
    BY <1>8, <1>13, <2>4
  <2> QED
    BY <2>2, <2>3, <2>4
<1> QED
  BY <1>3, <1>4, <1>10, <1>12, <1>13, ChangeIInv

LEMMA CollectIInv ==
  ASSUME IInv, NEW k \in Keys, Collect(k)
  PROVE  IInv'
<1> DEFINE after == [obj EXCEPT ![k] = Absent]
<1>1. obj \in Objects /\ UsersValues(obj)
  BY DEF IInv, TypeOK, Objects
<1>2. after \in Objects
  BY <1>1 DEF Objects
<1>3. \A j \in Keys : after[j] = IF j = k THEN Absent ELSE obj[j]
  BY <1>1 DEF Objects
<1>4. Change(after) /\ spec' = spec /\ status' = status /\ changes' = changes
  BY DEF Collect
<1>5. changes' \in 0..MaxChanges
  BY <1>4 DEF IInv, TypeOK
<1> HIDE DEF after
<1>6. UsersValues(after)
  BY <1>1, <1>3 DEF UsersValues, Keys
<1>7. \A n \in SC, j \in Keys : OwnedBy(after[j], n) => OwnedBy(obj[j], n)
  BY <1>3 DEF OwnedBy
<1> QED
  BY <1>2, <1>4, <1>5, <1>6, <1>7, ChangeIInv

\* What users, operators, the garbage collector and the controller do, in any
\* order, preserves the invariant.
THEOREM DesiredInvariance == Spec => []IInv
<1>1. Init => IInv
  BY InitIInv
<1>2. IInv /\ [Next]_vars => IInv'
  <2> SUFFICES ASSUME IInv, [Next]_vars PROVE IInv'
    OBVIOUS
  <2>1. ASSUME NEW n \in SC, ReconcileGone(n) \/ ResolveFails(n) \/ Reconcile(n)
        PROVE  IInv'
    BY <2>1, ReconcileGoneIInv, ResolveFailsIInv, ReconcileIInv
  <2>2. ASSUME NEW n \in SC, UserDeletes(n) \/ \E s \in Specs[n] : UserSubmits(n, s)
        PROVE  IInv'
    BY <2>2, UserDeletesIInv, UserSubmitsIInv
  <2>3. ASSUME NEW k \in UserKeys \cup UserClients,
               NEW o \in {UsersObject(v) : v \in Value} \cup {Absent}, UserWrites(k, o)
        PROVE  IInv'
    BY <2>3, UserWritesIInv
  <2>4. ASSUME NEW k \in Clients, Publish(k)
        PROVE  IInv'
    BY <2>4, PublishIInv
  <2>5. ASSUME NEW k \in Keys, Collect(k)
        PROVE  IInv'
    BY <2>5, CollectIInv
  <2>6. CASE UNCHANGED vars
    BY <2>6 DEF vars, IInv, TypeOK, UsersValues, OwnsSlots, AtRest
  <2> QED
    BY <2>1, <2>2, <2>3, <2>4, <2>5, <2>6 DEF Next, Controller, Users
<1> QED
  BY <1>1, <1>2, PTL DEF Spec

-----------------------------------------------------------------------------
(* What the invariant implies. *)

\* Every variable keeps its type: nothing is built from data a resolver has not
\* found.
THEOREM DesiredTypeCorrect == Spec => []TypeOK
<1>1. IInv => TypeOK
  BY DEF IInv
<1> QED
  BY <1>1, DesiredInvariance, PTL

\* A slot that is in its place is not refused, and reconciling it changes nothing.
LEMMA FilledIsApplied ==
  ASSUME NEW n \in SC, NEW s \in Specs[n], obj \in Objects,
         \A r \in Slot : Filled(n, s, obj, r)
  PROVE  Applied(n, s) = obj /\ Refused(n, s) = {}
<1>1. s.app \in App
  BY Referred DEF SpecType
<1>2. Refused(n, s) = {}
  BY DEF Refused, Filled, OwnedBy
<1>3. ASSUME NEW k \in Keys
      PROVE  Applied(n, s)[k] = obj[k]
  <2>1. CASE \A r \in Slot : k # SlotKey(n, s.app)[r]
    BY <2>1, AppliedElsewhere
  <2>2. CASE \E r \in Slot : k = SlotKey(n, s.app)[r]
    <3>1. PICK r \in Slot : k = SlotKey(n, s.app)[r]
      BY <2>2
    <3> DEFINE want == Desired(s, obj)[r]
    <3>2. Applied(n, s)[k] = ReconcileControllerResource(n, obj[k], want)
      BY <1>1, <1>2, <3>1, AppliedSlot
    <3>3. IF want = Nil THEN ~OwnedBy(obj[k], n) ELSE OwnedBy(obj[k], n) /\ obj[k].val = want
      BY <3>1 DEF Filled
    <3>4. obj[k] \in Object \cup {Absent}
      BY DEF Objects
    <3> HIDE DEF want
    <3>5. CASE want = Nil
      BY <3>2, <3>3, <3>5 DEF ReconcileControllerResource
    <3>6. CASE want # Nil
      <4>1. obj[k] # Absent /\ obj[k].val = want
        BY <3>3, <3>6 DEF OwnedBy
      <4>2. [obj[k] EXCEPT !.val = want] = obj[k]
        BY <3>4, <4>1 DEF Object
      <4> QED
        BY <3>2, <3>6, <4>1, <4>2 DEF ReconcileControllerResource
    <3> QED
      BY <3>5, <3>6
  <2> QED
    BY <2>1, <2>2
<1>4. Applied(n, s) = [k \in Keys |-> Applied(n, s)[k]] /\ obj = [k \in Keys |-> obj[k]]
  BY DEF Applied, Objects
<1>5. Applied(n, s) = obj
  BY <1>3, <1>4
<1> QED
  BY <1>2, <1>5

\* A SecurityConfig that no event has woken up has every object that its spec
\* and the present Application, Secrets and ConfigMaps call for, and its status
\* names the Secrets and audiences of the present.
THEOREM NoInputForgotten == Spec => []UpToDate
<1>1. IInv => UpToDate
  <2> SUFFICES ASSUME IInv, NEW n \in SC, AtRest(n)
               PROVE  /\ ResolveSecurityConfig(spec[n], obj)
                      /\ Applied(n, spec[n]) = obj /\ Refused(n, spec[n]) = {}
                      /\ (\A k \in Gates(spec[n]) : obj[k] # Absent) =>
                           status[n].field = Fields(n, spec[n], obj, status[n].field)
    BY DEF UpToDate
  <2>1. spec[n] \in Specs[n] /\ obj \in Objects /\ Resting(n, spec[n], obj, status[n])
    BY DEF IInv, TypeOK, Objects, AtRest
  <2>2. Applied(n, spec[n]) = obj /\ Refused(n, spec[n]) = {}
    BY <2>1, FilledIsApplied DEF Resting
  <2> QED
    BY <2>1, <2>2 DEF Resting, TrueFields
<1> QED
  BY <1>1, DesiredInvariance, PTL

\* A SecurityConfig rests as Pending only because of a client object: the number
\* of descendants is never the reason.
THEOREM PendingForAClient == Spec => []PendingHasReason
<1>1. IInv => PendingHasReason
  BY DEF IInv, PendingHasReason, Resting, TruePending
<1> QED
  BY <1>1, DesiredInvariance, PTL

\* A slot is filled only for a capability that is enabled.
LEMMA WantedIsSupported ==
  ASSUME NEW n \in SC, NEW s \in Specs[n], NEW a \in App, NEW r \in Slot, Wanted(s, r)
  PROVE  Supported(s, SlotKey(n, a)[r])
<1> DEFINE k == SlotKey(n, a)[r]
<1>1. s.maskinporten \in ClientSpec /\ s.entraid \in ClientSpec
  BY Referred DEF SpecType
<1>2. /\ HasClient(s.maskinporten) => /\ s.maskinporten.enabled
                                      /\ s.maskinporten.clientRef = Nil
                                      /\ s.maskinporten.secretRef = Nil
      /\ HasClient(s.entraid) => /\ s.entraid.enabled
                                 /\ s.entraid.clientRef = Nil /\ s.entraid.secretRef = Nil
      /\ HasSecret(s.maskinporten) => s.maskinporten.enabled /\ s.maskinporten.secretRef # Nil
      /\ HasSecret(s.entraid) => s.entraid.enabled /\ s.entraid.secretRef # Nil
  BY <1>1, ConfigType DEF HasClient, HasSecret
<1>3. CASE r \in {"jwker", "tokenxEgress"}
  <2>1. k[1] \in {"Jwker", "NetworkPolicy"} /\ TokenX(s)
    BY <1>3, SlotKeyOf DEF Wanted
  <2> QED
    BY <2>1 DEF Supported, TokenX
<1>4. CASE r = "maskinportenClient"
  <2>1. k[1] = "MaskinportenClient" /\ HasClient(s.maskinporten)
    BY <1>4, SlotKeyOf DEF Wanted
  <2> QED
    BY <2>1, <1>2 DEF Supported
<1>5. CASE r = "azureAdApplication"
  <2>1. k[1] = "AzureAdApplication" /\ HasClient(s.entraid)
    BY <1>5, SlotKeyOf DEF Wanted
  <2> QED
    BY <2>1, <1>2 DEF Supported
<1>6. CASE r = "maskinportenSecret"
  <2>1. k[1] = "Secret" /\ k[3] = "maskinporten" /\ HasSecret(s.maskinporten)
    BY <1>6, SlotKeyOf DEF Wanted
  <2> QED
    BY <2>1, <1>2 DEF Supported
<1>7. CASE r = "azureAdSecret"
  <2>1. k[1] = "Secret" /\ k[3] = "entraid" /\ HasSecret(s.entraid)
    BY <1>7, SlotKeyOf DEF Wanted
  <2> QED
    BY <2>1, <1>2 DEF Supported
<1>8. CASE r \in {"maskinportenServiceEntry", "azureAdServiceEntry",
                  "idportenServiceEntry", "ansattportenServiceEntry"}
  <2>1. k[1] = "ServiceEntry" /\ s[k[3]].enabled
    BY <1>8, SlotKeyOf DEF Wanted
  <2> QED
    BY <2>1 DEF Supported
<1>9. CASE r = "opaConfigMap"
  <2>1. k[1] = "ConfigMap" /\ Opa(s)
    BY <1>9, SlotKeyOf DEF Wanted
  <2> QED
    BY <2>1 DEF Supported, Opa
<1>10. CASE r = "opaEnvoyFilter"
  <2>1. k[1] = "EnvoyFilter" /\ s.opa = "policy"
    BY <1>10, SlotKeyOf DEF Wanted
  <2> QED
    BY <2>1 DEF Supported
<1> QED
  BY <1>3, <1>4, <1>5, <1>6, <1>7, <1>8, <1>9, <1>10 DEF Slot

\* Whatever edits led to the present spec, a SecurityConfig at rest owns nothing
\* that supports no enabled capability, except the clients of an Application it
\* no longer refers to.
THEOREM LeavesNothingBehind == Spec => []NothingLeftBehind
<1>1. IInv => NothingLeftBehind
  <2> SUFFICES ASSUME IInv, NEW n \in SC, NEW k \in Keys, AtRest(n), OwnedBy(obj[k], n)
               PROVE  \/ Supported(spec[n], k)
                      \/ k[1] \in ClientKind /\ k[2] # spec[n].app
    BY DEF NothingLeftBehind
  <2> DEFINE s == spec[n]
  <2>1. /\ s \in Specs[n] /\ obj \in Objects /\ UsersValues(obj)
        /\ Resting(n, s, obj, status[n])
    BY DEF IInv, TypeOK, Objects, AtRest
  <2>2. PICK a \in App, r \in Slot : k = SlotKey(n, a)[r]
    BY DEF IInv, OwnsSlots
  <2> HIDE DEF s
  <2>3. CASE k = SlotKey(n, s.app)[r]
    <3>1. Desired(s, obj)[r] # Nil
      BY <2>1, <2>3 DEF Resting, Filled
    <3>2. Wanted(s, r)
      BY <2>1, <3>1, DesiredContents DEF Resting
    <3> QED
      BY <2>1, <2>2, <3>2, WantedIsSupported DEF s
  <2>4. CASE k # SlotKey(n, s.app)[r]
    <3>1. r \in {"jwker", "maskinportenClient", "azureAdApplication"}
      BY <2>2, <2>4, NamedAfterApplication
    <3>2. k[1] \in ClientKind /\ k[2] = a
      BY <2>2, <3>1, SlotKeyOf DEF ClientKind
    <3>3. a # s.app
      BY <2>2, <2>4
    <3> QED
      BY <3>2, <3>3 DEF s
  <2> QED
    BY <2>3, <2>4
<1> QED
  BY <1>1, DesiredInvariance, PTL

=============================================================================
