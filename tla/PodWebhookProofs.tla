-------------------------- MODULE PodWebhookProofs --------------------------
(***************************************************************************)
(* Proofs about the admission of a Pod, for any number of SecurityConfigs  *)
(* and Applications, annotations of any length, and any number of edits by *)
(* users, the controller and other webhooks.                               *)
(***************************************************************************)
EXTENDS PodWebhook, SequenceTheorems, TLAPS

-----------------------------------------------------------------------------
(* The inductive invariant. *)

\* What is ready in the cache has been recorded as seen.
Recorded ==
  \A n \in Name : configs[n] # NoConfig /\ configs[n].ready => <<n, configs[n]>> \in seen

IInv == TypeOK /\ Recorded /\ MutatedValidates /\ AdmittedFromOneVersion

-----------------------------------------------------------------------------
(* The operators. *)

\* The fields of a SecurityConfig.
LEMMA ConfigFacts ==
  ASSUME NEW c \in Config
  PROVE  /\ c.app \in App /\ c.tokenx \in BOOLEAN /\ c.opa \in BOOLEAN /\ c.ready \in BOOLEAN
         /\ c.secret \in Value \cup {Nil} /\ c.bundles \in Value \cup {Nil}
         /\ c # NoConfig
BY PodAssumption DEF Config

\* The fields of a Pod.
LEMMA RequestFacts ==
  ASSUME TypeOK
  PROVE  /\ request.services \in Seq(Service \cup {"unknown"})
         /\ request.hasApp \in BOOLEAN
         /\ Requested \subseteq Service \cup {"unknown"}
<1>1. request \in RequestType
  BY PodAssumption DEF TypeOK
<1>2. request.services \in Seq(Service \cup {"unknown"}) /\ request.hasApp \in BOOLEAN
  BY <1>1 DEF RequestType
<1> QED
  BY <1>2 DEF Requested, ToSet

\* The SecurityConfig of an Application is unique.
LEMMA SingleConfig ==
  ASSUME TypeOK, NEW n \in GetSecurityConfigForApplication
  PROVE  /\ n \in Name /\ configs[n] \in Config
         /\ configs[n].app = request.app /\ configs[n].ready
         /\ \A m \in GetSecurityConfigForApplication : m = n
BY DEF GetSecurityConfigForApplication, TypeOK

\* ParseAccesseratorServices lists every service that is asked for, and each once.
LEMMA ParseFacts ==
  ASSUME TypeOK, ~ParseFails
  PROVE  /\ Requested \subseteq Service
         /\ ParseAccesseratorServices \in Seq(Service)
         /\ \A s \in Requested : \E i \in DOMAIN ParseAccesseratorServices :
              ParseAccesseratorServices[i] = s
         /\ \A i, j \in DOMAIN ParseAccesseratorServices :
              ParseAccesseratorServices[i] = ParseAccesseratorServices[j] => i = j
<1> DEFINE first == request.services[1]
           other == Requested \ {first}
           last  == CHOOSE s \in other : TRUE
<1>1. Requested \subseteq Service
  BY RequestFacts DEF ParseFails
<1>2. Requested # {} => first \in Requested
  <2>1. SUFFICES ASSUME Requested # {}
                 PROVE  first \in Requested
    OBVIOUS
  <2>2. PICK i \in DOMAIN request.services : TRUE
    BY <2>1 DEF Requested, ToSet
  <2>3. 1 \in DOMAIN request.services
    BY <2>2, RequestFacts
  <2> QED
    BY <2>3 DEF Requested, ToSet
<1>3. other # {} => last \in other
  OBVIOUS
<1>4. CASE Requested = {}
  BY <1>1, <1>4 DEF ParseAccesseratorServices
<1>5. CASE Requested # {} /\ other = {}
  <2>1. ParseAccesseratorServices = <<first>> /\ Requested = {first} /\ first \in Service
    BY <1>1, <1>2, <1>5 DEF ParseAccesseratorServices
  <2> HIDE DEF first
  <2> QED
    BY <1>1, <2>1
<1>6. CASE Requested # {} /\ other # {}
  <2>1. ParseAccesseratorServices = <<first, last>>
    BY <1>6 DEF ParseAccesseratorServices
  <2>2. first \in Service /\ last \in Service /\ first # last
    BY <1>1, <1>2, <1>3, <1>6
  <2>3. Requested \subseteq {first, last}
    BY <1>1, <2>2 DEF Service
  <2> HIDE DEF first, last
  <2> QED
    BY <1>1, <2>1, <2>2, <2>3
<1> QED
  BY <1>4, <1>5, <1>6

\* A sidecar is a container of its service.
LEMMA ContainerFacts ==
  ASSUME NEW s \in Service, NEW c \in Config
  PROVE  /\ GetServiceContainer(s, c) \in Container
         /\ GetServiceContainer(s, c).service = s
         /\ GetServiceContainer(s, c).content = CASE s = "texas" /\ c.tokenx -> c.secret
                                                  [] s = "opa" /\ c.opa -> c.bundles
                                                  [] OTHER -> Off
BY ConfigFacts DEF GetServiceContainer, Container, Service

\* To take a sidecar out keeps the others.
LEMMA RemoveFacts ==
  ASSUME NEW seq \in Seq(Container), NEW i \in DOMAIN seq,
         \A j, k \in DOMAIN seq : seq[j].service = seq[k].service => j = k
  PROVE  /\ RemoveAt(seq, i) \in Seq(Container)
         /\ \A j, k \in DOMAIN RemoveAt(seq, i) :
              RemoveAt(seq, i)[j].service = RemoveAt(seq, i)[k].service => j = k
<1> DEFINE front == SubSeq(seq, 1, i - 1)
           back  == SubSeq(seq, i + 1, Len(seq))
<1>1. i \in 1..Len(seq) /\ Len(seq) \in Nat /\ DOMAIN seq = 1..Len(seq)
  OBVIOUS
<1>2. front \in Seq(Container) /\ Len(front) = i - 1 /\ \A j \in 1..(i - 1) : front[j] = seq[j]
  BY <1>1
<1>3. /\ back \in Seq(Container) /\ Len(back) = Len(seq) - i
      /\ \A j \in 1..(Len(seq) - i) : back[j] = seq[i + j]
  BY <1>1
<1> DEFINE rest == front \o back
<1>4. RemoveAt(seq, i) = rest
  BY DEF RemoveAt
<1> HIDE DEF front, back
<1>5. rest \in Seq(Container) /\ Len(rest) = Len(front) + Len(back)
  BY <1>2, <1>3, ConcatProperties, Zenon
<1>6. /\ \A j \in 1..Len(front) : rest[j] = front[j]
      /\ \A j \in 1..Len(back) : rest[Len(front) + j] = back[j]
  BY <1>2, <1>3
<1> HIDE DEF rest
<1>7. DOMAIN rest = 1..(Len(seq) - 1)
  BY <1>1, <1>2, <1>3, <1>5
<1>8. \A j \in 1..(Len(seq) - 1) : j < i => rest[j] = seq[j]
  BY <1>1, <1>2, <1>6
<1>9. \A j \in 1..(Len(seq) - 1) : j >= i => rest[j] = seq[j + 1]
  <2>1. SUFFICES ASSUME NEW j \in 1..(Len(seq) - 1), j >= i
                 PROVE  rest[j] = seq[j + 1]
    OBVIOUS
  <2> DEFINE k == j - (i - 1)
  <2>2. k \in 1..(Len(seq) - i) /\ i + k = j + 1 /\ (i - 1) + k = j
    BY <1>1, <2>1
  <2> HIDE DEF k
  <2>3. rest[(i - 1) + k] = back[k] /\ back[k] = seq[i + k]
    BY <1>2, <1>3, <1>6, <2>2
  <2> QED
    BY <2>2, <2>3
<1>10. \A j, k \in DOMAIN rest : rest[j].service = rest[k].service => j = k
  <2>1. SUFFICES ASSUME NEW j \in DOMAIN rest, NEW k \in DOMAIN rest,
                        rest[j].service = rest[k].service
                 PROVE  j = k
    OBVIOUS
  <2> DEFINE at(l) == IF l < i THEN l ELSE l + 1
  <2>2. \A l \in DOMAIN rest : at(l) \in DOMAIN seq /\ rest[l] = seq[at(l)]
    BY <1>1, <1>7, <1>8, <1>9
  <2>3. at(j) = at(k)
    BY <2>1, <2>2
  <2> QED
    BY <1>1, <1>7, <2>3
<1> QED
  BY <1>4, <1>5, <1>10

-----------------------------------------------------------------------------
(* The steps. *)

\* An edit of a SecurityConfig keeps the type, and what is ready is recorded.
LEMMA SetConfigStep ==
  ASSUME IInv, NEW n \in Name, NEW c \in Config \cup {NoConfig}, SetConfig(n, c)
  PROVE  IInv'
<1>t. TypeOK /\ Recorded
  BY DEF IInv
<1>1. /\ configs' = [configs EXCEPT ![n] = c]
      /\ seen' = IF c # NoConfig /\ c.ready THEN seen \cup {<<n, c>>} ELSE seen
      /\ stage' = stage /\ stage \in {"new", "mutated"} /\ fresh' = FALSE
      /\ UNCHANGED <<request, eligible, sidecars, env, volume>>
      /\ edits' = edits - 1 /\ edits > 0
  BY DEF SetConfig, Underway, podVars
<1>2. TypeOK'
  <2>1. configs' \in [Name -> Config \cup {NoConfig}]
    BY <1>t, <1>1 DEF TypeOK
  <2>2. seen' \in SUBSET (Name \X Config)
    BY <1>t, <1>1 DEF TypeOK
  <2>3. edits' \in 0..MaxEdits
    BY <1>t, <1>1, PodAssumption DEF TypeOK
  <2> QED
    BY <1>t, <1>1, <2>1, <2>2, <2>3 DEF TypeOK
<1>3. Recorded'
  <2>1. SUFFICES ASSUME NEW m \in Name, configs'[m] # NoConfig, configs'[m].ready
                 PROVE  <<m, configs'[m]>> \in seen'
    BY DEF Recorded
  <2>2. CASE m = n
    <3>1. configs'[m] = c
      BY <1>t, <1>1, <2>2 DEF TypeOK
    <3> QED
      BY <1>1, <2>1, <2>2, <3>1
  <2>3. CASE m # n
    <3>1. configs'[m] = configs[m]
      BY <1>t, <1>1, <2>3 DEF TypeOK
    <3>2. <<m, configs[m]>> \in seen
      BY <1>t, <2>1, <3>1 DEF Recorded
    <3> QED
      BY <1>1, <3>1, <3>2
  <2> QED
    BY <2>2, <2>3
<1>4. MutatedValidates' /\ AdmittedFromOneVersion'
  BY <1>1 DEF MutatedValidates, AdmittedFromOneVersion
<1> QED
  BY <1>2, <1>3, <1>4 DEF IInv

\* A webhook that skips the Pod or refuses it changes nothing of it.
LEMMA AsideStep ==
  ASSUME IInv,
         \/ \E ok \in BOOLEAN : MutateSkips(ok) \/ ValidateSkips(ok)
         \/ MutateRejects \/ MutatePanics \/ SchemaRejects \/ ValidateRejects \/ ValidatePanics
  PROVE  IInv'
<1>1. /\ UNCHANGED <<configs, request, sidecars, env, volume, seen, edits>>
      /\ fresh' = fresh
      /\ \/ stage' \in {"mutated", "admitted"} /\ eligible' = FALSE
         \/ stage' \in {"rejected", "panicked"} /\ eligible' \in {TRUE, eligible}
  BY DEF MutateSkips, ValidateSkips, MutateRejects, MutatePanics, SchemaRejects, ValidateRejects,
         ValidatePanics, Skip, Refuse
<1>2. TypeOK'
  BY <1>1 DEF IInv, TypeOK
<1>3. Recorded'
  BY <1>1 DEF IInv, Recorded
<1>4. MutatedValidates' /\ AdmittedFromOneVersion'
  BY <1>1 DEF MutatedValidates, AdmittedFromOneVersion
<1> QED
  BY <1>2, <1>3, <1>4 DEF IInv

\* What the mutating webhook puts into the Pod is what the validating webhook
\* asks for.
LEMMA MutateStep ==
  ASSUME IInv, MutateSucceeds
  PROVE  IInv'
<1>t. TypeOK /\ Recorded /\ Configured /\ ~ParseFails
  BY DEF IInv, MutateSucceeds, Configured
<1>1. PICK n \in GetSecurityConfigForApplication :
        /\ ~DereferencesNil(configs[n])
        /\ sidecars' = [i \in DOMAIN ParseAccesseratorServices |->
                          GetServiceContainer(ParseAccesseratorServices[i], configs[n])]
        /\ volume' = IF "opa" \in Requested /\ configs[n].opa THEN n ELSE Nil
  BY DEF MutateSucceeds, MutatePodWithOpaBundleVolume
<1>2. /\ env' = IF request.hasApp THEN Requested ELSE {}
      /\ stage' = "mutated" /\ eligible' = TRUE /\ fresh' = TRUE
      /\ UNCHANGED <<configs, request, seen, edits>>
  BY DEF MutateSucceeds, MutatePodWithURLEnvVar
<1>n. n \in Name /\ configs[n] \in Config /\ \A m \in GetSecurityConfigForApplication : m = n
  BY <1>t, SingleConfig
<1> DEFINE services == ParseAccesseratorServices
<1>3. /\ Requested \subseteq Service /\ services \in Seq(Service)
      /\ \A s \in Requested : \E i \in DOMAIN services : services[i] = s
      /\ \A i, j \in DOMAIN services : services[i] = services[j] => i = j
  BY <1>t, ParseFacts
<1>u. /\ sidecars' = [i \in DOMAIN services |-> GetServiceContainer(services[i], configs[n])]
  BY <1>1
<1> HIDE DEF services
<1>4. \A i \in DOMAIN services :
        /\ sidecars'[i] = GetServiceContainer(services[i], configs[n])
        /\ sidecars'[i] \in Container /\ sidecars'[i].service = services[i]
  BY <1>n, <1>3, <1>u, ContainerFacts
<1>5. TypeOK'
  <2>1. DOMAIN services = 1..Len(services) /\ Len(services) \in Nat
    BY <1>3
  <2>2. sidecars' \in [1..Len(services) -> Container]
    BY <1>u, <1>4, <2>1
  <2>3. sidecars' \in Seq(Container) /\ DOMAIN sidecars' = DOMAIN services
    BY <2>1, <2>2, IsASeq
  <2>4. \A i, j \in DOMAIN sidecars' : sidecars'[i].service = sidecars'[j].service => i = j
    BY <1>3, <1>4, <2>3
  <2>5. env' \in SUBSET Service /\ volume' \in Name \cup {Nil}
    BY <1>1, <1>2, <1>3, <1>n
  <2> QED
    BY <1>t, <1>2, <2>3, <2>4, <2>5 DEF TypeOK
<1>6. Recorded'
  BY <1>t, <1>2 DEF Recorded
<1>7. MutatedValidates'
  <2>1. GetSecurityConfigForApplication' = GetSecurityConfigForApplication
    BY <1>2 DEF GetSecurityConfigForApplication
  <2>2. Requested' = Requested /\ (ParseFails <=> ParseFails')
    BY <1>2 DEF Requested, ParseFails
  <2>3. Configured'
    BY <1>t, <2>1, <2>2 DEF Configured
  <2>4. ~DereferencesNil(configs[n])'
    BY <1>1, <1>2, <2>2 DEF DereferencesNil
  <2>5. ASSUME NEW s \in Requested, request.hasApp
        PROVE  ValidatesService(s, n)'
    <3>1. s \in env' /\ s \in Service
      BY <1>2, <1>3, <2>5
    <3>2. PICK i \in DOMAIN services : services[i] = s
      BY <1>3
    <3>3. sidecars'[i] = GetServiceContainer(s, configs'[n]) /\ i \in DOMAIN sidecars'
      BY <1>2, <1>4, <1>u, <3>2
    <3>4. CASE s = "texas"
      BY <1>2, <2>5, <3>1, <3>3, <3>4 DEF ValidatesService, ValidateTexasOnPod, GetServiceContainer
    <3>5. CASE s = "opa"
      <4>1. configs'[n].opa => volume' = n
        BY <1>1, <1>2, <3>5
      <4> QED
        BY <1>2, <2>5, <3>1, <3>3, <3>5, <4>1
        DEF ValidatesService, ValidateOpaOnPod, GetServiceContainer
    <3> QED
      BY <3>1, <3>4, <3>5 DEF Service
  <2>6. CASE request.hasApp
    BY <1>n, <2>1, <2>2, <2>3, <2>4, <2>5, <2>6 DEF MutatedValidates, Validates
  <2>7. CASE request.services = <<>>
    <3>1. Requested = {}
      BY <2>7 DEF Requested, ToSet
    <3> QED
      BY <1>n, <2>1, <2>2, <2>3, <2>4, <3>1 DEF MutatedValidates, Validates
  <2> QED
    BY <1>2, <2>6, <2>7 DEF MutatedValidates
<1>8. AdmittedFromOneVersion'
  BY <1>2 DEF AdmittedFromOneVersion
<1> QED
  BY <1>5, <1>6, <1>7, <1>8 DEF IInv

\* What the validating webhook admits is what the SecurityConfig it has read
\* leads to.
LEMMA AdmitStep ==
  ASSUME IInv, ValidateAdmits
  PROVE  IInv'
<1>t. TypeOK /\ Recorded /\ Configured /\ ~ParseFails /\ Validates /\ ~Malformed
  BY DEF IInv, ValidateAdmits, Validates, Configured
<1>1. /\ stage' = "admitted" /\ eligible' = TRUE
      /\ UNCHANGED <<configs, request, sidecars, env, volume, fresh, seen, edits>>
  BY DEF ValidateAdmits
<1>2. TypeOK' /\ Recorded' /\ MutatedValidates'
  BY <1>t, <1>1 DEF TypeOK, Recorded, MutatedValidates
<1>3. PICK n \in GetSecurityConfigForApplication : TRUE
  BY <1>t DEF Configured
<1>4. n \in Name /\ configs[n] \in Config /\ configs[n].app = request.app /\ configs[n].ready
  BY <1>t, SingleConfig
<1>5. <<n, configs[n]>> \in seen
  BY <1>t, <1>4, ConfigFacts DEF Recorded
<1>6. ASSUME NEW s \in Requested
      PROVE  /\ s \in env
             /\ \E i \in DOMAIN sidecars :
                  /\ sidecars[i].service = s
                  /\ sidecars[i].content # Nil
                  /\ sidecars[i].content = CASE s = "texas" /\ configs[n].tokenx -> configs[n].secret
                                             [] s = "opa" /\ configs[n].opa -> configs[n].bundles
                                             [] OTHER -> Off
             /\ s = "opa" /\ configs[n].opa => volume = n
  <2>1. s \in Service
    BY <1>t, <1>6, ParseFacts
  <2>2. ValidatesService(s, n)
    BY <1>t, <1>3 DEF Validates
  <2>3. /\ s \in env
        /\ s = "opa" /\ configs[n].opa => volume = n
        /\ \E i \in DOMAIN sidecars : sidecars[i] = GetServiceContainer(s, configs[n])
    BY <2>1, <2>2 DEF ValidatesService, ValidateTexasOnPod, ValidateOpaOnPod, Service
  <2>4. PICK i \in DOMAIN sidecars : sidecars[i] = GetServiceContainer(s, configs[n])
    BY <2>3
  <2>5. sidecars[i].content # Nil
    BY <1>t DEF Malformed
  <2> QED
    BY <1>4, <2>1, <2>3, <2>4, <2>5, ContainerFacts
<1>7. AdmittedFromOneVersion'
  <2> DEFINE p == <<n, configs[n]>>
  <2>1. p \in seen' /\ p[1] = n /\ p[2] = configs[n]
    BY <1>1, <1>5
  <2>2. Requested' = Requested
    BY <1>1 DEF Requested
  <2> HIDE DEF p
  <2> QED
    BY <1>1, <1>4, <1>6, <2>1, <2>2 DEF AdmittedFromOneVersion
<1> QED
  BY <1>2, <1>7 DEF IInv

\* Another webhook takes something out before the Pod is validated.
LEMMA StripStep ==
  ASSUME IInv, OthersStrip
  PROVE  IInv'
<1>t. TypeOK /\ Recorded
  BY DEF IInv
<1>1. /\ stage = "mutated" /\ edits > 0 /\ edits' = edits - 1 /\ fresh' = FALSE
      /\ UNCHANGED <<configs, request, stage, eligible, seen>>
  BY DEF OthersStrip, Underway
<1>2. /\ sidecars' \in Seq(Container)
      /\ \A i, j \in DOMAIN sidecars' : sidecars'[i].service = sidecars'[j].service => i = j
  <2>1. CASE sidecars' = sidecars
    BY <1>t, <2>1 DEF TypeOK
  <2>2. ASSUME NEW i \in DOMAIN sidecars, sidecars' = RemoveAt(sidecars, i)
        PROVE  /\ sidecars' \in Seq(Container)
               /\ \A j, k \in DOMAIN sidecars' : sidecars'[j].service = sidecars'[k].service => j = k
    <3>1. /\ sidecars \in Seq(Container)
          /\ \A j, k \in DOMAIN sidecars : sidecars[j].service = sidecars[k].service => j = k
      BY <1>t DEF TypeOK
    <3> QED
      BY <2>2, <3>1, RemoveFacts
  <2> QED
    BY <2>1, <2>2 DEF OthersStrip
<1>3. env' \in SUBSET Service /\ volume' \in Name \cup {Nil}
  BY <1>t DEF OthersStrip, TypeOK
<1>4. edits' \in 0..MaxEdits
  BY <1>t, <1>1, PodAssumption DEF TypeOK
<1>5. TypeOK' /\ Recorded'
  BY <1>t, <1>1, <1>2, <1>3, <1>4 DEF TypeOK, Recorded
<1>6. MutatedValidates' /\ AdmittedFromOneVersion'
  BY <1>1 DEF MutatedValidates, AdmittedFromOneVersion
<1> QED
  BY <1>5, <1>6 DEF IInv

\* What users and the controller write are SecurityConfigs.
LEMMA OthersStep ==
  ASSUME IInv, Others
  PROVE  IInv'
<1>t. TypeOK /\ \A n \in Name : configs[n] # NoConfig => configs[n] \in Config
  BY DEF IInv, TypeOK
<1>1. ASSUME NEW n \in Name, NEW app \in App, NEW tokenx \in BOOLEAN, NEW opa \in BOOLEAN,
             UserCreates(n, app, tokenx, opa)
      PROVE  IInv'
  <2> DEFINE c == [app |-> app, tokenx |-> tokenx, opa |-> opa, ready |-> FALSE,
                   secret |-> Nil, bundles |-> Nil]
  <2>1. c \in Config
    BY DEF Config
  <2> QED
    BY <1>1, <2>1, SetConfigStep DEF UserCreates
<1>2. ASSUME NEW n \in Name, NEW app \in App, NEW tokenx \in BOOLEAN, NEW opa \in BOOLEAN,
             UserEdits(n, app, tokenx, opa)
      PROVE  IInv'
  <2> DEFINE c == [configs[n] EXCEPT !.app = app, !.tokenx = tokenx, !.opa = opa]
  <2>1. c \in Config
    BY <1>t, <1>2 DEF UserEdits, Config
  <2> QED
    BY <1>2, <2>1, SetConfigStep DEF UserEdits
<1>3. ASSUME NEW n \in Name, UserDeletes(n)
      PROVE  IInv'
  BY <1>3, SetConfigStep DEF UserDeletes
<1>4. ASSUME NEW n \in Name, NEW v \in Value, NEW ready \in BOOLEAN, ControllerReports(n, v, ready)
      PROVE  IInv'
  <2> DEFINE c == [configs[n] EXCEPT !.ready = ready,
                     !.secret = IF configs[n].tokenx THEN v ELSE configs[n].secret,
                     !.bundles = IF configs[n].opa THEN v ELSE configs[n].bundles]
  <2>1. c \in Config
    BY <1>t, <1>4 DEF ControllerReports, Config
  <2> QED
    BY <1>4, <2>1, SetConfigStep DEF ControllerReports
<1> QED
  BY <1>1, <1>2, <1>3, <1>4, StripStep DEF Others

-----------------------------------------------------------------------------
(* The theorems. *)

\* The invariant holds throughout.
THEOREM Invariance == Spec => []IInv
<1>1. ASSUME Init
      PROVE  IInv
  <2>1. /\ \A n \in Name : configs[n] \in Config \cup {NoConfig}
        /\ seen = {<<n, configs[n]>> : n \in {m \in Name : configs[m] # NoConfig}}
        /\ stage = "new"
    BY <1>1 DEF Init
  <2>2. configs \in [Name -> Config \cup {NoConfig}]
    BY <1>1 DEF Init
  <2>3. seen \in SUBSET (Name \X Config)
    BY <2>1
  <2>4. edits \in 0..MaxEdits
    BY <1>1, PodAssumption DEF Init
  <2>5. TypeOK
    <3>1. /\ request \in Requests /\ eligible = FALSE /\ sidecars = <<>> /\ env = {}
          /\ volume = Nil /\ fresh = FALSE
      BY <1>1 DEF Init
    <3>2. sidecars \in Seq(Container) /\ DOMAIN sidecars = {}
      BY <3>1
    <3> QED
      BY <2>1, <2>2, <2>3, <2>4, <3>1, <3>2 DEF TypeOK
  <2>6. Recorded
    BY <2>1 DEF Recorded
  <2> QED
    BY <2>1, <2>5, <2>6 DEF IInv, MutatedValidates, AdmittedFromOneVersion
<1>2. ASSUME IInv, [Next]_vars
      PROVE  IInv'
  <2>1. CASE UNCHANGED vars
    <3>1. UNCHANGED <<configs, request, stage, eligible, sidecars, env, volume, fresh, seen, edits>>
      BY <2>1 DEF vars, podVars
    <3>2. TypeOK' /\ Recorded'
      BY <1>2, <3>1 DEF IInv, TypeOK, Recorded
    <3>3. AdmittedFromOneVersion'
      BY <1>2, <3>1 DEF IInv, AdmittedFromOneVersion, Requested
    <3>4. MutatedValidates'
      BY <1>2, <3>1 DEF IInv, MutatedValidates, Malformed, Validates, Configured, ParseFails,
        GetSecurityConfigForApplication, DereferencesNil, Requested, ValidatesService,
        ValidateTexasOnPod, ValidateOpaOnPod
    <3> QED
      BY <3>2, <3>3, <3>4 DEF IInv
  <2> QED
    BY <1>2, <2>1, AsideStep, MutateStep, AdmitStep, OthersStep DEF Next, Mutate, Validate
<1> QED
  BY <1>1, <1>2, PTL DEF Spec

\* Every variable keeps its type, and a Pod never gets the same sidecar twice,
\* however often its annotation names it (ParseAccesseratorServices).
THEOREM TypeCorrect == Spec => []TypeOK
<1>1. IInv => TypeOK
  BY DEF IInv
<1> QED
  BY <1>1, Invariance, PTL

\* The validating webhook accepts what the mutating webhook has made, if nothing
\* has changed in between: MutateTexasOnPod and MutateOpaOnPod agree with
\* ValidateTexasOnPod and ValidateOpaOnPod, for every SecurityConfig and Pod.
THEOREM HalvesAgree == Spec => []MutatedValidates
<1>1. IInv => MutatedValidates
  BY DEF IInv
<1> QED
  BY <1>1, Invariance, PTL

\* A Pod that is admitted as eligible carries the sidecars, URLs and volume of
\* one version of one ready SecurityConfig, although the two webhooks read the
\* cache at different times and others write in between.
THEOREM OneVersion == Spec => []AdmittedFromOneVersion
<1>1. IInv => AdmittedFromOneVersion
  BY DEF IInv
<1> QED
  BY <1>1, Invariance, PTL

=============================================================================
