---------------------------- MODULE InboundRules ----------------------------
(***************************************************************************)
(* The inbound rules of a Jwker: those of the Application, expanded by the *)
(* labels of namespaces, and the clients of the SecurityConfig             *)
(* (internal/resolver/tokenx_resolver.go).  Events of the SecurityConfig,  *)
(* the Application and the Jwker wake the controller; those of namespaces  *)
(* do not, so that only a restart or the resync of the informers makes up  *)
(* for a label that has changed.  Labels may also change between the lists *)
(* of one pass, and a list comes in any order.                             *)
(*                                                                         *)
(* One SecurityConfig.  The cache is up to date (Controller has one that   *)
(* lags).  A map of labels to match is one label, and a namespace's name a *)
(* number, which stands for its place in the order of strings.             *)
(***************************************************************************)
EXTENDS Naturals, Sequences, SequencesExt, FiniteSets, TLC

CONSTANTS
  Application,  \* names of applications
  Namespace,    \* names of namespaces
  Own,          \* the namespace of the SecurityConfig and its Application
  Label,        \* labels that a rule can ask for
  AppRules,     \* spec.accessPolicy.inbound.rules of the Application, as users write them
  Policies,     \* spec.tokenx.accessPolicy of the SecurityConfig, as users write it
  Nil,          \* a field that is not set, an object that does not exist
  MaxEvents     \* bound on changes by others, restarts and failing calls

InternalRule == [application : Application, namespace : Namespace \cup {Nil},
                 label : Label \cup {Nil}]
Client       == [application : Application, namespace : Namespace \cup {Nil}]
InboundRule  == [application : Application, namespace : Namespace]

ASSUME InboundAssumption ==
  /\ Namespace \subseteq Nat /\ IsFiniteSet(Namespace) /\ Own \in Namespace
  /\ \A rules \in AppRules : rules \in Seq(InternalRule)
  /\ \A p \in Policies \ {Nil} : p.inherit \in BOOLEAN /\ p.clients \in Seq(Client)
  /\ Nil \notin Namespace /\ Nil \notin AppRules /\ Nil \notin Seq(InboundRule)
  /\ MaxEvents \in Nat

VARIABLES
  labelled,  \* the namespaces with a label
  app,       \* the rules of the Application
  tokenx,    \* whether spec.tokenx is enabled, and its access policy
  jwker,     \* the rules of the Jwker
  queued,    \* the SecurityConfig is in the work queue
  pass,      \* the pass that is under way
  moved,     \* a label has changed since the last pass began
  settled,   \* the last pass is over, and nothing has changed since it began
  events     \* what may still happen

vars == <<labelled, app, tokenx, jwker, queued, pass, moved, settled, events>>

TokenX == [enabled : BOOLEAN, accessPolicy : Policies]

\* The pass: what it has read, its place in the rules of the Application, what
\* it has resolved, and whether something has changed since it began.
Pass == [pc : {"get", "inherit", "write"}, tokenx : TokenX,
         inherited : AppRules \cup {<<>>}, i : Nat \ {0}, rules : Seq(InboundRule),
         undisturbed : BOOLEAN]

ASSUME PassAssumption == Nil \notin Pass

\* Every variable keeps its type: in particular every rule that is resolved has
\* a namespace.
TypeOK ==
  /\ labelled \in [Label -> SUBSET Namespace]
  /\ app \in AppRules \cup {Nil}
  /\ tokenx \in TokenX
  /\ jwker # Nil => jwker \in Seq(InboundRule)
  /\ pass # Nil => pass \in Pass /\ pass.i <= Len(pass.inherited) + 1
  /\ queued \in BOOLEAN /\ moved \in BOOLEAN /\ settled \in BOOLEAN
  /\ events \in 0..MaxEvents

-----------------------------------------------------------------------------
(* The resolver. *)

\* getNamespacesByLabel: the namespaces with the label, in any order.
GetNamespacesByLabel(rule) == SetToSeqs(labelled[rule.label])

\* Mutant: the list is not sorted.
GetNamespaceListForInboundRule_Unsorted(rule) ==
  IF rule.namespace # Nil THEN {<<rule.namespace>>}
  ELSE IF rule.label # Nil THEN GetNamespacesByLabel(rule)
  ELSE {<<Own>>}

Ascending(list) == \A i, j \in DOMAIN list : i < j => list[i] < list[j]

\* getNamespaceListForInboundRule: a namespace comes before a label; without
\* either, it is the SecurityConfig's own.  The list is sorted.
GetNamespaceListForInboundRule(rule) ==
  IF rule.namespace # Nil THEN {<<rule.namespace>>}
  ELSE IF rule.label # Nil THEN {list \in GetNamespacesByLabel(rule) : Ascending(list)}
  ELSE {<<Own>>}

Rule(application, namespace) == [application |-> application, namespace |-> namespace]

\* Mutant: a client without a namespace gets none.
ClientRule_AsIs(client) == Rule(client.application, client.namespace)

ClientRule(client) ==
  Rule(client.application, IF client.namespace = Nil THEN Own ELSE client.namespace)

\* UniqueSliceElements: what has not been seen before, in its order.
UniqueSliceElements(slice) ==
  LET new     == {k \in DOMAIN slice : \A j \in 1..(k - 1) : slice[j] # slice[k]}
      rank(k) == Cardinality({j \in new : j <= k})
  IN  [n \in 1..Cardinality(new) |-> slice[CHOOSE k \in new : rank(k) = n]]

-----------------------------------------------------------------------------
(* The pass. *)

Reconciling(pc) == pass # Nil /\ pass.pc = pc

ReturnError == pass' = Nil /\ queued' = TRUE

\* ResolveTokenXConfig: the SecurityConfig is read.
BeginPass ==
  /\ queued
  /\ pass = Nil
  /\ queued' = FALSE
  /\ moved' = FALSE
  /\ pass' = [pc |-> IF tokenx.enabled THEN "get" ELSE "write", tokenx |-> tokenx,
              inherited |-> <<>>, i |-> 1, rules |-> <<>>, undisturbed |-> TRUE]
  /\ UNCHANGED <<labelled, app, tokenx, jwker, settled, events>>

\* The Application is read; it is an error if it does not exist.
GetApplication ==
  /\ Reconciling("get")
  /\ IF app = Nil THEN ReturnError
     ELSE LET policy == pass.tokenx.accessPolicy IN
          /\ pass' = [pass EXCEPT !.pc = "inherit", !.inherited =
                        IF policy # Nil /\ policy.inherit THEN app ELSE <<>>]
          /\ UNCHANGED queued
  /\ UNCHANGED <<labelled, app, tokenx, jwker, moved, settled, events>>

\* One round of the loop of resolveJwkerInboundRules, which lists the
\* namespaces of a rule.
Inherit ==
  /\ Reconciling("inherit")
  /\ pass.i <= Len(pass.inherited)
  /\ LET rule == pass.inherited[pass.i] IN
     \E list \in GetNamespaceListForInboundRule(rule) :
       pass' = [pass EXCEPT !.i = @ + 1, !.rules =
                  @ \o [k \in DOMAIN list |-> Rule(rule.application, list[k])]]
  /\ UNCHANGED <<labelled, app, tokenx, jwker, queued, moved, settled, events>>

\* Mutant: the rule without its namespaces is passed over.
ListFails_PassedOver ==
  /\ Reconciling("inherit")
  /\ pass.i <= Len(pass.inherited)
  /\ pass.inherited[pass.i].namespace = Nil /\ pass.inherited[pass.i].label # Nil
  /\ events > 0 /\ events' = events - 1
  /\ pass' = [pass EXCEPT !.i = @ + 1]
  /\ UNCHANGED <<labelled, app, tokenx, jwker, queued, moved, settled>>

\* The namespaces cannot be listed: no rule is resolved.
ListFails ==
  /\ Reconciling("inherit")
  /\ pass.i <= Len(pass.inherited)
  /\ pass.inherited[pass.i].namespace = Nil /\ pass.inherited[pass.i].label # Nil
  /\ events > 0 /\ events' = events - 1
  /\ ReturnError
  /\ UNCHANGED <<labelled, app, tokenx, jwker, moved, settled>>

Clients == IF pass.tokenx.accessPolicy = Nil THEN <<>> ELSE pass.tokenx.accessPolicy.clients

\* jwker.GetDesired, with what is left of resolveJwkerInboundRules.
GetDesired ==
  IF ~pass.tokenx.enabled THEN Nil
  ELSE UniqueSliceElements(
         pass.rules \o [k \in DOMAIN Clients |-> ClientRule(Clients[k])])

Resolved == \/ Reconciling("write")
            \/ Reconciling("inherit") /\ pass.i > Len(pass.inherited)

\* Mutant: a Jwker that exists is left as it is.
WriteJwker_CreateOnly ==
  /\ Resolved
  /\ jwker' = IF jwker = Nil \/ GetDesired = Nil THEN GetDesired ELSE jwker
  /\ queued' = (queued \/ jwker' # jwker)
  /\ settled' = pass.undisturbed
  /\ pass' = Nil
  /\ UNCHANGED <<labelled, app, tokenx, moved, events>>

\* The Jwker is written if it differs, and its event wakes the controller.
WriteJwker ==
  /\ Resolved
  /\ jwker' = GetDesired
  /\ queued' = (queued \/ jwker' # jwker)
  /\ settled' = pass.undisturbed
  /\ pass' = Nil
  /\ UNCHANGED <<labelled, app, tokenx, moved, events>>

WriteFails ==
  /\ Resolved
  /\ jwker # GetDesired
  /\ events > 0 /\ events' = events - 1
  /\ ReturnError
  /\ UNCHANGED <<labelled, app, tokenx, jwker, moved, settled>>

-----------------------------------------------------------------------------
(* What happens around it. *)

Disturb ==
  /\ events > 0 /\ events' = events - 1
  /\ settled' = FALSE
  /\ pass' = IF pass = Nil THEN Nil ELSE [pass EXCEPT !.undisturbed = FALSE]

\* A namespace gains or loses a label, or comes or goes.  Nothing is queued.
Relabel(label, namespace) ==
  /\ Disturb
  /\ moved' = TRUE
  /\ labelled' = [labelled EXCEPT ![label] =
       IF namespace \in @ THEN @ \ {namespace} ELSE @ \cup {namespace}]
  /\ UNCHANGED <<app, tokenx, jwker, queued>>

\* HandleSkiperatorApplicationEvent wakes the controller.
ChangeApplication(rules) ==
  /\ app # rules
  /\ Disturb
  /\ app' = rules
  /\ queued' = TRUE
  /\ UNCHANGED <<labelled, tokenx, jwker, moved>>

Edit(t) ==
  /\ tokenx # t
  /\ Disturb
  /\ tokenx' = t
  /\ queued' = TRUE
  /\ UNCHANGED <<labelled, app, jwker, moved>>

\* Somebody deletes or empties the Jwker, which the controller owns.
Drift(rules) ==
  /\ jwker \notin {Nil, rules}
  /\ Disturb
  /\ jwker' = rules
  /\ queued' = TRUE
  /\ UNCHANGED <<labelled, app, tokenx, moved>>

Restart ==
  /\ events > 0 /\ events' = events - 1
  /\ pass' = Nil
  /\ queued' = TRUE
  /\ UNCHANGED <<labelled, app, tokenx, jwker, moved, settled>>

\* Every ten hours the informers repeat the update events of what they watch,
\* the Application and the Jwker among it.
Resync ==
  /\ ~queued
  /\ app # Nil \/ jwker # Nil
  /\ queued' = TRUE
  /\ UNCHANGED <<labelled, app, tokenx, jwker, pass, moved, settled, events>>

-----------------------------------------------------------------------------
Init ==
  /\ labelled \in [Label -> SUBSET Namespace]
  /\ app \in AppRules \cup {Nil}
  /\ tokenx \in TokenX
  /\ jwker = Nil
  /\ queued = TRUE
  /\ pass = Nil
  /\ moved = FALSE
  /\ settled = FALSE
  /\ events = MaxEvents

Worker == BeginPass \/ GetApplication \/ Inherit \/ WriteJwker

Environment ==
  \/ \E label \in Label, namespace \in Namespace : Relabel(label, namespace)
  \/ \E rules \in AppRules \cup {Nil} : ChangeApplication(rules)
  \/ \E t \in TokenX : Edit(t)
  \/ \E rules \in {Nil, <<>>} : Drift(rules)
  \/ Restart

Next == Worker \/ ListFails \/ WriteFails \/ Environment \/ Resync

Spec == Init /\ [][Next]_vars

\* The worker takes what is queued and goes on, and the informers resync.
FairSpec == Spec /\ WF_vars(Worker) /\ WF_vars(Resync)

-----------------------------------------------------------------------------
(* What the rules are to be. *)

\* The namespaces a rule stands for, with these labels.
Stands(labels, rule) ==
  CASE rule.namespace # Nil -> {rule.namespace}
    [] rule.namespace = Nil /\ rule.label # Nil -> labels[rule.label]
    [] OTHER -> {Own}

\* The rules that the present policy, Application and labels call for.
CalledFor ==
  IF tokenx.accessPolicy = Nil THEN {}
  ELSE LET policy == tokenx.accessPolicy IN
       {ClientRule(c) : c \in ToSet(policy.clients)}
       \cup IF ~policy.inherit THEN {}
            ELSE UNION {{Rule(r.application, ns) : ns \in Stands(labelled, r)} : r \in ToSet(app)}

\* The Jwker has them, each once.  An Application that is missing is waited for.
Current ==
  IF ~tokenx.enabled THEN jwker = Nil
  ELSE app # Nil => /\ jwker # Nil
                    /\ ToSet(jwker) = CalledFor
                    /\ Len(jwker) = Cardinality(CalledFor)

\* When the controller has nothing to do, the Jwker has the inbound rules of the
\* present policy and Application, expanded by the labels of the moment; only a
\* label that changed after the pass began may be missed.  A namespace list that
\* fails half-way through the rules, other writers, restarts and edits during
\* the pass do not matter.
RestsCurrent == ~queued /\ pass = Nil /\ ~moved => Current

\* A Jwker is not written again as long as nothing has changed since the pass
\* that wrote it began, however often the controller is woken up and in whatever
\* order namespaces are listed.  (Each write wakes the controller up: without
\* the sort in getNamespaceListForInboundRule it would keep itself busy, and the
\* operator of the Jwker too.)
RewritesOnlyOnChange == [][settled /\ settled' => jwker' = jwker]_vars

\* A change of labels, which wakes up nobody, is caught up with in the end: once
\* changes cease, the Jwker becomes and stays what they call for.
EventuallyCurrent == <>[]Current

=============================================================================
