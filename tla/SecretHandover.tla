--------------------------- MODULE SecretHandover ---------------------------
(***************************************************************************)
(* Two controllers and one Secret.  The Secret that accesserator makes     *)
(* from a secretRef is named after the SecurityConfig (SecretFromRefName), *)
(* the one the operator of an inline client fills is named after the       *)
(* Application (SecretName): when SecurityConfig and Application are       *)
(* namesakes, an edit from one way to the other hands a name over.         *)
(*                                                                         *)
(* accesserator's pass over the two slots, the operator's reconciliation   *)
(* and the garbage collector take turns call by call.  The operator is the *)
(* mock controller of the repository: it writes into a Secret it finds     *)
(* without taking ownership, and is woken by its client and by the Secrets *)
(* a client controls, by nothing else.  Reads are of the stored objects;   *)
(* lagging caches and the writing of the status are in Controller.         *)
(***************************************************************************)
EXTENDS Naturals

CONSTANTS
  Absent,     \* no object of that name
  MaxEdits,   \* bound on the edits of the SecurityConfig
  MaxFaults   \* bound on the calls that fail, of both controllers

ASSUME HandoverAssumption ==
  /\ MaxEdits \in Nat /\ MaxFaults \in Nat
  /\ Absent \notin [uid : Nat, ready : BOOLEAN]
  /\ Absent \notin [owner : Nat, data : {"reference", "client"}]

VARIABLES
  namesake,   \* whether SecurityConfig and Application have the same name
  mode,       \* the stored spec.maskinporten
  client,     \* the MaskinportenClient named after the Application
  secret,     \* the Secrets of the two names
  born,       \* how many clients have been created
  status,     \* the stored status of the SecurityConfig
  pass,       \* accesserator's worker
  queued,     \* the SecurityConfig is in accesserator's work queue
  op,         \* the operator's worker
  opQueued,   \* the client is in the operator's work queue
  edits,      \* edits left
  faults      \* faults left

vars == <<namesake, mode, client, secret, born, status, pass, queued, op,
          opQueued, edits, faults>>

Mode == {"InlineClient", "SecretRef", "Disabled"}

\* UIDs: the SecurityConfig's, and those of the clients in the order of creation.
SecurityConfigUID == 0

SecretFromRefName == "fromRef"
SecretName == IF namesake THEN "fromRef" ELSE "ofClient"
Name == {"fromRef", "ofClient"}

Client == [uid : Nat, ready : BOOLEAN]
Secret == [owner : Nat, data : {"reference", "client"}]
ReconcileAction == {"none", "create", "update", "delete", "refuse"}
Status == [ready : BOOLEAN, name : Name \cup {"none"}]
Pass == [pc : {"idle", "client", "secret", "call", "status"}, mode : Mode,
         action : ReconcileAction, failed : BOOLEAN]
OperatorState == [pc : {"idle", "read", "create", "update", "outdated", "report"}, uid : Nat]

\* Every variable keeps its type; in particular a client is created only for an
\* edit that asks for one, so that clients are not more than edits.
TypeOK ==
  /\ namesake \in BOOLEAN /\ mode \in Mode
  /\ client \in Client \cup {Absent}
  /\ secret \in [Name -> Secret \cup {Absent}]
  /\ born \in 0..(MaxEdits + 1)
  /\ status \in Status /\ pass \in Pass /\ op \in OperatorState
  /\ queued \in BOOLEAN /\ opQueued \in BOOLEAN
  /\ edits \in 0..MaxEdits /\ faults \in 0..MaxFaults

Init ==
  /\ namesake \in BOOLEAN /\ mode \in Mode
  /\ client = Absent /\ secret = [n \in Name |-> Absent] /\ born = 0
  /\ status = [ready |-> FALSE, name |-> "none"]
  /\ pass = [pc |-> "idle", mode |-> mode, action |-> "none", failed |-> FALSE]
  /\ op = [pc |-> "idle", uid |-> SecurityConfigUID]
  /\ queued = TRUE /\ opQueued = FALSE
  /\ edits = MaxEdits /\ faults = MaxFaults

-----------------------------------------------------------------------------
(* Events and optimistic locking. *)

ControlledBySC(s) == s # Absent /\ s.owner = SecurityConfigUID
ControlledByClient(s) == s # Absent /\ s.owner # SecurityConfigUID

\* The Secret n becomes s: accesserator hears of the Secrets its SecurityConfigs
\* control or controlled, the operator of those that a client does or did.
Store(n, s) ==
  /\ secret' = [secret EXCEPT ![n] = s]
  /\ queued' = (queued \/ ControlledBySC(secret[n]) \/ ControlledBySC(s))
  /\ opQueued' = (opQueued \/ ControlledByClient(secret[n]) \/ ControlledByClient(s))

\* Somebody else writes the Secret n: an Update the operator has prepared from
\* what it has read will meet a conflict.
Overtaken(n) ==
  op' = IF n = SecretName /\ op.pc = "update" THEN [op EXCEPT !.pc = "outdated"] ELSE op

-----------------------------------------------------------------------------
(* accesserator. *)

BeginPass ==
  /\ pass.pc = "idle" /\ queued
  /\ queued' = FALSE
  /\ pass' = [pc |-> "client", mode |-> mode, action |-> "none", failed |-> FALSE]
  /\ UNCHANGED <<namesake, mode, client, secret, born, status, op, opQueued, edits, faults>>

\* Mutant: the client is made anew for every pass that wants one.
ReconcileClient_Anew ==
  /\ pass.pc = "client"
  /\ pass' = [pass EXCEPT !.pc = "secret"]
  /\ IF pass.mode = "InlineClient"
       THEN client' = [uid |-> born + 1, ready |-> FALSE] /\ born' = born + 1
       ELSE client' = Absent /\ born' = born
  /\ queued' = (queued \/ client' # client) /\ opQueued' = (opQueued \/ client' # client)
  /\ UNCHANGED <<namesake, mode, secret, status, op, edits, faults>>

\* The slot of the client, which nobody but accesserator creates and deletes.
\* Its creation and deletion wake both controllers up.
ReconcileClient ==
  /\ pass.pc = "client"
  /\ pass' = [pass EXCEPT !.pc = "secret"]
  /\ LET wanted == pass.mode = "InlineClient" IN
     \/ /\ wanted /\ client = Absent
        /\ client' = [uid |-> born + 1, ready |-> FALSE] /\ born' = born + 1
        /\ queued' = TRUE /\ opQueued' = TRUE
     \/ /\ ~wanted /\ client # Absent
        /\ client' = Absent /\ born' = born
        /\ queued' = TRUE /\ opQueued' = TRUE
     \/ /\ wanted <=> client # Absent
        /\ UNCHANGED <<client, born, queued, opQueued>>
  /\ UNCHANGED <<namesake, mode, secret, status, op, edits, faults>>

\* Mutant: what is not desired is deleted, whoever controls it.
DetermineReconcileAction_AnyOwner(current, desired) ==
  CASE ~desired -> IF current # Absent THEN "delete" ELSE "none"
    [] desired /\ current = Absent -> "create"
    [] desired /\ ControlledByClient(current) -> "refuse"
    [] OTHER -> IF current.data # "reference" THEN "update" ELSE "none"

DetermineReconcileAction(current, desired) ==
  CASE ~desired -> IF ControlledBySC(current) THEN "delete" ELSE "none"
    [] desired /\ current = Absent -> "create"
    [] desired /\ ControlledByClient(current) -> "refuse"
    [] OTHER -> IF current.data # "reference" THEN "update" ELSE "none"

\* The slot of the Secret: the Get, and what it leads to.
GetSecret ==
  /\ pass.pc = "secret"
  /\ pass' = [pass EXCEPT !.pc = "call",
       !.action = DetermineReconcileAction(secret[SecretFromRefName], pass.mode = "SecretRef")]
  /\ UNCHANGED <<namesake, mode, client, secret, born, status, queued, op, opQueued, edits, faults>>

\* Its call.  Delete has no precondition, Patch sends no resource version, and
\* Create meets what was created after the Get.
CallSecret ==
  /\ pass.pc = "call"
  /\ LET n == SecretFromRefName IN
     \/ /\ pass.action = "create" /\ secret[n] = Absent
        /\ Store(n, [owner |-> SecurityConfigUID, data |-> "reference"]) /\ Overtaken(n)
        /\ pass' = [pass EXCEPT !.pc = "status"]
     \/ /\ pass.action = "update"
        /\ Store(n, [secret[n] EXCEPT !.data = "reference"]) /\ Overtaken(n)
        /\ pass' = [pass EXCEPT !.pc = "status"]
     \/ /\ pass.action = "delete"
        /\ Store(n, Absent) /\ Overtaken(n)
        /\ pass' = [pass EXCEPT !.pc = "status"]
     \/ /\ pass.action = "none"
        /\ pass' = [pass EXCEPT !.pc = "status"]
        /\ UNCHANGED <<secret, queued, op, opQueued>>
     \/ /\ pass.action = "refuse" \/ (pass.action = "create" /\ secret[n] # Absent)
        /\ pass' = [pass EXCEPT !.pc = "status", !.failed = TRUE]
        /\ UNCHANGED <<secret, queued, op, opQueued>>
  /\ UNCHANGED <<namesake, mode, client, born, status, edits, faults>>

\* A call of either slot fails: the loop goes on and collects the error.
SlotFails ==
  /\ faults > 0 /\ faults' = faults - 1
  /\ pass.pc \in {"client", "secret"}
     \/ (pass.pc = "call" /\ pass.action \in {"create", "update", "delete"})
  /\ pass' = [pass EXCEPT !.pc = IF @ = "client" THEN "secret" ELSE "status", !.failed = TRUE]
  /\ UNCHANGED <<namesake, mode, client, secret, born, status, queued, op, opQueued, edits>>

\* DetermineReconciliationState, as far as readiness and MaskinportenSecretName
\* go.  Without an error the client of an inline spec is there.
NewStatus ==
  CASE pass.failed -> [status EXCEPT !.ready = FALSE]
    [] ~pass.failed /\ pass.mode = "Disabled" -> [status EXCEPT !.ready = TRUE]
    [] ~pass.failed /\ pass.mode = "SecretRef" -> [ready |-> TRUE, name |-> SecretFromRefName]
    [] OTHER -> [ready |-> client.ready, name |-> IF client.ready THEN SecretName ELSE "none"]

\* Mutant: the errors of the slots are not returned.
FinishPass_Swallowed ==
  /\ pass.pc = "status"
  /\ pass' = [pass EXCEPT !.pc = "idle"]
  /\ status' = NewStatus /\ queued' = queued
  /\ UNCHANGED <<namesake, mode, client, secret, born, op, opQueued, edits, faults>>

\* The status is written, and a pass with errors is repeated.
FinishPass ==
  /\ pass.pc = "status"
  /\ pass' = [pass EXCEPT !.pc = "idle"]
  /\ status' = NewStatus /\ queued' = (queued \/ pass.failed)
  /\ UNCHANGED <<namesake, mode, client, secret, born, op, opQueued, edits, faults>>

-----------------------------------------------------------------------------
(* The operator: mockReconciler.Reconcile and reconcileSecret. *)

OperatorBegin ==
  /\ op.pc = "idle" /\ opQueued
  /\ opQueued' = FALSE
  /\ op' = IF client = Absent THEN op ELSE [pc |-> "read", uid |-> client.uid]
  /\ UNCHANGED <<namesake, mode, client, secret, born, status, pass, queued, edits, faults>>

OperatorGet ==
  /\ op.pc = "read"
  /\ op' = [op EXCEPT !.pc = IF secret[SecretName] = Absent THEN "create"
                             ELSE IF secret[SecretName].data # "client" THEN "update"
                             ELSE "report"]
  /\ UNCHANGED <<namesake, mode, client, secret, born, status, pass, queued, opQueued, edits, faults>>

\* An error of the operator's Reconcile: it is tried again.
OperatorRetries ==
  /\ op' = [op EXCEPT !.pc = "idle"] /\ opQueued' = TRUE
  /\ UNCHANGED <<namesake, mode, client, secret, born, status, pass, queued, edits>>

\* Create, owned by the client as it was read, or Update, which keeps the owner.
OperatorWrites ==
  /\ \/ /\ op.pc = "create" /\ secret[SecretName] = Absent
        /\ Store(SecretName, [owner |-> op.uid, data |-> "client"])
     \/ /\ op.pc = "update"
        /\ Store(SecretName, [secret[SecretName] EXCEPT !.data = "client"])
  /\ op' = [op EXCEPT !.pc = "report"]
  /\ UNCHANGED <<namesake, mode, client, born, status, pass, edits, faults>>

\* AlreadyExists, or a conflict (NotFound if the Secret is gone).
OperatorCollides ==
  /\ (op.pc = "create" /\ secret[SecretName] # Absent) \/ op.pc = "outdated"
  /\ OperatorRetries /\ UNCHANGED faults

\* setMaskinportenClientStatus looks the client up again by its name; writing
\* what is already there is no event.
OperatorReports ==
  /\ op.pc = "report" /\ client # Absent
  /\ op' = [op EXCEPT !.pc = "idle"]
  /\ client' = [client EXCEPT !.ready = TRUE]
  /\ queued' = (queued \/ ~client.ready) /\ opQueued' = (opQueued \/ ~client.ready)
  /\ UNCHANGED <<namesake, mode, secret, born, status, pass, edits, faults>>

OperatorFindsNone ==
  /\ op.pc = "report" /\ client = Absent
  /\ OperatorRetries /\ UNCHANGED faults

OperatorFails ==
  /\ faults > 0 /\ faults' = faults - 1
  /\ op.pc # "idle"
  /\ OperatorRetries

-----------------------------------------------------------------------------
(* The cluster and the user. *)

Orphan(n) == ControlledByClient(secret[n]) /\ (client # Absent => client.uid # secret[n].owner)

\* The garbage collector removes a Secret whose owner is gone.
CollectSecret ==
  /\ \E n \in Name : Orphan(n) /\ Store(n, Absent) /\ Overtaken(n)
  /\ UNCHANGED <<namesake, mode, client, born, status, pass, edits, faults>>

\* The informers replay what they hold (SyncPeriod of controller-runtime, ten
\* hours): each controller is woken up for the objects it watches without a
\* predicate, accesserator for what the SecurityConfig controls.
Resync ==
  /\ queued' = (queued \/ client # Absent \/ \E n \in Name : ControlledBySC(secret[n]))
  /\ opQueued' = (opQueued \/ client # Absent \/ \E n \in Name : ControlledByClient(secret[n]))
  /\ UNCHANGED <<namesake, mode, client, secret, born, status, pass, op, edits, faults>>

Edit ==
  /\ edits > 0 /\ edits' = edits - 1
  /\ mode' \in Mode \ {mode}
  /\ queued' = TRUE
  /\ UNCHANGED <<namesake, client, secret, born, status, pass, op, opQueued, faults>>

Worker == BeginPass \/ ReconcileClient \/ GetSecret \/ CallSecret \/ FinishPass
Operator == OperatorBegin \/ OperatorGet \/ OperatorWrites \/ OperatorCollides
            \/ OperatorReports \/ OperatorFindsNone

Next == Worker \/ SlotFails \/ Operator \/ OperatorFails \/ CollectSecret \/ Resync \/ Edit

\* Both workers take what is queued and finish it, the garbage collector looks
\* for orphans forever, and the informers resynchronise.
Spec == Init /\ [][Next]_vars
        /\ WF_vars(Worker) /\ WF_vars(Operator) /\ WF_vars(CollectSecret) /\ WF_vars(Resync)

-----------------------------------------------------------------------------
(* Properties. *)

AtRest == /\ pass.pc = "idle" /\ ~queued /\ op.pc = "idle" /\ ~opQueued
          /\ \A n \in Name : ~Orphan(n)

\* The name that the status should give, and the data that belong there.
WantedName == IF mode = "SecretRef" THEN SecretFromRefName ELSE SecretName
WantedData == IF mode = "SecretRef" THEN "reference" ELSE "client"

Served ==
  /\ status = [ready |-> TRUE, name |-> WantedName]
  /\ secret[WantedName] # Absent /\ secret[WantedName].data = WantedData

\* The gap the code leaves: the operator has published into the Secret of the
\* secretRef and reported Ready before the pass that created the client deletes
\* that Secret, which is an event for accesserator only.
DeletedAfterReport ==
  /\ namesake /\ mode = "InlineClient"
  /\ status = [ready |-> TRUE, name |-> SecretName] /\ secret[SecretName] = Absent

\* When both controllers and the garbage collector are idle, the status is ready
\* and names the Secret of the present way to configure the client, which exists
\* and holds the credentials of that way.  Only the Secret of an inline client
\* may be missing, and only between namesakes
\* (status_manager.go:140-168, reconciliation.go:91, helper_functions.go:97-103).
RestsWithCredentials ==
  AtRest /\ mode # "Disabled" => Served \/ DeletedAfterReport

\* After the last edit and fault, the wanted credentials are there and named, and
\* stay so: neither controller removes or overwrites what the other provides, and
\* a Secret deleted after the operator's report comes back with a resync
\* (mock_controller/main.go:134-160, reconciliation.go:394-413).
EventuallyServed == <>[](mode # "Disabled" => Served)
=============================================================================
