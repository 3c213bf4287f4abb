------------------------ MODULE SecretHandoverProofs ------------------------
(***************************************************************************)
(* Proofs about SecretHandover: type correctness, and that credentials are *)
(* in place whenever both controllers rest, for any number of edits and    *)
(* faults.                                                                 *)
(***************************************************************************)
EXTENDS SecretHandover, TLAPS

\* A client may still be created without another edit.
CanCreate ==
  \/ client = Absent /\ (mode = "InlineClient"
                         \/ (pass.pc = "client" /\ pass.mode = "InlineClient"))
  \/ client # Absent /\ mode = "InlineClient" /\ pass.pc = "client"
     /\ pass.mode # "InlineClient"

OneClientPerEdit == born + edits + (IF CanCreate THEN 1 ELSE 0) <= MaxEdits + 1

\* Whose is what: clients have UIDs of their own, the operator acts for a client,
\* it fills every Secret a client controls, and accesserator makes none of the
\* operator's name (unless it is its own).
Holders ==
  /\ client # Absent => client.uid # SecurityConfigUID
  /\ op.pc # "idle" => op.uid # SecurityConfigUID
  /\ op.pc = "update" => secret[SecretName] # Absent
  /\ \A n \in Name : ControlledByClient(secret[n]) => secret[n].data = "client"
  /\ ~ControlledBySC(secret["ofClient"])

SecretSettled(m) ==
  IF m = "SecretRef"
    THEN ControlledBySC(secret[SecretFromRefName]) /\ secret[SecretFromRefName].data = "reference"
    ELSE ~ControlledBySC(secret[SecretFromRefName])

StatusSettled ==
  /\ mode = "SecretRef" => status = [ready |-> TRUE, name |-> SecretFromRefName]
  /\ mode = "InlineClient" =>
       status = [ready |-> client.ready, name |-> IF client.ready THEN SecretName ELSE "none"]

\* What a pass has established so far and nothing has disturbed.
ClientSettled(m) == client # Absent <=> m = "InlineClient"

WorkerInv ==
  /\ ~queued /\ pass.pc # "idle" => pass.mode = mode
  /\ pass.pc \in {"secret", "call", "status"} /\ ~pass.failed => ClientSettled(pass.mode)
  /\ pass.pc = "call" /\ pass.action \in {"update", "delete"} =>
       ControlledBySC(secret[SecretFromRefName])
  /\ pass.pc = "call" /\ pass.action = "none" /\ ~queued => SecretSettled(pass.mode)
  /\ pass.pc = "status" /\ ~pass.failed /\ ~queued => SecretSettled(pass.mode)
  /\ pass.pc = "idle" /\ ~queued => ClientSettled(mode) /\ SecretSettled(mode) /\ StatusSettled

\* The operator owes a report, or has made one for a Secret that is there.
OperatorInv ==
  /\ op.pc = "report" /\ ~opQueued /\ ~namesake => secret["ofClient"] # Absent
  /\ op.pc = "idle" /\ ~opQueued /\ client # Absent =>
       client.ready /\ (~namesake => secret["ofClient"] # Absent)

HInv == TypeOK /\ OneClientPerEdit /\ Holders /\ WorkerInv /\ OperatorInv

\* A pass reads the spec that is stored.
LEMMA BeginPassHInv == ASSUME HInv, BeginPass PROVE HInv'
<1> USE HandoverAssumption
    DEF HInv, BeginPass, TypeOK, Client, Secret, Name, Mode,
        ReconcileAction, SecretFromRefName, SecretName, SecurityConfigUID, ControlledBySC, ControlledByClient
<1>1. TypeOK'
  BY DEF Pass, OperatorState, Status
<1>2. OneClientPerEdit'
  BY DEF Pass, OperatorState, Status, OneClientPerEdit, CanCreate
<1>3. Holders'
  BY DEF Pass, OperatorState, Status, Holders, WorkerInv
<1>4. WorkerInv'
  BY DEF Pass, OperatorState, Status, WorkerInv, Holders, ClientSettled, SecretSettled, StatusSettled
<1>5. OperatorInv'
  BY DEF Pass, OperatorState, Status, OperatorInv, Holders, WorkerInv
<1> QED
  BY <1>1, <1>2, <1>3, <1>4, <1>5

\* The client is there exactly when the pass wants it; one edit accounts for one client.
LEMMA ReconcileClientHInv == ASSUME HInv, ReconcileClient PROVE HInv'
<1> USE HandoverAssumption
    DEF HInv, ReconcileClient, TypeOK, Client, Secret, Name, Mode,
        ReconcileAction, SecretFromRefName, SecretName, SecurityConfigUID, ControlledBySC, ControlledByClient
<1>1. TypeOK'
  <2>1. client' \in Client \cup {Absent} /\ born' \in 0..(MaxEdits + 1)
    <3>1. CASE pass.mode = "InlineClient" /\ client = Absent
      <4>1. born + edits + 1 <= MaxEdits + 1
        BY <3>1 DEF OneClientPerEdit, CanCreate
      <4>2. born' = born + 1 /\ client' = [uid |-> born + 1, ready |-> FALSE]
        BY <3>1
      <4>3. born' \in 0..(MaxEdits + 1)
        BY <4>1, <4>2
      <4>4. client' \in Client
        BY <4>2
      <4> QED
        BY <4>3, <4>4
    <3>2. CASE ~(pass.mode = "InlineClient" /\ client = Absent)
      BY <3>2
    <3> QED
      BY <3>1, <3>2 DEF Pass
  <2>2. pass' \in Pass
    BY DEF Pass
  <2>3. queued' \in BOOLEAN /\ opQueued' \in BOOLEAN
    OBVIOUS
  <2> QED
    BY <2>1, <2>2, <2>3
<1>2. OneClientPerEdit'
  <2>1. CASE pass.mode = "InlineClient" /\ client = Absent
    <3>1. born + edits + 1 <= MaxEdits + 1
      BY <2>1 DEF OneClientPerEdit, CanCreate
    <3>2. pass' = [pass EXCEPT !.pc = "secret"] /\ born' = born + 1
          /\ client' = [uid |-> born + 1, ready |-> FALSE]
      BY <2>1
    <3>3. client' # Absent /\ pass'.pc # "client"
      <4>1. [uid |-> born + 1, ready |-> FALSE] \in Client
        OBVIOUS
      <4> QED
        BY <3>2, <4>1 DEF Pass
    <3>4. ~CanCreate'
      BY <3>3 DEF CanCreate
    <3> QED
      BY <3>1, <3>2, <3>4 DEF OneClientPerEdit
  <2>2. CASE pass.mode # "InlineClient" /\ client # Absent
    <3>1. CanCreate' => CanCreate
      BY <2>2 DEF CanCreate
    <3> QED
      BY <2>2, <3>1 DEF OneClientPerEdit
  <2>3. CASE pass.mode = "InlineClient" <=> client # Absent
    <3>1. CanCreate' => CanCreate
      BY <2>3 DEF CanCreate
    <3> QED
      BY <2>3, <3>1 DEF OneClientPerEdit
  <2> QED
    BY <2>1, <2>2, <2>3
<1>3. Holders'
  BY DEF Pass, OperatorState, Status, Holders, WorkerInv
<1>4. WorkerInv'
  <2>1. pass'.mode = pass.mode /\ pass'.pc = "secret" /\ pass'.failed = pass.failed
    BY DEF Pass
  <2>2. client' # Absent <=> pass.mode = "InlineClient"
    <3>1. [uid |-> born + 1, ready |-> FALSE] \in Client
      OBVIOUS
    <3> QED
      BY <3>1
  <2>3. ~queued' => ~queued
    OBVIOUS
  <2> QED
    BY <2>1, <2>2, <2>3 DEF WorkerInv, ClientSettled
<1>5. OperatorInv'
  BY DEF Pass, OperatorState, Status, OperatorInv, Holders, WorkerInv
<1> QED
  BY <1>1, <1>2, <1>3, <1>4, <1>5

\* The action chosen is justified by what the Get has found.
LEMMA GetSecretHInv == ASSUME HInv, GetSecret PROVE HInv'
<1> USE HandoverAssumption
    DEF HInv, GetSecret, TypeOK, Client, Secret, Name, Mode,
        ReconcileAction, SecretFromRefName, SecretName, SecurityConfigUID, ControlledBySC, ControlledByClient
<1>1. TypeOK'
  <2>1. DetermineReconcileAction(secret[SecretFromRefName], pass.mode = "SecretRef") \in ReconcileAction
    BY DEF DetermineReconcileAction
  <2>2. pass' \in Pass
    BY <2>1 DEF Pass
  <2> QED
    BY <2>2
<1>2. OneClientPerEdit'
  BY DEF Pass, OperatorState, Status, OneClientPerEdit, CanCreate
<1>3. Holders'
  BY DEF Pass, OperatorState, Status, Holders, WorkerInv, DetermineReconcileAction
<1>4. WorkerInv'
  BY DEF Pass, OperatorState, Status, WorkerInv, Holders, ClientSettled, SecretSettled, StatusSettled, DetermineReconcileAction
<1>5. OperatorInv'
  BY DEF Pass, OperatorState, Status, OperatorInv, Holders, WorkerInv, DetermineReconcileAction
<1> QED
  BY <1>1, <1>2, <1>3, <1>4, <1>5

\* Whatever the call writes or removes is an event for accesserator.
LEMMA CallSecretHInv == ASSUME HInv, CallSecret PROVE HInv'
<1> USE HandoverAssumption
    DEF HInv, CallSecret, Store, Overtaken, TypeOK, Client, Secret, Name, Mode,
        ReconcileAction, SecretFromRefName, SecretName, SecurityConfigUID, ControlledBySC, ControlledByClient
<1>1. TypeOK'
  <2>1. secret' \in [Name -> Secret \cup {Absent}]
    BY DEF WorkerInv
  <2>2. pass' \in Pass
    BY DEF Pass
  <2>3. op' \in OperatorState
    BY DEF OperatorState
  <2>4. queued' \in BOOLEAN /\ opQueued' \in BOOLEAN
    OBVIOUS
  <2> QED
    BY <2>1, <2>2, <2>3, <2>4
<1>2. OneClientPerEdit'
  BY DEF Pass, OperatorState, Status, OneClientPerEdit, CanCreate
<1>3. Holders'
  BY DEF Pass, OperatorState, Status, Holders, WorkerInv
<1>4. WorkerInv'
  <2>1. pass'.pc = "status" /\ pass'.mode = pass.mode /\ (~queued' => ~queued)
    BY DEF Pass
  <2>2. ~pass'.failed => ~pass.failed
    BY DEF Pass
  <2>3. ~pass'.failed /\ ~queued' => pass.action = "none" /\ secret' = secret
    <3>1. CASE pass.action = "create" /\ secret[SecretFromRefName] = Absent
      <4>1. [owner |-> SecurityConfigUID, data |-> "reference"] # Absent
        OBVIOUS
      <4> QED
        BY <3>1, <4>1
    <3>2. CASE pass.action \in {"update", "delete"}
      BY <3>2 DEF WorkerInv
    <3>3. CASE pass.action = "none"
      BY <3>3
    <3>4. CASE pass.action = "refuse" \/ (pass.action = "create" /\ secret[SecretFromRefName] # Absent)
      BY <3>4 DEF Pass
    <3> QED
      BY <3>1, <3>2, <3>3, <3>4 DEF Pass
  <2>4. ~pass'.failed /\ ~queued' => SecretSettled(pass.mode)'
    BY <2>3, <2>1 DEF WorkerInv, SecretSettled
  <2> QED
    BY <2>1, <2>2, <2>4 DEF WorkerInv, ClientSettled, SecretSettled
<1>5. OperatorInv'
  BY DEF Pass, OperatorState, Status, OperatorInv, Holders, WorkerInv
<1> QED
  BY <1>1, <1>2, <1>3, <1>4, <1>5

\* A failed call leaves everything to the repeated pass.
LEMMA SlotFailsHInv == ASSUME HInv, SlotFails PROVE HInv'
<1> USE HandoverAssumption
    DEF HInv, SlotFails, TypeOK, Client, Secret, Name, Mode,
        ReconcileAction, SecretFromRefName, SecretName, SecurityConfigUID, ControlledBySC, ControlledByClient
<1>1. TypeOK'
  <2>1. pass' \in Pass
    BY DEF Pass
  <2> QED
    BY <2>1
<1>2. OneClientPerEdit'
  BY DEF Pass, OperatorState, Status, OneClientPerEdit, CanCreate
<1>3. Holders'
  BY DEF Pass, OperatorState, Status, Holders, WorkerInv
<1>4. WorkerInv'
  BY DEF Pass, OperatorState, Status, WorkerInv, Holders, ClientSettled, SecretSettled, StatusSettled
<1>5. OperatorInv'
  BY DEF Pass, OperatorState, Status, OperatorInv, Holders, WorkerInv
<1> QED
  BY <1>1, <1>2, <1>3, <1>4, <1>5

\* A pass that ends without errors and events leaves what it has established.
LEMMA FinishPassHInv == ASSUME HInv, FinishPass PROVE HInv'
<1> USE HandoverAssumption
    DEF HInv, FinishPass, TypeOK, Client, Secret, Name, Mode,
        ReconcileAction, SecretFromRefName, SecretName, SecurityConfigUID, ControlledBySC, ControlledByClient
<1>1. TypeOK'
  <2>1. NewStatus \in Status
    <3> USE DEF Status
    <3>1. CASE pass.failed \/ pass.mode \in {"Disabled", "SecretRef"}
      BY <3>1 DEF NewStatus
    <3>2. CASE ~pass.failed /\ pass.mode = "InlineClient"
      <4>1. client \in Client
        BY <3>2 DEF WorkerInv, ClientSettled
      <4> QED
        BY <3>2, <4>1 DEF NewStatus
    <3> QED
      BY <3>1, <3>2 DEF Pass
  <2>2. pass' \in Pass
    BY DEF Pass
  <2> QED
    BY <2>1, <2>2
<1>2. OneClientPerEdit'
  BY DEF Pass, OperatorState, Status, OneClientPerEdit, CanCreate
<1>3. Holders'
  BY DEF Pass, OperatorState, Status, Holders, WorkerInv, NewStatus
<1>4. WorkerInv'
  BY DEF Pass, OperatorState, Status, WorkerInv, Holders, ClientSettled, SecretSettled, StatusSettled, NewStatus
<1>5. OperatorInv'
  BY DEF Pass, OperatorState, Status, OperatorInv, Holders, WorkerInv, NewStatus
<1> QED
  BY <1>1, <1>2, <1>3, <1>4, <1>5

\* The operator takes its request and reads its client.
LEMMA OperatorBeginHInv == ASSUME HInv, OperatorBegin PROVE HInv'
<1> USE HandoverAssumption
    DEF HInv, OperatorBegin, TypeOK, Client, Secret, Name, Mode,
        ReconcileAction, SecretFromRefName, SecretName, SecurityConfigUID, ControlledBySC, ControlledByClient
<1>1. TypeOK'
  <2>1. op' \in OperatorState
    BY DEF OperatorState
  <2> QED
    BY <2>1
<1>2. OneClientPerEdit'
  BY DEF Pass, OperatorState, Status, OneClientPerEdit, CanCreate
<1>3. Holders'
  BY DEF Pass, OperatorState, Status, Holders, WorkerInv
<1>4. WorkerInv'
  BY DEF Pass, OperatorState, Status, WorkerInv, Holders, ClientSettled, SecretSettled, StatusSettled
<1>5. OperatorInv'
  BY DEF Pass, OperatorState, Status, OperatorInv, Holders, WorkerInv
<1> QED
  BY <1>1, <1>2, <1>3, <1>4, <1>5

\* The operator reports only on a Secret it has found or written.
LEMMA OperatorGetHInv == ASSUME HInv, OperatorGet PROVE HInv'
<1> USE HandoverAssumption
    DEF HInv, OperatorGet, TypeOK, Client, Secret, Name, Mode,
        ReconcileAction, SecretFromRefName, SecretName, SecurityConfigUID, ControlledBySC, ControlledByClient
<1>1. TypeOK'
  BY DEF Pass, OperatorState, Status
<1>2. OneClientPerEdit'
  BY DEF Pass, OperatorState, Status, OneClientPerEdit, CanCreate
<1>3. Holders'
  BY DEF Pass, OperatorState, Status, Holders, WorkerInv
<1>4. WorkerInv'
  BY DEF Pass, OperatorState, Status, WorkerInv, Holders, ClientSettled, SecretSettled, StatusSettled
<1>5. OperatorInv'
  BY DEF Pass, OperatorState, Status, OperatorInv, Holders, WorkerInv
<1> QED
  BY <1>1, <1>2, <1>3, <1>4, <1>5

\* The Secret of a client holds its credentials; one of accesserator is not taken over.
LEMMA OperatorWritesHInv == ASSUME HInv, OperatorWrites PROVE HInv'
<1> USE HandoverAssumption
    DEF HInv, OperatorWrites, Store, TypeOK, Client, Secret, Name, Mode,
        ReconcileAction, SecretFromRefName, SecretName, SecurityConfigUID, ControlledBySC, ControlledByClient
<1>1. TypeOK'
  <2>1. secret' \in [Name -> Secret \cup {Absent}]
    <3>1. CASE op.pc = "create"
      BY <3>1 DEF OperatorState
    <3>2. CASE op.pc = "update"
      <4>1. secret[SecretName] \in Secret
        BY <3>2 DEF Holders
      <4>2. secret' = [secret EXCEPT ![SecretName] = [secret[SecretName] EXCEPT !.data = "client"]]
        BY <3>2
      <4> QED
        BY <4>1, <4>2
    <3> QED
      BY <3>1, <3>2
  <2>2. op' \in OperatorState
    BY DEF OperatorState
  <2> QED
    BY <2>1, <2>2
<1>2. OneClientPerEdit'
  BY DEF Pass, OperatorState, Status, OneClientPerEdit, CanCreate
<1>3. Holders'
  BY DEF Pass, OperatorState, Status, Holders, WorkerInv
<1>4. WorkerInv'
  BY DEF Pass, OperatorState, Status, WorkerInv, Holders, ClientSettled, SecretSettled, StatusSettled
<1>5. OperatorInv'
  BY DEF Pass, OperatorState, Status, OperatorInv, Holders, WorkerInv
<1> QED
  BY <1>1, <1>2, <1>3, <1>4, <1>5

\* A collision puts the request back.
LEMMA OperatorCollidesHInv == ASSUME HInv, OperatorCollides PROVE HInv'
<1> USE HandoverAssumption
    DEF HInv, OperatorCollides, OperatorRetries, TypeOK, Client, Secret, Name, Mode,
        ReconcileAction, SecretFromRefName, SecretName, SecurityConfigUID, ControlledBySC, ControlledByClient
<1>1. TypeOK'
  BY DEF Pass, OperatorState, Status
<1>2. OneClientPerEdit'
  BY DEF Pass, OperatorState, Status, OneClientPerEdit, CanCreate
<1>3. Holders'
  BY DEF Pass, OperatorState, Status, Holders, WorkerInv
<1>4. WorkerInv'
  BY DEF Pass, OperatorState, Status, WorkerInv, Holders, ClientSettled, SecretSettled, StatusSettled
<1>5. OperatorInv'
  BY DEF Pass, OperatorState, Status, OperatorInv, Holders, WorkerInv
<1> QED
  BY <1>1, <1>2, <1>3, <1>4, <1>5

\* After the report the client is ready, and whoever waits for it is woken.
LEMMA OperatorReportsHInv == ASSUME HInv, OperatorReports PROVE HInv'
<1> USE HandoverAssumption
    DEF HInv, OperatorReports, TypeOK, Client, Secret, Name, Mode,
        ReconcileAction, SecretFromRefName, SecretName, SecurityConfigUID, ControlledBySC, ControlledByClient
<1>1. TypeOK'
  <2>1. client' \in Client /\ queued' \in BOOLEAN /\ opQueued' \in BOOLEAN
    OBVIOUS
  <2>2. op' \in OperatorState
    BY DEF OperatorState
  <2> QED
    BY <2>1, <2>2
<1>2. OneClientPerEdit'
  BY DEF Pass, OperatorState, Status, OneClientPerEdit, CanCreate
<1>3. Holders'
  BY DEF Pass, OperatorState, Status, Holders, WorkerInv
<1>4. WorkerInv'
  BY DEF Pass, OperatorState, Status, WorkerInv, Holders, ClientSettled, SecretSettled, StatusSettled
<1>5. OperatorInv'
  BY DEF Pass, OperatorState, Status, OperatorInv, Holders, WorkerInv
<1> QED
  BY <1>1, <1>2, <1>3, <1>4, <1>5

\* Without a client the request is put back.
LEMMA OperatorFindsNoneHInv == ASSUME HInv, OperatorFindsNone PROVE HInv'
<1> USE HandoverAssumption
    DEF HInv, OperatorFindsNone, OperatorRetries, TypeOK, Client, Secret, Name, Mode,
        ReconcileAction, SecretFromRefName, SecretName, SecurityConfigUID, ControlledBySC, ControlledByClient
<1>1. TypeOK'
  BY DEF Pass, OperatorState, Status
<1>2. OneClientPerEdit'
  BY DEF Pass, OperatorState, Status, OneClientPerEdit, CanCreate
<1>3. Holders'
  BY DEF Pass, OperatorState, Status, Holders, WorkerInv
<1>4. WorkerInv'
  BY DEF Pass, OperatorState, Status, WorkerInv, Holders, ClientSettled, SecretSettled, StatusSettled
<1>5. OperatorInv'
  BY DEF Pass, OperatorState, Status, OperatorInv, Holders, WorkerInv
<1> QED
  BY <1>1, <1>2, <1>3, <1>4, <1>5

\* A fault puts the request back.
LEMMA OperatorFailsHInv == ASSUME HInv, OperatorFails PROVE HInv'
<1> USE HandoverAssumption
    DEF HInv, OperatorFails, OperatorRetries, TypeOK, Client, Secret, Name, Mode,
        ReconcileAction, SecretFromRefName, SecretName, SecurityConfigUID, ControlledBySC, ControlledByClient
<1>1. TypeOK'
  BY DEF Pass, OperatorState, Status
<1>2. OneClientPerEdit'
  BY DEF Pass, OperatorState, Status, OneClientPerEdit, CanCreate
<1>3. Holders'
  BY DEF Pass, OperatorState, Status, Holders, WorkerInv
<1>4. WorkerInv'
  BY DEF Pass, OperatorState, Status, WorkerInv, Holders, ClientSettled, SecretSettled, StatusSettled
<1>5. OperatorInv'
  BY DEF Pass, OperatorState, Status, OperatorInv, Holders, WorkerInv
<1> QED
  BY <1>1, <1>2, <1>3, <1>4, <1>5

\* The removal of an orphan is an event for the operator.
LEMMA CollectSecretHInv == ASSUME HInv, CollectSecret PROVE HInv'
<1> USE HandoverAssumption
    DEF HInv, CollectSecret, Store, Overtaken, Orphan, TypeOK, Client, Secret, Name, Mode,
        ReconcileAction, SecretFromRefName, SecretName, SecurityConfigUID, ControlledBySC, ControlledByClient
<1>1. TypeOK'
  BY DEF Pass, OperatorState, Status
<1>2. OneClientPerEdit'
  BY DEF Pass, OperatorState, Status, OneClientPerEdit, CanCreate
<1>3. Holders'
  BY DEF Pass, OperatorState, Status, Holders, WorkerInv
<1>4. WorkerInv'
  BY DEF Pass, OperatorState, Status, WorkerInv, Holders, ClientSettled, SecretSettled, StatusSettled
<1>5. OperatorInv'
  BY DEF Pass, OperatorState, Status, OperatorInv, Holders, WorkerInv
<1> QED
  BY <1>1, <1>2, <1>3, <1>4, <1>5

\* A resync only wakes.
LEMMA ResyncHInv == ASSUME HInv, Resync PROVE HInv'
<1> USE HandoverAssumption
    DEF HInv, Resync, TypeOK, Client, Secret, Name, Mode,
        ReconcileAction, SecretFromRefName, SecretName, SecurityConfigUID, ControlledBySC, ControlledByClient
<1>1. TypeOK'
  BY DEF Pass, OperatorState, Status
<1>2. OneClientPerEdit'
  BY DEF Pass, OperatorState, Status, OneClientPerEdit, CanCreate
<1>3. Holders'
  BY DEF Pass, OperatorState, Status, Holders, WorkerInv
<1>4. WorkerInv'
  BY DEF Pass, OperatorState, Status, WorkerInv, Holders, ClientSettled, SecretSettled, StatusSettled
<1>5. OperatorInv'
  BY DEF Pass, OperatorState, Status, OperatorInv, Holders, WorkerInv
<1> QED
  BY <1>1, <1>2, <1>3, <1>4, <1>5

\* An edit wakes accesserator.
LEMMA EditHInv == ASSUME HInv, Edit PROVE HInv'
<1> USE HandoverAssumption
    DEF HInv, Edit, TypeOK, Client, Secret, Name, Mode,
        ReconcileAction, SecretFromRefName, SecretName, SecurityConfigUID, ControlledBySC, ControlledByClient
<1>1. TypeOK'
  BY DEF Pass, OperatorState, Status
<1>2. OneClientPerEdit'
  BY DEF Pass, OperatorState, Status, OneClientPerEdit, CanCreate
<1>3. Holders'
  BY DEF Pass, OperatorState, Status, Holders, WorkerInv
<1>4. WorkerInv'
  BY DEF Pass, OperatorState, Status, WorkerInv, Holders, ClientSettled, SecretSettled, StatusSettled
<1>5. OperatorInv'
  BY DEF Pass, OperatorState, Status, OperatorInv, Holders, WorkerInv
<1> QED
  BY <1>1, <1>2, <1>3, <1>4, <1>5

\* Every step keeps the invariant.
LEMMA StepHInv == HInv /\ [Next]_vars => HInv'
<1> SUFFICES ASSUME HInv, [Next]_vars PROVE HInv'
  OBVIOUS
<1>1. CASE Worker
  BY <1>1, BeginPassHInv, ReconcileClientHInv, GetSecretHInv, CallSecretHInv, FinishPassHInv
  DEF Worker
<1>2. CASE Operator
  BY <1>2, OperatorBeginHInv, OperatorGetHInv, OperatorWritesHInv, OperatorCollidesHInv,
     OperatorReportsHInv, OperatorFindsNoneHInv
  DEF Operator
<1>3. CASE SlotFails \/ OperatorFails \/ CollectSecret \/ Resync \/ Edit
  BY <1>3, SlotFailsHInv, OperatorFailsHInv, CollectSecretHInv, ResyncHInv, EditHInv
<1>4. CASE UNCHANGED vars
  BY <1>4 DEF vars, HInv, TypeOK, OneClientPerEdit, CanCreate, Holders, WorkerInv, OperatorInv,
              ClientSettled, SecretSettled, StatusSettled, SecretName
<1> QED
  BY <1>1, <1>2, <1>3, <1>4 DEF Next

\* It holds initially.
LEMMA InitHInv == Init => HInv
<1> SUFFICES ASSUME Init PROVE HInv
  OBVIOUS
<1> USE HandoverAssumption DEF Init
<1>1. TypeOK
  <2>1. pass \in Pass /\ op \in OperatorState
    BY DEF Pass, OperatorState, Mode, ReconcileAction, SecurityConfigUID
  <2>2. status \in Status /\ secret \in [Name -> Secret \cup {Absent}]
    BY DEF Status
  <2>3. born \in 0..(MaxEdits + 1) /\ edits \in 0..MaxEdits /\ faults \in 0..MaxFaults
    OBVIOUS
  <2>4. queued \in BOOLEAN /\ opQueued \in BOOLEAN
    OBVIOUS
  <2>5. namesake \in BOOLEAN /\ mode \in Mode /\ client \in Client \cup {Absent}
    OBVIOUS
  <2> HIDE DEF Init
  <2> QED
    BY <2>1, <2>2, <2>3, <2>4, <2>5 DEF TypeOK
<1>2. OneClientPerEdit /\ Holders
  BY DEF OneClientPerEdit, CanCreate, Holders, ControlledBySC, ControlledByClient, Name, SecretName
<1>3. WorkerInv /\ OperatorInv
  BY DEF WorkerInv, OperatorInv
<1> QED
  BY <1>1, <1>2, <1>3 DEF HInv

\* Hence it is an invariant.
LEMMA Invariance == Spec => []HInv
  BY InitHInv, StepHInv, PTL DEF Spec

\* Every reachable state is well typed, for any number of edits and faults; in
\* particular accesserator creates at most one client per edit of the spec.
THEOREM HandoverTypeCorrect == Spec => []TypeOK
<1>1. HInv => TypeOK
  BY DEF HInv
<1> QED
  BY <1>1, Invariance, PTL

\* When accesserator, the operator and the garbage collector are idle, the status
\* names the Secret of the present way to configure the client, which holds the
\* credentials of that way; only the Secret of a namesake's inline client may be
\* missing.
THEOREM CredentialsInPlace == Spec => []RestsWithCredentials
<1>1. HInv => RestsWithCredentials
  <2> SUFFICES ASSUME HInv, AtRest, mode # "Disabled" PROVE Served \/ DeletedAfterReport
    BY DEF RestsWithCredentials
  <2> USE DEF HInv, AtRest
  <2>1. ClientSettled(mode) /\ SecretSettled(mode) /\ StatusSettled
    BY DEF WorkerInv
  <2>2. CASE mode = "SecretRef"
    BY <2>1, <2>2 DEF SecretSettled, StatusSettled, Served, WantedName, WantedData, ControlledBySC
  <2>3. CASE mode = "InlineClient"
    <3>1. client # Absent /\ client.ready /\ (~namesake => secret["ofClient"] # Absent)
      BY <2>1, <2>3 DEF ClientSettled, OperatorInv
    <3>2. status = [ready |-> TRUE, name |-> SecretName]
      BY <2>1, <2>3, <3>1 DEF StatusSettled, TypeOK, Client
    <3>3. SecretName \in Name /\ ~ControlledBySC(secret[SecretName])
      BY <2>1, <2>3 DEF SecretSettled, SecretName, SecretFromRefName, Name, Holders
    <3>4. CASE secret[SecretName] = Absent
      BY <2>3, <3>1, <3>2, <3>4 DEF DeletedAfterReport, SecretName
    <3>5. CASE secret[SecretName] # Absent
      <4>1. secret[SecretName].data = "client"
        BY <3>3, <3>5 DEF Holders, ControlledBySC, ControlledByClient
      <4> QED
        BY <2>3, <3>2, <3>5, <4>1 DEF Served, WantedName, WantedData
    <3> QED
      BY <3>4, <3>5
  <2> QED
    BY <2>2, <2>3 DEF TypeOK, Mode
<1> QED
  BY <1>1, Invariance, PTL

=============================================================================
