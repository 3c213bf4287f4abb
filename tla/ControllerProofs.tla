-------------------------- MODULE ControllerProofs --------------------------
(***************************************************************************)
(* Proofs about the controller, for any number of slots, specs, faults and *)
(* other writers: it never rests while a slot, a reference or the status   *)
(* of the SecurityConfig is not as it should be, and it never calls a spec *)
(* ready that it has not reconciled.                                       *)
(***************************************************************************)
EXTENDS Controller, ResourceReconcileProofs, WellFoundedInduction

-----------------------------------------------------------------------------
(* The inductive invariant. *)

\* What an undelivered event says of the informer's copy: without one the copy
\* is the stored object, and while all of them are about others neither the
\* copy nor the stored object is ours.
Events ==
  \A k \in Known :
    /\ pend[k] = "no" => cache[k] = obj[k]
    /\ pend[k] = "other" => ~OwnedBySC(cache[k]) /\ ~OwnedBySC(obj[k])

\* A pass has a SecurityConfig to work on, and the scope is that SecurityConfig's.
Scoped ==
  /\ pc = "idle" <=> self = NoSC
  /\ pc \in {"idle", "label", "resolve"} => uid = Other
  /\ pc \in {"get", "call", "state"} => Resolved
  /\ Resolved => /\ uid = self.uid
                 /\ \A r \in Resource : want[r] = Nil <=> self.spec.desired[r] = Nil

\* A UID and a generation determine a spec, in the API server's copy c of a
\* SecurityConfig and in an earlier copy d of it.
Older(d, c) ==
  d # NoSC /\ c # NoSC /\ d.uid = c.uid =>
    /\ d.gen <= c.gen
    /\ d.gen = c.gen => d.spec = c.spec /\ d.deleting = c.deleting

Versions ==
  /\ \A c \in {sc, scCache, self} : c # NoSC => c.uid \in born
  /\ Older(scCache, sc)
  /\ Older(self, sc)
  /\ Older(self, scCache)

\* The conditions of a status that says "ready" are those of spec s.
Truthful(st, s) ==
  st.ready => \A r \in Resource : st.conds[r] \in
     IF s.desired[r] = Nil THEN {"none"} ELSE {"created", "updated", "reconciled"}

\* The message of a status tells whether it says "ready".
SaysReady(st) == st.ready => st.msg = "ready"

\* The status a pass holds is labelled with the generation it works on, and says
\* ready only of that generation's spec.
Labelled ==
  pc # "idle" => /\ self.status.observed = self.gen
                 /\ ~Resolved => ~self.status.ready
                 /\ pc = "write" => Truthful(self.status, self.spec) /\ SaysReady(self.status)

\* So does the stored one, while the name has had one bearer only.
StoredLabelled ==
  /\ sc # NoSC => SaysReady(sc.status)
  /\ sc # NoSC /\ born = {sc.uid} =>
       /\ sc.status.observed <= sc.gen
       /\ sc.status.observed = sc.gen => Truthful(sc.status, sc.spec)

\* The slot is, in the informer's eyes, as SecurityConfig u wants it.
CachedAs(r, u, w) ==
  IF w = Nil THEN ~IsControlledBy(cache[r], u)
             ELSE IsControlledBy(cache[r], u) /\ cache[r].val = w

\* The informer has a SecurityConfig to reconcile and no request is waiting, so
\* a wake-up that is still needed has to come from an event under way.
Quiet == scCache # NoSC /\ ~scCache.deleting /\ ~queued

\* The pass that is running works on what the informer holds.
PassCurrent ==
  /\ pc # "idle" => self.uid = scCache.uid /\ self.gen = scCache.gen
  /\ pc = "idle" \/ Resolved => Resolvable(scCache.spec, inputCache)
  /\ Resolved => want = Desired(scCache.spec, inputCache)

\* What is done is as desired, or an event is under way that will wake the
\* controller.
SlotsAsDesired ==
  \A r \in Resource : (pc = "idle" \/ Processed(r)) /\ r \notin errs =>
    \/ pend[r] = "ours"
    \/ CachedAs(r, scCache.uid, Desired(scCache.spec, inputCache)[r])

\* A call that is about to be made is about what the informer still holds.
CallCurrent ==
  pc = "call" /\ action \in {"update", "delete"} =>
    /\ cache[idx] = current
    /\ action = "update" => current.val # want[idx]

\* No wake-up is lost.
Wakeful == Quiet => PassCurrent /\ SlotsAsDesired /\ CallCurrent

\* A status that says of the informer's SecurityConfig and objects what is true.
TrueStatus(st) ==
  /\ \A k \in Known : WaitsFor(scCache.spec, k) =>
       cache[k] # NoObject /\ st.secret[k] = cache[k].sync
  /\ st.ready <=> \A k \in Known : WaitsFor(scCache.spec, k) => cache[k].sync # Nil
  /\ {r \in Resource : st.conds[r] # "none"} = {r \in Resource : scCache.spec.desired[r] # Nil}

\* The status about to be written is true, and so is the stored one when the last
\* pass wrote it or found nothing to write, until something wakes the
\* controller.  One that was written has the present generation.
StatusTold ==
  Quiet =>
    /\ pc = "write" /\ Resolved /\ errs = {} =>
         TrueStatus(self.status) /\ self.status.observed = scCache.gen
    /\ /\ pc = "idle"
       /\ report \in {"written", "skipped"}
       /\ sc # NoSC
       /\ sc.uid = scCache.uid
       /\ sc.gen = scCache.gen
       => /\ TrueStatus(sc.status)
          /\ report = "written" => sc.status.observed = scCache.gen

CInv ==
  /\ ControllerTypeOK
  /\ IInv
  /\ Events
  /\ Scoped
  /\ Versions
  /\ Labelled
  /\ StoredLabelled
  /\ Wakeful
  /\ StatusTold

-----------------------------------------------------------------------------
(* Lemmas about the records: what an update of one field leaves alone. *)

\* A SecurityConfig and NoSC are told apart, and the fields have their types.
LEMMA Fields ==
  ASSUME NEW c \in SecurityConfig
  PROVE  /\ c # NoSC
         /\ c.uid \in Uid /\ c.gen \in 1..MaxGen /\ c.gen \in Nat /\ c.spec \in Specs
         /\ c.labelled \in BOOLEAN /\ c.deleting \in BOOLEAN /\ c.status \in Status
         /\ c.uid # Other
         /\ c.spec.desired \in [Resource -> Value \cup {Nil, FromInput}]
         /\ c.spec.gates \in Seq(Known)
<1>1. c # NoSC
  BY ControllerAssumption
<1>2. /\ c.uid \in Uid /\ c.gen \in 1..MaxGen /\ c.spec \in Specs
      /\ c.labelled \in BOOLEAN /\ c.deleting \in BOOLEAN /\ c.status \in Status
  BY DEF SecurityConfig
<1>3. c.gen \in Nat
  BY <1>2, ControllerAssumption
<1>4. c.uid # Other
  BY <1>2, ConstantsAssumption
<1>5. c.spec \in SpecType
  BY <1>2, ControllerAssumption
<1>6. /\ c.spec.desired \in [Resource -> Value \cup {Nil, FromInput}]
      /\ c.spec.gates \in Seq(Known)
  BY <1>5 DEF SpecType
<1> QED BY <1>1, <1>2, <1>3, <1>4, <1>6

\* UpdateStatus changes the status only.
LEMMA PutStatus ==
  ASSUME NEW c \in SecurityConfig, NEW st \in Status
  PROVE  LET d == [c EXCEPT !.status = st]
         IN  /\ d \in SecurityConfig
             /\ d.uid = c.uid /\ d.gen = c.gen /\ d.spec = c.spec /\ d.labelled = c.labelled
             /\ d.deleting = c.deleting /\ d.status = st
  BY DEF SecurityConfig

\* The label patch changes the labels only.
LEMMA PutLabels ==
  ASSUME NEW c \in SecurityConfig
  PROVE  LET d == [c EXCEPT !.labelled = TRUE]
         IN  /\ d \in SecurityConfig
             /\ d.uid = c.uid /\ d.gen = c.gen /\ d.spec = c.spec
             /\ d.deleting = c.deleting /\ d.status = c.status
  BY DEF SecurityConfig

\* An edit changes the spec and the generation.
LEMMA PutSpec ==
  ASSUME NEW c \in SecurityConfig, NEW s \in Specs, c.gen < MaxGen
  PROVE  LET d == [c EXCEPT !.spec = s, !.gen = c.gen + 1]
         IN  /\ d \in SecurityConfig
             /\ d.uid = c.uid /\ d.gen = c.gen + 1 /\ d.spec = s
             /\ d.deleting = c.deleting /\ d.status = c.status
<1>1. c.gen + 1 \in 1..MaxGen
  BY ControllerAssumption DEF SecurityConfig
<1> QED BY <1>1 DEF SecurityConfig

\* A deletion timestamp is a new generation too.
LEMMA PutDeletion ==
  ASSUME NEW c \in SecurityConfig, c.gen < MaxGen
  PROVE  LET d == [c EXCEPT !.deleting = TRUE, !.gen = c.gen + 1]
         IN  /\ d \in SecurityConfig
             /\ d.uid = c.uid /\ d.gen = c.gen + 1 /\ d.spec = c.spec
             /\ d.deleting = TRUE /\ d.status = c.status
<1>1. c.gen + 1 \in 1..MaxGen
  BY ControllerAssumption DEF SecurityConfig
<1> QED BY <1>1 DEF SecurityConfig

\* InitializeStatus labels a status with a generation and takes its readiness.
LEMMA Initialized ==
  ASSUME NEW st \in Status, NEW g \in 1..MaxGen
  PROVE  /\ InitializeStatus(st, g) \in Status
         /\ InitializeStatus(st, g).observed = g
         /\ InitializeStatus(st, g).ready = FALSE
<1>1. g \in 0..MaxGen
  BY ControllerAssumption
<1> QED BY <1>1 DEF InitializeStatus, Status, Phase

\* The status of a new SecurityConfig.
LEMMA NoStatusType == NoStatus \in Status /\ ~NoStatus.ready /\ NoStatus.observed = 0
  BY ControllerAssumption DEF NoStatus, Status, Phase, Message, NoDescendants, Result

\* A failed resolution changes the phase and the message only.
LEMMA Unresolved ==
  ASSUME NEW c \in SecurityConfig
  PROVE  LET d == [c EXCEPT !.status.phase = "Failed", !.status.msg = "unresolved"]
         IN  /\ d \in SecurityConfig
             /\ d.uid = c.uid /\ d.gen = c.gen /\ d.spec = c.spec /\ d.deleting = c.deleting
             /\ d.status.observed = c.status.observed /\ d.status.ready = c.status.ready
  BY DEF SecurityConfig, Status, Phase, Message

\* A budget is never overdrawn.
LEMMA BudgetType ==
  ASSUME budget \in 0..MaxDisturbances
  PROVE  /\ \A kind : Disturb(kind) => budget' \in 0..MaxDisturbances
         /\ \A outcome : Spend(outcome) => budget' \in 0..MaxDisturbances
<1>1. \A kind : Disturb(kind) => budget' \in 0..MaxDisturbances
  BY ControllerAssumption DEF Disturb
<1>2. \A outcome : Spend(outcome) => budget' \in 0..MaxDisturbances
  BY <1>1 DEF Spend
<1> QED BY <1>1, <1>2

-----------------------------------------------------------------------------
(* What the status manager builds. *)

\* The first of some positions is one of them.
LEMMA FirstIn ==
  ASSUME NEW S \in SUBSET Nat, S # {}
  PROVE  First(S) \in S
<1> DEFINE R == OpToRel(<, Nat)
<1>1. IsWellFoundedOn(R, Nat)
  BY NatLessThanWellFounded
<1>2. \A x, y \in Nat : y < x => <<y, x>> \in R
  BY DEF OpToRel
<1> HIDE DEF R
<1>3. PICK x \in S : \A y \in S : ~(<<y, x>> \in R)
  BY <1>1, WFMin
<1>4. ASSUME NEW y \in S PROVE x <= y
  <2>1. ~(y < x)
    BY <1>2, <1>3, <1>4
  <2> QED BY <2>1, <1>4
<1> QED BY <1>4 DEF First

\* DetermineReconciliationState finds the loop complete exactly when it ended
\* without an error; then every wanted slot has a good descendant, no other one.
LEMMA VerdictMeaning ==
  ASSUME IInv, Scoped, self \in SecurityConfig, pc = "state"
  PROVE  /\ LoopVerdict \in {"failed", "missing", "complete"}
         /\ LoopVerdict = "complete" <=> errs = {}
         /\ errs = {} => \A r \in Resource : descendants[r] \in
              IF self.spec.desired[r] = Nil THEN {"none"} ELSE {"created", "updated", "reconciled"}
<1>0. /\ TypeOK
      /\ \A r \in Resource : want[r] = Nil <=> self.spec.desired[r] = Nil
  BY DEF Scoped, IInv
<1>1. (\A r \in Resource : descendants[r] # "error") <=> errs = {}
  BY <1>0 DEF IInv, FailuresReported, TypeOK
<1>2. LoopVerdict = "complete" => errs = {}
  BY <1>1 DEF LoopVerdict
<1>3. ASSUME errs = {}
      PROVE  /\ LoopVerdict = "complete"
             /\ \A r \in Resource : descendants[r] \in
                 IF self.spec.desired[r] = Nil THEN {"none"} ELSE {"created", "updated", "reconciled"}
  <2>1. \A r \in Resource : descendants[r] # "none" <=> want[r] # Nil
    BY <1>1, <1>3 DEF IInv, Progress, Processed
  <2>2. {r \in Resource : descendants[r] # "none"} = {r \in Resource : want[r] # Nil}
    BY <2>1
  <2>3. LoopVerdict = "complete"
    BY <1>1, <1>3, <2>2 DEF LoopVerdict
  <2>4. \A r \in Resource : descendants[r] \in Result
    BY <1>0 DEF TypeOK
  <2> QED BY <1>0, <1>1, <1>3, <2>1, <2>3, <2>4 DEF Result
<1> QED BY <1>2, <1>3 DEF LoopVerdict

\* The status that UpdateSecurityConfigStatus builds at the end of a loop: it is
\* labelled with the generation of the pass, it says ready only of the spec of
\* the pass, and after a loop without an error it says what the objects say.
LEMMA Built ==
  ASSUME ControllerTypeOK, IInv, Scoped, pc = "state",
         LoopVerdict = "complete" => ~GateMissing(self.spec)
  PROVE  LET st == BuildStatus(self, LoopVerdict, cache)
         IN  /\ st \in Status
             /\ st.observed = self.gen
             /\ Truthful(st, self.spec)
             /\ st.msg = "ready" <=> st.ready
             /\ errs = {} =>
                  /\ \A k \in Known : WaitsFor(self.spec, k) =>
                       cache[k] # NoObject /\ st.secret[k] = cache[k].sync
                  /\ st.ready <=> \A k \in Known : WaitsFor(self.spec, k) => cache[k].sync # Nil
                  /\ {r \in Resource : st.conds[r] # "none"} =
                       {r \in Resource : self.spec.desired[r] # Nil}
<1> DEFINE waiting == IF LoopVerdict = "complete" THEN Waiting(self.spec, cache) ELSE {}
           ready   == LoopVerdict = "complete" /\ waiting = {}
           phase   == IF LoopVerdict = "failed" THEN "Failed" ELSE IF ready THEN "Ready" ELSE "Pending"
           msg     == IF LoopVerdict # "complete" THEN LoopVerdict
                      ELSE IF ready THEN "ready" ELSE "waiting"
           waitFor == IF waiting = {} THEN Nil ELSE self.spec.gates[First(waiting)]
           conds   == [r \in Resource |-> IF descendants[r] = "none" /\ want[r] # Nil
                                            THEN "missing" ELSE descendants[r]]
           secret  == [k \in Known |->
                         IF LoopVerdict = "complete" /\ WaitsFor(self.spec, k)
                           THEN cache[k].sync ELSE self.status.secret[k]]
           st      == BuildStatus(self, LoopVerdict, cache)
<1>0. self \in SecurityConfig /\ TypeOK
  BY DEF Scoped, ControllerTypeOK
<1>1. /\ self.gen \in 0..MaxGen
      /\ self.spec.gates \in Seq(Known)
      /\ self.status \in Status
      /\ self.status.secret \in [Known -> Value \cup {Nil}]
  BY <1>0, Fields, ControllerAssumption DEF Status
<1>2. /\ DOMAIN self.spec.gates \subseteq Nat
      /\ \A i \in DOMAIN self.spec.gates : self.spec.gates[i] \in Known
  BY <1>1
<1>3. st = [observed |-> self.gen, ready |-> ready, phase |-> phase, msg |-> msg,
            waitFor |-> waitFor, conds |-> conds, secret |-> secret]
  BY DEF BuildStatus
<1>4. LoopVerdict \in {"failed", "missing", "complete"}
  BY <1>0, VerdictMeaning
<1>5. \A k \in Known : LoopVerdict = "complete" /\ WaitsFor(self.spec, k) =>
        cache[k] # NoObject /\ cache[k].sync \in Value \cup {Nil}
  <2> SUFFICES ASSUME NEW k \in Known, LoopVerdict = "complete", WaitsFor(self.spec, k)
               PROVE  cache[k] # NoObject /\ cache[k].sync \in Value \cup {Nil}
    OBVIOUS
  <2>1. cache[k] # NoObject
    BY DEF WaitsFor, GateMissing
  <2>2. cache[k] \in Object
    BY <1>0, <2>1 DEF TypeOK
  <2> QED BY <2>1, <2>2 DEF Object
<1>6. waitFor \in Known \cup {Nil}
  <2>1. waiting \in SUBSET Nat /\ waiting \subseteq DOMAIN self.spec.gates
    BY <1>2 DEF Waiting
  <2> HIDE DEF waiting
  <2> QED BY <1>2, <2>1, FirstIn
<1>7. ready \in BOOLEAN /\ phase \in Phase /\ msg \in Message
  BY <1>4 DEF Phase, Message
<1>8. secret \in [Known -> Value \cup {Nil}]
  BY <1>1, <1>5
<1>9. conds \in [Resource -> Result \cup {"missing"}]
  BY <1>0 DEF TypeOK
<1>10. errs = {} => \A r \in Resource : conds[r] = descendants[r]
  <2>1. errs = {} => \A r \in Resource : descendants[r] # "none" <=> self.spec.desired[r] # Nil
    BY <1>0, VerdictMeaning
  <2> QED BY <2>1 DEF Scoped
<1>11. ready => \A r \in Resource : conds[r] \in
          IF self.spec.desired[r] = Nil THEN {"none"} ELSE {"created", "updated", "reconciled"}
  BY <1>0, <1>10, VerdictMeaning
<1>12. ASSUME errs = {}
       PROVE  /\ LoopVerdict = "complete"
              /\ ready <=> \A k \in Known : WaitsFor(self.spec, k) => cache[k].sync # Nil
              /\ {r \in Resource : conds[r] # "none"} = {r \in Resource : self.spec.desired[r] # Nil}
  <2>1. LoopVerdict = "complete"
    BY <1>0, <1>12, VerdictMeaning
  <2>2. waiting = {} <=> \A i \in DOMAIN self.spec.gates : cache[self.spec.gates[i]].sync # Nil
    BY <2>1 DEF Waiting
  <2>3. ready <=> \A k \in Known : WaitsFor(self.spec, k) => cache[k].sync # Nil
    BY <2>1, <2>2, <1>2 DEF WaitsFor
  <2>4. \A r \in Resource : descendants[r] # "none" <=> self.spec.desired[r] # Nil
    BY <1>0, <1>12, VerdictMeaning
  <2>5. \A r \in Resource : conds[r] # "none" <=> self.spec.desired[r] # Nil
    BY <2>4, <1>10, <1>12
  <2> HIDE DEF conds, ready
  <2> QED BY <2>1, <2>3, <2>5
<1>18. msg = "ready" <=> ready
  BY <1>4
<1> HIDE DEF waiting, ready, phase, msg, waitFor, conds, secret, st
<1>13. st \in Status
  BY <1>1, <1>3, <1>6, <1>7, <1>8, <1>9 DEF Status
<1>14. st.observed = self.gen /\ st.ready = ready /\ st.conds = conds /\ st.secret = secret
       /\ st.msg = msg
  BY <1>3
<1>15. Truthful(st, self.spec)
  BY <1>11, <1>14 DEF Truthful
<1>16. ASSUME errs = {}, NEW k \in Known, WaitsFor(self.spec, k)
       PROVE  cache[k] # NoObject /\ st.secret[k] = cache[k].sync
  BY <1>5, <1>12, <1>14, <1>16 DEF secret
<1>17. ASSUME errs = {}
       PROVE  /\ st.ready <=> \A k \in Known : WaitsFor(self.spec, k) => cache[k].sync # Nil
              /\ {r \in Resource : st.conds[r] # "none"} =
                   {r \in Resource : self.spec.desired[r] # Nil}
  BY <1>12, <1>14, <1>17
<1> USE DEF st
<1> QED BY <1>13, <1>14, <1>15, <1>16, <1>17, <1>18

-----------------------------------------------------------------------------
(* Steps that leave most of the state alone. *)

\* A write by anyone marks the event it causes truthfully, and no mark of an
\* event of ours is lost.
LEMMA StoreEvents ==
  ASSUME TypeOK, Events, NEW k \in Known, NEW o \in Object \cup {NoObject},
         Store(k, o), UNCHANGED cache
  PROVE  Events' /\ \A r \in Known : pend[r] = "ours" => pend'[r] = "ours"
<1>1. obj' = [obj EXCEPT ![k] = o]
  BY DEF Store
<1>2. ASSUME NEW r \in Known, r # k
      PROVE  obj'[r] = obj[r] /\ pend'[r] = pend[r]
  BY <1>2 DEF Store, TypeOK
<1>3. /\ obj'[k] = o
      /\ pend'[k] = IF o = obj[k] THEN pend[k]
                    ELSE IF pend[k] = "ours" \/ OwnedBySC(obj[k]) \/ OwnedBySC(o) THEN "ours"
                    ELSE "other"
  BY DEF Store, TypeOK
<1>4. pend[k] \in {"no", "other", "ours"}
  BY DEF TypeOK
<1>5. /\ pend'[k] = "no" => cache[k] = obj'[k]
      /\ pend'[k] = "other" => ~OwnedBySC(cache[k]) /\ ~OwnedBySC(obj'[k])
  BY <1>3, <1>4 DEF Events
<1> QED BY <1>2, <1>3, <1>5 DEF Events, OwnedBySC

\* The pass's own invariant does not depend on the store.
LEMMA PassKept ==
  ASSUME IInv, Scoped, UNCHANGED <<passVars, self>>,
         obj' \in [Known -> Object \cup {NoObject}],
         cache' \in [Known -> Object \cup {NoObject}],
         pend' \in [Known -> {"no", "other", "ours"}]
  PROVE  IInv' /\ Scoped'
<1> USE DEF passVars, scopeVars, slotVars
<1>1. TypeOK'
  BY DEF IInv, TypeOK
<1>2. Clean' /\ LoopEnd' /\ FailuresReported' /\ Progress' /\ CallJustified'
  BY DEF IInv, Clean, LoopEnd, FailuresReported, Progress, Processed, CallJustified
<1>3. Scoped'
  BY DEF Scoped, Resolved
<1> QED BY <1>1, <1>2, <1>3 DEF IInv

\* The two copies are of the same version of a SecurityConfig.
SameVersion(d, c) ==
  /\ d # NoSC /\ c # NoSC
  /\ d.uid = c.uid /\ d.gen = c.gen /\ d.spec = c.spec /\ d.deleting = c.deleting

\* Writes of labels and statuses, and the loss of copies, keep versions apart.
LEMMA VersionsKept ==
  ASSUME Versions, UNCHANGED <<born, scCache>>,
         sc' = sc \/ sc' = NoSC \/ SameVersion(sc', sc),
         self' = self \/ self' = NoSC \/ SameVersion(self', self)
  PROVE  Versions'
  BY DEF Versions, Older, SameVersion

\* Who leaves the stored status and spec alone leaves it labelled.
LEMMA StoredKept ==
  ASSUME StoredLabelled, UNCHANGED born,
         sc' = sc \/ sc' = NoSC \/ (SameVersion(sc', sc) /\ sc'.status = sc.status)
  PROVE  StoredLabelled'
  BY DEF StoredLabelled, SaysReady, SameVersion, Truthful

\* Everyone else who writes an object: the worker and the SecurityConfig are not
\* touched, and an event is on its way.
LEMMA OthersStore ==
  ASSUME CInv, NEW k \in Known, NEW o \in Object \cup {NoObject}, Store(k, o),
         UNCHANGED <<workerVars, clusterVars>>, budget' \in 0..MaxDisturbances
  PROVE  CInv'
<1> USE DEF workerVars, clusterVars, cacheVars, localVars
<1>0. TypeOK /\ ControllerTypeOK
  BY DEF CInv, ControllerTypeOK
<1>1. /\ obj' \in [Known -> Object \cup {NoObject}]
      /\ pend' \in [Known -> {"no", "other", "ours"}]
      /\ cache' = cache /\ cache \in [Known -> Object \cup {NoObject}]
  BY <1>0, StoreType DEF TypeOK
<1>2. IInv' /\ Scoped'
  BY <1>1, PassKept DEF CInv
<1>3. ControllerTypeOK'
  BY <1>0, <1>2 DEF IInv, ControllerTypeOK
<1>4. Events' /\ \A r \in Known : pend[r] = "ours" => pend'[r] = "ours"
  BY <1>0, StoreEvents DEF CInv
<1>5. Versions' /\ Labelled' /\ StoredLabelled'
  BY DEF CInv, Versions, Older, Labelled, SaysReady, StoredLabelled, Truthful, Resolved, passVars, scopeVars
<1>6. Wakeful'
  <2>1. Quiet' => Quiet
    BY DEF Quiet
  <2>2. PassCurrent /\ Quiet => PassCurrent'
    BY DEF PassCurrent, Resolved, passVars, scopeVars
  <2>3. SlotsAsDesired => SlotsAsDesired'
    BY <1>4 DEF SlotsAsDesired, Processed, CachedAs, passVars, scopeVars, slotVars, Known
  <2>4. CallCurrent => CallCurrent'
    BY DEF CallCurrent, passVars, scopeVars, slotVars
  <2> QED BY <2>1, <2>2, <2>3, <2>4 DEF CInv, Wakeful
<1>7. StatusTold'
  BY DEF CInv, StatusTold, Quiet, TrueStatus, Resolved, passVars, scopeVars, slotVars
<1> QED BY <1>2, <1>3, <1>4, <1>5, <1>6, <1>7 DEF CInv

\* Writes, removals and reports of other controllers and users on the objects.
LEMMA OthersCInv ==
  ASSUME CInv, Others, ~FinishDeletion
  PROVE  CInv'
<1>0. /\ \A k \in Known : obj[k] \in Object \cup {NoObject}
      /\ Gates \subseteq Known
  <2>1. TypeOK
    BY DEF CInv, ControllerTypeOK
  <2>2. \A s \in Specs : \A i \in DOMAIN s.gates : s.gates[i] \in Known
    BY ControllerAssumption DEF SpecType
  <2> QED BY <2>1, <2>2 DEF TypeOK, Gates
<1>1. budget \in 0..MaxDisturbances
  BY DEF CInv, ControllerTypeOK
<1>2. ASSUME NEW k \in Known, NEW v \in Value, OthersWrite(k, v) PROVE CInv'
  <2> DEFINE o == [owner |-> IF OwnedBySC(obj[k]) THEN obj[k].owner ELSE Other,
                   val |-> v,
                   sync |-> IF obj[k] = NoObject THEN Nil ELSE obj[k].sync]
  <2>1. Store(k, o) /\ UNCHANGED <<workerVars, clusterVars>> /\ Disturb("write")
    BY <1>2 DEF OthersWrite, ForeignWrite
  <2>2. o \in Object
    BY <1>0 DEF Object, OwnedBySC, Owner
  <2> HIDE DEF o
  <2> QED BY <1>1, <2>1, <2>2, BudgetType, OthersStore
<1>3. ASSUME NEW k \in Known, OthersDisown(k) PROVE CInv'
  <2> DEFINE o == [obj[k] EXCEPT !.owner = Other]
  <2>1. Store(k, o) /\ UNCHANGED <<workerVars, clusterVars>> /\ Disturb("disown") /\ obj[k] # NoObject
    BY <1>3 DEF OthersDisown, OwnedBySC
  <2>2. o \in Object
    BY <1>0, <2>1 DEF Object, Owner
  <2> HIDE DEF o
  <2> QED BY <1>1, <2>1, <2>2, BudgetType, OthersStore
<1>4. ASSUME NEW k \in Known, OthersDelete(k) PROVE CInv'
  BY <1>1, <1>4, BudgetType, OthersStore DEF OthersDelete, ForeignDelete
<1>5. ASSUME NEW k \in Gates, Synchronise(k) PROVE CInv'
  <2> DEFINE o == [obj[k] EXCEPT !.sync = obj[k].val]
  <2>1. Store(k, o) /\ UNCHANGED <<workerVars, clusterVars>> /\ UNCHANGED budget /\ obj[k] # NoObject
    BY <1>5 DEF Synchronise
  <2>2. o \in Object /\ k \in Known
    BY <1>0, <2>1 DEF Object
  <2> HIDE DEF o
  <2> QED BY <1>1, <2>1, <2>2, OthersStore
<1>6. ASSUME NEW k \in Gates, Desynchronise(k) PROVE CInv'
  <2> DEFINE o == [obj[k] EXCEPT !.sync = Nil]
  <2>1. Store(k, o) /\ UNCHANGED <<workerVars, clusterVars>> /\ Disturb("desync") /\ obj[k] # NoObject
    BY <1>6 DEF Desynchronise
  <2>2. o \in Object /\ k \in Known
    BY <1>0, <2>1 DEF Object
  <2> HIDE DEF o
  <2> QED BY <1>1, <2>1, <2>2, BudgetType, OthersStore
<1>7. ASSUME NEW k \in Known, Collect(k) PROVE CInv'
  BY <1>1, <1>7, OthersStore DEF Collect
<1> QED BY <1>2, <1>3, <1>4, <1>5, <1>6, <1>7 DEF Others

\* A change of the stored SecurityConfig or of the referenced object: the worker
\* and its caches are not touched.
LEMMA ClusterStep ==
  ASSUME CInv, UNCHANGED <<storeVars, workerVars>>,
         sc' \in SecurityConfig \cup {NoSC}, born' \subseteq Uid, input' \in Value \cup {Nil},
         budget' \in 0..MaxDisturbances, Versions', StoredLabelled',
         sc' # NoSC /\ scCache # NoSC /\ sc'.uid = scCache.uid /\ sc'.gen = scCache.gen
           => sc # NoSC /\ sc.uid = scCache.uid /\ sc.gen = scCache.gen /\ sc'.status = sc.status
  PROVE  CInv'
<1> USE DEF workerVars, storeVars, cacheVars, localVars
<1>1. IInv' /\ Scoped'
  BY PassKept DEF CInv, ControllerTypeOK, TypeOK
<1>2. ControllerTypeOK'
  BY <1>1 DEF CInv, IInv, ControllerTypeOK
<1>3. Events' /\ Labelled'
  BY DEF CInv, Events, Labelled, SaysReady, Truthful, Resolved, passVars, scopeVars
<1>4. Wakeful'
  <2>1. PassCurrent => PassCurrent'
    BY DEF PassCurrent, Resolved, passVars, scopeVars
  <2>2. SlotsAsDesired => SlotsAsDesired'
    BY DEF SlotsAsDesired, Processed, CachedAs, passVars, scopeVars, slotVars
  <2>3. CallCurrent => CallCurrent'
    BY DEF CallCurrent, passVars, scopeVars, slotVars
  <2> QED BY <2>1, <2>2, <2>3 DEF CInv, Wakeful, Quiet
<1>5. StatusTold'
  <2>1. Quiet' => Quiet
    BY DEF Quiet
  <2> QED
    BY <2>1 DEF CInv, StatusTold, Quiet, TrueStatus, Resolved, passVars, scopeVars, slotVars
<1> QED BY <1>1, <1>2, <1>3, <1>4, <1>5 DEF CInv

\* Users submit, edit and delete the SecurityConfig, and change what it refers
\* to; a deletion in the foreground ends.
LEMMA UsersCInv ==
  ASSUME CInv, Users \/ FinishDeletion
  PROVE  CInv'
<1> USE DEF clusterVars
<1>0. /\ sc \in SecurityConfig \cup {NoSC} /\ scCache \in SecurityConfig \cup {NoSC}
      /\ self \in SecurityConfig \cup {NoSC}
      /\ born \subseteq Uid /\ input \in Value \cup {Nil}
      /\ budget \in 0..MaxDisturbances /\ Versions /\ StoredLabelled
  BY DEF CInv, ControllerTypeOK
<1>1. ASSUME NEW s \in Specs, UserCreates(s) PROVE CInv'
  <2>1. PICK u \in Uid \ born :
          /\ born' = born \cup {u}
          /\ sc' = [uid |-> u, gen |-> 1, spec |-> s, labelled |-> FALSE,
                    deleting |-> FALSE, status |-> NoStatus]
    BY <1>1 DEF UserCreates
  <2>2. sc = NoSC /\ UNCHANGED <<storeVars, workerVars, input, budget>>
    BY <1>1 DEF UserCreates
  <2>3. 1 \in 1..MaxGen
    BY ControllerAssumption
  <2>4. /\ sc' \in SecurityConfig
        /\ sc'.uid = u /\ sc'.gen = 1 /\ sc'.status = NoStatus
    BY <2>1, <2>3, NoStatusType DEF SecurityConfig
  <2>5. sc' # NoSC /\ scCache' = scCache /\ self' = self
    BY <2>2, <2>4, Fields DEF workerVars, cacheVars, localVars
  <2>6. \A c \in {scCache, self} : c # NoSC => c.uid # u /\ c.uid \in born'
    BY <1>0, <2>1 DEF Versions
  <2>7. Versions'
    BY <1>0, <2>1, <2>4, <2>5, <2>6 DEF Versions, Older
  <2>8. StoredLabelled'
    BY <2>4, NoStatusType DEF StoredLabelled, SaysReady, Truthful
  <2>9. born' \subseteq Uid
    BY <1>0, <2>1
  <2> QED BY <1>0, <2>2, <2>4, <2>6, <2>7, <2>8, <2>9, ClusterStep
<1>2. ASSUME NEW s \in Specs, UserEdits(s) PROVE CInv'
  <2>1. /\ sc # NoSC /\ sc.gen < MaxGen
        /\ sc' = [sc EXCEPT !.spec = s, !.gen = sc.gen + 1]
        /\ UNCHANGED <<storeVars, workerVars, born, input, budget>>
    BY <1>2 DEF UserEdits
  <2>2. sc \in SecurityConfig /\ sc.gen \in Nat
    BY <1>0, <2>1, Fields
  <2>3. /\ sc' \in SecurityConfig /\ sc' # NoSC
        /\ sc'.uid = sc.uid /\ sc'.gen = sc.gen + 1 /\ sc'.status = sc.status
    BY <2>1, <2>2, PutSpec, Fields
  <2>4. /\ scCache' = scCache /\ self' = self
        /\ scCache # NoSC => scCache.gen \in Nat
        /\ self # NoSC => self.gen \in Nat
    BY <1>0, <2>1, Fields DEF workerVars, cacheVars, localVars
  <2>5. \A c \in {scCache, self} : c # NoSC /\ c.uid = sc.uid => c.gen < sc'.gen
    BY <1>0, <2>1, <2>2, <2>3, <2>4 DEF Versions, Older
  <2>6. Versions'
    <3>1. \A c \in {scCache, self} : c # NoSC /\ c.uid = sc'.uid => c.gen <= sc'.gen /\ c.gen # sc'.gen
      BY <2>2, <2>3, <2>4, <2>5
    <3> QED BY <1>0, <2>1, <2>3, <2>4, <3>1 DEF Versions, Older
  <2>7. StoredLabelled'
    <3>1. sc.status.observed \in Nat
      BY <2>2, Fields, ControllerAssumption DEF Status
    <3> QED BY <1>0, <2>1, <2>2, <2>3, <3>1 DEF StoredLabelled, SaysReady
  <2>8. scCache # NoSC /\ sc'.uid = scCache.uid => sc'.gen # scCache.gen
    BY <2>2, <2>3, <2>4, <2>5
  <2> QED BY <1>0, <2>1, <2>3, <2>6, <2>7, <2>8, ClusterStep
<1>3. ASSUME UserDeletesForeground PROVE CInv'
  <2>1. /\ sc # NoSC /\ sc.gen < MaxGen
        /\ sc' = [sc EXCEPT !.deleting = TRUE, !.gen = sc.gen + 1]
        /\ UNCHANGED <<storeVars, workerVars, born, input>>
        /\ Disturb("remove")
    BY <1>3 DEF UserDeletesForeground
  <2>2. sc \in SecurityConfig /\ sc.gen \in Nat
    BY <1>0, <2>1, Fields
  <2>3. /\ sc' \in SecurityConfig /\ sc' # NoSC
        /\ sc'.uid = sc.uid /\ sc'.gen = sc.gen + 1 /\ sc'.status = sc.status
    BY <2>1, <2>2, PutDeletion, Fields
  <2>4. /\ scCache' = scCache /\ self' = self
        /\ scCache # NoSC => scCache.gen \in Nat
        /\ self # NoSC => self.gen \in Nat
    BY <1>0, <2>1, Fields DEF workerVars, cacheVars, localVars
  <2>5. \A c \in {scCache, self} : c # NoSC /\ c.uid = sc.uid => c.gen < sc'.gen
    BY <1>0, <2>1, <2>2, <2>3, <2>4 DEF Versions, Older
  <2>6. Versions'
    <3>1. \A c \in {scCache, self} : c # NoSC /\ c.uid = sc'.uid => c.gen <= sc'.gen /\ c.gen # sc'.gen
      BY <2>2, <2>3, <2>4, <2>5
    <3> QED BY <1>0, <2>1, <2>3, <2>4, <3>1 DEF Versions, Older
  <2>7. StoredLabelled'
    <3>1. sc.status.observed \in Nat
      BY <2>2, Fields, ControllerAssumption DEF Status
    <3> QED BY <1>0, <2>1, <2>2, <2>3, <3>1 DEF StoredLabelled, SaysReady
  <2>8. scCache # NoSC /\ sc'.uid = scCache.uid => sc'.gen # scCache.gen
    BY <2>2, <2>3, <2>4, <2>5
  <2> QED BY <1>0, <2>1, <2>3, <2>6, <2>7, <2>8, BudgetType, ClusterStep
<1>4. ASSUME UserDeletes \/ FinishDeletion PROVE CInv'
  <2>1. sc' = NoSC /\ UNCHANGED <<storeVars, workerVars, born, input>> /\ budget' \in 0..MaxDisturbances
    BY <1>0, <1>4, BudgetType DEF UserDeletes, FinishDeletion
  <2>2. Versions' /\ StoredLabelled'
    BY <1>0, <2>1, VersionsKept, StoredKept DEF workerVars, cacheVars, localVars
  <2> QED BY <1>0, <2>1, <2>2, ClusterStep
<1>5. ASSUME NEW v \in Value \cup {Nil}, InputChanges(v) PROVE CInv'
  <2>1. /\ input' = v /\ UNCHANGED <<storeVars, workerVars, sc, born>>
        /\ budget' \in 0..MaxDisturbances
    BY <1>0, <1>5, BudgetType DEF InputChanges
  <2>2. Versions' /\ StoredLabelled'
    BY <1>0, <2>1, VersionsKept, StoredKept DEF workerVars, cacheVars, localVars
  <2> QED BY <1>0, <2>1, <2>2, ClusterStep
<1> QED BY <1>1, <1>2, <1>3, <1>4, <1>5 DEF Users

-----------------------------------------------------------------------------
(* Watches and restarts. *)

\* The informer catches up with the SecurityConfig: what is not queued is a
\* change of labels or status.
LEMMA DeliverSCCInv ==
  ASSUME CInv, DeliverSC
  PROVE  CInv'
<1> USE DEF rrVars, storeVars, clusterVars, localVars
<1>0. /\ scCache' = sc
      /\ UNCHANGED <<rrVars, clusterVars, inputCache, localVars, report, budget>>
      /\ queued' = (queued \/ NoSC \in {sc, scCache} \/ sc.uid # scCache.uid \/ sc.gen # scCache.gen)
  BY DEF DeliverSC
<1>1. /\ sc \in SecurityConfig \cup {NoSC} /\ scCache \in SecurityConfig \cup {NoSC}
      /\ queued \in BOOLEAN /\ TypeOK /\ ControllerTypeOK
  BY DEF CInv, ControllerTypeOK
<1>2. IInv' /\ Scoped'
  BY <1>0, <1>1, PassKept DEF CInv, TypeOK
<1>3. queued' \in BOOLEAN
  BY <1>0
<1>4. ControllerTypeOK'
  BY <1>0, <1>1, <1>2, <1>3 DEF IInv, ControllerTypeOK
<1>5. Events' /\ Labelled' /\ StoredLabelled'
  BY <1>0 DEF CInv, Events, Labelled, SaysReady, StoredLabelled, Truthful, Resolved, passVars, scopeVars
<1>6. Versions'
  <2>1. sc # NoSC => sc.gen <= sc.gen
    BY <1>1, Fields
  <2> QED BY <1>0, <2>1 DEF CInv, Versions, Older
<1>7. Quiet' => /\ Quiet /\ sc # NoSC
                /\ scCache'.uid = scCache.uid /\ scCache'.gen = scCache.gen
                /\ scCache'.spec = scCache.spec
                /\ sc.uid = scCache.uid /\ sc.gen = scCache.gen
  BY <1>0 DEF Quiet, CInv, Versions, Older
<1>8. Wakeful'
  <2> SUFFICES ASSUME Quiet' PROVE PassCurrent' /\ SlotsAsDesired' /\ CallCurrent'
    BY DEF Wakeful
  <2>1. PassCurrent /\ SlotsAsDesired /\ CallCurrent
    BY <1>7 DEF CInv, Wakeful
  <2>2. PassCurrent'
    BY <1>0, <1>7, <2>1 DEF PassCurrent, Resolved, passVars, scopeVars
  <2>3. SlotsAsDesired'
    BY <1>0, <1>7, <2>1 DEF SlotsAsDesired, Processed, CachedAs, passVars, scopeVars, slotVars
  <2>4. CallCurrent'
    BY <1>0, <2>1 DEF CallCurrent, passVars, scopeVars, slotVars
  <2> QED BY <2>2, <2>3, <2>4
<1>9. StatusTold'
  BY <1>0, <1>7 DEF CInv, StatusTold, TrueStatus, Resolved, passVars, scopeVars, slotVars
<1> QED BY <1>2, <1>4, <1>5, <1>6, <1>8, <1>9 DEF CInv

\* The informer catches up with the referenced object: what is not queued does
\* not concern the SecurityConfig.
LEMMA DeliverInputCInv ==
  ASSUME CInv, DeliverInput
  PROVE  CInv'
<1> USE DEF rrVars, storeVars, clusterVars, localVars
<1>0. /\ inputCache' = input
      /\ UNCHANGED <<rrVars, clusterVars, scCache, localVars, report, budget>>
      /\ queued' = (queued \/ (scCache # NoSC /\ RefersToInput(scCache.spec)))
  BY DEF DeliverInput
<1>1. queued \in BOOLEAN /\ TypeOK /\ ControllerTypeOK
  BY DEF CInv, ControllerTypeOK
<1>2. IInv' /\ Scoped'
  BY <1>0, <1>1, PassKept DEF CInv, TypeOK
<1>3. queued' \in BOOLEAN
  BY <1>0
<1>4. ControllerTypeOK'
  BY <1>0, <1>1, <1>2, <1>3 DEF IInv, ControllerTypeOK
<1>5. Events' /\ Labelled' /\ StoredLabelled' /\ Versions'
  BY <1>0 DEF CInv, Events, Labelled, SaysReady, StoredLabelled, Versions, Older, Truthful, Resolved,
              passVars, scopeVars
<1>6. Quiet' => Quiet /\ ~RefersToInput(scCache.spec)
  BY <1>0 DEF Quiet
<1>7. Quiet' => /\ Resolvable(scCache.spec, inputCache')
                /\ Desired(scCache.spec, inputCache') = Desired(scCache.spec, inputCache)
  BY <1>6 DEF Resolvable, Desired, RefersToInput
<1>8. Wakeful'
  <2> SUFFICES ASSUME Quiet' PROVE PassCurrent' /\ SlotsAsDesired' /\ CallCurrent'
    BY DEF Wakeful
  <2>1. PassCurrent /\ SlotsAsDesired /\ CallCurrent
    BY <1>6 DEF CInv, Wakeful
  <2>2. PassCurrent'
    BY <1>0, <1>7, <2>1 DEF PassCurrent, Resolved, passVars, scopeVars
  <2>3. SlotsAsDesired'
    BY <1>0, <1>7, <2>1 DEF SlotsAsDesired, Processed, CachedAs, passVars, scopeVars, slotVars
  <2>4. CallCurrent'
    BY <1>0, <2>1 DEF CallCurrent, passVars, scopeVars, slotVars
  <2> QED BY <2>2, <2>3, <2>4
<1>9. StatusTold'
  BY <1>0, <1>6 DEF CInv, StatusTold, TrueStatus, Resolved, passVars, scopeVars, slotVars
<1> QED BY <1>2, <1>4, <1>5, <1>8, <1>9 DEF CInv

\* While nothing is queued, an event that wakes nobody is about an object that
\* no part of the pass's outcome speaks of.
LEMMA HarmlessEvent ==
  ASSUME CInv, Quiet, NEW k \in Known, pend[k] = "other",
         ~(k \in Ref /\ WaitsFor(scCache.spec, k)),
         pc = "idle" \/ (pc = "write" /\ Resolved), errs = {}
  PROVE  ~WaitsFor(scCache.spec, k)
<1> SUFFICES ASSUME WaitsFor(scCache.spec, k) PROVE FALSE
  OBVIOUS
<1>1. k \in Resource
  BY DEF Known
<1>2. scCache \in SecurityConfig
  BY DEF Quiet, CInv, ControllerTypeOK
<1>3. scCache.spec.desired[k] # Nil
  BY <1>1, <1>2, Fields, GatesAssumption DEF WaitsFor
<1>4. /\ Resolvable(scCache.spec, inputCache)
      /\ CachedAs(k, scCache.uid, Desired(scCache.spec, inputCache)[k])
  BY <1>1 DEF CInv, Wakeful, PassCurrent, SlotsAsDesired, Processed, Resolved
<1>5. Desired(scCache.spec, inputCache)[k] # Nil
  BY <1>1, <1>3, <1>4 DEF Resolvable, Desired, RefersToInput
<1>6. OwnedBySC(cache[k])
  BY <1>2, <1>4, <1>5, Fields DEF CachedAs, IsControlledBy, OwnedBySC
<1> QED BY <1>6 DEF CInv, Events

\* The informer catches up with an object: Owns and the handlers for clientRef
\* queue every event that matters.
LEMMA DeliverObjectCInv ==
  ASSUME CInv, NEW k \in Known, DeliverObject(k)
  PROVE  CInv'
<1> USE DEF clusterVars, cacheVars, localVars
<1>0. /\ pend[k] # "no" /\ obj' = obj
      /\ cache' = [cache EXCEPT ![k] = obj[k]]
      /\ pend' = [pend EXCEPT ![k] = "no"]
      /\ UNCHANGED <<passVars, clusterVars, cacheVars, localVars, report, budget>>
      /\ queued' = \/ queued
                   \/ pend[k] = "ours"
                   \/ k \in Ref /\ scCache # NoSC /\ WaitsFor(scCache.spec, k)
  BY DEF DeliverObject, Deliver
<1>1. queued \in BOOLEAN /\ TypeOK /\ ControllerTypeOK
  BY DEF CInv, ControllerTypeOK
<1>2. /\ obj' \in [Known -> Object \cup {NoObject}]
      /\ cache' \in [Known -> Object \cup {NoObject}]
      /\ pend' \in [Known -> {"no", "other", "ours"}]
  BY <1>0, <1>1 DEF TypeOK
<1>3. IInv' /\ Scoped'
  BY <1>0, <1>2, PassKept DEF CInv
<1>4. queued' \in BOOLEAN
  BY <1>0
<1>5. ControllerTypeOK'
  BY <1>0, <1>1, <1>3, <1>4 DEF IInv, ControllerTypeOK
<1>6. Labelled' /\ StoredLabelled' /\ Versions'
  BY <1>0 DEF CInv, Labelled, SaysReady, StoredLabelled, Versions, Older, Truthful, Resolved,
              passVars, scopeVars
<1>7. \A r \in Known : /\ r # k => cache'[r] = cache[r] /\ pend'[r] = pend[r]
                       /\ r = k => cache'[r] = obj[r] /\ pend'[r] = "no"
  BY <1>0, <1>1 DEF TypeOK
<1>8. Events'
  BY <1>0, <1>7 DEF CInv, Events, OwnedBySC
<1>9. Quiet' => Quiet /\ pend[k] = "other" /\ ~(k \in Ref /\ WaitsFor(scCache.spec, k))
  BY <1>0, <1>1 DEF Quiet, TypeOK
<1>10. Quiet' => ~OwnedBySC(cache[k]) /\ ~OwnedBySC(cache'[k])
  BY <1>7, <1>9 DEF CInv, Events
<1>11. Wakeful'
  <2> SUFFICES ASSUME Quiet' PROVE PassCurrent' /\ SlotsAsDesired' /\ CallCurrent'
    BY DEF Wakeful
  <2>0. PassCurrent /\ SlotsAsDesired /\ CallCurrent /\ pend[k] = "other"
    BY <1>9 DEF CInv, Wakeful
  <2>1. scCache.uid \in Uid
    BY Fields, <1>1, <1>9 DEF Quiet, ControllerTypeOK
  <2>2. PassCurrent'
    BY <1>0, <2>0 DEF PassCurrent, Resolved, passVars, scopeVars
  <2>3. SlotsAsDesired'
    <3> SUFFICES ASSUME NEW r \in Resource, (pc = "idle" \/ Processed(r))', r \notin errs'
                 PROVE  \/ pend'[r] = "ours"
                        \/ (CachedAs(r, scCache.uid, Desired(scCache.spec, inputCache)[r]))'
      BY DEF SlotsAsDesired
    <3>1. \/ pend[r] = "ours"
          \/ CachedAs(r, scCache.uid, Desired(scCache.spec, inputCache)[r])
      BY <1>0, <2>0 DEF SlotsAsDesired, Processed, passVars, scopeVars, slotVars
    <3>2. r \in Known
      BY DEF Known
    <3>3. CASE r # k
      BY <1>0, <1>7, <3>1, <3>2, <3>3 DEF CachedAs
    <3>4. CASE r = k
      <4>1. CachedAs(r, scCache.uid, Desired(scCache.spec, inputCache)[r])
        BY <2>0, <3>1, <3>4
      <4>2. ~IsControlledBy(cache[r], scCache.uid) /\ ~IsControlledBy(cache'[r], scCache.uid)
        BY <1>10, <2>1, <3>4 DEF OwnedBySC, IsControlledBy
      <4> QED BY <1>0, <4>1, <4>2 DEF CachedAs
    <3> QED BY <3>3, <3>4
  <2>4. CallCurrent'
    <3> SUFFICES ASSUME pc = "call", action \in {"update", "delete"}
                 PROVE  cache'[idx] = current /\ (action = "update" => current.val # want[idx])
      BY <1>0 DEF CallCurrent, passVars, scopeVars, slotVars
    <3>1. cache[idx] = current /\ (action = "update" => current.val # want[idx])
      BY <2>0 DEF CallCurrent
    <3>2. IsControlledBy(current, uid) /\ uid = self.uid /\ self \in SecurityConfig /\ idx \in Known
      BY <1>1 DEF CInv, IInv, CallJustified, Scoped, ControllerTypeOK, TypeOK, Known
    <3>3. OwnedBySC(cache[idx])
      BY <3>1, <3>2, Fields DEF OwnedBySC, IsControlledBy
    <3>4. idx # k
      BY <1>10, <3>3
    <3> QED BY <1>7, <3>1, <3>2, <3>4
  <2> QED BY <2>2, <2>3, <2>4
<1>12. StatusTold'
  <2> SUFFICES ASSUME Quiet', NEW st, TrueStatus(st),
                      pc = "idle" \/ (pc = "write" /\ Resolved), errs = {}
               PROVE  /\ \A q \in Known : WaitsFor(scCache.spec, q) =>
                           cache'[q] # NoObject /\ st.secret[q] = cache'[q].sync
                      /\ st.ready <=> \A q \in Known : WaitsFor(scCache.spec, q) => cache'[q].sync # Nil
                      /\ {r \in Resource : st.conds[r] # "none"} =
                           {r \in Resource : scCache.spec.desired[r] # Nil}
    <3>1. pc = "idle" => errs = {}
      BY DEF CInv, IInv, Clean
    <3> QED
      BY <1>0, <1>9, <3>1
      DEF CInv, StatusTold, TrueStatus, Resolved, passVars, scopeVars, slotVars
  <2>1. ~WaitsFor(scCache.spec, k)
    BY <1>9, HarmlessEvent
  <2>2. \A q \in Known : WaitsFor(scCache.spec, q) => cache'[q] = cache[q]
    BY <1>7, <2>1
  <2> QED BY <2>2 DEF TrueStatus
<1> QED BY <1>3, <1>5, <1>6, <1>8, <1>11, <1>12 DEF CInv

\* The end of a pass leaves the worker as the next one expects it.
LEMMA PassOverClean ==
  ASSUME PassOver,
         obj' \in [Known -> Object \cup {NoObject}],
         cache' \in [Known -> Object \cup {NoObject}],
         pend' \in [Known -> {"no", "other", "ours"}]
  PROVE  IInv' /\ Scoped' /\ Labelled' /\ base' \in Status /\ tries' \in 0..MaxTries
<1>0. /\ pc' = "idle" /\ uid' = Other /\ want' = NothingWanted /\ idx' = 1 /\ current' = NoObject
      /\ action' = "none" /\ descendants' = NoDescendants /\ errs' = {} /\ self' = NoSC
      /\ base' = NoStatus /\ tries' = 0
  BY DEF PassOver
<1>1. TypeOK'
  BY <1>0, ConstantsAssumption DEF TypeOK, Owner, NothingWanted, NoDescendants, Resource, Result
<1>2. Clean' /\ LoopEnd' /\ FailuresReported' /\ CallJustified'
  BY <1>0 DEF Clean, LoopEnd, FailuresReported, CallJustified, NoDescendants
<1>3. Progress'
  BY <1>0 DEF Progress, Processed, NoDescendants, Resource
<1>4. Scoped' /\ Labelled'
  BY <1>0 DEF Scoped, Labelled, SaysReady, Resolved
<1>5. base' \in Status /\ tries' \in 0..MaxTries
  BY <1>0, NoStatusType, ControllerAssumption
<1> QED BY <1>1, <1>2, <1>3, <1>4, <1>5 DEF IInv

\* A restart fills the caches and queues the SecurityConfig, if there is one.
LEMMA RestartCInv ==
  ASSUME CInv, Restart
  PROVE  CInv'
<1> USE DEF clusterVars
<1>0. /\ FinishPass(report, sc # NoSC \/ \E k \in Known : OwnedBySC(obj[k]))
      /\ scCache' = sc /\ inputCache' = input /\ cache' = obj
      /\ pend' = [k \in Known |-> "no"]
      /\ UNCHANGED <<obj, clusterVars>> /\ Disturb("restart")
  BY DEF Restart
<1>1. /\ PassOver /\ report' = report
      /\ queued' = (queued \/ sc # NoSC \/ \E k \in Known : OwnedBySC(obj[k]))
  BY <1>0 DEF FinishPass
<1>2. ControllerTypeOK /\ TypeOK
  BY DEF CInv, ControllerTypeOK
<1>3. /\ obj' \in [Known -> Object \cup {NoObject}]
      /\ cache' \in [Known -> Object \cup {NoObject}]
      /\ pend' \in [Known -> {"no", "other", "ours"}]
  BY <1>0, <1>2 DEF TypeOK
<1>4. IInv' /\ Scoped' /\ Labelled' /\ base' \in Status /\ tries' \in 0..MaxTries /\ self' = NoSC
  BY <1>1, <1>3, PassOverClean DEF PassOver
<1>5. queued' \in BOOLEAN /\ budget' \in 0..MaxDisturbances
  BY <1>0, <1>1, <1>2, BudgetType DEF ControllerTypeOK
<1>6. ControllerTypeOK'
  BY <1>0, <1>1, <1>2, <1>4, <1>5 DEF IInv, ControllerTypeOK
<1>7. Events'
  BY <1>0 DEF Events
<1>8. Versions' /\ StoredLabelled'
  <2>1. sc # NoSC => sc.gen <= sc.gen
    BY <1>2, Fields DEF ControllerTypeOK
  <2> QED BY <1>0, <1>4, <2>1 DEF CInv, Versions, Older, StoredLabelled, SaysReady, Truthful
<1>9. ~Quiet'
  BY <1>0, <1>1 DEF Quiet
<1> QED BY <1>4, <1>6, <1>7, <1>8, <1>9 DEF CInv, Wakeful, StatusTold

-----------------------------------------------------------------------------
(* The worker. *)

\* Reconcile returns: an error, and a resolution that failed, queue the
\* SecurityConfig again, so that a worker at rest has done all its slots.
LEMMA FinishWakeful ==
  ASSUME CInv, NEW rep, NEW failed \in BOOLEAN, FinishPass(rep, failed),
         UNCHANGED <<storeVars, cache, cacheVars>>,
         failed \/ (errs = {} /\ Resolved /\ pc \in {"state", "write"})
  PROVE  Wakeful'
<1> SUFFICES ASSUME Quiet' PROVE PassCurrent' /\ SlotsAsDesired' /\ CallCurrent'
  BY DEF Wakeful
<1>1. Quiet /\ ~failed
  BY DEF Quiet, FinishPass, cacheVars
<1>2. PassCurrent /\ SlotsAsDesired /\ Resolved /\ errs = {} /\ pc \in {"state", "write"}
  BY <1>1 DEF CInv, Wakeful
<1>3. pc' = "idle" /\ uid' = Other
  BY DEF FinishPass, PassOver
<1>4. PassCurrent'
  BY <1>2, <1>3 DEF PassCurrent, Resolved, cacheVars
<1>5. SlotsAsDesired'
  BY <1>2 DEF SlotsAsDesired, Processed, Resolved, CachedAs, cacheVars, storeVars
<1>6. CallCurrent'
  BY <1>3 DEF CallCurrent
<1> QED BY <1>4, <1>5, <1>6

\* A pass that ends: what is left to show is what it did to the stored
\* SecurityConfig and, when it wrote the status, that the status is true.
LEMMA FinishCInv ==
  ASSUME CInv, NEW rep \in Report, NEW failed \in BOOLEAN,
         FinishPass(rep, failed), UNCHANGED <<storeVars, cache, born, input, cacheVars>>,
         failed \/ (errs = {} /\ Resolved /\ pc \in {"state", "write"}),
         sc' = sc \/ SameVersion(sc', sc), sc' \in SecurityConfig \cup {NoSC}, StoredLabelled',
         budget' \in 0..MaxDisturbances,
         rep \in {"written", "skipped"} /\ Quiet' /\ sc' # NoSC
           /\ sc'.uid = scCache.uid /\ sc'.gen = scCache.gen
           => TrueStatus(sc'.status) /\ (rep = "written" => sc'.status.observed = scCache.gen)
  PROVE  CInv'
<1>1. /\ PassOver /\ report' = rep /\ queued' = (queued \/ failed)
      /\ pc' = "idle" /\ self' = NoSC /\ uid' = Other
  BY DEF FinishPass, PassOver
<1>2. ControllerTypeOK /\ TypeOK
  BY DEF CInv, ControllerTypeOK
<1>3. IInv' /\ Scoped' /\ Labelled' /\ base' \in Status /\ tries' \in 0..MaxTries
  BY <1>1, <1>2, PassOverClean DEF TypeOK, storeVars
<1>4. queued' \in BOOLEAN
  BY <1>1
<1>5. ControllerTypeOK'
  BY <1>1, <1>2, <1>3, <1>4 DEF IInv, ControllerTypeOK, cacheVars
<1>6. Events'
  BY DEF CInv, Events, storeVars
<1>7. Versions'
  BY <1>1, VersionsKept DEF CInv, cacheVars
<1>8. Wakeful'
  BY FinishWakeful
<1>9. StatusTold'
  BY <1>1 DEF StatusTold, TrueStatus, cacheVars
<1> QED BY <1>3, <1>5, <1>6, <1>7, <1>8, <1>9 DEF CInv

\* A pass starts from the informer's SecurityConfig, if there is one to
\* reconcile.
LEMMA BeginCInv ==
  ASSUME CInv, BeginReconcile
  PROVE  CInv'
<1> USE DEF storeVars, scopeVars, slotVars, clusterVars, cacheVars
<1>0. /\ ControllerTypeOK /\ TypeOK /\ scCache \in SecurityConfig \cup {NoSC}
      /\ IInv /\ Scoped /\ Versions
  BY DEF CInv, ControllerTypeOK
<1>1. /\ pc = "idle" /\ queued' = FALSE
      /\ UNCHANGED <<storeVars, cache, scopeVars, slotVars, clusterVars, cacheVars,
                     tries, report, budget>>
  BY DEF BeginReconcile
<1>2. idx = 1 /\ descendants = NoDescendants /\ errs = {} /\ uid = Other /\ self = NoSC
  BY <1>0, <1>1 DEF IInv, Clean, Scoped
<1>3. Events' /\ StoredLabelled'
  BY <1>1 DEF CInv, Events, StoredLabelled, SaysReady, Truthful
<1>4. CASE scCache = NoSC \/ scCache.deleting
  <2>1. UNCHANGED <<pc, self, base>>
    BY <1>4 DEF BeginReconcile
  <2>2. IInv' /\ Scoped'
    BY <1>0, <1>1, <2>1, PassKept DEF TypeOK, passVars
  <2>3. ControllerTypeOK'
    BY <1>0, <1>1, <2>1, <2>2 DEF IInv, ControllerTypeOK
  <2>4. Versions' /\ Labelled'
    BY <1>1, <2>1 DEF CInv, Versions, Older, Labelled, SaysReady
  <2>5. ~Quiet'
    BY <1>1, <1>4 DEF Quiet
  <2> QED BY <1>3, <2>2, <2>3, <2>4, <2>5 DEF CInv, Wakeful, StatusTold
<1>5. CASE scCache # NoSC /\ ~scCache.deleting
  <2> DEFINE st == InitializeStatus(scCache.status, scCache.gen)
  <2>1. scCache \in SecurityConfig /\ scCache.status \in Status /\ scCache.gen \in 1..MaxGen
    BY <1>0, <1>5, Fields
  <2>2. st \in Status /\ st.observed = scCache.gen /\ st.ready = FALSE
    BY <2>1, Initialized
  <2>3. /\ self' = [scCache EXCEPT !.status = st] /\ base' = st
        /\ pc' \in {"label", "resolve"}
    BY <1>5 DEF BeginReconcile
  <2> HIDE DEF st
  <2>4. /\ self' \in SecurityConfig /\ self' # NoSC
        /\ self'.uid = scCache.uid /\ self'.gen = scCache.gen /\ self'.spec = scCache.spec
        /\ self'.deleting = scCache.deleting /\ self'.status = st
    BY <2>1, <2>2, <2>3, PutStatus, Fields
  <2>5. TypeOK'
    BY <1>0, <1>1, <2>3 DEF TypeOK
  <2>6. IInv'
    <3>1. Clean' /\ LoopEnd' /\ CallJustified' /\ FailuresReported'
      BY <1>0, <1>1, <1>2, <2>3 DEF IInv, Clean, LoopEnd, CallJustified, FailuresReported
    <3>2. Progress'
      BY <1>1, <1>2, <2>3 DEF Progress, Processed, NoDescendants, Resource
    <3> QED BY <2>5, <3>1, <3>2 DEF IInv
  <2>7. Scoped'
    BY <1>1, <1>2, <2>3, <2>4 DEF Scoped, Resolved
  <2>8. ControllerTypeOK'
    BY <1>0, <1>1, <2>2, <2>3, <2>4, <2>5 DEF ControllerTypeOK
  <2>9. Versions'
    <3>1. scCache.gen <= scCache.gen
      BY <2>1, Fields
    <3>2. Older(scCache, sc) /\ sc' = sc /\ scCache' = scCache /\ born' = born
      BY <1>0, <1>1 DEF Versions
    <3>3. Older(self', sc) /\ Older(self', scCache)
      BY <1>5, <2>4, <3>1, <3>2 DEF Older
    <3>4. \A c \in {sc, scCache, self'} : c # NoSC => c.uid \in born
      BY <1>0, <1>5, <2>4 DEF Versions
    <3>5. (Older(scCache, sc))' /\ (Older(self, sc))' /\ (Older(self, scCache))'
      BY <3>2, <3>3 DEF Older
    <3>6. (\A c \in {sc, scCache, self} : c # NoSC => c.uid \in born)'
      BY <3>2, <3>4
    <3> QED BY <3>5, <3>6 DEF Versions
  <2>10. Labelled'
    BY <1>1, <2>2, <2>3, <2>4 DEF Labelled, SaysReady
  <2>11. Wakeful'
    <3>1. PassCurrent'
      BY <1>1, <1>2, <2>3, <2>4 DEF PassCurrent, Resolved
    <3>2. SlotsAsDesired' /\ CallCurrent'
      BY <1>1, <1>2, <2>3 DEF SlotsAsDesired, CallCurrent, Processed, Resource
    <3> QED BY <3>1, <3>2 DEF Wakeful
  <2>12. StatusTold'
    BY <2>3 DEF StatusTold
  <2> QED BY <1>3, <2>6, <2>7, <2>8, <2>9, <2>10, <2>11, <2>12 DEF CInv
<1> QED BY <1>4, <1>5

\* The label patch changes no version and no status of the SecurityConfig.
LEMMA PatchLabelsCInv ==
  ASSUME CInv, NEW outcome \in Outcome, PatchLabels(outcome)
  PROVE  CInv'
<1> USE DEF storeVars, scopeVars, slotVars, cacheVars
<1>0. /\ ControllerTypeOK /\ TypeOK /\ sc \in SecurityConfig \cup {NoSC}
      /\ IInv /\ Scoped /\ Versions /\ StoredLabelled
  BY DEF CInv, ControllerTypeOK
<1>1. /\ pc = "label" /\ budget' \in 0..MaxDisturbances
      /\ UNCHANGED <<storeVars, cache, born, input, cacheVars>>
  BY <1>0, BudgetType DEF PatchLabels, ControllerTypeOK
<1>2. /\ sc' \in SecurityConfig \cup {NoSC}
      /\ sc' = sc \/ (SameVersion(sc', sc) /\ sc'.status = sc.status)
  <2>1. sc' = sc \/ (sc # NoSC /\ sc' = [sc EXCEPT !.labelled = TRUE])
    BY DEF PatchLabels
  <2> QED BY <1>0, <2>1, PutLabels, Fields DEF SameVersion
<1>3. StoredLabelled'
  BY <1>0, <1>1, <1>2, StoredKept
<1>4. CASE sc # NoSC /\ outcome = "ok"
  <2>1. /\ base' = sc.status /\ pc' = "resolve"
        /\ UNCHANGED <<scopeVars, slotVars, self, tries, queued, report>>
    BY <1>4 DEF PatchLabels
  <2>2. IInv' /\ Scoped'
    <3>1. TypeOK'
      BY <1>0, <1>1, <2>1 DEF TypeOK
    <3>2. Clean' /\ LoopEnd' /\ CallJustified' /\ FailuresReported'
      BY <1>0, <1>1, <2>1 DEF IInv, Clean, LoopEnd, CallJustified, FailuresReported
    <3>3. Progress'
      BY <1>0, <1>1, <2>1 DEF IInv, Progress, Processed
    <3>4. Scoped'
      BY <1>0, <1>1, <2>1 DEF Scoped, Resolved
    <3> QED BY <3>1, <3>2, <3>3, <3>4 DEF IInv
  <2>3. ControllerTypeOK'
    BY <1>0, <1>1, <1>2, <1>4, <2>1, <2>2, Fields DEF IInv, ControllerTypeOK
  <2>4. Versions'
    BY <1>0, <1>1, <1>2, <2>1, VersionsKept
  <2>5. Events' /\ Labelled'
    BY <1>1, <2>1 DEF CInv, Events, Labelled, SaysReady, Resolved
  <2>6. Wakeful'
    BY <1>1, <2>1
    DEF CInv, Wakeful, Quiet, PassCurrent, SlotsAsDesired, CallCurrent, Processed, CachedAs, Resolved
  <2>7. StatusTold'
    BY <2>1 DEF StatusTold
  <2> QED BY <1>3, <2>2, <2>3, <2>4, <2>5, <2>6, <2>7 DEF CInv
<1>5. CASE ~(sc # NoSC /\ outcome = "ok")
  <2>1. FinishPass(report, TRUE)
    BY <1>5 DEF PatchLabels
  <2>2. ~Quiet' /\ report \in Report
    BY <1>0, <2>1 DEF Quiet, FinishPass, ControllerTypeOK
  <2>3. sc' = sc \/ SameVersion(sc', sc)
    BY <1>2
  <2> QED BY <1>1, <1>2, <1>3, <2>1, <2>2, <2>3, FinishCInv
<1> QED BY <1>4, <1>5

\* The scope of a pass is what the informers hold when it is resolved.
LEMMA ResolveCInv ==
  ASSUME CInv, NEW outcome \in Outcome, ResolveSucceeds \/ ResolveFails(outcome)
  PROVE  CInv'
<1> USE DEF storeVars, slotVars, clusterVars, cacheVars
<1>0. /\ ControllerTypeOK /\ TypeOK /\ IInv /\ Scoped /\ Versions /\ StoredLabelled /\ Labelled
      /\ pc = "resolve" /\ inputCache \in Value \cup {Nil}
  BY DEF CInv, ControllerTypeOK, ResolveSucceeds, ResolveFails
<1>1. /\ idx = 1 /\ descendants = NoDescendants /\ errs = {} /\ uid = Other
      /\ self \in SecurityConfig /\ self # NoSC
  BY <1>0 DEF IInv, Clean, Scoped, ControllerTypeOK
<1>2. UNCHANGED <<storeVars, cache, slotVars, clusterVars, cacheVars, base, queued, report>>
  BY DEF ResolveSucceeds, ResolveFails, localVars
<1>3. Events' /\ StoredLabelled'
  BY <1>2 DEF CInv, Events, StoredLabelled, SaysReady, Truthful
<1>4. CASE ResolveSucceeds
  <2>1. /\ Resolvable(self.spec, inputCache) /\ uid' = self.uid
        /\ want' = Desired(self.spec, inputCache) /\ pc' = "get"
        /\ self' = self /\ tries' = tries /\ budget' = budget
    BY <1>4 DEF ResolveSucceeds, localVars
  <2>2. self.uid \in Uid /\ self.uid # Other
        /\ self.spec.desired \in [Resource -> Value \cup {Nil, FromInput}]
    BY <1>1, Fields
  <2>3. /\ want' \in [Resource -> Value \cup {Nil}]
        /\ \A r \in Resource : want'[r] = Nil <=> self.spec.desired[r] = Nil
    <3>1. \A r \in Resource : want'[r] = IF self.spec.desired[r] = FromInput THEN inputCache
                                         ELSE self.spec.desired[r]
      BY <2>1 DEF Desired
    <3>2. FromInput # Nil
      BY ControllerAssumption
    <3>3. \A r \in Resource : self.spec.desired[r] = FromInput => inputCache # Nil
      BY <2>1 DEF Resolvable, RefersToInput
    <3> QED BY <1>0, <2>1, <2>2, <3>1, <3>2, <3>3 DEF Desired
  <2>4. TypeOK'
    BY <1>0, <1>2, <2>1, <2>2, <2>3 DEF TypeOK, Owner
  <2>5. IInv'
    <3>1. Clean' /\ LoopEnd' /\ CallJustified' /\ FailuresReported'
      BY <1>0, <1>2, <2>1 DEF IInv, Clean, LoopEnd, CallJustified, FailuresReported
    <3>2. Progress'
      BY <1>1, <1>2, <2>1 DEF Progress, Processed, NoDescendants, Resource
    <3> QED BY <2>4, <3>1, <3>2 DEF IInv
  <2>6. Scoped'
    BY <1>1, <2>1, <2>2, <2>3 DEF Scoped, Resolved
  <2>7. ControllerTypeOK'
    BY <1>0, <1>2, <2>1, <2>4 DEF ControllerTypeOK
  <2>8. Versions'
    BY <1>0, <1>2, <2>1, VersionsKept
  <2>9. Labelled'
    BY <1>0, <2>1, <2>2 DEF Labelled, SaysReady, Resolved
  <2>10. Wakeful'
    <3> SUFFICES ASSUME Quiet' PROVE PassCurrent' /\ SlotsAsDesired' /\ CallCurrent'
      BY DEF Wakeful
    <3>1. Quiet /\ PassCurrent
      BY <1>2 DEF Quiet, CInv, Wakeful
    <3>2. self.uid = scCache.uid /\ self.gen = scCache.gen /\ self.spec = scCache.spec
      BY <1>0, <1>1, <3>1 DEF PassCurrent, Quiet, Versions, Older
    <3>3. PassCurrent'
      BY <1>2, <2>1, <3>2 DEF PassCurrent
    <3>4. SlotsAsDesired' /\ CallCurrent'
      BY <1>1, <1>2, <2>1 DEF SlotsAsDesired, CallCurrent, Processed, Resource
    <3> QED BY <3>3, <3>4
  <2>11. StatusTold'
    BY <2>1 DEF StatusTold
  <2> QED BY <1>3, <2>5, <2>6, <2>7, <2>8, <2>9, <2>10, <2>11 DEF CInv
<1>5. CASE ResolveFails(outcome)
  <2>1. /\ self' = [self EXCEPT !.status.phase = "Failed", !.status.msg = "unresolved"]
        /\ tries' = MaxTries /\ pc' = "write" /\ UNCHANGED scopeVars
        /\ budget' \in 0..MaxDisturbances
    BY <1>0, <1>5, BudgetType DEF ResolveFails, ControllerTypeOK
  <2>2. /\ self' \in SecurityConfig /\ self' # NoSC
        /\ self'.uid = self.uid /\ self'.gen = self.gen /\ self'.spec = self.spec
        /\ self'.deleting = self.deleting
        /\ self'.status.observed = self.status.observed /\ self'.status.ready = self.status.ready
    BY <1>1, <2>1, Unresolved, Fields
  <2>3. uid' = Other /\ want' = want
    BY <1>1, <2>1 DEF scopeVars
  <2>4. TypeOK'
    BY <1>0, <1>2, <2>1, <2>3 DEF TypeOK, Owner
  <2>5. IInv'
    <3>1. Clean' /\ LoopEnd' /\ CallJustified' /\ FailuresReported'
      BY <1>0, <1>2, <2>1 DEF IInv, Clean, LoopEnd, CallJustified, FailuresReported
    <3>2. Progress'
      BY <1>1, <1>2, <2>1, <2>3 DEF Progress, Processed, NoDescendants, Resource
    <3> QED BY <2>4, <3>1, <3>2 DEF IInv
  <2>6. Scoped'
    BY <1>0, <1>1, <2>1, <2>2, <2>3 DEF Scoped, Resolved
  <2>7. ControllerTypeOK'
    <3>1. tries' \in 0..MaxTries
      BY <2>1, ControllerAssumption
    <3> QED BY <1>0, <1>2, <2>1, <2>2, <2>4, <3>1 DEF ControllerTypeOK
  <2>8. Versions'
    BY <1>0, <1>1, <1>2, <2>2, VersionsKept DEF SameVersion
  <2>9. Labelled'
    BY <1>0, <1>1, <2>1, <2>2, <2>3 DEF Labelled, SaysReady, Resolved, Truthful
  <2>10. Wakeful'
    <3> SUFFICES ASSUME Quiet' PROVE PassCurrent' /\ SlotsAsDesired' /\ CallCurrent'
      BY DEF Wakeful
    <3>1. Quiet /\ PassCurrent
      BY <1>2 DEF Quiet, CInv, Wakeful
    <3>2. PassCurrent'
      BY <1>0, <1>2, <2>1, <2>2, <2>3, <3>1 DEF PassCurrent, Resolved
    <3>3. SlotsAsDesired' /\ CallCurrent'
      BY <1>1, <1>2, <2>1, <2>3 DEF SlotsAsDesired, CallCurrent, Processed, Resource
    <3> QED BY <3>2, <3>3
  <2>11. StatusTold'
    BY <2>1, <2>3 DEF StatusTold, Resolved
  <2> QED BY <1>3, <2>5, <2>6, <2>7, <2>8, <2>9, <2>10, <2>11 DEF CInv
<1> QED BY <1>4, <1>5

\* What one step of the loop touches: at most the object of its own slot, and
\* nothing of the scope or of the informers.
LEMMA StepShape ==
  ASSUME CInv, NEW outcome \in Outcome, ReconcileStep(outcome)
  PROVE  /\ pc \in {"get", "call"} /\ pc' \in {"get", "call", "state"}
         /\ UNCHANGED <<cache, scopeVars>>
         /\ UNCHANGED storeVars \/ \E o \in Object \cup {NoObject} : Store(idx, o)
         /\ ChooseCall \/ \E failed \in BOOLEAN : Return(failed)
<1>0. /\ TypeOK /\ IInv /\ idx \in Known /\ idx \in Resource
      /\ obj[idx] \in Object \cup {NoObject} /\ want[idx] \in Value \cup {Nil} /\ uid \in Owner
  BY DEF CInv, IInv, TypeOK, Known
<1>1. ASSUME NEW failed, Return(failed) PROVE pc' \in {"get", "state"}
  BY <1>1 DEF Return
<1>2. CASE GetFails \/ RefuseUnowned \/ NoActionNeeded
  BY <1>1, <1>2 DEF GetFails, RefuseUnowned, NoActionNeeded
<1>3. CASE ChooseCall
  BY <1>3 DEF ChooseCall
<1>4. CASE ReconcileOnCreate(outcome)
  <2> DEFINE new == [owner |-> uid, val |-> want[idx], sync |-> Nil]
  <2>1. new \in Object
    BY <1>0, <1>4 DEF ReconcileOnCreate, IInv, CallJustified, Object
  <2>2. UNCHANGED storeVars \/ Store(idx, new)
    BY <1>4 DEF ReconcileOnCreate
  <2> HIDE DEF new
  <2>3. PICK failed \in BOOLEAN : Return(failed)
    BY <1>4 DEF ReconcileOnCreate
  <2> QED BY <1>1, <1>4, <2>1, <2>2, <2>3 DEF ReconcileOnCreate
<1>5. CASE ReconcileOnUpdate(outcome)
  <2> DEFINE new == WithContent(obj[idx], want[idx])
  <2>1. obj[idx] # NoObject => new \in Object
    BY <1>0, <1>5 DEF ReconcileOnUpdate, IInv, CallJustified, Object, WithContent
  <2>2. UNCHANGED storeVars \/ (obj[idx] # NoObject /\ Store(idx, new))
    BY <1>5 DEF ReconcileOnUpdate
  <2> HIDE DEF new
  <2>3. PICK failed \in BOOLEAN : Return(failed)
    BY <1>5 DEF ReconcileOnUpdate
  <2> QED BY <1>1, <1>5, <2>1, <2>2, <2>3 DEF ReconcileOnUpdate
<1>6. CASE ReconcileOnDelete(outcome)
  <2>1. UNCHANGED storeVars \/ Store(idx, NoObject)
    BY <1>6 DEF ReconcileOnDelete
  <2>2. PICK failed \in BOOLEAN : Return(failed)
    BY <1>6 DEF ReconcileOnDelete
  <2> QED BY <1>1, <1>6, <2>1, <2>2 DEF ReconcileOnDelete
<1> QED BY <1>2, <1>3, <1>4, <1>5, <1>6 DEF ReconcileStep

\* A write to an object whose cached copy is ours announces itself: either it
\* changes an object of ours, or someone has changed that object before.
LEMMA WriteAnnounced ==
  ASSUME TypeOK, Events, NEW k \in Known, NEW o \in Object \cup {NoObject}, Store(k, o),
         OwnedBySC(cache[k]), o # cache[k]
  PROVE  pend'[k] = "ours"
<1>1. pend'[k] = IF o = obj[k] THEN pend[k]
                 ELSE IF pend[k] = "ours" \/ OwnedBySC(obj[k]) \/ OwnedBySC(o) THEN "ours"
                 ELSE "other"
  BY DEF Store, TypeOK
<1>2. pend[k] \in {"no", "ours"} /\ (pend[k] = "no" => cache[k] = obj[k])
  BY DEF TypeOK, Events
<1> QED BY <1>1, <1>2

\* A slot that was handled without an error is as it should be, or its own
\* write will wake the controller.
LEMMA SlotSettled ==
  ASSUME CInv, Quiet, NEW outcome \in Outcome, ReconcileStep(outcome), ~ChooseCall
  PROVE  idx \in errs' \/ pend'[idx] = "ours" \/ CachedAs(idx, uid, want[idx])
<1>0. /\ TypeOK /\ Events /\ IInv /\ CallCurrent /\ idx \in Known /\ CallJustified
      /\ obj[idx] \in Object \cup {NoObject} /\ want[idx] \in Value \cup {Nil}
  BY DEF CInv, Wakeful, IInv, TypeOK, Known
<1>1. /\ pc \in {"get", "call"}
      /\ uid \in Uid
  <2>1. pc \in {"get", "call"}
    BY StepShape
  <2>2. self \in SecurityConfig /\ uid = self.uid
    BY <2>1 DEF CInv, Scoped, ControllerTypeOK
  <2> QED BY <2>1, <2>2, Fields
<1>2. CASE GetFails \/ RefuseUnowned
  BY <1>2 DEF GetFails, RefuseUnowned, Return
<1>3. CASE NoActionNeeded
  BY <1>3 DEF NoActionNeeded, Chosen, DetermineReconcileAction, CachedAs
<1>4. CASE ReconcileOnCreate(outcome)
  <2> DEFINE new == [owner |-> uid, val |-> want[idx], sync |-> Nil]
  <2>1. new \in Object /\ new.owner = uid
    BY <1>0, <1>1, <1>4 DEF ReconcileOnCreate, CallJustified, Object, Owner
  <2>2. idx \in errs' \/ (obj[idx] = NoObject /\ Store(idx, new))
    BY <1>4 DEF ReconcileOnCreate, Return
  <2> HIDE DEF new
  <2>3. OwnedBySC(new) /\ new # NoObject
    BY <1>1, <2>1, ConstantsAssumption DEF OwnedBySC
  <2> QED BY <1>0, <2>2, <2>3 DEF Store, TypeOK
<1>5. CASE ReconcileOnUpdate(outcome)
  <2> DEFINE new == WithContent(obj[idx], want[idx])
  <2>1. IsControlledBy(cache[idx], uid) /\ cache[idx].val # want[idx]
    BY <1>0, <1>5 DEF ReconcileOnUpdate, CallJustified, CallCurrent
  <2>2. want[idx] # Nil
    BY <1>0, <1>5 DEF ReconcileOnUpdate, CallJustified
  <2>3. idx \in errs' \/ (obj[idx] # NoObject /\ Store(idx, new))
    BY <1>5 DEF ReconcileOnUpdate, Return
  <2>4. obj[idx] # NoObject => new \in Object /\ new.val = want[idx]
    BY <1>0, <2>2 DEF WithContent, Object
  <2> HIDE DEF new
  <2>5. OwnedBySC(cache[idx]) /\ (obj[idx] # NoObject => new # cache[idx])
    BY <1>1, <2>1, <2>4 DEF OwnedBySC, IsControlledBy
  <2> QED BY <1>0, <2>3, <2>4, <2>5, WriteAnnounced
<1>6. CASE ReconcileOnDelete(outcome)
  <2>1. IsControlledBy(cache[idx], uid)
    BY <1>0, <1>6 DEF ReconcileOnDelete, CallJustified, CallCurrent
  <2>2. idx \in errs' \/ (obj[idx] # NoObject /\ Store(idx, NoObject))
    BY <1>6 DEF ReconcileOnDelete, Return
  <2>3. OwnedBySC(cache[idx]) /\ cache[idx] # NoObject
    BY <1>1, <2>1 DEF OwnedBySC, IsControlledBy
  <2> QED BY <1>0, <2>2, <2>3, WriteAnnounced
<1> QED BY <1>2, <1>3, <1>4, <1>5, <1>6 DEF ReconcileStep

\* One step of doReconcile's loop.
LEMMA LoopCInv ==
  ASSUME CInv, NEW outcome \in Outcome, ReconcileResources(outcome)
  PROVE  CInv'
<1> USE DEF clusterVars, cacheVars, localVars, scopeVars
<1>0. /\ ControllerTypeOK /\ TypeOK /\ IInv /\ Scoped /\ Versions /\ StoredLabelled /\ Labelled
      /\ Events /\ idx \in Resource /\ idx \in Known
  BY DEF CInv, ControllerTypeOK, TypeOK, Known
<1>1. /\ ReconcileStep(outcome) /\ budget' \in 0..MaxDisturbances
      /\ UNCHANGED <<clusterVars, cacheVars, localVars, queued, report>>
  BY <1>0, BudgetType DEF ReconcileResources, ControllerTypeOK
<1>2. /\ pc \in {"get", "call"} /\ pc' \in {"get", "call", "state"}
      /\ UNCHANGED <<cache, scopeVars>>
      /\ UNCHANGED storeVars \/ \E o \in Object \cup {NoObject} : Store(idx, o)
      /\ ChooseCall \/ \E failed \in BOOLEAN : Return(failed)
  BY <1>1, StepShape
<1>3. IInv'
  BY <1>0, <1>1, StepIInv
<1>4. Scoped'
  BY <1>0, <1>1, <1>2 DEF Scoped, Resolved
<1>5. ControllerTypeOK'
  BY <1>0, <1>1, <1>3 DEF IInv, ControllerTypeOK
<1>6. /\ Events'
      /\ \A r \in Known : pend[r] = "ours" => pend'[r] = "ours"
  <2>1. CASE UNCHANGED storeVars
    BY <1>0, <1>2, <2>1 DEF Events, storeVars
  <2>2. ASSUME NEW o \in Object \cup {NoObject}, Store(idx, o)
        PROVE  Events' /\ \A r \in Known : pend[r] = "ours" => pend'[r] = "ours"
    BY <1>0, <1>2, <2>2, StoreEvents
  <2> QED BY <1>2, <2>1, <2>2
<1>7. Versions' /\ StoredLabelled'
  BY <1>0, <1>1, VersionsKept, StoredKept
<1>8. Labelled'
  BY <1>0, <1>1, <1>2 DEF Labelled, SaysReady, Scoped, Resolved
<1>9. Wakeful'
  <2> SUFFICES ASSUME Quiet' PROVE PassCurrent' /\ SlotsAsDesired' /\ CallCurrent'
    BY DEF Wakeful
  <2>1. Quiet /\ PassCurrent /\ SlotsAsDesired
    BY <1>1 DEF Quiet, CInv, Wakeful
  <2>2. PassCurrent'
    BY <1>1, <1>2, <2>1 DEF PassCurrent, Resolved
  <2>3. uid = scCache.uid /\ want = Desired(scCache.spec, inputCache)
    BY <1>0, <1>2, <2>1 DEF PassCurrent, Scoped
  <2>4. CASE ChooseCall
    <3>1. /\ pc = "get" /\ pc' = "call" /\ current' = cache[idx] /\ action' = Chosen
          /\ UNCHANGED <<storeVars, cache, scopeVars, idx, descendants, errs>>
      BY <2>4 DEF ChooseCall
    <3>2. SlotsAsDesired'
      BY <1>1, <2>1, <3>1 DEF SlotsAsDesired, Processed, CachedAs, storeVars
    <3>3. CallCurrent'
      BY <3>1 DEF CallCurrent, Chosen, DetermineReconcileAction
    <3> QED BY <2>2, <3>2, <3>3
  <2>5. CASE ~ChooseCall
    <3>1. PICK failed \in BOOLEAN : Return(failed)
      BY <1>2, <2>5
    <3>2. pc' \in {"get", "state"} /\ errs \subseteq errs'
      BY <3>1 DEF Return
    <3>3. \A r \in Resource : (Processed(r))' => Processed(r) \/ r = idx
      BY <1>0, <1>2, <3>1, ConstantsAssumption DEF Processed, Return, TypeOK, Resource
    <3>4. idx \in errs' \/ pend'[idx] = "ours" \/ CachedAs(idx, uid, want[idx])
      BY <1>1, <2>1, <2>5, SlotSettled
    <3>5. SlotsAsDesired'
      <4> SUFFICES ASSUME NEW r \in Resource, (Processed(r))', r \notin errs'
                   PROVE  \/ pend'[r] = "ours"
                          \/ (CachedAs(r, scCache.uid, Desired(scCache.spec, inputCache)[r]))'
        BY <3>2 DEF SlotsAsDesired
      <4>1. CASE r = idx
        BY <1>1, <1>2, <2>3, <3>4, <4>1 DEF CachedAs
      <4>2. CASE r # idx
        <5>1. Processed(r) /\ r \notin errs /\ r \in Known
          BY <3>2, <3>3, <4>2 DEF Known
        <5>2. \/ pend[r] = "ours"
              \/ CachedAs(r, scCache.uid, Desired(scCache.spec, inputCache)[r])
          BY <2>1, <5>1 DEF SlotsAsDesired
        <5> QED BY <1>1, <1>2, <1>6, <5>1, <5>2 DEF CachedAs
      <4> QED BY <4>1, <4>2
    <3>6. CallCurrent'
      BY <3>2 DEF CallCurrent
    <3> QED BY <2>2, <3>5, <3>6
  <2> QED BY <2>4, <2>5
<1>10. StatusTold'
  BY <1>2 DEF StatusTold
<1> QED BY <1>3, <1>4, <1>5, <1>6, <1>7, <1>8, <1>9, <1>10 DEF CInv

\* The loop is over: the status is built, and compared with the one before, or
\* it cannot be built.
LEMMA StateCInv ==
  ASSUME CInv, StateUnknown \/ StateKnown
  PROVE  CInv'
<1> USE DEF storeVars, clusterVars, cacheVars
<1>0. /\ ControllerTypeOK /\ TypeOK /\ IInv /\ Scoped /\ Versions /\ StoredLabelled
      /\ sc \in SecurityConfig \cup {NoSC} /\ budget \in 0..MaxDisturbances
  BY DEF CInv, ControllerTypeOK
<1>1. /\ pc = "state"
      /\ UNCHANGED <<storeVars, cache, clusterVars, cacheVars, budget>>
  BY DEF StateUnknown, StateKnown
<1>2. Resolved /\ self \in SecurityConfig /\ self # NoSC
  BY <1>0, <1>1 DEF Scoped, ControllerTypeOK
<1>3. StoredLabelled'
  BY <1>0, <1>1, StoredKept
<1> DEFINE st == BuildStatus(self, LoopVerdict, cache)
<1>4. CASE \E rep \in {"outdated", "dropped"} : FinishPass(rep, errs # {})
  <2>1. PICK rep \in {"outdated", "dropped"} : FinishPass(rep, errs # {})
    BY <1>4
  <2>2. rep \in Report /\ rep \notin {"written", "skipped"}
    BY <2>1 DEF Report
  <2> QED BY <1>0, <1>1, <1>2, <1>3, <2>1, <2>2, FinishCInv
<1>6. CASE StateKnown /\ st = base /\ ComparedWithStored
  <2>1. FinishPass("skipped", errs # {})
    BY <1>6 DEF StateKnown
  <2>2. /\ st \in Status
        /\ st.msg = "ready" <=> st.ready
        /\ errs = {} =>
             /\ \A k \in Known : WaitsFor(self.spec, k) =>
                  cache[k] # NoObject /\ st.secret[k] = cache[k].sync
             /\ st.ready <=> \A k \in Known : WaitsFor(self.spec, k) => cache[k].sync # Nil
             /\ {r \in Resource : st.conds[r] # "none"} =
                  {r \in Resource : self.spec.desired[r] # Nil}
    BY <1>0, <1>1, <1>6, Built DEF StateKnown
  <2> HIDE DEF st
  <2>3. sc # NoSC /\ sc \in SecurityConfig /\ sc.status \in Status /\ SaysReady(sc.status)
    BY <1>0, <1>6, Fields DEF ComparedWithStored, StoredLabelled
  <2>4. /\ sc.status.secret = st.secret /\ sc.status.conds = st.conds
        /\ sc.status.ready = st.ready
    <3>1. CASE base = sc.status
      BY <1>6, <3>1
    <3>2. CASE base = InitializeStatus(sc.status, self.gen)
      <4>1. /\ base.secret = sc.status.secret /\ base.conds = sc.status.conds
            /\ base.msg = sc.status.msg /\ base.ready = FALSE
        BY <2>3, <3>2 DEF InitializeStatus, Status
      <4>2. ~sc.status.ready
        BY <1>6, <2>2, <2>3, <4>1 DEF SaysReady
      <4>3. sc.status.ready \in BOOLEAN
        BY <2>3 DEF Status
      <4> QED BY <1>6, <4>1, <4>2, <4>3
    <3> QED BY <1>6, <3>1, <3>2 DEF ComparedWithStored
  <2>5. ASSUME Quiet' PROVE TrueStatus(sc.status)
    <3>1. Quiet /\ errs = {} /\ PassCurrent
      BY <1>1, <2>1, <2>5 DEF Quiet, FinishPass, CInv, Wakeful
    <3>2. self.spec = scCache.spec
      BY <1>0, <1>1, <1>2, <3>1 DEF PassCurrent, Quiet, Versions, Older
    <3> QED BY <2>2, <2>4, <3>1, <3>2 DEF TrueStatus
  <2> QED BY <1>0, <1>1, <1>2, <1>3, <2>1, <2>5, FinishCInv DEF Report
<1>5. CASE ~ (\E rep \in {"skipped", "outdated", "dropped"} : FinishPass(rep, errs # {}))
  <2>1. /\ LoopVerdict = "complete" => ~GateMissing(self.spec)
        /\ self' = [self EXCEPT !.status = st]
        /\ tries' = MaxTries /\ pc' = "write"
        /\ UNCHANGED <<scopeVars, slotVars, base, queued, report>>
    BY <1>5 DEF StateUnknown, StateKnown
  <2>2. /\ st \in Status /\ st.observed = self.gen /\ Truthful(st, self.spec)
        /\ SaysReady(st)
        /\ errs = {} =>
             /\ \A k \in Known : WaitsFor(self.spec, k) =>
                  cache[k] # NoObject /\ st.secret[k] = cache[k].sync
             /\ st.ready <=> \A k \in Known : WaitsFor(self.spec, k) => cache[k].sync # Nil
             /\ {r \in Resource : st.conds[r] # "none"} =
                  {r \in Resource : self.spec.desired[r] # Nil}
    BY <1>0, <1>1, <2>1, Built DEF SaysReady
  <2> HIDE DEF st
  <2>3. /\ self' \in SecurityConfig /\ self' # NoSC
        /\ self'.uid = self.uid /\ self'.gen = self.gen /\ self'.spec = self.spec
        /\ self'.deleting = self.deleting /\ self'.status = st
    BY <1>2, <2>1, <2>2, PutStatus, Fields
  <2>4. TypeOK'
    BY <1>0, <1>1, <2>1 DEF TypeOK, scopeVars, slotVars
  <2>5. IInv'
    <3>1. Clean' /\ LoopEnd' /\ CallJustified' /\ FailuresReported'
      BY <1>0, <2>1 DEF IInv, Clean, LoopEnd, CallJustified, FailuresReported, slotVars
    <3>2. Progress'
      BY <1>0, <1>1, <1>2, <2>1 DEF IInv, Progress, Processed, Resolved, scopeVars, slotVars
    <3> QED BY <2>4, <3>1, <3>2 DEF IInv
  <2>6. Scoped'
    BY <1>0, <1>1, <2>1, <2>3 DEF Scoped, Resolved, scopeVars
  <2>7. ControllerTypeOK'
    <3>1. tries' \in 0..MaxTries
      BY <2>1, ControllerAssumption
    <3> QED BY <1>0, <1>1, <2>1, <2>3, <2>4, <3>1 DEF ControllerTypeOK
  <2>8. Versions'
    BY <1>0, <1>1, <1>2, <2>3, VersionsKept DEF SameVersion
  <2>9. Labelled'
    BY <1>2, <2>1, <2>2, <2>3 DEF Labelled, SaysReady, Resolved, scopeVars
  <2>10. Events'
    BY <1>1 DEF CInv, Events
  <2>11. Quiet' => /\ Quiet /\ PassCurrent /\ SlotsAsDesired
                   /\ self.gen = scCache.gen /\ self.spec = scCache.spec
    <3>1. Quiet' => Quiet /\ PassCurrent /\ SlotsAsDesired
      BY <1>1, <2>1 DEF Quiet, CInv, Wakeful
    <3> QED BY <1>0, <1>1, <1>2, <3>1 DEF PassCurrent, Quiet, Versions, Older
  <2>12. Wakeful'
    <3> SUFFICES ASSUME Quiet' PROVE PassCurrent' /\ SlotsAsDesired' /\ CallCurrent'
      BY DEF Wakeful
    <3>1. PassCurrent'
      BY <1>1, <2>1, <2>3, <2>11 DEF PassCurrent, Resolved, scopeVars
    <3>2. SlotsAsDesired'
      BY <1>1, <2>1, <2>11 DEF SlotsAsDesired, Processed, CachedAs, scopeVars, slotVars
    <3>3. CallCurrent'
      BY <2>1 DEF CallCurrent
    <3> QED BY <3>1, <3>2, <3>3
  <2>13. StatusTold'
    <3> SUFFICES ASSUME Quiet', errs = {}
                 PROVE  (TrueStatus(self.status))' /\ self'.status.observed = scCache.gen
      BY <1>1, <2>1 DEF StatusTold, slotVars
    <3> QED BY <1>1, <2>2, <2>3, <2>11 DEF TrueStatus
  <2> QED BY <1>3, <2>5, <2>6, <2>7, <2>8, <2>9, <2>10, <2>12, <2>13 DEF CInv
<1>7. CASE FinishPass("skipped", errs # {})
  <2>1. report' = "skipped" /\ pc' = "idle"
    BY <1>7 DEF FinishPass, PassOver
  <2>2. ~StateUnknown
    BY <2>1 DEF StateUnknown, FinishPass
  <2>3. StateKnown /\ st = base
    BY <2>1, <2>2 DEF StateKnown
  <2>4. ComparedWithStored
    BY <2>1, <2>3 DEF StateKnown, FinishPass
  <2> QED BY <1>6, <2>3, <2>4
<1> QED BY <1>4, <1>5, <1>7

\* A status that reaches the first SecurityConfig of the name is labelled with
\* the generation it was built from, which the API server's may have passed.
LEMMA WrittenLabelled ==
  ASSUME CInv, pc = "write", sc # NoSC, sc' = [sc EXCEPT !.status = self.status], UNCHANGED born
  PROVE  /\ sc' \in SecurityConfig /\ SameVersion(sc', sc) /\ sc'.status = self.status
         /\ StoredLabelled'
<1>1. sc \in SecurityConfig /\ self \in SecurityConfig /\ self # NoSC /\ self.status \in Status
  BY Fields DEF CInv, ControllerTypeOK, Scoped
<1>2. /\ sc' \in SecurityConfig /\ SameVersion(sc', sc) /\ sc'.status = self.status
  BY <1>1, PutStatus, Fields DEF SameVersion
<1>3. ASSUME born = {sc.uid}
      PROVE  /\ self.status.observed <= sc.gen
             /\ self.status.observed = sc.gen => Truthful(self.status, sc.spec)
  <2>1. self.uid = sc.uid
    BY <1>1, <1>3 DEF CInv, Versions
  <2> QED BY <1>1, <2>1 DEF CInv, Versions, Older, Labelled
<1>5. SaysReady(self.status)
  BY DEF CInv, Labelled
<1>4. StoredLabelled'
  BY <1>2, <1>3, <1>5 DEF StoredLabelled, SaysReady, SameVersion, Truthful
<1> QED BY <1>2, <1>4

\* UpdateStatus: attempts that conflict, fail, or write the status.
LEMMA WriteCInv ==
  ASSUME CInv, NEW outcome \in Outcome,
         UpdateStatusConflict \/ UpdateStatusSucceeds \/ UpdateStatusFails(outcome)
  PROVE  CInv'
<1>0. /\ ControllerTypeOK /\ TypeOK /\ IInv /\ Scoped /\ Versions /\ StoredLabelled
      /\ sc \in SecurityConfig \cup {NoSC} /\ budget \in 0..MaxDisturbances
      /\ pc = "write"
  BY DEF CInv, ControllerTypeOK, UpdateStatusConflict, UpdateStatusSucceeds, UpdateStatusFails
<1>1. CASE UpdateStatusConflict
  <2>1. /\ tries > 1 /\ tries' = tries - 1
        /\ UNCHANGED <<rrVars, clusterVars, cacheVars, self, base, queued, report, budget>>
    BY <1>1 DEF UpdateStatusConflict
  <2>2. tries' \in 0..MaxTries
    BY <1>0, <2>1, ControllerAssumption DEF ControllerTypeOK
  <2> USE <2>1 DEF rrVars, storeVars, clusterVars, cacheVars
  <2>3. IInv' /\ Scoped'
    BY <1>0, PassKept DEF TypeOK
  <2>4. ControllerTypeOK'
    BY <1>0, <2>2, <2>3 DEF IInv, ControllerTypeOK
  <2>5. Events' /\ Versions' /\ Labelled' /\ StoredLabelled'
    BY DEF CInv, Events, Versions, Older, Labelled, SaysReady, StoredLabelled, Truthful, Resolved,
           passVars, scopeVars
  <2>6. Wakeful'
    BY DEF CInv, Wakeful, Quiet, PassCurrent, SlotsAsDesired, CallCurrent, Processed, CachedAs,
           Resolved, passVars, scopeVars, slotVars
  <2>7. StatusTold'
    BY DEF CInv, StatusTold, Quiet, TrueStatus, Resolved, passVars, scopeVars, slotVars
  <2> QED BY <2>3, <2>4, <2>5, <2>6, <2>7 DEF CInv
<1>2. CASE UpdateStatusFails(outcome)
  <2>1. /\ FinishPass("dropped", errs # {} \/ ~Resolved)
        /\ UNCHANGED <<storeVars, cache, born, input, cacheVars>>
        /\ budget' \in 0..MaxDisturbances
        /\ sc' = sc \/ (sc # NoSC /\ sc' = [sc EXCEPT !.status = self.status])
    BY <1>0, <1>2, BudgetType DEF UpdateStatusFails
  <2>2. /\ sc' = sc \/ SameVersion(sc', sc)
        /\ sc' \in SecurityConfig \cup {NoSC}
        /\ StoredLabelled'
    BY <1>0, <2>1, WrittenLabelled, StoredKept
  <2> QED BY <1>0, <2>1, <2>2, FinishCInv DEF Report
<1>3. CASE UpdateStatusSucceeds
  <2>1. /\ FinishPass("written", errs # {} \/ ~Resolved)
        /\ UNCHANGED <<storeVars, cache, born, input, cacheVars, budget>>
        /\ sc # NoSC /\ sc' = [sc EXCEPT !.status = self.status]
    BY <1>3 DEF UpdateStatusSucceeds
  <2>2. /\ SameVersion(sc', sc) /\ sc' \in SecurityConfig
        /\ StoredLabelled' /\ sc'.status = self.status
    BY <1>0, <2>1, WrittenLabelled
  <2>3. Quiet' => TrueStatus(sc'.status) /\ sc'.status.observed = scCache.gen
    <3>1. Quiet' => Quiet /\ errs = {} /\ Resolved
      BY <2>1 DEF Quiet, FinishPass, cacheVars
    <3> QED BY <1>0, <2>2, <3>1 DEF CInv, StatusTold
  <2> QED BY <1>0, <2>1, <2>2, <2>3, FinishCInv DEF Report
<1> QED BY <1>1, <1>2, <1>3

-----------------------------------------------------------------------------
(* The whole controller. *)

\* Nothing exists yet, so nothing is wanted or reported.
LEMMA InitCInv == ControllerInit => CInv
<1> SUFFICES ASSUME ControllerInit PROVE CInv
  OBVIOUS
<1> USE DEF ControllerInit
<1>1. IInv /\ pc = "idle" /\ uid = Other /\ cache = obj /\ pend = [r \in Known |-> "no"]
  BY InitIInv DEF Init, PassInit
<1>2. ControllerTypeOK
  <2>1. tries \in 0..MaxTries /\ budget \in 0..MaxDisturbances
    BY ControllerAssumption
  <2> QED BY <1>1, <2>1, NoStatusType DEF IInv, ControllerTypeOK, Report
<1>3. Events /\ Scoped /\ Versions /\ Labelled /\ StoredLabelled
  BY <1>1 DEF Events, Scoped, Versions, Older, Labelled, SaysReady, StoredLabelled, Resolved
<1>4. Wakeful /\ StatusTold
  BY DEF Wakeful, StatusTold, Quiet
<1> QED BY <1>1, <1>2, <1>3, <1>4 DEF CInv

\* Every step of the worker, the informers, the users and everyone else keeps
\* the invariant.
LEMMA NextCInv ==
  ASSUME CInv, [ControllerNext]_vars
  PROVE  CInv'
<1>1. ASSUME NEW outcome \in Outcome, Worker(outcome) PROVE CInv'
  BY <1>1, BeginCInv, PatchLabelsCInv, ResolveCInv, LoopCInv, StateCInv, WriteCInv DEF Worker
<1>2. CASE Informers
  BY <1>2, DeliverSCCInv, DeliverInputCInv, DeliverObjectCInv DEF Informers
<1>3. CASE Others
  BY <1>3, OthersCInv, UsersCInv
<1>4. CASE UNCHANGED vars
  <2> USE <1>4 DEF vars, rrVars, storeVars, clusterVars, cacheVars, localVars
  <2>1. TypeOK
    BY DEF CInv, ControllerTypeOK
  <2>2. IInv' /\ Scoped'
    BY <2>1, PassKept DEF CInv, TypeOK
  <2>3. ControllerTypeOK'
    BY <2>2 DEF CInv, IInv, ControllerTypeOK
  <2>4. Events' /\ Versions' /\ Labelled' /\ StoredLabelled'
    BY DEF CInv, Events, Versions, Older, Labelled, SaysReady, StoredLabelled, Truthful, Resolved,
           passVars, scopeVars
  <2>5. Wakeful'
    BY DEF CInv, Wakeful, Quiet, PassCurrent, SlotsAsDesired, CallCurrent, Processed, CachedAs,
           Resolved, passVars, scopeVars, slotVars
  <2>6. StatusTold'
    BY DEF CInv, StatusTold, Quiet, TrueStatus, Resolved, passVars, scopeVars, slotVars
  <2> QED BY <2>2, <2>3, <2>4, <2>5, <2>6 DEF CInv
<1> QED BY <1>1, <1>2, <1>3, <1>4, UsersCInv, RestartCInv DEF ControllerNext

\* The invariant holds throughout: everything below follows from it.
THEOREM ControllerInvariance == ControllerSpec => []CInv
  BY InitCInv, NextCInv, PTL DEF ControllerSpec

\* The controller never leaves its types: the loop stays inside the slice of
\* ControllerResources and UpdateStatus inside the attempts of RetryOnConflict.
THEOREM ControllerTypeCorrect == ControllerSpec => []ControllerTypeOK
  <1>1. CInv => ControllerTypeOK
    BY DEF CInv
  <1> QED BY ControllerInvariance, <1>1, PTL

\* No wake-up is lost: a controller at rest has carried out the stored spec,
\* whatever failed, was restarted or was written by others before.
THEOREM NoLostWakeUp == ControllerSpec => []RestsAsDesired
  <1>1. CInv => RestsAsDesired
    <2> SUFFICES ASSUME CInv, AtRest, Alive
                 PROVE  Resolvable(sc.spec, input) /\ \A r \in Resource : AsDesired(r)
      BY DEF RestsAsDesired
    <2>1. Quiet /\ PassCurrent /\ SlotsAsDesired /\ errs = {}
      BY DEF CInv, Wakeful, Quiet, AtRest, Alive, IInv, Clean
    <2>2. Resolvable(sc.spec, input)
      BY <2>1 DEF AtRest, PassCurrent
    <2>3. ASSUME NEW r \in Resource PROVE AsDesired(r)
      <3>1. CachedAs(r, sc.uid, Desired(sc.spec, input)[r])
        BY <2>1, <2>3 DEF AtRest, SlotsAsDesired, Known
      <3>2. cache[r] = obj[r]
        BY <2>3 DEF AtRest, CInv, Events, Known
      <3> QED BY <3>1, <3>2 DEF CachedAs, AsDesired
    <2> QED BY <2>2, <2>3
  <1> QED BY ControllerInvariance, <1>1, PTL

\* A status that was written, or found to need no writing, tells the truth at rest
\* about the secrets, the readiness and the resources of the stored
\* SecurityConfig, and a written one about its generation.
THEOREM StatusIsTrue == ControllerSpec => []RestsWithTrueStatus
  <1>1. CInv => RestsWithTrueStatus
    <2> SUFFICES ASSUME CInv, AtRest, Alive, report \in {"written", "skipped"}
                 PROVE  /\ report = "written" => sc.status.observed = sc.gen
                        /\ \A k \in Known : WaitsFor(sc.spec, k) =>
                             obj[k] # NoObject /\ sc.status.secret[k] = obj[k].sync
                        /\ sc.status.ready <=>
                             \A k \in Known : WaitsFor(sc.spec, k) => obj[k].sync # Nil
                        /\ {r \in Resource : sc.status.conds[r] # "none"} =
                             {r \in Resource : sc.spec.desired[r] # Nil}
      BY DEF RestsWithTrueStatus
    <2>1. TrueStatus(sc.status) /\ (report = "written" => sc.status.observed = sc.gen)
      BY DEF CInv, StatusTold, Quiet, AtRest, Alive
    <2>2. \A k \in Known : cache[k] = obj[k]
      BY DEF AtRest, CInv, Events
    <2> QED BY <2>1, <2>2 DEF TrueStatus, AtRest
  <1> QED BY ControllerInvariance, <1>1, PTL

\* A SecurityConfig is called ready for a generation only with the conditions of
\* that generation's spec: a slow pass that writes into a newer SecurityConfig
\* labels its status with the generation it has read.
THEOREM ReadyIsReconciled == ControllerSpec => []ReadyMeansReconciled
  <1>1. CInv => ReadyMeansReconciled
    BY DEF CInv, StoredLabelled, SaysReady, Truthful, ReadyMeansReconciled
  <1> QED BY ControllerInvariance, <1>1, PTL

\* The verdict that DetermineReconciliationState reaches when the number of
\* descendants is not CountNonNilResources is never reached: errors are found
\* before the numbers are compared, and without errors the numbers agree.
THEOREM CountsAgree == ControllerSpec => [](pc = "state" => LoopVerdict # "missing")
  <1>1. CInv => (pc = "state" => LoopVerdict # "missing")
    <2> SUFFICES ASSUME CInv, pc = "state", LoopVerdict = "missing" PROVE FALSE
      OBVIOUS
    <2>1. self \in SecurityConfig
      BY DEF CInv, Scoped, ControllerTypeOK
    <2>2. errs # {}
      BY <2>1, VerdictMeaning DEF CInv
    <2>3. \E r \in Resource : descendants[r] = "error"
      BY <2>2 DEF CInv, IInv, FailuresReported
    <2> QED BY <2>3 DEF LoopVerdict
  <1> QED BY ControllerInvariance, <1>1, PTL

=============================================================================
