------------------------ MODULE SigstoreVerifyProofs ------------------------
(***************************************************************************)
(* The concurrent validation keeps its contract for any number of          *)
(* referrers, any limit and any sources.                                   *)
(***************************************************************************)
EXTENDS SigstoreVerify, TLAPS

MatchOf(r) == bundle[r] \in Source /\ expected \in Covers(bundle[r])

\* A match that was noted is there.
Sound == hasValid => SomeMatch(bundle, expected)

\* Only a match cancels the others.
CancelledByMatch == cancelled => hasValid

\* A goroutine ends without noting its match only when the call is cut short,
\* or when another match was noted before.
NoneMissed ==
  \A r \in Referrer :
    task[r] = "done" /\ MatchOf(r) => hasValid \/ expired

\* The loop leaves out a referrer only after a match.
LoopProgress ==
  /\ \A r \in Referrer : r < next => task[r] # "new"
  /\ pc = "go" => next \in Referrer
  /\ pc = "wait" => hasValid \/ next = N + 1

\* Past startup there is a trusted root.
RootLoaded == pc \notin {"starting", "exited"} => material = "loaded"

\* There is an answer only once the call has returned, and no goroutine runs
\* outside a call.
NoEarlyAnswer ==
  /\ result # "none" => pc = "returned"
  /\ pc \notin {"spawn", "go", "wait"} => \A r \in Referrer : task[r] \in {"new", "done"}

IInv ==
  /\ TypeOK
  /\ Sound
  /\ CancelledByMatch
  /\ NoneMissed
  /\ LoopProgress
  /\ RootLoaded
  /\ RootIsMaterial
  /\ NoEarlyAnswer

\* SatisfiesVerificationSource compares as the contract says.
LEMMA SatisfiesIsCovers ==
  ASSUME NEW s \in Source, NEW e \in Expected
  PROVE  SatisfiesVerificationSource(s, e) <=> e \in Covers(s)
<1>1. IsSource(e)
  BY SigstoreAssumption
<1> QED
  BY <1>1 DEF IsSource, Covers, SatisfiesVerificationSource

\* The initial states satisfy the inductive invariant.
LEMMA InitIInv == Init => IInv
<1> SUFFICES ASSUME Init PROVE IInv
  OBVIOUS
<1> USE SigstoreAssumption DEF Init
<1>1. TypeOK
  <2>1. 1 \in 1..(N + 1)
    OBVIOUS
  <2>2. task \in [Referrer -> {"new", "started", "fetching", "fetched", "verifying",
                              "done", "panicked"}]
    OBVIOUS
  <2> QED
    BY <2>1, <2>2, Zenon DEF TypeOK
<1>2. Sound /\ CancelledByMatch /\ NoneMissed /\ RootLoaded /\ RootIsMaterial /\ NoEarlyAnswer
  BY DEF Sound, CancelledByMatch, NoneMissed, RootLoaded, RootIsMaterial, NoEarlyAnswer
<1>3. LoopProgress
  BY DEF LoopProgress, Referrer
<1> QED
  BY <1>1, <1>2, <1>3 DEF IInv

\* A step of the caller or of the clock preserves the inductive invariant.
LEMMA CallerStep ==
  ASSUME IInv, Caller \/ Call \/ InitTrustedRoots \/ Restart \/ Expire
  PROVE  IInv'
<1> USE SigstoreAssumption
<1>1. CASE NextReferrer
  BY <1>1 DEF IInv, TypeOK, Sound, CancelledByMatch, NoneMissed, LoopProgress,
              RootLoaded, RootIsMaterial, NoEarlyAnswer, NextReferrer, Referrer, MatchOf
<1>2. CASE Go
  <2>1. next \in Referrer /\ task' = [task EXCEPT ![next] = "started"] /\ next' = next + 1
    BY <1>2 DEF IInv, LoopProgress, Go, Become
  <2>2. TypeOK'
    BY <1>2, <2>1 DEF IInv, TypeOK, Go, Referrer
  <2>3. (Sound /\ CancelledByMatch /\ NoneMissed /\ RootLoaded /\ RootIsMaterial /\ NoEarlyAnswer)'
    BY <1>2, <2>1 DEF IInv, TypeOK, Sound, CancelledByMatch, NoneMissed,
              RootLoaded, RootIsMaterial, NoEarlyAnswer, Go, Referrer, MatchOf
  <2>4. LoopProgress'
    BY <1>2, <2>1 DEF IInv, TypeOK, LoopProgress, Go, Referrer
  <2> QED
    BY <2>2, <2>3, <2>4 DEF IInv
<1>3. CASE Wait
  BY <1>3 DEF IInv, TypeOK, Sound, CancelledByMatch, NoneMissed, LoopProgress,
              RootLoaded, RootIsMaterial, NoEarlyAnswer, Wait, Verdict, Running,
              Referrer, MatchOf
<1>4. CASE Call
  <2>1. TypeOK'
    <3>1. 1 \in 1..(N + 1) /\ material' \in {"unset", "loaded", "nil"}
      BY <1>4 DEF Call, IInv, TypeOK
    <3>2. task' \in [Referrer -> {"new", "started", "fetching", "fetched", "verifying",
                                 "done", "panicked"}]
      BY <1>4 DEF Call, Reset
    <3> QED
      BY <1>4, <3>1, <3>2, Zenon DEF TypeOK, Call, Reset
  <2>2. (Sound /\ CancelledByMatch /\ NoneMissed /\ RootLoaded /\ RootIsMaterial /\ NoEarlyAnswer)'
    BY <1>4 DEF IInv, Sound, CancelledByMatch, NoneMissed, RootLoaded, RootIsMaterial,
                NoEarlyAnswer, Call, Reset
  <2>3. LoopProgress'
    BY <1>4 DEF LoopProgress, Call, Reset, Referrer
  <2> QED
    BY <2>1, <2>2, <2>3 DEF IInv
<1>5. CASE Expire
  BY <1>5 DEF IInv, TypeOK, Sound, CancelledByMatch, NoneMissed, LoopProgress,
              RootLoaded, RootIsMaterial, NoEarlyAnswer, Expire, Referrer, MatchOf
<1>6. CASE InitTrustedRoots
  BY <1>6 DEF IInv, TypeOK, Sound, CancelledByMatch, NoneMissed, LoopProgress, RootLoaded,
              RootIsMaterial, NoEarlyAnswer, InitTrustedRoots, Referrer, MatchOf
<1>7. CASE Restart
  <2>1. TypeOK'
    <3>1. 1 \in 1..(N + 1)
      OBVIOUS
    <3>2. task' \in [Referrer -> {"new", "started", "fetching", "fetched", "verifying",
                                 "done", "panicked"}]
      BY <1>7 DEF Restart
    <3> QED
      BY <1>7, <3>1, <3>2, Zenon DEF IInv, TypeOK, Restart
  <2>2. (Sound /\ CancelledByMatch /\ NoneMissed /\ RootLoaded /\ RootIsMaterial /\ NoEarlyAnswer)'
    BY <1>7 DEF Sound, CancelledByMatch, NoneMissed, RootLoaded, RootIsMaterial, NoEarlyAnswer,
                Restart
  <2>3. LoopProgress'
    BY <1>7 DEF LoopProgress, Restart, Referrer
  <2> QED
    BY <2>1, <2>2, <2>3 DEF IInv
<1> QED
  BY <1>1, <1>2, <1>3, <1>4, <1>5, <1>6, <1>7 DEF Caller

\* A step of a goroutine preserves the inductive invariant.
LEMMA GoroutineStep ==
  ASSUME IInv, NEW r \in Referrer, Goroutine(r)
  PROVE  IInv'
<1> USE SigstoreAssumption
<1>0. pc \in {"spawn", "go", "wait"} /\ material = "loaded"
  BY DEF IInv, NoEarlyAnswer, RootLoaded, Goroutine, Start, FetchSucceeds, FetchFails,
         GetBundleVerifier, VerifyFails, Compare
<1>1. ASSUME NEW state \in {"done", "fetching", "fetched", "verifying"},
             Proceed(r, state), r \in Running, UNCHANGED material,
             state = "done" => cancelled \/ expired
      PROVE  IInv'
  <2>1. task' = [task EXCEPT ![r] = state]
    BY <1>1 DEF Proceed, Become
  <2>2. TypeOK'
    BY <1>1, <2>1 DEF IInv, TypeOK, Proceed, callerVars
  <2>3. (Sound /\ CancelledByMatch /\ NoEarlyAnswer)'
    BY <1>1 DEF IInv, Sound, CancelledByMatch, NoEarlyAnswer, Running, Proceed, callerVars
  <2>4. (NoneMissed /\ RootLoaded /\ RootIsMaterial)'
    BY <1>1, <2>1 DEF IInv, TypeOK, NoneMissed, RootLoaded, RootIsMaterial, CancelledByMatch,
                      MatchOf, Proceed, callerVars
  <2>5. LoopProgress'
    BY <1>1, <2>1 DEF IInv, TypeOK, LoopProgress, Running, Proceed, callerVars
  <2> QED
    BY <2>2, <2>3, <2>4, <2>5 DEF IInv
<1>2. ASSUME Record(r), r \in Running,
             ~MatchOf(r) \/ cancelled \/ expired, UNCHANGED material
      PROVE  IInv'
  <2>1. task' = [task EXCEPT ![r] = "done"]
    BY <1>2 DEF Record, Become
  <2>2. TypeOK'
    BY <1>2, <2>1 DEF IInv, TypeOK, Record, callerVars
  <2>3. (Sound /\ CancelledByMatch /\ NoEarlyAnswer)'
    BY <1>2 DEF IInv, Sound, CancelledByMatch, NoEarlyAnswer, Running, Record, callerVars
  <2>4. (NoneMissed /\ RootLoaded /\ RootIsMaterial)'
    BY <1>2, <2>1 DEF IInv, TypeOK, NoneMissed, RootLoaded, RootIsMaterial, CancelledByMatch,
                      MatchOf, Record, callerVars
  <2>5. LoopProgress'
    BY <1>2, <2>1 DEF IInv, TypeOK, LoopProgress, Running, Record, callerVars
  <2> QED
    BY <2>2, <2>3, <2>4, <2>5 DEF IInv
<1>3. CASE Start(r)
  BY <1>1, <1>3 DEF Start, ContextDone, Running
<1>4. CASE FetchSucceeds(r)
  BY <1>1, <1>4 DEF FetchSucceeds, Running
<1>5. CASE FetchFails(r)
  BY <1>2, <1>5 DEF FetchFails, ContextDone, MatchOf, Running
<1>6. CASE GetBundleVerifier(r)
  BY <1>0, <1>1, <1>6 DEF GetBundleVerifier, Running
<1>7. CASE VerifyFails(r)
  BY <1>2, <1>7 DEF VerifyFails, MatchOf, Running
<1>8. CASE Compare(r)
  <2>1. task' = [task EXCEPT ![r] = "done"] /\ UNCHANGED <<callerVars, errList, material>>
    BY <1>8 DEF Compare, Become
  <2>2. TypeOK'
    BY <1>8, <2>1 DEF IInv, TypeOK, Compare, callerVars
  <2>3. CASE SatisfiesVerificationSource(bundle[r], expected)
    <3>1. hasValid' /\ UNCHANGED mismatches
      BY <1>8, <2>3 DEF Compare
    <3>2. SomeMatch(bundle, expected)
      BY <1>8, <2>3, SatisfiesIsCovers DEF Compare, SomeMatch, IInv, TypeOK
    <3> QED
      BY <2>1, <2>2, <3>1, <3>2
      DEF IInv, TypeOK, Sound, CancelledByMatch, NoneMissed, LoopProgress,
          RootLoaded, RootIsMaterial, NoEarlyAnswer, SomeMatch, callerVars
  <2>4. CASE ~SatisfiesVerificationSource(bundle[r], expected)
    <3>1. ~MatchOf(r) /\ UNCHANGED <<hasValid, cancelled>>
      BY <1>8, <2>4, SatisfiesIsCovers DEF Compare, MatchOf, IInv, TypeOK
    <3> QED
      BY <2>1, <2>2, <3>1
      DEF IInv, TypeOK, Sound, CancelledByMatch, NoneMissed, LoopProgress,
          RootLoaded, RootIsMaterial, NoEarlyAnswer, SomeMatch, MatchOf, callerVars
  <2> QED
    BY <2>3, <2>4
<1> QED
  BY <1>3, <1>4, <1>5, <1>6, <1>7, <1>8 DEF Goroutine

\* The inductive invariant holds in every reachable state.
THEOREM Invariance == Spec => []IInv
<1>1. IInv /\ [Next]_vars => IInv'
  <2> SUFFICES ASSUME IInv, [Next]_vars PROVE IInv'
    OBVIOUS
  <2>1. CASE Next
    BY <2>1, CallerStep, GoroutineStep DEF Next
  <2>2. CASE UNCHANGED vars
    BY <2>2 DEF vars, callVars, IInv, TypeOK, Sound, CancelledByMatch, NoneMissed,
                LoopProgress, RootLoaded, RootIsMaterial, NoEarlyAnswer, SomeMatch, MatchOf
  <2> QED
    BY <2>1, <2>2
<1> QED
  BY InitIInv, <1>1, PTL DEF Spec

\* Every variable of the validation keeps its type.
THEOREM TypeCorrect == Spec => []TypeOK
  BY Invariance, PTL DEF IInv

\* No goroutine of any call ever gets a nil trusted root, however often the
\* process restarts and whichever of its starts find no TUF mirror.
THEOREM RootAlwaysMaterial == Spec => []RootIsMaterial
  BY Invariance, PTL DEF IInv

\* What Wait puts together is an answer the contract allows.
LEMMA AnswerAllowed ==
  ASSUME IInv, Wait
  PROVE  /\ result = "none"
         /\ result' \in Contract!Answers
         /\ result' = "valid" => SomeMatch(bundle, expected)
         /\ result' # "valid" => expired \/ ~SomeMatch(bundle, expected)
<1>1. result = "none" /\ result' = Verdict
  BY DEF Wait, IInv, NoEarlyAnswer, TypeOK
<1>2. Verdict \in Contract!Answers
  BY DEF Verdict, Contract!Answers
<1>3. Verdict = "valid" => SomeMatch(bundle, expected)
  BY DEF Verdict, IInv, Sound
<1>4. ASSUME Verdict # "valid", SomeMatch(bundle, expected)
      PROVE  expired
  <2>1. ~hasValid /\ next = N + 1
    BY <1>4 DEF Verdict, Wait, IInv, LoopProgress, RootIsMaterial
  <2>2. PICK r \in Referrer : MatchOf(r)
    BY <1>4 DEF SomeMatch, MatchOf
  <2>3. task[r] = "done"
    BY <2>1, SigstoreAssumption
    DEF Wait, Running, IInv, LoopProgress, RootIsMaterial, Referrer
  <2> QED
    BY <2>1, <2>2, <2>3 DEF IInv, NoneMissed
<1> QED
  BY <1>1, <1>2, <1>3, <1>4

\* Every step of the validation is a step of its contract, or invisible to it.
LEMMA StepRefines ==
  ASSUME IInv, [Next]_vars
  PROVE  [Contract!CNext]_(Contract!contractVars)
<1> USE DEF Contract!contractVars, Contract!CNext
<1>1. CASE NextReferrer \/ Go
  BY <1>1 DEF NextReferrer, Go
<1>2. CASE Wait
  <2>1. UNCHANGED <<bundle, expected, expired>>
    BY <1>2 DEF Wait
  <2>2. Contract!Answer
    BY <1>2, <2>1, AnswerAllowed DEF Contract!Answer
  <2> QED
    BY <2>2
<1>3. CASE Call
  BY <1>3 DEF Call, Reset, Contract!Ask
<1>4. CASE Expire
  <2>1. result = "none"
    BY <1>4 DEF Expire, IInv, NoEarlyAnswer, TypeOK
  <2> QED
    BY <1>4, <2>1 DEF Expire, Contract!CutShort
<1>5. ASSUME NEW r \in Referrer, Goroutine(r)
      PROVE  [Contract!CNext]_(Contract!contractVars)
  BY <1>5 DEF Goroutine, Start, FetchSucceeds, FetchFails, GetBundleVerifier,
              VerifyFails, Compare, Proceed, Record, callerVars
<1>6. CASE InitTrustedRoots
  BY <1>6 DEF InitTrustedRoots
<1>7. CASE Restart
  BY <1>7 DEF Restart, IInv, TypeOK, Contract!Ask
<1>8. CASE UNCHANGED vars
  BY <1>8 DEF vars, callVars
<1> QED
  BY <1>1, <1>2, <1>3, <1>4, <1>5, <1>6, <1>7, <1>8 DEF Next, Caller

\* The concurrent validation implements its contract: acceptance only on a
\* match, refusal only without one or when cut short, one answer per call, for
\* any number of referrers, any limit and any schedule.
THEOREM ContractKept == Spec => KeepsContract
<1>1. Init => Contract!CInit
  BY DEF Init, Contract!CInit
<1>2. IInv /\ [Next]_vars => [Contract!CNext]_(Contract!contractVars)
  BY StepRefines
<1> QED
  BY <1>1, <1>2, Invariance, PTL DEF Spec, KeepsContract, Contract!CSpec

=============================================================================
