--------------------------- MODULE SigstoreVerify ---------------------------
(***************************************************************************)
(* ValidateSigstoreBundlesMatchesExpectedSource (pkg/validation): a loop   *)
(* that starts one goroutine per referrer, at most Limit at a time; each   *)
(* fetches a bundle, verifies it against a trusted root that main loads    *)
(* once when the process starts, and compares the source named by its      *)
(* certificate with the expected one.  The first match cancels the rest.   *)
(* The caller's context has a timeout, and the process may end any time.   *)
(*                                                                         *)
(* The registry, the verifier and the TUF mirror are external.  Of the two *)
(* roots (public good, GitHub), which are loaded alike, there is one.      *)
(***************************************************************************)
EXTENDS Naturals, FiniteSets

CONSTANTS
  N,            \* number of referrers
  Limit,        \* maxConcurrentSigstoreBundlePullAndVerifies
  Source,       \* sources a certificate can name: see IsSource
  Expected,     \* sources a user can ask for
  Any,          \* an empty ref or workflow of an expected source
  Unfetchable,  \* a referrer whose bundle cannot be fetched or decoded
  Unverified    \* a referrer whose bundle does not verify

Referrer == 1..N

IsSource(s) == s \in [repository : {s.repository}, ref : {s.ref}, workflow : {s.workflow}]

ASSUME SigstoreAssumption ==
  /\ N \in Nat
  /\ Limit \in Nat \ {0}
  /\ \A s \in Source \cup Expected : IsSource(s)
  /\ Unfetchable \notin Source /\ Unverified \notin Source
  /\ Unfetchable # Unverified

VARIABLES
  bundle,      \* what the registry holds: a certificate's source, or a failure
  expected,    \* expectedSource
  pc,          \* main: starting, exited; the calling goroutine: spawn, go,
               \* wait, and returned while there is no call
  next,        \* the referrer the loop is at
  task,        \* the goroutine of each referrer
  hasValid,
  cancelled,   \* gCtx was cancelled by a match
  expired,     \* the caller's context has run out
  mismatches,  \* verifiedSourcesNotMatching
  errList,
  material,    \* the trusted root: not loaded, loaded, or nil with its sync.Once spent
  result

callVars == <<bundle, expected, pc, next, task, hasValid, cancelled, expired,
              mismatches, errList, result>>
vars == <<callVars, material>>

\* Every variable keeps its type: in particular the loop over the referrers
\* stops after the last one.
TypeOK ==
  /\ bundle \in [Referrer -> Source \cup {Unfetchable, Unverified}]
  /\ expected \in Expected
  /\ pc \in {"starting", "exited", "spawn", "go", "wait", "returned"}
  /\ next \in 1..(N + 1)
  /\ task \in [Referrer -> {"new", "started", "fetching", "fetched", "verifying",
                            "done", "panicked"}]
  /\ hasValid \in BOOLEAN
  /\ cancelled \in BOOLEAN
  /\ expired \in BOOLEAN
  /\ mismatches \in SUBSET Referrer
  /\ errList \in SUBSET Referrer
  /\ material \in {"unset", "loaded", "nil"}
  /\ result \in {"none", "valid", "mismatch", "errors", "nothing", "panicked"}

-----------------------------------------------------------------------------
\* Mutant: an expected ref is not compared.
SatisfiesVerificationSource_AnyRef(actual, wanted) ==
  /\ actual.repository = wanted.repository
  /\ wanted.workflow = Any \/ actual.workflow = wanted.workflow

SatisfiesVerificationSource(actual, wanted) ==
  /\ actual.repository = wanted.repository
  /\ wanted.ref = Any \/ actual.ref = wanted.ref
  /\ wanted.workflow = Any \/ actual.workflow = wanted.workflow

Running == {r \in Referrer : task[r] \notin {"new", "done", "panicked"}}

Become(r, state) == task' = [task EXCEPT ![r] = state]

-----------------------------------------------------------------------------
(* The caller. *)

Reset ==
  /\ bundle' \in [Referrer -> Source \cup {Unfetchable, Unverified}]
  /\ expected' \in Expected
  /\ pc' = "spawn"
  /\ next' = 1
  /\ task' = [r \in Referrer |-> "new"]
  /\ hasValid' = FALSE
  /\ cancelled' = FALSE
  /\ expired' \in BOOLEAN
  /\ mismatches' = {}
  /\ errList' = {}
  /\ result' = "none"

\* The next call, for another artifact.
Call ==
  /\ pc = "returned"
  /\ Reset
  /\ UNCHANGED material

\* Mutant: the loop runs one past the end.
NextReferrer_PastEnd ==
  /\ pc = "spawn"
  /\ pc' = IF next > N + 1 \/ hasValid THEN "wait" ELSE "go"
  /\ UNCHANGED <<bundle, expected, next, task, hasValid, cancelled, expired,
                 mismatches, errList, result, material>>

\* The head of the loop.
NextReferrer ==
  /\ pc = "spawn"
  /\ pc' = IF next > N \/ hasValid THEN "wait" ELSE "go"
  /\ UNCHANGED <<bundle, expected, next, task, hasValid, cancelled, expired,
                 mismatches, errList, result, material>>

\* group.Go, which blocks while Limit goroutines run.
Go ==
  /\ pc = "go"
  /\ Cardinality(Running) < Limit
  /\ Become(next, "started")
  /\ next' = next + 1
  /\ pc' = "spawn"
  /\ UNCHANGED <<bundle, expected, hasValid, cancelled, expired, mismatches,
                 errList, result, material>>

Verdict ==
  IF \E r \in Referrer : task[r] = "panicked" THEN "panicked"
  ELSE IF hasValid THEN "valid"
  ELSE IF mismatches # {} THEN "mismatch"
  ELSE IF errList # {} THEN "errors"
  ELSE "nothing"

\* group.Wait returns, and the answer is put together.
Wait ==
  /\ pc = "wait"
  /\ Running = {}
  /\ result' = Verdict
  /\ pc' = "returned"
  /\ UNCHANGED <<bundle, expected, next, task, hasValid, cancelled, expired,
                 mismatches, errList, material>>

-----------------------------------------------------------------------------
(* The goroutine of one referrer. *)

ContextDone == cancelled \/ expired

callerVars == <<bundle, expected, pc, next, expired, result>>

Record(r) ==
  /\ errList' = errList \cup {r}
  /\ Become(r, "done")
  /\ UNCHANGED <<callerVars, hasValid, cancelled, mismatches>>

Proceed(r, state) ==
  /\ Become(r, state)
  /\ UNCHANGED <<callerVars, hasValid, cancelled, mismatches, errList>>

\* Mutant: a goroutine that finds its context done does not return.
Start_Stays(r) ==
  /\ task[r] = "started"
  /\ Proceed(r, IF ContextDone THEN "started" ELSE "fetching")
  /\ UNCHANGED material

\* gCtx.Err() is looked at before anything else.
Start(r) ==
  /\ task[r] = "started"
  /\ Proceed(r, IF ContextDone THEN "done" ELSE "fetching")
  /\ UNCHANGED material

\* fetchReferrerBundle, which a done context may interrupt.
FetchSucceeds(r) ==
  /\ task[r] = "fetching"
  /\ bundle[r] # Unfetchable
  /\ Proceed(r, "fetched")
  /\ UNCHANGED material

FetchFails(r) ==
  /\ task[r] = "fetching"
  /\ bundle[r] = Unfetchable \/ ContextDone
  /\ Record(r)
  /\ UNCHANGED material

\* GetBundleVerifier: the sync.Once is spent since startup, so a goroutine gets
\* what is there and no error.  A verifier around a nil root dereferences it.
GetBundleVerifier(r) ==
  /\ task[r] = "fetched"
  /\ Proceed(r, IF material = "nil" THEN "panicked" ELSE "verifying")
  /\ UNCHANGED material

VerifyFails(r) ==
  /\ task[r] = "verifying"
  /\ bundle[r] = Unverified
  /\ Record(r)
  /\ UNCHANGED material

\* Mutant: a mismatch cancels the others too.
Compare_CancelsAlways(r) ==
  /\ task[r] = "verifying"
  /\ bundle[r] \in Source
  /\ Become(r, "done")
  /\ IF SatisfiesVerificationSource(bundle[r], expected)
       THEN hasValid' = TRUE /\ UNCHANGED mismatches
       ELSE mismatches' = mismatches \cup {r} /\ UNCHANGED hasValid
  /\ cancelled' = TRUE
  /\ UNCHANGED <<callerVars, errList, material>>

\* The certificate's source is compared; a match cancels what still runs.
Compare(r) ==
  /\ task[r] = "verifying"
  /\ bundle[r] \in Source
  /\ Become(r, "done")
  /\ IF SatisfiesVerificationSource(bundle[r], expected)
       THEN hasValid' = TRUE /\ cancelled' = TRUE /\ UNCHANGED mismatches
       ELSE mismatches' = mismatches \cup {r} /\ UNCHANGED <<hasValid, cancelled>>
  /\ UNCHANGED <<callerVars, errList, material>>

Goroutine(r) ==
  \/ Start(r) \/ FetchSucceeds(r) \/ FetchFails(r)
  \/ GetBundleVerifier(r) \/ VerifyFails(r) \/ Compare(r)

-----------------------------------------------------------------------------
(* The process and the clock. *)

\* Mutant: main logs that there is no trusted root, and goes on.
InitTrustedRoots_LogsOnly ==
  /\ pc = "starting"
  /\ material' \in {"loaded", "nil"}
  /\ pc' = "returned"
  /\ UNCHANGED <<bundle, expected, next, task, hasValid, cancelled, expired,
                 mismatches, errList, result>>

\* main loads the trusted roots before anything can call the validation, and
\* exits when it cannot.
InitTrustedRoots ==
  /\ pc = "starting"
  /\ \/ material' = "loaded" /\ pc' = "returned"
     \/ material' = "nil" /\ pc' = "exited"
  /\ UNCHANGED <<bundle, expected, next, task, hasValid, cancelled, expired,
                 mismatches, errList, result>>

\* The process ends, with all its goroutines, and the kubelet starts another.
Restart ==
  /\ pc # "starting"
  /\ pc' = "starting"
  /\ material' = "unset"
  /\ next' = 1
  /\ task' = [r \in Referrer |-> "new"]
  /\ hasValid' = FALSE
  /\ cancelled' = FALSE
  /\ mismatches' = {}
  /\ errList' = {}
  /\ result' = "none"
  /\ UNCHANGED <<bundle, expected, expired>>

Expire ==
  /\ pc \in {"spawn", "go", "wait"}
  /\ ~expired
  /\ expired' = TRUE
  /\ UNCHANGED <<bundle, expected, pc, next, task, hasValid, cancelled,
                 mismatches, errList, result, material>>

Init ==
  /\ bundle \in [Referrer -> Source \cup {Unfetchable, Unverified}]
  /\ expected \in Expected
  /\ pc = "starting"
  /\ next = 1
  /\ task = [r \in Referrer |-> "new"]
  /\ hasValid = FALSE
  /\ cancelled = FALSE
  /\ expired \in BOOLEAN
  /\ mismatches = {}
  /\ errList = {}
  /\ material = "unset"
  /\ result = "none"

Caller == NextReferrer \/ Go \/ Wait

Next ==
  \/ Caller
  \/ \E r \in Referrer : Goroutine(r)
  \/ Call
  \/ InitTrustedRoots \/ Restart
  \/ Expire

\* Goroutines are scheduled, and fetches end: their context has a timeout.
Fairness == WF_vars(Caller) /\ \A r \in Referrer : WF_vars(Goroutine(r))

Spec == Init /\ [][Next]_vars /\ Fairness

-----------------------------------------------------------------------------
(* What the validation promises. *)

\* The sources a user can ask for that this source satisfies.
Covers(s) ==
  [repository : {s.repository}, ref : {s.ref, Any}, workflow : {s.workflow, Any}]

SomeMatch(b, e) == \E r \in Referrer : b[r] \in Source /\ e \in Covers(b[r])

Contract == INSTANCE VerificationContract WITH
  Matching  <- SomeMatch,
  Question  <- [Referrer -> Source \cup {Unfetchable, Unverified}] \X Expected,
  referrers <- bundle,
  cut       <- expired,
  answer    <- result

\* The validation keeps its contract under every schedule of the goroutines: a
\* match is accepted although the others are cancelled, no mismatch is, and no
\* match is missed because of the early exit, the limit or an error elsewhere,
\* unless the context expires.
KeepsContract == Contract!CSpec

\* Every call returns, unless the process ends: with all Limit slots taken the
\* loop still goes on, and cancelled goroutines end.
CallReturns == pc = "spawn" ~> pc \in {"returned", "starting"}

\* The claim of PublicTrustedRoot, "returns trusted material for the Sigstore
\* public-good instance": no goroutine is given a nil root and no error, although
\* the sync.Once tells only its first caller that loading has failed.
RootIsMaterial == \A r \in Referrer : task[r] # "panicked"

=============================================================================
