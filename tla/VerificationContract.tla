------------------------ MODULE VerificationContract ------------------------
(***************************************************************************)
(* What the validation of an OPA bundle's attestations promises its        *)
(* callers, whatever goes on inside: one answer per call; acceptance only  *)
(* if some referrer's verified source satisfies the expected one; refusal  *)
(* only if none does, or if the call was cut short.                        *)
(***************************************************************************)
CONSTANTS
  Matching(_, _),  \* whether a referrer among these satisfies the expected source
  Question         \* what a call can be asked: referrers and expected source

VARIABLES
  referrers,  \* what the registry holds for this call
  expected,   \* the source the bundle must come from
  cut,        \* the call was cut short by a timeout
  answer      \* "none" until the call returns

contractVars == <<referrers, expected, cut, answer>>

Answers == {"valid", "mismatch", "errors", "nothing", "panicked"}

CInit ==
  /\ <<referrers, expected>> \in Question
  /\ cut \in BOOLEAN
  /\ answer = "none"

CutShort ==
  /\ answer = "none"
  /\ cut' = TRUE
  /\ UNCHANGED <<referrers, expected, answer>>

Answer ==
  /\ answer = "none"
  /\ answer' \in Answers
  /\ answer' = "valid" => Matching(referrers, expected)
  /\ answer' # "valid" => cut \/ ~Matching(referrers, expected)
  /\ UNCHANGED <<referrers, expected, cut>>

Ask ==
  /\ answer' = "none"
  /\ <<referrers, expected>>' \in Question
  /\ cut' \in BOOLEAN

CNext == CutShort \/ Answer \/ Ask

CSpec == CInit /\ [][CNext]_contractVars

=============================================================================
