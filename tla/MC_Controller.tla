--------------------------- MODULE MC_Controller ---------------------------
(***************************************************************************)
(* The controller on small instances.  With two slots, slot 1 is a Jwker,  *)
(* whose content comes from the Application's access policy, and slot 2 a  *)
(* NetworkPolicy of fixed content.  With one slot, it is the Jwker, or the *)
(* ServiceEntry of a Maskinporten capability whose client "client" is a    *)
(* clientRef.                                                              *)
(***************************************************************************)
EXTENDS Controller

CONSTANTS v1, v2, client

\* Two slots.
TokenXPair   == [desired |-> <<FromInput, v1>>, gates |-> <<1>>]
DisabledPair == [desired |-> <<Nil, Nil>>, gates |-> <<>>]
PairSpecs    == {TokenXPair, DisabledPair}

\* One slot.
TokenX       == [desired |-> <<FromInput>>, gates |-> <<1>>]
Maskinporten == [desired |-> <<v1>>, gates |-> <<client>>]
Disabled     == [desired |-> <<Nil>>, gates |-> <<>>]
\* No content is named in these.
TokenXSpecs  == {TokenX, Disabled}
ClientRefSpecs == {Maskinporten, Disabled}
=============================================================================
