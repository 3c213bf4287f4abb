------------------------- MODULE MC_SigstoreVerify -------------------------
(***************************************************************************)
(* Three referrers and two slots, so that the loop blocks; two sources, of *)
(* which the user asks for one, for both, or for neither.                  *)
(***************************************************************************)
EXTENDS SigstoreVerify

CONSTANTS a, b, main, dev, build

Src(repository, ref, workflow) ==
  [repository |-> repository, ref |-> ref, workflow |-> workflow]

Sources      == {Src(a, main, build), Src(a, dev, build)}
Expectations == {Src(a, main, Any), Src(a, Any, build), Src(b, Any, Any)}

=============================================================================
