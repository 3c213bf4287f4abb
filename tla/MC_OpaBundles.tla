--------------------------- MODULE MC_OpaBundles ---------------------------
(***************************************************************************)
(* Two replicas and two SecurityConfigs.  Digest "signed" was built from   *)
(* the expected source, "unsigned" was not, "bare" is signed and has no    *)
(* bundle layer.  The self-authorization bundle is pinned, or goes by the  *)
(* tag, or is not configured, and a user's bundle may have its name.       *)
(***************************************************************************)
EXTENDS OpaBundles, TLC

CONSTANTS r1, r2, tag, signed, unsigned, bare, mine, selfAuth, src

MCSourceOf == [d \in Digest |-> IF d = unsigned THEN {} ELSE {src}]

B(name, url, verification) == [name |-> name, url |-> url, verification |-> verification]

Tagged   == [enabled |-> TRUE, bundleURLs |-> <<B(mine, tag, src)>>]
Mixed    == [enabled |-> TRUE, bundleURLs |-> <<B(selfAuth, tag, Nil), B(mine, signed, src)>>]
Wrong    == [enabled |-> TRUE, bundleURLs |-> <<B(selfAuth, tag, Nil), B(mine, unsigned, src)>>]
MCSpecs  == {Tagged, Mixed, Wrong, NoOpa}

C(opaEnabled, self) == [opaEnabled |-> opaEnabled, allowed |-> URL, self |-> self]

MCConfigs == {C(TRUE, Nil), C(FALSE, Nil), C(TRUE, B(selfAuth, signed, src)),
              C(TRUE, B(selfAuth, tag, src))}

\* Neither replicas nor SecurityConfigs are named anywhere.
Symmetry == Permutations(Replica) \cup Permutations(SC)

=============================================================================
