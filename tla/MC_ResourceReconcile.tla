----------------------- MODULE MC_ResourceReconcile -----------------------
(***************************************************************************)
(* The resource pass for two slots: every pair of desired contents, two    *)
(* incarnations of the SecurityConfig and a stranger as owners, a cache    *)
(* that lags by any amount, and every way an API call can fail.            *)
(***************************************************************************)
EXTENDS ResourceReconcile, TLC

\* Incarnations and contents are only compared for equality.
Symmetry == Permutations(Uid) \cup Permutations(Value)

=============================================================================
