-------------------------- MODULE MC_InboundRules --------------------------
(***************************************************************************)
(* Three namespaces of which any may carry the label.  Rules and clients   *)
(* overlap, so that there are duplicates to remove.                        *)
(***************************************************************************)
EXTENDS InboundRules

CONSTANTS a, b, team

R(application, namespace, label) ==
  [application |-> application, namespace |-> namespace, label |-> label]

\* Twice the same label, a label next to a namespace that prevails, and a rule
\* with neither.
MCAppRules == {<<>>, <<R(a, Nil, team), R(b, Nil, team)>>,
               <<R(a, 3, team), R(b, Nil, Nil), R(a, Nil, team)>>}

C(application, namespace) == [application |-> application, namespace |-> namespace]

MCPolicies == {Nil, [inherit |-> TRUE,  clients |-> <<C(a, 2), C(a, Nil)>>],
                    [inherit |-> FALSE, clients |-> <<C(b, Nil), C(b, 1)>>]}

=============================================================================
