--------------------------- MODULE MC_PodWebhook ---------------------------
(***************************************************************************)
(* One Pod at a time: every order of the services, an unknown one, a Pod   *)
(* without label, without the Application's container, and with each       *)
(* obstacle; two SecurityConfigs and two Applications.                     *)
(***************************************************************************)
EXTENDS PodWebhook, TLC

CONSTANTS app1, app2

Pod(app, verify, services, hasApp, obstacles) ==
  [app |-> app, verify |-> verify, services |-> services, hasApp |-> hasApp,
   obstacles |-> obstacles]

Services == {<<>>, <<"texas">>, <<"texas", "opa">>, <<"opa", "texas", "opa">>, <<"opa", "opa">>}

Pods ==
  {Pod(app1, TRUE, s, TRUE, {}) : s \in Services}
  \cup {Pod(app1, FALSE, <<"texas", "opa">>, TRUE, {o}) : o \in {"container", "env", "volume"}}
  \cup {Pod(app1, FALSE, <<"texas">>, FALSE, {"env"}), Pod(Nil, TRUE, <<"opa">>, TRUE, {}),
        Pod(app1, FALSE, <<"unknown">>, TRUE, {})}

ValueSymmetry == Permutations(Value)

=============================================================================
