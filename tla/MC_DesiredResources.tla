------------------------- MODULE MC_DesiredResources -------------------------
(***************************************************************************)
(* Two SecurityConfigs.  "shop" has the name of its Application and goes   *)
(* through every capability and every way to configure it; "other" has     *)
(* TokenX for one or the other Application, and so competes for its Jwker. *)
(***************************************************************************)
EXTENDS DesiredResources

CONSTANTS shop, other, bank, x, y, v1, v2

NoClient == [enabled |-> FALSE, client |-> FALSE, clientRef |-> Nil, secretRef |-> Nil]
Default  == [NoClient EXCEPT !.enabled = TRUE]
Inline   == [Default EXCEPT !.client = TRUE]
ByRef    == [Default EXCEPT !.clientRef = x]
BySecret == [Default EXCEPT !.secretRef = [id |-> x, jwk |-> y]]

NoAudience == [enabled |-> FALSE, value |-> Nil, configMap |-> Nil, secret |-> Nil]
Static     == [NoAudience EXCEPT !.enabled = TRUE, !.value = v1]
FromMap    == [NoAudience EXCEPT !.enabled = TRUE, !.configMap = x]
FromSecret == [NoAudience EXCEPT !.enabled = TRUE, !.secret = y]

Nothing == [app |-> shop, tokenx |-> "unset", maskinporten |-> NoClient, entraid |-> NoClient,
            idporten |-> NoAudience, ansattporten |-> NoAudience, opa |-> "unset"]

ShopSpecs ==
  {Nothing,
   [Nothing EXCEPT !.tokenx = "inherit", !.opa = "policy", !.entraid = BySecret],
   [Nothing EXCEPT !.maskinporten = Inline, !.entraid = ByRef, !.idporten = FromMap,
                   !.opa = "enabled"],
   [Nothing EXCEPT !.maskinporten = BySecret, !.entraid = Default, !.ansattporten = FromSecret,
                   !.idporten = Static],
   [Nothing EXCEPT !.maskinporten = [BySecret EXCEPT !.enabled = FALSE],
                   !.idporten = FromSecret, !.ansattporten = FromMap],
   [Nothing EXCEPT !.maskinporten = ByRef, !.entraid = Inline, !.tokenx = "disabled",
                   !.opa = "disabled"]}

OtherSpecs ==
  {[Nothing EXCEPT !.tokenx = "enabled"],
   [Nothing EXCEPT !.app = bank, !.tokenx = "enabled", !.maskinporten = BySecret]}

Inputs == {ObjectKey("Application", a, "none") : a \in {shop, bank}}
          \cup {ObjectKey("Secret", e, "none") : e \in {x, y}} \cup {ObjectKey("ConfigMap", x, "none")}
TheirClients == {ObjectKey(kind, x, "none") : kind \in {"MaskinportenClient", "AzureAdApplication"}}

SpecsOf == [n \in SC |-> IF n = shop THEN ShopSpecs ELSE OtherSpecs]

=============================================================================
