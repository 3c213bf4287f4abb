SPECIFICATION FairSpec
CONSTANTS
  a = a
  b = b
  team = team
  Application = {a, b}
  Namespace = {1, 2, 3}
  Own = 1
  Label = {team}
  AppRules <- MCAppRules
  Policies <- MCPolicies
  Nil = nil
  MaxEvents = 3
INVARIANTS
  TypeOK
  RestsCurrent
PROPERTIES
  RewritesOnlyOnChange
  EventuallyCurrent
CHECK_DEADLOCK FALSE
