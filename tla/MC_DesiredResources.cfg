SPECIFICATION Spec
CONSTANTS
  shop = shop
  other = other
  bank = bank
  x = x
  y = y
  v1 = v1
  v2 = v2
  SC = {shop, other}
  App = {shop, bank}
  Ext = {x, y}
  Value = {v1, v2}
  Fixed = fixed
  Nil = nil
  Absent = absent
  NoSC = noSC
  UserKeys <- Inputs
  UserClients <- TheirClients
  Specs <- SpecsOf
  TokenxEnabled = TRUE
  OpaEnabled = TRUE
  MaxChanges = 3
INVARIANTS
  TypeOK
  UpToDate
  PendingHasReason
  NothingLeftBehind
CHECK_DEADLOCK FALSE
