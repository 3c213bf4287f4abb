SPECIFICATION ControllerSpec
CONSTANTS
  N = 1
  Ref = {client}
  Uid = {u1, u2}
  Other = other
  v1 = v1
  v2 = v2
  client = client
  Value = {v1}
  NoObject = noObject
  Nil = nil
  FromInput = fromInput
  NoSC = noSC
  Specs <- ClientRefSpecs
  MaxGen = 2
  MaxTries = 2
  MaxDisturbances = 1
  Disturbances = {"delete", "desync", "remove"}
INVARIANTS
  RestsAsDesired
  RestsWithTrueStatus
CHECK_DEADLOCK FALSE
