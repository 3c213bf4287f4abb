SPECIFICATION ControllerSpec
CONSTANTS
  N = 1
  Ref = {client}
  Uid = {u1}
  Other = other
  v1 = v1
  v2 = v2
  client = client
  Value = {v1, v2}
  NoObject = noObject
  Nil = nil
  FromInput = fromInput
  NoSC = noSC
  Specs <- ClientRefSpecs
  MaxGen = 2
  MaxTries = 2
  MaxDisturbances = 1
  Disturbances = {"delete"}
INVARIANTS
  RestsNotFalselyReady
CHECK_DEADLOCK FALSE
