SPECIFICATION ControllerSpec
CONSTANTS
  N = 1
  Ref = {}
  Uid = {u1}
  Other = other
  v1 = v1
  v2 = v2
  client = client
  Value = {v1, v2}
  NoObject = noObject
  Nil = nil
  FromInput = fromInput
  NoSC = noSC
  Specs <- TokenXSpecs
  MaxGen = 2
  MaxTries = 2
  MaxDisturbances = 1
  Disturbances = {"fault", "restart", "input", "write", "disown", "delete", "desync", "remove"}
INVARIANTS
  RestsAsDesired
  RestsWithTrueStatus
PROPERTIES
  ComesToRest
  DeletionCompletes
CHECK_DEADLOCK FALSE
