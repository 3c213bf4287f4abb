SPECIFICATION ControllerSpec
CONSTANTS
  N = 2
  Ref = {}
  Uid = {u1}
  Other = other
  v1 = v1
  v2 = v2
  client = client
  Value = {v1, v2}
  NoObject = noObject
  Nil = nil
  FromInput = fromInput
  NoSC = noSC
  Specs <- PairSpecs
  MaxGen = 2
  MaxTries = 2
  MaxDisturbances = 1
  Disturbances = {"fault", "restart"}
INVARIANTS
  ControllerTypeOK
  RestsAsDesired
  RestsWithTrueStatus
  ReadyMeansReconciled
CHECK_DEADLOCK FALSE
