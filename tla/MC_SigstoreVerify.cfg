SPECIFICATION Spec
CONSTANTS
  N = 3
  Limit = 2
  a = a
  b = b
  main = main
  dev = dev
  build = build
  Any = any
  Unfetchable = unfetchable
  Unverified = unverified
  Source <- Sources
  Expected <- Expectations
INVARIANTS
  TypeOK
  RootIsMaterial
PROPERTIES
  KeepsContract
  CallReturns
