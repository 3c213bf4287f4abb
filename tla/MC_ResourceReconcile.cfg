SPECIFICATION Spec
CONSTANTS
  N = 2
  Ref = {}
  Uid = {u1, u2}
  Other = other
  Value = {v1, v2}
  NoObject = noObject
  Nil = nil
SYMMETRY Symmetry
INVARIANTS
  TypeOK
  FailuresReported
  DescendantsComplete
PROPERTIES
  WritesOnlyOwned
