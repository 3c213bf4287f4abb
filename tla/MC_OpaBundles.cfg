SPECIFICATION Spec
CONSTANTS
  r1 = r1
  r2 = r2
  tag = tag
  signed = signed
  unsigned = unsigned
  bare = bare
  mine = mine
  selfAuth = selfAuth
  src = src
  Replica = {r1, r2}
  SC = {n, m}
  Tag = {tag}
  Digest = {signed, unsigned, bare}
  Name = {mine, selfAuth}
  Source = {src}
  SourceOf <- MCSourceOf
  HasLayer = {signed, unsigned}
  Specs <- MCSpecs
  Configs <- MCConfigs
  Nil = nil
  MaxEvents = 4
INVARIANTS
  TypeOK
  ConfigMapIsExact
  PinnedIsVerified
  SelfBundleKept
  RestsWithLeader
  AuthorizationHasPolicy
SYMMETRY Symmetry
CHECK_DEADLOCK FALSE
