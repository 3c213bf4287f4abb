SPECIFICATION Spec
CONSTANTS
  Name = {n1, n2}
  app1 = app1
  app2 = app2
  App = {app1, app2}
  Value = {v1, v2}
  Nil = nil
  Off = off
  NoConfig = noConfig
  OpaEnabled = TRUE
  Requests <- Pods
  MaxEdits = 2
INVARIANTS
  NeverPanics
CHECK_DEADLOCK FALSE
