\* Three edits lead through all three ways to configure the client and back to
\* the first, while two calls of either controller fail.
CONSTANTS
  Absent = Absent
  MaxEdits = 3
  MaxFaults = 2
SPECIFICATION Spec
INVARIANTS
  TypeOK
  RestsWithCredentials
PROPERTIES
  EventuallyServed
\* A SecurityConfig without the capability leaves nothing to do.
CHECK_DEADLOCK FALSE
