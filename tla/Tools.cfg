SPECIFICATION Spec
CONSTANTS
  Calls = {c1, c2}
  Addresses = {a1, b1}
  Existing = {b1}
  OnDomain = {a1}
  Old = Old
  None = None
  MaxEdits = 1
  MaxRotations = 1
  Envs <- MCEnvs
INVARIANTS
  TypeOK
  AppliedAsReported
  ReportsOwnUpdate
  CatchAllOnDomain
  WhoamiReportsOwnRotation
  ServeFailureReported
PROPERTIES
  GatesHold
  SignalledEnds
CHECK_DEADLOCK FALSE
