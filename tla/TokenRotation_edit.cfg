\* One request and a proxy edit that writes back what it read.
SPECIFICATION Spec
CONSTANTS
  Requests = {r1}
  User = User
  Nobody = Nobody
  Dead = Dead
  None = None
  Lifetime = 1
  MaxGrants = 3
  MaxTime = 1
  MaxMishaps = 1
  Windows = {"edit"}
CHECK_DEADLOCK FALSE
PROPERTY ObeysLedger
