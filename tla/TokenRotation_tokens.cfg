\* Two requests, sign-in and deletion, one failure: the whole rotation protocol.
SPECIFICATION Spec
CONSTANTS
  Requests = {r1, r2}
  User = User
  Nobody = Nobody
  Dead = Dead
  None = None
  Lifetime = 1
  MaxGrants = 2
  MaxTime = 1
  MaxMishaps = 1
  Windows = {}
SYMMETRY Alike
CHECK_DEADLOCK FALSE
INVARIANTS
  TypeOK
  PreparedMatchesSlot
  BuriedStayBuried
  SpentGrantIsFenced
  ReceivedPairIsKept
PROPERTY ObeysLedger
