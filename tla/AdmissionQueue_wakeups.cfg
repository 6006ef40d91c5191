SPECIFICATION FairSpec
CONSTANTS
  a1 = a1
  a2 = a2
  a3 = a3
  b1 = b1
  alice = alice
  bob = bob
  m1 = m1
  m2 = m2
  Nobody = Nobody
  NoMember = NoMember
  Requests = {a1, a2, a3}
  Principals = {alice}
  PrincipalOf <- OnePrincipal
  Members = {m1, m2}
  Eligible <- Overlapping
  Persistent = {a1, a2}
  HiddenSets = {}
  Impatient = {a3}
  Capacity <- OneEach
  MaxQueued = 3
  MaxPerPrincipal = 3
  MaxArrivals = 4
  MaxChanges = 0
CHECK_DEADLOCK FALSE
PROPERTIES WaitersLeave
