SPECIFICATION Spec
CONSTANTS
  a1 = a1
  a2 = a2
  a3 = a3
  b1 = b1
  alice = alice
  bob = bob
  m1 = m1
  m2 = m2
  Nobody = Nobody
  NoMember = NoMember
  Requests = {a1, a2, b1}
  Principals = {alice, bob}
  PrincipalOf <- TwoPrincipals
  Members = {m1, m2}
  Eligible <- Apart
  Persistent = {a1, a2, b1}
  HiddenSets = {}
  Impatient = {}
  Capacity <- OneEach
  MaxQueued = 3
  MaxPerPrincipal = 2
  MaxArrivals = 5
  MaxChanges = 1
CONSTRAINT Recovering
CHECK_DEADLOCK FALSE
INVARIANTS NoStall
