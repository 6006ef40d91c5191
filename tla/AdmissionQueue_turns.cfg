SPECIFICATION Spec
CONSTANTS
  a1 = a1
  a2 = a2
  a3 = a3
  b1 = b1
  alice = alice
  bob = bob
  m1 = m1
  m2 = m2
  Nobody = Nobody
  NoMember = NoMember
  Requests = {a1, a2, b1}
  Principals = {alice, bob}
  PrincipalOf <- TwoPrincipals
  Members = {m1}
  Eligible <- AnyMember
  Persistent = {b1}
  HiddenSets = {{b1}}
  Impatient = {}
  Capacity <- OneEach
  MaxQueued = 2
  MaxPerPrincipal = 2
  MaxArrivals = 4
  MaxChanges = 1
SYMMETRY Alike
CHECK_DEADLOCK FALSE
INVARIANTS TypeOK QueueMatchesDrivers BoundedBypass NoLostWakeup DeadlineIsArmed
PROPERTIES GrantsInOrder
