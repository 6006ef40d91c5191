SPECIFICATION Spec

CONSTANTS
  Candidates = {1, 2}
  CapacityKeys = {"A", "B"}
  Routes = {"text"}
  Definitions = {"model"}
  Requests = {1}
  Uncertain = {}
  Settings <- MemberSettings
  Observations <- NoObservations
  RouteRates = {}
  ProviderDelays = {}
  Modes = {"Automatic"}
  Policies <- DefaultPolicy
  Ceilings = {2}
  MaxDispatches = 1
  MaxCounted = 2
  FailureThreshold = 2
  FailureWindow = 0
  FirstPacing = 0
  SecondPacing = 0
  OpenBackoff = 0
  MaxOpenBackoff = 0
  MaxLease = 3
  MaxGeneration = 3
  MaxNow = 0

INVARIANTS
  LeaseAccounting
  CapacityLimitFresh

PROPERTIES
  AdmissionWithinLimits
  ReplacedMemberIsInert

CHECK_DEADLOCK FALSE
