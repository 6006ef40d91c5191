SPECIFICATION Spec

CONSTANTS
  Candidates = {1}
  CapacityKeys = {"A"}
  Routes = {"text"}
  Definitions = {"model"}
  Requests = {1, 2}
  Uncertain = {}
  Settings <- OneSetting
  Observations <- NoObservations
  RouteRates = {}
  ProviderDelays = {2}
  Modes = {"Automatic"}
  Policies <- DefaultPolicy
  Ceilings = {3}
  MaxDispatches = 2
  MaxCounted = 2
  FailureThreshold = 2
  FailureWindow = 1
  FirstPacing = 1
  SecondPacing = 1
  OpenBackoff = 2
  MaxOpenBackoff = 2
  MaxLease = 4
  MaxGeneration = 1
  MaxNow = 2

INVARIANTS
  TypeOK
  StreakCountsRequests

PROPERTIES
  IncidentEndsByItsTrial
  DispatchThroughGate

CHECK_DEADLOCK FALSE
