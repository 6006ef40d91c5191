SPECIFICATION FairSpec

CONSTANTS
  Candidates = {1}
  CapacityKeys = {"A"}
  Routes = {"text"}
  Definitions = {"model"}
  Requests = {1}
  Uncertain = {1}
  Settings <- OneSetting
  Observations <- ManyObservations
  RouteRates = {2}
  ProviderDelays = {}
  Modes = {"Automatic", "Failover"}
  Policies <- TwoPolicies
  Ceilings = {1, 2}
  MaxDispatches = 2
  MaxCounted = 2
  FailureThreshold = 2
  FailureWindow = 1
  FirstPacing = 1
  SecondPacing = 1
  OpenBackoff = 2
  MaxOpenBackoff = 2
  MaxLease = 2
  MaxGeneration = 1
  MaxNow = 2

PROPERTIES
  DispatchRespectsDeadlines
  GateReturns

CHECK_DEADLOCK FALSE
