SPECIFICATION Spec

CONSTANTS
  Candidates = {1, 2}
  CapacityKeys = {"A"}
  Routes = {"text", "image"}
  Definitions = {"model"}
  Requests = {1}
  Uncertain = {}
  Settings <- AliasSettings
  Observations <- NoObservations
  RouteRates = {}
  ProviderDelays = {}
  Modes = {"Automatic"}
  Policies <- DefaultPolicy
  Ceilings = {3}
  MaxDispatches = 3
  MaxCounted = 2
  FailureThreshold = 2
  FailureWindow = 0
  FirstPacing = 0
  SecondPacing = 0
  OpenBackoff = 0
  MaxOpenBackoff = 0
  MaxLease = 3
  MaxGeneration = 2
  MaxNow = 0

INVARIANTS
  HealthyAlternativeAdmitted

CHECK_DEADLOCK FALSE
