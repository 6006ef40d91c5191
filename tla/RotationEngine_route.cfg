SPECIFICATION Spec

CONSTANTS
  Candidates = {1}
  CapacityKeys = {"A"}
  Routes = {"text", "image"}
  Definitions = {"model"}
  Requests = {1, 2}
  Uncertain = {}
  Settings <- RouteSettings
  Observations <- NoObservations
  RouteRates = {}
  ProviderDelays = {}
  Modes = {"Automatic"}
  Policies <- DefaultPolicy
  Ceilings = {3}
  MaxDispatches = 2
  MaxCounted = 2
  FailureThreshold = 2
  FailureWindow = 0
  FirstPacing = 0
  SecondPacing = 0
  OpenBackoff = 0
  MaxOpenBackoff = 0
  MaxLease = 3
  MaxGeneration = 1
  MaxNow = 0

PROPERTIES
  ReplacedRouteIsInert

CHECK_DEADLOCK FALSE
