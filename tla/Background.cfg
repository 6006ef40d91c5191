SPECIFICATION Spec
CONSTANTS
  Callers = {"s1", "s2", "q1", "q2"}
  Origins = {"x", "y"}
  ClassOf <- MCClassOf
  OriginOf <- MCOriginOf
  Concurrent = 2
  PerOrigin = 2
  ReservedAuth = 1
  MaxWaiters = 2
  NoCaller = NoCaller
  Keys = {"q1", "q2"}
  MemberOf <- MCMemberOf
  KindOf <- MCKindOf
  RevisionOf <- MCRevisionOf
  OriginOfKey <- MCOriginOfKey
  ClassOrder <- MCClassOrder
  RefreshCallers = {"u"}
  Jobs = {1, 2}
  RunLimit = 2
  OriginLimit = 2
  AuthShare = 0
  Interval = 1
  MinimumInterval = 1
  RetryAfter = 1
  Spacing = 1
  MaxDeferrals = 1
  Never = Never
  NoEntry = NoEntry
  QuotaWindows = {"w1", "w2"}
  AccountOfWindow <- MCAccountOfWindow
  MaxAttempts = 2
  BatchSize = 2
  Jitter = 1
  MaxMishaps = 1
  MaxCommands = 1
  NotDue = NotDue
  NoCycle = NoCycle
  Candidates = {"c1", "c2"}
  PoolMemberOf <- MCPoolMemberOf
  PoolLimit <- MCPoolLimit
  PoolLeases = {"l1", "l2"}
  FenceHolders = {"f1", "f2"}
  MaxUpserts = 3
  MaxEpochs = 2
  Absent = Absent
  Snapshots = {"p"}
  Sources = {"q"}
  Credentials = {"t"}
  Secrets = {"k1", "k2"}
  NoSecret = NoSecret
  NoFile = NoFile
  NoWriter = NoWriter
  NoCommand = NoCommand
CHECK_DEADLOCK FALSE
INVARIANTS BackgroundTypeOK AuthReserve TurnIsAwake EventLeadsToRead DriverSeesDue WakeBudget WorkerSeesDue MemberWithinLimit FenceHolds VaultSurvives
PROPERTIES RetiredReadIsInert SettledIsFinal RevokedIsNotSent Served
