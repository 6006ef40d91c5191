--------------------------- MODULE RotationEngine ---------------------------
(***************************************************************************)
(* The pool-rotation engine of relay-core                                  *)
(* (crates/relay-core/src/scheduler/rotation): candidates, physical        *)
(* capacity, leases, per-route circuits with a half-open recovery gate,    *)
(* recovery permits and the dispatch budget of a request.                  *)
(*                                                                         *)
(* Every public operation of the engine runs to completion under the       *)
(* scheduler's mutex, so one call is one action; the interleaving is that  *)
(* of the calls made by the request drivers, the configuration and the     *)
(* provider observers.  A call that returns an error changes nothing and   *)
(* is not a step.                                                          *)
(***************************************************************************)
EXTENDS Integers, FiniteSets, FiniteSetsExt

CONSTANTS
  Candidates,     \* candidate identities, ordered like the engine's BTreeMap
  CapacityKeys,   \* physical resources; aliases share one
  Routes,         \* route keys
  Definitions,    \* what a route key can stand for: a model and an operation
  Requests,       \* request identities, ordered
  Uncertain,      \* requests whose remote execution may become uncertain
  Settings,       \* what upsert may install for a candidate
  Observations,   \* what sync_candidate_state may report
  RouteRates,     \* deadlines sync_candidate_route_rate may report, 0 = Ready
  ProviderDelays, \* delays a provider may ask for with a failure, 0 = none
  Modes,          \* rotation modes the user may select
  Policies,       \* recovery policies the host may install
  Ceilings        \* runtime ceilings set_max_in_flight may install

CONSTANTS
  MaxDispatches,     \* dispatch budget of one request
  MaxCounted,        \* failed requests a circuit remembers (64 in the code)
  FailureThreshold,  \* CIRCUIT_FAILURE_THRESHOLD
  FailureWindow,     \* FAILURE_WINDOW_MS
  FirstPacing, SecondPacing, OpenBackoff, MaxOpenBackoff, \* *_PACING_MS, *_BACKOFF_MS
  MaxLease,          \* largest lease id: next_lease_id.checked_add fails beyond it
  MaxGeneration,     \* largest generation: next_candidate_generation.checked_add
  MaxNow             \* bound of the clock, for TLC

VARIABLES
  candidates,        \* registered candidates: settings, observations, in_flight
  nextGeneration,    \* next_candidate_generation
  circuits,          \* one circuit per candidate and route, absent = default
  leases,            \* live leases by id
  nextLease,         \* next_lease_id
  capacityInFlight,  \* capacity_in_flight
  capacityLimit,     \* capacity_limits, the cached limit of each key, 0 = none
  maxInFlight,       \* max_in_flight
  policy,            \* recovery_policy
  recoveryCredits, recoveryInFlight, successesSinceRecovery,
  mode,
  budgets,           \* RequestBudget of each request
  now                \* the clock the callers pass as now_ms

vars == <<candidates, nextGeneration, circuits, leases, nextLease,
          capacityInFlight, capacityLimit, maxInFlight, policy, recoveryCredits,
          recoveryInFlight, successesSinceRecovery, mode, budgets, now>>

recoveryVars == <<recoveryCredits, recoveryInFlight, successesSinceRecovery>>
limitVars    == <<maxInFlight, policy, mode>>

-----------------------------------------------------------------------------
(* Types *)

NoLease == 0      \* lease ids start at one
Time    == Nat    \* milliseconds; 0 stands for None and for RateState::Ready

CircuitStates == {"Closed", "Degraded", "Open", "HalfOpen"}
AuthStates    == {"Ready", "NeedsRefresh", "Blocked"}
QuotaStates   == {"Unknown", "Available", "CreditFallback", "Stale", "Exhausted"}
\* "Neutral" stands for Busy, Cancelled, ClientError, LocalError,
\* MonitoringFailure and Unknown, which the reducer treats alike.
Outcomes      == {"Success", "Transient", "Neutral"}

\* validate refuses a candidate without a route.
RouteMap == UNION {[S -> Definitions] : S \in SUBSET Routes \ {{}}}

Setting == [routes : RouteMap, key : CapacityKeys, maxConcurrency : Nat,
            capacityLimit : Nat, enabled : BOOLEAN, draining : BOOLEAN]

Observation == [enabled : BOOLEAN, draining : BOOLEAN, auth : AuthStates,
                quota : QuotaStates, rate : Time]

Candidate == [routes : RouteMap, key : CapacityKeys, maxConcurrency : Nat,
              capacityLimit : Nat, enabled : BOOLEAN, draining : BOOLEAN,
              auth : AuthStates, quota : QuotaStates, creditsFresh : BOOLEAN,
              rate : Time, routeRates : [Routes -> Time],
              inFlight : Nat, generation : Nat]

Circuit == [state : CircuitStates, streak : Nat, counted : SUBSET Requests,
            notBefore : Time, epoch : Nat, incident : Nat,
            lastFailure : [seen : BOOLEAN, at : Time], halfOpen : Nat]

\* `replaced` is a history variable, not in the code: it records that the
\* member ("member") or the route definition ("route") the lease was admitted
\* on has been replaced since.
Lease == [candidate : Candidates, generation : Nat, request : Requests,
          route : Routes, definition : Definitions, key : CapacityKeys,
          recovery : BOOLEAN, creditRequired : BOOLEAN, attempt : 0..MaxDispatches,
          epoch : Nat, incident : Nat, quota : QuotaStates, rate : Time,
          routeRate : Time, replaced : {"no", "route", "member"}]

Policy == [initialCredits : Nat, successesPerCredit : Nat \ {0},
           maxInFlight : Nat \ {0}]

Budget == [dispatches : 0..MaxDispatches, replayStopped : BOOLEAN]

ASSUME ConstantsAssumption ==
  /\ Candidates \subseteq Nat /\ Requests \subseteq Nat /\ Uncertain \subseteq Requests
  /\ Settings \subseteq Setting /\ Observations \subseteq Observation
  /\ RouteRates \subseteq Time /\ ProviderDelays \subseteq Nat
  /\ Policies \subseteq Policy /\ Ceilings \subseteq Nat \ {0}
  /\ Policies # {} /\ Ceilings # {} /\ Modes # {}
  /\ MaxDispatches \in Nat /\ MaxCounted \in Nat /\ FailureThreshold \in Nat
  /\ FailureWindow \in Nat /\ FirstPacing \in Nat /\ SecondPacing \in Nat
  /\ OpenBackoff \in Nat /\ MaxOpenBackoff \in Nat
  /\ MaxLease \in Nat /\ MaxGeneration \in Nat /\ MaxNow \in Nat

-----------------------------------------------------------------------------
(* Helpers.  A definition that differs from the next one in what its name   *)
(* says is a fault the runs are shown to detect; no action uses it.         *)

ClosedCircuit == [state |-> "Closed", streak |-> 0, counted |-> {},
                  notBefore |-> 0, epoch |-> 0, incident |-> 0,
                  lastFailure |-> [seen |-> FALSE, at |-> 0],
                  halfOpen |-> NoLease]

Live == DOMAIN leases
Registered == DOMAIN candidates

AtLeast(a, b) == IF a >= b THEN a ELSE b
AtMost(a, b)  == IF a <= b THEN a ELSE b
Minus1(n)     == IF n > 0 THEN n - 1 ELSE 0   \* saturating_sub(1)

\* A map without, or with one more, entry.
Without(f, x)  == [y \in DOMAIN f \ {x} |-> f[y]]
With(f, x, v)  == [y \in DOMAIN f \cup {x} |-> IF y = x THEN v ELSE f[y]]

\* 1, 2, 4, .. 32: the exponent of the open backoff stops at five.
Doubling(k) == <<1, 2, 4, 8, 16, 32>>[AtMost(k, 5) + 1]

FailureBackoff(streak) ==
  IF streak <= 1 THEN FirstPacing
  ELSE IF streak = 2 THEN SecondPacing
  ELSE AtMost(OpenBackoff * Doubling(streak - 3), MaxOpenBackoff)

\* recompute_capacity_limit: the smallest positive limit of the members that
\* share the key.
SharingLimits(members, k) ==
  LET sharing == {c \in DOMAIN members : members[c].key = k}
  IN  ({members[c].capacityLimit : c \in sharing}
       \cup {members[c].maxConcurrency : c \in sharing}) \ {0}

LimitOf(members, k) ==
  IF SharingLimits(members, k) = {} THEN 0 ELSE Min(SharingLimits(members, k))

Recomputed(members, keys) ==
  [k \in CapacityKeys |-> IF k \in keys THEN LimitOf(members, k) ELSE capacityLimit[k]]

QuotaAdmits(m) ==
  \/ m.quota \in {"Unknown", "Available", "Stale"}
  \/ m.quota = "CreditFallback" /\ m.creditsFresh

CapacityOfMemberFree(m) ==
  /\ Cardinality(Live) < maxInFlight
  /\ m.maxConcurrency > 0 => m.inFlight < m.maxConcurrency

CapacityFree(m) ==
  /\ Cardinality(Live) < maxInFlight
  /\ capacityLimit[m.key] > 0 => capacityInFlight[m.key] < capacityLimit[m.key]
  /\ m.maxConcurrency > 0 => m.inFlight < m.maxConcurrency

NeedsRecovery(c, r) == circuits[<<c, r>>].state \in {"Degraded", "Open"}

\* candidate_availability = Ready: supports, then mutable_availability.
Ready(c, r, d) ==
  /\ c \in Registered
  /\ LET m == candidates[c]
         circuit == circuits[<<c, r>>]
     IN  /\ m.enabled /\ ~m.draining
         /\ r \in DOMAIN m.routes /\ m.routes[r] = d
         /\ m.auth = "Ready"
         /\ QuotaAdmits(m)
         /\ m.rate <= now /\ m.routeRates[r] <= now /\ circuit.notBefore <= now
         /\ CapacityFree(m)
         /\ \/ circuit.state = "Closed"
            \/ NeedsRecovery(c, r) /\ circuit.halfOpen = NoLease

\* ready_candidates: of the aliases of one physical member only the first is kept.
ReadyCandidates(r, d, eligible) ==
  LET ready == {c \in eligible : Ready(c, r, d)}
  IN  {c \in ready : \A x \in ready : candidates[x].key = candidates[c].key => c <= x}

OrdinaryAlternatives(r, d, eligible) ==
  \E c \in ReadyCandidates(r, d, eligible) : ~NeedsRecovery(c, r)

RecoveryAllowedByCredit(r, d, eligible) ==
  OrdinaryAlternatives(r, d, eligible) => recoveryCredits > 0

RecoveryAllowed(r, d, eligible) ==
  /\ recoveryInFlight < policy.maxInFlight
  /\ OrdinaryAlternatives(r, d, eligible) => recoveryCredits > 0

SelectionCandidates(r, d, eligible) ==
  {c \in ReadyCandidates(r, d, eligible) :
     NeedsRecovery(c, r) => RecoveryAllowed(r, d, eligible)}

\* The earliest due recovery, if any, is chosen before every ordinary member,
\* except in Failover.  Which ordinary member the policy prefers (priority,
\* weights, quota headroom, latency) is left open here.
SelectionGroup(r, d, eligible) ==
  LET all  == SelectionCandidates(r, d, eligible)
      due  == {c \in all : NeedsRecovery(c, r)}
      Before(x, y) == \/ circuits[<<x, r>>].notBefore < circuits[<<y, r>>].notBefore
                      \/ circuits[<<x, r>>].notBefore = circuits[<<y, r>>].notBefore /\ x <= y
  IN  IF due # {} /\ mode # "Failover"
        THEN {c \in due : \A x \in due : Before(c, x)}
        ELSE all

-----------------------------------------------------------------------------
(* Reservation and dispatch *)

\* The lease of request q on candidate c.
Admission(c, q, r, d, eligible) ==
  LET m        == candidates[c]
      circuit  == circuits[<<c, r>>]
      recovery == NeedsRecovery(c, r)
  IN  [candidate |-> c, generation |-> m.generation, request |-> q, route |-> r,
       definition |-> d, key |-> m.key, recovery |-> recovery,
       creditRequired |-> recovery /\ OrdinaryAlternatives(r, d, eligible),
       attempt |-> 0, epoch |-> circuit.epoch, incident |-> circuit.incident,
       quota |-> m.quota, rate |-> m.rate, routeRate |-> m.routeRates[r],
       replaced |-> "no"]

Charged(m, n)        == [m EXCEPT !.inFlight = n]
TakeGate(circuit, l) == [circuit EXCEPT !.state = "HalfOpen", !.halfOpen = l]

ReserveOn(c, q, r, d, eligible) ==
  LET l == nextLease + 1
  IN  /\ leases' = With(leases, l, Admission(c, q, r, d, eligible))
      /\ nextLease' = l
      /\ candidates' = [candidates EXCEPT ![c] = Charged(@, @.inFlight + 1)]
      /\ capacityInFlight' = [capacityInFlight EXCEPT ![candidates[c].key] = @ + 1]
      /\ IF NeedsRecovery(c, r)
           THEN /\ recoveryInFlight' = recoveryInFlight + 1
                /\ circuits' = [circuits EXCEPT ![<<c, r>>] = TakeGate(@, l)]
           ELSE UNCHANGED <<recoveryInFlight, circuits>>
      /\ UNCHANGED <<nextGeneration, capacityLimit, recoveryCredits,
                     successesSinceRecovery, limitVars, budgets, now>>

Reserve(q, r, d, eligible) ==
  /\ nextLease < MaxLease
  /\ \E c \in SelectionGroup(r, d, eligible) : ReserveOn(c, q, r, d, eligible)

CanDispatchOnceMore(q) ==
  ~budgets[q].replayStopped /\ budgets[q].dispatches <= MaxDispatches

CanDispatch(q) == ~budgets[q].replayStopped /\ budgets[q].dispatches < MaxDispatches

\* The candidate registered now is the one the lease was admitted on.
SameNameRegistered(p) == p.candidate \in Registered

SameMember(p) ==
  p.candidate \in Registered /\ candidates[p.candidate].generation = p.generation

SameRoute(p) ==
  LET m == candidates[p.candidate]
  IN  p.route \in DOMAIN m.routes /\ m.routes[p.route] = p.definition

SameQuotaAndRate(m, p) == m.quota = p.quota /\ m.rate = p.rate

SameObservations(m, p) ==
  m.quota = p.quota /\ m.rate = p.rate /\ m.routeRates[p.route] = p.routeRate

\* The final fence: what the lease was admitted on is unchanged.
StillCurrent(p) ==
  /\ SameMember(p) /\ SameRoute(p)
  /\ LET m == candidates[p.candidate]
     IN  /\ m.enabled /\ ~m.draining /\ m.auth = "Ready"
         /\ SameObservations(m, p)
         /\ m.key = p.key

CircuitAlwaysAdmits(p) == TRUE

CircuitAdmits(p) ==
  LET circuit == circuits[<<p.candidate, p.route>>]
  IN  circuit.epoch = p.epoch \/ circuit.state = "Closed"

\* begin_dispatch, and with `retained` begin_transport_dispatch, which may start
\* a lease again for a proven repair.
BeginDispatch(l, retained) ==
  LET p == leases[l]
      q == p.request
  IN  /\ p.attempt = 0 \/ (retained /\ p.attempt <= budgets[q].dispatches)
      /\ StillCurrent(p)
      /\ CircuitAdmits(p)
      /\ p.creditRequired => recoveryCredits > 0
      /\ CanDispatch(q)
      /\ budgets' = [budgets EXCEPT ![q].dispatches = @ + 1]
      /\ recoveryCredits' = IF p.creditRequired THEN recoveryCredits - 1
                                                ELSE recoveryCredits
      /\ leases' = [leases EXCEPT ![l].creditRequired = FALSE,
                                  ![l].attempt = budgets[q].dispatches + 1]
      /\ UNCHANGED <<candidates, nextGeneration, circuits, nextLease,
                     capacityInFlight, capacityLimit, recoveryInFlight,
                     successesSinceRecovery, limitVars, now>>

\* observe_execution with anything but NotSent before output.
ObserveExecution(q) ==
  /\ q \in Uncertain
  /\ ~budgets[q].replayStopped
  /\ budgets' = [budgets EXCEPT ![q].replayStopped = TRUE]
  /\ UNCHANGED <<candidates, nextGeneration, circuits, leases, nextLease,
                 capacityInFlight, capacityLimit, recoveryVars, limitVars, now>>

-----------------------------------------------------------------------------
(* Release and settlement *)

KeepGate(circuit, l) == circuit

ForgetHolder(circuit, l) ==
  IF leases[l].recovery /\ circuit.halfOpen = l
    THEN [circuit EXCEPT !.halfOpen = NoLease]
    ELSE circuit

\* release_capacity, its part on the circuit: a trial that leaves hands the gate
\* back and the circuit is open again.
HandBackGate(circuit, l) ==
  IF leases[l].recovery /\ circuit.halfOpen = l
    THEN [circuit EXCEPT !.halfOpen = NoLease, !.state = "Open"]
    ELSE circuit

\* release_capacity, the counters.
ReleaseCapacity(l) ==
  LET p == leases[l]
  IN  /\ leases' = Without(leases, l)
      /\ candidates' =
           IF SameMember(p)
             THEN [candidates EXCEPT ![p.candidate] = Charged(@, Minus1(@.inFlight))]
             ELSE candidates
      /\ capacityInFlight' = [capacityInFlight EXCEPT ![p.key] = Minus1(@)]
      /\ recoveryInFlight' = IF p.recovery THEN Minus1(recoveryInFlight)
                                           ELSE recoveryInFlight

ReleaseUnstarted(l) ==
  /\ leases[l].attempt = 0
  /\ ReleaseCapacity(l)
  /\ LET cr == <<leases[l].candidate, leases[l].route>>
     IN  circuits' = [circuits EXCEPT ![cr] = HandBackGate(@, l)]
  /\ UNCHANGED <<nextGeneration, nextLease, capacityLimit, recoveryCredits,
                 successesSinceRecovery, limitVars, budgets, now>>

ObservationCurrent(p) == SameMember(p) /\ SameRoute(p)

Closed(circuit) ==
  [circuit EXCEPT !.state = "Closed", !.streak = 0, !.counted = {}, !.notBefore = 0,
                  !.epoch = @ + 1, !.incident = @ + 1,
                  !.lastFailure = [seen |-> FALSE, at |-> 0]]

OnAnySuccess(circuit, p) == Closed(circuit)

OnSuccess(circuit, p) ==
  IF circuit.epoch # p.epoch
    THEN IF p.recovery THEN [circuit EXCEPT !.state = "Open"] ELSE circuit
    ELSE Closed(circuit)

RecentStreakOnly(circuit) ==
  IF circuit.lastFailure.seen /\ now - circuit.lastFailure.at > FailureWindow
    THEN [circuit EXCEPT !.streak = 0]
    ELSE circuit

\* An old streak is forgotten before the failure is counted.
Recent(circuit) ==
  IF circuit.lastFailure.seen /\ now - circuit.lastFailure.at > FailureWindow
    THEN [circuit EXCEPT !.streak = 0, !.counted = {}]
    ELSE circuit

Remember(counted, q) ==
  LET all == counted \cup {q}
  IN  IF Cardinality(all) > MaxCounted THEN all \ {Min(all)} ELSE all

OnTransient(circuit, p, provider) ==
  LET recent == Recent(circuit)
      streak == recent.streak + 1
      Until(pause) == AtLeast(AtLeast(provider, now + pause), recent.notBefore)
  IN  IF p.request \in recent.counted
        THEN IF p.recovery
               THEN [recent EXCEPT !.state = "Open", !.notBefore = Until(FirstPacing)]
               ELSE recent
        ELSE [recent EXCEPT
                !.streak = streak,
                !.counted = Remember(@, p.request),
                !.lastFailure = [seen |-> TRUE, at |-> now],
                !.notBefore = Until(FailureBackoff(streak)),
                !.epoch = @ + 1,
                !.state = IF p.recovery \/ streak >= FailureThreshold
                            THEN "Open" ELSE "Degraded"]

OnNeutral(circuit, p) ==
  IF p.recovery
    THEN [circuit EXCEPT !.state = "Open", !.epoch = @ + 1,
                         !.notBefore = AtLeast(now + FirstPacing, @)]
    ELSE circuit

\* update_circuit, after release_capacity: an outcome of an earlier incident is
\* ignored.
UpdateCircuit(circuit, p, outcome, provider) ==
  IF circuit.incident # p.incident THEN circuit
  ELSE IF outcome = "Success" THEN OnSuccess(circuit, p)
  ELSE IF outcome = "Transient" THEN OnTransient(circuit, p, provider)
  ELSE OnNeutral(circuit, p)

\* The success was counted for the recovery credits.
EarnsCredit(p, outcome) ==
  /\ outcome = "Success" /\ ~p.recovery
  /\ ObservationCurrent(p)
  /\ circuits[<<p.candidate, p.route>>].incident = p.incident
  /\ circuits[<<p.candidate, p.route>>].epoch = p.epoch

\* settle, and with "Neutral" also cancel.  `delay` is the provider's deadline
\* with a countable failure, 0 when it named none.
Settle(l, outcome, delay) ==
  LET p        == leases[l]
      cr       == <<p.candidate, p.route>>
      released == HandBackGate(circuits[cr], l)
      provider == IF delay = 0 THEN 0 ELSE now + delay
      earned   == successesSinceRecovery + 1
  IN  /\ p.attempt = 0 => outcome = "Neutral"
      /\ ReleaseCapacity(l)
      /\ circuits' = [circuits EXCEPT ![cr] =
                        IF ObservationCurrent(p)
                          THEN UpdateCircuit(released, p, outcome, provider)
                          ELSE released]
      /\ IF EarnsCredit(p, outcome)
           THEN IF earned >= policy.successesPerCredit
                  THEN /\ recoveryCredits' = AtMost(recoveryCredits + 1, policy.initialCredits)
                       /\ successesSinceRecovery' = 0
                  ELSE /\ successesSinceRecovery' = earned
                       /\ UNCHANGED recoveryCredits
           ELSE UNCHANGED <<recoveryCredits, successesSinceRecovery>>
      /\ UNCHANGED <<nextGeneration, nextLease, capacityLimit, limitVars, budgets, now>>

-----------------------------------------------------------------------------
(* Registry *)

RouteOf(m, r) == IF r \in DOMAIN m.routes THEN {m.routes[r]} ELSE {}

ChangedRoutesKept(old, s) ==
  {r \in DOMAIN old.routes \cap DOMAIN s.routes : old.routes[r] # s.routes[r]}

ChangedRoutes(old, s) == {r \in Routes : RouteOf(old, r) # RouteOf(s, r)}

AffectedKeysNewOnly(old, s) == {s.key}

AffectedKeys(old, s) == {old.key, s.key}

\* upsert of a registered candidate: provider observations, leases and the
\* circuits of unchanged routes survive; the circuits of the others are dropped.
Reconfigured(old, s) ==
  [old EXCEPT !.routes = s.routes, !.key = s.key,
              !.maxConcurrency = s.maxConcurrency, !.capacityLimit = s.capacityLimit,
              !.enabled = s.enabled, !.draining = s.draining,
              !.routeRates = [r \in Routes |->
                 IF r \in DOMAIN s.routes THEN old.routeRates[r] ELSE 0]]

UpdateMember(c, s) ==
  LET old     == candidates[c]
      changed == ChangedRoutes(old, s)
      members == [candidates EXCEPT ![c] = Reconfigured(old, s)]
  IN  /\ c \in Registered
      /\ candidates' = members
      /\ circuits' = [cr \in Candidates \X Routes |->
                        IF cr[1] = c /\ cr[2] \in changed THEN ClosedCircuit
                                                          ELSE circuits[cr]]
      /\ capacityLimit' = Recomputed(members, AffectedKeys(old, s))
      /\ leases' = [l \in Live |->
                      IF /\ leases[l].candidate = c /\ leases[l].replaced = "no"
                         /\ leases[l].route \in changed
                        THEN [leases[l] EXCEPT !.replaced = "route"]
                        ELSE leases[l]]
      /\ UNCHANGED <<nextGeneration, nextLease, capacityInFlight, recoveryVars,
                     limitVars, budgets, now>>

\* upsert of an unknown candidate: a fresh generation.
NewMember(s, generation) ==
  [routes |-> s.routes, key |-> s.key,
   maxConcurrency |-> s.maxConcurrency, capacityLimit |-> s.capacityLimit,
   enabled |-> s.enabled, draining |-> s.draining,
   auth |-> "Ready", quota |-> "Unknown", creditsFresh |-> FALSE,
   rate |-> 0, routeRates |-> [r \in Routes |-> 0],
   inFlight |-> 0, generation |-> generation]

AddMember(c, s) ==
  LET members == With(candidates, c, NewMember(s, nextGeneration + 1))
  IN  /\ c \notin Registered
      /\ nextGeneration < MaxGeneration
      /\ nextGeneration' = nextGeneration + 1
      /\ candidates' = members
      /\ capacityLimit' = Recomputed(members, {s.key})
      /\ UNCHANGED <<circuits, leases, nextLease, capacityInFlight, recoveryVars,
                     limitVars, budgets, now>>

Upsert(c, s) == UpdateMember(c, s) \/ AddMember(c, s)

\* The leases of a removed candidate stay until their owners settle them.
Remove(c) ==
  /\ c \in Registered
  /\ candidates' = Without(candidates, c)
  /\ circuits' = [cr \in Candidates \X Routes |->
                    IF cr[1] = c THEN ClosedCircuit ELSE circuits[cr]]
  /\ capacityLimit' = Recomputed(Without(candidates, c), {candidates[c].key})
  /\ leases' = [l \in Live |-> IF leases[l].candidate = c
                                 THEN [leases[l] EXCEPT !.replaced = "member"]
                                 ELSE leases[l]]
  /\ UNCHANGED <<nextGeneration, nextLease, capacityInFlight, recoveryVars,
                 limitVars, budgets, now>>

Observed(m, o) ==
  [m EXCEPT !.enabled = o.enabled, !.draining = o.draining, !.auth = o.auth,
            !.quota = o.quota, !.rate = o.rate]

SyncCandidateState(c, o) ==
  /\ c \in Registered
  /\ candidates' = [candidates EXCEPT ![c] = Observed(@, o)]
  /\ UNCHANGED <<nextGeneration, circuits, leases, nextLease, capacityInFlight,
                 capacityLimit, recoveryVars, limitVars, budgets, now>>

SyncCandidateRouteRate(c, r, rate) ==
  /\ c \in Registered
  /\ candidates' = [candidates EXCEPT ![c].routeRates[r] = rate]
  /\ UNCHANGED <<nextGeneration, circuits, leases, nextLease, capacityInFlight,
                 capacityLimit, recoveryVars, limitVars, budgets, now>>

\* set_provider_credits with a fresh balance, or one that is missing; a balance
\* that has aged past quota_stale_after_ms is one that is missing.
SetProviderCredits(c, fresh) ==
  /\ c \in Registered
  /\ candidates' = [candidates EXCEPT ![c].creditsFresh = fresh]
  /\ UNCHANGED <<nextGeneration, circuits, leases, nextLease, capacityInFlight,
                 capacityLimit, recoveryVars, limitVars, budgets, now>>

SetMode(m) ==
  /\ mode' = m
  /\ UNCHANGED <<candidates, nextGeneration, circuits, leases, nextLease,
                 capacityInFlight, capacityLimit, maxInFlight, policy,
                 recoveryVars, budgets, now>>

SetMaxInFlight(n) ==
  /\ maxInFlight' = n
  /\ UNCHANGED <<candidates, nextGeneration, circuits, leases, nextLease,
                 capacityInFlight, capacityLimit, policy, mode,
                 recoveryVars, budgets, now>>

SetRecoveryPolicy(p) ==
  /\ policy' = p
  /\ recoveryCredits' = AtMost(recoveryCredits, p.initialCredits)
  /\ UNCHANGED <<candidates, nextGeneration, circuits, leases, nextLease,
                 capacityInFlight, capacityLimit, maxInFlight, mode,
                 recoveryInFlight, successesSinceRecovery, budgets, now>>

Tick ==
  /\ now < MaxNow
  /\ now' = now + 1
  /\ UNCHANGED <<candidates, nextGeneration, circuits, leases, nextLease,
                 capacityInFlight, capacityLimit, recoveryVars, limitVars, budgets>>

-----------------------------------------------------------------------------
(* Specification *)

Init ==
  /\ candidates = [c \in {} |-> ClosedCircuit]
  /\ nextGeneration = 0
  /\ circuits = [cr \in Candidates \X Routes |-> ClosedCircuit]
  /\ leases = [l \in {} |-> ClosedCircuit]
  /\ nextLease = 0
  /\ capacityInFlight = [k \in CapacityKeys |-> 0]
  /\ capacityLimit = [k \in CapacityKeys |-> 0]
  /\ maxInFlight \in Ceilings
  /\ policy \in Policies
  /\ recoveryCredits = policy.initialCredits
  /\ recoveryInFlight = 0
  /\ successesSinceRecovery = 0
  /\ mode \in Modes
  /\ budgets = [q \in Requests |-> [dispatches |-> 0, replayStopped |-> FALSE]]
  /\ now = 0

Requesting ==
  \/ \E q \in Requests, r \in Routes, d \in Definitions,
        eligible \in SUBSET Candidates : Reserve(q, r, d, eligible)
  \/ \E q \in Requests : ObserveExecution(q)

Holding ==
  \E l \in Live : \/ \E retained \in BOOLEAN : BeginDispatch(l, retained)
                  \/ ReleaseUnstarted(l)
                  \/ \E outcome \in Outcomes, delay \in ProviderDelays \cup {0} :
                       Settle(l, outcome, delay)

Registering ==
  \/ \E c \in Candidates : \/ \E s \in Settings : Upsert(c, s)
                           \/ Remove(c)
                           \/ \E o \in Observations : SyncCandidateState(c, o)
                           \/ \E r \in Routes, rate \in RouteRates :
                                SyncCandidateRouteRate(c, r, rate)
                           \/ \E fresh \in BOOLEAN : SetProviderCredits(c, fresh)
  \/ \E m \in Modes : SetMode(m)
  \/ \E n \in Ceilings : SetMaxInFlight(n)
  \/ \E p \in Policies : SetRecoveryPolicy(p)

Next == Requesting \/ Holding \/ Registering \/ Tick

Spec == Init /\ [][Next]_vars

\* Every lease is given up in the end: its owner settles it, or drops it and
\* CandidateLease's Drop releases or cancels it.
GiveUp(l) ==
  l \in Live /\ (\/ ReleaseUnstarted(l)
                 \/ \E outcome \in Outcomes, delay \in ProviderDelays \cup {0} :
                      Settle(l, outcome, delay))

FairSpec == Spec /\ \A l \in 1..MaxLease : WF_vars(GiveUp(l))

-----------------------------------------------------------------------------
(* Safety *)

\* The state is well typed.
TypeOK ==
  /\ Registered \subseteq Candidates
  /\ candidates \in [Registered -> Candidate]
  /\ nextGeneration \in Nat
  /\ circuits \in [Candidates \X Routes -> Circuit]
  /\ Live \subseteq 1..nextLease
  /\ leases \in [Live -> Lease]
  /\ nextLease \in Nat
  /\ capacityInFlight \in [CapacityKeys -> Nat]
  /\ capacityLimit \in [CapacityKeys -> Nat]
  /\ maxInFlight \in Ceilings
  /\ policy \in Policies
  /\ recoveryCredits \in Nat
  /\ recoveryInFlight \in Nat
  /\ successesSinceRecovery \in Nat
  /\ mode \in Modes
  /\ budgets \in [Requests -> Budget]
  /\ now \in Nat

Trials      == {l \in Live : leases[l].recovery}
Holders(k)  == {l \in Live : leases[l].key = k}
LeasesOf(c) == {l \in Live : /\ leases[l].candidate = c
                             /\ leases[l].generation = candidates[c].generation}

\* The three in-flight counters the admission checks read are exactly the live
\* leases, across removals, re-registrations and moves to another capacity key:
\* nothing is released twice, and no old lease is charged to a new member.
TrialsCounted   == recoveryInFlight = Cardinality(Trials)
CapacityCounted == \A k \in CapacityKeys : capacityInFlight[k] = Cardinality(Holders(k))
MembersCounted  == \A c \in Registered : candidates[c].inFlight = Cardinality(LeasesOf(c))
LeaseAccounting == TrialsCounted /\ CapacityCounted /\ MembersCounted

IsTrialOf(l, c, r) ==
  /\ leases[l].recovery
  /\ leases[l].candidate = c /\ leases[l].route = r
  /\ leases[l].replaced = "no"

GateOfTrial(c, r) ==
  LET circuit == circuits[<<c, r>>]
  IN  /\ circuit.state = "HalfOpen" => circuit.halfOpen # NoLease
      /\ circuit.halfOpen # NoLease => circuit.halfOpen \in Live
      /\ \A l \in Live : circuit.halfOpen = l <=> IsTrialOf(l, c, r)

\* The half-open gate of a route belongs to exactly one live recovery trial of
\* that route, and every trial whose member and route still stand holds it: the
\* gate is never orphaned (the route would stay closed to traffic for ever) and
\* two trials never probe one route at once.
GateHeldByTrial == \A c \in Candidates, r \in Routes : GateOfTrial(c, r)

\* The cached limit of a physical resource is the smallest limit of the members
\* that share it now, whichever member was edited, moved or removed last.
CapacityLimitFresh == \A k \in CapacityKeys : capacityLimit[k] = LimitOf(candidates, k)

\* A removed candidate or route leaves no circuit behind, so what is registered
\* later under the same name starts without a history.
ForgottenCircuits ==
  \A c \in Candidates, r \in Routes :
    (IF c \in Registered THEN r \notin DOMAIN candidates[c].routes ELSE TRUE)
      => circuits[<<c, r>>] = ClosedCircuit

\* The failure streak that trips a circuit counts independent requests: one
\* request that fails several times votes once.
StreakCountsRequests ==
  \A c \in Candidates, r \in Routes :
    LET votes == Cardinality(circuits[<<c, r>>].counted)
    IN  \/ circuits[<<c, r>>].streak = votes
        \/ circuits[<<c, r>>].streak > votes /\ votes = MaxCounted

AdmittedFits(l) ==
  LET k    == leases'[l].key
      held == Cardinality({x \in Live' : leases'[x].key = k})
  IN  /\ Cardinality(Live') <= maxInFlight
      /\ \A c \in Registered : candidates[c].key = k =>
           /\ candidates[c].capacityLimit > 0 => held <= candidates[c].capacityLimit
           /\ candidates[c].maxConcurrency > 0 => held <= candidates[c].maxConcurrency

\* What is admitted fits: counting every live lease of the physical resource,
\* those of removed and re-registered members too, it exceeds neither the
\* runtime ceiling nor the limit of any member that shares the resource.
AdmissionWithinLimits == [][\A l \in Live' \ Live : AdmittedFits(l)]_vars

TrialPermitted(l) ==
  leases'[l].recovery =>
    Cardinality({x \in Live' : leases'[x].recovery}) <= policy.maxInFlight

\* Recovery trials in flight, on whatever route, never exceed the policy's
\* permits when one more is admitted.
TrialsWithinPermits == [][\A l \in Live' \ Live : TrialPermitted(l)]_vars

\* The lease was given up in this step without a new circuit, member or credit:
\* its outcome reached nothing but its own capacity.
InertRelease(l) ==
  /\ circuits' = circuits
  /\ \A c \in Registered : candidates'[c].generation # leases[l].generation =>
                               candidates'[c] = candidates[c]
  /\ UNCHANGED <<recoveryCredits, successesSinceRecovery>>

InertIfReplaced(why) ==
  \A l \in Live \ Live' : leases[l].replaced = why => InertRelease(l)

\* "A removed candidate may be re-added under the same display ID. Its old
\* outcome can release only its own capacity lease." (lifecycle.rs)
ReplacedMemberIsInert == [][InertIfReplaced("member")]_vars

\* "Late outcomes may release their own lease, but cannot update the
\* observations of a replaced member or route." (types.rs)
ReplacedRouteIsInert == [][InertIfReplaced("route")]_vars

\* An incident (a circuit that is not Closed, and its cooldown) ends only when
\* the trial that holds its gate is settled, or its route is dropped: no late
\* answer of an older lease closes the circuit or shortens the cooldown.
IncidentEndsByItsTrial ==
  [][\A c \in Candidates, r \in Routes :
       LET before == circuits[<<c, r>>]
           after  == circuits'[<<c, r>>]
       IN  \/ after.state = "Closed" /\ before.state # "Closed"
           \/ after.notBefore < before.notBefore
           => \/ before.halfOpen \in Live \ Live' /\ after.state = "Closed"
              \/ after = ClosedCircuit]_vars

\* While a circuit is not Closed, only the trial that holds the gate may send:
\* a lease reserved before the failure is stopped at the dispatch fence.
DispatchThroughGate ==
  [][\A l \in Live \cap Live' :
       leases'[l].attempt # leases[l].attempt =>
         LET circuit == circuits[<<leases[l].candidate, leases[l].route>>]
         IN  circuit.state = "Closed" \/ circuit.halfOpen = l]_vars

\* Between admission and the dispatch the member may be limited, exhausted or
\* tripped: what is sent is sent past every deadline known at that moment.
DispatchRespectsDeadlines ==
  [][\A l \in Live \cap Live' :
       leases'[l].attempt # leases[l].attempt =>
         LET p == leases[l]
             m == candidates[p.candidate]
         IN  /\ m.rate <= now /\ m.routeRates[p.route] <= now
             /\ circuits[<<p.candidate, p.route>>].notBefore <= now
             /\ m.quota # "Exhausted" /\ ~m.draining]_vars

\* "A canceled/unknown recovery attempt ... must not leave the one-permit gate
\* stuck" (health.rs): a half-open route always returns to open or closed.
GateReturns ==
  \A c \in Candidates, r \in Routes :
    circuits[<<c, r>>].state = "HalfOpen" ~> circuits[<<c, r>>].state # "HalfOpen"

\* A saturated recovery permit does not hide a healthy alternative: while some
\* candidate is ready without recovery, a request finds a candidate.
HealthyAlternativeAdmitted ==
  \A r \in Routes, d \in Definitions :
    (\E c \in Candidates : Ready(c, r, d) /\ ~NeedsRecovery(c, r))
      => SelectionCandidates(r, d, Candidates) # {}

=============================================================================
