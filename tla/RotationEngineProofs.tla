------------------------ MODULE RotationEngineProofs ------------------------
(***************************************************************************)
(* What is proved about RotationEngine, for every value of its constants:  *)
(* first its type correctness, then the leases and their counters, then    *)
(* the limits a reservation keeps, then the circuits of the routes.        *)
(***************************************************************************)
EXTENDS RotationEngine, FiniteSetTheorems, WellFoundedInduction, TLAPS

-----------------------------------------------------------------------------
(***************************************************************************)
(* Type correctness of RotationEngine, for every value of its constants:   *)
(* what each operator returns, then what each action keeps.                *)
(***************************************************************************)

-----------------------------------------------------------------------------
(* Types *)

\* A non-empty set of naturals has a least element, and Min returns it: the
\* intervals 0..x are finite and ordered like their bounds.
LEMMA MinOfNaturals ==
  ASSUME NEW S \in SUBSET Nat, S # {}
  PROVE  /\ Min(S) \in S
         /\ \A y \in S : Min(S) <= y
<1> DEFINE Below == {0..x : x \in S}
<1>1. Below \subseteq FiniteSubsetsOf(Nat)
  <2>1. \A x \in S : IsFiniteSet(0..x)
    BY FS_Interval
  <2>2. QED
    BY <2>1 DEF FiniteSubsetsOf
<1>2. Below # {}
  OBVIOUS
<1>3. PICK least \in Below : \A other \in Below :
          ~(<<other, least>> \in StrictSubsetOrdering(Nat))
  BY <1>1, <1>2, FS_StrictSubsetOrderingWellFounded, WFMin
<1>4. PICK x \in S : least = 0..x
  OBVIOUS
<1>5. \A y \in S : x <= y
  <2>1. SUFFICES ASSUME NEW y \in S, y < x PROVE FALSE
    OBVIOUS
  <2>2. 0..y \subseteq 0..x /\ 0..y # 0..x
    BY <2>1
  <2>3. <<0..y, 0..x>> \in StrictSubsetOrdering(Nat)
    BY <2>2 DEF StrictSubsetOrdering
  <2>4. QED
    BY <1>3, <1>4, <2>3
<1>6. QED
  BY <1>5 DEF Min

\* The limit of a key is a natural number.
LEMMA LimitOfType ==
  ASSUME NEW S, NEW f \in [S -> Candidate], NEW k
  PROVE  LimitOf(f, k) \in Nat
<1>1. SharingLimits(f, k) \in SUBSET Nat
  BY DEF SharingLimits, Candidate
<1>2. QED
  BY <1>1, MinOfNaturals DEF LimitOf

\* The backoff of a failure streak is a natural number.
LEMMA BackoffType ==
  ASSUME NEW n \in Nat
  PROVE  FailureBackoff(n) \in Nat
<1> USE ConstantsAssumption
<1>1. CASE n <= 1
  BY <1>1 DEF FailureBackoff
<1>2. CASE n = 2
  BY <1>2 DEF FailureBackoff
<1>3. CASE n > 2
  <2>1. AtMost(n - 3, 5) + 1 \in 1..6
    BY <1>3 DEF AtMost
  <2>2. Doubling(n - 3) \in Nat
    BY <2>1 DEF Doubling
  <2>3. OpenBackoff * Doubling(n - 3) \in Nat
    BY <2>2
  <2>4. QED
    BY <1>3, <2>3 DEF FailureBackoff, AtMost
<1>4. QED
  BY <1>1, <1>2, <1>3

\* Adding an entry to a partial map, and taking one away.
LEMMA WithType ==
  ASSUME NEW S, NEW T, NEW f \in [S -> T], NEW x, NEW v \in T
  PROVE  /\ With(f, x, v) \in [S \cup {x} -> T]
         /\ DOMAIN With(f, x, v) = S \cup {x}
         /\ With(f, x, v)[x] = v
         /\ \A y \in S : y # x => With(f, x, v)[y] = f[y]
  BY DEF With

\* Taking an entry away.
LEMMA WithoutType ==
  ASSUME NEW S, NEW T, NEW f \in [S -> T], NEW x
  PROVE  /\ Without(f, x) \in [S \ {x} -> T]
         /\ DOMAIN Without(f, x) = S \ {x}
         /\ \A y \in S \ {x} : Without(f, x)[y] = f[y]
  BY DEF Without

\* What the reducer makes of a circuit is a circuit.
LEMMA HandBackGateType ==
  ASSUME NEW circuit \in Circuit, NEW l
  PROVE  HandBackGate(circuit, l) \in Circuit
  BY DEF HandBackGate, Circuit, CircuitStates, NoLease

\* A success maps a circuit to a circuit.
LEMMA OnSuccessType ==
  ASSUME NEW circuit \in Circuit, NEW p
  PROVE  OnSuccess(circuit, p) \in Circuit
<1>1. /\ circuit.epoch \in Nat /\ circuit.epoch + 1 \in Nat
      /\ circuit.incident \in Nat /\ circuit.incident + 1 \in Nat
  BY DEF Circuit
<1>2. [seen |-> FALSE, at |-> 0] \in [seen : BOOLEAN, at : Time]
  BY DEF Time
<1>3. Closed(circuit) \in Circuit
  BY <1>1, <1>2, Zenon DEF Closed, Circuit, CircuitStates, Time
<1>4. [circuit EXCEPT !.state = "Open"] \in Circuit
  BY DEF Circuit, CircuitStates
<1>5. QED
  BY <1>3, <1>4 DEF OnSuccess

\* A transient failure maps a circuit to a circuit.
LEMMA OnTransientType ==
  ASSUME NEW circuit \in Circuit, NEW p, p.request \in Requests,
         NEW provider \in Nat, now \in Nat
  PROVE  OnTransient(circuit, p, provider) \in Circuit
<1> DEFINE recent == Recent(circuit)
           streak == recent.streak + 1
           Until(pause) == AtLeast(AtLeast(provider, now + pause), recent.notBefore)
<1>1. recent \in Circuit
  BY DEF Recent, Circuit
<1>2. FirstPacing \in Nat /\ FailureBackoff(streak) \in Nat
  <2>1. streak \in Nat
    BY <1>1 DEF Circuit
  <2>2. QED
    BY <2>1, BackoffType, ConstantsAssumption
<1>3. Until(FirstPacing) \in Nat /\ Until(FailureBackoff(streak)) \in Nat
  <2>1. ASSUME NEW pause \in Nat PROVE Until(pause) \in Nat
    BY <1>1 DEF AtLeast, Circuit, Time
  <2>2. QED
    BY <1>2, <2>1
<1>4. Remember(recent.counted, p.request) \in SUBSET Requests
  BY <1>1 DEF Remember, Circuit
<1>5. streak \in Nat /\ recent.epoch + 1 \in Nat
  BY <1>1 DEF Circuit
<1>6. [seen |-> TRUE, at |-> now] \in [seen : BOOLEAN, at : Time]
  BY DEF Time
<1>7. OnTransient(circuit, p, provider) =
        IF p.request \in recent.counted
          THEN IF p.recovery
                 THEN [recent EXCEPT !.state = "Open", !.notBefore = Until(FirstPacing)]
                 ELSE recent
          ELSE [recent EXCEPT
                  !.streak = streak,
                  !.counted = Remember(recent.counted, p.request),
                  !.lastFailure = [seen |-> TRUE, at |-> now],
                  !.notBefore = Until(FailureBackoff(streak)),
                  !.epoch = recent.epoch + 1,
                  !.state = IF p.recovery \/ streak >= FailureThreshold
                              THEN "Open" ELSE "Degraded"]
  BY Zenon DEF OnTransient
<1> HIDE DEF recent, streak, Until
<1>8. [recent EXCEPT !.state = "Open", !.notBefore = Until(FirstPacing)] \in Circuit
  BY <1>1, <1>3, Zenon DEF Circuit, CircuitStates, Time
<1>9. ASSUME NEW state \in CircuitStates
      PROVE  [recent EXCEPT
                !.streak = streak,
                !.counted = Remember(recent.counted, p.request),
                !.lastFailure = [seen |-> TRUE, at |-> now],
                !.notBefore = Until(FailureBackoff(streak)),
                !.epoch = recent.epoch + 1,
                !.state = state] \in Circuit
  BY <1>1, <1>3, <1>4, <1>5, <1>6, Zenon DEF Circuit, Time
<1>10. QED
  BY <1>1, <1>7, <1>8, <1>9 DEF CircuitStates

\* A neutral outcome maps a circuit to a circuit.
LEMMA OnNeutralType ==
  ASSUME NEW circuit \in Circuit, NEW p, now \in Nat
  PROVE  OnNeutral(circuit, p) \in Circuit
<1>1. /\ circuit.epoch + 1 \in Nat
      /\ AtLeast(now + FirstPacing, circuit.notBefore) \in Nat
  BY ConstantsAssumption DEF Circuit, Time, AtLeast
<1>2. QED
  BY <1>1, Zenon DEF OnNeutral, Circuit, CircuitStates, Time

\* The reducer maps a circuit to a circuit.
LEMMA UpdateCircuitType ==
  ASSUME NEW circuit \in Circuit, NEW p, p.request \in Requests, NEW outcome,
         NEW provider \in Nat, now \in Nat
  PROVE  UpdateCircuit(circuit, p, outcome, provider) \in Circuit
  BY OnSuccessType, OnTransientType, OnNeutralType DEF UpdateCircuit

\* Whom a reservation may choose.
LEMMA SelectedIsReady ==
  ASSUME NEW r, NEW d, NEW eligible, NEW c \in SelectionGroup(r, d, eligible)
  PROVE  c \in eligible /\ Ready(c, r, d)
  BY DEF SelectionGroup, SelectionCandidates, ReadyCandidates

-----------------------------------------------------------------------------
(* Every action keeps the types *)

\* The parts of a well-typed state the steps read.
LEMMA Parts ==
  ASSUME TypeOK
  PROVE  /\ \A c \in Registered : candidates[c] \in Candidate
         /\ \A l \in Live : leases[l] \in Lease
         /\ \A c \in Candidates, r \in Routes : circuits[<<c, r>>] \in Circuit
  BY DEF TypeOK

\* What a reservation writes is a lease.
LEMMA AdmissionType ==
  ASSUME TypeOK, NEW q \in Requests, NEW r \in Routes, NEW d \in Definitions,
         NEW eligible, NEW c \in Registered
  PROVE  Admission(c, q, r, d, eligible) \in Lease
<1>1. candidates[c] \in Candidate /\ circuits[<<c, r>>] \in Circuit /\ c \in Candidates
  BY Parts DEF TypeOK
<1>2. candidates[c].routeRates[r] \in Time
  BY <1>1 DEF Candidate
<1>3. NeedsRecovery(c, r) \in BOOLEAN /\ 0 \in 0..MaxDispatches
  BY ConstantsAssumption DEF NeedsRecovery
<1>4. (NeedsRecovery(c, r) /\ OrdinaryAlternatives(r, d, eligible)) \in BOOLEAN
  BY Zenon DEF OrdinaryAlternatives
<1>5. QED
  BY <1>1, <1>2, <1>3, <1>4, Zenon DEF Admission, Lease, Candidate, Circuit

\* Charging or crediting one member changes its count and nothing else.
LEMMA ChargeOne ==
  ASSUME TypeOK, NEW c \in Registered, NEW n \in Nat,
         candidates' = [candidates EXCEPT ![c] = Charged(candidates[c], n)]
  PROVE  /\ Registered' = Registered
         /\ candidates' \in [Registered -> Candidate]
         /\ \A x \in Registered :
              /\ candidates'[x].inFlight = IF x = c THEN n ELSE candidates[x].inFlight
              /\ candidates'[x].generation = candidates[x].generation
              /\ candidates'[x].routes = candidates[x].routes
              /\ candidates'[x].key = candidates[x].key
              /\ candidates'[x].capacityLimit = candidates[x].capacityLimit
              /\ candidates'[x].maxConcurrency = candidates[x].maxConcurrency
<1>1. candidates[c] \in Candidate
  BY Parts
<1>2. Charged(candidates[c], n) \in Candidate
  BY <1>1, Zenon DEF Charged, Candidate
<1>3. Registered' = Registered /\ candidates' \in [Registered -> Candidate]
  BY <1>2 DEF TypeOK, Registered
<1>4. ASSUME NEW x \in Registered
      PROVE  candidates'[x] = IF x = c THEN Charged(candidates[c], n)
                                       ELSE candidates[x]
  BY DEF TypeOK, Registered
<1>5. /\ Charged(candidates[c], n).inFlight = n
      /\ Charged(candidates[c], n).generation = candidates[c].generation
      /\ Charged(candidates[c], n).routes = candidates[c].routes
      /\ Charged(candidates[c], n).key = candidates[c].key
      /\ Charged(candidates[c], n).capacityLimit = candidates[c].capacityLimit
      /\ Charged(candidates[c], n).maxConcurrency = candidates[c].maxConcurrency
  BY <1>1, Zenon DEF Charged, Candidate
<1> QED
  BY <1>3, <1>4, <1>5, Zenon

\* A gate taken leaves a circuit.
LEMMA TakeGateType ==
  ASSUME NEW circuit \in Circuit, NEW l \in Nat
  PROVE  TakeGate(circuit, l) \in Circuit
  BY Zenon DEF TakeGate, Circuit, CircuitStates

\* A reservation keeps the types.
LEMMA ReserveType ==
  ASSUME TypeOK, NEW q \in Requests, NEW r \in Routes, NEW d \in Definitions,
         NEW eligible \in SUBSET Candidates, Reserve(q, r, d, eligible)
  PROVE  TypeOK'
<1>1. PICK c \in SelectionGroup(r, d, eligible) : ReserveOn(c, q, r, d, eligible)
  BY DEF Reserve
<1>2. c \in Registered /\ c \in Candidates /\ candidates[c] \in Candidate
  BY <1>1, SelectedIsReady, Parts DEF Ready, TypeOK
<1>3. Registered' = Registered /\ candidates' \in [Registered -> Candidate]
  <2>1. candidates[c].inFlight + 1 \in Nat
    BY <1>2 DEF Candidate
  <2>2. QED
    BY <1>1, <1>2, <2>1, ChargeOne, Zenon DEF ReserveOn
<1>4. Live' \subseteq 1..nextLease' /\ leases' \in [Live' -> Lease]
  <2>1. Admission(c, q, r, d, eligible) \in Lease
    BY <1>2, AdmissionType
  <2>2. leases \in [Live -> Lease] /\ Live \subseteq 1..nextLease /\ nextLease \in Nat
    BY DEF TypeOK
  <2>3. leases' \in [Live \cup {nextLease + 1} -> Lease]
    BY <1>1, <2>1, <2>2, WithType DEF ReserveOn
  <2>4. Live' = Live \cup {nextLease + 1}
    BY <2>3 DEF Live
  <2>5. QED
    BY <1>1, <2>2, <2>3, <2>4 DEF ReserveOn
<1>5. capacityInFlight' \in [CapacityKeys -> Nat]
  BY <1>1, <1>2 DEF ReserveOn, TypeOK, Candidate
<1>6. circuits' \in [Candidates \X Routes -> Circuit]
  <2>1. TakeGate(circuits[<<c, r>>], nextLease + 1) \in Circuit
    BY <1>2, Parts, TakeGateType DEF TypeOK
  <2>2. QED
    BY <1>1, <2>1 DEF ReserveOn, TypeOK
<1>7. recoveryInFlight' \in Nat /\ nextLease' \in Nat
  BY <1>1 DEF ReserveOn, TypeOK
<1>8. QED
  BY <1>1, <1>3, <1>4, <1>5, <1>6, <1>7 DEF ReserveOn, TypeOK, limitVars

\* A dispatch keeps the types: its budget was not spent.
LEMMA BeginDispatchType ==
  ASSUME TypeOK, NEW l \in Live, NEW retained \in BOOLEAN, BeginDispatch(l, retained)
  PROVE  TypeOK'
<1> DEFINE p == leases[l]
           q == p.request
<1>1. p \in Lease /\ q \in Requests
  BY Parts DEF Lease
<1>2. budgets[q] \in Budget
  BY <1>1 DEF TypeOK
<1>3. budgets[q].dispatches + 1 \in 0..MaxDispatches
  BY <1>1, <1>2, ConstantsAssumption DEF BeginDispatch, CanDispatch, Budget
<1>4. budgets' \in [Requests -> Budget]
  <2>1. [budgets[q] EXCEPT !.dispatches = budgets[q].dispatches + 1] \in Budget
    BY <1>2, <1>3, Zenon DEF Budget
  <2>2. QED
    BY <1>1, <2>1 DEF BeginDispatch, TypeOK
<1>5. leases' \in [Live -> Lease] /\ Live' = Live
  <2>1. [p EXCEPT !.creditRequired = FALSE, !.attempt = budgets[q].dispatches + 1] \in Lease
    BY <1>1, <1>3, Zenon DEF Lease
  <2>2. leases' = [leases EXCEPT ![l] =
          [p EXCEPT !.creditRequired = FALSE, !.attempt = budgets[q].dispatches + 1]]
    BY Zenon DEF BeginDispatch
  <2>3. QED
    BY <2>1, <2>2 DEF TypeOK, Live
<1>6. recoveryCredits' \in Nat
  BY DEF BeginDispatch, TypeOK
<1>7. QED
  BY <1>4, <1>5, <1>6 DEF BeginDispatch, TypeOK, limitVars, Registered

\* observe_execution keeps the types.
LEMMA ObserveExecutionType ==
  ASSUME TypeOK, NEW q \in Requests, ObserveExecution(q)
  PROVE  TypeOK'
<1>1. [budgets[q] EXCEPT !.replayStopped = TRUE] \in Budget
  BY Zenon DEF TypeOK, Budget
<1>2. budgets' \in [Requests -> Budget]
  BY <1>1 DEF ObserveExecution, TypeOK
<1>3. QED
  BY <1>2 DEF ObserveExecution, TypeOK, limitVars, recoveryVars, Registered, Live

\* What release_capacity leaves behind.
LEMMA ReleaseCapacityType ==
  ASSUME TypeOK, NEW l \in Live, ReleaseCapacity(l)
  PROVE  /\ Registered' = Registered
         /\ candidates' \in [Registered -> Candidate]
         /\ Live' = Live \ {l}
         /\ leases' \in [Live' -> Lease]
         /\ \A x \in Live' : leases'[x] = leases[x]
         /\ capacityInFlight' \in [CapacityKeys -> Nat]
         /\ recoveryInFlight' \in Nat
<1>1. leases[l] \in Lease
  BY Parts
<1>2. Registered' = Registered /\ candidates' \in [Registered -> Candidate]
  <2>1. CASE ~SameMember(leases[l])
    BY <2>1 DEF ReleaseCapacity, TypeOK, Registered
  <2>2. CASE SameMember(leases[l])
    <3>1. leases[l].candidate \in Registered
      BY <2>2 DEF SameMember
    <3>2. Minus1(candidates[leases[l].candidate].inFlight) \in Nat
      BY <3>1, Parts DEF Minus1, Candidate
    <3>3. QED
      BY <2>2, <3>1, <3>2, ChargeOne, Zenon DEF ReleaseCapacity
  <2>3. QED
    BY <2>1, <2>2
<1>3. /\ Live' = Live \ {l} /\ leases' \in [Live' -> Lease]
      /\ \A x \in Live' : leases'[x] = leases[x]
  <2>1. leases \in [Live -> Lease] /\ leases' = Without(leases, l)
    BY DEF ReleaseCapacity, TypeOK
  <2>2. /\ leases' \in [Live \ {l} -> Lease]
        /\ \A x \in Live \ {l} : leases'[x] = leases[x]
    BY <2>1 DEF Without
  <2>3. Live' = Live \ {l}
    BY <2>2 DEF Live
  <2>4. QED
    BY <2>2, <2>3
<1>4. capacityInFlight' \in [CapacityKeys -> Nat]
  BY <1>1 DEF ReleaseCapacity, TypeOK, Minus1, Lease
<1>5. recoveryInFlight' \in Nat
  BY DEF ReleaseCapacity, TypeOK, Minus1
<1>6. QED
  BY <1>2, <1>3, <1>4, <1>5

\* release_unstarted keeps the types.
LEMMA ReleaseUnstartedType ==
  ASSUME TypeOK, NEW l \in Live, ReleaseUnstarted(l)
  PROVE  TypeOK'
<1> DEFINE cr == <<leases[l].candidate, leases[l].route>>
<1>1. cr \in Candidates \X Routes
  BY Parts DEF Lease
<1>2. circuits' \in [Candidates \X Routes -> Circuit]
  <2>1. HandBackGate(circuits[cr], l) \in Circuit
    BY <1>1, HandBackGateType DEF TypeOK
  <2>2. QED
    BY <1>1, <2>1 DEF ReleaseUnstarted, TypeOK
<1>3. ReleaseCapacity(l)
  BY DEF ReleaseUnstarted
<1>4. QED
  BY <1>2, <1>3, ReleaseCapacityType DEF ReleaseUnstarted, TypeOK, limitVars

\* settle and cancel keep the types.
LEMMA SettleType ==
  ASSUME TypeOK, NEW l \in Live, NEW outcome \in Outcomes,
         NEW delay \in ProviderDelays \cup {0}, Settle(l, outcome, delay)
  PROVE  TypeOK'
<1> DEFINE p == leases[l]
           cr == <<p.candidate, p.route>>
           released == HandBackGate(circuits[cr], l)
           provider == IF delay = 0 THEN 0 ELSE now + delay
<1>1. cr \in Candidates \X Routes /\ p.request \in Requests
  BY Parts DEF Lease
<1>2. released \in Circuit
  BY <1>1, HandBackGateType DEF TypeOK
<1>3. provider \in Nat
  BY ConstantsAssumption DEF TypeOK
<1>4. UpdateCircuit(released, p, outcome, provider) \in Circuit
  BY <1>1, <1>2, <1>3, UpdateCircuitType DEF TypeOK
<1>5. circuits' \in [Candidates \X Routes -> Circuit]
  <2>1. circuits' = [circuits EXCEPT ![cr] =
                       IF ObservationCurrent(p)
                         THEN UpdateCircuit(released, p, outcome, provider)
                         ELSE released]
    BY Zenon DEF Settle
  <2> HIDE DEF cr, released, provider, p
  <2>2. QED
    BY <1>1, <1>2, <1>4, <2>1 DEF TypeOK
<1>6. recoveryCredits' \in Nat /\ successesSinceRecovery' \in Nat
  BY ConstantsAssumption DEF Settle, TypeOK, AtMost, Policy
<1>7. ReleaseCapacity(l)
  BY DEF Settle
<1>8. QED
  BY <1>5, <1>6, <1>7, ReleaseCapacityType DEF Settle, TypeOK, limitVars

\* The cached limits stay natural numbers whichever keys are recomputed.
LEMMA RecomputedType ==
  ASSUME TypeOK, NEW S, NEW members \in [S -> Candidate], NEW keys
  PROVE  Recomputed(members, keys) \in [CapacityKeys -> Nat]
  BY LimitOfType DEF Recomputed, TypeOK

\* The default circuit is a circuit.
LEMMA ClosedCircuitType == ClosedCircuit \in Circuit
  BY Zenon DEF ClosedCircuit, Circuit, CircuitStates, Time, NoLease

\* A member that registers is well typed.
LEMMA NewMemberType ==
  ASSUME NEW s \in Settings, NEW generation \in Nat
  PROVE  NewMember(s, generation) \in Candidate
<1>1. s \in Setting /\ [r \in Routes |-> 0] \in [Routes -> Nat]
  BY ConstantsAssumption
<1>2. QED
  BY <1>1, Zenon DEF NewMember, Candidate, Setting, AuthStates, QuotaStates, Time

\* A member that is edited stays well typed.
LEMMA ReconfiguredType ==
  ASSUME NEW s \in Settings, NEW old \in Candidate
  PROVE  /\ Reconfigured(old, s) \in Candidate
         /\ Reconfigured(old, s).generation = old.generation
         /\ Reconfigured(old, s).inFlight = old.inFlight
         /\ Reconfigured(old, s).routes = s.routes
         /\ Reconfigured(old, s).key = s.key
<1> DEFINE rates == [r \in Routes |-> IF r \in DOMAIN s.routes THEN old.routeRates[r] ELSE 0]
<1>1. s \in Setting
  BY ConstantsAssumption
<1>2. rates \in [Routes -> Time]
  BY DEF Candidate, Time
<1>3. Reconfigured(old, s) =
        [old EXCEPT !.routes = s.routes, !.key = s.key,
                    !.maxConcurrency = s.maxConcurrency,
                    !.capacityLimit = s.capacityLimit,
                    !.enabled = s.enabled, !.draining = s.draining,
                    !.routeRates = rates]
  BY Zenon DEF Reconfigured
<1> HIDE DEF rates
<1>4. QED
  BY <1>1, <1>2, <1>3, Zenon DEF Candidate, Setting

\* Marking leases as replaced keeps them leases.
LEMMA MarkedLeaseType ==
  ASSUME NEW p \in Lease, NEW why \in {"no", "route", "member"}
  PROVE  [p EXCEPT !.replaced = why] \in Lease
  BY Zenon DEF Lease

\* An upsert of a registered member keeps the types.
LEMMA UpdateMemberType ==
  ASSUME TypeOK, NEW c \in Candidates, NEW s \in Settings, UpdateMember(c, s)
  PROVE  TypeOK'
<1> DEFINE changed == ChangedRoutes(candidates[c], s)
           members == [candidates EXCEPT ![c] = Reconfigured(candidates[c], s)]
<1>1. c \in Registered /\ candidates[c] \in Candidate
  BY Parts DEF UpdateMember
<1>2. members \in [Registered -> Candidate]
  BY <1>1, ReconfiguredType DEF TypeOK
<1>3. candidates' = members /\ Registered' = Registered
  BY <1>2 DEF UpdateMember, Registered
<1>4. circuits' \in [Candidates \X Routes -> Circuit]
  BY ClosedCircuitType DEF UpdateMember, TypeOK
<1>5. capacityLimit' \in [CapacityKeys -> Nat]
  BY <1>2, RecomputedType DEF UpdateMember
<1>6. Live' = Live /\ leases' \in [Live -> Lease]
  <2>1. leases' = [l \in Live |->
                     IF /\ leases[l].candidate = c /\ leases[l].replaced = "no"
                        /\ leases[l].route \in changed
                       THEN [leases[l] EXCEPT !.replaced = "route"]
                       ELSE leases[l]]
    BY DEF UpdateMember
  <2>2. \A l \in Live : leases[l] \in Lease /\ [leases[l] EXCEPT !.replaced = "route"] \in Lease
    BY Parts, MarkedLeaseType
  <2>3. QED
    BY <2>1, <2>2 DEF Live
<1>7. QED
  BY <1>2, <1>3, <1>4, <1>5, <1>6 DEF UpdateMember, TypeOK, recoveryVars, limitVars

\* An upsert of an unknown member keeps the types.
LEMMA AddMemberType ==
  ASSUME TypeOK, NEW c \in Candidates, NEW s \in Settings, AddMember(c, s)
  PROVE  TypeOK'
<1> DEFINE members == With(candidates, c, NewMember(s, nextGeneration + 1))
<1>1. members \in [Registered \cup {c} -> Candidate]
  <2>1. NewMember(s, nextGeneration + 1) \in Candidate
    BY NewMemberType DEF TypeOK
  <2>2. QED
    BY <2>1, WithType DEF TypeOK
<1>2. candidates' = members
  BY DEF AddMember
<1>3. Registered' = Registered \cup {c}
  BY <1>1, <1>2 DEF Registered
<1>4. capacityLimit' \in [CapacityKeys -> Nat]
  BY <1>1, RecomputedType DEF AddMember
<1>5. candidates' \in [Registered' -> Candidate] /\ Registered' \subseteq Candidates
  BY <1>1, <1>2, <1>3 DEF TypeOK
<1>6. nextGeneration' \in Nat
  BY DEF AddMember, TypeOK
<1>7. QED
  BY <1>4, <1>5, <1>6 DEF AddMember, TypeOK, recoveryVars, limitVars, Live

\* A removal keeps the types.
LEMMA RemoveType ==
  ASSUME TypeOK, NEW c \in Candidates, Remove(c)
  PROVE  TypeOK'
<1> DEFINE members == Without(candidates, c)
<1>1. members \in [Registered \ {c} -> Candidate]
  BY WithoutType DEF TypeOK
<1>2. candidates' = members /\ Registered' = Registered \ {c}
  BY <1>1 DEF Remove, Registered
<1>3. circuits' \in [Candidates \X Routes -> Circuit]
  BY ClosedCircuitType DEF Remove, TypeOK
<1>4. capacityLimit' \in [CapacityKeys -> Nat]
  BY <1>1, RecomputedType DEF Remove
<1>5. Live' = Live /\ leases' \in [Live -> Lease]
  <2>1. leases' = [l \in Live |-> IF leases[l].candidate = c
                                    THEN [leases[l] EXCEPT !.replaced = "member"]
                                    ELSE leases[l]]
    BY DEF Remove
  <2>2. \A l \in Live : leases[l] \in Lease /\ [leases[l] EXCEPT !.replaced = "member"] \in Lease
    BY Parts, MarkedLeaseType
  <2>3. QED
    BY <2>1, <2>2 DEF Live
<1>6. QED
  BY <1>1, <1>2, <1>3, <1>4, <1>5 DEF Remove, TypeOK, recoveryVars, limitVars

\* A member that is observed stays well typed.
LEMMA ObservedType ==
  ASSUME TypeOK, NEW c \in Registered, NEW m \in Candidate,
         candidates' = [candidates EXCEPT ![c] = m]
  PROVE  Registered' = Registered /\ candidates' \in [Registered -> Candidate]
  BY DEF TypeOK, Registered

\* sync_candidate_state keeps the types.
LEMMA SyncCandidateStateType ==
  ASSUME TypeOK, NEW c \in Candidates, NEW o \in Observations, SyncCandidateState(c, o)
  PROVE  TypeOK'
<1>1. candidates' = [candidates EXCEPT ![c] = Observed(candidates[c], o)]
  BY DEF SyncCandidateState
<1>2. c \in Registered /\ o \in Observation /\ candidates[c] \in Candidate
  BY Parts, ConstantsAssumption DEF SyncCandidateState
<1>3. Observed(candidates[c], o) \in Candidate
  BY <1>2, Zenon DEF Observed, Observation, Candidate
<1>4. QED
  BY <1>1, <1>2, <1>3, ObservedType
  DEF SyncCandidateState, TypeOK, recoveryVars, limitVars, Live

\* sync_candidate_route_rate keeps the types.
LEMMA SyncCandidateRouteRateType ==
  ASSUME TypeOK, NEW c \in Candidates, NEW r \in Routes, NEW rate \in RouteRates,
         SyncCandidateRouteRate(c, r, rate)
  PROVE  TypeOK'
<1>1. c \in Registered /\ candidates[c] \in Candidate /\ rate \in Time
  BY Parts, ConstantsAssumption DEF SyncCandidateRouteRate
<1> DEFINE rates == [candidates[c].routeRates EXCEPT ![r] = rate]
<1>2. rates \in [Routes -> Time]
  BY <1>1 DEF Candidate
<1>3. candidates' = [candidates EXCEPT ![c] = [candidates[c] EXCEPT !.routeRates = rates]]
  BY Zenon DEF SyncCandidateRouteRate
<1> HIDE DEF rates
<1>4. [candidates[c] EXCEPT !.routeRates = rates] \in Candidate
  BY <1>1, <1>2, Zenon DEF Candidate
<1>5. QED
  BY <1>1, <1>3, <1>4, ObservedType
  DEF SyncCandidateRouteRate, TypeOK, recoveryVars, limitVars, Live

\* set_provider_credits keeps the types.
LEMMA SetProviderCreditsType ==
  ASSUME TypeOK, NEW c \in Candidates, NEW fresh \in BOOLEAN, SetProviderCredits(c, fresh)
  PROVE  TypeOK'
<1>1. c \in Registered /\ candidates[c] \in Candidate
  BY Parts DEF SetProviderCredits
<1>2. candidates' = [candidates EXCEPT ![c] = [candidates[c] EXCEPT !.creditsFresh = fresh]]
  BY Zenon DEF SetProviderCredits
<1>3. [candidates[c] EXCEPT !.creditsFresh = fresh] \in Candidate
  BY <1>1, Zenon DEF Candidate
<1>4. QED
  BY <1>1, <1>2, <1>3, ObservedType
  DEF SetProviderCredits, TypeOK, recoveryVars, limitVars, Live

\* Modes, ceilings, policies and the clock keep the types.
LEMMA LimitsType ==
  ASSUME TypeOK,
         \/ \E m \in Modes : SetMode(m)
         \/ \E n \in Ceilings : SetMaxInFlight(n)
         \/ \E p \in Policies : SetRecoveryPolicy(p)
         \/ Tick
  PROVE  TypeOK'
<1> USE DEF TypeOK, Live, Registered, recoveryVars, limitVars
<1>1. CASE \E m \in Modes : SetMode(m)
  BY <1>1 DEF SetMode
<1>2. CASE \E n \in Ceilings : SetMaxInFlight(n)
  BY <1>2 DEF SetMaxInFlight
<1>3. CASE \E p \in Policies : SetRecoveryPolicy(p)
  <2>1. PICK p \in Policies : SetRecoveryPolicy(p)
    BY <1>3
  <2>2. p.initialCredits \in Nat
    BY ConstantsAssumption DEF Policy
  <2>3. recoveryCredits' \in Nat
    BY <2>1, <2>2 DEF SetRecoveryPolicy, AtMost
  <2>4. QED
    BY <2>1, <2>3 DEF SetRecoveryPolicy
<1>4. CASE Tick
  BY <1>4 DEF Tick
<1>5. QED
  BY <1>1, <1>2, <1>3, <1>4

\* The initial state is well typed.
LEMMA InitType ==
  ASSUME Init
  PROVE  TypeOK
<1>1. Registered = {} /\ candidates \in [Registered -> Candidate]
  BY DEF Init, Registered
<1>2. Live = {} /\ leases \in [Live -> Lease]
  BY DEF Init, Live
<1>3. circuits \in [Candidates \X Routes -> Circuit]
  BY ClosedCircuitType DEF Init
<1>4. recoveryCredits \in Nat
  BY ConstantsAssumption DEF Init, Policy
<1>5. budgets \in [Requests -> Budget]
  <2>1. [dispatches |-> 0, replayStopped |-> FALSE] \in Budget
    BY ConstantsAssumption DEF Budget
  <2>2. QED
    BY <2>1 DEF Init
<1>6. QED
  BY <1>1, <1>2, <1>3, <1>4, <1>5 DEF Init, TypeOK

\* Every step keeps the types.
LEMMA NextType ==
  ASSUME TypeOK, [Next]_vars
  PROVE  TypeOK'
<1>1. CASE Requesting
  BY <1>1, ReserveType, ObserveExecutionType DEF Requesting
<1>2. CASE Holding
  BY <1>2, BeginDispatchType, ReleaseUnstartedType, SettleType DEF Holding
<1>3. CASE Registering
  BY <1>3, UpdateMemberType, AddMemberType, RemoveType, SyncCandidateStateType,
     SyncCandidateRouteRateType, SetProviderCreditsType, LimitsType DEF Registering, Upsert
<1>4. CASE Tick
  BY <1>4, LimitsType
<1>5. CASE UNCHANGED vars
  BY <1>5 DEF vars, TypeOK, Live, Registered
<1>6. QED
  BY <1>1, <1>2, <1>3, <1>4, <1>5 DEF Next

\* Every reachable state of the engine is well typed.
THEOREM TypeCorrect == Spec => []TypeOK
<1>1. Init => TypeOK
  BY InitType
<1>2. TypeOK /\ [Next]_vars => TypeOK'
  BY NextType
<1>3. QED
  BY <1>1, <1>2, PTL DEF Spec

-----------------------------------------------------------------------------
(***************************************************************************)
(* The leases of RotationEngine: the counters are exact, the half-open     *)
(* gates belong to live trials, and a lease whose member was replaced      *)
(* changes nothing but the counters.                                       *)
(***************************************************************************)

\* No generation in use is newer than the last one handed out, so the
\* generation of a new member is that of no lease.
Generations ==
  /\ \A c \in Registered : candidates[c].generation <= nextGeneration
  /\ \A l \in Live : leases[l].generation <= nextGeneration

\* The history variable says what the generation check finds.
MemberMarks ==
  \A l \in Live : leases[l].replaced # "member" <=> SameMember(leases[l])

LeaseInv ==
  /\ TypeOK
  /\ Generations
  /\ MemberMarks
  /\ TrialsCounted
  /\ CapacityCounted
  /\ MembersCounted
  /\ GateHeldByTrial

\* What the counters and the gates are about stays as it was for lease l.
SameIdentity(l) ==
  /\ leases'[l].candidate = leases[l].candidate
  /\ leases'[l].generation = leases[l].generation
  /\ leases'[l].route = leases[l].route
  /\ leases'[l].key = leases[l].key
  /\ leases'[l].recovery = leases[l].recovery

-----------------------------------------------------------------------------
(* Counting leases *)

\* Lease ids are drawn from a finite interval, so the live leases are finite.
LEMMA LiveFinite ==
  ASSUME TypeOK, NEW S \in SUBSET Live
  PROVE  IsFiniteSet(S) /\ Cardinality(S) \in Nat
<1>1. IsFiniteSet(1..nextLease)
  BY FS_Interval DEF TypeOK
<1>2. IsFiniteSet(S)
  BY <1>1, FS_Subset DEF TypeOK
<1>3. QED
  BY <1>2, FS_CardinalityType

\* One lease more, or one less, is one in the count of those it belongs to.
LEMMA OneMore ==
  ASSUME TypeOK, NEW S \in SUBSET Live, NEW l, l \notin Live
  PROVE  Cardinality(S \cup {l}) = Cardinality(S) + 1
  BY LiveFinite, FS_AddElement

\* And one less.
LEMMA OneLess ==
  ASSUME TypeOK, NEW S \in SUBSET Live, NEW l
  PROVE  Cardinality(S \ {l}) = IF l \in S THEN Minus1(Cardinality(S)) ELSE Cardinality(S)
<1>1. IsFiniteSet(S) /\ Cardinality(S) \in Nat
  BY LiveFinite
<1>2. Cardinality(S \ {l}) = IF l \in S THEN Cardinality(S) - 1 ELSE Cardinality(S)
  BY <1>1, FS_RemoveElement
<1>3. l \in S => Cardinality(S) > 0
  BY <1>1, FS_EmptySet
<1>4. QED
  BY <1>1, <1>2, <1>3 DEF Minus1

\* A step that keeps the leases and what they are about, and the counters, keeps
\* the counts; a member may come or go as long as it starts uncharged.
LEMMA CountsKept ==
  ASSUME TypeOK, TypeOK', TrialsCounted, CapacityCounted, MembersCounted,
         Live' = Live, \A l \in Live : SameIdentity(l),
         UNCHANGED <<capacityInFlight, recoveryInFlight>>,
         \A c \in Registered' :
           \/ /\ c \in Registered
              /\ candidates'[c].inFlight = candidates[c].inFlight
              /\ candidates'[c].generation = candidates[c].generation
           \/ /\ candidates'[c].inFlight = 0
              /\ \A l \in Live : leases[l].generation # candidates'[c].generation
  PROVE  TrialsCounted' /\ CapacityCounted' /\ MembersCounted'
<1>1. Trials' = Trials
  BY DEF Trials, SameIdentity
<1>2. ASSUME NEW k \in CapacityKeys PROVE Holders(k)' = Holders(k)
  BY DEF Holders, SameIdentity
<1>3. ASSUME NEW c \in Registered' PROVE candidates'[c].inFlight = Cardinality(LeasesOf(c)')
  <2>1. CASE /\ c \in Registered
             /\ candidates'[c].inFlight = candidates[c].inFlight
             /\ candidates'[c].generation = candidates[c].generation
    <3>1. LeasesOf(c)' = LeasesOf(c)
      BY <2>1 DEF LeasesOf, SameIdentity
    <3>2. QED
      BY <2>1, <3>1 DEF MembersCounted
  <2>2. CASE /\ candidates'[c].inFlight = 0
             /\ \A l \in Live : leases[l].generation # candidates'[c].generation
    <3>1. LeasesOf(c)' = {}
      BY <2>2 DEF LeasesOf, SameIdentity
    <3>2. QED
      BY <2>2, <3>1, FS_EmptySet
  <2>3. QED
    BY <2>1, <2>2
<1>4. QED
  BY <1>1, <1>2, <1>3 DEF TrialsCounted, CapacityCounted, MembersCounted

-----------------------------------------------------------------------------
(* Steps that neither admit nor give up a lease *)

\* A step that keeps the leases, the members and the gates keeps the invariant.
LEMMA Untouched ==
  ASSUME LeaseInv, TypeOK', Live' = Live,
         \A l \in Live : SameIdentity(l) /\ leases'[l].replaced = leases[l].replaced,
         Registered' = Registered,
         \A c \in Registered : /\ candidates'[c].inFlight = candidates[c].inFlight
                               /\ candidates'[c].generation = candidates[c].generation,
         UNCHANGED <<nextGeneration, circuits, capacityInFlight, recoveryInFlight>>
  PROVE  LeaseInv'
<1>1. Generations'
  BY DEF LeaseInv, Generations, SameIdentity
<1>2. MemberMarks'
  BY DEF LeaseInv, MemberMarks, SameMember, SameIdentity
<1>3. TrialsCounted' /\ CapacityCounted' /\ MembersCounted'
  BY CountsKept DEF LeaseInv
<1>4. GateHeldByTrial'
  <2>1. \A l \in Live, c \in Candidates, r \in Routes : IsTrialOf(l, c, r)' <=> IsTrialOf(l, c, r)
    BY DEF IsTrialOf, SameIdentity
  <2>2. QED
    BY <2>1 DEF LeaseInv, GateHeldByTrial, GateOfTrial
<1>5. QED
  BY <1>1, <1>2, <1>3, <1>4 DEF LeaseInv

\* A dispatch keeps the leases, what they are about, and the gates.
LEMMA BeginDispatchLeases ==
  ASSUME LeaseInv, NEW l \in Live, NEW retained \in BOOLEAN, BeginDispatch(l, retained)
  PROVE  LeaseInv'
<1>1. TypeOK'
  BY BeginDispatchType DEF LeaseInv
<1> DEFINE p == leases[l]
           attempt == budgets[p.request].dispatches + 1
           started == [p EXCEPT !.creditRequired = FALSE, !.attempt = attempt]
<1>2. leases' = [leases EXCEPT ![l] = started]
  BY Zenon DEF BeginDispatch
<1>3. Live' = Live
  BY <1>2 DEF Live
<1>4. p \in Lease
  BY Parts DEF LeaseInv
<1>5. /\ started.candidate = p.candidate /\ started.generation = p.generation
      /\ started.route = p.route /\ started.key = p.key
      /\ started.recovery = p.recovery /\ started.replaced = p.replaced
  BY <1>4, Zenon DEF Lease
<1>6. \A x \in Live : leases'[x] = IF x = l THEN started ELSE leases[x]
  BY <1>2 DEF Live
<1> HIDE DEF started
<1>7. \A x \in Live : SameIdentity(x) /\ leases'[x].replaced = leases[x].replaced
  BY <1>5, <1>6 DEF SameIdentity
<1>8. QED
  BY <1>1, <1>3, <1>7, Untouched DEF BeginDispatch, Registered

\* An observation that leaves a member its key, generation and count.
LEMMA ObservationsLeases ==
  ASSUME LeaseInv, TypeOK', NEW c \in Registered, NEW m \in Candidate,
         candidates' = [candidates EXCEPT ![c] = m],
         m.inFlight = candidates[c].inFlight, m.generation = candidates[c].generation,
         UNCHANGED <<nextGeneration, circuits, leases, capacityInFlight, recoveryInFlight>>
  PROVE  LeaseInv'
<1>1. Registered' = Registered
  BY DEF Registered
<1>2. \A x \in Registered : candidates'[x] = IF x = c THEN m ELSE candidates[x]
  BY DEF Registered
<1>3. Live' = Live /\ \A l \in Live : SameIdentity(l) /\ leases'[l].replaced = leases[l].replaced
  BY DEF Live, SameIdentity
<1>4. QED
  BY <1>1, <1>2, <1>3, Untouched

\* sync_candidate_state keeps the invariant.
LEMMA SyncCandidateStateLeases ==
  ASSUME LeaseInv, NEW c \in Candidates, NEW o \in Observations, SyncCandidateState(c, o)
  PROVE  LeaseInv'
<1>1. TypeOK'
  BY SyncCandidateStateType DEF LeaseInv
<1>2. c \in Registered /\ candidates' = [candidates EXCEPT ![c] = Observed(candidates[c], o)]
  BY DEF SyncCandidateState
<1>3. candidates[c] \in Candidate /\ o \in Observation
  BY <1>2, Parts, ConstantsAssumption DEF LeaseInv
<1>4. /\ Observed(candidates[c], o) \in Candidate
      /\ Observed(candidates[c], o).inFlight = candidates[c].inFlight
      /\ Observed(candidates[c], o).generation = candidates[c].generation
  BY <1>3, Zenon DEF Observed, Observation, Candidate
<1>5. QED
  BY <1>1, <1>2, <1>4, ObservationsLeases DEF SyncCandidateState, recoveryVars

\* sync_candidate_route_rate keeps the invariant.
LEMMA SyncCandidateRouteRateLeases ==
  ASSUME LeaseInv, NEW c \in Candidates, NEW r \in Routes, NEW rate \in RouteRates,
         SyncCandidateRouteRate(c, r, rate)
  PROVE  LeaseInv'
<1> DEFINE rates == [candidates[c].routeRates EXCEPT ![r] = rate]
           m == [candidates[c] EXCEPT !.routeRates = rates]
<1>1. TypeOK'
  BY SyncCandidateRouteRateType DEF LeaseInv
<1>2. c \in Registered /\ candidates' = [candidates EXCEPT ![c] = m]
  BY Zenon DEF SyncCandidateRouteRate
<1>3. candidates[c] \in Candidate /\ rate \in Time
  BY <1>2, Parts, ConstantsAssumption DEF LeaseInv
<1>4. rates \in [Routes -> Time]
  BY <1>3 DEF Candidate
<1> HIDE DEF rates
<1>5. /\ m \in Candidate /\ m.inFlight = candidates[c].inFlight
      /\ m.generation = candidates[c].generation
  BY <1>3, <1>4, Zenon DEF Candidate
<1> HIDE DEF m
<1>6. QED
  BY <1>1, <1>2, <1>5, ObservationsLeases DEF SyncCandidateRouteRate, recoveryVars

\* set_provider_credits keeps the invariant.
LEMMA SetProviderCreditsLeases ==
  ASSUME LeaseInv, NEW c \in Candidates, NEW fresh \in BOOLEAN,
         SetProviderCredits(c, fresh)
  PROVE  LeaseInv'
<1> DEFINE m == [candidates[c] EXCEPT !.creditsFresh = fresh]
<1>1. TypeOK'
  BY SetProviderCreditsType DEF LeaseInv
<1>2. c \in Registered /\ candidates' = [candidates EXCEPT ![c] = m]
  BY Zenon DEF SetProviderCredits
<1>3. candidates[c] \in Candidate
  BY <1>2, Parts DEF LeaseInv
<1>4. /\ m \in Candidate /\ m.inFlight = candidates[c].inFlight
      /\ m.generation = candidates[c].generation
  BY <1>3, Zenon DEF Candidate
<1> HIDE DEF m
<1>5. QED
  BY <1>1, <1>2, <1>4, ObservationsLeases DEF SetProviderCredits, recoveryVars

\* Limits, policies, the clock and the budgets are none of the invariant's concern.
LEMMA ElsewhereLeases ==
  ASSUME LeaseInv, TypeOK',
         UNCHANGED <<candidates, nextGeneration, circuits, leases,
                     capacityInFlight, recoveryInFlight>>
  PROVE  LeaseInv'
<1>1. Live' = Live /\ \A l \in Live : SameIdentity(l) /\ leases'[l].replaced = leases[l].replaced
  BY DEF Live, SameIdentity
<1>2. Registered' = Registered
  BY DEF Registered
<1>3. QED
  BY <1>1, <1>2, Untouched

-----------------------------------------------------------------------------
(* Steps of the registry *)

\* Marking a lease as replaced leaves what it is about alone.
LEMMA MarkKeepsIdentity ==
  ASSUME NEW p \in Lease, NEW why
  PROVE  LET marked == [p EXCEPT !.replaced = why]
         IN  /\ marked.candidate = p.candidate /\ marked.generation = p.generation
             /\ marked.route = p.route /\ marked.key = p.key
             /\ marked.recovery = p.recovery /\ marked.replaced = why
  BY Zenon DEF Lease

\* The circuits a registry step drops are those of the trials it marks.
LEMMA GatesDropped ==
  ASSUME TypeOK, GateHeldByTrial, Live' = Live, NEW dropped,
         \A l \in Live : SameIdentity(l),
         \A cr \in Candidates \X Routes :
           circuits'[cr] = IF cr \in dropped THEN ClosedCircuit ELSE circuits[cr],
         \A l \in Live :
           leases'[l].replaced = "no" <=>
             leases[l].replaced = "no" /\ <<leases[l].candidate, leases[l].route>> \notin dropped
  PROVE  GateHeldByTrial'
<1>1. SUFFICES ASSUME NEW c \in Candidates, NEW r \in Routes
               PROVE  GateOfTrial(c, r)'
  BY DEF GateHeldByTrial
<1>2. CASE <<c, r>> \in dropped
  <2>1. circuits'[<<c, r>>].state = "Closed" /\ circuits'[<<c, r>>].halfOpen = 0
    BY <1>2 DEF ClosedCircuit, NoLease
  <2>2. ASSUME NEW l \in Live PROVE ~IsTrialOf(l, c, r)' /\ l # 0
    <3>1. l # 0
      BY DEF TypeOK
    <3>2. ASSUME IsTrialOf(l, c, r)' PROVE FALSE
      <4>1. leases[l].candidate = c /\ leases[l].route = r /\ leases'[l].replaced = "no"
        BY <3>2 DEF IsTrialOf, SameIdentity
      <4>2. QED
        BY <1>2, <4>1
    <3>3. QED
      BY <3>1, <3>2
  <2>3. QED
    BY <2>1, <2>2 DEF NoLease, GateOfTrial
<1>3. CASE <<c, r>> \notin dropped
  <2>1. circuits'[<<c, r>>] = circuits[<<c, r>>]
    BY <1>3
  <2>2. \A l \in Live : IsTrialOf(l, c, r)' <=> IsTrialOf(l, c, r)
    BY <1>3 DEF IsTrialOf, SameIdentity
  <2>3. QED
    BY <2>1, <2>2 DEF GateHeldByTrial, GateOfTrial
<1>4. QED
  BY <1>2, <1>3

\* An upsert of a registered member keeps the invariant, whatever it changes.
LEMMA UpdateMemberLeases ==
  ASSUME LeaseInv, NEW c \in Candidates, NEW s \in Settings, UpdateMember(c, s)
  PROVE  LeaseInv'
<1> DEFINE changed == ChangedRoutes(candidates[c], s)
           dropped == {cr \in Candidates \X Routes : cr[1] = c /\ cr[2] \in changed}
           Lost(l) == leases[l].candidate = c /\ leases[l].replaced = "no"
                      /\ leases[l].route \in changed
<1>1. TypeOK /\ TypeOK'
  BY UpdateMemberType DEF LeaseInv
<1>2. leases' = [l \in Live |-> IF Lost(l) THEN [leases[l] EXCEPT !.replaced = "route"]
                                          ELSE leases[l]]
  BY Zenon DEF UpdateMember
<1>3. Live' = Live
  BY <1>2 DEF Live
<1>4. \A l \in Live : leases[l] \in Lease
  BY <1>1, Parts
<1>5. ASSUME NEW l \in Live
      PROVE  /\ SameIdentity(l)
             /\ leases'[l].replaced = IF Lost(l) THEN "route" ELSE leases[l].replaced
  <2>1. leases'[l] = IF Lost(l) THEN [leases[l] EXCEPT !.replaced = "route"] ELSE leases[l]
    BY <1>2
  <2> HIDE DEF Lost
  <2>2. QED
    BY <1>4, <2>1, MarkKeepsIdentity DEF SameIdentity
<1>6. \A cr \in Candidates \X Routes :
        circuits'[cr] = IF cr \in dropped THEN ClosedCircuit ELSE circuits[cr]
  BY DEF UpdateMember
<1>7. GateHeldByTrial'
  <2>1. \A l \in Live : <<leases[l].candidate, leases[l].route>> \in Candidates \X Routes
    BY <1>4 DEF Lease
  <2>2. \A l \in Live :
          leases'[l].replaced = "no" <=>
            leases[l].replaced = "no" /\ <<leases[l].candidate, leases[l].route>> \notin dropped
    BY <1>5, <2>1
  <2> HIDE DEF dropped
  <2>3. QED
    BY <1>1, <1>3, <1>5, <1>6, <2>2, GatesDropped DEF LeaseInv
<1>8. /\ c \in Registered /\ Registered' = Registered
      /\ \A x \in Registered : /\ candidates'[x].inFlight = candidates[x].inFlight
                               /\ candidates'[x].generation = candidates[x].generation
  <2>1. c \in Registered
    BY DEF UpdateMember
  <2>2. candidates' = [candidates EXCEPT ![c] = Reconfigured(candidates[c], s)]
    BY DEF UpdateMember
  <2>3. Registered' = Registered
    BY <2>2 DEF Registered
  <2>4. \A x \in Registered :
          candidates'[x] = IF x = c THEN Reconfigured(candidates[c], s) ELSE candidates[x]
    BY <2>2 DEF Registered
  <2>5. QED
    BY <1>1, <2>1, <2>3, <2>4, ReconfiguredType, Parts
<1>9. Generations' /\ MemberMarks'
  <2>1. UNCHANGED nextGeneration
    BY DEF UpdateMember
  <2>2. \A l \in Live : leases'[l].replaced # "member" <=> leases[l].replaced # "member"
    BY <1>5
  <2>3. QED
    BY <1>3, <1>5, <1>8, <2>1, <2>2 DEF LeaseInv, Generations, MemberMarks, SameMember, SameIdentity
<1>10. TrialsCounted' /\ CapacityCounted' /\ MembersCounted'
  <2>1. UNCHANGED <<capacityInFlight, recoveryInFlight>>
    BY DEF UpdateMember, recoveryVars
  <2>2. QED
    BY <1>1, <1>3, <1>5, <1>8, <2>1, CountsKept DEF LeaseInv
<1>11. QED
  BY <1>1, <1>7, <1>9, <1>10 DEF LeaseInv

\* A member that registers is charged with no lease: its generation is new.
LEMMA AddMemberLeases ==
  ASSUME LeaseInv, NEW c \in Candidates, NEW s \in Settings, AddMember(c, s)
  PROVE  LeaseInv'
<1> DEFINE new == NewMember(s, nextGeneration + 1)
<1>1. TypeOK /\ TypeOK' /\ nextGeneration \in Nat
  BY AddMemberType DEF LeaseInv, TypeOK
<1>2. new.inFlight = 0 /\ new.generation = nextGeneration + 1
  BY DEF NewMember
<1> HIDE DEF new
<1>3. c \notin Registered /\ candidates' = With(candidates, c, new)
  BY Zenon DEF AddMember, new
<1>4. /\ Registered' = Registered \cup {c} /\ candidates'[c] = new
      /\ \A x \in Registered : candidates'[x] = candidates[x]
  BY <1>3 DEF With, Registered
<1>5. Live' = Live /\ leases' = leases /\ \A l \in Live : SameIdentity(l)
  BY DEF AddMember, Live, SameIdentity
<1>6. /\ \A x \in Registered : candidates[x].generation \in Nat
      /\ \A l \in Live : leases[l].generation \in Nat /\ leases[l].generation <= nextGeneration
  BY <1>1, Parts DEF Candidate, Lease, LeaseInv, Generations
<1>7. \A l \in Live : leases[l].generation # new.generation
  BY <1>1, <1>2, <1>6
<1>8. Generations'
  <2>1. nextGeneration' = nextGeneration + 1
    BY DEF AddMember
  <2>2. QED
    BY <1>1, <1>2, <1>4, <1>5, <1>6, <2>1 DEF LeaseInv, Generations
<1>9. MemberMarks'
  BY <1>3, <1>4, <1>5, <1>7 DEF LeaseInv, MemberMarks, SameMember
<1>10. TrialsCounted' /\ CapacityCounted' /\ MembersCounted'
  <2>1. UNCHANGED <<capacityInFlight, recoveryInFlight>>
    BY DEF AddMember, recoveryVars
  <2>2. \A x \in Registered' :
           \/ /\ x \in Registered
              /\ candidates'[x].inFlight = candidates[x].inFlight
              /\ candidates'[x].generation = candidates[x].generation
           \/ /\ candidates'[x].inFlight = 0
              /\ \A l \in Live : leases[l].generation # candidates'[x].generation
    BY <1>2, <1>4, <1>7
  <2>3. QED
    BY <1>1, <1>5, <2>1, <2>2, CountsKept DEF LeaseInv
<1>11. GateHeldByTrial'
  <2>1. circuits' = circuits
    BY DEF AddMember
  <2>2. \A l, x, r : IsTrialOf(l, x, r)' <=> IsTrialOf(l, x, r)
    BY <1>5 DEF IsTrialOf
  <2>3. QED
    BY <1>5, <2>1, <2>2 DEF LeaseInv, GateHeldByTrial, GateOfTrial
<1>12. QED
  BY <1>1, <1>8, <1>9, <1>10, <1>11 DEF LeaseInv

\* A removal keeps the invariant: its leases stay, marked.
LEMMA RemoveLeases ==
  ASSUME LeaseInv, NEW c \in Candidates, Remove(c)
  PROVE  LeaseInv'
<1> DEFINE dropped == {cr \in Candidates \X Routes : cr[1] = c}
<1>1. TypeOK /\ TypeOK'
  BY RemoveType DEF LeaseInv
<1>2. leases' = [l \in Live |-> IF leases[l].candidate = c
                                  THEN [leases[l] EXCEPT !.replaced = "member"]
                                  ELSE leases[l]]
  BY DEF Remove
<1>3. Live' = Live
  BY <1>2 DEF Live
<1>4. \A l \in Live : leases[l] \in Lease
  BY <1>1, Parts
<1>5. ASSUME NEW l \in Live
      PROVE  /\ SameIdentity(l)
             /\ leases'[l].replaced =
                  IF leases[l].candidate = c THEN "member" ELSE leases[l].replaced
  BY <1>2, <1>4, MarkKeepsIdentity DEF SameIdentity
<1>6. /\ Registered' = Registered \ {c}
      /\ \A x \in Registered' : candidates'[x] = candidates[x]
  BY DEF Remove, Without, Registered
<1>7. Generations'
  <2>1. UNCHANGED nextGeneration
    BY DEF Remove
  <2>2. QED
    BY <1>3, <1>5, <1>6, <2>1 DEF LeaseInv, Generations, SameIdentity
<1>8. MemberMarks'
  BY <1>3, <1>5, <1>6 DEF LeaseInv, MemberMarks, SameMember, SameIdentity
<1>9. TrialsCounted' /\ CapacityCounted' /\ MembersCounted'
  <2>1. UNCHANGED <<capacityInFlight, recoveryInFlight>>
    BY DEF Remove, recoveryVars
  <2>2. QED
    BY <1>1, <1>3, <1>5, <1>6, <2>1, CountsKept DEF LeaseInv
<1>10. GateHeldByTrial'
  <2>1. \A cr \in Candidates \X Routes :
          circuits'[cr] = IF cr \in dropped THEN ClosedCircuit ELSE circuits[cr]
    BY DEF Remove
  <2>2. \A l \in Live : <<leases[l].candidate, leases[l].route>> \in Candidates \X Routes
    BY <1>4 DEF Lease
  <2>3. \A l \in Live :
          leases'[l].replaced = "no" <=>
            leases[l].replaced = "no" /\ <<leases[l].candidate, leases[l].route>> \notin dropped
    BY <1>5, <2>2
  <2> HIDE DEF dropped
  <2>4. QED
    BY <1>1, <1>3, <1>5, <2>1, <2>3, GatesDropped DEF LeaseInv
<1>11. QED
  BY <1>1, <1>7, <1>8, <1>9, <1>10 DEF LeaseInv

-----------------------------------------------------------------------------
(* Reservation *)

\* A reservation charges every counter by one and takes the gate of a trial.
LEMMA ReserveLeases ==
  ASSUME LeaseInv, NEW q \in Requests, NEW r \in Routes, NEW d \in Definitions,
         NEW eligible \in SUBSET Candidates, Reserve(q, r, d, eligible)
  PROVE  LeaseInv'
<1>1. PICK c \in SelectionGroup(r, d, eligible) : ReserveOn(c, q, r, d, eligible)
  BY DEF Reserve
<1> PICK l : l = nextLease + 1
  OBVIOUS
<1> DEFINE lease == Admission(c, q, r, d, eligible)
<1>2. TypeOK /\ TypeOK' /\ nextLease \in Nat /\ Live \subseteq 1..nextLease
  BY ReserveType DEF LeaseInv, TypeOK
<1>3. c \in Registered /\ c \in Candidates /\ Ready(c, r, d) /\ candidates[c] \in Candidate
  BY <1>1, <1>2, SelectedIsReady, Parts DEF Ready, TypeOK
<1>4. l \notin Live /\ l # NoLease /\ l \in Nat
  BY <1>2 DEF NoLease
<1>5. /\ lease.candidate = c /\ lease.generation = candidates[c].generation
      /\ lease.route = r /\ lease.key = candidates[c].key
      /\ lease.recovery = NeedsRecovery(c, r) /\ lease.replaced = "no"
  BY Zenon DEF Admission
<1>6. leases' = With(leases, l, lease)
  BY <1>1 DEF ReserveOn
<1> HIDE DEF lease
<1>7. /\ Live' = Live \cup {l} /\ leases'[l] = lease
      /\ \A x \in Live : leases'[x] = leases[x]
  BY <1>4, <1>6 DEF With, Live
<1>8. /\ Registered' = Registered
      /\ \A x \in Registered :
           /\ candidates'[x].generation = candidates[x].generation
           /\ candidates'[x].inFlight =
                IF x = c THEN candidates[x].inFlight + 1 ELSE candidates[x].inFlight
  <2>1. candidates' = [candidates EXCEPT ![c] = Charged(candidates[c], candidates[c].inFlight + 1)]
    BY <1>1, Zenon DEF ReserveOn
  <2>2. candidates[c].inFlight + 1 \in Nat
    BY <1>3 DEF Candidate
  <2>3. QED
    BY <1>2, <1>3, <2>1, <2>2, ChargeOne
<1>9. Generations'
  <2>1. UNCHANGED nextGeneration
    BY <1>1 DEF ReserveOn
  <2>2. QED
    BY <1>3, <1>5, <1>7, <1>8, <2>1 DEF LeaseInv, Generations
<1>10. MemberMarks'
  BY <1>3, <1>5, <1>7, <1>8 DEF LeaseInv, MemberMarks, SameMember
<1>11. TrialsCounted'
  <2>1. Trials' = IF NeedsRecovery(c, r) THEN Trials \cup {l} ELSE Trials
    BY <1>4, <1>5, <1>7 DEF Trials
  <2>2. Trials \in SUBSET Live
    BY DEF Trials
  <2>3. Cardinality(Trials \cup {l}) = Cardinality(Trials) + 1
    BY <1>2, <1>4, <2>2, OneMore
  <2>4. recoveryInFlight' = IF NeedsRecovery(c, r) THEN recoveryInFlight + 1 ELSE recoveryInFlight
    BY <1>1 DEF ReserveOn
  <2>5. QED
    BY <2>1, <2>3, <2>4 DEF LeaseInv, TrialsCounted
<1>12. CapacityCounted'
  <2> SUFFICES ASSUME NEW k \in CapacityKeys
               PROVE  capacityInFlight'[k] = Cardinality(Holders(k)')
    BY DEF CapacityCounted
  <2>1. Holders(k)' = IF k = candidates[c].key THEN Holders(k) \cup {l} ELSE Holders(k)
    BY <1>4, <1>5, <1>7 DEF Holders
  <2>2. Holders(k) \in SUBSET Live
    BY DEF Holders
  <2>3. Cardinality(Holders(k) \cup {l}) = Cardinality(Holders(k)) + 1
    BY <1>2, <1>4, <2>2, OneMore
  <2>4. capacityInFlight'[k] =
          IF k = candidates[c].key THEN capacityInFlight[k] + 1 ELSE capacityInFlight[k]
    BY <1>1, <1>2 DEF ReserveOn, TypeOK
  <2>5. QED
    BY <2>1, <2>3, <2>4 DEF LeaseInv, CapacityCounted
<1>13. MembersCounted'
  <2> SUFFICES ASSUME NEW x \in Registered
               PROVE  candidates'[x].inFlight = Cardinality(LeasesOf(x)')
    BY <1>8 DEF MembersCounted
  <2>1. LeasesOf(x)' = IF x = c THEN LeasesOf(x) \cup {l} ELSE LeasesOf(x)
    BY <1>3, <1>4, <1>5, <1>7, <1>8 DEF LeasesOf
  <2>2. LeasesOf(x) \in SUBSET Live
    BY DEF LeasesOf
  <2>3. Cardinality(LeasesOf(x) \cup {l}) = Cardinality(LeasesOf(x)) + 1
    BY <1>2, <1>4, <2>2, OneMore
  <2>4. QED
    BY <1>8, <2>1, <2>3 DEF LeaseInv, MembersCounted
<1>14. GateHeldByTrial'
  <2>1. SUFFICES ASSUME NEW x \in Candidates, NEW rr \in Routes
                 PROVE  GateOfTrial(x, rr)'
    BY DEF GateHeldByTrial
  <2>2. GateOfTrial(x, rr)
    BY DEF LeaseInv, GateHeldByTrial
  <2>3. \A y \in Live : IsTrialOf(y, x, rr)' <=> IsTrialOf(y, x, rr)
    BY <1>7 DEF IsTrialOf
  <2>4. IsTrialOf(l, x, rr)' <=> NeedsRecovery(c, r) /\ x = c /\ rr = r
    <3>1. leases'[l].recovery <=> NeedsRecovery(c, r)
      BY <1>5, <1>7, Zenon
    <3>2. QED
      BY <1>5, <1>7, <3>1 DEF IsTrialOf
  <2>5. CASE NeedsRecovery(c, r) /\ x = c /\ rr = r
    <3>1. circuits[<<x, rr>>].halfOpen = NoLease
      BY <1>3, <2>5 DEF Ready, NeedsRecovery
    <3>2. circuits'[<<x, rr>>] = TakeGate(circuits[<<x, rr>>], l)
      BY <1>1, <1>2, <1>3, <2>5 DEF ReserveOn, TypeOK
    <3>3. circuits'[<<x, rr>>].halfOpen = l
      BY <1>2, <3>2, Parts, Zenon DEF TakeGate, Circuit
    <3>4. ASSUME NEW y \in Live PROVE ~IsTrialOf(y, x, rr)
      <4>1. y # NoLease
        BY <1>2 DEF NoLease
      <4>2. QED
        BY <2>2, <3>1, <4>1 DEF GateOfTrial
    <3>5. QED
      BY <1>4, <1>7, <2>3, <2>4, <2>5, <3>3, <3>4 DEF GateOfTrial
  <2>6. CASE ~(NeedsRecovery(c, r) /\ x = c /\ rr = r)
    <3>1. circuits'[<<x, rr>>] = circuits[<<x, rr>>]
      BY <1>1, <1>2, <1>3, <2>6 DEF ReserveOn, TypeOK
    <3>2. circuits[<<x, rr>>].halfOpen # l
      BY <1>4, <2>2 DEF GateOfTrial
    <3>3. QED
      BY <1>7, <2>2, <2>3, <2>4, <2>6, <3>1, <3>2 DEF GateOfTrial
  <2>7. QED
    BY <2>5, <2>6
<1>15. QED
  BY <1>2, <1>9, <1>10, <1>11, <1>12, <1>13, <1>14 DEF LeaseInv

-----------------------------------------------------------------------------
(* Release and settlement *)

\* The reducer never gives the gate to another lease and never half-opens a
\* circuit.
LEMMA UpdateCircuitGate ==
  ASSUME NEW circuit \in Circuit, NEW p, NEW outcome, NEW provider
  PROVE  LET after == UpdateCircuit(circuit, p, outcome, provider)
         IN  /\ after.halfOpen = circuit.halfOpen
             /\ after.state = "HalfOpen" => circuit.state = "HalfOpen"
<1> DEFINE Kept(after) == /\ after.halfOpen = circuit.halfOpen
                          /\ after.state = "HalfOpen" => circuit.state = "HalfOpen"
<1>1. Kept(OnSuccess(circuit, p))
  <2>1. Closed(circuit).halfOpen = circuit.halfOpen /\ Closed(circuit).state = "Closed"
    BY Zenon DEF Closed, Circuit
  <2>2. /\ [circuit EXCEPT !.state = "Open"].halfOpen = circuit.halfOpen
        /\ [circuit EXCEPT !.state = "Open"].state = "Open"
    BY Zenon DEF Circuit
  <2>3. QED
    BY <2>1, <2>2 DEF OnSuccess
<1>2. Kept(OnTransient(circuit, p, provider))
  <2> DEFINE recent == Recent(circuit)
             streak == recent.streak + 1
             Until(pause) == AtLeast(AtLeast(provider, now + pause), recent.notBefore)
             tripped == IF p.recovery \/ streak >= FailureThreshold THEN "Open" ELSE "Degraded"
             again == [recent EXCEPT !.state = "Open", !.notBefore = Until(FirstPacing)]
             counted == [recent EXCEPT
                           !.streak = streak,
                           !.counted = Remember(recent.counted, p.request),
                           !.lastFailure = [seen |-> TRUE, at |-> now],
                           !.notBefore = Until(FailureBackoff(streak)),
                           !.epoch = recent.epoch + 1,
                           !.state = tripped]
  <2>1. /\ recent.halfOpen = circuit.halfOpen /\ recent.state = circuit.state
        /\ DOMAIN recent = DOMAIN circuit
    <3>1. LET fresh == [circuit EXCEPT !.streak = 0, !.counted = {}]
          IN  /\ fresh.halfOpen = circuit.halfOpen /\ fresh.state = circuit.state
              /\ DOMAIN fresh = DOMAIN circuit
      BY Zenon DEF Circuit
    <3>2. QED
      BY <3>1 DEF Recent
  <2>2. {"state", "halfOpen"} \subseteq DOMAIN recent
    BY <2>1 DEF Circuit
  <2>3. OnTransient(circuit, p, provider) =
          IF p.request \in recent.counted
            THEN IF p.recovery THEN again ELSE recent
            ELSE counted
    BY Zenon DEF OnTransient
  <2>4. tripped # "HalfOpen"
    OBVIOUS
  <2> HIDE DEF recent, streak, Until, tripped
  <2>5. again.halfOpen = circuit.halfOpen /\ again.state = "Open"
    BY <2>1, <2>2, Zenon
  <2>6. counted.halfOpen = circuit.halfOpen /\ counted.state = tripped
    BY <2>1, <2>2, Zenon
  <2> HIDE DEF again, counted
  <2>7. QED
    BY <2>1, <2>3, <2>4, <2>5, <2>6
<1>3. Kept(OnNeutral(circuit, p))
  <2>1. LET opened == [circuit EXCEPT !.state = "Open", !.epoch = @ + 1,
                                      !.notBefore = AtLeast(now + FirstPacing, @)]
        IN  opened.halfOpen = circuit.halfOpen /\ opened.state = "Open"
    BY Zenon DEF Circuit
  <2>2. QED
    BY <2>1 DEF OnNeutral
<1>4. QED
  BY <1>1, <1>2, <1>3 DEF UpdateCircuit

\* Giving a lease up, whatever the circuit learns from it besides.
LEMMA ReleaseLeases ==
  ASSUME LeaseInv, TypeOK', NEW l \in Live, ReleaseCapacity(l),
         UNCHANGED nextGeneration, NEW after,
         circuits' = [circuits EXCEPT ![<<leases[l].candidate, leases[l].route>>] = after],
         LET released == HandBackGate(circuits[<<leases[l].candidate, leases[l].route>>], l)
         IN  /\ after.halfOpen = released.halfOpen
             /\ after.state = "HalfOpen" => released.state = "HalfOpen"
  PROVE  LeaseInv'
<1> PICK p : p = leases[l]
  OBVIOUS
<1>1. TypeOK /\ p \in Lease
  BY Parts DEF LeaseInv
<1>2. /\ Live' = Live \ {l}
      /\ \A x \in Live' : leases'[x] = leases[x]
      /\ Registered' = Registered
  BY <1>1, ReleaseCapacityType
<1>3. \A x \in Registered :
        /\ candidates'[x].generation = candidates[x].generation
        /\ candidates'[x].inFlight =
             IF SameMember(p) /\ x = p.candidate THEN Minus1(candidates[x].inFlight)
                                                 ELSE candidates[x].inFlight
  <2>1. CASE ~SameMember(p)
    BY <2>1 DEF ReleaseCapacity
  <2>2. CASE SameMember(p)
    <3>1. p.candidate \in Registered
      BY <2>2 DEF SameMember
    <3>2. Minus1(candidates[p.candidate].inFlight) \in Nat
      BY <1>1, <3>1, Parts DEF Minus1, Candidate
    <3>3. candidates' = [candidates EXCEPT ![p.candidate] =
            Charged(candidates[p.candidate], Minus1(candidates[p.candidate].inFlight))]
      BY <2>2, Zenon DEF ReleaseCapacity
    <3>4. \A x \in Registered :
            /\ candidates'[x].generation = candidates[x].generation
            /\ candidates'[x].inFlight =
                 IF x = p.candidate THEN Minus1(candidates[p.candidate].inFlight)
                                    ELSE candidates[x].inFlight
      BY <1>1, <3>1, <3>2, <3>3, ChargeOne
    <3>5. QED
      BY <2>2, <3>4
  <2>3. QED
    BY <2>1, <2>2
<1>4. Generations'
  BY <1>2, <1>3 DEF LeaseInv, Generations
<1>5. MemberMarks'
  BY <1>2, <1>3 DEF LeaseInv, MemberMarks, SameMember
<1>6. TrialsCounted'
  <2>1. Trials' = Trials \ {l} /\ Trials \in SUBSET Live /\ (l \in Trials <=> p.recovery)
    BY <1>2 DEF Trials
  <2>2. recoveryInFlight' = IF p.recovery THEN Minus1(recoveryInFlight) ELSE recoveryInFlight
    BY DEF ReleaseCapacity
  <2>3. QED
    BY <1>1, <2>1, <2>2, OneLess DEF LeaseInv, TrialsCounted
<1>7. CapacityCounted'
  <2> SUFFICES ASSUME NEW k \in CapacityKeys
               PROVE  capacityInFlight'[k] = Cardinality(Holders(k)')
    BY DEF CapacityCounted
  <2>1. Holders(k)' = Holders(k) \ {l} /\ Holders(k) \in SUBSET Live /\ (l \in Holders(k) <=> k = p.key)
    BY <1>2 DEF Holders
  <2>2. capacityInFlight'[k] = IF k = p.key THEN Minus1(capacityInFlight[k]) ELSE capacityInFlight[k]
    BY <1>1 DEF ReleaseCapacity, TypeOK
  <2>3. QED
    BY <1>1, <2>1, <2>2, OneLess DEF LeaseInv, CapacityCounted
<1>8. MembersCounted'
  <2> SUFFICES ASSUME NEW x \in Registered
               PROVE  candidates'[x].inFlight = Cardinality(LeasesOf(x)')
    BY <1>2 DEF MembersCounted
  <2>1. /\ LeasesOf(x)' = LeasesOf(x) \ {l} /\ LeasesOf(x) \in SUBSET Live
        /\ l \in LeasesOf(x) <=> SameMember(p) /\ x = p.candidate
    BY <1>2, <1>3 DEF LeasesOf, SameMember
  <2>2. QED
    BY <1>1, <1>3, <2>1, OneLess DEF LeaseInv, MembersCounted
<1>9. GateHeldByTrial'
  <2>1. SUFFICES ASSUME NEW c \in Candidates, NEW r \in Routes
                 PROVE  GateOfTrial(c, r)'
    BY DEF GateHeldByTrial
  <2>2. GateOfTrial(c, r)
    BY DEF LeaseInv, GateHeldByTrial
  <2>3. \A y \in Live' : IsTrialOf(y, c, r)' <=> IsTrialOf(y, c, r)
    BY <1>2 DEF IsTrialOf
  <2>4. CASE c = p.candidate /\ r = p.route
    <3> PICK circuit : circuit = circuits[<<c, r>>]
      OBVIOUS
    <3>1. circuits'[<<c, r>>] = after
      BY <1>1, <2>4 DEF TypeOK
    <3>2. CASE p.recovery /\ circuit.halfOpen = l
      <4>1. after.halfOpen = NoLease /\ after.state # "HalfOpen"
        <5>1. circuit \in Circuit
          BY <1>1, Parts
        <5>2. HandBackGate(circuit, l) = [circuit EXCEPT !.halfOpen = NoLease, !.state = "Open"]
          BY <3>2 DEF HandBackGate
        <5>3. /\ HandBackGate(circuit, l).halfOpen = NoLease
              /\ HandBackGate(circuit, l).state = "Open"
          BY <5>1, <5>2, Zenon DEF Circuit
        <5>4. QED
          BY <2>4, <5>3
      <4>2. \A y \in Live' : ~IsTrialOf(y, c, r)
        BY <1>2, <2>2, <3>2 DEF GateOfTrial
      <4>3. \A y \in Live' : y # NoLease
        BY <1>1, <1>2 DEF TypeOK, NoLease
      <4>4. QED
        BY <2>3, <3>1, <4>1, <4>2, <4>3 DEF GateOfTrial
    <3>3. CASE ~(p.recovery /\ circuit.halfOpen = l)
      <4>1. /\ after.halfOpen = circuit.halfOpen
            /\ after.state = "HalfOpen" => circuit.state = "HalfOpen"
        BY <2>4, <3>3, Zenon DEF HandBackGate
      <4>2. circuit.halfOpen # l
        BY <2>2, <3>3 DEF GateOfTrial, IsTrialOf
      <4>3. QED
        BY <1>2, <2>2, <2>3, <3>1, <4>1, <4>2 DEF GateOfTrial
    <3>4. QED
      BY <3>2, <3>3
  <2>5. CASE ~(c = p.candidate /\ r = p.route)
    <3>1. circuits'[<<c, r>>] = circuits[<<c, r>>]
      BY <1>1, <2>5 DEF TypeOK
    <3>2. circuits[<<c, r>>].halfOpen # l
      BY <2>2, <2>5 DEF GateOfTrial, IsTrialOf
    <3>3. QED
      BY <1>2, <2>2, <2>3, <3>1, <3>2 DEF GateOfTrial
  <2>6. QED
    BY <2>4, <2>5
<1>10. QED
  BY <1>4, <1>5, <1>6, <1>7, <1>8, <1>9 DEF LeaseInv

\* release_unstarted keeps the invariant.
LEMMA ReleaseUnstartedLeases ==
  ASSUME LeaseInv, NEW l \in Live, ReleaseUnstarted(l)
  PROVE  LeaseInv'
<1> DEFINE cr == <<leases[l].candidate, leases[l].route>>
<1>1. TypeOK'
  BY ReleaseUnstartedType DEF LeaseInv
<1>2. ReleaseCapacity(l) /\ UNCHANGED nextGeneration
  BY DEF ReleaseUnstarted
<1>3. circuits' = [circuits EXCEPT ![cr] = HandBackGate(circuits[cr], l)]
  BY Zenon DEF ReleaseUnstarted
<1>4. QED
  BY <1>1, <1>2, <1>3, ReleaseLeases

\* settle and cancel keep the invariant.
LEMMA SettleLeases ==
  ASSUME LeaseInv, NEW l \in Live, NEW outcome \in Outcomes,
         NEW delay \in ProviderDelays \cup {0}, Settle(l, outcome, delay)
  PROVE  LeaseInv'
<1> DEFINE p == leases[l]
           cr == <<p.candidate, p.route>>
           released == HandBackGate(circuits[cr], l)
           provider == IF delay = 0 THEN 0 ELSE now + delay
           after == IF ObservationCurrent(p)
                      THEN UpdateCircuit(released, p, outcome, provider)
                      ELSE released
<1>1. TypeOK /\ TypeOK'
  BY SettleType DEF LeaseInv
<1>2. ReleaseCapacity(l) /\ UNCHANGED nextGeneration
  BY DEF Settle
<1>3. circuits' = [circuits EXCEPT ![cr] = after]
  BY Zenon DEF Settle
<1>4. released \in Circuit
  BY <1>1, Parts, HandBackGateType DEF Lease
<1>5. /\ after.halfOpen = released.halfOpen
      /\ after.state = "HalfOpen" => released.state = "HalfOpen"
  <2> HIDE DEF released, provider
  <2>1. QED
    BY <1>4, UpdateCircuitGate
<1> HIDE DEF after
<1>6. QED
  BY <1>1, <1>2, <1>3, <1>5, ReleaseLeases

-----------------------------------------------------------------------------
(* The theorems *)

\* The empty engine satisfies the invariant.
LEMMA InitLeases ==
  ASSUME Init
  PROVE  LeaseInv
<1>1. TypeOK /\ Live = {} /\ Registered = {}
  BY InitType DEF Init, Live, Registered
<1>2. Trials = {} /\ \A k : Holders(k) = {}
  BY <1>1 DEF Trials, Holders
<1>3. TrialsCounted /\ CapacityCounted /\ MembersCounted
  BY <1>1, <1>2, FS_EmptySet DEF TrialsCounted, CapacityCounted, MembersCounted, Init
<1>4. GateHeldByTrial
  <2>1. ASSUME NEW c \in Candidates, NEW r \in Routes
        PROVE  circuits[<<c, r>>].state = "Closed" /\ circuits[<<c, r>>].halfOpen = NoLease
    BY DEF Init, ClosedCircuit
  <2>2. QED
    BY <1>1, <2>1 DEF GateHeldByTrial, GateOfTrial
<1>5. QED
  BY <1>1, <1>3, <1>4 DEF LeaseInv, Generations, MemberMarks

\* Every step keeps the invariant.
LEMMA NextLeases ==
  ASSUME LeaseInv, [Next]_vars
  PROVE  LeaseInv'
<1>1. TypeOK /\ TypeOK'
  BY NextType DEF LeaseInv
<1>2. CASE Requesting
  <2>1. ASSUME NEW q \in Requests, ObserveExecution(q) PROVE LeaseInv'
    BY <1>1, <2>1, ElsewhereLeases DEF ObserveExecution, recoveryVars
  <2>2. QED
    BY <1>2, <2>1, ReserveLeases DEF Requesting
<1>3. CASE Holding
  BY <1>3, BeginDispatchLeases, ReleaseUnstartedLeases, SettleLeases DEF Holding
<1>4. CASE Registering
  <2>1. ASSUME NEW m \in Modes, SetMode(m) PROVE LeaseInv'
    BY <1>1, <2>1, ElsewhereLeases DEF SetMode, recoveryVars
  <2>2. ASSUME NEW n \in Ceilings, SetMaxInFlight(n) PROVE LeaseInv'
    BY <1>1, <2>2, ElsewhereLeases DEF SetMaxInFlight, recoveryVars
  <2>3. ASSUME NEW p \in Policies, SetRecoveryPolicy(p) PROVE LeaseInv'
    BY <1>1, <2>3, ElsewhereLeases DEF SetRecoveryPolicy
  <2>4. QED
    BY <1>4, <2>1, <2>2, <2>3, UpdateMemberLeases, AddMemberLeases, RemoveLeases,
       SyncCandidateStateLeases, SyncCandidateRouteRateLeases, SetProviderCreditsLeases
    DEF Registering, Upsert
<1>5. CASE Tick
  BY <1>1, <1>5, ElsewhereLeases DEF Tick, recoveryVars
<1>6. CASE UNCHANGED vars
  BY <1>1, <1>6, ElsewhereLeases DEF vars
<1>7. QED
  BY <1>2, <1>3, <1>4, <1>5, <1>6 DEF Next

\* The inductive invariant behind the lease theorems: counters, gates and marks of the
\* live leases agree in every reachable state.
THEOREM LeaseInvariant == Spec => []LeaseInv
<1>1. Init => LeaseInv
  BY InitLeases
<1>2. LeaseInv /\ [Next]_vars => LeaseInv'
  BY NextLeases
<1>3. QED
  BY <1>1, <1>2, PTL DEF Spec

\* The in-flight counters are exactly the live leases, always.
THEOREM LeasesAreCounted == Spec => []LeaseAccounting
<1>1. LeaseInv => LeaseAccounting
  BY DEF LeaseInv, LeaseAccounting
<1>2. QED
  BY <1>1, LeaseInvariant, PTL

\* A half-open route always has exactly one live trial, and a trial its gate.
THEOREM GateIsHeldByTrial == Spec => []GateHeldByTrial
<1>1. LeaseInv => GateHeldByTrial
  BY DEF LeaseInv
<1>2. QED
  BY <1>1, LeaseInvariant, PTL

\* Only giving up lease l takes it away.
LEMMA OnlyOwnersGiveUp ==
  ASSUME TypeOK, [Next]_vars, NEW l \in Live \ Live'
  PROVE  \/ ReleaseUnstarted(l)
         \/ \E outcome \in Outcomes, delay \in ProviderDelays \cup {0} :
              Settle(l, outcome, delay)
<1>1. CASE Requesting
  <2>1. ASSUME NEW q \in Requests, NEW r \in Routes, NEW d \in Definitions,
               NEW eligible \in SUBSET Candidates, Reserve(q, r, d, eligible)
        PROVE  FALSE
    BY <2>1 DEF Reserve, ReserveOn, With, Live
  <2>2. ASSUME NEW q \in Requests, ObserveExecution(q) PROVE FALSE
    BY <2>2 DEF ObserveExecution, Live
  <2>3. QED
    BY <1>1, <2>1, <2>2 DEF Requesting
<1>2. CASE Holding
  <2>1. PICK x \in Live : \/ \E retained \in BOOLEAN : BeginDispatch(x, retained)
                         \/ ReleaseUnstarted(x)
                         \/ \E outcome \in Outcomes, delay \in ProviderDelays \cup {0} :
                              Settle(x, outcome, delay)
    BY <1>2 DEF Holding
  <2>2. ASSUME NEW retained \in BOOLEAN, BeginDispatch(x, retained) PROVE FALSE
    BY <2>2 DEF BeginDispatch, Live
  <2>3. ASSUME ReleaseCapacity(x) PROVE x = l
    BY <2>3, ReleaseCapacityType
  <2>4. QED
    BY <2>1, <2>2, <2>3 DEF ReleaseUnstarted, Settle
<1>3. CASE Registering
  <2>1. DOMAIN leases' = DOMAIN leases
    BY <1>3 DEF Registering, Upsert, UpdateMember, AddMember, Remove, SyncCandidateState,
       SyncCandidateRouteRate, SetProviderCredits, SetMode, SetMaxInFlight,
       SetRecoveryPolicy, Live
  <2>2. QED
    BY <2>1 DEF Live
<1>4. CASE Tick \/ UNCHANGED vars
  BY <1>4 DEF Tick, vars, Live
<1>5. QED
  BY <1>1, <1>2, <1>3, <1>4 DEF Next

\* A lease whose member was removed, and perhaps registered again, returns its
\* capacity and changes no circuit, no member and no recovery credit.
THEOREM ReplacedMemberStaysInert == Spec => ReplacedMemberIsInert
<1>1. LeaseInv /\ [Next]_vars => InertIfReplaced("member")
  <2> SUFFICES ASSUME LeaseInv, [Next]_vars, NEW l \in Live \ Live',
                      leases[l].replaced = "member"
               PROVE  InertRelease(l)
    BY DEF InertIfReplaced
  <2>1. TypeOK /\ leases[l] \in Lease
    BY Parts DEF LeaseInv
  <2>2. ~SameMember(leases[l])
    BY DEF LeaseInv, MemberMarks
  <2> DEFINE cr == <<leases[l].candidate, leases[l].route>>
  <2>3. HandBackGate(circuits[cr], l) = circuits[cr]
    <3>1. GateOfTrial(leases[l].candidate, leases[l].route)
      BY <2>1 DEF LeaseInv, GateHeldByTrial, Lease
    <3>2. circuits[cr].halfOpen # l
      BY <3>1 DEF GateOfTrial, IsTrialOf
    <3>3. QED
      BY <3>2 DEF HandBackGate
  <2>4. ReleaseCapacity(l) => candidates' = candidates
    BY <2>2 DEF ReleaseCapacity
  <2>5. [circuits EXCEPT ![cr] = circuits[cr]] = circuits
    BY <2>1 DEF TypeOK
  <2>6. CASE ReleaseUnstarted(l)
    BY <2>3, <2>4, <2>5, <2>6 DEF ReleaseUnstarted, InertRelease
  <2>7. CASE \E outcome \in Outcomes, delay \in ProviderDelays \cup {0} :
               Settle(l, outcome, delay)
    <3>1. PICK outcome \in Outcomes, delay \in ProviderDelays \cup {0} :
                 Settle(l, outcome, delay)
      BY <2>7
    <3>2. ~ObservationCurrent(leases[l]) /\ ~EarnsCredit(leases[l], outcome)
      BY <2>2 DEF ObservationCurrent, EarnsCredit
    <3>3. circuits' = [circuits EXCEPT ![cr] = circuits[cr]]
      BY <2>3, <3>1, <3>2 DEF Settle
    <3>4. ReleaseCapacity(l) /\ UNCHANGED <<recoveryCredits, successesSinceRecovery>>
      BY <3>1, <3>2 DEF Settle
    <3>5. QED
      BY <2>4, <2>5, <3>3, <3>4 DEF InertRelease
  <2>8. QED
    BY <2>1, <2>6, <2>7, OnlyOwnersGiveUp
<1>2. QED
  BY <1>1, LeaseInvariant, PTL DEF Spec, ReplacedMemberIsInert

-----------------------------------------------------------------------------
(***************************************************************************)
(* What RotationEngine admits fits the limits: the cached limit of every   *)
(* physical resource is the current one, and the counters are exact        *)
(* (LeasesAreCounted), so a reservation that passes the checks on the      *)
(* counters keeps the real numbers of leases within the limits.            *)
(***************************************************************************)

-----------------------------------------------------------------------------
(* The cached capacity limits *)

\* The limits a key shares depend on nothing but its members' keys and limits.
LEMMA SameSharing ==
  ASSUME NEW f, NEW g, NEW k,
         {c \in DOMAIN f : f[c].key = k} = {c \in DOMAIN g : g[c].key = k},
         \A c \in DOMAIN f : f[c].key = k =>
           /\ f[c].capacityLimit = g[c].capacityLimit
           /\ f[c].maxConcurrency = g[c].maxConcurrency
  PROVE  LimitOf(f, k) = LimitOf(g, k)
<1>1. SharingLimits(f, k) = SharingLimits(g, k)
  BY DEF SharingLimits
<1>2. QED
  BY <1>1 DEF LimitOf

\* A member's limit is one of those the cached limit is the smallest of.
LEMMA LimitIsBound ==
  ASSUME NEW S, NEW f \in [S -> Candidate], NEW c \in S
  PROVE  /\ f[c].capacityLimit > 0 =>
              LimitOf(f, f[c].key) > 0 /\ LimitOf(f, f[c].key) <= f[c].capacityLimit
         /\ f[c].maxConcurrency > 0 =>
              LimitOf(f, f[c].key) > 0 /\ LimitOf(f, f[c].key) <= f[c].maxConcurrency
<1> PICK limits : limits = SharingLimits(f, f[c].key)
  OBVIOUS
<1>1. limits \in SUBSET (Nat \ {0})
  BY DEF SharingLimits, Candidate
<1>2. ASSUME NEW n \in limits
      PROVE  LimitOf(f, f[c].key) > 0 /\ LimitOf(f, f[c].key) <= n
  <2>1. limits \in SUBSET Nat /\ limits # {}
    BY <1>1, <1>2
  <2>2. Min(limits) \in limits /\ Min(limits) <= n
    BY <2>1, MinOfNaturals
  <2>3. LimitOf(f, f[c].key) = Min(limits)
    BY <2>1 DEF LimitOf
  <2>4. QED
    BY <1>1, <2>2, <2>3
<1>3. f[c].capacityLimit > 0 => f[c].capacityLimit \in limits
  BY DEF SharingLimits
<1>4. f[c].maxConcurrency > 0 => f[c].maxConcurrency \in limits
  BY DEF SharingLimits
<1>5. QED
  BY <1>2, <1>3, <1>4

LimitsKept ==
  /\ Registered' = Registered
  /\ \A c \in Registered : /\ candidates'[c].key = candidates[c].key
                           /\ candidates'[c].capacityLimit = candidates[c].capacityLimit
                           /\ candidates'[c].maxConcurrency = candidates[c].maxConcurrency

\* A step that keeps every member's key and limits keeps the cache fresh.
LEMMA FreshKept ==
  ASSUME CapacityLimitFresh, LimitsKept, UNCHANGED capacityLimit
  PROVE  CapacityLimitFresh'
<1>1. ASSUME NEW k \in CapacityKeys PROVE LimitOf(candidates', k) = LimitOf(candidates, k)
  BY SameSharing DEF LimitsKept, Registered
<1>2. QED
  BY <1>1 DEF CapacityLimitFresh

\* Recomputing the keys an edit touches is enough.
LEMMA FreshRecomputed ==
  ASSUME CapacityLimitFresh, NEW keys, capacityLimit' = Recomputed(candidates', keys),
         \A k \in CapacityKeys \ keys : LimitOf(candidates', k) = LimitOf(candidates, k)
  PROVE  CapacityLimitFresh'
  BY DEF CapacityLimitFresh, Recomputed

\* A reservation keeps the cache fresh.
LEMMA ReserveLimits ==
  ASSUME TypeOK, CapacityLimitFresh, NEW q \in Requests, NEW r \in Routes,
         NEW d \in Definitions, NEW eligible \in SUBSET Candidates,
         Reserve(q, r, d, eligible)
  PROVE  CapacityLimitFresh'
<1>1. PICK c \in SelectionGroup(r, d, eligible) : ReserveOn(c, q, r, d, eligible)
  BY DEF Reserve
<1>2. c \in Registered /\ candidates[c].inFlight + 1 \in Nat
  <2>1. c \in Registered
    BY <1>1, SelectedIsReady DEF Ready
  <2>2. QED
    BY <2>1, Parts DEF Candidate
<1>3. candidates' = [candidates EXCEPT ![c] = Charged(candidates[c], candidates[c].inFlight + 1)]
  BY <1>1, Zenon DEF ReserveOn
<1>4. LimitsKept
  BY <1>2, <1>3, ChargeOne DEF LimitsKept
<1>5. QED
  BY <1>1, <1>4, FreshKept DEF ReserveOn

\* A release keeps the cache fresh.
LEMMA ReleaseLimits ==
  ASSUME TypeOK, CapacityLimitFresh, NEW l \in Live, ReleaseCapacity(l),
         UNCHANGED capacityLimit
  PROVE  CapacityLimitFresh'
<1> DEFINE c == leases[l].candidate
<1>1. CASE ~SameMember(leases[l])
  BY <1>1, FreshKept DEF ReleaseCapacity, LimitsKept, Registered
<1>2. CASE SameMember(leases[l])
  <2>1. c \in Registered /\ Minus1(candidates[c].inFlight) \in Nat
    BY <1>2, Parts DEF SameMember, Minus1, Candidate
  <2>2. candidates' = [candidates EXCEPT ![c] = Charged(candidates[c], Minus1(candidates[c].inFlight))]
    BY <1>2, Zenon DEF ReleaseCapacity
  <2>3. LimitsKept
    BY <2>1, <2>2, ChargeOne DEF LimitsKept
  <2>4. QED
    BY <2>3, FreshKept
<1>3. QED
  BY <1>1, <1>2

\* An observation keeps the cache fresh.
LEMMA ObservationLimits ==
  ASSUME TypeOK, CapacityLimitFresh, NEW c \in Registered, NEW m,
         candidates' = [candidates EXCEPT ![c] = m], m.key = candidates[c].key,
         m.capacityLimit = candidates[c].capacityLimit,
         m.maxConcurrency = candidates[c].maxConcurrency, UNCHANGED capacityLimit
  PROVE  CapacityLimitFresh'
<1>1. LimitsKept
  BY DEF LimitsKept, Registered
<1>2. QED
  BY <1>1, FreshKept

\* An upsert of a registered member recomputes the keys it leaves and enters.
LEMMA UpdateMemberLimits ==
  ASSUME TypeOK, CapacityLimitFresh, NEW c \in Candidates, NEW s \in Settings,
         UpdateMember(c, s)
  PROVE  CapacityLimitFresh'
<1> DEFINE old == candidates[c]
           members == [candidates EXCEPT ![c] = Reconfigured(old, s)]
<1>1. c \in Registered /\ old \in Candidate
  BY Parts DEF UpdateMember
<1>2. candidates' = members /\ capacityLimit' = Recomputed(candidates', AffectedKeys(old, s))
  BY Zenon DEF UpdateMember
<1>3. Reconfigured(old, s).key = s.key
  BY <1>1, ReconfiguredType
<1>4. DOMAIN candidates' = DOMAIN candidates
  BY <1>2
<1>5. \A x \in DOMAIN candidates :
        candidates'[x] = IF x = c THEN Reconfigured(old, s) ELSE candidates[x]
  BY <1>2
<1> HIDE DEF members
<1>6. ASSUME NEW k \in CapacityKeys \ AffectedKeys(old, s)
      PROVE  LimitOf(candidates', k) = LimitOf(candidates, k)
  <2>1. k # old.key /\ k # s.key
    BY DEF AffectedKeys
  <2>2. {x \in DOMAIN candidates' : candidates'[x].key = k}
          = {x \in DOMAIN candidates : candidates[x].key = k}
    BY <1>3, <1>4, <1>5, <2>1
  <2>3. \A x \in DOMAIN candidates' : candidates'[x].key = k =>
           /\ candidates'[x].capacityLimit = candidates[x].capacityLimit
           /\ candidates'[x].maxConcurrency = candidates[x].maxConcurrency
    BY <1>3, <1>4, <1>5, <2>1
  <2>4. QED
    BY <2>2, <2>3, SameSharing
<1>7. QED
  BY <1>2, <1>6, FreshRecomputed

\* A member that registers has its key recomputed.
LEMMA AddMemberLimits ==
  ASSUME TypeOK, CapacityLimitFresh, NEW c \in Candidates, NEW s \in Settings,
         AddMember(c, s)
  PROVE  CapacityLimitFresh'
<1> DEFINE new == NewMember(s, nextGeneration + 1)
<1>1. c \notin Registered /\ candidates' = With(candidates, c, new)
  BY Zenon DEF AddMember
<1>2. capacityLimit' = Recomputed(candidates', {s.key})
  BY Zenon DEF AddMember
<1>3. new.key = s.key
  BY Zenon DEF NewMember
<1> HIDE DEF new
<1>4. /\ DOMAIN candidates' = DOMAIN candidates \cup {c} /\ c \notin DOMAIN candidates
      /\ candidates'[c] = new
      /\ \A x \in DOMAIN candidates : candidates'[x] = candidates[x]
  BY <1>1 DEF With, Registered
<1>5. ASSUME NEW k \in CapacityKeys \ {s.key}
      PROVE  LimitOf(candidates', k) = LimitOf(candidates, k)
  <2>1. {x \in DOMAIN candidates' : candidates'[x].key = k}
          = {x \in DOMAIN candidates : candidates[x].key = k}
    BY <1>3, <1>4
  <2>2. \A x \in DOMAIN candidates' : candidates'[x].key = k =>
           /\ candidates'[x].capacityLimit = candidates[x].capacityLimit
           /\ candidates'[x].maxConcurrency = candidates[x].maxConcurrency
    BY <1>3, <1>4
  <2>3. QED
    BY <2>1, <2>2, SameSharing
<1>6. QED
  BY <1>2, <1>5, FreshRecomputed

\* A member that is removed has its key recomputed.
LEMMA RemoveLimits ==
  ASSUME TypeOK, CapacityLimitFresh, NEW c \in Candidates, Remove(c)
  PROVE  CapacityLimitFresh'
<1>1. candidates' = Without(candidates, c)
  BY DEF Remove
<1>2. capacityLimit' = Recomputed(candidates', {candidates[c].key})
  BY Zenon DEF Remove
<1>3. /\ DOMAIN candidates' = DOMAIN candidates \ {c}
      /\ \A x \in DOMAIN candidates \ {c} : candidates'[x] = candidates[x]
  BY <1>1 DEF Without
<1>4. ASSUME NEW k \in CapacityKeys \ {candidates[c].key}
      PROVE  LimitOf(candidates', k) = LimitOf(candidates, k)
  <2>1. {x \in DOMAIN candidates' : candidates'[x].key = k}
          = {x \in DOMAIN candidates : candidates[x].key = k}
    BY <1>3
  <2>2. \A x \in DOMAIN candidates' : candidates'[x].key = k =>
           /\ candidates'[x].capacityLimit = candidates[x].capacityLimit
           /\ candidates'[x].maxConcurrency = candidates[x].maxConcurrency
    BY <1>3
  <2>3. QED
    BY <2>1, <2>2, SameSharing
<1>5. QED
  BY <1>2, <1>4, FreshRecomputed

\* Every step keeps the cache fresh.
LEMMA NextLimits ==
  ASSUME TypeOK, CapacityLimitFresh, [Next]_vars
  PROVE  CapacityLimitFresh'
<1>1. ASSUME UNCHANGED <<candidates, capacityLimit>> PROVE CapacityLimitFresh'
  BY <1>1, FreshKept DEF LimitsKept, Registered
<1>2. CASE Requesting
  <2>1. ASSUME NEW q \in Requests, ObserveExecution(q) PROVE CapacityLimitFresh'
    BY <1>1, <2>1 DEF ObserveExecution
  <2>2. QED
    BY <1>2, <2>1, ReserveLimits DEF Requesting
<1>3. CASE Holding
  <2>1. ASSUME NEW l \in Live, NEW retained \in BOOLEAN, BeginDispatch(l, retained)
        PROVE  CapacityLimitFresh'
    BY <1>1, <2>1 DEF BeginDispatch
  <2>2. ASSUME NEW l \in Live, ReleaseUnstarted(l) PROVE CapacityLimitFresh'
    BY <2>2, ReleaseLimits DEF ReleaseUnstarted
  <2>3. ASSUME NEW l \in Live, NEW outcome \in Outcomes,
               NEW delay \in ProviderDelays \cup {0}, Settle(l, outcome, delay)
        PROVE  CapacityLimitFresh'
    BY <2>3, ReleaseLimits DEF Settle
  <2>4. QED
    BY <1>3, <2>1, <2>2, <2>3 DEF Holding
<1>4. CASE Registering
  <2>1. ASSUME NEW c \in Candidates, NEW o \in Observations, SyncCandidateState(c, o)
        PROVE  CapacityLimitFresh'
    <3> PICK m : m = Observed(candidates[c], o)
      OBVIOUS
    <3>1. c \in Registered /\ UNCHANGED capacityLimit /\ candidates' = [candidates EXCEPT ![c] = m]
      BY <2>1 DEF SyncCandidateState
    <3>2. candidates[c] \in Candidate
      BY <3>1, Parts
    <3>3. /\ m.key = candidates[c].key /\ m.capacityLimit = candidates[c].capacityLimit
          /\ m.maxConcurrency = candidates[c].maxConcurrency
      BY <3>2, Zenon DEF Observed, Candidate
    <3>4. QED
      BY <3>1, <3>3, ObservationLimits
  <2>2. ASSUME NEW c \in Candidates, NEW r \in Routes, NEW rate \in RouteRates,
               SyncCandidateRouteRate(c, r, rate)
        PROVE  CapacityLimitFresh'
    <3> PICK m : m = [candidates[c] EXCEPT !.routeRates =
                         [candidates[c].routeRates EXCEPT ![r] = rate]]
      OBVIOUS
    <3>1. c \in Registered /\ UNCHANGED capacityLimit /\ candidates' = [candidates EXCEPT ![c] = m]
      BY <2>2, Zenon DEF SyncCandidateRouteRate
    <3>2. candidates[c] \in Candidate
      BY <3>1, Parts
    <3>3. /\ m.key = candidates[c].key /\ m.capacityLimit = candidates[c].capacityLimit
          /\ m.maxConcurrency = candidates[c].maxConcurrency
      BY <3>2, Zenon DEF Candidate
    <3>4. QED
      BY <3>1, <3>3, ObservationLimits
  <2>3. ASSUME NEW c \in Candidates, NEW fresh \in BOOLEAN, SetProviderCredits(c, fresh)
        PROVE  CapacityLimitFresh'
    <3> PICK m : m = [candidates[c] EXCEPT !.creditsFresh = fresh]
      OBVIOUS
    <3>1. c \in Registered /\ UNCHANGED capacityLimit /\ candidates' = [candidates EXCEPT ![c] = m]
      BY <2>3, Zenon DEF SetProviderCredits
    <3>2. candidates[c] \in Candidate
      BY <3>1, Parts
    <3>3. /\ m.key = candidates[c].key /\ m.capacityLimit = candidates[c].capacityLimit
          /\ m.maxConcurrency = candidates[c].maxConcurrency
      BY <3>2, Zenon DEF Candidate
    <3>4. QED
      BY <3>1, <3>3, ObservationLimits
  <2>4. ASSUME \/ \E m \in Modes : SetMode(m)
               \/ \E n \in Ceilings : SetMaxInFlight(n)
               \/ \E p \in Policies : SetRecoveryPolicy(p)
        PROVE  CapacityLimitFresh'
    BY <1>1, <2>4 DEF SetMode, SetMaxInFlight, SetRecoveryPolicy
  <2>5. QED
    BY <1>4, <2>1, <2>2, <2>3, <2>4, UpdateMemberLimits, AddMemberLimits, RemoveLimits
    DEF Registering, Upsert
<1>5. CASE Tick \/ UNCHANGED vars
  BY <1>1, <1>5 DEF Tick, vars
<1>6. QED
  BY <1>2, <1>3, <1>4, <1>5 DEF Next

\* Without members every limit is absent.
LEMMA InitLimits ==
  ASSUME Init
  PROVE  CapacityLimitFresh
<1>1. ASSUME NEW k \in CapacityKeys PROVE LimitOf(candidates, k) = 0
  <2>1. DOMAIN candidates = {}
    BY DEF Init
  <2>2. SharingLimits(candidates, k) = {}
    BY <2>1 DEF SharingLimits
  <2>3. QED
    BY <2>2 DEF LimitOf
<1>2. QED
  BY <1>1 DEF Init, CapacityLimitFresh

\* The cached limit of a physical resource is never stale.
THEOREM CapacityLimitIsFresh == Spec => []CapacityLimitFresh
<1>1. Init => CapacityLimitFresh
  BY InitLimits
<1>2. TypeOK /\ CapacityLimitFresh /\ [Next]_vars => CapacityLimitFresh'
  BY NextLimits
<1>3. QED
  BY <1>1, <1>2, TypeCorrect, PTL DEF Spec

-----------------------------------------------------------------------------
(* Admission *)

\* Only a reservation brings a lease, and it brings one.
LEMMA OnlyReservationsAdmit ==
  ASSUME TypeOK, [Next]_vars, NEW l \in Live' \ Live
  PROVE  \E q \in Requests, r \in Routes, d \in Definitions,
            eligible \in SUBSET Candidates : Reserve(q, r, d, eligible)
<1>1. ASSUME Live' \subseteq Live PROVE FALSE
  BY <1>1
<1>2. CASE Requesting
  <2>1. ASSUME NEW q \in Requests, ObserveExecution(q) PROVE FALSE
    BY <1>1, <2>1 DEF ObserveExecution, Live
  <2>2. QED
    BY <1>2, <2>1 DEF Requesting
<1>3. CASE Holding
  <2>1. ASSUME NEW x \in Live, NEW retained \in BOOLEAN, BeginDispatch(x, retained)
        PROVE  FALSE
    BY <1>1, <2>1 DEF BeginDispatch, Live
  <2>2. ASSUME NEW x \in Live, ReleaseCapacity(x) PROVE FALSE
    BY <1>1, <2>2, ReleaseCapacityType
  <2>3. QED
    BY <1>3, <2>1, <2>2 DEF Holding, ReleaseUnstarted, Settle
<1>4. CASE Registering
  <2>1. DOMAIN leases' = DOMAIN leases
    BY <1>4 DEF Registering, Upsert, UpdateMember, AddMember, Remove, SyncCandidateState,
       SyncCandidateRouteRate, SetProviderCredits, SetMode, SetMaxInFlight,
       SetRecoveryPolicy, Live
  <2>2. QED
    BY <1>1, <2>1 DEF Live
<1>5. CASE Tick \/ UNCHANGED vars
  BY <1>1, <1>5 DEF Tick, vars, Live
<1>6. QED
  BY <1>2, <1>3, <1>4, <1>5 DEF Next

\* What a reservation of candidate c does to the leases.
LEMMA Admitted ==
  ASSUME TypeOK, NEW q \in Requests, NEW r \in Routes, NEW d \in Definitions,
         NEW eligible \in SUBSET Candidates, NEW c \in SelectionGroup(r, d, eligible),
         ReserveOn(c, q, r, d, eligible), NEW l \in Live' \ Live
  PROVE  /\ c \in Registered /\ Ready(c, r, d)
         /\ Live' = Live \cup {l}
         /\ \A x \in Live : leases'[x] = leases[x]
         /\ leases'[l].key = candidates[c].key
         /\ leases'[l].recovery <=> NeedsRecovery(c, r)
<1>1. c \in Registered /\ Ready(c, r, d)
  BY SelectedIsReady DEF Ready
<1>2. leases' = With(leases, nextLease + 1, Admission(c, q, r, d, eligible))
  BY DEF ReserveOn
<1>3. Live' = Live \cup {nextLease + 1} /\ l = nextLease + 1
  BY <1>2 DEF With, Live
<1>4. /\ \A x \in Live : leases'[x] = leases[x]
      /\ leases'[l] = Admission(c, q, r, d, eligible)
  BY <1>2, <1>3 DEF With, Live
<1>5. /\ Admission(c, q, r, d, eligible).key = candidates[c].key
      /\ Admission(c, q, r, d, eligible).recovery = NeedsRecovery(c, r)
  BY Zenon DEF Admission
<1>6. QED
  BY <1>1, <1>3, <1>4, <1>5, Zenon

\* Whatever is admitted fits the runtime ceiling and the limits of every member
\* of its physical resource.
THEOREM AdmissionStaysWithinLimits == Spec => AdmissionWithinLimits
<1>1. LeaseInv /\ CapacityLimitFresh /\ [Next]_vars => \A l \in Live' \ Live : AdmittedFits(l)
  <2> SUFFICES ASSUME LeaseInv, CapacityLimitFresh, [Next]_vars, NEW l \in Live' \ Live
               PROVE  AdmittedFits(l)
    OBVIOUS
  <2>1. TypeOK
    BY DEF LeaseInv
  <2> PICK q \in Requests, r \in Routes, d \in Definitions, eligible \in SUBSET Candidates :
             Reserve(q, r, d, eligible)
    BY <2>1, OnlyReservationsAdmit
  <2>2. PICK c \in SelectionGroup(r, d, eligible) : ReserveOn(c, q, r, d, eligible)
    BY DEF Reserve
  <2>3. /\ c \in Registered /\ Ready(c, r, d) /\ Live' = Live \cup {l}
        /\ \A x \in Live : leases'[x] = leases[x]
        /\ leases'[l].key = candidates[c].key
    BY <2>1, <2>2, Admitted
  <2> PICK k : k = candidates[c].key
    OBVIOUS
  <2>4. k \in CapacityKeys /\ CapacityFree(candidates[c])
    BY <2>1, <2>3, Parts DEF Ready, Candidate
  <2>5. {x \in Live' : leases'[x].key = k} = Holders(k) \cup {l} /\ Holders(k) \in SUBSET Live
    BY <2>3 DEF Holders
  <2>6. Cardinality({x \in Live' : leases'[x].key = k}) = capacityInFlight[k] + 1
    BY <2>1, <2>4, <2>5, OneMore DEF LeaseInv, CapacityCounted
  <2>7. Cardinality(Live') <= maxInFlight
    <3>1. Cardinality(Live') = Cardinality(Live) + 1 /\ Cardinality(Live) \in Nat
      BY <2>1, <2>3, OneMore, LiveFinite
    <3>2. Cardinality(Live) < maxInFlight /\ maxInFlight \in Nat
      BY <2>1, <2>4, ConstantsAssumption DEF CapacityFree, TypeOK
    <3>3. QED
      BY <3>1, <3>2
  <2>8. capacityLimit[k] > 0 => capacityInFlight[k] + 1 <= capacityLimit[k]
    BY <2>1, <2>4 DEF CapacityFree, TypeOK
  <2>9. ASSUME NEW x \in Registered, candidates[x].key = k
        PROVE  /\ candidates[x].capacityLimit > 0 =>
                    capacityInFlight[k] + 1 <= candidates[x].capacityLimit
               /\ candidates[x].maxConcurrency > 0 =>
                    capacityInFlight[k] + 1 <= candidates[x].maxConcurrency
    <3>1. capacityLimit[k] = LimitOf(candidates, k)
      BY <2>4 DEF CapacityLimitFresh
    <3>2. /\ candidates[x].capacityLimit > 0 =>
               capacityLimit[k] > 0 /\ capacityLimit[k] <= candidates[x].capacityLimit
          /\ candidates[x].maxConcurrency > 0 =>
               capacityLimit[k] > 0 /\ capacityLimit[k] <= candidates[x].maxConcurrency
      BY <2>1, <2>9, <3>1, LimitIsBound DEF TypeOK
    <3>3. /\ capacityLimit[k] \in Nat /\ capacityInFlight[k] \in Nat
          /\ candidates[x].capacityLimit \in Nat /\ candidates[x].maxConcurrency \in Nat
      BY <2>1, <2>4, Parts DEF TypeOK, Candidate
    <3>4. QED
      BY <2>8, <3>2, <3>3
  <2>10. QED
    BY <2>3, <2>6, <2>7, <2>9 DEF AdmittedFits
<1>2. QED
  BY <1>1, LeaseInvariant, CapacityLimitIsFresh, PTL DEF Spec, AdmissionWithinLimits

\* A recovery trial is admitted only on a free permit.
THEOREM TrialsStayWithinPermits == Spec => TrialsWithinPermits
<1>1. LeaseInv /\ [Next]_vars => \A l \in Live' \ Live : TrialPermitted(l)
  <2> SUFFICES ASSUME LeaseInv, [Next]_vars, NEW l \in Live' \ Live, leases'[l].recovery
               PROVE  Cardinality({x \in Live' : leases'[x].recovery}) <= policy.maxInFlight
    BY DEF TrialPermitted
  <2>1. TypeOK
    BY DEF LeaseInv
  <2> PICK q \in Requests, r \in Routes, d \in Definitions, eligible \in SUBSET Candidates :
             Reserve(q, r, d, eligible)
    BY <2>1, OnlyReservationsAdmit
  <2>2. PICK c \in SelectionGroup(r, d, eligible) : ReserveOn(c, q, r, d, eligible)
    BY DEF Reserve
  <2>3. /\ Live' = Live \cup {l} /\ \A x \in Live : leases'[x] = leases[x]
        /\ NeedsRecovery(c, r)
    BY <2>1, <2>2, Admitted
  <2>4. c \in SelectionCandidates(r, d, eligible)
    BY <2>2 DEF SelectionGroup
  <2>5. recoveryInFlight < policy.maxInFlight
    BY <2>3, <2>4 DEF SelectionCandidates, RecoveryAllowed
  <2>6. {x \in Live' : leases'[x].recovery} = Trials \cup {l} /\ Trials \in SUBSET Live
    BY <2>3 DEF Trials
  <2>7. Cardinality({x \in Live' : leases'[x].recovery}) = recoveryInFlight + 1
    BY <2>1, <2>6, OneMore DEF LeaseInv, TrialsCounted
  <2>8. policy.maxInFlight \in Nat /\ recoveryInFlight \in Nat
    BY <2>1, ConstantsAssumption DEF TypeOK, Policy
  <2>9. QED
    BY <2>5, <2>7, <2>8
<1>2. QED
  BY <1>1, LeaseInvariant, PTL DEF Spec, TrialsWithinPermits

-----------------------------------------------------------------------------
(***************************************************************************)
(* The circuits of RotationEngine: what has no registered route has no     *)
(* circuit, the streak of a circuit counts requests, and, as long as edits *)
(* keep the routes, incidents end by their trial and dispatches pass the   *)
(* gate.  All rest on one fact, what a step can make of one circuit.       *)
(***************************************************************************)

\* The route is one of a registered candidate.
HasRoute(members, c, r) == c \in DOMAIN members /\ r \in DOMAIN members[c].routes

CircuitOf(p) == <<p.candidate, p.route>>

-----------------------------------------------------------------------------
(* What becomes of a circuit *)

Settles(before, after, l) ==
  \E outcome \in Outcomes, provider \in Nat :
    after = UpdateCircuit(HandBackGate(before, l), leases[l], outcome, provider)

\* It stays; it is dropped, and no lease admitted on it stands; a trial takes
\* the gate; a lease that ends gives it back, and has its outcome counted when
\* its member and route stand.
CircuitMoves(c, r) ==
  LET before  == circuits[<<c, r>>]
      after   == circuits'[<<c, r>>]
      On(set) == {l \in set : CircuitOf(leases[l]) = <<c, r>>}
  IN  \/ after = before
      \/ after = ClosedCircuit /\ \A l \in On(Live \cap Live') : leases'[l].replaced # "no"
      \/ /\ HasRoute(candidates, c, r) /\ NeedsRecovery(c, r)
         /\ \E l \in Nat : after = TakeGate(before, l)
      \/ \E l \in On(Live \ Live') : after = HandBackGate(before, l)
      \/ \E l \in On(Live \ Live') : ObservationCurrent(leases[l]) /\ Settles(before, after, l)

\* One circuit changes, the others stay.
LEMMA OneCircuit ==
  ASSUME TypeOK, NEW x, NEW value, circuits' = [circuits EXCEPT ![x] = value],
         NEW c \in Candidates, NEW r \in Routes
  PROVE  circuits'[<<c, r>>] = IF <<c, r>> = x THEN value ELSE circuits[<<c, r>>]
  BY DEF TypeOK

\* A reservation takes the gate of a registered route.
LEMMA ReserveMoves ==
  ASSUME TypeOK, NEW q \in Requests, NEW s \in Routes, NEW d \in Definitions,
         NEW eligible \in SUBSET Candidates, Reserve(q, s, d, eligible),
         NEW c \in Candidates, NEW r \in Routes
  PROVE  CircuitMoves(c, r)
<1>1. PICK x \in SelectionGroup(s, d, eligible) : ReserveOn(x, q, s, d, eligible)
  BY DEF Reserve
<1>2. HasRoute(candidates, x, s)
  BY SelectedIsReady DEF Ready, HasRoute, Registered
<1>3. nextLease + 1 \in Nat
  BY DEF TypeOK
<1>4. CASE NeedsRecovery(x, s)
  <2>1. circuits' = [circuits EXCEPT ![<<x, s>>] = TakeGate(circuits[<<x, s>>], nextLease + 1)]
    BY <1>1, <1>4 DEF ReserveOn
  <2>2. CASE <<c, r>> = <<x, s>>
    <3>1. circuits'[<<c, r>>] = TakeGate(circuits[<<c, r>>], nextLease + 1)
      BY <2>1, <2>2, OneCircuit
    <3>2. HasRoute(candidates, c, r) /\ NeedsRecovery(c, r)
      BY <1>2, <1>4, <2>2
    <3> QED BY <1>3, <3>1, <3>2 DEF CircuitMoves
  <2>3. CASE <<c, r>> # <<x, s>>
    BY <2>1, <2>3, OneCircuit DEF CircuitMoves
  <2> QED BY <2>2, <2>3
<1>5. CASE ~NeedsRecovery(x, s)
  BY <1>1, <1>5 DEF ReserveOn, CircuitMoves
<1> QED BY <1>4, <1>5

\* A lease that gives its capacity back is gone.
LEMMA Gone ==
  ASSUME NEW l \in Live, ReleaseCapacity(l)
  PROVE  /\ Live' = Live \ {l}
         /\ \A k \in Live' : leases'[k] = leases[k]
  BY DEF ReleaseCapacity, Without, Live

\* What a settlement counts, it counts on the route of its lease.
LEMMA SettleMoves ==
  ASSUME TypeOK, NEW l \in Live, NEW outcome \in Outcomes,
         NEW delay \in ProviderDelays \cup {0}, Settle(l, outcome, delay),
         NEW c \in Candidates, NEW r \in Routes
  PROVE  CircuitMoves(c, r)
<1> DEFINE p        == leases[l]
           cr       == <<p.candidate, p.route>>
           released == HandBackGate(circuits[cr], l)
           provider == IF delay = 0 THEN 0 ELSE now + delay
           settled  == UpdateCircuit(released, p, outcome, provider)
<1>1. circuits' = [circuits EXCEPT ![cr] = IF ObservationCurrent(p) THEN settled ELSE released]
  BY DEF Settle
<1>2. provider \in Nat
  BY ConstantsAssumption DEF TypeOK, Time
<1>3. l \in Live \ Live'
  BY Gone DEF Settle
<1>4. CASE <<c, r>> # cr
  BY <1>1, <1>4, OneCircuit DEF CircuitMoves
<1>5. CASE <<c, r>> = cr /\ ~ObservationCurrent(p)
  <2>1. circuits' = [circuits EXCEPT ![cr] = released]
    BY <1>1, <1>5
  <2>2. <<c, r>> \in DOMAIN circuits
    BY DEF TypeOK
  <2>3. circuits'[<<c, r>>] = released
    <3> HIDE DEF released, cr
    <3> QED BY <1>5, <2>1, <2>2, Zenon
  <2> QED BY <1>3, <1>5, <2>3 DEF CircuitMoves, CircuitOf
<1>6. CASE <<c, r>> = cr /\ ObservationCurrent(p)
  <2>1. circuits' = [circuits EXCEPT ![cr] = settled]
    BY <1>1, <1>6
  <2>2. circuits'[<<c, r>>] = settled
    <3>1. <<c, r>> \in Candidates \X Routes
      OBVIOUS
    <3>2. <<c, r>> \in DOMAIN circuits
      BY <3>1 DEF TypeOK
    <3> HIDE DEF settled, cr
    <3> QED BY <1>6, <2>1, <3>2, Zenon
  <2>3. circuits'[<<c, r>>] = UpdateCircuit(HandBackGate(circuits[<<c, r>>], l), p, outcome, provider)
    BY <1>6, <2>2
  <2>4. Settles(circuits[<<c, r>>], circuits'[<<c, r>>], l)
    BY <1>2, <2>3 DEF Settles
  <2> QED BY <1>3, <1>6, <2>4 DEF CircuitMoves, CircuitOf
<1> QED BY <1>4, <1>5, <1>6

\* Every step, on every circuit.
LEMMA NextMoves ==
  ASSUME TypeOK, [Next]_vars, NEW c \in Candidates, NEW r \in Routes
  PROVE  CircuitMoves(c, r)
<1>1. ASSUME UNCHANGED circuits PROVE CircuitMoves(c, r)
  BY <1>1 DEF CircuitMoves
<1>2. CASE Requesting
  BY <1>1, <1>2, ReserveMoves DEF Requesting, ObserveExecution
<1>3. CASE Holding
  <2>1. ASSUME NEW l \in Live, ReleaseUnstarted(l) PROVE CircuitMoves(c, r)
    <3> DEFINE cr == <<leases[l].candidate, leases[l].route>>
    <3>1. circuits' = [circuits EXCEPT ![cr] = HandBackGate(circuits[cr], l)] /\ l \in Live \ Live'
      BY <2>1, Gone DEF ReleaseUnstarted
    <3>2. \/ circuits'[<<c, r>>] = circuits[<<c, r>>]
          \/ <<c, r>> = cr /\ circuits'[<<c, r>>] = HandBackGate(circuits[<<c, r>>], l)
      BY <3>1, OneCircuit
    <3> QED BY <3>1, <3>2 DEF CircuitMoves, CircuitOf
  <2>2. ASSUME NEW l \in Live, NEW retained \in BOOLEAN, BeginDispatch(l, retained)
        PROVE  CircuitMoves(c, r)
    BY <1>1, <2>2 DEF BeginDispatch
  <2> QED BY <1>3, <2>1, <2>2, SettleMoves DEF Holding
<1>4. CASE Registering
  <2>1. ASSUME NEW x \in Candidates, NEW s \in Settings, UpdateMember(x, s)
        PROVE  CircuitMoves(c, r)
    <3> PICK changed : changed = ChangedRoutes(candidates[x], s)
      OBVIOUS
    <3>1. CASE c = x /\ r \in changed
      <4>1. circuits'[<<c, r>>] = ClosedCircuit
        BY <2>1, <3>1 DEF UpdateMember
      <4>2. ASSUME NEW l \in Live \cap Live', CircuitOf(leases[l]) = <<c, r>>
            PROVE  leases'[l].replaced # "no"
        <5>1. leases[l].candidate = x /\ leases[l].route \in changed
          BY <3>1, <4>2 DEF CircuitOf
        <5>2. leases'[l] = IF leases[l].replaced = "no" THEN [leases[l] EXCEPT !.replaced = "route"]
                                                        ELSE leases[l]
          BY <2>1, <5>1 DEF UpdateMember
        <5>3. leases[l] \in Lease
          BY Parts
        <5> QED BY <5>2, <5>3, MarkKeepsIdentity
      <4> QED BY <4>1, <4>2 DEF CircuitMoves
    <3>2. CASE ~(c = x /\ r \in changed)
      BY <2>1, <3>2 DEF UpdateMember, CircuitMoves
    <3> QED BY <3>1, <3>2
  <2>2. ASSUME NEW x \in Candidates, Remove(x) PROVE CircuitMoves(c, r)
    <3>1. CASE c = x
      <4>1. circuits'[<<c, r>>] = ClosedCircuit
        BY <2>2, <3>1 DEF Remove
      <4>2. ASSUME NEW l \in Live \cap Live', CircuitOf(leases[l]) = <<c, r>>
            PROVE  leases'[l].replaced # "no"
        <5>1. leases'[l] = [leases[l] EXCEPT !.replaced = "member"]
          BY <2>2, <3>1, <4>2 DEF Remove, CircuitOf
        <5>2. leases[l] \in Lease
          BY Parts
        <5> QED BY <5>1, <5>2, MarkKeepsIdentity
      <4> QED BY <4>1, <4>2 DEF CircuitMoves
    <3>2. CASE c # x
      BY <2>2, <3>2 DEF Remove, CircuitMoves
    <3> QED BY <3>1, <3>2
  <2>3. ASSUME NEW x \in Candidates, NEW s \in Settings, AddMember(x, s) PROVE CircuitMoves(c, r)
    BY <1>1, <2>3 DEF AddMember
  <2>4. ASSUME NEW x \in Candidates,
               \/ \E o \in Observations : SyncCandidateState(x, o)
               \/ \E y \in Routes, rate \in RouteRates : SyncCandidateRouteRate(x, y, rate)
               \/ \E fresh \in BOOLEAN : SetProviderCredits(x, fresh)
        PROVE  CircuitMoves(c, r)
    BY <1>1, <2>4 DEF SyncCandidateState, SyncCandidateRouteRate, SetProviderCredits
  <2>5. ASSUME \/ \E m \in Modes : SetMode(m)
               \/ \E n \in Ceilings : SetMaxInFlight(n)
               \/ \E p \in Policies : SetRecoveryPolicy(p)
        PROVE  CircuitMoves(c, r)
    BY <1>1, <2>5 DEF SetMode, SetMaxInFlight, SetRecoveryPolicy
  <2> QED BY <1>4, <2>1, <2>2, <2>3, <2>4, <2>5 DEF Registering, Upsert
<1>5. CASE Tick \/ UNCHANGED vars
  BY <1>1, <1>5 DEF Tick, vars
<1> QED BY <1>2, <1>3, <1>4, <1>5 DEF Next

-----------------------------------------------------------------------------
(* Routes that go *)

SameRoutes ==
  /\ Registered' = Registered
  /\ \A c \in Registered : candidates'[c].routes = candidates[c].routes

\* Charging, crediting and observing a member keep its routes.
LEMMA RoutesKept ==
  ASSUME TypeOK, NEW x \in Registered, NEW m, m.routes = candidates[x].routes,
         candidates' = [candidates EXCEPT ![x] = m]
  PROVE  SameRoutes
  BY DEF SameRoutes, TypeOK, Registered

\* A capacity that is given back keeps the routes.
LEMMA ReleaseRoutes ==
  ASSUME TypeOK, NEW l \in Live, ReleaseCapacity(l)
  PROVE  SameRoutes
<1> DEFINE p == leases[l]
<1>1. CASE ~SameMember(p)
  BY <1>1 DEF ReleaseCapacity, SameRoutes, Registered
<1>2. CASE SameMember(p)
  <2> PICK m : m = Charged(candidates[p.candidate], Minus1(candidates[p.candidate].inFlight))
    OBVIOUS
  <2>1. p.candidate \in Registered /\ candidates' = [candidates EXCEPT ![p.candidate] = m]
    BY <1>2 DEF ReleaseCapacity, SameMember
  <2>2. m.routes = candidates[p.candidate].routes
    BY <2>1, Parts, Zenon DEF Charged, Candidate
  <2> QED BY <2>1, <2>2, RoutesKept
<1> QED BY <1>1, <1>2

\* Only the registry changes routes.
LEMMA NextRoutes ==
  ASSUME TypeOK, [Next]_vars
  PROVE  \/ SameRoutes
         \/ \E x \in Candidates : Remove(x) \/ \E s \in Settings : Upsert(x, s)
<1>1. ASSUME UNCHANGED candidates PROVE SameRoutes
  BY <1>1 DEF SameRoutes, Registered
<1>2. CASE Requesting
  <2>1. ASSUME NEW q \in Requests, NEW s \in Routes, NEW d \in Definitions,
               NEW eligible \in SUBSET Candidates, Reserve(q, s, d, eligible)
        PROVE  SameRoutes
    <3>1. PICK x \in SelectionGroup(s, d, eligible) : ReserveOn(x, q, s, d, eligible)
      BY <2>1 DEF Reserve
    <3> PICK m : m = Charged(candidates[x], candidates[x].inFlight + 1)
      OBVIOUS
    <3>2. x \in Registered /\ candidates' = [candidates EXCEPT ![x] = m]
      BY <3>1, SelectedIsReady DEF ReserveOn, Ready
    <3>3. m.routes = candidates[x].routes
      BY <3>2, Parts, Zenon DEF Charged, Candidate
    <3> QED BY <3>2, <3>3, RoutesKept
  <2> QED BY <1>1, <1>2, <2>1 DEF Requesting, ObserveExecution
<1>3. CASE Holding
  BY <1>1, <1>3, ReleaseRoutes DEF Holding, BeginDispatch, ReleaseUnstarted, Settle
<1>4. CASE Registering
  <2>1. ASSUME NEW x \in Candidates, NEW o \in Observations, SyncCandidateState(x, o)
        PROVE  SameRoutes
    <3> PICK m : m = Observed(candidates[x], o)
      OBVIOUS
    <3>1. x \in Registered /\ candidates' = [candidates EXCEPT ![x] = m]
      BY <2>1 DEF SyncCandidateState
    <3>2. m.routes = candidates[x].routes
      BY <3>1, Parts, Zenon DEF Observed, Candidate
    <3> QED BY <3>1, <3>2, RoutesKept
  <2>2. ASSUME NEW x \in Candidates, NEW y \in Routes, NEW rate \in RouteRates,
               SyncCandidateRouteRate(x, y, rate)
        PROVE  SameRoutes
    <3> PICK m : m = [candidates[x] EXCEPT !.routeRates =
                         [candidates[x].routeRates EXCEPT ![y] = rate]]
      OBVIOUS
    <3>1. x \in Registered /\ candidates' = [candidates EXCEPT ![x] = m]
      BY <2>2, Zenon DEF SyncCandidateRouteRate
    <3>2. m.routes = candidates[x].routes
      BY <3>1, Parts, Zenon DEF Candidate
    <3> QED BY <3>1, <3>2, RoutesKept
  <2>3. ASSUME NEW x \in Candidates, NEW fresh \in BOOLEAN, SetProviderCredits(x, fresh)
        PROVE  SameRoutes
    <3> PICK m : m = [candidates[x] EXCEPT !.creditsFresh = fresh]
      OBVIOUS
    <3>1. x \in Registered /\ candidates' = [candidates EXCEPT ![x] = m]
      BY <2>3, Zenon DEF SetProviderCredits
    <3>2. m.routes = candidates[x].routes
      BY <3>1, Parts, Zenon DEF Candidate
    <3> QED BY <3>1, <3>2, RoutesKept
  <2>4. ASSUME \/ \E m \in Modes : SetMode(m)
               \/ \E n \in Ceilings : SetMaxInFlight(n)
               \/ \E p \in Policies : SetRecoveryPolicy(p)
        PROVE  SameRoutes
    BY <1>1, <2>4 DEF SetMode, SetMaxInFlight, SetRecoveryPolicy
  <2> QED BY <1>4, <2>1, <2>2, <2>3, <2>4 DEF Registering
<1>5. CASE Tick \/ UNCHANGED vars
  BY <1>1, <1>5 DEF Tick, vars
<1> QED BY <1>2, <1>3, <1>4, <1>5 DEF Next

\* An edit gives a member the routes of its settings.
LEMMA UpdateRoutes ==
  ASSUME TypeOK, NEW x \in Candidates, NEW s \in Settings, UpdateMember(x, s)
  PROVE  /\ x \in Registered /\ Registered' = Registered /\ candidates'[x].routes = s.routes
         /\ \A c \in Registered \ {x} : candidates'[c] = candidates[c]
<1>1. x \in Registered /\ candidates' = [candidates EXCEPT ![x] = Reconfigured(candidates[x], s)]
  BY DEF UpdateMember
<1>2. Reconfigured(candidates[x], s).routes = s.routes
  BY <1>1, Parts, Zenon DEF Reconfigured, Candidate
<1> QED BY <1>1, <1>2 DEF TypeOK, Registered

\* And a new one too.
LEMMA AddRoutes ==
  ASSUME TypeOK, NEW x \in Candidates, NEW s \in Settings, AddMember(x, s)
  PROVE  /\ x \notin Registered /\ Registered' = Registered \cup {x}
         /\ candidates'[x].routes = s.routes
         /\ \A c \in Registered : candidates'[c] = candidates[c]
<1>1. /\ x \notin Registered
      /\ candidates' = With(candidates, x, NewMember(s, nextGeneration + 1))
  BY DEF AddMember
<1>2. NewMember(s, nextGeneration + 1).routes = s.routes
  BY DEF NewMember
<1> HIDE DEF NewMember
<1> QED BY <1>1, <1>2 DEF With, Registered

\* A step that takes a route away leaves no circuit of it.
LEMMA NextForgets ==
  ASSUME TypeOK, [Next]_vars, NEW c \in Candidates, NEW r \in Routes,
         ~HasRoute(candidates', c, r)
  PROVE  ~HasRoute(candidates, c, r) \/ circuits'[<<c, r>>] = ClosedCircuit
<1>1. CASE SameRoutes
  BY <1>1 DEF SameRoutes, HasRoute, Registered
<1>2. ASSUME NEW x \in Candidates, NEW s \in Settings, UpdateMember(x, s)
      PROVE  ~HasRoute(candidates, c, r) \/ circuits'[<<c, r>>] = ClosedCircuit
  <2>1. CASE c # x
    BY <1>2, <2>1, UpdateRoutes DEF HasRoute, Registered
  <2>2. CASE c = x /\ r \in DOMAIN candidates[x].routes
    <3>1. r \notin DOMAIN s.routes
      BY <1>2, <2>2, UpdateRoutes DEF HasRoute, Registered
    <3>2. r \in ChangedRoutes(candidates[x], s)
      BY <2>2, <3>1 DEF ChangedRoutes, RouteOf
    <3> QED BY <1>2, <2>2, <3>2 DEF UpdateMember
  <2> QED BY <2>1, <2>2 DEF HasRoute
<1>3. ASSUME NEW x \in Candidates, NEW s \in Settings, AddMember(x, s)
      PROVE  ~HasRoute(candidates, c, r)
  BY <1>3, AddRoutes DEF HasRoute, Registered
<1>4. ASSUME NEW x \in Candidates, Remove(x)
      PROVE  ~HasRoute(candidates, c, r) \/ circuits'[<<c, r>>] = ClosedCircuit
  BY <1>4 DEF Remove, Without, HasRoute
<1> QED BY <1>1, <1>2, <1>3, <1>4, NextRoutes DEF Upsert

\* A circuit nobody holds has nothing to hand back: lease ids start at one.
LEMMA NothingHandedBack ==
  ASSUME TypeOK, NEW l \in Live
  PROVE  HandBackGate(ClosedCircuit, l) = ClosedCircuit
  BY DEF TypeOK, HandBackGate, ClosedCircuit, NoLease

\* Every step keeps it.
LEMMA NextKeepsForgotten ==
  ASSUME TypeOK, ForgottenCircuits, [Next]_vars
  PROVE  ForgottenCircuits'
<1>1. ASSUME NEW c \in Candidates, NEW r \in Routes, ~HasRoute(candidates', c, r)
      PROVE  circuits'[<<c, r>>] = ClosedCircuit
  <2>1. CASE ~HasRoute(candidates, c, r)
    <3>1. circuits[<<c, r>>] = ClosedCircuit
      BY <2>1 DEF ForgottenCircuits, HasRoute, Registered
    <3>2. ASSUME NEW l \in Live, ObservationCurrent(leases[l]), CircuitOf(leases[l]) = <<c, r>>
          PROVE  FALSE
      BY <2>1, <3>2 DEF ObservationCurrent, SameMember, SameRoute, HasRoute, CircuitOf, Registered
    <3> QED BY <2>1, <3>1, <3>2, NextMoves, NothingHandedBack DEF CircuitMoves
  <2> QED BY <1>1, <2>1, NextForgets
<1> QED BY <1>1 DEF ForgottenCircuits, HasRoute, Registered

\* A removed candidate or route leaves no circuit behind (upsert and remove,
\* registry.rs), so what is registered later under its name has no history.
THEOREM ForgottenCircuitsStayForgotten == Spec => []ForgottenCircuits
<1>1. Init => ForgottenCircuits
  BY DEF Init, ForgottenCircuits
<1>2. TypeOK /\ ForgottenCircuits /\ [Next]_vars => ForgottenCircuits'
  BY NextKeepsForgotten
<1> QED BY <1>1, <1>2, TypeCorrect, PTL DEF Spec

-----------------------------------------------------------------------------
(* Votes *)

\* StreakCountsRequests is not inductive: a streak that equals its votes says
\* nothing of the next one unless the votes are at most MaxCounted.
VotesFit(circuit) ==
  LET votes == Cardinality(circuit.counted)
  IN  /\ IsFiniteSet(circuit.counted)
      /\ votes <= MaxCounted
      /\ circuit.streak = votes \/ (circuit.streak > votes /\ votes = MaxCounted)

VotesCounted == \A c \in Candidates, r \in Routes : VotesFit(circuits[<<c, r>>])

\* A circuit without a streak.
LEMMA NoVotes ==
  ASSUME NEW circuit, circuit.streak = 0, circuit.counted = {}
  PROVE  VotesFit(circuit)
  BY FS_EmptySet, ConstantsAssumption DEF VotesFit

\* Gates do not vote.
LEMMA GatesDoNotVote ==
  ASSUME NEW circuit \in Circuit, VotesFit(circuit), NEW l
  PROVE  VotesFit(TakeGate(circuit, l)) /\ VotesFit(HandBackGate(circuit, l))
<1>1. /\ TakeGate(circuit, l).streak = circuit.streak
      /\ TakeGate(circuit, l).counted = circuit.counted
  BY Zenon DEF TakeGate, Circuit
<1>2. /\ HandBackGate(circuit, l).streak = circuit.streak
      /\ HandBackGate(circuit, l).counted = circuit.counted
  BY DEF HandBackGate, Circuit
<1> QED BY <1>1, <1>2 DEF VotesFit

\* A request that votes for the first time: the oldest vote beyond the bound is
\* forgotten, the streak goes on.
LEMMA Voting ==
  ASSUME NEW circuit \in Circuit, VotesFit(circuit), NEW q \in Requests, q \notin circuit.counted,
         NEW after, after.streak = circuit.streak + 1,
         after.counted = Remember(circuit.counted, q)
  PROVE  VotesFit(after)
<1> DEFINE n   == Cardinality(circuit.counted)
           all == circuit.counted \cup {q}
<1>1. IsFiniteSet(circuit.counted) /\ n \in Nat /\ circuit.streak \in Nat
  BY FS_CardinalityType DEF VotesFit, Circuit
<1>2. IsFiniteSet(all) /\ Cardinality(all) = n + 1
  BY <1>1, FS_AddElement
<1>3. CASE n + 1 > MaxCounted
  <2>1. Min(all) \in all
    BY ConstantsAssumption, MinOfNaturals DEF Circuit
  <2>2. after.counted = all \ {Min(all)}
    BY <1>2, <1>3 DEF Remember
  <2>3. IsFiniteSet(after.counted) /\ Cardinality(after.counted) = n
    <3> PICK oldest : oldest = Min(all)
      OBVIOUS
    <3>1. IsFiniteSet(all \ {oldest}) /\ Cardinality(all \ {oldest}) = Cardinality(all) - 1
      BY <1>2, <2>1, FS_RemoveElement
    <3> QED BY <1>1, <1>2, <2>2, <3>1
  <2> QED BY <1>1, <1>3, <2>3, ConstantsAssumption DEF VotesFit
<1>4. CASE n + 1 <= MaxCounted
  <2>1. after.counted = all
    BY <1>1, <1>2, <1>4, ConstantsAssumption DEF Remember
  <2>2. circuit.streak = n
    BY <1>1, <1>4, ConstantsAssumption DEF VotesFit
  <2> QED BY <1>1, <1>2, <1>4, <2>1, <2>2, ConstantsAssumption DEF VotesFit
<1> QED BY <1>1, <1>3, <1>4, ConstantsAssumption

\* A transient failure votes once for its request, after an old streak was
\* forgotten with its votes.
LEMMA TransientVotes ==
  ASSUME NEW circuit \in Circuit, VotesFit(circuit), NEW p, p.request \in Requests,
         NEW provider \in Nat, now \in Nat
  PROVE  VotesFit(OnTransient(circuit, p, provider))
<1> DEFINE recent == Recent(circuit)
           after  == OnTransient(circuit, p, provider)
<1>1. recent \in Circuit
  BY DEF Recent, Circuit
<1>2. VotesFit(recent)
  <2>1. CASE recent = circuit
    BY <2>1
  <2>2. CASE recent # circuit
    <3>1. recent = [circuit EXCEPT !.streak = 0, !.counted = {}]
      BY <2>2 DEF Recent
    <3>2. recent.streak = 0 /\ recent.counted = {}
      BY <3>1, Zenon DEF Circuit
    <3> QED BY <3>2, NoVotes
  <2> QED BY <2>1, <2>2
<1> HIDE DEF recent
<1>3. CASE p.request \in recent.counted
  <2>1. after.streak = recent.streak /\ after.counted = recent.counted
    BY <1>1, <1>3 DEF OnTransient, recent, Circuit
  <2> QED BY <1>2, <2>1 DEF VotesFit
<1>4. CASE p.request \notin recent.counted
  <2>1. /\ after.streak = recent.streak + 1
        /\ after.counted = Remember(recent.counted, p.request)
    BY <1>1, <1>4 DEF OnTransient, recent, Circuit
  <2> QED BY <1>1, <1>2, <1>4, <2>1, Voting
<1> QED BY <1>3, <1>4

\* No outcome lets a request vote twice.
LEMMA OutcomeVotes ==
  ASSUME NEW circuit \in Circuit, VotesFit(circuit), NEW p, p.request \in Requests,
         NEW outcome, NEW provider \in Nat, now \in Nat
  PROVE  VotesFit(UpdateCircuit(circuit, p, outcome, provider))
<1>1. VotesFit(OnSuccess(circuit, p))
  <2>1. Closed(circuit).streak = 0 /\ Closed(circuit).counted = {}
    BY Zenon DEF Closed, Circuit
  <2>2. /\ [circuit EXCEPT !.state = "Open"].streak = circuit.streak
        /\ [circuit EXCEPT !.state = "Open"].counted = circuit.counted
    BY Zenon DEF Circuit
  <2>3. VotesFit(Closed(circuit)) /\ VotesFit([circuit EXCEPT !.state = "Open"])
    BY <2>1, <2>2, NoVotes DEF VotesFit
  <2> QED BY <2>3 DEF OnSuccess
<1>2. VotesFit(OnNeutral(circuit, p))
  <2>1. /\ OnNeutral(circuit, p).streak = circuit.streak
        /\ OnNeutral(circuit, p).counted = circuit.counted
    BY DEF OnNeutral, Circuit
  <2> QED BY <2>1 DEF VotesFit
<1> QED BY <1>1, <1>2, TransientVotes DEF UpdateCircuit

\* Every step keeps the votes.
LEMMA NextVotes ==
  ASSUME TypeOK, VotesCounted, [Next]_vars
  PROVE  VotesCounted'
<1> SUFFICES ASSUME NEW c \in Candidates, NEW r \in Routes PROVE VotesFit(circuits'[<<c, r>>])
  BY DEF VotesCounted, VotesFit
<1> DEFINE before == circuits[<<c, r>>]
           after  == circuits'[<<c, r>>]
<1>1. before \in Circuit /\ VotesFit(before)
  BY Parts DEF VotesCounted
<1>2. CASE after = ClosedCircuit
  BY <1>2, NoVotes DEF ClosedCircuit
<1>3. ASSUME NEW l \in Nat, after = TakeGate(before, l) PROVE VotesFit(after)
  BY <1>1, <1>3, GatesDoNotVote
<1>4. ASSUME NEW l \in Live, after = HandBackGate(before, l) PROVE VotesFit(after)
  BY <1>1, <1>4, GatesDoNotVote
<1>5. ASSUME NEW l \in Live, Settles(before, after, l) PROVE VotesFit(after)
  <2>1. HandBackGate(before, l) \in Circuit /\ VotesFit(HandBackGate(before, l))
    BY <1>1, GatesDoNotVote, HandBackGateType
  <2>2. leases[l].request \in Requests /\ now \in Nat
    BY Parts DEF Lease, TypeOK, Time
  <2> QED BY <1>5, <2>1, <2>2, OutcomeVotes DEF Settles
<1> QED BY <1>1, <1>2, <1>3, <1>4, <1>5, NextMoves DEF CircuitMoves

\* The streak that trips a circuit counts independent requests, up to the
\* number of them it remembers (update_circuit, health.rs).
THEOREM StreakCountsRequestsAlways == Spec => []StreakCountsRequests
<1>1. Init => VotesCounted
  BY NoVotes DEF Init, VotesCounted, ClosedCircuit
<1>2. TypeOK /\ VotesCounted /\ [Next]_vars => VotesCounted'
  BY NextVotes
<1>3. VotesCounted => StreakCountsRequests
  BY DEF VotesCounted, VotesFit, StreakCountsRequests
<1> QED BY <1>1, <1>2, <1>3, TypeCorrect, PTL DEF Spec

-----------------------------------------------------------------------------
(* Incidents, as long as edits keep the routes *)

\* A route that is lost and found starts with a fresh circuit, which a lease of
\* the lost one may take for its own; then neither theorem below holds.
StableRoutes == \A s, t \in Settings : s.routes = t.routes

\* So every member has the routes of every setting, and no lease outlives its
\* route on a member that stands.
RoutesStand ==
  /\ \A c \in Registered, s \in Settings : candidates[c].routes = s.routes
  /\ \A l \in Live : leases[l].replaced # "route"

\* A closed circuit is in nobody's hands, and waits for nothing.
Quiet(circuit) == circuit.state = "Closed" => circuit.notBefore = 0 /\ circuit.halfOpen = NoLease

\* What a lease knows of its circuit: no later epoch; and in its own epoch the
\* circuit is closed, unless the lease is a trial, and was due when it was reserved.
Fits(p, circuit, t) ==
  /\ p.epoch <= circuit.epoch
  /\ p.epoch = circuit.epoch => /\ p.recovery \/ circuit.state = "Closed"
                                /\ circuit.notBefore <= t

\* What a lease saw of its member was past every deadline.
SeenReady(p, t) == p.rate <= t /\ p.routeRate <= t /\ p.quota # "Exhausted"

Quieted == \A c \in Candidates, r \in Routes : Quiet(circuits[<<c, r>>])
Fitting == \A l \in Live : leases[l].replaced = "no" => Fits(leases[l], circuits[CircuitOf(leases[l])], now)
Seen    == \A l \in Live : SeenReady(leases[l], now)

CircuitInv == LeaseInv /\ RoutesStand /\ Quieted /\ Fitting /\ Seen

\* What an outcome can make of a circuit.
Unmoved(before, after) ==
  after.state = before.state /\ after.notBefore = before.notBefore /\ after.epoch = before.epoch

Failed(before, after) ==
  /\ after.state \in {"Open", "Degraded"}
  /\ after.notBefore >= before.notBefore /\ after.epoch = before.epoch + 1

Reopened(before, after) ==
  after.state = "Open" /\ after.notBefore >= before.notBefore /\ after.epoch = before.epoch

Ended(before, after) ==
  after.state = "Closed" /\ after.notBefore = 0 /\ after.epoch = before.epoch + 1

\* A success of the same epoch ends the incident, a trial may open the circuit
\* again, and every other failure that counts starts an epoch.
LEMMA OutcomeShape ==
  ASSUME NEW circuit \in Circuit, NEW p \in Lease, NEW outcome, NEW provider \in Nat, now \in Nat
  PROVE  LET after == UpdateCircuit(circuit, p, outcome, provider)
         IN  \/ Unmoved(circuit, after)
             \/ Failed(circuit, after)
             \/ p.recovery /\ Reopened(circuit, after)
             \/ p.epoch = circuit.epoch /\ Ended(circuit, after)
<1> DEFINE Shape(after) == \/ Unmoved(circuit, after)
                           \/ Failed(circuit, after)
                           \/ p.recovery /\ Reopened(circuit, after)
                           \/ p.epoch = circuit.epoch /\ Ended(circuit, after)
<1>1. circuit.notBefore \in Nat /\ circuit.epoch \in Nat
  BY DEF Circuit, Time
<1>2. Shape(OnSuccess(circuit, p))
  <2>1. Ended(circuit, Closed(circuit))
    BY Zenon DEF Closed, Circuit, Ended
  <2>2. Reopened(circuit, [circuit EXCEPT !.state = "Open"])
    BY <1>1 DEF Circuit, Reopened
  <2> QED BY <2>1, <2>2 DEF OnSuccess, Unmoved
<1>3. Shape(OnTransient(circuit, p, provider))
  <2> DEFINE recent == Recent(circuit)
             streak == recent.streak + 1
             Until(pause) == AtLeast(AtLeast(provider, now + pause), recent.notBefore)
  <2>1. recent \in Circuit /\ Unmoved(circuit, recent)
    BY DEF Recent, Circuit, Unmoved
  <2>2. FirstPacing \in Nat /\ FailureBackoff(streak) \in Nat
    BY <2>1, BackoffType, ConstantsAssumption DEF Circuit
  <2>3. \A pause \in Nat : Until(pause) \in Nat /\ Until(pause) >= circuit.notBefore
    BY <1>1, <2>1 DEF AtLeast, Unmoved
  <2>4. PICK first, later, state :
          /\ first = Until(FirstPacing) /\ later = Until(FailureBackoff(streak))
          /\ state = IF p.recovery \/ streak >= FailureThreshold THEN "Open" ELSE "Degraded"
    OBVIOUS
  <2>5. OnTransient(circuit, p, provider) =
          IF p.request \in recent.counted
            THEN IF p.recovery THEN [recent EXCEPT !.state = "Open", !.notBefore = first]
                               ELSE recent
            ELSE [recent EXCEPT
                    !.streak = streak, !.counted = Remember(recent.counted, p.request),
                    !.lastFailure = [seen |-> TRUE, at |-> now], !.notBefore = later,
                    !.epoch = recent.epoch + 1, !.state = state]
    BY <2>4, Zenon DEF OnTransient
  <2>6. first >= circuit.notBefore /\ later >= circuit.notBefore /\ state \in {"Open", "Degraded"}
    BY <2>2, <2>3, <2>4
  <2> HIDE DEF recent, streak, Until
  <2>7. Reopened(circuit, [recent EXCEPT !.state = "Open", !.notBefore = first])
    BY <2>1, <2>6 DEF Circuit, Reopened, Unmoved
  <2>8. PICK after : after = [recent EXCEPT
                    !.streak = streak, !.counted = Remember(recent.counted, p.request),
                    !.lastFailure = [seen |-> TRUE, at |-> now], !.notBefore = later,
                    !.epoch = recent.epoch + 1, !.state = state]
    OBVIOUS
  <2>9. after.state = state /\ after.notBefore = later /\ after.epoch = recent.epoch + 1
    BY <2>1, <2>8, Zenon DEF Circuit
  <2>10. Failed(circuit, after)
    BY <2>1, <2>6, <2>9 DEF Failed, Unmoved
  <2> QED BY <2>1, <2>5, <2>7, <2>8, <2>10, Zenon
<1>4. Shape(OnNeutral(circuit, p))
  <2> PICK later : later = AtLeast(now + FirstPacing, circuit.notBefore)
    OBVIOUS
  <2>1. later >= circuit.notBefore
    BY <1>1, ConstantsAssumption DEF AtLeast
  <2> PICK after : after = [circuit EXCEPT !.state = "Open", !.epoch = circuit.epoch + 1, !.notBefore = later]
    OBVIOUS
  <2>2. after.state = "Open" /\ after.epoch = circuit.epoch + 1 /\ after.notBefore = later
    BY Zenon DEF Circuit
  <2>3. Failed(circuit, after)
    BY <2>1, <2>2 DEF Failed
  <2>4. OnNeutral(circuit, p) = IF p.recovery THEN after ELSE circuit
    BY Zenon DEF OnNeutral
  <2> QED BY <2>3, <2>4 DEF Unmoved
<1>5. Shape(circuit)
  BY DEF Unmoved
<1> HIDE DEF Shape
<1>6. Shape(UpdateCircuit(circuit, p, outcome, provider))
  BY <1>2, <1>3, <1>4, <1>5 DEF UpdateCircuit
<1> QED BY <1>6 DEF Shape

-----------------------------------------------------------------------------
(* Leases of a circuit *)

\* What a lease was admitted with stays with it, and a mark too.
SameAdmission(l) ==
  LET before == leases[l]
      after  == leases'[l]
  IN  /\ CircuitOf(after) = CircuitOf(before)
      /\ after.recovery = before.recovery /\ after.epoch = before.epoch
      /\ after.quota = before.quota /\ after.rate = before.rate
      /\ after.routeRate = before.routeRate
      /\ after.replaced = "no" => before.replaced = "no"
      /\ after.replaced = "route" => before.replaced = "route"

\* A lease that is new was admitted on a ready route; the others are the same.
LEMMA NextLease ==
  ASSUME TypeOK, StableRoutes, RoutesStand, [Next]_vars, NEW l \in Live'
  PROVE  \/ l \in Live /\ SameAdmission(l)
         \/ \E c \in Candidates, q \in Requests, r \in Routes, d \in Definitions,
               eligible \in SUBSET Candidates :
              /\ Ready(c, r, d) /\ ReserveOn(c, q, r, d, eligible)
              /\ leases'[l] = Admission(c, q, r, d, eligible)
<1>1. ASSUME l \in Live, leases'[l] = leases[l] PROVE SameAdmission(l)
  BY <1>1 DEF SameAdmission, CircuitOf
<1>2. ASSUME UNCHANGED leases PROVE l \in Live /\ SameAdmission(l)
  BY <1>1, <1>2 DEF Live
<1>3. CASE Requesting
  <2>1. ASSUME NEW q \in Requests, NEW r \in Routes, NEW d \in Definitions,
               NEW eligible \in SUBSET Candidates, Reserve(q, r, d, eligible)
        PROVE  \/ l \in Live /\ SameAdmission(l)
               \/ \E c \in Candidates :
                    /\ Ready(c, r, d) /\ ReserveOn(c, q, r, d, eligible)
                    /\ leases'[l] = Admission(c, q, r, d, eligible)
    <3>1. PICK c \in SelectionGroup(r, d, eligible) : ReserveOn(c, q, r, d, eligible)
      BY <2>1 DEF Reserve
    <3>2. c \in Candidates /\ Ready(c, r, d)
      BY SelectedIsReady
    <3> PICK new, admission : new = nextLease + 1 /\ admission = Admission(c, q, r, d, eligible)
      OBVIOUS
    <3>3. leases' = With(leases, new, admission)
      BY <3>1 DEF ReserveOn
    <3>4. /\ l = new => leases'[l] = admission
          /\ l # new => l \in Live /\ leases'[l] = leases[l]
      BY <3>3 DEF With, Live
    <3> QED BY <1>1, <3>1, <3>2, <3>4
  <2> QED BY <1>2, <1>3, <2>1 DEF Requesting, ObserveExecution
<1>4. CASE Holding
  <2>1. ASSUME NEW k \in Live, NEW retained \in BOOLEAN, BeginDispatch(k, retained)
        PROVE  l \in Live /\ SameAdmission(l)
    <3> PICK attempt : attempt = budgets[leases[k].request].dispatches + 1
      OBVIOUS
    <3> PICK started : started = [leases[k] EXCEPT !.creditRequired = FALSE, !.attempt = attempt]
      OBVIOUS
    <3>1. leases' = [leases EXCEPT ![k] = started]
      BY <2>1, Zenon DEF BeginDispatch
    <3>2. leases[k] \in Lease
      BY Parts
    <3>3. /\ started.candidate = leases[k].candidate /\ started.route = leases[k].route
          /\ started.recovery = leases[k].recovery /\ started.epoch = leases[k].epoch
          /\ started.quota = leases[k].quota /\ started.rate = leases[k].rate
          /\ started.routeRate = leases[k].routeRate /\ started.replaced = leases[k].replaced
      BY <3>2, Zenon DEF Lease
    <3>4. l \in Live /\ leases'[l] = IF l = k THEN started ELSE leases[l]
      BY <3>1 DEF Live
    <3> QED BY <1>1, <3>3, <3>4 DEF SameAdmission, CircuitOf
  <2>2. ASSUME NEW k \in Live, ReleaseCapacity(k) PROVE l \in Live /\ SameAdmission(l)
    BY <1>1, <2>2, Gone
  <2> QED BY <1>4, <2>1, <2>2 DEF Holding, ReleaseUnstarted, Settle
<1>5. CASE Registering
  <2>1. ASSUME NEW x \in Candidates, NEW s \in Settings, UpdateMember(x, s)
        PROVE  l \in Live /\ SameAdmission(l)
    <3>1. ChangedRoutes(candidates[x], s) = {}
      BY <2>1 DEF RoutesStand, ChangedRoutes, RouteOf, UpdateMember
    <3>2. l \in Live
      BY <2>1 DEF UpdateMember, Live
    <3>3. leases'[l] = leases[l]
      BY <2>1, <3>1, <3>2 DEF UpdateMember
    <3> QED BY <1>1, <3>2, <3>3
  <2>2. ASSUME NEW x \in Candidates, Remove(x) PROVE l \in Live /\ SameAdmission(l)
    <3>1. l \in Live /\ leases[l] \in Lease
      BY <2>2, Parts DEF Remove, Live
    <3>2. leases'[l] = IF leases[l].candidate = x THEN [leases[l] EXCEPT !.replaced = "member"]
                                                  ELSE leases[l]
      BY <2>2, <3>1 DEF Remove
    <3> PICK marked : marked = [leases[l] EXCEPT !.replaced = "member"]
      OBVIOUS
    <3>3. /\ marked.candidate = leases[l].candidate /\ marked.route = leases[l].route
          /\ marked.recovery = leases[l].recovery /\ marked.epoch = leases[l].epoch
          /\ marked.quota = leases[l].quota /\ marked.rate = leases[l].rate
          /\ marked.routeRate = leases[l].routeRate /\ marked.replaced = "member"
      BY <3>1, Zenon DEF Lease
    <3> QED BY <1>1, <3>1, <3>2, <3>3 DEF SameAdmission, CircuitOf
  <2>3. ASSUME NEW x \in Candidates,
               \/ \E s \in Settings : AddMember(x, s)
               \/ \E o \in Observations : SyncCandidateState(x, o)
               \/ \E y \in Routes, rate \in RouteRates : SyncCandidateRouteRate(x, y, rate)
               \/ \E fresh \in BOOLEAN : SetProviderCredits(x, fresh)
        PROVE  UNCHANGED leases
    BY <2>3 DEF AddMember, SyncCandidateState, SyncCandidateRouteRate, SetProviderCredits
  <2>4. ASSUME \/ \E m \in Modes : SetMode(m)
               \/ \E n \in Ceilings : SetMaxInFlight(n)
               \/ \E p \in Policies : SetRecoveryPolicy(p)
        PROVE  UNCHANGED leases
    BY <2>4 DEF SetMode, SetMaxInFlight, SetRecoveryPolicy
  <2> QED BY <1>2, <1>5, <2>1, <2>2, <2>3, <2>4 DEF Registering, Upsert
<1>6. CASE Tick \/ UNCHANGED vars
  BY <1>2, <1>6 DEF Tick, vars
<1> QED BY <1>3, <1>4, <1>5, <1>6 DEF Next

\* A lease that is current was not replaced; and a trial that was not replaced is
\* the one that holds the gate.
LEMMA CurrentStands ==
  ASSUME LeaseInv, RoutesStand, NEW l \in Live, SameMember(leases[l])
  PROVE  /\ leases[l].replaced = "no"
         /\ leases[l].recovery => circuits[CircuitOf(leases[l])].halfOpen = l
<1>1. leases[l] \in Lease
  BY Parts DEF LeaseInv
<1>2. leases[l].replaced = "no"
  BY <1>1 DEF LeaseInv, MemberMarks, RoutesStand, Lease
<1>3. ASSUME leases[l].recovery PROVE circuits[CircuitOf(leases[l])].halfOpen = l
  <2> PICK c \in Candidates, r \in Routes : leases[l].candidate = c /\ leases[l].route = r
    BY <1>1 DEF Lease
  <2>1. IsTrialOf(l, c, r)
    BY <1>2, <1>3 DEF IsTrialOf
  <2> QED BY <2>1 DEF LeaseInv, GateHeldByTrial, GateOfTrial, CircuitOf
<1> QED BY <1>2, <1>3

-----------------------------------------------------------------------------
(* Moves of a circuit whose routes stand *)

\* An incident ends, or goes on in its epoch, when the trial that holds the gate
\* is given up; else it stays, or fails into a new epoch.
Passes(c, r) ==
  LET before == circuits[<<c, r>>]
      after  == circuits'[<<c, r>>]
      trial  == before.halfOpen \in Live \ Live'
  IN  \/ Unmoved(before, after) /\ after.halfOpen = before.halfOpen
      \/ after = ClosedCircuit /\ \A l \in Live \cap Live' :
                                    CircuitOf(leases[l]) = <<c, r>> => leases'[l].replaced # "no"
      \/ /\ before.state # "Closed" /\ after.state # "Closed"
         /\ after.notBefore = before.notBefore /\ after.epoch = before.epoch
      \/ Failed(before, after)
      \/ trial /\ before.state # "Closed" /\ Reopened(before, after)
      \/ /\ before.state = "Closed" \/ trial
         /\ Ended(before, after) /\ after.halfOpen = NoLease

\* A gate that is handed back was the trial's own.
LEMMA HandedBack ==
  ASSUME TypeOK, NEW circuit \in Circuit, Quiet(circuit), NEW l \in Live
  PROVE  LET released == HandBackGate(circuit, l)
         IN  IF leases[l].recovery /\ circuit.halfOpen = l
               THEN /\ circuit.state # "Closed" /\ released.state = "Open"
                    /\ released.notBefore = circuit.notBefore
                    /\ released.epoch = circuit.epoch /\ released.halfOpen = NoLease
               ELSE released = circuit
<1>1. l # NoLease
  BY DEF TypeOK, NoLease
<1> PICK free : free = [circuit EXCEPT !.halfOpen = NoLease, !.state = "Open"]
  OBVIOUS
<1>2. /\ free.state = "Open" /\ free.notBefore = circuit.notBefore
      /\ free.epoch = circuit.epoch /\ free.halfOpen = NoLease
  BY Zenon DEF Circuit
<1> QED BY <1>1, <1>2 DEF HandBackGate, Quiet

\* What the settlement of a current lease makes of its circuit.
LEMMA SettledPasses ==
  ASSUME CircuitInv, NEW c \in Candidates, NEW r \in Routes, NEW l \in Live \ Live',
         CircuitOf(leases[l]) = <<c, r>>, ObservationCurrent(leases[l]),
         Settles(circuits[<<c, r>>], circuits'[<<c, r>>], l)
  PROVE  Passes(c, r)
<1> DEFINE before   == circuits[<<c, r>>]
           after    == circuits'[<<c, r>>]
           released == HandBackGate(before, l)
           p        == leases[l]
<1>1. TypeOK /\ before \in Circuit /\ p \in Lease /\ now \in Nat
  BY Parts DEF CircuitInv, LeaseInv, TypeOK
<1>2. Quiet(before)
  BY DEF CircuitInv, Quieted
<1>3. PICK outcome \in Outcomes, provider \in Nat :
         after = UpdateCircuit(released, p, outcome, provider)
  BY DEF Settles
<1>4. p.replaced = "no" /\ (p.recovery => before.halfOpen = l)
  BY CurrentStands DEF CircuitInv, ObservationCurrent
<1>5. released \in Circuit
  BY <1>1, HandBackGateType
<1>6. /\ \/ Unmoved(released, after)
         \/ Failed(released, after)
         \/ p.recovery /\ Reopened(released, after)
         \/ p.epoch = released.epoch /\ Ended(released, after)
      /\ after.halfOpen = released.halfOpen
  <2> HIDE DEF released, p, after
  <2> QED BY <1>1, <1>3, <1>5, OutcomeShape, UpdateCircuitGate
<1>7. IF p.recovery THEN /\ before.state # "Closed" /\ released.state = "Open"
                         /\ released.notBefore = before.notBefore
                         /\ released.epoch = before.epoch /\ released.halfOpen = NoLease
                    ELSE released = before
  BY <1>1, <1>2, <1>4, HandedBack
<1> HIDE DEF released
<1>8. CASE p.recovery
  BY <1>4, <1>6, <1>7, <1>8 DEF Passes, Unmoved, Failed, Reopened, Ended
<1>9. CASE ~p.recovery
  <2>1. p.epoch = before.epoch => before.state = "Closed" /\ before.halfOpen = NoLease
    BY <1>2, <1>4, <1>9 DEF CircuitInv, Fitting, Fits, Quiet
  <2> QED BY <1>6, <1>7, <1>9, <2>1 DEF Passes
<1> QED BY <1>8, <1>9

\* Every step, on every circuit.
LEMMA NextPasses ==
  ASSUME CircuitInv, [Next]_vars, NEW c \in Candidates, NEW r \in Routes
  PROVE  Passes(c, r)
<1> DEFINE before == circuits[<<c, r>>]
           after  == circuits'[<<c, r>>]
<1>1. TypeOK /\ before \in Circuit /\ Quiet(before)
  BY Parts DEF CircuitInv, LeaseInv, Quieted
<1>2. CASE after = before
  BY <1>2 DEF Passes, Unmoved
<1>3. CASE after = ClosedCircuit /\ \A l \in Live \cap Live' :
                CircuitOf(leases[l]) = <<c, r>> => leases'[l].replaced # "no"
  BY <1>3 DEF Passes
<1>4. ASSUME NeedsRecovery(c, r), NEW l \in Nat, after = TakeGate(before, l)
      PROVE  Passes(c, r)
  <2> PICK taken : taken = [before EXCEPT !.state = "HalfOpen", !.halfOpen = l]
    OBVIOUS
  <2>1. taken.state = "HalfOpen" /\ taken.notBefore = before.notBefore /\ taken.epoch = before.epoch
    BY <1>1, Zenon DEF Circuit
  <2>2. after = taken
    BY <1>4 DEF TakeGate
  <2> QED BY <1>4, <2>1, <2>2 DEF Passes, NeedsRecovery
<1>5. ASSUME NEW l \in Live \ Live', after = HandBackGate(before, l) PROVE Passes(c, r)
  <2>1. \/ after = before
        \/ /\ before.state # "Closed" /\ after.state = "Open"
           /\ after.notBefore = before.notBefore /\ after.epoch = before.epoch
    BY <1>1, <1>5, HandedBack
  <2> QED BY <1>2, <2>1 DEF Passes
<1> QED BY <1>1, <1>2, <1>3, <1>4, <1>5, NextMoves, SettledPasses DEF CircuitMoves

\* Edits and settlements keep the routes of every member, and mark no lease.
LEMMA NextRoutesStand ==
  ASSUME TypeOK, StableRoutes, RoutesStand, [Next]_vars
  PROVE  RoutesStand'
<1>1. ASSUME NEW c \in Registered', NEW s \in Settings PROVE candidates'[c].routes = s.routes
  <2>1. CASE SameRoutes
    BY <2>1 DEF SameRoutes, RoutesStand
  <2>2. ASSUME NEW x \in Candidates, NEW t \in Settings, UpdateMember(x, t)
        PROVE  candidates'[c].routes = s.routes
    BY <2>2, UpdateRoutes DEF StableRoutes, RoutesStand
  <2>3. ASSUME NEW x \in Candidates, NEW t \in Settings, AddMember(x, t)
        PROVE  candidates'[c].routes = s.routes
    BY <2>3, AddRoutes DEF StableRoutes, RoutesStand
  <2>4. ASSUME NEW x \in Candidates, Remove(x) PROVE candidates'[c].routes = s.routes
    BY <2>4 DEF Remove, Without, RoutesStand, Registered
  <2> QED BY <2>1, <2>2, <2>3, <2>4, NextRoutes DEF Upsert
<1>2. ASSUME NEW l \in Live' PROVE leases'[l].replaced # "route"
  <2>1. ASSUME NEW c \in Candidates, NEW q \in Requests, NEW r \in Routes, NEW d \in Definitions,
               NEW eligible \in SUBSET Candidates, leases'[l] = Admission(c, q, r, d, eligible)
        PROVE  leases'[l].replaced # "route"
    BY <2>1 DEF Admission
  <2> QED BY <2>1, NextLease DEF SameAdmission, RoutesStand
<1> QED BY <1>1, <1>2 DEF RoutesStand

\* The clock does not go back.
LEMMA NextClock ==
  ASSUME TypeOK, [Next]_vars
  PROVE  now' \in Nat /\ now <= now'
<1>1. ASSUME UNCHANGED now PROVE now' \in Nat /\ now <= now'
  BY <1>1 DEF TypeOK
<1>2. CASE Requesting
  BY <1>1, <1>2 DEF Requesting, Reserve, ReserveOn, ObserveExecution
<1>3. CASE Holding
  BY <1>1, <1>3 DEF Holding, BeginDispatch, ReleaseUnstarted, Settle
<1>4. CASE Registering
  BY <1>1, <1>4 DEF Registering, Upsert, UpdateMember, AddMember, Remove, SyncCandidateState,
     SyncCandidateRouteRate, SetProviderCredits, SetMode, SetMaxInFlight, SetRecoveryPolicy
<1>5. CASE Tick \/ UNCHANGED vars
  BY <1>1, <1>5 DEF Tick, vars, TypeOK
<1> QED BY <1>2, <1>3, <1>4, <1>5 DEF Next

\* A closed circuit stays in nobody's hands.
LEMMA NextQuiet ==
  ASSUME CircuitInv, [Next]_vars
  PROVE  Quieted'
<1> SUFFICES ASSUME NEW c \in Candidates, NEW r \in Routes PROVE Quiet(circuits'[<<c, r>>])
  BY DEF Quieted, Quiet
<1>1. Quiet(circuits[<<c, r>>])
  BY DEF CircuitInv, Quieted
<1>2. Quiet(ClosedCircuit)
  BY DEF Quiet, ClosedCircuit
<1> QED BY <1>1, <1>2, NextPasses DEF Passes, Quiet, Unmoved, Failed, Reopened, Ended

\* What a lease reads when it is admitted.
LEMMA AdmissionReads ==
  ASSUME TypeOK, NEW c \in Candidates, NEW q, NEW r \in Routes, NEW d, NEW eligible,
         Ready(c, r, d)
  PROVE  LET p == Admission(c, q, r, d, eligible)
         IN  /\ CircuitOf(p) = <<c, r>> /\ p.epoch = circuits[<<c, r>>].epoch
             /\ p.recovery \/ circuits[<<c, r>>].state = "Closed"
             /\ ~NeedsRecovery(c, r) => circuits[<<c, r>>].state = "Closed"
             /\ p.recovery = NeedsRecovery(c, r)
             /\ circuits[<<c, r>>].notBefore <= now
             /\ SeenReady(p, now)
  BY DEF Admission, Ready, CircuitOf, SeenReady, QuotaAdmits

\* A new lease knows its circuit; a failure after that starts an epoch, unless
\* it is the trial's own.
LEMMA NextFits ==
  ASSUME CircuitInv, StableRoutes, [Next]_vars
  PROVE  Fitting'
<1> SUFFICES ASSUME NEW l \in Live', leases'[l].replaced = "no"
             PROVE  Fits(leases'[l], circuits'[CircuitOf(leases'[l])], now')
  BY DEF Fitting, CircuitOf, Fits
<1>1. TypeOK /\ RoutesStand /\ now \in Nat /\ now' \in Nat /\ now <= now'
  BY NextClock DEF CircuitInv, LeaseInv, TypeOK
<1>2. TypeOK'
  BY <1>1, NextType
<1>3. ASSUME l \in Live, SameAdmission(l)
      PROVE  Fits(leases'[l], circuits'[CircuitOf(leases'[l])], now')
  <2> PICK p : p = leases[l]
    OBVIOUS
  <2>1. p \in Lease /\ p.replaced = "no"
    BY <1>1, <1>3, Parts DEF SameAdmission
  <2> PICK c \in Candidates, r \in Routes : CircuitOf(p) = <<c, r>>
    BY <2>1 DEF Lease, CircuitOf
  <2> PICK before, after : before = circuits[<<c, r>>] /\ after = circuits'[<<c, r>>]
    OBVIOUS
  <2>2. before \in Circuit /\ after \in Circuit
    BY <1>1, <1>2 DEF TypeOK
  <2>3. Fits(p, before, now)
    BY <1>3, <2>1 DEF CircuitInv, Fitting
  <2>4. /\ before.epoch \in Nat /\ after.epoch \in Nat /\ p.epoch \in Nat
        /\ before.notBefore \in Nat /\ after.notBefore \in Nat
    BY <2>1, <2>2 DEF Circuit, Lease, Time
  <2>5. p.recovery => before.halfOpen = l
    BY <1>3, <2>1, CurrentStands DEF CircuitInv, LeaseInv, MemberMarks
  <2>6. Passes(c, r)
    BY NextPasses
  <2>7. Fits(p, after, now')
    <3>1. CASE Unmoved(before, after)
      BY <1>1, <2>3, <2>4, <3>1 DEF Fits, Unmoved
    <3>2. CASE before.state # "Closed" /\ after.notBefore = before.notBefore
               /\ after.epoch = before.epoch
      BY <1>1, <2>3, <2>4, <3>2 DEF Fits
    <3>3. CASE Failed(before, after) \/ Ended(before, after)
      BY <2>3, <2>4, <3>3 DEF Fits, Failed, Ended
    <3>4. CASE before.halfOpen \in Live \ Live' /\ before.state # "Closed"
               /\ Reopened(before, after)
      BY <2>3, <2>4, <2>5, <3>4 DEF Fits, Reopened
    <3>5. ~(\A k \in Live \cap Live' : CircuitOf(leases[k]) = <<c, r>> => leases'[k].replaced # "no")
      BY <1>3
    <3> QED BY <2>6, <3>1, <3>2, <3>3, <3>4, <3>5 DEF Passes
  <2> QED BY <1>3, <2>7 DEF SameAdmission, Fits
<1>4. ASSUME NEW c \in Candidates, NEW q \in Requests, NEW r \in Routes, NEW d \in Definitions,
             NEW eligible \in SUBSET Candidates, Ready(c, r, d), ReserveOn(c, q, r, d, eligible),
             leases'[l] = Admission(c, q, r, d, eligible)
      PROVE  Fits(leases'[l], circuits'[CircuitOf(leases'[l])], now')
  <2> PICK p, before, after : /\ p = leases'[l]
                              /\ before = circuits[<<c, r>>] /\ after = circuits'[<<c, r>>]
    OBVIOUS
  <2>1. /\ CircuitOf(p) = <<c, r>> /\ p.epoch = before.epoch /\ before.notBefore <= now
        /\ p.recovery = NeedsRecovery(c, r)
        /\ ~NeedsRecovery(c, r) => before.state = "Closed"
    BY <1>1, <1>4, AdmissionReads
  <2>2. before \in Circuit
    BY <1>1, Parts
  <2>3. CASE NeedsRecovery(c, r)
    <3> PICK taken : taken = TakeGate(before, nextLease + 1)
      OBVIOUS
    <3>1. circuits' = [circuits EXCEPT ![<<c, r>>] = taken]
      BY <1>4, <2>3 DEF ReserveOn
    <3>2. after = taken
      BY <1>1, <3>1 DEF TypeOK
    <3>3. taken.epoch = before.epoch /\ taken.notBefore = before.notBefore
      BY <2>2, Zenon DEF TakeGate, Circuit
    <3>4. before.epoch \in Nat /\ now' = now
      BY <1>4, <2>2 DEF ReserveOn, Circuit
    <3> QED BY <2>1, <2>3, <3>2, <3>3, <3>4 DEF Fits
  <2>4. CASE ~NeedsRecovery(c, r)
    <3>1. after = before /\ now' = now
      BY <1>4, <2>4 DEF ReserveOn
    <3>2. before.epoch \in Nat
      BY <2>2 DEF Circuit
    <3> QED BY <2>1, <2>4, <3>1, <3>2 DEF Fits
  <2> QED BY <2>3, <2>4
<1> QED BY <1>1, <1>3, <1>4, NextLease

\* A deadline that was past stays past.
LEMMA NextSeen ==
  ASSUME CircuitInv, StableRoutes, [Next]_vars
  PROVE  Seen'
<1> SUFFICES ASSUME NEW l \in Live' PROVE SeenReady(leases'[l], now')
  BY DEF Seen, SeenReady
<1>1. TypeOK /\ RoutesStand /\ now \in Nat /\ now' \in Nat /\ now <= now'
  BY NextClock DEF CircuitInv, LeaseInv, TypeOK
<1>2. leases'[l] \in Lease
  BY <1>1, NextType DEF TypeOK
<1>3. leases'[l].rate \in Nat /\ leases'[l].routeRate \in Nat
  BY <1>2 DEF Lease, Time
<1>4. \/ l \in Live /\ SameAdmission(l)
      \/ SeenReady(leases'[l], now)
  <2>1. ASSUME NEW c \in Candidates, NEW q \in Requests, NEW r \in Routes, NEW d \in Definitions,
               NEW eligible \in SUBSET Candidates, Ready(c, r, d),
               leases'[l] = Admission(c, q, r, d, eligible)
        PROVE  SeenReady(leases'[l], now)
    BY <1>1, <2>1, AdmissionReads
  <2> QED BY <1>1, <2>1, NextLease
<1> QED BY <1>1, <1>3, <1>4 DEF CircuitInv, Seen, SeenReady, SameAdmission

\* The initial state has no lease, and no incident.
LEMMA InitCircuits == Init => CircuitInv
<1>1. Init => RoutesStand /\ Quieted /\ Fitting /\ Seen
  BY DEF Init, RoutesStand, Quieted, Quiet, ClosedCircuit, Fitting, Seen, Live, Registered
<1> QED BY <1>1, InitLeases DEF CircuitInv

\* Every step keeps the invariant.
LEMMA NextCircuits ==
  ASSUME StableRoutes, CircuitInv, [Next]_vars
  PROVE  CircuitInv'
<1>1. TypeOK /\ RoutesStand /\ LeaseInv'
  BY NextLeases DEF CircuitInv, LeaseInv
<1> QED BY <1>1, NextRoutesStand, NextQuiet, NextFits, NextSeen DEF CircuitInv

\* Every reachable state satisfies the invariant.
LEMMA CircuitInvariant == ASSUME StableRoutes PROVE Spec => []CircuitInv
<1>1. StableRoutes /\ CircuitInv /\ [Next]_vars => CircuitInv'
  BY NextCircuits
<1>2. StableRoutes
  OBVIOUS
<1> QED BY <1>1, <1>2, InitCircuits, PTL DEF Spec

-----------------------------------------------------------------------------
(* Theorems *)

\* Only a dispatch starts a lease.
LEMMA OnlyDispatchStarts ==
  ASSUME TypeOK, [Next]_vars, NEW l \in Live \cap Live', leases'[l].attempt # leases[l].attempt
  PROVE  \E retained \in BOOLEAN : BeginDispatch(l, retained)
<1>1. leases[l] \in Lease /\ leases'[l] # leases[l]
  BY Parts
<1>2. CASE Requesting
  <2>1. ASSUME NEW q \in Requests, NEW r \in Routes, NEW d \in Definitions,
               NEW eligible \in SUBSET Candidates, Reserve(q, r, d, eligible)
        PROVE  FALSE
    <3> PICK c, new, admission : /\ ReserveOn(c, q, r, d, eligible)
                                 /\ new = nextLease + 1
                                 /\ admission = Admission(c, q, r, d, eligible)
      BY <2>1 DEF Reserve
    <3>1. leases' = With(leases, new, admission)
      BY DEF ReserveOn
    <3>2. l # new
      BY DEF TypeOK
    <3> QED BY <1>1, <3>1, <3>2 DEF With, Live
  <2> QED BY <1>1, <1>2, <2>1 DEF Requesting, ObserveExecution
<1>3. CASE Holding
  <2>1. ASSUME NEW k \in Live, NEW retained \in BOOLEAN, BeginDispatch(k, retained), k # l
        PROVE  FALSE
    <3> PICK started : leases' = [leases EXCEPT ![k] = started]
      BY <2>1, Zenon DEF BeginDispatch
    <3> QED BY <1>1, <2>1 DEF Live
  <2>2. ASSUME NEW k \in Live, ReleaseCapacity(k) PROVE FALSE
    BY <1>1, <2>2, Gone
  <2> QED BY <1>3, <2>1, <2>2 DEF Holding, ReleaseUnstarted, Settle
<1>4. CASE Registering
  <2>1. ASSUME NEW why PROVE [leases[l] EXCEPT !.replaced = why].attempt = leases[l].attempt
    BY <1>1, Zenon DEF Lease
  <2>2. ASSUME NEW x \in Candidates, NEW s \in Settings, UpdateMember(x, s) PROVE FALSE
    <3>1. leases'[l] = leases[l] \/ leases'[l] = [leases[l] EXCEPT !.replaced = "route"]
      BY <2>2 DEF UpdateMember
    <3> QED BY <2>1, <3>1
  <2>3. ASSUME NEW x \in Candidates, Remove(x) PROVE FALSE
    <3>1. leases'[l] = leases[l] \/ leases'[l] = [leases[l] EXCEPT !.replaced = "member"]
      BY <2>3 DEF Remove
    <3> QED BY <2>1, <3>1
  <2>4. ASSUME NEW x \in Candidates,
               \/ \E s \in Settings : AddMember(x, s)
               \/ \E o \in Observations : SyncCandidateState(x, o)
               \/ \E y \in Routes, rate \in RouteRates : SyncCandidateRouteRate(x, y, rate)
               \/ \E fresh \in BOOLEAN : SetProviderCredits(x, fresh)
        PROVE  FALSE
    BY <1>1, <2>4 DEF AddMember, SyncCandidateState, SyncCandidateRouteRate, SetProviderCredits
  <2>5. ASSUME \/ \E m \in Modes : SetMode(m)
               \/ \E n \in Ceilings : SetMaxInFlight(n)
               \/ \E p \in Policies : SetRecoveryPolicy(p)
        PROVE  FALSE
    BY <1>1, <2>5 DEF SetMode, SetMaxInFlight, SetRecoveryPolicy
  <2> QED BY <1>4, <2>2, <2>3, <2>4, <2>5 DEF Registering, Upsert
<1>5. CASE Tick \/ UNCHANGED vars
  BY <1>1, <1>5 DEF Tick, vars
<1> QED BY <1>2, <1>3, <1>4, <1>5 DEF Next

\* What the dispatch fence lets through: a lease of a closed circuit, or the
\* trial that holds the gate; and its deadlines were past when it was reserved.
LEMMA DispatchFence ==
  ASSUME CircuitInv, [Next]_vars, NEW l \in Live \cap Live',
         leases'[l].attempt # leases[l].attempt
  PROVE  LET p == leases[l]
             m == candidates[p.candidate]
             circuit == circuits[<<p.candidate, p.route>>]
         IN  /\ circuit.state = "Closed" \/ circuit.halfOpen = l
             /\ circuit.notBefore <= now
             /\ m.rate <= now /\ m.routeRates[p.route] <= now
             /\ m.quota # "Exhausted" /\ ~m.draining
<1> DEFINE p == leases[l]
           m == candidates[p.candidate]
           circuit == circuits[<<p.candidate, p.route>>]
<1>1. StillCurrent(p) /\ CircuitAdmits(p)
  BY OnlyDispatchStarts DEF CircuitInv, LeaseInv, BeginDispatch
<1>2. SameMember(p) /\ SameObservations(m, p) /\ ~m.draining
  BY <1>1 DEF StillCurrent
<1>3. p.replaced = "no" /\ (p.recovery => circuit.halfOpen = l)
  BY <1>2, CurrentStands DEF CircuitInv, CircuitOf
<1>4. Fits(p, circuit, now) /\ SeenReady(p, now)
  BY <1>3 DEF CircuitInv, Fitting, Seen, CircuitOf
<1>5. Quiet(circuit) /\ now \in Nat
  BY Parts DEF CircuitInv, Quieted, LeaseInv, TypeOK, Lease
<1>6. circuit.epoch = p.epoch \/ circuit.state = "Closed"
  BY <1>1 DEF CircuitAdmits
<1>7. circuit.state = "Closed" \/ circuit.halfOpen = l
  BY <1>3, <1>4, <1>6 DEF Fits
<1>8. circuit.notBefore <= now
  BY <1>4, <1>5, <1>6 DEF Fits, Quiet
<1> QED BY <1>2, <1>4, <1>7, <1>8 DEF SameObservations, SeenReady

\* As long as edits keep the routes, while a circuit is not closed only the
\* trial that holds its gate is sent (begin_dispatch, lifecycle.rs).
THEOREM DispatchesPassTheGate == ASSUME StableRoutes PROVE Spec => DispatchThroughGate
<1>1. CircuitInv /\ [Next]_vars =>
        \A l \in Live \cap Live' :
          leases'[l].attempt # leases[l].attempt =>
            LET circuit == circuits[<<leases[l].candidate, leases[l].route>>]
            IN  circuit.state = "Closed" \/ circuit.halfOpen = l
  BY DispatchFence
<1> QED BY <1>1, CircuitInvariant, PTL DEF Spec, DispatchThroughGate

\* As long as edits keep the routes, nothing is sent before a deadline that is
\* known when it is sent (still_current and begin_dispatch, lifecycle.rs).
THEOREM DispatchesAreDue == ASSUME StableRoutes PROVE Spec => DispatchRespectsDeadlines
<1>1. CircuitInv /\ [Next]_vars =>
        \A l \in Live \cap Live' :
          leases'[l].attempt # leases[l].attempt =>
            LET p == leases[l]
                m == candidates[p.candidate]
            IN  /\ m.rate <= now /\ m.routeRates[p.route] <= now
                /\ circuits[<<p.candidate, p.route>>].notBefore <= now
                /\ m.quota # "Exhausted" /\ ~m.draining
  BY DispatchFence
<1> QED BY <1>1, CircuitInvariant, PTL DEF Spec, DispatchRespectsDeadlines

\* As long as edits keep the routes, an incident ends, and its cooldown is cut,
\* only with the trial that holds the gate (update_circuit, health.rs).
THEOREM IncidentsEndByTheirTrial == ASSUME StableRoutes PROVE Spec => IncidentEndsByItsTrial
<1> DEFINE Ends(c, r) ==
             LET before == circuits[<<c, r>>]
                 after  == circuits'[<<c, r>>]
             IN  \/ after.state = "Closed" /\ before.state # "Closed"
                 \/ after.notBefore < before.notBefore
                 => \/ before.halfOpen \in Live \ Live' /\ after.state = "Closed"
                    \/ after = ClosedCircuit
<1>1. CircuitInv /\ [Next]_vars => \A c \in Candidates, r \in Routes : Ends(c, r)
  <2> SUFFICES ASSUME CircuitInv, [Next]_vars, NEW c \in Candidates, NEW r \in Routes
               PROVE  Ends(c, r)
    OBVIOUS
  <2> DEFINE before == circuits[<<c, r>>]
             after  == circuits'[<<c, r>>]
  <2>1. before.notBefore \in Nat /\ after.notBefore \in Nat
    BY Parts, NextType DEF CircuitInv, LeaseInv, TypeOK, Circuit, Time
  <2>2. Quiet(before)
    BY DEF CircuitInv, Quieted
  <2> HIDE DEF before, after
  <2>3. Passes(c, r)
    BY NextPasses
  <2> QED BY <2>1, <2>2, <2>3 DEF before, after, Passes, Quiet, Unmoved, Failed, Reopened, Ended
<1> QED BY <1>1, CircuitInvariant, PTL DEF Spec, IncidentEndsByItsTrial

=============================================================================
