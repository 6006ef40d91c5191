# Verification of Zenith Relay

Zenith Relay is a desktop program that pools several accounts and API sources
behind one local endpoint: a request that an application sends to the gateway is
given to one member of the pool, and to another one when that fails. The
repository holds the relay core (`crates/relay-core/src`, Rust), the desktop
authority around it (`src-tauri/src`), a React interface (`src/src`), web pages
and scripts. This directory holds TLA+ models of the core, the runs that check
them on small instances, and theorems about them.

Paths below are relative to `src/`; `core/` stands for `crates/relay-core/src/`.

## 1. The system

### 1.1 Parts, state and operations

| Part | State it keeps | Operations | Module |
|---|---|---|---|
| Rotation engine, `core/scheduler/rotation/engine*` | members, one circuit per member and route, leases, in-flight counters per member and per physical resource, cached limits, recovery credits | register and remove a member, take over observations, reserve, dispatch, release, settle, install limits and policies | `RotationEngine` |
| Request budget, `core/scheduler/rotation/budget*` | dispatches started, "must not be replayed", accumulated wait, stop reason | start a dispatch, observe an execution, begin and end a wait | partly, in `RotationEngine` and `AdmissionQueue` |
| Admission queue, `core/runtime/admission*` | waiters, turn order of principals | `admit`, `wait_for_recovery_event`, drop of a guard | `AdmissionQueue` |
| Pool scheduler, `core/scheduler/selection/*`, and attempt lease, `core/runtime/attempt/*` | runtime members, tombstones of removed ones, permission revisions, execution fences, active requests per member; one lease per request | register, update, remove, fence, reserve, dispatch, settle, release | `PoolMembers` |
| Token authority, `core/accounts/token_authority/*`, `core/runtime/authorization/*`, with its store and lock, `src-tauri/src/local_pool/accounts/*` | one slot per account: tokens, auth state, writes that are pending, revision; the stored credential, the rotation checkpoint, the account record, the lock file | prepare, renew, reject, sign in, delete, edit the proxy | `TokenRotation` |
| Management HTTP gate, `core/scheduler/refresh/http.rs` | permits in all and by origin, one queue | acquire, release | `HttpGate` |
| Refresh coordinator and service, `core/scheduler/refresh*` | one entry per account, kind and revision; running jobs; starts by origin; who waits | register, request, dirty, claim, complete, drive | `RefreshService` |
| Quota-wake automation, `core/automations/quota_wake/*`, its store and worker in `src-tauri` | wake cycles in memory and in the store, permits | evaluate, claim, send, complete, natural use, edit, delete | `QuotaWake` |
| Vault, `src-tauri/src/local_pool/store/vault.rs`, with the snapshots and sources whose secrets it holds | one encrypted file and its backup; records | save, delete, open; create and delete a record | `SecretVault` |
| Session and response affinity, `core/scheduler/affinity.rs`, `core/runtime/session_state*` | bounded maps with expiry | bind, look up, invalidate | not modelled |
| Gateway driver, `core/gateway/*` | a request's progress | admit, dispatch, retry, wait, stream | its calls are the inputs of the models; the driver itself is not modelled |
| Protocols, providers, catalog, pricing, user interfaces | little shared state | translation, I/O, presentation | not modelled |

`PROJECT.json` lists every part with its files.

### 1.2 How they interact

A request driver (`gateway/execution.rs`) is a tokio task. It calls
`GatewayRuntime::admit`, which under the queue's mutex asks the pool scheduler who
may go. The pool scheduler owns the rotation engine and is itself behind one
mutex, so **every operation of the engine is atomic**. What interleaves is the
order of calls: drivers reserve, dispatch, settle and drop leases; the host
registers, changes and removes members; observers deliver quotas and rate limits;
the user changes settings. A lease lives over many such calls. The lock order is
queue, budget, scheduler; the scheduler's mutex is given up between the
inspections of two waiters. `candidate_availability` and `admission_changed` are
`tokio::sync::Notify`: `notify_waiters` wakes those subscribed and stores nothing.

### 1.3 What is hard, and what makes the parts correct

* **Rotation engine.** Between reservation and settlement anything may have
  happened to the member: it was limited, drained, moved to another physical
  resource, removed, registered again; its route was dropped and found again; its
  circuit tripped and is being probed. The engine answers with generations,
  circuit epochs, incidents and a re-check at the dispatch. Correct means: the
  counters are exactly the live leases, limits hold for physical resources shared
  by several members, a half-open gate belongs to exactly one live trial and
  always returns, an incident ends only through its own trial, late outcomes
  reach nothing but their own capacity, and nothing is sent past a known deadline.
* **Admission queue.** Requests inspect the pool, then sleep, while leases end
  and settings change. Correct means: no wake-up is lost, also when a waiter
  leaves; turns are fair across principals and oldest first within one; the queue
  holds what its drivers hold and no more; everybody leaves in the end.
* **Pool scheduler and attempt lease.** Settlement of the engine lease and release of
  the reservation are two critical sections; a removed member stays as a
  tombstone until its last reservation ends. Correct means: each reservation is
  released once, and the two ledgers agree when nobody is in between.
* **Token authority.** The provider rotates a refresh token; storing the new one
  may fail, the account may be removed or replaced meanwhile. Correct means: one
  refresh at a time, no token lost or overwritten by an older one, no dispatch
  with a revision that is no longer current.
* **Refresh coordinator, HTTP gate, wake automation.** One job per account and kind,
  a demand during a job is served after it, reserved permits stay reserved, a
  claimed cycle is not claimed twice.
* **Vault, store, snapshots.** The vault is one file replaced in several calls of the
  file system, and a record and its secret are written one after the other.
  Correct means: wherever the program ends, and whichever call fails, the next
  start has every secret a listed record needs.

`PROJECT.json` lists the hazards at the lines where they bite, with the properties
that cover them, or why none does.

## 2. The modules

| Module | What | Theorems |
|---|---|---|
| `RotationEngine` | section 3 | `RotationEngineProofs` |
| `AdmissionQueue` | section 4 | `AdmissionQueueProofs` |
| `TokenRotation`, implementing `GrantLedger` | section 5 | `TokenRotationProofs`, and `TokenLedgerProofs` with the refinement |
| `HttpGate` | section 6.2 | `BackgroundProofs` |
| `RefreshService` | section 6.3 | `BackgroundProofs` |
| `QuotaWake` | section 6.4 | `QuotaWakeProofs` |
| `PoolMembers` | section 6.5 | `PoolMembersProofs` |
| `SecretVault` | section 6.6 | `SecretVaultProofs` |
| `MCRotationEngine`, `MCAdmissionQueue`, `MCTokenRotation`, `MCBackground` | the instances for TLC | |

`PoolMembers` and `RotationEngine` are two halves of one reservation: what the
scheduler refuses before it asks the engine is in the first, what the engine
refuses in the second, and the end of a lease is two critical sections
(`lease.rs:276-330`), one in each. They meet only in the
order of the two calls, so they are checked apart. `AdmissionQueue` keeps a reduced pool (who is up and who has
room). The gate, the periodic reads, the wakes, the registrations and the vault
share no state in memory; `MCBackground` checks the five in one run (section 6.1).

Left for later, in this order: the account's other writers (import with its
rollback, profile synchronisation) in `TokenRotation`; the application profiles'
apply and repair; the affinity maps; the selection policies as functions against
reference definitions.

## 3. `RotationEngine`

### 3.1 State and actions

| Module | Code |
|---|---|
| `candidates`, `nextGeneration` | `candidates`, `next_candidate_generation` (`engine.rs:74-94`) |
| `circuits` | `circuits`; an absent entry is `ClosedCircuit` |
| `leases`, `nextLease` | `leases`, `next_lease_id` |
| `capacityInFlight`, `capacityLimit`, `maxInFlight` | the same, `capacity_limits` being a cache |
| `policy`, `recoveryCredits`, `recoveryInFlight`, `successesSinceRecovery`, `mode` | the same |
| `budgets` | `RequestBudget` of each request: dispatches and the replay stop |
| `now` | the `now_ms` that callers pass |
| `Reserve` | `reserve`, with `select` and the capacity, recovery and circuit conditions it evaluates |
| `BeginDispatch` | `begin_dispatch_internal`: the fence of generation, route, observations, circuit and budget |
| `ReleaseUnstarted`, `Settle` | `release_unstarted`, `settle_with_latency` with `release_capacity` and `update_circuit` |
| `Upsert` (`AddMember`, `UpdateMember`), `Remove` | `upsert`, `remove` with `recompute_capacity_limit` and the loss of circuits |
| `SyncCandidateState`, `SyncCandidateRouteRate`, `SetProviderCredits` | the observations |
| `SetMode`, `SetMaxInFlight`, `SetRecoveryPolicy` | the settings |
| `Tick` | time |

Each action is one call, because each call runs under the scheduler's mutex. A
call that returns an error changes nothing and is not a step. `replaced` in a
lease is a history variable: it says that the member or the route the lease was
admitted on has been replaced since, which the code does not record but infers.

What the model leaves open, so that the properties hold for every choice of it:
which of the ready ordinary members is chosen (priority, weights, round robin,
quota headroom, latency, cache affinity); the order of the selection groups is
kept where it decides about recovery trials. Deadlines are numbers, 0 for `None`.
`"Neutral"` stands for the six outcomes that the circuit treats alike. Model
names are compared exactly; the code ignores ASCII case. Left out: quota
revisions, soft health and latency observations, wire attempts and the deadlines
of the budget.

### 3.2 Runs

All instances of `MCRotationEngine`. `CHECK_DEADLOCK FALSE`, since a bounded
instance stops when its lease ids and its clock are used up, as `reserve` does when
`next_lease_id` overflows.

| Run | Instance | Shows |
|---|---|---|
| `circuit` | one member, two requests of two dispatches, four leases, clock 0..2, threshold 2, cooldowns 1 and 2 | `TypeOK`; `StreakCountsRequests`: one request votes once in the streak that trips a circuit; `IncidentEndsByItsTrial`; `DispatchThroughGate`: beside the trial nothing is sent on a route that is not closed. 216,606 states |
| `members` | two members, two resources with limits 2 and 1, ceiling 2, three leases, three generations | `LeaseAccounting`, `CapacityLimitFresh`, `AdmissionWithinLimits`, `ReplacedMemberIsInert` while members come, go, return and move with leases in flight. 225,409 states |
| `observations` | one member, one request, two leases; quota, rate, route rate, credit, mode, policy and ceiling change at any time | `DispatchRespectsDeadlines`; `GateReturns` under fairness. 232,800 states |
| `routes` | two routes, two generations, four leases | `GateHeldByTrial`, `ForgottenCircuits`, `TrialsWithinPermits` while the inventory loses and finds a route. 485,751 states |
| `route` | as `routes`, two requests, three leases | finding 1: `ReplacedRouteIsInert` is violated |
| `alias` | two aliases of one account | finding 2: `HealthyAlternativeAdmitted` is violated |

`circuit` and `observations` keep the routes of their member. When routes come and go,
`IncidentEndsByItsTrial` and `DispatchThroughGate` are violated too, by the cause of
finding 1: an old lease takes the fresh circuit of a route that returned for its own, may
end its incident, and may be sent past it once it trips. The theorems below
assume stable routes for the same reason.

Why the bounds are enough: the smallest case of every hazard fits. A late outcome
needs a lease admitted before the incident, one that trips, a trial, and its
successor: four leases. Shared limits need two members on a resource and one that
leaves it. Re-registration needs two generations, with an edit in between three. Two
requests tell a request that votes twice from two that vote once. Larger
instances repeat these; the theorems cover every size for what is proved.

Fairness: only `GateReturns` needs it, and it assumes `WF` of giving up each
live lease, since `CandidateLease` settles or cancels in `Drop`
(`core/runtime/attempt/lease.rs:276`), whatever becomes of the request's task.

### 3.3 Theorems

`RotationEngineProofs`, in four parts, each for every value of the constants that
satisfies `ConstantsAssumption`.

* Types: **`TypeCorrect`**, `Spec => []TypeOK`. `TypeOK` is
  inductive. It holds bounds that matter: a request never starts more dispatches
  than its budget, and each live lease id was issued.
* Leases: **`LeaseInvariant`**, `Spec => []LeaseInv`, and
  from it **`LeasesAreCounted`**, **`GateIsHeldByTrial`** and
  **`ReplacedMemberStaysInert`**. Neither `LeaseAccounting` nor `GateHeldByTrial`
  is inductive. A counter of a member counts leases of its *generation*, so a
  new member must start with a generation that no lease carries (`Generations`);
  a release decides by the generation, whereas the properties speak of the
  replacement (`MemberMarks`: the two agree). `LeaseInv` is their conjunction with
  the types. The proof has a lemma per action; the counting step is the pair
  `OneMore` and `OneLess`, and `CountsKept` for actions that neither admit nor give
  up a lease.
* Limits: **`CapacityLimitIsFresh`** (the cache is inductive on
  its own, given the types), and the action properties
  **`AdmissionStaysWithinLimits`** and **`TrialsStayWithinPermits`**, from
  `LeaseInv`, the fresh cache and the lemma that only `Reserve` adds a lease.
* Circuits: **`ForgottenCircuitsStayForgotten`** and
  **`StreakCountsRequestsAlways`**, both from the lemma `NextMoves`, which lists what
  a step can make of one circuit. The first is inductive, given the types: a step
  that takes a route away closes its circuit, and on a closed circuit of no
  registered route a lease finds no gate to hand back. The second is not: a streak
  equal to its votes says nothing of the next one unless the votes are at most
  `MaxCounted` (`VotesFit`).
* Circuits, under `StableRoutes` (all settings have the same routes; every other
  edit, removals and returns of members included, is allowed):
  **`IncidentsEndByTheirTrial`**, **`DispatchesPassTheGate`** and
  **`DispatchesAreDue`**. `CircuitInv` adds to `LeaseInv` that a closed circuit waits
  for nothing and is in nobody's hands (`Quieted`), and what a lease that was not
  replaced knows of its circuit (`Fitting`): no later epoch, and in its own epoch the
  circuit is past its cooldown, and closed unless the lease is a trial. So an
  outcome of the current epoch comes from the trial that holds the gate, or finds
  the circuit closed. `OutcomeShape` lists what an outcome can do to a circuit; from it
  and `NextMoves`, `NextPasses` gives the moves under the invariant.

## 4. `AdmissionQueue`

### 4.1 State and actions

| Module | Code |
|---|---|
| `queue`, `principals` | `AdmissionQueue.waiters`, `.principals` (`core/runtime/admission.rs:81-87`) |
| `section` | the queue's mutex and the local variables of the turn being computed (`waiting.rs:33-91`) |
| `stage` | where a driver is in `admit` or `wait_for_recovery_event`; `unserved` and `deferring` (`AboutToSleep`) lie between the queue's mutex and the await, `sleeping` and `yielded` (`Asleep`) are the await, after it found no room or behind another's turn |
| `woken`, `armed`, `due` | what its subscribed `Notified` futures and its timers will do |
| `behind` | cooldowns that ended after the driver read the clock for this pass (`waiting.rs:31`), up to its sleep |
| `lease` | the engine lease and the reservation of its request, and whether the release was announced |
| `status`, `hidden`, `retired`, `recoveryEnabled` | the pool and the settings it reads |
| `announcing` | changes made whose `notify_waiters` is still to come |
| `overdue`, `stopped` | the accumulated wait is used up; `AdmissionStopReason` |
| `Admit`, `Resume` | the head of the loop: subscribe, deadline, budget, model |
| `EnterSaturated`, `EnterSection`, `Scan` | the mutex, the saturated fast path, one waiter inspected by `turn` |
| `Grant`, `FindNothing`, `Yield` | `try_reserve_admission` and `served`; nothing found; another waiter's turn; with `register_waiter` |
| `FallAsleep` | the await with its timer (`waiting.rs:92-113`); the timer of a cooldown that ended meanwhile fires at once (`FireTimer`) |
| `ReturnLease`, `ReturnNothing`, `Cancel` | the guard dropped on return and with the future |
| `BeginRecovery`, `Enlist`, `EndRecovery` | `wait_for_recovery_event` |
| `Settle`, `ReleaseReservation`, `AnnounceRelease` | the three steps by which a lease ends (`lease.rs:155-188`, `276-330`) |
| `UpdateMember`, `SetHidden`, `SetRecoveryEnabled`, `RetireForReplacement`, `Announce` | changes, and their notifications in a step of their own |
| `EndCooldown`, `UseUpWait` | time |
| `Arrive`, `GiveUp` | the clients and the drivers around the queue |

Steps end where the code takes or gives up a lock or awaits. `passed` and
`section.ready` are history variables: grants past a ready waiter, and waiters
that could go when the critical section was entered and were not found unready
since. A definition whose name says that it differs (`RoomForOneMore`,
`RemoveWaiterOnly`, `InsertInFront`, `TurnIgnored`, `SubscribeThen`,
`SetRecoveryEnabledSilently`, `NotifyRecoveriesOnly`) is a fault that a run is shown to
detect; no action uses it.

Abstractions: `can_dispatch` of the budget is "not stopped"; a request's route
support and exclusions are the constant set `Eligible`; every member has the same
limit for engine leases and reservations, image lanes are left out; byte limits
(`usize::MAX` in the code) are left out; the retry window and the rate-limit
deadline count as the accumulated wait; a request has one driver at a time; the
drop of a guard and its notification are one step: the notification follows in the same
function and reaches everybody who was subscribed at the removal.

### 4.2 Runs

`CHECK_DEADLOCK FALSE`, since arrivals are bounded: when all requests are gone and
nothing may change any more, the system is at rest.

| Run | Instance | Shows |
|---|---|---|
| `turns` | two requests of one principal and a persistent one of another, one member with room for one, queue of 2 and 2 per principal, four arrivals, one change (configuration, hidden model, a failure with a cooldown) | `TypeOK`; `QueueMatchesDrivers`; `NoLostWakeup`; `DeadlineIsArmed`; `BoundedBypass`: nobody is served twice past another principal's ready waiter; `GrantsInOrder`: oldest first, and nobody is passed who could go when the turn was computed. 1,746,761 states (the two like requests that only differ by name counted once) |
| `wakeups` | three requests of one principal: one may use the first of two members, one either, one the second; the first two wait without a deadline, the third's wait may be used up; four arrivals | `WaitersLeave` under fairness. 69,647 states |
| `stall` | three persistent requests of two principals, two members, one of them for a single request; five arrivals, one change; only behaviours in which route recovery stays enabled are explored (`CONSTRAINT Recovering`) | finding 3: `NoStall` is violated. 1.6 million states up to it |

Why the bounds are enough: fairness across principals needs two, one of them with
more requests than turns; a bypass needs a lease holder, a waiter of each and a
newcomer, which is the fourth arrival. Full queues occur (three requests at a total
limit of 2). A wake-up is lost by one change against one sleeping waiter, so one change
suffices, beside every end of a lease. The theorems cover every size.

Fairness (`Fairness`): drivers run (`WF` of their steps); the queue's mutex and
the guard's drop are served (`SF`, as tokio schedules every ready task and a mutex
is free again and again); leases end (`Drop`); timers fire; an announcement follows
its change in the same function.

**What waiters can rely on.** `NoLostWakeup` is about those who slept because they found no
room. Those who sleep behind another's turn (`yielded`) rely on that other one, and two
principals can defeat it, in two ways that TLC showed:

* *The newcomer's place.* A turn is computed before the newcomer is queued. If its
  principal keeps a place in the order through a request that waits for a recovery, the
  newcomer, once queued, comes before the waiter whose turn it was told to wait for.
  That one wakes, finds the newcomer's turn, and sleeps behind it: everybody sleeps while
  the member is free (run `stall`), until a release, a change or a deadline.
* *The old clock.* A driver inspects with the clock it read before its cooldown ended, so
  it may find every waiter before it unready, be granted another member, and send its
  principal to the back. The turn moves with no notification but its guard's, which a driver that
  never queued does not have. Who slept behind the old turn stays asleep until the next release.

With one principal there is no order to change, and nobody stalls. `WaitersLeave` is
therefore checked with the requests of one. Capacity released between the computation
of a turn and the reservation may also go to a newcomer past an older waiter: this `barging`
lies in the two critical sections of `waiting.rs:57-63`, and `GrantsInOrder` and
`BoundedBypass` speak of who could go *when the turn was computed* for that reason.

### 4.3 Theorems

`AdmissionQueueProofs`, for any requests, principals, members, limits and bounds that
satisfy `AdmissionAssumption`; TLC checked every invariant on the instances of `turns` and
`stall` before it was proved.

* **`ShapeHolds`**, and from it **`TypeCorrect`** and **`QueueMatches`**. `Shape` says of
  the queue (`QueueValues`) that it names each request once, within the limits, and each principal of
  a waiter once in the order; of the drivers (`DriversMatch`) which stages have a place, a
  lease, or the critical section. Neither property is inductive alone: a guard removes
  *the* waiter of its request, and with the last one *the* principal.
* **`NoWakeupLost`**, by `WakeInv`: when no notification is owed (`Calm`), every driver that
  subscribed and was not notified since is `Informed`, that is, the members it could use and that were
  up for its clock had no room when it looked and have none now. `FireTimer` closes the gap of
  cooldowns between the clock and the await.
* **`DeadlinesArmed`**, by `DeadlineInv`, the same fact for every driver between its
  subscription and its wake-up.
* **`GrantsOrdered`**, by `SectionInv`: what the owner of the section knows of the waiters it
  passed over, and that those in `ready` come no earlier than the turn.
* **`BypassBounded`**, by `BypassInv`: whoever was passed by a principal comes before it in the
  order until it is served.
* **`OnePrincipalNeverStalls`**: if all requests have one principal, `Spec => []NoStall`, which
  between principals the run `stall` refutes (finding 3). `YieldInv` carries it: while no
  wake-up is on its way (`Still`), whoever defers and could go has an older waiter that could
  (`Excused`), and its timers cover every member that cools down. `ComputedInv` says that what the
  owner of the section found out still holds for its clock when it decides, `KindInv` that only
  selecting waiters defer. When all is quiet, the oldest waiter that could go is then behind
  nobody, so it sleeps for want of room, and `WakeInv` says that it has none. The age of a waiter
  orders turns only within a principal, which is why the argument, and the property, stop there.
  TLC checked the three invariants on one principal before the proof (6.4 million states; no
  run keeps that instance, which is too large for the ones here).

## 5. `TokenRotation` and `GrantLedger`

### 5.1 State and actions

The sign-in of one account holds a refresh grant that the provider replaces at each
renewal. The danger is to send a replaced one again: the provider then revokes the
whole family. The protocol stores a checkpoint before the exchange, the new pair in
the checkpoint after it, the credential after that, and clears the checkpoint.

| Module | Code |
|---|---|
| `primary`, `rotation` | the stored credential and its rotation checkpoint (`accounts/credentials/store.rs`) |
| `account` | token generation and auth state of the account record |
| `lock` | the owner named in the lock file (`accounts/authority/lock.rs`) |
| `registered`, `slot` | `TokenAuthority.slots` and the slots some `Arc` still refers to (`token_authority/registry.rs`) |
| `superseded` | requests whose snapshot of the slot's revision was overtaken (`revision.rs`; numbers are only compared for equality) |
| `PrepareStart` ... `StartRefresh` | `prepare_inner` up to the exchange (`prepare.rs`) |
| `LoadStored` ... `Send` | `refresh_inner` under the process lock: reread, recover, checkpoint (`authority/refresh.rs`) |
| `ProviderRotates`, `ProviderFails` | the provider, and what `exchange_refresh_token` makes of its answer or silence (`oauth/client.rs:322-353`) |
| `CheckpointRotation` ... `DropResult` | what follows the answer, in the order of the writes |
| `SaveTokens` ... `SaveAuth` | pending writes of tokens, generation and auth state (`authority/persistence.rs`) |
| `Dispatch`, `Accepted`, `Invalidate` | the fence at the dispatch and a 401 (`runtime/authorization/dispatch.rs`, `registry.rs:289`) |
| `CommitLogin` ... `ReadBack` | a sign-in (`commands/oauth/completion.rs`) |
| `DeleteCredential`, `DeleteCheckpoint`, `DeleteAccount` | a deletion (`accounts/mutations/delete.rs`) |
| `StartEdit`, `SaveEdit`, `FinishEdit` | a proxy edit (`commands/proxies/apply.rs`) |
| `StorageFault`, `LockTimeout`, `Cancel`, `Crash`, `Assemble`, `BreakLock` | failed writes, dropped futures, restarts |

`GrantLedger` is the abstract specification: what this client promises of its grants.
A grant whose replacement was received, or whose exchange was dropped by a cancelled
request or a crash, is never sent again. `TokenRotation` implements it
(`Ledger == INSTANCE GrantLedger WITH Grants <- Grants, use <- use`, property
`ObeysLedger`). The ledger's `Send(g)` demands `use[g]` fresh, refused or lost, whereas the
`Send` of `TokenRotation` reads only what the code reads: the stored credential, the
checkpoint, the slot. `use` is what became of the grant, which no guard of the code sees.

**What is not promised: lost answers.** An exchange that runs to its end without a
readable answer (the 20 s timeout of `client.rs:90`, a connection lost while the body is
read, an unreadable body after a success) is a transient failure, like one that never
reached the provider. `refresh_inner` then clears the checkpoint (`refresh.rs:289-306`), and
the grant, which the provider may have rotated, is sent again after a backoff. This is the
code's stated policy: "Preserve native OAuth's existing failure/backoff policy; this barrier
protects known successful rotations" (`refresh.rs:295-296`); and
`refresh_token_reused` stays transient "because another refresh may already have rotated the
grant" (`PLANNING.md:986-987`). `ProviderFails` has the outcome in every instance, and the
ledger a value of its own for it: `lost`, apart from `fresh` (known not rotated) and
from `unknown` (dropped before its answer). Nothing here shows that a lost grant is
not rotated, or is sent once only. If the same exchange is dropped instead of timing out, its
checkpoint stays, and the next load asks for a sign-in.

`Windows` names interleavings in which the code forgets what it knows of a grant, and
which an instance leaves open or closes: `edit` (finding 4), `rejection` (a 401 is
stored while the checkpoint of a dropped exchange names the same grant,
`registry.rs:289-331` with `persistence.rs:76-91`) and `rollback` (a failed deletion
puts the secret back without its checkpoint, `cleanup.rs:30`). **The run `tokens`
closes all three**: it shows that the protocol keeps the ledger apart from them. Each of
them, opened alone, violates `ObeysLedger`. `rejection`, after a restart, contradicts
`docs/project/PLANNING.md:994-996` as `edit` does.

Assumed: an access token outlives its sign-in; the lock of a living process is not
taken for a dead one; one user task, since commands hold `setup_guard`
(`state.rs:283`). Left out: access-only tokens, the backoff of failed refreshes, the
pending rotation of another sign-in, answers that do not rotate, import and its
rollback, profile synchronisation, notes of a login, the trash,
`expire_account_access`, and the pool and route records that an edit also saves.

Seen in the code and outside the model's bounds or assumptions, for its maintainers:
two tokens issued in the same second compare as equally new; `recover_stale_lock`
checks and removes in two calls; an end of the process in the middle of a deletion
leaves an orphaned checkpoint; an edit during an exchange drops the pair received.

### 5.2 Runs

| Run | Instance | Shows |
|---|---|---|
| `tokens` | two requests, the user, two grants, a token of one tick, clock 0..1, one mishap (failed write, dropped request, restart, edit), no window | `TypeOK`; `PreparedMatchesSlot`: what passes the fence is the current token; `BuriedStayBuried`: nothing from before a deletion returns; `SpentGrantIsFenced`; `ReceivedPairIsKept`; `ObeysLedger`, with answers lost at any exchange. 1,336,226 states (requests that only differ by name counted once) |
| `tokens_edit` | one request, three grants, window `edit` | finding 4: `ObeysLedger` is violated |

Why the bounds are enough: a grant sent twice takes the stored grant, its
replacement and one reason to forget it; two requests are needed for one that
waits for the slot while another renews, or that carries an old snapshot. The same
properties held with two mishaps (6.9 million states), and with one request, three
grants, three mishaps and clock 0..2 (70.0 million). The requests are interchangeable and no
property names one, so the symmetry is sound for the invariants and for the safety property
`ObeysLedger`.

### 5.3 Theorems

Two modules, for any requests, grants, lifetimes and bounds that satisfy the
assumptions of `TokenRotation` (`NoneAssumption`: no credential, checkpoint or account is
the `None` of the model).

* `TokenRotationProofs`, with every window open. `Structure` is who holds what: the
  process lock from the load of a renewal to the write of its answer, the mutex of a slot while
  a request is inside it, what each stage carries (`StageInv`), and that only the
  holder of both moves the registered slot under a renewal (`CurrentInv`, `SettledInv`).
  **`StructureHolds`** and **`TypeCorrect`** follow. **`PreparedMatches`**: `DispatchInv` adds
  that whoever holds the slot's token was told when it changed; the proof classifies each step as one
  that leaves the slot's token, or tells, or belongs to the renewal that has told (`Tells`).
  **`BuriedStay`**: `BurialInv` says that no place, stored or carried, holds a buried
  grant, unless it belongs to a slot that is not registered any more.
* `TokenLedgerProofs`, assuming `Windows = {}`. The properties relate what *became*
  of a grant to what the machine holds, and none of them is inductive. `LedgerInv` has four parts: what
  is true of the checkpoint, the grants in flight and the issued ones (`Apart`); what each
  request's exchange has established (`ExchangeInv`); what each write under way has yet to
  do (`WriteInv`); and the store against the slot and the checkpoint (`StoreInv`), for the
  stored credential and for the one a failed sign-in would put back. **`LedgerHolds`**,
  **`SpentGrantFenced`**, **`ReceivedPairKept`**, and **`LedgerObeyed`**: the refinement of
  `GrantLedger`, step by step. The invariant was checked by TLC before: one request and two grants
  with two mishaps (663,423 states), three grants with one (3,501,252), two requests
  (1,336,226), lost answers in all three.

`Windows = {}` is a real restriction: each window opened is a violation (section 5.1). With
all three closed, the theorems exclude that a grant is sent again whose replacement was
received or whose exchange was dropped. They do not exclude it of a grant whose
answer was lost: the ledger allows that, as the code does. `ReceivedPairKept` speaks of
the time until a restart, an edit or the removal of the slot: a crash may lose a
pair that no write has stored yet, and the checkpoint then asks for a sign-in.

## 6. The services around the gateway

### 6.1 One run for five services

`MCBackground` holds the variables of five modules that share none. `focus`, chosen
initially, names the one that runs, and the others rest in their initial states: the state
space is the sum of the five, not their product. The properties of a resting
module hold of its initial state, so each property is about the behaviours with its
focus. `Served` is one liveness property per focus. `BackgroundProofs` proves
**`ServicesAreIndependent`**: every behaviour of `MCBackground` is one of each of the five
specifications, so what is proved of a service holds in it; and **`BackgroundTypeCorrect`**. In all 636,399 states:

| Focus | Instance | States |
|---|---|---|
| `gate` | origins x and y, on each a sign-in and an ordinary call; two permits, two per origin, one reserved, two waiters | 79,000 |
| `refresh` | one account's quota read under two revisions, one caller, two running reads, intervals of 1, one deferral | 82,000 |
| `wake` | two windows of one account, two attempts, one crash or failed write, one command | 287,000 |
| `pool` | two routes of one member with limit 1, two requests, two edits, three registrations, two groups of fences | 67,648 |
| `vault` | a snapshot, a source and a credential, two secrets, any number of failures and crashes | 120,356 |

`CHECK_DEADLOCK FALSE`: the bounded wake and pool instances come to rest.

### 6.2 `HttpGate`

| Module | Code (`core/scheduler/refresh/http.rs`) |
|---|---|
| `total`, `ordinary`, `origins`, `waiters` | `State` |
| `caller`, `notified` | where each call of `acquire` is; its `Notified` future |
| `AcquireHttp`, `Subscribe` | `acquire`, and `enable` of the future before the mutex is taken |
| `Admit`, `RefuseHttp`, `EnqueueHttp`, `StayQueued` | the critical section |
| `GiveUp`, `LeaveQueue` | the timeout or a dropped future, then `Waiting::drop` |
| `ReleaseHttp`, `Announce` | `HttpPermit::drop`, and `notify_waiters` after the mutex |

`AuthReserve`: ordinary calls leave the reserved permits, in all and per origin, and
the reserved places of the queue. `TurnIsAwake`: the waiter whose turn it is is
awake, notified, or about to be. `Served`: a queued sign-in is admitted or gives up,
under `WF` of each caller's own steps (tokio runs every woken task); nothing is
assumed of timeouts. An ordinary call may starve beside sign-ins, and then ends by its
30 s timeout: nothing is claimed of it. `ManagementHttpGate::new` accepts a
`max_waiters` below `reserved_auth`; ordinary calls then never queue, and `AuthReserve`
is stated so that it holds there too. In the instance the limit per origin equals the total, so that
of the limits per origin only the reserve binds by itself; `AuthReserve` and `TurnIsAwake` also held with
five callers, three permits and two per origin (1,158,391 states, without liveness), and are
proved for every limit.

Proved (`BackgroundProofs`), for any callers, origins and accepted limits:
`GateTypeCorrect`, `AuthReserveAlways`, `TurnIsAwakeAlways`. The counters grow only in
`Admit`, under `HasCapacity`, and the queue only under `~QueueFull`. For the turn: it is
the first queued caller with capacity; an action either leaves every caller's capacity
and the order as they were, or ends in a stage from which a notification follows.

### 6.3 `RefreshService`

| Module | Code (`core/scheduler/refresh*`) |
|---|---|
| `entry`, `jobs`, `spacing`, `cursor` | `RefreshCoordinator`, with the sender of the service's `Entry` |
| `asking`, `driver`, `changed`, `unsignalled` | callers of `request`, the `drive` loop, its signal and the gap before it |
| `Register`, `RemoveKeys`, `SetAutomatic` | `service/register.rs`, `membership.rs` |
| `RequestRead`, `AbandonRead`, `MarkDirty`, `ScheduleAfter`, `RespectRetryAfter`, `ObservePassiveQuota`, `ShutdownRefresh` | the service's operations |
| `ClaimDue`, `DriveTurn`, `WakeDriver`, `FinishDrive` | `drive`: claim what is due, arm the timer, select |
| `JobEnds` | `complete`, the read's answer |

Instants are the time left, so the clock needs no bound. Left out: the active and idle
cadence, freshness, cached values, the growing delay after a read that makes no
progress (any failed read has one delay), the bound on entries.

`RetiredReadIsInert`: the answer of a read whose registration was removed changes
nothing, even when the key was registered again. `EventLeadsToRead`: an event before
or during a read is followed by another read. `DriverSeesDue`: a driver that
sleeps unsignalled wakes by the earliest instant at which a read may start. `Served`: a
caller is answered or leaves. Fairness: `WF` of the signal that follows an operation in
the same function, of time and of the driver; `SF` of the end of each read, as reads
have HTTP timeouts and `tokio::select!` polls its branches in random order, so other
wake-ups cannot starve a finished read for ever.

Proved (`BackgroundProofs`), for any accounts, revisions, callers and limits that satisfy
`RefreshAssumption` (`ClassOrder` lists every class, as `CLASS_ORDER` of `limits.rs` does):
`RefreshTypeCorrect`, `EventAlwaysLeadsToRead`, `DriverAlwaysSeesDue` and
`RetiredReadStaysInert`. The inductive invariant `RefreshIInv` has three parts. `CoreInv`:
callers wait at entries that know of them, a read that runs is the job of its key or retired
(`Linked`), and what an event is owed stays asked for (`EventInv`). `TimerInv`: a driver that
sleeps unsignalled has a timer no later than any claimable read. `StoppedInv`: nothing is registered
after a shutdown, without which the driver could end with an event owed.

What is *not* claimed: an event during a read only sets `dirty`. The follow-up then
stands in `next_due`, so a later `observe_passive_quota` postpones it, although the
comment at `coordinator.rs:164` reads as if events were kept; and a dirty event merges with a
later reset check. `owed` follows what the code does.

### 6.4 `QuotaWake`

| Module | Code |
|---|---|
| `memory`, `stored` | `WakeCoordinator.state` and `AutomationRecords` (`state/coordination.rs`) |
| `worker`, `permits`, `wakeNotified` | `wake_loop` and its batch (`background/wake_worker.rs`), the permit of `wake_notify` |
| `command` | the command under `setup_guard` and what it has read |
| `EvaluateWake`, `NaturalUse` | a quota read, a request of the user |
| `ReadNextDue` ... `FailToComplete` | the worker: wait, claim, check, send, complete |
| `BeginEdit`, `ReadRecords`, `WriteRecords` | `commands/automations.rs` |
| `BeginDelete` ... `RollbackDelete` | `accounts/mutations/delete.rs` |
| `CrashWake`, `PassTime` | restart, time |

`WakeBudget`: at most `max_attempts_per_cycle` requests per window. `SettledIsFinal`: no
request begins for a window that was used or seen to count down. `WorkerSeesDue`: a
sleeping worker's timer is early enough, or it is notified. `Served`: a pending wake
is claimed, finished or cancelled, under `WF` of the worker and of time.

The first two exempt states after `reverted`, a history variable: some write put
older records over newer ones and forgot an attempt or an end. The code does
that in a deletion, which writes back the automations it captured before the removal (and
whose failure reverts memory too), and in the commands of `automations.rs`, which clone and replace
under separate locks. After it a window may be requested again, although
`refresh/automations.rs` says "repeated reads/restarts must never create another wake
request" (also `PLANNING.md:631-634`). A failing write in `complete_wake` leaves a cycle in
flight until the next start. Left out: the bounds of 1,024 cycles and 256 of history with
their eviction (which also forgets), confirmation mode, several tasks,
inactive sessions, weekly resets, a late usage event that ends a newer cycle, account
records written by a deletion. An instance with two accounts was checked as well
(983,040 states).

Proved (`QuotaWakeProofs`), for any windows, accounts and bounds: `WakeTypeCorrect`,
`WakeBudgetAlways`, `SettledIsFinalAlways`, `WorkerSeesDueAlways`. The inductive
invariant `WakeIInv` adds to the types: `WorkerShape` (which permits the worker holds
at each of its steps; the types are not inductive without it), `Ledger` (unless
`reverted`, the cycles in memory and in the store both account for every request sent
and every permit out, and are finished for windows used or confirmed) and
`TimerCovers`. Commands keep the ledger because the records they hold account for less
only when the write sets `reverted`.

### 6.5 `PoolMembers`

| Module | Code (`core/scheduler/selection/*`, `runtime/attempt/lease.rs`) |
|---|---|
| `candidates`, `tombstones`, `permission`, `activity`, `memberActivity` | `PoolScheduler`: members, `retired_candidates`, `candidate_permission_revisions`, active requests |
| `fences`, `fenceEpoch`, `fenceHolder` | `execution_fences`, and the `ExecutionFence` of each edit |
| `poolLease` | the lease of each request, with the permission it was reserved with |
| `UpsertCandidate`, `UpdateAvailability`, `RemoveCandidate` | `registry.rs` |
| `BeginFence`, `EndFence` | `begin_execution_fence`, `end_execution_fence` |
| `ReserveRequest`, `DispatchRequest` | `reservations.rs`, and the last gate before sending |
| `SettleRequest`, `ReleaseRequest` | the two critical sections of a lease's end |

`MemberWithinLimit`: a member stays within its limit through removal and return.
`RevokedIsNotSent`: what was reserved on a registration that changed since is not sent.
`FenceHolds`: a fenced candidate is invisible, and a fence that outlives a removal opens
nothing of the successor. Left out: image lanes, capability blocks, quota reserve,
recovery of cooldowns, the change of a member's key under its
reservations (the program never does it). An availability update revokes nothing, by design:
disabled and enabled again by a fresh account state, a candidate keeps its leases. An
administrative change equal to the current operational state counts as none.
`update_account_policy` (`policy.rs:92-113`) on a tombstone clones and registers it,
which revives it: that is an `UpsertCandidate` here.

Proved (`PoolMembersProofs`), for any candidates, members, limits, requests and edits:
`PoolTypeCorrect`, `MemberWithinLimitAlways`, `FenceHoldsAlways`, `RevokedIsNeverSent`.
Their invariants: `Counted` (counters are cardinalities of lease sets, leases name known candidates),
`Fenced` (a fence's count is the number of its holders not removed, all of the current
epoch; a removed holder is of an earlier one) and `Permitted` (a lease's permission is
at most its candidate's, and a stale reserved one is smaller or its candidate drains).

### 6.6 `SecretVault`

| Module | Code |
|---|---|
| `vaultData`, `main`, `backup` | `vault_data`, `secrets.enc`, `secrets.enc.bak` (`store/vault.rs`) |
| `vaultWriter` | the replacement in progress, under the mutex: stage, drop the backup, move aside, install, sweep |
| `keeper`, `listed` | the command under `setup_guard`; snapshot files and sources |
| `Stage` ... `Sweep`, `FailReplace` | `atomic_replace`, a step per call; a failure of any of them |
| `CreateRecord`, `WriteRecord`, `Rebuild`, `DeleteRecord`, `Relist`, `DeleteFromKeyring` | `create_with` and `delete_with` (`profiles/snapshots.rs`), `create_local_source` and `delete_local_source` (`commands/connections/edit.rs`) |
| `CredentialWrites` | any other secret saved in the background |
| `OpenVault`, `CrashVault` | `Vault::open`; the end of the program at any step |

`VaultSurvives`: at each step, what the next start would read is what is in memory or
what was there before the replacement in progress, and every listed record has its
secret. Two failures are exempted by history variables, and are worth knowing:

* `stranded`: installing the new file fails *and so does* moving the backup back. The backup
  is then the only copy, and the next `atomic_replace` deletes it first
  (`vault.rs:272-283`): an end of the program before its installation loses every secret.
* `unpaid`: `secret_store::delete` removes the secret from the vault, then fails in the
  keyring. `delete_with` writes the snapshot's record back without a payload
  (`snapshots.rs:287-290`; the list then counts it as invalid), whereas
  `delete_local_source` saves the secret again (`edit.rs:317-345`).

Left out: copies of older versions in the keyring and their migration, the key of agent
messages, the clean-up of the gateway key, encryption, size limits. Writing one record
is one step, as it is one `atomic_write`; renames become durable in order.

Proved (`SecretVaultProofs`), for any records and secrets: `VaultTypeCorrect` and
`VaultAlwaysSurvives`, from `VaultInvariant`. `VaultSurvives` is not inductive:
`VaultIInv` adds what both files hold at each step of a replacement (`FilesFollow`), that
one replacement changes one secret, of no listed record
(`OneSecret`), where a command stands between its record and its secret (`Unlisted`,
`Paid`, `WriterOfCommand`), and that memory and files each have the secret of every
listed record. While the program is down nothing moves (`StaysDown`).

## 7. Findings

Each is a run that TLC shows to be violated.

1. `ReplacedRouteIsInert` (run `route`): a route that is lost and found again
   starts with a fresh circuit, and a lease admitted before the loss still
   updates it, since routes have no generation; `types.rs:433` says late outcomes
   cannot. It may also end the new circuit's incident, or be sent past it (section 3.2).
2. `HealthyAlternativeAdmitted` (run `alias`): of the aliases of a physical member
   only the first ready one is kept before the recovery permits are looked at, so
   a recovering alias hides its healthy sibling; the test
   `saturated_recovery_permit_does_not_hide_healthy_alternative` states the opposite
   of two members.
3. `NoStall` (run `stall`): a newcomer is queued after the turn it yields to was computed, and may
   come before that turn; the two then sleep behind each other while a member both may use is
   free (section 4.2). `admission.rs:1` says "oldest-compatible, principal-fair admission", and
   `waiting.rs:13-14` that no event of the gap is lost.
4. `ObeysLedger` (run `tokens_edit`): a proxy edit reads the whole credential,
   awaits, and writes its copy back without the account's process lock. A renewal in
   between is undone on disk and its checkpoint is gone, so the consumed grant is
   sent again; `docs/project/PLANNING.md:994-996` and `refresh.rs:227-228` exclude that.

Narrower ones are described where the property exempts them: sections 5.1, 6.3, 6.4
and 6.6.

## 8. What is proved, what is checked, what is neither

Proved by TLAPS for every value of the constants that satisfies the named assumptions:
every invariant and every action property of the passing runs, and the refinement of
`GrantLedger` (sections 3.3, 4.3, 5.3 and 6.1 to 6.6). Each is the invariance of a strengthened
invariant, or an action property derived from it. Three hypotheses are more than the modules'
own assumptions: three theorems of section 3.3 assume `StableRoutes`, those of
`TokenLedgerProofs` assume `Windows = {}`, and `OnePrincipalNeverStalls` one principal;
findings 1, 4 and 3 are what happens without.

Checked by TLC on the instances above only: all liveness (`GateReturns`, `WaitersLeave`,
`Served`), which depends on fairness and `ENABLED`, and what the four violation runs
show. No module declares a `RECURSIVE` operator: `RefreshService` and `HttpGate` use bounded
choices and the operators of `SequencesExt` and `FiniteSetsExt`. Nothing here needs induction
over data.

Not modelled, and why:

* the request driver: the models allow every call of it whenever the code accepts
  it, so what is shown holds for every driver; what only holds because of its own
  order is not claimed;
* affinity maps and selection policies: `RotationEngine` leaves the choice among
  ready members open, so nothing it shows depends on them; that they choose well is
  not shown;
* streaming, the WebSocket bridge, protocol adapters, providers, catalog and pricing: data
  transformation and I/O with little shared state. They are most of the repository's
  lines, which is why the modelled share of them is small;
* apply and repair of application profiles, the usage writer, the shell and the user
  interfaces.

## 9. Running

`tlc -config RotationEngine_circuit.cfg MCRotationEngine` checks a run (the cfg's
name begins with the specification, and the MC module is `MC` and its name; the five
services: `tlc -workers 2 -config Background.cfg MCBackground`, about three minutes);
`tlapm BackgroundProofs.tla` checks the proofs of a module.
