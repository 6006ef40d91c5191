--------------------------- MODULE RefreshService ---------------------------
(***************************************************************************)
(* RefreshService and the RefreshCoordinator it drives                     *)
(* (crates/relay-core/src/scheduler/refresh): one periodic read per key,   *)
(* asked for by the clock, by events, or by callers who wait for it.  A    *)
(* key names an account or source, a kind of read and the revision of the  *)
(* configuration it was registered with.                                   *)
(*                                                                         *)
(* Every operation runs under the state mutex and is one step; the signal  *)
(* that follows it, the driver's turn and the end of a read are others.    *)
(* Instants are kept as the time left until them, so that the clock needs  *)
(* no bound; past ones are 0.  The model has one cadence: which members    *)
(* are active, how fresh a value is and the growing backoff of a read that *)
(* makes no progress are left out.                                         *)
(***************************************************************************)
EXTENDS Integers, Sequences, FiniteSets, FiniteSetsExt, Functions

CONSTANTS
  Keys,
  MemberOf, KindOf, RevisionOf, OriginOfKey,
  ClassOrder,        \* CLASS_ORDER
  RefreshCallers,    \* tasks that may call request
  Jobs,              \* JobIds; an id nobody refers to is used again
  RunLimit, OriginLimit, AuthShare,   \* RefreshLimits
  Interval, MinimumInterval, RetryAfter, Spacing,
  MaxDeferrals,      \* bound on respect_retry_after
  Never,
  NoEntry

VARIABLES
  entry,        \* RefreshCoordinator.entries, with the sender of the service's Entry
  jobs,         \* RefreshCoordinator.jobs: what runs
  spacing,      \* time until the next start, of any read and of each origin
  cursor,       \* class_cursor
  asking,       \* the key each caller waits for, NoEntry if it does not
  driver,       \* where the drive loop is and the time left on its timer
  changed,      \* the signal the driver has not seen
  unsignalled,  \* an operation released the mutex and has not signalled
  stopped,
  retired,      \* history: running jobs whose registration was removed
  owed,         \* history: time until the earliest event no read has answered;
                \* events coalesce with the earliest that is pending
  deferrals

refreshVars == <<entry, jobs, spacing, cursor, asking, driver, changed, unsignalled,
                 stopped, retired, owed, deferrals>>

AuthKeys == {k \in Keys : KindOf[k] = "Auth"}
Scopes   == {OriginOfKey[k] : k \in Keys} \cup {"any"}
Horizon  == Max({Interval, MinimumInterval, RetryAfter, Spacing})
Instants == 0..Horizon \cup {Never}
Running  == DOMAIN jobs

ASSUME RefreshAssumption ==
  /\ IsFiniteSet(Keys) /\ IsFiniteSet(Jobs) /\ 0 \notin Jobs
  /\ NoEntry \notin Keys /\ Never \notin Nat
  /\ RunLimit \in Nat /\ OriginLimit \in Nat /\ AuthShare \in Nat
  /\ AuthShare < RunLimit /\ AuthShare < OriginLimit
  /\ {Interval, MinimumInterval, RetryAfter, Spacing} \subseteq Nat \ {0}
  /\ Cardinality(Jobs) >= RunLimit /\ MaxDeferrals \in Nat
  /\ ClassOrder \in Seq(Range(ClassOrder)) /\ ClassOrder # <<>>
  /\ \A k \in Keys : KindOf[k] \in Range(ClassOrder)

Entries ==
  [next : Instants, floor : 0..Horizon, again : Instants, event : Instants,
   passive : Instants, automatic : BOOLEAN, manual : BOOLEAN, dirty : BOOLEAN,
   unsupported : BOOLEAN, job : Jobs \cup {0}, awaited : BOOLEAN]

ASSUME NoEntryAssumption == NoEntry \notin Entries

\* RefreshEntry::new
NewEntry ==
  [next |-> Never, floor |-> 0, again |-> Never, event |-> Never, passive |-> Never,
   automatic |-> TRUE, manual |-> FALSE, dirty |-> FALSE, unsupported |-> FALSE,
   job |-> 0, awaited |-> FALSE]

Registered == {k \in Keys : entry[k] # NoEntry}
IsRunning(k) == entry[k].job # 0

Drivers == [at : {"off", "turn", "select", "finished"}, timer : Instants]

RefreshTypeOK ==
  /\ entry \in [Keys -> Entries \cup {NoEntry}]
  /\ Running \subseteq Jobs /\ \A j \in Running : jobs[j] \in Keys
  /\ spacing \in [Scopes -> 0..Horizon]
  /\ cursor \in DOMAIN ClassOrder
  /\ asking \in [RefreshCallers -> Keys \cup {NoEntry}]
  /\ \A c \in RefreshCallers : asking[c] # NoEntry =>
       asking[c] \in Registered /\ entry[asking[c]].awaited
  /\ driver \in Drivers
  /\ changed \in BOOLEAN /\ unsignalled \in BOOLEAN /\ stopped \in BOOLEAN
  /\ retired \subseteq Running
  /\ \A k \in Registered : IsRunning(k) => entry[k].job \in Running \ retired
  /\ owed \in [Keys -> Instants] /\ deferrals \in 0..MaxDeferrals

RefreshInit ==
  /\ entry = [k \in Keys |-> NoEntry]
  /\ jobs = <<>> /\ cursor = 1
  /\ spacing = [o \in Scopes |-> 0]
  /\ asking = [c \in RefreshCallers |-> NoEntry]
  /\ driver = [at |-> "off", timer |-> Never]
  /\ changed = FALSE /\ unsignalled = FALSE /\ stopped = FALSE
  /\ retired = {} /\ owed = [k \in Keys |-> Never] /\ deferrals = 0

-----------------------------------------------------------------------------
(* Instants *)

Earliest(t, u) == IF t = Never THEN u ELSE IF u = Never THEN t ELSE IF t < u THEN t ELSE u
Latest(t, u)   == IF t < u THEN u ELSE t
NotBefore(t, floor) == IF t = Never THEN Never ELSE Latest(t, floor)
Sooner(t) == IF t = Never \/ t = 0 THEN t ELSE t - 1

\* RefreshEntry::schedule
Schedule(e, due) ==
  IF e.unsupported THEN e
  ELSE IF e.job # 0 THEN [e EXCEPT !.again = Earliest(@, due)]
  ELSE [e EXCEPT !.next = Earliest(@, due)]

-----------------------------------------------------------------------------
(* Capacity and choice *)

Ordinary(set) == {j \in set : jobs[j] \notin AuthKeys}
AtOrigin(o)   == {j \in Running : OriginOfKey[jobs[j]] = o}

\* capacity_available: jobs of removed registrations count.
RunCapacity(k) ==
  /\ Cardinality(Running) < RunLimit
  /\ Cardinality(AtOrigin(OriginOfKey[k])) < OriginLimit
  /\ k \notin AuthKeys =>
       /\ Cardinality(Ordinary(Running)) < RunLimit - AuthShare
       /\ Cardinality(Ordinary(AtOrigin(OriginOfKey[k]))) < OriginLimit - AuthShare

Claimable ==
  {k \in Registered : ~IsRunning(k) /\ ~entry[k].unsupported /\ entry[k].next # Never
                      /\ RunCapacity(k)}

\* eligible_at
EligibleAt(k) ==
  Max({entry[k].next, entry[k].floor, spacing["any"], spacing[OriginOfKey[k]]})

Due == {k \in Claimable : EligibleAt(k) = 0}

Turns == Len(ClassOrder)
ClassAfter(n) == ClassOrder[((cursor - 1 + n) % Turns) + 1]
ClassDistance(k) == CHOOSE n \in 0..Turns - 1 :
  /\ ClassAfter(n) = KindOf[k]
  /\ \A m \in 0..n - 1 : ClassAfter(m) # KindOf[k]

\* Reads of one class are taken by their due times: any of them here.
FirstDue == {k \in Due : \A l \in Due : ClassDistance(k) <= ClassDistance(l)}

-----------------------------------------------------------------------------
(* Operations of the hosts: each takes the mutex, then signals *)

Signalling == unsignalled' = TRUE

\* remove_entry: who waits is told Stale, what runs is charged until it ends.
Without(keys) ==
  [k \in Keys |-> IF k \in keys THEN NoEntry ELSE entry[k]]
Retire(keys) ==
  /\ retired' = retired \cup {entry[k].job : k \in {l \in keys \cap Registered : IsRunning(l)}}
  /\ asking' = [c \in RefreshCallers |-> IF asking[c] \in keys THEN NoEntry ELSE asking[c]]
Forgiven(keys) == [k \in Keys |-> IF k \in keys THEN Never ELSE owed[k]]

\* request_now
Asked(e) ==
  LET supported == [e EXCEPT !.unsupported = FALSE]
  IN  IF e.job # 0 THEN supported ELSE Schedule([supported EXCEPT !.manual = TRUE], 0)

\* mark_dirty and schedule_event, whose guard this is
TakesEvents(k) == k \in Registered /\ entry[k].automatic /\ ~entry[k].unsupported
WithEvent(e, at) == Schedule([e EXCEPT !.event = Earliest(@, at)], at)

\* register_origin
Reconciled(e, due) == IF e.job = 0 THEN Schedule(e, due) ELSE e

\* set_automatic
SetAutomatic(e, automatic) ==
  [e EXCEPT !.automatic = automatic,
            !.event = IF automatic THEN @ ELSE Never,
            !.next = IF automatic \/ e.job # 0 THEN @ ELSE Never]

SameRead(k, l) == MemberOf[k] = MemberOf[l] /\ KindOf[k] = KindOf[l]

Register(k, automatic, due_now) ==
  LET obsolete == {l \in Registered \ {k} : SameRead(k, l)}
      is_new == k \notin Registered
      old == IF is_new THEN NewEntry ELSE entry[k]
      kept == SetAutomatic(
                Reconciled(old, IF is_new /\ due_now /\ automatic THEN 0 ELSE Interval),
                automatic)
      activated == automatic /\ ~old.automatic /\ due_now
      scheduled == IF activated /\ ~kept.unsupported THEN WithEvent(kept, 0) ELSE kept
  IN  /\ ~stopped
      /\ \A l \in obsolete : RevisionOf[l] < RevisionOf[k]
      /\ entry' = [Without(obsolete) EXCEPT
                     ![k] = IF old.awaited THEN Asked(scheduled) ELSE scheduled]
      /\ Retire(obsolete)
      /\ owed' = [Forgiven(obsolete) EXCEPT
                    ![k] = IF ~automatic THEN Never
                           ELSE IF activated /\ ~kept.unsupported THEN 0 ELSE @]
      /\ driver' = IF driver.at = "off" THEN [driver EXCEPT !.at = "turn"] ELSE driver
      /\ Signalling
      /\ UNCHANGED <<jobs, spacing, cursor, changed, stopped, deferrals>>

\* remove_member, remove_kind and retain
RemoveKeys(keys) ==
  /\ keys # {} /\ keys \subseteq Registered
  /\ entry' = Without(keys)
  /\ Retire(keys)
  /\ owed' = Forgiven(keys)
  /\ Signalling
  /\ UNCHANGED <<jobs, spacing, cursor, driver, changed, stopped, deferrals>>

RequestRead(c, k) ==
  /\ ~stopped /\ asking[c] = NoEntry /\ k \in Registered
  /\ entry' = [entry EXCEPT ![k] = [Asked(@) EXCEPT !.awaited = TRUE]]
  /\ asking' = [asking EXCEPT ![c] = k]
  /\ driver' = IF driver.at = "off" THEN [driver EXCEPT !.at = "turn"] ELSE driver
  /\ Signalling
  /\ UNCHANGED <<jobs, spacing, cursor, changed, stopped, retired, owed, deferrals>>

\* The caller's future is dropped: the read goes on.
AbandonRead(c) ==
  /\ asking[c] # NoEntry
  /\ asking' = [asking EXCEPT ![c] = NoEntry]
  /\ UNCHANGED <<entry, jobs, spacing, cursor, driver, changed, unsignalled, stopped,
                 retired, owed, deferrals>>

\* Mutant: a change during the read is taken to be covered by it.
DirtyIfIdle(e) == IF e.job # 0 THEN e ELSE WithEvent(e, 0)

Dirtied(e) == IF e.job # 0 THEN [e EXCEPT !.dirty = TRUE] ELSE WithEvent(e, 0)

MarkDirty(k) ==
  /\ TakesEvents(k)
  /\ entry' = [entry EXCEPT ![k] = Dirtied(@)]
  /\ owed' = [owed EXCEPT ![k] = 0]
  /\ Signalling
  /\ UNCHANGED <<jobs, spacing, cursor, asking, driver, changed, stopped, retired, deferrals>>

ScheduleAfter(k, delay) ==
  /\ TakesEvents(k)
  /\ entry' = [entry EXCEPT ![k] = WithEvent(@, delay)]
  /\ owed' = [owed EXCEPT ![k] = Earliest(@, Earliest(entry[k].event, delay))]
  /\ Signalling
  /\ UNCHANGED <<jobs, spacing, cursor, asking, driver, changed, stopped, retired, deferrals>>

\* defer_until
RespectRetryAfter(k) ==
  /\ k \in Registered /\ deferrals < MaxDeferrals
  /\ entry' = [entry EXCEPT ![k].floor = Latest(@, RetryAfter)]
  /\ deferrals' = deferrals + 1
  /\ Signalling
  /\ UNCHANGED <<jobs, spacing, cursor, asking, driver, changed, stopped, retired, owed>>

\* Mutant: a passive value postpones a read somebody asked for.
ObservedOverManual(e, left) ==
  IF e.job # 0 THEN [e EXCEPT !.passive = left]
  ELSE [e EXCEPT !.next = Earliest(e.event, left)]

\* A newer value came with an answer; it is due again in `left`.
Observed(e, left) ==
  IF e.job # 0 THEN [e EXCEPT !.passive = left]
  ELSE IF e.manual THEN e ELSE [e EXCEPT !.next = Earliest(e.event, left)]

ObservePassiveQuota(k, left) ==
  /\ TakesEvents(k) /\ KindOf[k] = "Quota"
  /\ entry' = [entry EXCEPT ![k] = Observed(@, left)]
  /\ Signalling
  /\ UNCHANGED <<jobs, spacing, cursor, asking, driver, changed, stopped, retired, owed,
                 deferrals>>

\* The driver ends at its next turn, and the reads with it.
ShutdownRefresh ==
  /\ ~stopped
  /\ stopped' = TRUE
  /\ entry' = Without(Keys)
  /\ Retire(Keys)
  /\ owed' = Forgiven(Keys)
  /\ Signalling
  /\ UNCHANGED <<jobs, spacing, cursor, driver, changed, deferrals>>

SignalDriver ==
  /\ unsignalled
  /\ unsignalled' = FALSE /\ changed' = TRUE
  /\ UNCHANGED <<entry, jobs, spacing, cursor, asking, driver, stopped, retired, owed, deferrals>>

-----------------------------------------------------------------------------
(* The driver *)

FreeJob == CHOOSE j \in Jobs \ Running : TRUE

\* claim_due; Spacing is positive, so a turn starts one read at most.
Claimed(e, job) ==
  [e EXCEPT !.next = Never,
            !.again = IF e.event = 0 THEN @ ELSE Earliest(@, e.event),
            !.event = IF e.event = 0 THEN Never ELSE @,
            !.dirty = FALSE, !.manual = FALSE, !.job = job, !.awaited = TRUE]

ClaimDue(k) ==
  /\ entry' = [entry EXCEPT ![k] = Claimed(@, FreeJob)]
  /\ jobs' = [j \in Running \cup {FreeJob} |-> IF j = FreeJob THEN k ELSE jobs[j]]
  /\ spacing' = [spacing EXCEPT !["any"] = Spacing, ![OriginOfKey[k]] = Spacing]
  /\ cursor' = ((cursor - 1 + ClassDistance(k) + 1) % Turns) + 1
  /\ owed' = [owed EXCEPT ![k] = IF @ = 0 THEN Never ELSE @]

\* next_wake, given that a claim leaves nothing due before Spacing
NextWake == IF Claimable = {} THEN Never ELSE Min({EligibleAt(k) : k \in Claimable})

\* Mutant: only reads without a provider floor arm the timer.
ArmUnfloored ==
  LET free == {k \in Claimable' : entry'[k].floor = 0}
  IN  driver' = [at |-> "select",
                 timer |-> IF free = {} THEN Never ELSE Min({EligibleAt(k)' : k \in free})]

Arm == driver' = [at |-> "select", timer |-> NextWake']

\* From borrow_and_update to the select.
DriveTurn ==
  /\ driver.at = "turn" /\ ~stopped
  /\ IF Due = {} THEN UNCHANGED <<entry, jobs, spacing, cursor, owed>>
     ELSE \E k \in FirstDue : ClaimDue(k)
  /\ Arm
  /\ changed' = FALSE
  /\ UNCHANGED <<asking, unsignalled, stopped, retired, deferrals>>

FinishDrive ==
  /\ driver.at = "turn" /\ stopped
  /\ driver' = [at |-> "finished", timer |-> Never]
  /\ jobs' = <<>> /\ retired' = {}
  /\ UNCHANGED <<entry, spacing, cursor, asking, changed, unsignalled, stopped, owed, deferrals>>

WakeDriver ==
  /\ driver.at = "select" /\ (changed \/ driver.timer = 0)
  /\ driver' = [at |-> "turn", timer |-> Never]
  /\ UNCHANGED <<entry, jobs, spacing, cursor, asking, changed, unsignalled, stopped, retired,
                 owed, deferrals>>

\* RefreshCoordinator::complete for the current job of e.  failed: the provider
\* named a delay, the read made no progress, or its task panicked.
Completed(e, outcome) ==
  LET floor == Latest(e.floor, IF outcome = "failed" THEN RetryAfter ELSE MinimumInterval)
      replaced == e.passive # Never /\ ~e.dirty /\ outcome = "failed"
      periodic == IF ~e.automatic THEN Never
                  ELSE IF e.passive # Never THEN e.passive ELSE Interval
      next == CASE outcome = "success" ->
                     Earliest(Earliest(periodic, e.again), IF e.dirty THEN 0 ELSE Never)
                [] outcome = "failed" ->
                     IF replaced THEN Earliest(e.passive, e.again) ELSE floor
                [] outcome = "unsupported" -> Never
  IN  [e EXCEPT !.job = 0, !.again = Never, !.passive = Never, !.dirty = FALSE,
                !.floor = floor,
                !.next = IF e.automatic THEN NotBefore(next, floor) ELSE Never,
                !.unsupported = @ \/ outcome = "unsupported",
                !.event = IF outcome = "unsupported" THEN Never ELSE @,
                !.awaited = FALSE]

\* Mutant: any read of the key ends its job.
IsCurrentByKey(j) == jobs[j] \in Registered

IsCurrent(j) == jobs[j] \in Registered /\ entry[jobs[j]].job = j

\* A read ends and the driver takes its result.
JobEnds(j, outcome) ==
  LET k == jobs[j]
  IN  /\ driver.at = "select" /\ j \in Running
      /\ jobs' = Restrict(jobs, Running \ {j})
      /\ driver' = [at |-> "turn", timer |-> Never]
      /\ retired' = retired \ {j}
      /\ IF IsCurrent(j)
           THEN /\ entry' = [entry EXCEPT ![k] = Completed(@, outcome)]
                /\ asking' = [c \in RefreshCallers |-> IF asking[c] = k THEN NoEntry ELSE asking[c]]
                /\ owed' = [owed EXCEPT ![k] = IF outcome = "unsupported" THEN Never ELSE @]
           ELSE UNCHANGED <<entry, asking, owed>>
      /\ UNCHANGED <<spacing, cursor, changed, unsignalled, stopped, deferrals>>

\* The clock.
Later(e) ==
  [e EXCEPT !.next = Sooner(@), !.floor = Sooner(@), !.again = Sooner(@),
            !.event = Sooner(@), !.passive = Sooner(@)]

Tick ==
  /\ entry' = [k \in Keys |-> IF k \in Registered THEN Later(entry[k]) ELSE NoEntry]
  /\ spacing' = [o \in Scopes |-> Sooner(spacing[o])]
  /\ driver' = [driver EXCEPT !.timer = Sooner(@)]
  /\ owed' = [k \in Keys |-> Sooner(owed[k])]
  /\ <<entry, spacing, driver, owed>>' # <<entry, spacing, driver, owed>>
  /\ UNCHANGED <<jobs, cursor, asking, changed, unsignalled, stopped, retired, deferrals>>

RefreshHosts ==
  \/ \E k \in Keys, automatic, due_now \in BOOLEAN : Register(k, automatic, due_now)
  \/ \E keys \in SUBSET Keys : RemoveKeys(keys)
  \/ \E c \in RefreshCallers : AbandonRead(c) \/ \E k \in Keys : RequestRead(c, k)
  \/ \E k \in Keys : MarkDirty(k) \/ RespectRetryAfter(k) \/ ObservePassiveQuota(k, Interval)
  \/ \E k \in Keys, delay \in 1..Interval : ScheduleAfter(k, delay)
  \/ ShutdownRefresh

DriverMoves == DriveTurn \/ FinishDrive \/ WakeDriver
ReadEnds(j) == \E outcome \in {"success", "failed", "unsupported"} : JobEnds(j, outcome)

RefreshNext ==
  \/ RefreshHosts \/ SignalDriver
  \/ DriverMoves \/ Tick
  \/ \E j \in Jobs : ReadEnds(j)

\* The executor polls the driver and the reads, which time out; the clock moves.
\* A read may end while the driver takes a turn; tokio::select! polls its
\* branches in a random order, so other wake-ups do not keep its result waiting.
RefreshFairness ==
  /\ WF_refreshVars(SignalDriver) /\ WF_refreshVars(Tick)
  /\ WF_refreshVars(DriverMoves)
  /\ \A j \in Jobs : SF_refreshVars(ReadEnds(j))

RefreshSpec == RefreshInit /\ [][RefreshNext]_refreshVars
RefreshFairSpec == RefreshSpec /\ RefreshFairness

-----------------------------------------------------------------------------
(* Properties *)

\* The answer of a read whose registration was removed, even if the same key
\* is registered again and read again, is neither kept nor handed to anybody.
RetiredReadIsInert ==
  [][\A j \in retired : (j \in Running /\ j \notin Running')
       => UNCHANGED <<entry, asking, owed>>]_refreshVars

\* A change announced before or during a read is followed by another read, not
\* earlier than it was announced for, while the key stays automatic.
EventLeadsToRead ==
  \A k \in Registered : owed[k] # Never =>
    LET e == entry[k]
    IN  IF e.job = 0 THEN e.next # Never
        ELSE e.dirty \/ e.again # Never \/ e.event # Never

\* A driver that sleeps, with no signal to come, wakes by the time a read may start.
DriverSeesDue ==
  driver.at = "select" /\ ~changed /\ ~unsignalled /\ NextWake # Never =>
    driver.timer # Never /\ driver.timer <= NextWake

\* Every caller is answered, unless it leaves.
RequestAnswered ==
  \A c \in RefreshCallers : asking[c] # NoEntry ~> asking[c] = NoEntry
=============================================================================
