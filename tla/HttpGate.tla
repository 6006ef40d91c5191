------------------------------ MODULE HttpGate ------------------------------
(***************************************************************************)
(* ManagementHttpGate (crates/relay-core/src/scheduler/refresh/http.rs):   *)
(* the permits every management call to a provider takes, in flight at     *)
(* most Concurrent and PerOrigin of them, ReservedAuth of each kept free   *)
(* of ordinary calls.  A caller that finds no permit waits in one queue;   *)
(* the turn is the first waiter that could be admitted.                    *)
(*                                                                         *)
(* A caller is separated where it takes the mutex, where it calls          *)
(* notify_waiters after releasing it, and where it awaits.                 *)
(***************************************************************************)
EXTENDS Integers, Sequences, FiniteSets, SequencesExt

CONSTANTS
  Callers, Origins,
  ClassOf,       \* HttpClass of each caller: "Auth" or "Ordinary"
  OriginOf,      \* origin of its URL
  Concurrent, PerOrigin, ReservedAuth, MaxWaiters,   \* HttpLimits
  NoCaller

VARIABLES
  total, ordinary,   \* State.total, State.ordinary
  origins,           \* State.origins, absent entries as zeroes
  waiters,           \* State.waiters
  caller,            \* where each caller of acquire is
  notified           \* subscribed callers that were notified

gateVars == <<total, ordinary, origins, waiters, caller, notified>>

\* ManagementHttpGate::new
ASSUME GateAssumption ==
  /\ IsFiniteSet(Callers) /\ NoCaller \notin Callers
  /\ ClassOf \in [Callers -> {"Auth", "Ordinary"}]
  /\ OriginOf \in [Callers -> Origins]
  /\ Concurrent \in Nat /\ PerOrigin \in Nat /\ ReservedAuth \in Nat
  /\ MaxWaiters \in Nat \ {0}
  /\ ReservedAuth < PerOrigin /\ PerOrigin <= Concurrent

\* admitted, gone: the mutex is released and notify_waiters not yet called.
\* leaving: Waiting is being dropped and its waiter is still queued.
CallerStages == {"idle", "subscribe", "inspect", "asleep", "admitted", "holding",
                 "leaving", "gone"}

Holders == {c \in Callers : caller[c] \in {"admitted", "holding"}}
Queued  == {waiters[i] : i \in DOMAIN waiters}
OfClass(set, class) == {c \in set : ClassOf[c] = class}
OfOrigin(set, o)    == {c \in set : OriginOf[c] = o}

\* The counters are those of the permits, the queue that of the callers.
GateTypeOK ==
  /\ caller \in [Callers -> CallerStages]
  /\ notified \subseteq Callers
  /\ waiters \in Seq(Callers) /\ IsInjective(waiters)
  /\ \A c \in Callers : caller[c] \in {"asleep", "leaving"} => c \in Queued
  /\ \A c \in Queued : caller[c] \in {"asleep", "leaving", "subscribe", "inspect"}
  /\ total = Cardinality(Holders)
  /\ ordinary = Cardinality(OfClass(Holders, "Ordinary"))
  /\ origins = [o \in Origins |->
       [total    |-> Cardinality(OfOrigin(Holders, o)),
        ordinary |-> Cardinality(OfOrigin(OfClass(Holders, "Ordinary"), o))]]

GateInit ==
  /\ total = 0 /\ ordinary = 0
  /\ origins = [o \in Origins |-> [total |-> 0, ordinary |-> 0]]
  /\ waiters = <<>>
  /\ caller = [c \in Callers |-> "idle"]
  /\ notified = {}

-----------------------------------------------------------------------------

IsOrdinary(c) == ClassOf[c] = "Ordinary"

\* capacity
HasCapacity(c) ==
  /\ total < Concurrent
  /\ origins[OriginOf[c]].total < PerOrigin
  /\ IsOrdinary(c) => /\ ordinary < Concurrent - ReservedAuth
                      /\ origins[OriginOf[c]].ordinary < PerOrigin - ReservedAuth

Turn ==
  LET able == {i \in DOMAIN waiters : HasCapacity(waiters[i])}
  IN  IF able = {} THEN NoCaller
      ELSE waiters[CHOOSE i \in able : \A j \in able : i <= j]

\* Mutant: a caller that finds room takes it before those who wait.
MayBarge(c) == HasCapacity(c)

MayEnter(c) == HasCapacity(c) /\ Turn \in {c, NoCaller}

\* Mutant: only the permits in flight are reserved.
QueueFullForAll(c) == Len(waiters) >= MaxWaiters

QueueFull(c) ==
  \/ Len(waiters) >= MaxWaiters
  \/ IsOrdinary(c) /\ Len(waiters) >= MaxWaiters - ReservedAuth

Sleep(c) ==
  /\ caller' = [caller EXCEPT ![c] = "asleep"]
  /\ UNCHANGED notified

\* Mutant: a dropped permit is returned to its origin's total only.
CountTotals(c, n) ==
  /\ total' = total + n
  /\ ordinary' = ordinary + (IF IsOrdinary(c) /\ n > 0 THEN n ELSE 0)
  /\ origins' = [origins EXCEPT ![OriginOf[c]] =
       [total |-> @.total + n, ordinary |-> @.ordinary + (IF IsOrdinary(c) THEN n ELSE 0)]]

\* Change the counters of c's permits by n.
Count(c, n) ==
  /\ total' = total + n
  /\ ordinary' = ordinary + (IF IsOrdinary(c) THEN n ELSE 0)
  /\ origins' = [origins EXCEPT ![OriginOf[c]] =
       [total |-> @.total + n, ordinary |-> @.ordinary + (IF IsOrdinary(c) THEN n ELSE 0)]]

\* A caller is queued once at most.
Unqueue(c) ==
  waiters' = IF c \in Queued THEN RemoveAt(waiters, CHOOSE i \in DOMAIN waiters : waiters[i] = c)
             ELSE waiters

-----------------------------------------------------------------------------

AcquireHttp(c) ==
  /\ caller[c] = "idle"
  /\ caller' = [caller EXCEPT ![c] = "subscribe"]
  /\ UNCHANGED <<total, ordinary, origins, waiters, notified>>

\* A new caller, or one woken by its notification, calls notified() and
\* enable() ahead of its look at the state.
Subscribe(c) ==
  /\ caller[c] = "subscribe" \/ (caller[c] = "asleep" /\ c \in notified)
  /\ caller' = [caller EXCEPT ![c] = "inspect"]
  /\ notified' = notified \ {c}
  /\ UNCHANGED <<total, ordinary, origins, waiters>>

Admit(c) ==
  /\ caller[c] = "inspect" /\ MayEnter(c)
  /\ Count(c, 1)
  /\ Unqueue(c)
  /\ caller' = [caller EXCEPT ![c] = "admitted"]
  /\ UNCHANGED notified

\* HttpAdmissionError::Full
RefuseHttp(c) ==
  /\ caller[c] = "inspect" /\ ~MayEnter(c) /\ c \notin Queued /\ QueueFull(c)
  /\ caller' = [caller EXCEPT ![c] = "idle"]
  /\ UNCHANGED <<total, ordinary, origins, waiters, notified>>

EnqueueHttp(c) ==
  /\ caller[c] = "inspect" /\ ~MayEnter(c) /\ c \notin Queued /\ ~QueueFull(c)
  /\ waiters' = Append(waiters, c)
  /\ Sleep(c)
  /\ UNCHANGED <<total, ordinary, origins>>

StayQueued(c) ==
  /\ caller[c] = "inspect" /\ ~MayEnter(c) /\ c \in Queued
  /\ Sleep(c)
  /\ UNCHANGED <<total, ordinary, origins, waiters>>

\* The deadline passes, in the critical section or asleep; or the caller's
\* future is dropped while it sleeps.
GiveUp(c) ==
  /\ caller[c] \in {"inspect", "asleep"}
  /\ caller' = [caller EXCEPT ![c] = IF c \in Queued THEN "leaving" ELSE "idle"]
  /\ UNCHANGED <<total, ordinary, origins, waiters, notified>>

\* Mutant: a waiter leaves without telling those behind it.
LeaveQuietly(c) ==
  /\ caller[c] = "leaving"
  /\ Unqueue(c)
  /\ caller' = [caller EXCEPT ![c] = "idle"]
  /\ UNCHANGED <<total, ordinary, origins, notified>>

\* Waiting::drop
LeaveQueue(c) ==
  /\ caller[c] = "leaving"
  /\ Unqueue(c)
  /\ caller' = [caller EXCEPT ![c] = "gone"]
  /\ UNCHANGED <<total, ordinary, origins, notified>>

\* HttpPermit::drop: the answer was read, the call failed, or send_if_current
\* found its request stale after the wait.
ReleaseHttp(c) ==
  /\ caller[c] = "holding"
  /\ Count(c, -1)
  /\ caller' = [caller EXCEPT ![c] = "gone"]
  /\ UNCHANGED <<waiters, notified>>

\* changed.notify_waiters()
Announce(c) ==
  /\ caller[c] \in {"admitted", "gone"}
  /\ notified' = notified \cup {d \in Callers : caller[d] \in {"inspect", "asleep"}}
  /\ caller' = [caller EXCEPT ![c] = IF @ = "admitted" THEN "holding" ELSE "idle"]
  /\ UNCHANGED <<total, ordinary, origins, waiters>>

\* The executor polls a caller that can move; permits are dropped because the
\* HTTP client has a timeout.  No caller need give up.
GateMoves(c) ==
  \/ Subscribe(c)
  \/ Admit(c) \/ RefuseHttp(c) \/ EnqueueHttp(c) \/ StayQueued(c)
  \/ LeaveQueue(c) \/ ReleaseHttp(c) \/ Announce(c)

GateNext == \E c \in Callers : AcquireHttp(c) \/ GiveUp(c) \/ GateMoves(c)

GateSpec == GateInit /\ [][GateNext]_gateVars
GateFairSpec == GateSpec /\ \A c \in Callers : WF_gateVars(GateMoves(c))

-----------------------------------------------------------------------------
(* Properties *)

\* Ordinary calls never fill the gate: a permit of each kind and a place in
\* the queue are left for a sign-in or a token renewal, unless those hold it.
AuthReserve ==
  /\ ordinary <= Concurrent - ReservedAuth
  /\ \A o \in Origins : origins[o].ordinary <= PerOrigin - ReservedAuth
  /\ LET queued == Cardinality(OfClass(Queued, "Ordinary"))
     IN  queued = 0 \/ queued <= MaxWaiters - ReservedAuth

\* The waiter whose turn it is does not sleep through it: it is awake, it has
\* been notified, or the notification is on its way.
TurnIsAwake ==
  Turn # NoCaller =>
    \/ caller[Turn] # "asleep" \/ Turn \in notified
    \/ \E c \in Callers : caller[c] \in {"admitted", "gone"}

\* A sign-in or renewal that waits is admitted or gives up, however many other
\* calls come and go.
AuthServed ==
  \A c \in Callers : ClassOf[c] = "Auth" => (c \in Queued ~> c \notin Queued)
=============================================================================
