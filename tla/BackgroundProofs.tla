-------------------------- MODULE BackgroundProofs --------------------------
(***************************************************************************)
(* HttpGate for every number of callers and every limits: ordinary calls   *)
(* leave the reserve alone, and the turn is not slept through.             *)
(* RefreshService for every number of keys, callers, jobs and origins, any *)
(* intervals and any order of the classes.  And the composition of the     *)
(* five services, each of which behaves as it does alone.                  *)
(***************************************************************************)
EXTENDS MCBackground, PoolMembersProofs, QuotaWakeProofs, SecretVaultProofs,
        FiniteSetTheorems, SequenceTheorems, WellFoundedInduction, TLAPS

-----------------------------------------------------------------------------
(* HttpGate: types *)

OriginCounters == [total : Int, ordinary : Int]

\* The values of the variables, whatever they count.
GateValues ==
  /\ total \in Int /\ ordinary \in Int
  /\ origins \in [Origins -> OriginCounters]
  /\ waiters \in Seq(Callers)
  /\ caller \in [Callers -> CallerStages]
  /\ notified \subseteq Callers

\* The counters keep their types.
LEMMA CountValues ==
  ASSUME GateValues, NEW c \in Callers, NEW n \in {1, -1}, Count(c, n)
  PROVE  /\ total' \in Int /\ ordinary' \in Int
         /\ origins' \in [Origins -> OriginCounters]
<1> DEFINE o == OriginOf[c]
           share == IF IsOrdinary(c) THEN n ELSE 0
           kept == [total |-> origins[o].total + n, ordinary |-> origins[o].ordinary + share]
<1>1. share \in Int /\ n \in Int
  OBVIOUS
<1>2. o \in Origins
  BY GateAssumption
<1>3. origins[o] \in OriginCounters
  BY <1>2 DEF GateValues
<1> HIDE DEF share, o
<1>4. kept \in OriginCounters
  BY <1>1, <1>3 DEF OriginCounters
<1>5. origins' = [origins EXCEPT ![o] = kept]
  BY DEF Count, share, o
<1>6. origins' \in [Origins -> OriginCounters]
  BY <1>4, <1>5 DEF GateValues
<1>7. total' = total + n /\ ordinary' = ordinary + share
  BY DEF Count, share
<1>8. QED
  BY <1>1, <1>6, <1>7 DEF GateValues

\* A caller that leaves the queue leaves the others in it.
LEMMA UnqueueValues ==
  ASSUME GateValues, NEW c \in Callers, Unqueue(c)
  PROVE  /\ waiters' \in Seq(Callers)
         /\ Queued' \subseteq Queued
<1>1. CASE c \notin Queued
  BY <1>1 DEF GateValues, Unqueue, Queued
<1>2. CASE c \in Queued
  <2> DEFINE i == CHOOSE j \in DOMAIN waiters : waiters[j] = c
             left == SubSeq(waiters, 1, i - 1)
             right == SubSeq(waiters, i + 1, Len(waiters))
  <2>1. i \in 1..Len(waiters)
    BY <1>2 DEF Queued, GateValues
  <2> HIDE DEF i
  <2>2. /\ \A j \in 1..(i - 1) : waiters[j] \in Queued \cap Callers
        /\ \A j \in (i + 1)..Len(waiters) : waiters[j] \in Queued \cap Callers
    BY <2>1 DEF GateValues, Queued
  <2>3. left \in Seq(Queued \cap Callers) /\ right \in Seq(Queued \cap Callers)
    <3>1. i - 1 \in Int /\ i + 1 \in Int /\ Len(waiters) \in Int
      BY <2>1 DEF GateValues
    <3>2. QED
      BY <2>2, <3>1, SubSeqProperties
  <2> HIDE DEF left, right
  <2>4. waiters' = left \o right
    BY <1>2 DEF Unqueue, RemoveAt, i, left, right
  <2>5. waiters' \in Seq(Queued \cap Callers)
    BY <2>3, <2>4, ConcatProperties
  <2>6. QED
    BY <2>5 DEF Queued
<1>3. QED
  BY <1>1, <1>2

\* A caller that joins the queue adds itself.
LEMMA EnqueueValues ==
  ASSUME GateValues, NEW c \in Callers, waiters' = Append(waiters, c)
  PROVE  /\ waiters' \in Seq(Callers)
         /\ Len(waiters') = Len(waiters) + 1
         /\ \A i \in DOMAIN waiters : i \in DOMAIN waiters' /\ waiters'[i] = waiters[i]
         /\ waiters'[Len(waiters) + 1] = c
         /\ DOMAIN waiters' = DOMAIN waiters \cup {Len(waiters) + 1}
         /\ Queued' = Queued \cup {c}
<1>1. /\ waiters' \in Seq(Callers) /\ Len(waiters') = Len(waiters) + 1
      /\ \A i \in 1..Len(waiters) : waiters'[i] = waiters[i]
      /\ waiters'[Len(waiters) + 1] = c
  BY AppendProperties DEF GateValues
<1>2. Len(waiters) \in Nat /\ DOMAIN waiters = 1..Len(waiters)
  BY DEF GateValues
<1>3. DOMAIN waiters' = 1..Len(waiters')
  BY <1>1
<1>4. DOMAIN waiters' = DOMAIN waiters \cup {Len(waiters) + 1}
  BY <1>1, <1>2, <1>3
<1>5. \A i \in DOMAIN waiters : i \in DOMAIN waiters' /\ waiters'[i] = waiters[i]
  BY <1>1, <1>2, <1>4
<1>6. Queued' = Queued \cup {c}
  BY <1>1, <1>4, <1>5 DEF Queued
<1>7. QED
  BY <1>1, <1>4, <1>5, <1>6

LEMMA GateValuesInit ==
  GateInit => GateValues
BY DEF GateInit, GateValues, OriginCounters, CallerStages

LEMMA GateValuesStep ==
  GateValues /\ [GateNext]_gateVars => GateValues'
<1> SUFFICES ASSUME GateValues, [GateNext]_gateVars PROVE GateValues'
  OBVIOUS
<1>1. ASSUME NEW c \in Callers, AcquireHttp(c) \/ Subscribe(c) PROVE GateValues'
  BY <1>1 DEF GateValues, AcquireHttp, Subscribe, CallerStages
<1>2. ASSUME NEW c \in Callers, Admit(c) PROVE GateValues'
  <2>1. /\ Count(c, 1) /\ Unqueue(c)
        /\ caller' \in [Callers -> CallerStages] /\ notified' \subseteq Callers
    BY <1>2 DEF Admit, GateValues, CallerStages
  <2>2. QED
    BY <2>1, CountValues, UnqueueValues DEF GateValues
<1>3. ASSUME NEW c \in Callers, EnqueueHttp(c) PROVE GateValues'
  <2>1. waiters' \in Seq(Callers)
    BY <1>3, EnqueueValues DEF EnqueueHttp
  <2>2. QED
    BY <1>3, <2>1 DEF EnqueueHttp, Sleep, GateValues, CallerStages
<1>4. ASSUME NEW c \in Callers, LeaveQueue(c) PROVE GateValues'
  <2>1. waiters' \in Seq(Callers)
    BY <1>4, UnqueueValues DEF LeaveQueue
  <2>2. QED
    BY <1>4, <2>1 DEF LeaveQueue, GateValues, CallerStages
<1>5. ASSUME NEW c \in Callers, ReleaseHttp(c) PROVE GateValues'
  <2>1. Count(c, -1) /\ caller' \in [Callers -> CallerStages]
    BY <1>5 DEF ReleaseHttp, GateValues, CallerStages
  <2>2. /\ total' \in Int /\ ordinary' \in Int
        /\ origins' \in [Origins -> OriginCounters]
    BY <2>1, CountValues
  <2>3. QED
    BY <1>5, <2>1, <2>2 DEF ReleaseHttp, GateValues
<1>6. ASSUME NEW c \in Callers, RefuseHttp(c) \/ StayQueued(c) \/ GiveUp(c) \/ Announce(c)
      PROVE  GateValues'
  <2>1. /\ UNCHANGED <<total, ordinary, origins, waiters>>
        /\ caller' \in [Callers -> CallerStages]
        /\ notified' \subseteq Callers
    BY <1>6 DEF RefuseHttp, StayQueued, GiveUp, Announce, Sleep, GateValues, CallerStages
  <2>2. QED
    BY <2>1 DEF GateValues
<1>7. CASE UNCHANGED gateVars
  BY <1>7 DEF gateVars, GateValues
<1>8. QED
  BY <1>1, <1>2, <1>3, <1>4, <1>5, <1>6, <1>7 DEF GateNext, GateMoves

-----------------------------------------------------------------------------
(* The reserve *)

QueuedOrdinary == OfClass(Queued, "Ordinary")

LEMMA QueuedOrdinaryIsFinite ==
  ASSUME GateValues
  PROVE  /\ IsFiniteSet(QueuedOrdinary) /\ Cardinality(QueuedOrdinary) \in Nat
         /\ Cardinality(QueuedOrdinary) <= Len(waiters)
<1>1. Queued = {waiters[i] : i \in 1..Len(waiters)} /\ Len(waiters) \in Nat
  BY DEF Queued, GateValues
<1>2. IsFiniteSet(1..Len(waiters)) /\ Cardinality(1..Len(waiters)) = Len(waiters)
  <2> DEFINE n == Len(waiters)
  <2>1. n \in Nat /\ n \in Int /\ 1 \in Int
    BY <1>1
  <2> HIDE DEF n
  <2>2. IsFiniteSet(1..n) /\ Cardinality(1..n) = IF 1 > n THEN 0 ELSE n - 1 + 1
    BY <2>1, FS_Interval
  <2>3. IsFiniteSet(1..n) /\ Cardinality(1..n) = n
    BY <2>1, <2>2
  <2>4. QED
    BY <2>3 DEF n
<1>3. IsFiniteSet(Queued) /\ Cardinality(Queued) <= Len(waiters)
  <2>1. waiters \in Surjection(1..Len(waiters), Queued)
    BY <1>1 DEF Surjection, GateValues
  <2>2. QED
    BY <1>2, <2>1, FS_Surjection
<1>4. QueuedOrdinary \subseteq Queued
  BY DEF QueuedOrdinary, OfClass
<1>5. IsFiniteSet(QueuedOrdinary) /\ Cardinality(QueuedOrdinary) <= Cardinality(Queued)
  BY <1>3, <1>4, FS_Subset
<1>6. Cardinality(QueuedOrdinary) \in Nat /\ Cardinality(Queued) \in Nat
  BY <1>3, <1>5, FS_CardinalityType
<1>7. QED
  BY <1>1, <1>3, <1>5, <1>6

\* Fewer ordinary calls in the queue keep the reserve of the queue.
LEMMA ReserveOfFewer ==
  ASSUME GateValues, GateValues', AuthReserve, QueuedOrdinary' \subseteq QueuedOrdinary
  PROVE  \/ Cardinality(QueuedOrdinary') = 0
         \/ Cardinality(QueuedOrdinary') <= MaxWaiters - ReservedAuth
<1>1. /\ IsFiniteSet(QueuedOrdinary) /\ Cardinality(QueuedOrdinary) \in Nat
      /\ Cardinality(QueuedOrdinary') \in Nat
      /\ Cardinality(QueuedOrdinary') <= Cardinality(QueuedOrdinary)
  <2>1. IsFiniteSet(QueuedOrdinary) /\ Cardinality(QueuedOrdinary) \in Nat
    BY QueuedOrdinaryIsFinite
  <2>2. /\ IsFiniteSet(QueuedOrdinary')
        /\ Cardinality(QueuedOrdinary') <= Cardinality(QueuedOrdinary)
    BY <2>1, FS_Subset
  <2>3. QED
    BY <2>1, <2>2, FS_CardinalityType
<1>2. \/ Cardinality(QueuedOrdinary) = 0
      \/ Cardinality(QueuedOrdinary) <= MaxWaiters - ReservedAuth
  BY DEF AuthReserve, QueuedOrdinary
<1>3. MaxWaiters - ReservedAuth \in Int
  BY GateAssumption
<1> DEFINE before == Cardinality(QueuedOrdinary)  after == Cardinality(QueuedOrdinary')
<1> HIDE DEF before, after
<1>4. before \in Nat /\ after \in Nat /\ after <= before
      /\ (before = 0 \/ before <= MaxWaiters - ReservedAuth)
  BY <1>1, <1>2 DEF before, after
<1>5. after = 0 \/ after <= MaxWaiters - ReservedAuth
  BY <1>3, <1>4
<1>6. QED
  BY <1>5 DEF after

\* A step that changes no counter and queues no ordinary call keeps the reserve.
LEMMA ReserveKept ==
  ASSUME GateValues, GateValues', AuthReserve, Queued' \subseteq Queued,
         ordinary' <= Concurrent - ReservedAuth,
         \A o \in Origins : origins'[o].ordinary <= PerOrigin - ReservedAuth
  PROVE  AuthReserve'
<1>1. QueuedOrdinary' \subseteq QueuedOrdinary
  BY DEF QueuedOrdinary, OfClass
<1>2. QED
  BY <1>1, ReserveOfFewer DEF AuthReserve, QueuedOrdinary

\* What Count does to the ordinary counters: nothing grows but the caller's,
\* and those of an ordinary caller only.
LEMMA CountOrdinary ==
  ASSUME GateValues, NEW c \in Callers, NEW n \in {1, -1}, Count(c, n)
  PROVE  /\ ordinary' = IF IsOrdinary(c) THEN ordinary + n ELSE ordinary
         /\ \A o \in Origins : origins'[o].ordinary =
              IF IsOrdinary(c) /\ o = OriginOf[c] THEN origins[o].ordinary + n
              ELSE origins[o].ordinary
<1>1. n \in Int /\ OriginOf[c] \in Origins
  BY GateAssumption
<1>2. \A o \in Origins : origins[o].ordinary \in Int
  BY DEF GateValues, OriginCounters
<1>3. ordinary \in Int
  BY DEF GateValues
<1>4. CASE IsOrdinary(c)
  <2>1. /\ ordinary' = ordinary + n
        /\ origins' = [origins EXCEPT ![OriginOf[c]] =
                        [total |-> @.total + n, ordinary |-> @.ordinary + n]]
    BY <1>4 DEF Count
  <2>2. QED
    BY <1>1, <1>4, <2>1 DEF GateValues
<1>5. CASE ~IsOrdinary(c)
  <2>1. /\ ordinary' = ordinary + 0
        /\ origins' = [origins EXCEPT ![OriginOf[c]] =
                        [total |-> @.total + n, ordinary |-> @.ordinary + 0]]
    BY <1>5 DEF Count
  <2>2. \A o \in Origins : origins'[o].ordinary = origins[o].ordinary
    BY <1>1, <1>2, <2>1 DEF GateValues
  <2>3. QED
    BY <1>3, <1>5, <2>1, <2>2
<1>6. QED
  BY <1>4, <1>5

LEMMA ReserveInit ==
  GateInit => AuthReserve
<1> SUFFICES ASSUME GateInit PROVE AuthReserve
  OBVIOUS
<1>1. OfClass(Queued, "Ordinary") = {}
  BY DEF GateInit, Queued, OfClass
<1>2. Cardinality(OfClass(Queued, "Ordinary")) = 0
  BY <1>1, FS_EmptySet
<1>3. ordinary <= Concurrent - ReservedAuth
  BY GateAssumption DEF GateInit
<1>4. \A o \in Origins : origins[o].ordinary <= PerOrigin - ReservedAuth
  BY GateAssumption DEF GateInit
<1>5. QED
  BY <1>2, <1>3, <1>4 DEF AuthReserve

LEMMA ReserveStep ==
  GateValues /\ AuthReserve /\ [GateNext]_gateVars => AuthReserve'
<1> SUFFICES ASSUME GateValues, AuthReserve, [GateNext]_gateVars PROVE AuthReserve'
  OBVIOUS
<1> USE GateAssumption
<1>1. GateValues'
  BY GateValuesStep
<1>2. ASSUME UNCHANGED <<ordinary, origins>>, Queued' \subseteq Queued PROVE AuthReserve'
  BY <1>1, <1>2, ReserveKept DEF AuthReserve
<1>3. ASSUME NEW c \in Callers, Admit(c) PROVE AuthReserve'
  <2>1. Queued' \subseteq Queued
    BY <1>3, UnqueueValues DEF Admit
  <2>2. HasCapacity(c) /\ Count(c, 1)
    BY <1>3 DEF Admit, MayEnter
  <2>3. /\ ordinary' = IF IsOrdinary(c) THEN ordinary + 1 ELSE ordinary
        /\ \A o \in Origins : origins'[o].ordinary =
             IF IsOrdinary(c) /\ o = OriginOf[c] THEN origins[o].ordinary + 1
             ELSE origins[o].ordinary
    BY <2>2, CountOrdinary
  <2>4. ordinary' <= Concurrent - ReservedAuth
    BY <2>2, <2>3 DEF HasCapacity, AuthReserve, GateValues
  <2>5. \A o \in Origins : origins'[o].ordinary <= PerOrigin - ReservedAuth
    <3> SUFFICES ASSUME NEW o \in Origins PROVE origins'[o].ordinary <= PerOrigin - ReservedAuth
      OBVIOUS
    <3>1. origins[o].ordinary \in Int /\ origins[o].ordinary <= PerOrigin - ReservedAuth
      BY DEF GateValues, AuthReserve, OriginCounters
    <3>2. IsOrdinary(c) /\ o = OriginOf[c] => origins[o].ordinary < PerOrigin - ReservedAuth
      BY <2>2 DEF HasCapacity
    <3>3. QED
      BY <2>3, <3>1, <3>2
  <2>6. QED
    BY <1>1, <2>1, <2>4, <2>5, ReserveKept
<1>4. ASSUME NEW c \in Callers, ReleaseHttp(c) PROVE AuthReserve'
  <2>1. Count(c, -1) /\ Queued' \subseteq Queued
    BY <1>4 DEF ReleaseHttp, Queued
  <2>2. /\ ordinary' = IF IsOrdinary(c) THEN ordinary + (-1) ELSE ordinary
        /\ \A o \in Origins : origins'[o].ordinary =
             IF IsOrdinary(c) /\ o = OriginOf[c] THEN origins[o].ordinary + (-1)
             ELSE origins[o].ordinary
    BY <2>1, CountOrdinary
  <2>3. ordinary' <= Concurrent - ReservedAuth
    BY <2>2 DEF AuthReserve, GateValues
  <2>4. \A o \in Origins : origins'[o].ordinary <= PerOrigin - ReservedAuth
    <3> SUFFICES ASSUME NEW o \in Origins PROVE origins'[o].ordinary <= PerOrigin - ReservedAuth
      OBVIOUS
    <3>1. origins[o].ordinary \in Int /\ origins[o].ordinary <= PerOrigin - ReservedAuth
      BY DEF GateValues, AuthReserve, OriginCounters
    <3>2. QED
      BY <2>2, <3>1
  <2>5. QED
    BY <1>1, <2>1, <2>3, <2>4, ReserveKept
<1>5. ASSUME NEW c \in Callers, EnqueueHttp(c) PROVE AuthReserve'
  <2>1. Queued' = Queued \cup {c} /\ UNCHANGED <<ordinary, origins>>
    BY <1>5, EnqueueValues DEF EnqueueHttp
  <2>2. CASE ~IsOrdinary(c)
    <3>1. QueuedOrdinary' \subseteq QueuedOrdinary
      BY <2>1, <2>2 DEF QueuedOrdinary, OfClass, IsOrdinary
    <3>2. QED
      BY <1>1, <2>1, <3>1, ReserveOfFewer DEF AuthReserve, QueuedOrdinary
  <2>3. CASE IsOrdinary(c)
    <3>1. QueuedOrdinary' \subseteq QueuedOrdinary \cup {c}
      BY <2>1 DEF QueuedOrdinary, OfClass
    <3>2. /\ IsFiniteSet(QueuedOrdinary) /\ Cardinality(QueuedOrdinary) \in Nat
          /\ Cardinality(QueuedOrdinary) <= Len(waiters)
      BY QueuedOrdinaryIsFinite
    <3>3. /\ IsFiniteSet(QueuedOrdinary \cup {c})
          /\ Cardinality(QueuedOrdinary \cup {c}) <= Cardinality(QueuedOrdinary) + 1
      <4>1. /\ IsFiniteSet(QueuedOrdinary \cup {c})
            /\ Cardinality(QueuedOrdinary \cup {c}) =
                 IF c \in QueuedOrdinary THEN Cardinality(QueuedOrdinary)
                 ELSE Cardinality(QueuedOrdinary) + 1
        BY <3>2, FS_AddElement
      <4>2. QED
        BY <3>2, <4>1
    <3>4. /\ Cardinality(QueuedOrdinary') <= Cardinality(QueuedOrdinary \cup {c})
          /\ Cardinality(QueuedOrdinary') \in Nat /\ Cardinality(QueuedOrdinary \cup {c}) \in Nat
      <4>1. /\ IsFiniteSet(QueuedOrdinary')
            /\ Cardinality(QueuedOrdinary') <= Cardinality(QueuedOrdinary \cup {c})
        BY <3>1, <3>3, FS_Subset
      <4>2. QED
        BY <3>3, <4>1, FS_CardinalityType
    <3>5. Len(waiters) < MaxWaiters - ReservedAuth /\ Len(waiters) \in Nat
      BY <1>5, <2>3 DEF EnqueueHttp, QueueFull, GateValues
    <3>6. Cardinality(QueuedOrdinary') <= MaxWaiters - ReservedAuth
      BY <3>2, <3>3, <3>4, <3>5
    <3>7. QED
      BY <2>1, <3>6 DEF AuthReserve, QueuedOrdinary
  <2>4. QED
    BY <2>2, <2>3
<1>6. ASSUME NEW c \in Callers, LeaveQueue(c) PROVE AuthReserve'
  <2>1. UNCHANGED <<ordinary, origins>> /\ Queued' \subseteq Queued
    BY <1>6, UnqueueValues DEF LeaveQueue
  <2>2. QED
    BY <1>2, <2>1
<1>7. ASSUME NEW c \in Callers,
             \/ AcquireHttp(c) \/ Subscribe(c) \/ RefuseHttp(c) \/ StayQueued(c)
             \/ GiveUp(c) \/ Announce(c)
      PROVE  AuthReserve'
  <2>1. UNCHANGED <<ordinary, origins, waiters>>
    BY <1>7 DEF AcquireHttp, Subscribe, RefuseHttp, StayQueued, GiveUp, Announce
  <2>2. QED
    BY <1>2, <2>1 DEF Queued
<1>8. CASE UNCHANGED gateVars
  BY <1>2, <1>8 DEF gateVars, Queued
<1>9. QED
  BY <1>3, <1>4, <1>5, <1>6, <1>7, <1>8 DEF GateNext, GateMoves

\* Whatever callers come, ordinary calls leave ReservedAuth permits, in all and
\* of each origin, and as many places of the queue (capacity and the queue
\* bounds of acquire, http.rs).
THEOREM AuthReserveAlways ==
  GateSpec => []AuthReserve
<1>1. GateInit => GateValues /\ AuthReserve
  BY GateValuesInit, ReserveInit
<1>2. GateValues /\ AuthReserve /\ [GateNext]_gateVars => GateValues' /\ AuthReserve'
  BY GateValuesStep, ReserveStep
<1>3. QED
  BY <1>1, <1>2, PTL DEF GateSpec

-----------------------------------------------------------------------------
(* The turn *)

\* A caller that has released the mutex and not yet called notify_waiters.
Announcing == \E c \in Callers : caller[c] \in {"admitted", "gone"}

\* The first caller of a queue that is in a set of callers.
Able == {c \in Callers : HasCapacity(c)}
Positions(queue, set) == {i \in DOMAIN queue : queue[i] \in set}
FirstOf(queue, set) ==
  IF Positions(queue, set) = {} THEN NoCaller
  ELSE queue[CHOOSE i \in Positions(queue, set) : \A j \in Positions(queue, set) : i <= j]

LEMMA TurnIsFirst ==
  ASSUME GateValues
  PROVE  Turn = FirstOf(waiters, Able)
<1>1. \A i \in DOMAIN waiters : waiters[i] \in Callers
  BY DEF GateValues
<1>2. Positions(waiters, Able) = {i \in DOMAIN waiters : HasCapacity(waiters[i])}
  BY <1>1 DEF Positions, Able
<1>3. QED
  BY <1>2 DEF Turn, FirstOf

LEMMA FirstExists ==
  ASSUME NEW queue \in Seq(Callers), NEW set
  PROVE  \/ Positions(queue, set) = {} /\ FirstOf(queue, set) = NoCaller
         \/ \E i \in Positions(queue, set) :
              /\ FirstOf(queue, set) = queue[i]
              /\ \A j \in Positions(queue, set) : i <= j
<1>1. CASE Positions(queue, set) = {}
  BY <1>1 DEF FirstOf
<1>2. CASE Positions(queue, set) # {}
  <2>1. Positions(queue, set) \in SUBSET Nat
    BY DEF Positions
  <2>2. \E i \in Positions(queue, set) : \A j \in Positions(queue, set) : i <= j
    BY <1>2, <2>1, LeastNatural
  <2>3. PICK i \in Positions(queue, set) :
          i = CHOOSE k \in Positions(queue, set) : \A j \in Positions(queue, set) : k <= j
    BY <2>2
  <2>4. QED
    BY <1>2, <2>2, <2>3 DEF FirstOf
<1>3. QED
  BY <1>1, <1>2

\* A caller that joins behind the first does not become it.
LEMMA FirstStays ==
  ASSUME NEW queue \in Seq(Callers), NEW set, NEW c \in Callers,
         c \notin set \/ FirstOf(queue, set) # NoCaller
  PROVE  FirstOf(Append(queue, c), set) = FirstOf(queue, set)
<1> DEFINE longer == Append(queue, c)
           last == Len(queue) + 1
<1>1. /\ longer \in Seq(Callers) /\ longer[last] = c /\ DOMAIN longer = DOMAIN queue \cup {last}
      /\ \A i \in DOMAIN queue : longer[i] = queue[i] /\ i < last
      /\ last \in Nat /\ DOMAIN queue \subseteq Nat
  <2>1. /\ longer \in Seq(Callers) /\ Len(longer) = last /\ longer[last] = c
        /\ \A i \in 1..Len(queue) : longer[i] = queue[i]
    BY AppendProperties
  <2>2. DOMAIN queue = 1..Len(queue) /\ Len(queue) \in Nat /\ DOMAIN longer = 1..last
    BY <2>1
  <2>3. QED
    BY <2>1, <2>2
<1>2. PICK k \in Positions(longer, set) \cup {0} :
        \/ Positions(longer, set) = {} /\ FirstOf(longer, set) = NoCaller
        \/ /\ k \in Positions(longer, set) /\ FirstOf(longer, set) = longer[k]
           /\ \A j \in Positions(longer, set) : k <= j
  BY <1>1, FirstExists
<1> HIDE DEF longer, last
<1>3. CASE Positions(queue, set) = {}
  <2>1. FirstOf(queue, set) = NoCaller
    BY <1>3 DEF FirstOf
  <2>2. Positions(longer, set) = {}
    BY <1>1, <1>3, <2>1 DEF Positions
  <2>3. QED
    BY <2>1, <2>2 DEF FirstOf, longer
<1>4. CASE Positions(queue, set) # {}
  <2>1. PICK i \in Positions(queue, set) :
          /\ FirstOf(queue, set) = queue[i] /\ \A j \in Positions(queue, set) : i <= j
    BY <1>4, FirstExists
  <2>2. Positions(queue, set) \subseteq Positions(longer, set)
        /\ Positions(longer, set) \subseteq Positions(queue, set) \cup {last}
    BY <1>1 DEF Positions
  <2>3. i \in Nat /\ i < last /\ longer[i] = queue[i] /\ i \in Positions(longer, set)
    BY <1>1, <2>1, <2>2 DEF Positions
  <2>4. k \in Positions(longer, set) /\ FirstOf(longer, set) = longer[k] /\ k <= i
    BY <1>2, <2>3
  <2>5. i <= k
    BY <1>1, <2>1, <2>2, <2>3, <2>4
  <2>6. k \in Nat
    BY <1>1, <2>4 DEF Positions
  <2>7. i = k
    BY <2>3, <2>4, <2>5, <2>6
  <2>8. QED
    BY <2>1, <2>3, <2>4, <2>7 DEF longer
<1>5. QED
  BY <1>3, <1>4

\* The turn belongs to a caller in the queue that could be admitted.
LEMMA TurnIsCaller ==
  ASSUME GateValues
  PROVE  Turn # NoCaller => Turn \in Callers /\ HasCapacity(Turn)
<1>1. waiters \in Seq(Callers)
  BY DEF GateValues
<1>2. FirstOf(waiters, Able) = NoCaller \/ FirstOf(waiters, Able) \in Able
  BY <1>1, FirstExists DEF Positions
<1>3. QED
  BY <1>2, TurnIsFirst DEF Able

\* A caller that may not enter does not have the turn, nor gets it by joining
\* the queue.
LEMMA TurnPasses ==
  ASSUME GateValues, NEW c \in Callers, ~MayEnter(c)
  PROVE  /\ Turn # c
         /\ waiters' = Append(waiters, c) /\ UNCHANGED <<total, ordinary, origins>> => Turn' = Turn
<1>1. Turn # c
  BY GateAssumption, TurnIsCaller DEF MayEnter
<1>2. ASSUME waiters' = Append(waiters, c), UNCHANGED <<total, ordinary, origins>>
      PROVE  Turn' = Turn
  <2>1. Able' = Able
    BY <1>2 DEF Able, HasCapacity
  <2>2. c \notin Able \/ FirstOf(waiters, Able) # NoCaller
    BY TurnIsFirst DEF Able, MayEnter
  <2>3. FirstOf(Append(waiters, c), Able) = FirstOf(waiters, Able)
    BY <2>2, FirstStays DEF GateValues
  <2>4. \A i \in DOMAIN waiters' : waiters'[i] \in Callers
    BY <1>2, EnqueueValues
  <2>5. Turn' = FirstOf(waiters', Able')
    <3>1. Positions(waiters', Able') = {i \in DOMAIN waiters : HasCapacity(waiters[i])}'
      BY <2>4 DEF Positions, Able
    <3>2. QED
      BY <3>1 DEF Turn, FirstOf
  <2>6. QED
    BY <1>2, <2>1, <2>3, <2>5, TurnIsFirst
<1>3. QED
  BY <1>1, <1>2

\* A step that keeps the counters and the queue, and puts only its own caller
\* to sleep if it does, and that one has not the turn.
LEMMA TurnStep ==
  GateValues /\ TurnIsAwake /\ [GateNext]_gateVars => TurnIsAwake'
<1> SUFFICES ASSUME GateValues, TurnIsAwake, [GateNext]_gateVars PROVE TurnIsAwake'
  OBVIOUS
<1> USE GateAssumption
<1>1. GateValues'
  BY GateValuesStep
<1>2. Turn' # NoCaller => Turn' \in Callers
  <2>1. FirstOf(waiters', Able') = NoCaller \/ FirstOf(waiters', Able') \in Able'
    <3>1. waiters' \in Seq(Callers)
      BY <1>1 DEF GateValues
    <3>2. QED
      BY <3>1, FirstExists DEF Positions
  <2>2. Turn' = FirstOf(waiters', Able')
    <3>1. \A i \in DOMAIN waiters' : waiters'[i] \in Callers
      BY <1>1 DEF GateValues
    <3>2. Positions(waiters', Able') = {i \in DOMAIN waiters : HasCapacity(waiters[i])}'
      BY <3>1 DEF Positions, Able
    <3>3. QED
      BY <3>2 DEF Turn, FirstOf
  <2>3. QED
    BY <2>1, <2>2 DEF Able
<1>3. ASSUME Announcing' PROVE TurnIsAwake'
  BY <1>3 DEF Announcing, TurnIsAwake
<1>4. ASSUME NEW c \in Callers, Turn' = Turn, Turn # c \/ caller'[c] # "asleep",
             notified \ {c} \subseteq notified', caller' = [caller EXCEPT ![c] = caller'[c]],
             caller[c] \notin {"admitted", "gone"}
      PROVE  TurnIsAwake'
  BY <1>1, <1>2, <1>4 DEF TurnIsAwake, GateValues
<1>5. ASSUME UNCHANGED <<total, ordinary, origins, waiters>> PROVE Turn' = Turn
  BY <1>5 DEF Turn, HasCapacity
<1>6. ASSUME NEW c \in Callers, Admit(c) \/ ReleaseHttp(c) \/ LeaveQueue(c) PROVE TurnIsAwake'
  <2>1. Announcing'
    BY <1>6 DEF Admit, ReleaseHttp, LeaveQueue, Announcing, GateValues
  <2>2. QED
    BY <1>3, <2>1
<1>7. ASSUME NEW c \in Callers,
             AcquireHttp(c) \/ Subscribe(c) \/ RefuseHttp(c) \/ GiveUp(c)
      PROVE  TurnIsAwake'
  <2>1. Turn' = Turn
    BY <1>5, <1>7 DEF AcquireHttp, Subscribe, RefuseHttp, GiveUp
  <2>2. /\ caller'[c] # "asleep" /\ notified \ {c} \subseteq notified'
        /\ caller' = [caller EXCEPT ![c] = caller'[c]]
        /\ caller[c] \notin {"admitted", "gone"}
    BY <1>7 DEF AcquireHttp, Subscribe, RefuseHttp, GiveUp, GateValues
  <2>3. QED
    BY <1>4, <2>1, <2>2
<1>8. ASSUME NEW c \in Callers, EnqueueHttp(c) \/ StayQueued(c) PROVE TurnIsAwake'
  <2>1. Turn # c /\ Turn' = Turn
    BY <1>5, <1>8, TurnPasses DEF EnqueueHttp, StayQueued
  <2>2. /\ notified' = notified /\ caller' = [caller EXCEPT ![c] = caller'[c]]
        /\ caller[c] \notin {"admitted", "gone"}
    BY <1>8 DEF EnqueueHttp, StayQueued, Sleep, GateValues
  <2>3. QED
    BY <1>4, <2>1, <2>2
<1>9. ASSUME NEW c \in Callers, Announce(c) PROVE TurnIsAwake'
  <2>1. Turn' # NoCaller => caller'[Turn'] # "asleep" \/ Turn' \in notified'
    BY <1>2, <1>9 DEF Announce, GateValues
  <2>2. QED
    BY <2>1 DEF TurnIsAwake
<1>10. CASE UNCHANGED gateVars
  <2>1. Turn' = Turn
    BY <1>5, <1>10 DEF gateVars
  <2>2. QED
    BY <1>10, <2>1 DEF gateVars, TurnIsAwake
<1>11. QED
  BY <1>6, <1>7, <1>8, <1>9, <1>10 DEF GateNext, GateMoves

\* No wake-up is lost: the waiter whose turn it is is awake, notified, or about
\* to be (acquire, Waiting::drop and HttpPermit::drop, http.rs).
THEOREM TurnIsAwakeAlways ==
  GateSpec => []TurnIsAwake
<1>1. GateInit => GateValues /\ TurnIsAwake
  <2>1. GateInit => Turn = NoCaller
    BY DEF GateInit, Turn
  <2>2. QED
    BY <2>1, GateValuesInit DEF TurnIsAwake
<1>2. GateValues /\ TurnIsAwake /\ [GateNext]_gateVars => GateValues' /\ TurnIsAwake'
  BY GateValuesStep, TurnStep
<1>3. QED
  BY <1>1, <1>2, PTL DEF GateSpec

-----------------------------------------------------------------------------
(* Permits and places *)

QueueOfCallers ==
  /\ IsInjective(waiters)
  /\ \A c \in Callers : caller[c] \in {"asleep", "leaving"} => c \in Queued
  /\ \A c \in Queued : caller[c] \in {"asleep", "leaving", "subscribe", "inspect"}

\* The ordinary callers of a set.
OrdinaryCallers(set) == OfClass(set, "Ordinary")

PermitsOfHolders ==
  /\ total = Cardinality(Holders)
  /\ ordinary = Cardinality(OrdinaryCallers(Holders))
  /\ origins = [o \in Origins |->
       [total    |-> Cardinality(OfOrigin(Holders, o)),
        ordinary |-> Cardinality(OfOrigin(OrdinaryCallers(Holders), o))]]

\* A caller is queued once, so that leaving the queue removes it.
LEMMA UnqueueRemoves ==
  ASSUME GateValues, IsInjective(waiters), NEW c \in Callers, Unqueue(c)
  PROVE  IsInjective(waiters') /\ Queued' = Queued \ {c}
<1>1. CASE c \notin Queued
  BY <1>1 DEF Unqueue, Queued
<1>2. CASE c \in Queued
  <2> DEFINE i == CHOOSE j \in DOMAIN waiters : waiters[j] = c
             n == Len(waiters)
             left == SubSeq(waiters, 1, i - 1)
             right == SubSeq(waiters, i + 1, n)
  <2>1. i \in 1..n /\ waiters[i] = c /\ n \in Nat /\ DOMAIN waiters = 1..n
    BY <1>2 DEF Queued, GateValues
  <2>2. \A j \in 1..n : waiters[j] \in Callers
    BY <2>1 DEF GateValues
  <2>3. \A j, k \in 1..n : waiters[j] = waiters[k] => j = k
    BY <2>1 DEF IsInjective
  <2>4. waiters' = left \o right
    BY <1>2 DEF Unqueue, RemoveAt
  <2> HIDE DEF i, n
  <2>5. /\ left \in Seq(Callers) /\ Len(left) = i - 1
        /\ \A j \in 1..(i - 1) : left[j] = waiters[j]
    <3>1. 1 \in Int /\ i - 1 \in Int /\ \A j \in 1..(i - 1) : waiters[j] \in Callers
      BY <2>1, <2>2
    <3>2. /\ left \in Seq(Callers)
          /\ Len(left) = IF 1 <= i - 1 THEN (i - 1) - 1 + 1 ELSE 0
          /\ \A j \in 1..((i - 1) - 1 + 1) : left[j] = waiters[1 + j - 1]
      BY <3>1, SubSeqProperties
    <3>3. QED
      BY <2>1, <3>2
  <2>6. /\ right \in Seq(Callers) /\ Len(right) = n - i
        /\ \A j \in 1..(n - i) : right[j] = waiters[i + j]
    <3>1. i + 1 \in Int /\ n \in Int /\ \A j \in (i + 1)..n : waiters[j] \in Callers
      BY <2>1, <2>2
    <3>2. /\ right \in Seq(Callers)
          /\ Len(right) = IF i + 1 <= n THEN n - (i + 1) + 1 ELSE 0
          /\ \A j \in 1..(n - (i + 1) + 1) : right[j] = waiters[(i + 1) + j - 1]
      BY <3>1, SubSeqProperties
    <3>3. QED
      BY <2>1, <3>2
  <2> HIDE DEF left, right
  <2>7. /\ waiters' \in Seq(Callers) /\ Len(waiters') = n - 1
        /\ \A j \in 1..(n - 1) : waiters'[j] = IF j < i THEN waiters[j] ELSE waiters[j + 1]
    <3>1. /\ left \o right \in Seq(Callers) /\ Len(left \o right) = Len(left) + Len(right)
          /\ \A j \in 1..(Len(left) + Len(right)) : (left \o right)[j] =
               IF j <= Len(left) THEN left[j] ELSE right[j - Len(left)]
      BY <2>5, <2>6, ConcatProperties
    <3>2. \A j \in 1..(n - 1) : (left \o right)[j] = IF j < i THEN waiters[j] ELSE waiters[j + 1]
      BY <2>1, <2>5, <2>6, <3>1
    <3>3. QED
      BY <2>1, <2>4, <2>5, <2>6, <3>1, <3>2
  <2>8. DOMAIN waiters' = 1..(n - 1)
    BY <2>7
  <2>9. IsInjective(waiters')
    BY <2>1, <2>3, <2>7, <2>8 DEF IsInjective
  <2>10. \A d : d \in Queued' <=> d \in Queued \ {c}
    <3>1. ASSUME NEW j \in 1..(n - 1) PROVE waiters'[j] \in Queued \ {c}
      <4>1. PICK k \in 1..n : k # i /\ waiters'[j] = waiters[k]
        BY <2>1, <2>7
      <4>2. QED
        BY <2>1, <2>3, <4>1 DEF Queued
    <3>2. ASSUME NEW k \in 1..n, waiters[k] # c PROVE \E j \in 1..(n - 1) : waiters'[j] = waiters[k]
      <4>1. CASE k < i
        BY <2>1, <2>7, <4>1
      <4>2. CASE k > i
        <5>1. k - 1 \in 1..(n - 1) /\ ~(k - 1 < i) /\ k - 1 + 1 = k
          BY <2>1, <4>2
        <5>2. QED
          BY <2>7, <5>1
      <4>3. QED
        BY <2>1, <3>2, <4>1, <4>2
    <3>3. QED
      BY <2>1, <2>8, <3>1, <3>2 DEF Queued
  <2>11. QED
    BY <2>9, <2>10
<1>3. QED
  BY <1>1, <1>2

LEMMA QueueStep ==
  GateValues /\ QueueOfCallers /\ [GateNext]_gateVars => QueueOfCallers'
<1> SUFFICES ASSUME GateValues, QueueOfCallers, [GateNext]_gateVars PROVE QueueOfCallers'
  OBVIOUS
<1>1. \A c \in Queued : c \in Callers
  BY DEF Queued, GateValues
<1>2. ASSUME NEW c \in Callers, Admit(c) \/ LeaveQueue(c) PROVE QueueOfCallers'
  <2>1. IsInjective(waiters') /\ Queued' = Queued \ {c}
    BY <1>2, UnqueueRemoves DEF Admit, LeaveQueue, QueueOfCallers
  <2>2. /\ caller'[c] \in {"admitted", "gone"}
        /\ \A d \in Callers \ {c} : caller'[d] = caller[d]
    BY <1>2 DEF Admit, LeaveQueue, GateValues
  <2>3. QED
    BY <1>1, <2>1, <2>2 DEF QueueOfCallers
<1>3. ASSUME NEW c \in Callers, EnqueueHttp(c) PROVE QueueOfCallers'
  <2>1. /\ waiters' \in Seq(Callers)
        /\ \A i \in DOMAIN waiters : i \in DOMAIN waiters' /\ waiters'[i] = waiters[i]
        /\ waiters'[Len(waiters) + 1] = c
        /\ DOMAIN waiters' = DOMAIN waiters \cup {Len(waiters) + 1}
        /\ Queued' = Queued \cup {c}
    BY <1>3, EnqueueValues DEF EnqueueHttp
  <2>2. \A i \in DOMAIN waiters : waiters[i] # c
    BY <1>3 DEF EnqueueHttp, Queued
  <2>3. IsInjective(waiters')
    BY <2>1, <2>2 DEF QueueOfCallers, IsInjective
  <2>4. caller'[c] = "asleep" /\ \A d \in Callers \ {c} : caller'[d] = caller[d]
    BY <1>3 DEF EnqueueHttp, Sleep, GateValues
  <2>5. QED
    BY <1>1, <2>1, <2>3, <2>4 DEF QueueOfCallers
<1>4. ASSUME NEW c \in Callers, UNCHANGED waiters,
             \A d \in Callers \ {c} : caller'[d] = caller[d],
             caller'[c] \in {"asleep", "leaving"} => c \in Queued,
             c \in Queued => caller'[c] \in {"asleep", "leaving", "subscribe", "inspect"}
      PROVE  QueueOfCallers'
  BY <1>1, <1>4 DEF QueueOfCallers, Queued
<1>5. ASSUME NEW c \in Callers, AcquireHttp(c) \/ Subscribe(c) \/ StayQueued(c) \/ GiveUp(c)
      PROVE  QueueOfCallers'
  <2>1. /\ UNCHANGED waiters /\ \A d \in Callers \ {c} : caller'[d] = caller[d]
        /\ caller'[c] \in {"asleep", "leaving"} => c \in Queued
        /\ c \in Queued => caller'[c] \in {"asleep", "leaving", "subscribe", "inspect"}
    BY <1>5 DEF AcquireHttp, Subscribe, StayQueued, Sleep, GiveUp, GateValues
  <2>2. QED
    BY <1>4, <2>1
<1>6. ASSUME NEW c \in Callers, RefuseHttp(c) \/ ReleaseHttp(c) \/ Announce(c)
      PROVE  QueueOfCallers'
  <2>1. c \notin Queued
    BY <1>6 DEF RefuseHttp, ReleaseHttp, Announce, QueueOfCallers
  <2>2. /\ UNCHANGED waiters /\ \A d \in Callers \ {c} : caller'[d] = caller[d]
        /\ caller'[c] \notin {"asleep", "leaving"}
    BY <1>6 DEF RefuseHttp, ReleaseHttp, Announce, GateValues
  <2>3. QED
    BY <1>4, <2>1, <2>2
<1>7. CASE UNCHANGED gateVars
  BY <1>7 DEF gateVars, QueueOfCallers, Queued
<1>8. QED
  BY <1>2, <1>3, <1>5, <1>6, <1>7 DEF GateNext, GateMoves

\* The size of a set of callers that one caller joins or leaves.
LEMMA JoinAndLeave ==
  ASSUME NEW S \in SUBSET Callers, NEW c \in Callers
  PROVE  /\ Cardinality(S) \in Nat
         /\ c \notin S => Cardinality(S \cup {c}) = Cardinality(S) + 1
         /\ c \in S => Cardinality(S \ {c}) = Cardinality(S) + (-1)
<1>1. IsFiniteSet(S)
  BY GateAssumption, FS_Subset
<1>2. Cardinality(S) \in Nat
  BY <1>1, FS_CardinalityType
<1>3. c \notin S => Cardinality(S \cup {c}) = Cardinality(S) + 1
  BY <1>1, FS_AddElement
<1>4. c \in S => Cardinality(S \ {c}) = Cardinality(S) - 1
  BY <1>1, FS_RemoveElement
<1>5. QED
  BY <1>2, <1>3, <1>4

\* The counters follow the holders, when one comes or goes.
LEMMA CountIsCardinality ==
  ASSUME GateValues, PermitsOfHolders, NEW c \in Callers, NEW n \in {1, -1}, Count(c, n),
         n = 1 => c \notin Holders /\ Holders' = Holders \cup {c},
         n = -1 => c \in Holders /\ Holders' = Holders \ {c}
  PROVE  PermitsOfHolders'
<1> USE GateAssumption
<1> DEFINE p == OriginOf[c]
<1>1. Holders \subseteq Callers /\ Holders' \subseteq Callers /\ p \in Origins
  BY DEF Holders
<1>2. ASSUME NEW S \in SUBSET Callers, NEW T \in SUBSET Callers,
             n = 1 => c \notin S /\ T = S \cup {c}, n = -1 => c \in S /\ T = S \ {c}
      PROVE  Cardinality(T) = Cardinality(S) + n
  BY <1>2, JoinAndLeave
<1>3. total' = Cardinality(Holders')
  BY <1>1, <1>2 DEF Count, PermitsOfHolders
<1>4. /\ IsOrdinary(c) => Cardinality(OrdinaryCallers(Holders')) = Cardinality(OrdinaryCallers(Holders)) + n
      /\ ~IsOrdinary(c) => OrdinaryCallers(Holders') = OrdinaryCallers(Holders)
  <2>1. CASE IsOrdinary(c)
    <3>1. /\ OrdinaryCallers(Holders) \in SUBSET Callers /\ OrdinaryCallers(Holders') \in SUBSET Callers
          /\ n = 1 => c \notin OrdinaryCallers(Holders) /\ OrdinaryCallers(Holders') = OrdinaryCallers(Holders) \cup {c}
          /\ n = -1 => c \in OrdinaryCallers(Holders) /\ OrdinaryCallers(Holders') = OrdinaryCallers(Holders) \ {c}
      BY <1>1, <2>1 DEF OrdinaryCallers, OfClass, IsOrdinary
    <3>2. QED
      BY <1>2, <2>1, <3>1
  <2>2. CASE ~IsOrdinary(c)
    BY <2>2 DEF OrdinaryCallers, OfClass, IsOrdinary
  <2>3. QED
    BY <2>1, <2>2
<1>5. ordinary' = Cardinality(OrdinaryCallers(Holders'))
  <2>1. Cardinality(OrdinaryCallers(Holders)) \in Nat
    BY <1>1, JoinAndLeave DEF OrdinaryCallers, OfClass
  <2>2. CASE IsOrdinary(c)
    BY <1>4, <2>2 DEF Count, PermitsOfHolders
  <2>3. CASE ~IsOrdinary(c)
    BY <1>4, <2>1, <2>3 DEF Count, PermitsOfHolders
  <2>4. QED
    BY <2>2, <2>3
<1>6. ASSUME NEW o \in Origins
      PROVE  origins'[o] = [total    |-> Cardinality(OfOrigin(Holders', o)),
                            ordinary |-> Cardinality(OfOrigin(OrdinaryCallers(Holders'), o))]
  <2>1. origins[o] = [total    |-> Cardinality(OfOrigin(Holders, o)),
                      ordinary |-> Cardinality(OfOrigin(OrdinaryCallers(Holders), o))]
    BY DEF PermitsOfHolders
  <2>2. CASE o # p
    <3>1. origins'[o] = origins[o]
      BY <2>2 DEF Count, GateValues
    <3>2. OfOrigin(Holders', o) = OfOrigin(Holders, o)
      BY <2>2 DEF OfOrigin
    <3>3. OfOrigin(OrdinaryCallers(Holders'), o) = OfOrigin(OrdinaryCallers(Holders), o)
      BY <2>2 DEF OfOrigin, OrdinaryCallers, OfClass
    <3>4. QED
      BY <2>1, <3>1, <3>2, <3>3
  <2>3. CASE o = p
    <3>1. origins'[o] = [total |-> origins[o].total + n,
                         ordinary |-> origins[o].ordinary + (IF IsOrdinary(c) THEN n ELSE 0)]
      BY <2>3 DEF Count, GateValues
    <3>2. Cardinality(OfOrigin(Holders', o)) = Cardinality(OfOrigin(Holders, o)) + n
      <4>1. /\ OfOrigin(Holders, o) \in SUBSET Callers /\ OfOrigin(Holders', o) \in SUBSET Callers
            /\ n = 1 => c \notin OfOrigin(Holders, o)
                        /\ OfOrigin(Holders', o) = OfOrigin(Holders, o) \cup {c}
            /\ n = -1 => c \in OfOrigin(Holders, o)
                         /\ OfOrigin(Holders', o) = OfOrigin(Holders, o) \ {c}
        BY <1>1, <2>3 DEF OfOrigin
      <4>2. QED
        BY <1>2, <4>1
    <3>3. Cardinality(OfOrigin(OrdinaryCallers(Holders), o)) \in Nat
      BY <1>1, JoinAndLeave DEF OrdinaryCallers, OfClass, OfOrigin
    <3>4. Cardinality(OfOrigin(OrdinaryCallers(Holders'), o)) =
            Cardinality(OfOrigin(OrdinaryCallers(Holders), o)) + (IF IsOrdinary(c) THEN n ELSE 0)
      <4> DEFINE S == OfOrigin(OrdinaryCallers(Holders), o)
                 T == OfOrigin(OrdinaryCallers(Holders'), o)
      <4>1. CASE IsOrdinary(c)
        <5>1. /\ S \in SUBSET Callers /\ T \in SUBSET Callers
              /\ n = 1 => c \notin S /\ T = S \cup {c}
              /\ n = -1 => c \in S /\ T = S \ {c}
          BY <1>1, <2>3, <4>1 DEF OfOrigin, OrdinaryCallers, OfClass, IsOrdinary
        <5> HIDE DEF S, T
        <5>2. Cardinality(T) = Cardinality(S) + n
          BY <1>2, <5>1
        <5>3. QED
          BY <4>1, <5>2 DEF S, T
      <4>2. CASE ~IsOrdinary(c)
        <5>1. T = S
          BY <4>2 DEF OfOrigin, OrdinaryCallers, OfClass, IsOrdinary
        <5>2. QED
          BY <3>3, <4>2, <5>1
      <4>3. QED
        BY <4>1, <4>2
    <3>5. QED
      BY <2>1, <3>1, <3>2, <3>4
  <2>4. QED
    BY <2>2, <2>3
<1>7. origins' = [o \in Origins |->
        [total    |-> Cardinality(OfOrigin(Holders', o)),
         ordinary |-> Cardinality(OfOrigin(OrdinaryCallers(Holders'), o))]]
  BY <1>6 DEF Count, GateValues
<1>8. QED
  BY <1>3, <1>5, <1>7 DEF PermitsOfHolders, OrdinaryCallers

LEMMA PermitsStep ==
  GateValues /\ PermitsOfHolders /\ [GateNext]_gateVars => PermitsOfHolders'
<1> SUFFICES ASSUME GateValues, PermitsOfHolders, [GateNext]_gateVars PROVE PermitsOfHolders'
  OBVIOUS
<1>1. ASSUME NEW c \in Callers, Admit(c) PROVE PermitsOfHolders'
  <2>1. Count(c, 1) /\ c \notin Holders /\ Holders' = Holders \cup {c}
    BY <1>1 DEF Admit, Holders, GateValues
  <2>2. QED
    BY <2>1, CountIsCardinality
<1>2. ASSUME NEW c \in Callers, ReleaseHttp(c) PROVE PermitsOfHolders'
  <2>1. Count(c, -1) /\ c \in Holders /\ Holders' = Holders \ {c}
    BY <1>2 DEF ReleaseHttp, Holders, GateValues
  <2>2. QED
    BY <2>1, CountIsCardinality
<1>3. CASE UNCHANGED <<total, ordinary, origins>> /\ Holders' = Holders
  BY <1>3 DEF PermitsOfHolders
<1>4. ASSUME NEW c \in Callers,
             \/ AcquireHttp(c) \/ Subscribe(c) \/ RefuseHttp(c) \/ EnqueueHttp(c) \/ StayQueued(c)
             \/ GiveUp(c) \/ LeaveQueue(c) \/ Announce(c)
      PROVE  PermitsOfHolders'
  <2>1. Holders' = Holders
    <3>1. CASE Announce(c)
      BY <3>1 DEF Announce, Holders, GateValues
    <3>2. CASE ~Announce(c)
      BY <1>4, <3>2 DEF AcquireHttp, Subscribe, RefuseHttp, EnqueueHttp, StayQueued, Sleep,
                        GiveUp, LeaveQueue, Holders, GateValues
    <3>3. QED
      BY <3>1, <3>2
  <2>2. UNCHANGED <<total, ordinary, origins>>
    BY <1>4 DEF AcquireHttp, Subscribe, RefuseHttp, EnqueueHttp, StayQueued, GiveUp, LeaveQueue,
                Announce
  <2>3. QED
    BY <1>3, <2>1, <2>2
<1>5. CASE UNCHANGED gateVars
  BY <1>3, <1>5 DEF gateVars, Holders
<1>6. QED
  BY <1>1, <1>2, <1>4, <1>5 DEF GateNext, GateMoves

\* The counters of the gate are those of the permits that are held, and its
\* queue that of the callers that wait (acquire and the drops, http.rs).
THEOREM GateTypeCorrect ==
  GateSpec => []GateTypeOK
<1>1. GateInit => GateValues /\ QueueOfCallers /\ PermitsOfHolders
  <2> SUFFICES ASSUME GateInit PROVE GateValues /\ QueueOfCallers /\ PermitsOfHolders
    OBVIOUS
  <2>1. Holders = {} /\ OrdinaryCallers(Holders) = {} /\ Queued = {}
    BY DEF GateInit, Holders, OrdinaryCallers, OfClass, Queued
  <2>2. \A o : OfOrigin(Holders, o) = {} /\ OfOrigin(OrdinaryCallers(Holders), o) = {}
    BY <2>1 DEF OfOrigin
  <2>3. PermitsOfHolders
    BY <2>1, <2>2, FS_EmptySet DEF GateInit, PermitsOfHolders
  <2>4. QueueOfCallers
    BY <2>1 DEF GateInit, QueueOfCallers, IsInjective
  <2>5. QED
    BY <2>3, <2>4, GateValuesInit
<1>2. GateValues /\ QueueOfCallers /\ PermitsOfHolders /\ [GateNext]_gateVars
        => GateValues' /\ QueueOfCallers' /\ PermitsOfHolders'
  BY GateValuesStep, QueueStep, PermitsStep
<1>3. GateValues /\ QueueOfCallers /\ PermitsOfHolders => GateTypeOK
  BY DEF GateValues, QueueOfCallers, PermitsOfHolders, OrdinaryCallers, GateTypeOK
<1>4. QED
  BY <1>1, <1>2, <1>3, PTL DEF GateSpec

-----------------------------------------------------------------------------
(* RefreshService: instants *)

\* Four numbers have a greatest.
LEMMA MaxOfFour ==
  ASSUME NEW a \in Nat, NEW b \in Nat, NEW c \in Nat, NEW d \in Nat
  PROVE  /\ Max({a, b, c, d}) \in {a, b, c, d}
         /\ \A x \in {a, b, c, d} : x <= Max({a, b, c, d})
<1>1. \E x \in {a, b, c, d} : \A y \in {a, b, c, d} : x >= y
  OBVIOUS
<1>2. /\ Max({a, b, c, d}) \in {a, b, c, d}
      /\ \A y \in {a, b, c, d} : Max({a, b, c, d}) >= y
  BY <1>1 DEF Max
<1>3. QED
  BY <1>2

\* The delays of the configuration are instants, and never 0.
LEMMA Delays ==
  /\ Horizon \in Nat /\ Never \notin Nat
  /\ Interval \in 1..Horizon /\ MinimumInterval \in 1..Horizon
  /\ RetryAfter \in 1..Horizon /\ Spacing \in 1..Horizon
<1>1. /\ Interval \in Nat \ {0} /\ MinimumInterval \in Nat \ {0}
      /\ RetryAfter \in Nat \ {0} /\ Spacing \in Nat \ {0} /\ Never \notin Nat
  BY RefreshAssumption
<1>2. QED
  BY <1>1, MaxOfFour DEF Horizon

\* Instants are closed under the operations on them, and Never is the last.
LEMMA InstantValues ==
  ASSUME NEW t \in Instants, NEW u \in Instants
  PROVE  /\ Earliest(t, u) \in Instants
         /\ Earliest(t, u) = Never <=> t = Never /\ u = Never
         /\ t # Never => Earliest(t, u) <= t /\ t \in Nat
         /\ u # Never => Earliest(t, u) <= u /\ u \in Nat
         /\ Earliest(t, u) = t \/ Earliest(t, u) = u
         /\ Sooner(t) \in Instants
         /\ Sooner(t) = Never <=> t = Never
         /\ t = 0 => Sooner(t) = 0
         /\ t # Never => Sooner(t) = IF t = 0 THEN 0 ELSE t - 1
         /\ 0 \in Instants /\ Never \in Instants /\ Interval \in Instants
BY Delays DEF Instants, Earliest, Sooner

\* A floor is an instant that comes.
LEMMA FloorValues ==
  ASSUME NEW t \in Instants, NEW u \in 0..Horizon, NEW v \in 0..Horizon
  PROVE  /\ Latest(u, v) \in 0..Horizon
         /\ Sooner(u) \in 0..Horizon
         /\ NotBefore(t, u) \in Instants
         /\ NotBefore(t, u) = Never <=> t = Never
         /\ u \in Instants /\ u # Never
BY Delays DEF Instants, Latest, NotBefore, Sooner

-----------------------------------------------------------------------------
(* Entries *)

\* What is owed is asked for: an automatic key remembers the event until a read
\* begins after it, and is due again by then.
Tracks(e, t) ==
  t # Never =>
    /\ e.automatic /\ ~e.unsupported
    /\ t # 0 => e.event # Never /\ t <= e.event
    /\ e.job = 0 => e.next # Never
    /\ e.job # 0 => e.dirty \/ e.again # Never \/ e.event # Never

\* An operation that does not touch the running read or those who wait for it.
KeepsRead(f, e) == f \in Entries /\ f.job = e.job /\ f.awaited = e.awaited

\* The fields of an entry.
LEMMA EntryFields ==
  ASSUME NEW e \in Entries
  PROVE  /\ e.next \in Instants /\ e.again \in Instants /\ e.event \in Instants
         /\ e.passive \in Instants /\ e.floor \in 0..Horizon
         /\ e.automatic \in BOOLEAN /\ e.manual \in BOOLEAN /\ e.dirty \in BOOLEAN
         /\ e.unsupported \in BOOLEAN /\ e.job \in Jobs \cup {0} /\ e.awaited \in BOOLEAN
         /\ e # NoEntry
BY NoEntryAssumption DEF Entries

\* RefreshEntry::new asks for nothing.
LEMMA NewEntryFields ==
  NewEntry \in Entries /\ NewEntry.job = 0 /\ ~NewEntry.awaited /\ NewEntry.automatic
<1>1. Never \in Instants /\ 0 \in Instants /\ 0 \in 0..Horizon
  BY Delays DEF Instants
<1>2. QED
  BY <1>1 DEF NewEntry, Entries

\* RefreshEntry::schedule keeps the events it was asked to serve.
LEMMA ScheduleKeeps ==
  ASSUME NEW e \in Entries, NEW due \in Instants
  PROVE  /\ KeepsRead(Schedule(e, due), e)
         /\ Schedule(e, due).event = e.event /\ Schedule(e, due).dirty = e.dirty
         /\ Schedule(e, due).automatic = e.automatic
         /\ Schedule(e, due).unsupported = e.unsupported
         /\ \A t : Tracks(e, t) => Tracks(Schedule(e, due), t)
         /\ ~e.unsupported /\ e.job = 0 /\ due # Never => Schedule(e, due).next # Never
         /\ ~e.unsupported /\ e.job # 0 /\ due # Never => Schedule(e, due).again # Never
<1>1. /\ Earliest(e.again, due) \in Instants /\ Earliest(e.next, due) \in Instants
      /\ Earliest(e.again, due) = Never <=> e.again = Never /\ due = Never
      /\ Earliest(e.next, due) = Never <=> e.next = Never /\ due = Never
  BY EntryFields, InstantValues
<1>2. CASE e.unsupported
  BY <1>2 DEF Schedule, KeepsRead
<1>3. CASE ~e.unsupported /\ e.job # 0
  <2> DEFINE f == [e EXCEPT !.again = Earliest(@, due)]
  <2>1. /\ f \in Entries /\ f.again = Earliest(e.again, due) /\ f.next = e.next
        /\ f.job = e.job /\ f.awaited = e.awaited /\ f.event = e.event /\ f.dirty = e.dirty
        /\ f.automatic = e.automatic /\ f.unsupported = e.unsupported
    BY <1>1 DEF Entries
  <2>2. Schedule(e, due) = f
    BY <1>3 DEF Schedule
  <2> HIDE DEF f
  <2>3. QED
    BY <1>1, <1>3, <2>1, <2>2 DEF KeepsRead, Tracks
<1>4. CASE ~e.unsupported /\ e.job = 0
  <2> DEFINE f == [e EXCEPT !.next = Earliest(@, due)]
  <2>1. /\ f \in Entries /\ f.next = Earliest(e.next, due) /\ f.again = e.again
        /\ f.job = e.job /\ f.awaited = e.awaited /\ f.event = e.event /\ f.dirty = e.dirty
        /\ f.automatic = e.automatic /\ f.unsupported = e.unsupported
    BY <1>1 DEF Entries
  <2>2. Schedule(e, due) = f
    BY <1>4 DEF Schedule
  <2> HIDE DEF f
  <2>3. QED
    BY <1>1, <1>4, <2>1, <2>2 DEF KeepsRead, Tracks
<1>5. QED
  BY <1>2, <1>3, <1>4

\* request_now: a caller's read, which also ends `unsupported`.
LEMMA AskedKeeps ==
  ASSUME NEW e \in Entries
  PROVE  KeepsRead(Asked(e), e) /\ \A t : Tracks(e, t) => Tracks(Asked(e), t)
<1> DEFINE f == [e EXCEPT !.unsupported = FALSE]
           g == [f EXCEPT !.manual = TRUE]
<1>1. /\ f \in Entries /\ f.job = e.job /\ f.awaited = e.awaited /\ f.next = e.next
      /\ f.again = e.again /\ f.event = e.event /\ f.dirty = e.dirty /\ f.automatic = e.automatic
      /\ ~f.unsupported
  BY DEF Entries
<1>2. /\ g \in Entries /\ g.job = e.job /\ g.awaited = e.awaited /\ g.next = e.next
      /\ g.again = e.again /\ g.event = e.event /\ g.dirty = e.dirty /\ g.automatic = e.automatic
      /\ ~g.unsupported
  BY <1>1 DEF Entries
<1>3. Asked(e) = IF e.job # 0 THEN f ELSE Schedule(g, 0)
  BY DEF Asked
<1> HIDE DEF f, g
<1>4. 0 \in Instants
  BY Delays DEF Instants
<1>5. CASE e.job # 0
  BY <1>1, <1>3, <1>5 DEF KeepsRead, Tracks
<1>6. CASE e.job = 0
  <2>1. \A t : Tracks(e, t) => Tracks(g, t)
    BY <1>2 DEF Tracks
  <2>2. KeepsRead(Schedule(g, 0), g) /\ \A t : Tracks(g, t) => Tracks(Schedule(g, 0), t)
    BY <1>2, <1>4, ScheduleKeeps
  <2>3. QED
    BY <1>2, <1>3, <1>6, <2>1, <2>2 DEF KeepsRead
<1>7. QED
  BY <1>5, <1>6

\* schedule_event: what was owed by then, or by the event's time, is owed still.
LEMMA EventKeeps ==
  ASSUME NEW e \in Entries, NEW at \in Instants \ {Never}, e.automatic, ~e.unsupported
  PROVE  /\ KeepsRead(WithEvent(e, at), e)
         /\ \A t \in Instants : Tracks(e, t) =>
              Tracks(WithEvent(e, at), Earliest(t, Earliest(e.event, at)))
         /\ Tracks(WithEvent(e, at), 0)
<1> DEFINE f == [e EXCEPT !.event = Earliest(@, at)]
<1>1. /\ Earliest(e.event, at) \in Instants \ {Never} /\ Earliest(e.event, at) <= at
      /\ e.event # Never => Earliest(e.event, at) <= e.event
  BY EntryFields, InstantValues
<1>2. /\ f \in Entries /\ f.job = e.job /\ f.awaited = e.awaited /\ f.next = e.next
      /\ f.again = e.again /\ f.event = Earliest(e.event, at) /\ f.dirty = e.dirty
      /\ f.automatic = e.automatic /\ f.unsupported = e.unsupported
  BY <1>1 DEF Entries
<1>3. WithEvent(e, at) = Schedule(f, at)
  BY DEF WithEvent
<1> HIDE DEF f
<1> DEFINE g == Schedule(f, at)
<1>4. /\ KeepsRead(g, f) /\ g.event = f.event /\ g.automatic /\ ~g.unsupported
      /\ f.job = 0 => g.next # Never
      /\ f.job # 0 => g.again # Never
  BY <1>2, ScheduleKeeps
<1> HIDE DEF g
<1>5. KeepsRead(g, e)
  BY <1>2, <1>4 DEF KeepsRead
<1>6. g.event \in Nat /\ g.event # Never
  BY <1>1, <1>2, <1>4, Delays DEF Instants
<1>7. Tracks(g, 0)
  BY <1>2, <1>4, <1>6 DEF Tracks, KeepsRead
<1>8. ASSUME NEW t \in Instants, Tracks(e, t)
      PROVE  Tracks(g, Earliest(t, Earliest(e.event, at)))
  <2>1. /\ Earliest(t, Earliest(e.event, at)) <= Earliest(e.event, at)
        /\ Earliest(t, Earliest(e.event, at)) # Never
    BY <1>1, InstantValues
  <2>2. QED
    BY <1>2, <1>4, <1>6, <2>1 DEF Tracks, KeepsRead
<1>9. QED
  BY <1>3, <1>5, <1>7, <1>8 DEF g

\* mark_dirty: idle or running, the change is followed by a read.
LEMMA DirtiedKeeps ==
  ASSUME NEW e \in Entries, e.automatic, ~e.unsupported
  PROVE  KeepsRead(Dirtied(e), e) /\ Tracks(Dirtied(e), 0)
<1>1. CASE e.job = 0
  <2>1. 0 \in Instants \ {Never}
    BY Delays DEF Instants
  <2>2. QED
    BY <1>1, <2>1, EventKeeps DEF Dirtied
<1>2. CASE e.job # 0
  <2> DEFINE f == [e EXCEPT !.dirty = TRUE]
  <2>1. /\ f \in Entries /\ f.job = e.job /\ f.awaited = e.awaited /\ f.dirty
        /\ f.automatic /\ ~f.unsupported
    BY DEF Entries
  <2>2. Dirtied(e) = f
    BY <1>2 DEF Dirtied
  <2> HIDE DEF f
  <2>3. QED
    BY <1>2, <2>1, <2>2 DEF KeepsRead, Tracks
<1>3. QED
  BY <1>1, <1>2

\* register_origin and set_automatic, on a new or a known key.
LEMMA SetAutomaticKeeps ==
  ASSUME NEW e \in Entries, NEW due \in Instants, NEW automatic \in BOOLEAN
  PROVE  /\ KeepsRead(SetAutomatic(Reconciled(e, due), automatic), e)
         /\ SetAutomatic(Reconciled(e, due), automatic).automatic = automatic
         /\ automatic => \A t : Tracks(e, t) =>
              Tracks(SetAutomatic(Reconciled(e, due), automatic), t)
<1> DEFINE r == Reconciled(e, due)
           f == SetAutomatic(r, automatic)
<1>1. KeepsRead(r, e) /\ \A t : Tracks(e, t) => Tracks(r, t)
  BY ScheduleKeeps DEF Reconciled, KeepsRead
<1>2. r \in Entries
  BY <1>1 DEF KeepsRead
<1> HIDE DEF r
<1>3. Never \in Instants
  BY DEF Instants
<1>4. /\ f \in Entries /\ f.job = r.job /\ f.awaited = r.awaited /\ f.dirty = r.dirty
      /\ f.again = r.again /\ f.automatic = automatic /\ f.unsupported = r.unsupported
      /\ automatic => f.event = r.event /\ f.next = r.next
  BY <1>2, <1>3 DEF SetAutomatic, Entries
<1> HIDE DEF f
<1>5. automatic => \A t : Tracks(r, t) => Tracks(f, t)
  BY <1>4 DEF Tracks
<1>6. QED
  BY <1>1, <1>4, <1>5 DEF KeepsRead, r, f

\* observe_passive_quota: the read an event asked for stays asked for.
LEMMA ObservedKeeps ==
  ASSUME NEW e \in Entries, NEW left \in Instants \ {Never}
  PROVE  KeepsRead(Observed(e, left), e) /\ \A t : Tracks(e, t) => Tracks(Observed(e, left), t)
<1> DEFINE f == [e EXCEPT !.passive = left]
           g == [e EXCEPT !.next = Earliest(e.event, left)]
<1>1. Earliest(e.event, left) \in Instants \ {Never}
  BY EntryFields, InstantValues
<1>2. /\ f \in Entries /\ f.job = e.job /\ f.awaited = e.awaited /\ f.next = e.next
      /\ f.again = e.again /\ f.event = e.event /\ f.dirty = e.dirty
      /\ f.automatic = e.automatic /\ f.unsupported = e.unsupported
  BY DEF Entries
<1>3. /\ g \in Entries /\ g.job = e.job /\ g.awaited = e.awaited
      /\ g.next = Earliest(e.event, left)
      /\ g.again = e.again /\ g.event = e.event /\ g.dirty = e.dirty
      /\ g.automatic = e.automatic /\ g.unsupported = e.unsupported
  BY <1>1 DEF Entries
<1>4. Observed(e, left) = IF e.job # 0 THEN f ELSE IF e.manual THEN e ELSE g
  BY DEF Observed
<1> HIDE DEF f, g
<1>5. Observed(e, left) \in {e, f, g}
  BY <1>4
<1>6. QED
  BY <1>1, <1>2, <1>3, <1>5 DEF KeepsRead, Tracks

\* defer_until moves the provider's floor only.
LEMMA FlooredKeeps ==
  ASSUME NEW e \in Entries, NEW at \in 0..Horizon
  PROVE  /\ KeepsRead([e EXCEPT !.floor = Latest(@, at)], e)
         /\ \A t : Tracks(e, t) => Tracks([e EXCEPT !.floor = Latest(@, at)], t)
<1> DEFINE f == [e EXCEPT !.floor = Latest(@, at)]
<1>1. Latest(e.floor, at) \in 0..Horizon
  BY EntryFields, FloorValues, Delays DEF Instants
<1>2. /\ f \in Entries /\ f.job = e.job /\ f.awaited = e.awaited /\ f.next = e.next
      /\ f.again = e.again /\ f.event = e.event /\ f.dirty = e.dirty
      /\ f.automatic = e.automatic /\ f.unsupported = e.unsupported
  BY <1>1 DEF Entries
<1> HIDE DEF f
<1>3. KeepsRead(f, e) /\ \A t : Tracks(e, t) => Tracks(f, t)
  BY <1>2 DEF KeepsRead, Tracks
<1>4. QED
  BY <1>3 DEF f

\* A caller joins the read of an entry.
LEMMA AwaitedKeeps ==
  ASSUME NEW e \in Entries, NEW awaited \in BOOLEAN
  PROVE  /\ [e EXCEPT !.awaited = awaited] \in Entries
         /\ [e EXCEPT !.awaited = awaited].job = e.job
         /\ [e EXCEPT !.awaited = awaited].awaited = awaited
         /\ \A t : Tracks(e, t) => Tracks([e EXCEPT !.awaited = awaited], t)
<1> DEFINE f == [e EXCEPT !.awaited = awaited]
<1>1. /\ f \in Entries /\ f.job = e.job /\ f.awaited = awaited /\ f.next = e.next
      /\ f.again = e.again /\ f.event = e.event /\ f.dirty = e.dirty
      /\ f.automatic = e.automatic /\ f.unsupported = e.unsupported
  BY DEF Entries
<1> HIDE DEF f
<1>2. \A t : Tracks(e, t) => Tracks(f, t)
  BY <1>1 DEF Tracks
<1>3. QED
  BY <1>1, <1>2 DEF f

\* claim_due: a read that begins answers the events that are due, the others
\* make it run again.
LEMMA ClaimedKeeps ==
  ASSUME NEW e \in Entries, NEW job \in Jobs
  PROVE  /\ Claimed(e, job) \in Entries
         /\ Claimed(e, job).job = job /\ Claimed(e, job).awaited
         /\ \A t \in Instants : Tracks(e, t) =>
              Tracks(Claimed(e, job), IF t = 0 THEN Never ELSE t)
<1> DEFINE c == Claimed(e, job)
<1>1. /\ Earliest(e.again, e.event) \in Instants /\ Never \in Instants
      /\ e.event # Never => Earliest(e.again, e.event) # Never
  BY EntryFields, InstantValues DEF Instants
<1>2. /\ c \in Entries /\ c.job = job /\ c.awaited
      /\ c.again = (IF e.event = 0 THEN e.again ELSE Earliest(e.again, e.event))
      /\ c.event = (IF e.event = 0 THEN Never ELSE e.event)
      /\ c.automatic = e.automatic /\ c.unsupported = e.unsupported
  BY <1>1 DEF Claimed, Entries
<1> HIDE DEF c
<1>3. ASSUME NEW t \in Instants, Tracks(e, t), t # 0, t # Never
      PROVE  Tracks(c, t)
  <2>1. t \in Nat /\ e.event \in Nat /\ e.event # 0 /\ e.event # Never
    BY <1>3, EntryFields, Delays DEF Tracks, Instants
  <2>2. c.event = e.event /\ c.again # Never /\ c.job # 0
    BY <1>1, <1>2, <2>1, RefreshAssumption
  <2>3. QED
    BY <1>2, <1>3, <2>1, <2>2 DEF Tracks
<1>4. QED
  BY <1>2, <1>3 DEF c, Tracks

\* complete: an automatic key is due again after a read, unless the provider has
\* no such value.
LEMMA CompletedKeeps ==
  ASSUME NEW e \in Entries, NEW outcome \in {"success", "failed", "unsupported"}
  PROVE  /\ Completed(e, outcome) \in Entries
         /\ Completed(e, outcome).job = 0
         /\ outcome # "unsupported" =>
              \A t : Tracks(e, t) => Tracks(Completed(e, outcome), t)
<1> DEFINE c == Completed(e, outcome)
           floor == Latest(e.floor, IF outcome = "failed" THEN RetryAfter ELSE MinimumInterval)
           replaced == e.passive # Never /\ ~e.dirty /\ outcome = "failed"
           periodic == IF ~e.automatic THEN Never
                       ELSE IF e.passive # Never THEN e.passive ELSE Interval
           next == CASE outcome = "success" ->
                          Earliest(Earliest(periodic, e.again), IF e.dirty THEN 0 ELSE Never)
                     [] outcome = "failed" ->
                          IF replaced THEN Earliest(e.passive, e.again) ELSE floor
                     [] outcome = "unsupported" -> Never
           due == IF e.automatic THEN NotBefore(next, floor) ELSE Never
<1>1. /\ floor \in 0..Horizon /\ floor \in Instants /\ floor # Never
      /\ Never \in Instants /\ 0 \in Instants
  <2>1. (IF outcome = "failed" THEN RetryAfter ELSE MinimumInterval) \in 0..Horizon
    BY Delays
  <2>2. floor \in 0..Horizon
    BY <2>1, EntryFields, FloorValues, Delays DEF Instants
  <2> HIDE DEF floor
  <2>3. QED
    BY <2>2, Delays DEF Instants
<1>2. periodic \in Instants /\ (e.automatic => periodic # Never)
  BY EntryFields, Delays DEF Instants
<1> HIDE DEF periodic
<1>3. /\ Earliest(periodic, e.again) \in Instants
      /\ e.automatic => Earliest(periodic, e.again) # Never
  BY <1>2, EntryFields, InstantValues
<1>4. /\ Earliest(Earliest(periodic, e.again), IF e.dirty THEN 0 ELSE Never) \in Instants
      /\ e.automatic => Earliest(Earliest(periodic, e.again), IF e.dirty THEN 0 ELSE Never) # Never
  BY <1>1, <1>3, InstantValues
<1>5. /\ Earliest(e.passive, e.again) \in Instants
      /\ e.passive # Never => Earliest(e.passive, e.again) # Never
  BY EntryFields, InstantValues
<1> HIDE DEF floor
<1>6. next \in Instants /\ (e.automatic /\ outcome # "unsupported" => next # Never)
  <2>1. CASE outcome = "success"
    BY <1>4, <2>1
  <2>2. CASE outcome = "failed"
    BY <1>1, <1>5, <2>2
  <2>3. CASE outcome = "unsupported"
    BY <1>1, <2>3
  <2>4. QED
    BY <2>1, <2>2, <2>3
<1> HIDE DEF next
<1>7. due \in Instants /\ (e.automatic /\ outcome # "unsupported" => due # Never)
  BY <1>1, <1>6, FloorValues
<1>8. c = [e EXCEPT !.job = 0, !.again = Never, !.passive = Never, !.dirty = FALSE,
                    !.floor = floor, !.next = due,
                    !.unsupported = @ \/ outcome = "unsupported",
                    !.event = IF outcome = "unsupported" THEN Never ELSE @,
                    !.awaited = FALSE]
  BY DEF Completed, floor, next, periodic
<1> HIDE DEF due, c
<1>9. /\ c \in Entries /\ c.job = 0 /\ c.next = due /\ c.automatic = e.automatic
      /\ outcome # "unsupported" => c.event = e.event /\ c.unsupported = e.unsupported
  BY <1>1, <1>7, <1>8 DEF Entries
<1>10. outcome # "unsupported" => \A t : Tracks(e, t) => Tracks(c, t)
  BY <1>7, <1>9 DEF Tracks
<1>11. QED
  BY <1>9, <1>10 DEF c

\* Time passes for an event and for the read it asked for alike.
LEMMA LaterKeeps ==
  ASSUME NEW e \in Entries
  PROVE  /\ KeepsRead(Later(e), e)
         /\ \A t \in Instants : Tracks(e, t) => Tracks(Later(e), Sooner(t))
         /\ Later(e).next = Sooner(e.next) /\ Later(e).floor = Sooner(e.floor)
         /\ Later(e).unsupported = e.unsupported
<1> DEFINE f == Later(e)
<1>1. /\ Sooner(e.next) \in Instants /\ Sooner(e.again) \in Instants
      /\ Sooner(e.event) \in Instants /\ Sooner(e.passive) \in Instants
      /\ Sooner(e.floor) \in 0..Horizon
      /\ Sooner(e.next) = Never <=> e.next = Never
      /\ Sooner(e.again) = Never <=> e.again = Never
      /\ Sooner(e.event) = Never <=> e.event = Never
  BY EntryFields, InstantValues, FloorValues
<1>2. /\ f \in Entries /\ f.next = Sooner(e.next) /\ f.floor = Sooner(e.floor)
      /\ f.again = Sooner(e.again) /\ f.event = Sooner(e.event) /\ f.dirty = e.dirty
      /\ f.job = e.job /\ f.awaited = e.awaited
      /\ f.automatic = e.automatic /\ f.unsupported = e.unsupported
  BY <1>1 DEF Later, Entries
<1> HIDE DEF f
<1>3. ASSUME NEW t \in Instants, Tracks(e, t)
      PROVE  Tracks(f, Sooner(t))
  <2>1. /\ Sooner(t) = Never <=> t = Never
        /\ t # Never => Sooner(t) = (IF t = 0 THEN 0 ELSE t - 1) /\ t \in Nat
    BY <1>3, InstantValues
  <2>2. ASSUME Sooner(t) # Never, Sooner(t) # 0
        PROVE  f.event # Never /\ Sooner(t) <= f.event
    <3>1. t # Never /\ t \in Nat /\ t # 0 /\ Sooner(t) = t - 1 /\ t - 1 # 0
      BY <2>1, <2>2
    <3>2. e.event # Never /\ t <= e.event
      BY <1>3, <3>1 DEF Tracks
    <3>3. e.event \in Nat /\ Sooner(e.event) = IF e.event = 0 THEN 0 ELSE e.event - 1
      BY <3>2, EntryFields, InstantValues
    <3>4. QED
      BY <1>1, <1>2, <3>1, <3>2, <3>3
  <2>3. QED
    BY <1>1, <1>2, <1>3, <2>1, <2>2 DEF Tracks
<1>4. QED
  BY <1>2, <1>3 DEF f, KeepsRead

-----------------------------------------------------------------------------
(* The inductive invariant *)

RefreshValues ==
  /\ entry \in [Keys -> Entries \cup {NoEntry}]
  /\ Running \subseteq Jobs /\ \A j \in Running : jobs[j] \in Keys
  /\ spacing \in [Scopes -> 0..Horizon]
  /\ cursor \in DOMAIN ClassOrder
  /\ asking \in [RefreshCallers -> Keys \cup {NoEntry}]
  /\ driver \in Drivers
  /\ changed \in BOOLEAN /\ unsignalled \in BOOLEAN /\ stopped \in BOOLEAN
  /\ owed \in [Keys -> Instants] /\ deferrals \in 0..MaxDeferrals

\* Callers wait at an entry that knows of them; the current read of an entry is
\* a job of its key, and none whose registration was removed.
Linked ==
  /\ \A c \in RefreshCallers : asking[c] # NoEntry =>
       asking[c] \in Registered /\ entry[asking[c]].awaited
  /\ retired \subseteq Running
  /\ \A k \in Registered : IsRunning(k) =>
       entry[k].job \in Running \ retired /\ jobs[entry[k].job] = k

EventInv ==
  \A k \in Keys : owed[k] # Never => k \in Registered /\ Tracks(entry[k], owed[k])

\* The timer of a driver that sleeps runs out by the time any read may start,
\* unless a signal comes.
TimerInv ==
  driver.at = "select" /\ ~changed /\ ~unsignalled =>
    \A k \in Claimable : driver.timer # Never /\ driver.timer <= EligibleAt(k)

\* What is registered has an entry.
LEMMA RegisteredEntry ==
  ASSUME RefreshValues, NEW k \in Registered
  PROVE  k \in Keys /\ entry[k] \in Entries
BY DEF RefreshValues, Registered

\* Operations that start and end no read keep callers, reads and events linked,
\* if they carry them over entry by entry.
LEMMA CarriedOver ==
  ASSUME RefreshValues, Linked, EventInv, jobs' = jobs,
         entry' \in [Keys -> Entries \cup {NoEntry}],
         \A k \in Registered' :
           entry'[k].job = IF k \in Registered THEN entry[k].job ELSE 0,
         \A k \in Registered \cap Registered' : entry[k].awaited => entry'[k].awaited,
         \A k \in Keys : owed'[k] # Never => k \in Registered' /\ Tracks(entry'[k], owed'[k]),
         retired' = retired \cup
           {entry[k].job : k \in {l \in Registered \ Registered' : IsRunning(l)}},
         \A c \in RefreshCallers : asking'[c] # NoEntry =>
           /\ asking'[c] \in Registered'
           /\ asking'[c] = asking[c] \/ entry'[asking'[c]].awaited
  PROVE  Linked' /\ EventInv'
<1>1. EventInv'
  BY DEF EventInv
<1>2. \A c \in RefreshCallers : asking'[c] # NoEntry =>
        asking'[c] \in Registered' /\ entry'[asking'[c]].awaited
  BY DEF Linked
<1>3. Running' = Running
  BY DEF Running
<1>4. retired' \subseteq Running'
  BY <1>3 DEF Linked
<1>5. ASSUME NEW k \in Registered', entry'[k].job # 0
      PROVE  entry'[k].job \in Running' \ retired' /\ jobs'[entry'[k].job] = k
  <2>1. k \in Registered /\ entry'[k].job = entry[k].job
    BY <1>5
  <2>2. entry[k].job \in Running \ retired /\ jobs[entry[k].job] = k
    BY <1>5, <2>1 DEF Linked, IsRunning
  <2>3. \A l \in Registered \ Registered' : IsRunning(l) => jobs[entry[l].job] = l
    BY DEF Linked
  <2>4. entry[k].job \notin retired'
    BY <2>2, <2>3
  <2>5. QED
    BY <1>3, <2>1, <2>2, <2>4
<1>6. QED
  BY <1>1, <1>2, <1>4, <1>5 DEF Linked, IsRunning

\* An operation on the entry of one key that leaves its read alone.
LEMMA OneCarriedOver ==
  ASSUME RefreshValues, Linked, EventInv, NEW k \in Registered, NEW f,
         jobs' = jobs, retired' = retired,
         entry' = [entry EXCEPT ![k] = f],
         f \in Entries, f.job = entry[k].job, entry[k].awaited => f.awaited,
         \A l \in Keys \ {k} : owed'[l] = owed[l],
         Tracks(f, owed'[k]),
         \A c \in RefreshCallers : asking'[c] # asking[c] => asking'[c] = k /\ f.awaited
  PROVE  entry' \in [Keys -> Entries \cup {NoEntry}] /\ Linked' /\ EventInv'
<1>1. k \in Keys /\ entry[k] \in Entries /\ entry \in [Keys -> Entries \cup {NoEntry}]
  BY RegisteredEntry DEF RefreshValues
<1>2. /\ entry' \in [Keys -> Entries \cup {NoEntry}]
      /\ entry'[k] = f /\ \A l \in Keys \ {k} : entry'[l] = entry[l]
  BY <1>1
<1>3. f # NoEntry
  BY NoEntryAssumption
<1>4. Registered' = Registered
  BY <1>1, <1>2, <1>3 DEF Registered
<1>5. \A l \in Registered' : entry'[l].job = IF l \in Registered THEN entry[l].job ELSE 0
  BY <1>2, <1>4 DEF Registered
<1>6. \A l \in Registered \cap Registered' : entry[l].awaited => entry'[l].awaited
  BY <1>2, <1>4 DEF Registered
<1>7. \A l \in Keys : owed'[l] # Never => l \in Registered' /\ Tracks(entry'[l], owed'[l])
  BY <1>2, <1>4 DEF EventInv
<1>8. retired' = retired \cup
        {entry[l].job : l \in {x \in Registered \ Registered' : IsRunning(x)}}
  BY <1>4
<1>9. \A c \in RefreshCallers : asking'[c] # NoEntry =>
        /\ asking'[c] \in Registered'
        /\ asking'[c] = asking[c] \/ entry'[asking'[c]].awaited
  BY <1>2, <1>4 DEF Linked
<1>10. QED
  BY <1>2, <1>5, <1>6, <1>7, <1>8, <1>9, CarriedOver

-----------------------------------------------------------------------------
(* Operations of the hosts *)

CoreInv == RefreshValues /\ Linked /\ EventInv

\* What is owed to a registered key.
LEMMA OwedValues ==
  ASSUME CoreInv, NEW k \in Registered
  PROVE  /\ k \in Keys /\ entry[k] \in Entries /\ owed[k] \in Instants
         /\ Tracks(entry[k], owed[k])
<1>1. k \in Keys /\ entry[k] \in Entries
  BY RegisteredEntry DEF CoreInv
<1>2. QED
  BY <1>1 DEF CoreInv, EventInv, RefreshValues, Tracks

\* RefreshService::request.
LEMMA RequestReadStep ==
  ASSUME CoreInv, NEW c \in RefreshCallers, NEW k \in Keys, RequestRead(c, k)
  PROVE  CoreInv'
<1>1. k \in Registered /\ entry[k] \in Entries /\ Tracks(entry[k], owed[k])
  BY OwedValues DEF RequestRead
<1> DEFINE f == [Asked(entry[k]) EXCEPT !.awaited = TRUE]
<1>2. KeepsRead(Asked(entry[k]), entry[k]) /\ Tracks(Asked(entry[k]), owed[k])
  BY <1>1, AskedKeeps
<1>3. f \in Entries /\ f.job = entry[k].job /\ f.awaited /\ Tracks(f, owed[k])
  BY <1>2, AwaitedKeeps DEF KeepsRead
<1>4. entry' = [entry EXCEPT ![k] = f]
  BY DEF RequestRead
<1> HIDE DEF f
<1>5. /\ asking' = [asking EXCEPT ![c] = k] /\ jobs' = jobs /\ retired' = retired /\ owed' = owed
      /\ UNCHANGED <<spacing, cursor, changed, stopped, deferrals>>
      /\ driver' \in {driver, [driver EXCEPT !.at = "turn"]} /\ unsignalled' = TRUE
  BY DEF RequestRead, Signalling
<1>6. entry' \in [Keys -> Entries \cup {NoEntry}] /\ Linked' /\ EventInv'
  <2>1. \A d \in RefreshCallers : asking'[d] # asking[d] => asking'[d] = k /\ f.awaited
    BY <1>3, <1>5 DEF CoreInv, RefreshValues
  <2>2. QED
    BY <1>1, <1>3, <1>4, <1>5, <2>1, OneCarriedOver DEF CoreInv
<1>7. driver' \in Drivers
  BY <1>5 DEF CoreInv, RefreshValues, Drivers
<1>8. RefreshValues'
  BY <1>5, <1>6, <1>7 DEF CoreInv, RefreshValues, Running
<1>9. QED
  BY <1>6, <1>8 DEF CoreInv

\* A caller that leaves takes nothing with it.
LEMMA AbandonReadStep ==
  ASSUME CoreInv, NEW c \in RefreshCallers, AbandonRead(c)
  PROVE  CoreInv'
<1>1. /\ asking' = [asking EXCEPT ![c] = NoEntry]
      /\ UNCHANGED <<entry, jobs, spacing, cursor, driver, changed, unsignalled, stopped,
                     retired, owed, deferrals>>
  BY DEF AbandonRead
<1>2. RefreshValues'
  BY <1>1 DEF CoreInv, RefreshValues, Running
<1>3. Linked'
  BY <1>1 DEF CoreInv, RefreshValues, Linked, Registered, IsRunning, Running
<1>4. EventInv'
  BY <1>1 DEF CoreInv, EventInv, Registered
<1>5. QED
  BY <1>2, <1>3, <1>4 DEF CoreInv

\* mark_dirty.
LEMMA MarkDirtyStep ==
  ASSUME CoreInv, NEW k \in Keys, MarkDirty(k)
  PROVE  CoreInv'
<1>1. k \in Registered /\ entry[k] \in Entries /\ entry[k].automatic /\ ~entry[k].unsupported
  BY OwedValues DEF MarkDirty, TakesEvents
<1> DEFINE f == Dirtied(entry[k])
<1>2. KeepsRead(f, entry[k]) /\ Tracks(f, 0)
  BY <1>1, DirtiedKeeps
<1>3. /\ entry' = [entry EXCEPT ![k] = f] /\ owed' = [owed EXCEPT ![k] = 0]
      /\ UNCHANGED <<jobs, spacing, cursor, asking, driver, changed, stopped, retired, deferrals>>
      /\ unsignalled' = TRUE
  BY DEF MarkDirty, Signalling
<1> HIDE DEF f
<1>4. owed' \in [Keys -> Instants] /\ owed'[k] = 0 /\ \A l \in Keys \ {k} : owed'[l] = owed[l]
  BY <1>3, Delays DEF CoreInv, RefreshValues, Instants
<1>5. entry' \in [Keys -> Entries \cup {NoEntry}] /\ Linked' /\ EventInv'
  BY <1>1, <1>2, <1>3, <1>4, OneCarriedOver DEF CoreInv, KeepsRead
<1>6. RefreshValues'
  BY <1>3, <1>4, <1>5 DEF CoreInv, RefreshValues, Running
<1>7. QED
  BY <1>5, <1>6 DEF CoreInv

\* schedule_event.
LEMMA ScheduleAfterStep ==
  ASSUME CoreInv, NEW k \in Keys, NEW delay \in 1..Interval, ScheduleAfter(k, delay)
  PROVE  CoreInv'
<1>1. /\ k \in Registered /\ entry[k] \in Entries /\ Tracks(entry[k], owed[k])
      /\ entry[k].automatic /\ ~entry[k].unsupported /\ owed[k] \in Instants
  BY OwedValues DEF ScheduleAfter, TakesEvents
<1> DEFINE f == WithEvent(entry[k], delay)
           t == Earliest(owed[k], Earliest(entry[k].event, delay))
<1>2. delay \in Instants \ {Never}
  BY Delays DEF Instants
<1>3. KeepsRead(f, entry[k]) /\ Tracks(f, t)
  BY <1>1, <1>2, EventKeeps
<1>4. t \in Instants
  BY <1>1, <1>2, EntryFields, InstantValues
<1>5. /\ entry' = [entry EXCEPT ![k] = f] /\ owed' = [owed EXCEPT ![k] = t]
      /\ UNCHANGED <<jobs, spacing, cursor, asking, driver, changed, stopped, retired, deferrals>>
      /\ unsignalled' = TRUE
  BY DEF ScheduleAfter, Signalling
<1> HIDE DEF f, t
<1>6. owed' \in [Keys -> Instants] /\ owed'[k] = t /\ \A l \in Keys \ {k} : owed'[l] = owed[l]
  BY <1>4, <1>5 DEF CoreInv, RefreshValues
<1>7. entry' \in [Keys -> Entries \cup {NoEntry}] /\ Linked' /\ EventInv'
  BY <1>1, <1>3, <1>5, <1>6, OneCarriedOver DEF CoreInv, KeepsRead
<1>8. RefreshValues'
  BY <1>5, <1>6, <1>7 DEF CoreInv, RefreshValues, Running
<1>9. QED
  BY <1>7, <1>8 DEF CoreInv

\* defer_until.
LEMMA RespectRetryAfterStep ==
  ASSUME CoreInv, NEW k \in Keys, RespectRetryAfter(k)
  PROVE  CoreInv'
<1>1. k \in Registered /\ entry[k] \in Entries /\ Tracks(entry[k], owed[k])
  BY OwedValues DEF RespectRetryAfter
<1> DEFINE f == [entry[k] EXCEPT !.floor = Latest(@, RetryAfter)]
<1>2. KeepsRead(f, entry[k]) /\ Tracks(f, owed[k])
  BY <1>1, FlooredKeeps, Delays
<1>3. /\ entry' = [entry EXCEPT ![k] = f] /\ deferrals' = deferrals + 1 /\ deferrals < MaxDeferrals
      /\ UNCHANGED <<jobs, spacing, cursor, asking, driver, changed, stopped, retired, owed>>
      /\ unsignalled' = TRUE
  BY <1>1 DEF RespectRetryAfter, Signalling, CoreInv, RefreshValues
<1> HIDE DEF f
<1>4. entry' \in [Keys -> Entries \cup {NoEntry}] /\ Linked' /\ EventInv'
  BY <1>1, <1>2, <1>3, OneCarriedOver DEF CoreInv, KeepsRead
<1>5. deferrals' \in 0..MaxDeferrals
  BY <1>3, RefreshAssumption DEF CoreInv, RefreshValues
<1>6. RefreshValues'
  BY <1>3, <1>4, <1>5 DEF CoreInv, RefreshValues, Running
<1>7. QED
  BY <1>4, <1>6 DEF CoreInv

\* observe_passive_quota.
LEMMA ObservePassiveQuotaStep ==
  ASSUME CoreInv, NEW k \in Keys, ObservePassiveQuota(k, Interval)
  PROVE  CoreInv'
<1>1. k \in Registered /\ entry[k] \in Entries /\ Tracks(entry[k], owed[k])
  BY OwedValues DEF ObservePassiveQuota, TakesEvents
<1> DEFINE f == Observed(entry[k], Interval)
<1>2. Interval \in Instants \ {Never}
  BY Delays DEF Instants
<1>3. KeepsRead(f, entry[k]) /\ Tracks(f, owed[k])
  BY <1>1, <1>2, ObservedKeeps
<1>4. /\ entry' = [entry EXCEPT ![k] = f]
      /\ UNCHANGED <<jobs, spacing, cursor, asking, driver, changed, stopped, retired, owed,
                     deferrals>>
      /\ unsignalled' = TRUE
  BY DEF ObservePassiveQuota, Signalling
<1> HIDE DEF f
<1>5. entry' \in [Keys -> Entries \cup {NoEntry}] /\ Linked' /\ EventInv'
  BY <1>1, <1>3, <1>4, OneCarriedOver DEF CoreInv, KeepsRead
<1>6. RefreshValues'
  BY <1>4, <1>5 DEF CoreInv, RefreshValues, Running
<1>7. QED
  BY <1>5, <1>6 DEF CoreInv

\* What remove_entry leaves: nobody waits for a removed key, its read is retired.
LEMMA WithoutKeys ==
  ASSUME CoreInv, NEW keys \in SUBSET Keys, Retire(keys)
  PROVE  /\ Without(keys) \in [Keys -> Entries \cup {NoEntry}]
         /\ \A l \in Keys : Without(keys)[l] = IF l \in keys THEN NoEntry ELSE entry[l]
         /\ Forgiven(keys) \in [Keys -> Instants]
         /\ \A l \in Keys : Forgiven(keys)[l] = IF l \in keys THEN Never ELSE owed[l]
         /\ asking' \in [RefreshCallers -> Keys \cup {NoEntry}]
         /\ \A c \in RefreshCallers : asking'[c] # NoEntry =>
              asking'[c] = asking[c] /\ asking[c] \in Registered \ keys
         /\ retired' = retired \cup {entry[k].job : k \in {l \in keys \cap Registered : IsRunning(l)}}
<1>1. \A c \in RefreshCallers : asking[c] # NoEntry => asking[c] \in Registered
  BY DEF CoreInv, Linked
<1>2. QED
  BY <1>1 DEF CoreInv, RefreshValues, Without, Forgiven, Retire, Instants

\* remove_member, remove_kind, retain and the shutdown.
LEMMA RemoveKeysStep ==
  ASSUME CoreInv, NEW keys \in SUBSET Keys, Retire(keys),
         entry' = Without(keys), owed' = Forgiven(keys),
         stopped' \in BOOLEAN, unsignalled' = TRUE,
         UNCHANGED <<jobs, spacing, cursor, driver, changed, deferrals>>
  PROVE  CoreInv'
<1>1. /\ entry' \in [Keys -> Entries \cup {NoEntry}]
      /\ \A l \in Keys : entry'[l] = IF l \in keys THEN NoEntry ELSE entry[l]
      /\ owed' \in [Keys -> Instants]
      /\ \A l \in Keys : owed'[l] = IF l \in keys THEN Never ELSE owed[l]
  BY WithoutKeys
<1>2. /\ asking' \in [RefreshCallers -> Keys \cup {NoEntry}]
      /\ \A c \in RefreshCallers : asking'[c] # NoEntry =>
           asking'[c] = asking[c] /\ asking[c] \in Registered \ keys
      /\ retired' = retired \cup {entry[k].job : k \in {l \in keys \cap Registered : IsRunning(l)}}
  BY WithoutKeys
<1>3. Registered' = Registered \ keys /\ Registered \ Registered' = keys \cap Registered
  BY <1>1 DEF Registered
<1>4. \A l \in Registered' : l \in Registered /\ entry'[l] = entry[l] /\ owed'[l] = owed[l]
  BY <1>1, <1>3 DEF Registered
<1>5. \A l \in Keys : owed'[l] # Never => l \in Registered' /\ Tracks(entry'[l], owed'[l])
  BY <1>1, <1>3, <1>4 DEF CoreInv, EventInv
<1>6. retired' = retired \cup {entry[k].job : k \in {l \in Registered \ Registered' : IsRunning(l)}}
  BY <1>2, <1>3
<1>7. Linked' /\ EventInv'
  BY <1>1, <1>2, <1>3, <1>4, <1>5, <1>6, CarriedOver DEF CoreInv
<1>8. RefreshValues'
  BY <1>1, <1>2 DEF CoreInv, RefreshValues, Running
<1>9. QED
  BY <1>7, <1>8 DEF CoreInv

\* register, which replaces the registrations of older configurations.
LEMMA RegisterStep ==
  ASSUME CoreInv, NEW k \in Keys, NEW automatic \in BOOLEAN, NEW due_now \in BOOLEAN,
         Register(k, automatic, due_now)
  PROVE  CoreInv'
<1> DEFINE obsolete == {l \in Registered \ {k} : SameRead(k, l)}
           is_new == k \notin Registered
           old == IF is_new THEN NewEntry ELSE entry[k]
           due == IF is_new /\ due_now /\ automatic THEN 0 ELSE Interval
           kept == SetAutomatic(Reconciled(old, due), automatic)
           activated == automatic /\ ~old.automatic /\ due_now
           marked == activated /\ ~kept.unsupported
           scheduled == IF marked THEN WithEvent(kept, 0) ELSE kept
           f == IF old.awaited THEN Asked(scheduled) ELSE scheduled
           t == IF ~automatic THEN Never ELSE IF marked THEN 0 ELSE owed[k]
<1>1. obsolete \in SUBSET Keys /\ obsolete \subseteq Registered /\ k \notin obsolete
  BY DEF Registered
<1>2. /\ entry' = [Without(obsolete) EXCEPT ![k] = f]
      /\ Retire(obsolete)
      /\ owed' = [Forgiven(obsolete) EXCEPT ![k] = t]
      /\ driver' = IF driver.at = "off" THEN [driver EXCEPT !.at = "turn"] ELSE driver
      /\ unsignalled' = TRUE
      /\ UNCHANGED <<jobs, spacing, cursor, changed, stopped, deferrals>>
  <2>1. Forgiven(obsolete)[k] = owed[k]
    BY <1>1 DEF Forgiven
  <2>2. owed' = [Forgiven(obsolete) EXCEPT ![k] = IF ~automatic THEN Never
                   ELSE IF activated /\ ~kept.unsupported THEN 0 ELSE @]
    BY DEF Register
  <2> HIDE DEF obsolete, is_new, due, kept, activated
  <2>3. owed' = [Forgiven(obsolete) EXCEPT ![k] = t]
    BY <2>1, <2>2 DEF Forgiven
  <2>4. QED
    BY <2>3 DEF Register, Signalling, obsolete, is_new, due, kept, activated
<1> HIDE DEF obsolete
<1>3. /\ old \in Entries
      /\ old.job = IF k \in Registered THEN entry[k].job ELSE 0
      /\ k \in Registered => old = entry[k]
      /\ owed[k] \in Instants /\ Tracks(old, owed[k])
      /\ k \notin Registered => owed[k] = Never
  <2>1. CASE k \in Registered
    BY <2>1, OwedValues
  <2>2. CASE k \notin Registered
    BY <2>2, NewEntryFields DEF CoreInv, EventInv, RefreshValues, Tracks
  <2>3. QED
    BY <2>1, <2>2
<1>4. due \in Instants
  BY Delays DEF Instants
<1> HIDE DEF old, due
<1>5. /\ KeepsRead(kept, old) /\ kept.automatic = automatic
      /\ automatic => Tracks(kept, owed[k])
  BY <1>3, <1>4, SetAutomaticKeeps
<1>6. kept \in Entries
  BY <1>5 DEF KeepsRead
<1> HIDE DEF kept
<1>7. KeepsRead(scheduled, old) /\ Tracks(scheduled, t) /\ t \in Instants
  <2>1. CASE marked
    <3>1. kept.automatic /\ ~kept.unsupported /\ automatic
      BY <1>5, <2>1
    <3>2. 0 \in Instants \ {Never}
      BY Delays DEF Instants
    <3>3. KeepsRead(WithEvent(kept, 0), kept) /\ Tracks(WithEvent(kept, 0), 0)
      BY <1>6, <3>1, <3>2, EventKeeps
    <3>4. QED
      BY <1>5, <2>1, <3>1, <3>2, <3>3 DEF KeepsRead
  <2>2. CASE ~marked
    BY <1>3, <1>5, <2>2 DEF Tracks, Instants
  <2>3. QED
    BY <2>1, <2>2
<1>8. scheduled \in Entries
  BY <1>7 DEF KeepsRead
<1> HIDE DEF scheduled, t
<1>9. KeepsRead(f, old) /\ Tracks(f, t)
  BY <1>7, <1>8, AskedKeeps DEF KeepsRead
<1> HIDE DEF f
<1>10. f \in Entries /\ f # NoEntry /\ f.job = old.job /\ f.awaited = old.awaited
  BY <1>9, EntryFields DEF KeepsRead
<1>11. /\ entry' \in [Keys -> Entries \cup {NoEntry}]
       /\ entry'[k] = f
       /\ \A l \in Keys \ {k} : entry'[l] = IF l \in obsolete THEN NoEntry ELSE entry[l]
       /\ owed' \in [Keys -> Instants]
       /\ owed'[k] = t
       /\ \A l \in Keys \ {k} : owed'[l] = IF l \in obsolete THEN Never ELSE owed[l]
  <2>1. /\ Without(obsolete) \in [Keys -> Entries \cup {NoEntry}]
        /\ \A l \in Keys : Without(obsolete)[l] = IF l \in obsolete THEN NoEntry ELSE entry[l]
        /\ Forgiven(obsolete) \in [Keys -> Instants]
        /\ \A l \in Keys : Forgiven(obsolete)[l] = IF l \in obsolete THEN Never ELSE owed[l]
    BY <1>1, <1>2, WithoutKeys
  <2>2. QED
    BY <1>2, <1>7, <1>10, <2>1
<1>12. /\ asking' \in [RefreshCallers -> Keys \cup {NoEntry}]
       /\ \A c \in RefreshCallers : asking'[c] # NoEntry =>
            asking'[c] = asking[c] /\ asking[c] \in Registered \ obsolete
       /\ retired' = retired \cup
            {entry[l].job : l \in {x \in obsolete \cap Registered : IsRunning(x)}}
  BY <1>1, <1>2, WithoutKeys
<1>13. /\ Registered' = (Registered \ obsolete) \cup {k}
       /\ Registered \ Registered' = obsolete \cap Registered
  BY <1>1, <1>10, <1>11 DEF Registered
<1>14. \A l \in Registered' \ {k} : l \in Registered /\ entry'[l] = entry[l] /\ owed'[l] = owed[l]
  BY <1>11, <1>13 DEF Registered
<1>15. \A l \in Registered' : entry'[l].job = IF l \in Registered THEN entry[l].job ELSE 0
  BY <1>3, <1>10, <1>11, <1>14
<1>16. \A l \in Registered \cap Registered' : entry[l].awaited => entry'[l].awaited
  BY <1>3, <1>10, <1>11, <1>14
<1>17. \A l \in Keys : owed'[l] # Never => l \in Registered' /\ Tracks(entry'[l], owed'[l])
  BY <1>9, <1>11, <1>13, <1>14 DEF CoreInv, EventInv
<1>18. retired' = retired \cup {entry[l].job : l \in {x \in Registered \ Registered' : IsRunning(x)}}
  BY <1>12, <1>13
<1>19. \A c \in RefreshCallers : asking'[c] # NoEntry =>
         asking'[c] \in Registered' /\ asking'[c] = asking[c]
  BY <1>12, <1>13
<1>20. Linked' /\ EventInv'
  BY <1>2, <1>11, <1>15, <1>16, <1>17, <1>18, <1>19, CarriedOver DEF CoreInv
<1>21. driver' \in Drivers
  BY <1>2 DEF CoreInv, RefreshValues, Drivers
<1>22. RefreshValues'
  BY <1>2, <1>11, <1>12, <1>21 DEF CoreInv, RefreshValues, Running
<1>23. QED
  BY <1>20, <1>22 DEF CoreInv

\* The hosts and callers.
LEMMA HostsStep ==
  ASSUME CoreInv, RefreshHosts
  PROVE  CoreInv'
<1>1. ASSUME NEW k \in Keys, NEW automatic \in BOOLEAN, NEW due_now \in BOOLEAN,
             Register(k, automatic, due_now)
      PROVE  CoreInv'
  BY <1>1, RegisterStep
<1>2. ASSUME NEW keys \in SUBSET Keys, RemoveKeys(keys)
      PROVE  CoreInv'
  <2>1. /\ Retire(keys) /\ entry' = Without(keys) /\ owed' = Forgiven(keys)
        /\ unsignalled' = TRUE
        /\ UNCHANGED <<jobs, spacing, cursor, driver, changed, stopped, deferrals>>
    BY <1>2 DEF RemoveKeys, Signalling
  <2>2. stopped' \in BOOLEAN
    BY <2>1 DEF CoreInv, RefreshValues
  <2>3. QED
    BY <2>1, <2>2, RemoveKeysStep
<1>3. ASSUME NEW c \in RefreshCallers, AbandonRead(c)
      PROVE  CoreInv'
  BY <1>3, AbandonReadStep
<1>4. ASSUME NEW c \in RefreshCallers, NEW k \in Keys, RequestRead(c, k)
      PROVE  CoreInv'
  BY <1>4, RequestReadStep
<1>5. ASSUME NEW k \in Keys, MarkDirty(k)
      PROVE  CoreInv'
  BY <1>5, MarkDirtyStep
<1>6. ASSUME NEW k \in Keys, RespectRetryAfter(k)
      PROVE  CoreInv'
  BY <1>6, RespectRetryAfterStep
<1>7. ASSUME NEW k \in Keys, ObservePassiveQuota(k, Interval)
      PROVE  CoreInv'
  BY <1>7, ObservePassiveQuotaStep
<1>8. ASSUME NEW k \in Keys, NEW delay \in 1..Interval, ScheduleAfter(k, delay)
      PROVE  CoreInv'
  BY <1>8, ScheduleAfterStep
<1>9. ASSUME ShutdownRefresh
      PROVE  CoreInv'
  <2>1. /\ Retire(Keys) /\ entry' = Without(Keys) /\ owed' = Forgiven(Keys)
        /\ unsignalled' = TRUE /\ stopped' \in BOOLEAN
        /\ UNCHANGED <<jobs, spacing, cursor, driver, changed, deferrals>>
    BY <1>9 DEF ShutdownRefresh, Signalling
  <2>2. Keys \in SUBSET Keys
    OBVIOUS
  <2>3. QED
    BY <2>1, <2>2, RemoveKeysStep
<1>10. QED
  BY <1>1, <1>2, <1>3, <1>4, <1>5, <1>6, <1>7, <1>8, <1>9 DEF RefreshHosts

-----------------------------------------------------------------------------
(* Choosing the next read *)

\* The remainder of a small number, and of one turn more.
LEMMA ModOnce ==
  ASSUME NEW t \in Nat \ {0}, NEW r \in 0..(t - 1)
  PROVE  (r + t) % t = r /\ r % t = r
OBVIOUS

\* The range of a remainder.
LEMMA ModRange ==
  ASSUME NEW t \in Nat \ {0}, NEW x \in Int
  PROVE  x % t \in 0..(t - 1)
OBVIOUS

\* An identifier is free whenever a read may start.
LEMMA FreeJobExists ==
  ASSUME RefreshValues, NEW k, RunCapacity(k)
  PROVE  FreeJob \in Jobs \ Running
<1>1. IsFiniteSet(Jobs) /\ Cardinality(Jobs) >= RunLimit /\ RunLimit \in Nat
  BY RefreshAssumption
<1>2. Running \subseteq Jobs /\ Cardinality(Running) < RunLimit
  BY DEF RefreshValues, RunCapacity
<1>3. Cardinality(Jobs) \in Nat
  BY <1>1, FS_CardinalityType
<1>4. Jobs \ Running # {}
  <2>1. SUFFICES ASSUME Jobs \subseteq Running PROVE FALSE
    OBVIOUS
  <2>2. Running = Jobs
    BY <1>2, <2>1
  <2>3. QED
    BY <1>1, <1>2, <1>3, <2>2
<1>5. QED
  BY <1>4 DEF FreeJob

\* Every class comes up within one turn of the classes.
LEMMA ClassTurn ==
  ASSUME RefreshValues, NEW k \in Keys
  PROVE  ClassDistance(k) \in Nat
<1>1. Turns \in Nat \ {0} /\ DOMAIN ClassOrder = 1..Turns
  <2>1. ClassOrder \in Seq(Range(ClassOrder)) /\ ClassOrder # <<>>
    BY RefreshAssumption
  <2>2. QED
    BY <2>1 DEF Turns
<1>2. PICK i \in 1..Turns : ClassOrder[i] = KindOf[k]
  BY <1>1, RefreshAssumption DEF Range
<1>3. cursor \in 1..Turns
  BY <1>1 DEF RefreshValues
<1> DEFINE d == IF i >= cursor THEN i - cursor ELSE i - cursor + Turns
           S == {n \in 0..(Turns - 1) : ClassAfter(n) = KindOf[k]}
<1>4. d \in 0..(Turns - 1)
  BY <1>1, <1>2, <1>3
<1>5. (cursor - 1 + d) % Turns = i - 1
  <2>1. i - 1 \in 0..(Turns - 1)
    BY <1>1, <1>2
  <2>2. cursor - 1 + d = i - 1 \/ cursor - 1 + d = (i - 1) + Turns
    BY <1>1, <1>2, <1>3
  <2> HIDE DEF d
  <2>3. (i - 1) % Turns = i - 1 /\ ((i - 1) + Turns) % Turns = i - 1
    BY <1>1, <2>1, ModOnce
  <2>4. QED
    BY <2>2, <2>3
<1> HIDE DEF d
<1>6. ClassAfter(d) = KindOf[k]
  BY <1>2, <1>5 DEF ClassAfter
<1>7. S \in SUBSET Nat /\ S # {}
  BY <1>1, <1>4, <1>6
<1>8. PICK n \in S : \A m \in S : n <= m
  BY <1>7, LeastNatural
<1>9. /\ n \in 0..(Turns - 1) /\ ClassAfter(n) = KindOf[k]
      /\ \A m \in 0..(n - 1) : ClassAfter(m) # KindOf[k]
  BY <1>1, <1>8
<1>10. ClassDistance(k) \in 0..(Turns - 1)
  BY <1>9 DEF ClassDistance
<1>11. QED
  BY <1>1, <1>10

EntryValues ==
  entry \in [Keys -> Entries \cup {NoEntry}] /\ spacing \in [Scopes -> 0..Horizon]

\* eligible_at is the latest of the four times it is made of.
LEMMA EligibleValue ==
  ASSUME EntryValues, NEW k \in Claimable
  PROVE  /\ EligibleAt(k) \in 0..Horizon
         /\ entry[k] \in Entries /\ k \in Keys
         /\ LET due == {entry[k].next, entry[k].floor, spacing["any"], spacing[OriginOfKey[k]]}
            IN  /\ due \subseteq 0..Horizon /\ EligibleAt(k) \in due
                /\ \A t \in due : t <= EligibleAt(k)
<1>1. k \in Keys /\ entry[k] \in Entries /\ entry[k].next # Never
  BY DEF Claimable, Registered, EntryValues
<1>2. entry[k].next \in 0..Horizon /\ entry[k].floor \in 0..Horizon
  BY <1>1, EntryFields DEF Instants
<1>3. spacing["any"] \in 0..Horizon /\ spacing[OriginOfKey[k]] \in 0..Horizon
  BY <1>1 DEF EntryValues, Scopes
<1> DEFINE a == entry[k].next
           b == entry[k].floor
           c == spacing["any"]
           d == spacing[OriginOfKey[k]]
<1>4. /\ a \in 0..Horizon /\ b \in 0..Horizon /\ c \in 0..Horizon /\ d \in 0..Horizon
      /\ Horizon \in Nat
  BY <1>2, <1>3, Delays
<1>5. EligibleAt(k) = Max({a, b, c, d})
  BY DEF EligibleAt
<1> HIDE DEF a, b, c, d
<1>6. Max({a, b, c, d}) \in {a, b, c, d} /\ \A t \in {a, b, c, d} : t <= Max({a, b, c, d})
  BY <1>4, MaxOfFour
<1>7. EligibleAt(k) \in {a, b, c, d} /\ \A t \in {a, b, c, d} : t <= EligibleAt(k)
  BY <1>5, <1>6
<1>8. {a, b, c, d} \subseteq 0..Horizon
  BY <1>4
<1>9. QED
  BY <1>1, <1>7, <1>8 DEF a, b, c, d

\* The same of all that may be claimed.
LEMMA EligibleValues ==
  EntryValues =>
    \A l \in Claimable :
      /\ EligibleAt(l) \in 0..Horizon
      /\ \A t \in {entry[l].next, entry[l].floor, spacing["any"], spacing[OriginOfKey[l]]} :
           t <= EligibleAt(l)
BY EligibleValue

\* next_wake is the first time at which a read may start, if there is any.
LEMMA NextWakeValue ==
  EntryValues =>
    /\ NextWake \in Instants
    /\ \A k \in Claimable : NextWake # Never /\ NextWake <= EligibleAt(k)
    /\ NextWake # Never => \E k \in Claimable : NextWake = EligibleAt(k)
<1> SUFFICES ASSUME EntryValues
             PROVE  /\ NextWake \in Instants
                    /\ \A k \in Claimable : NextWake # Never /\ NextWake <= EligibleAt(k)
                    /\ NextWake # Never => \E k \in Claimable : NextWake = EligibleAt(k)
  OBVIOUS
<1>1. CASE Claimable = {}
  BY <1>1 DEF NextWake, Instants
<1>2. CASE Claimable # {}
  <2> DEFINE S == {EligibleAt(k) : k \in Claimable}
  <2>1. S # {} /\ \A t \in S : t \in 0..Horizon
    BY <1>2, EligibleValue
  <2>2. \A t : t \in S <=> \E k \in Claimable : t = EligibleAt(k)
    OBVIOUS
  <2>3. NextWake = Min(S)
    BY <1>2 DEF NextWake
  <2> HIDE DEF S
  <2>4. S \in SUBSET Nat
    BY <2>1, Delays
  <2>5. PICK least \in S : \A t \in S : least <= t
    BY <2>1, <2>4, LeastNatural
  <2>6. Min(S) \in S /\ \A t \in S : Min(S) <= t
    BY <2>5 DEF Min
  <2>7. NextWake \in 0..Horizon /\ NextWake \in Instants /\ NextWake # Never
    BY <2>1, <2>3, <2>6, Delays DEF Instants
  <2>8. QED
    BY <2>2, <2>3, <2>6, <2>7
<1>3. QED
  BY <1>1, <1>2

-----------------------------------------------------------------------------
(* The driver *)

\* claim_due starts one read with an identifier of its own.
LEMMA ClaimDueStep ==
  ASSUME CoreInv, NEW k \in FirstDue, ClaimDue(k),
         UNCHANGED <<asking, retired>>
  PROVE  /\ entry' \in [Keys -> Entries \cup {NoEntry}] /\ spacing' \in [Scopes -> 0..Horizon]
         /\ Running' \subseteq Jobs /\ \A j \in Running' : jobs'[j] \in Keys
         /\ cursor' \in DOMAIN ClassOrder /\ owed' \in [Keys -> Instants]
         /\ Linked' /\ EventInv' /\ Running \subseteq Running'
<1>1. /\ k \in Registered /\ entry[k].job = 0 /\ RunCapacity(k)
      /\ k \in Keys /\ entry[k] \in Entries /\ owed[k] \in Instants /\ Tracks(entry[k], owed[k])
  BY OwedValues DEF FirstDue, Due, Claimable, IsRunning
<1> DEFINE job == FreeJob
           f == Claimed(entry[k], job)
           t == IF owed[k] = 0 THEN Never ELSE owed[k]
<1>2. job \in Jobs \ Running
  BY <1>1, FreeJobExists DEF CoreInv
<1>3. /\ entry' = [entry EXCEPT ![k] = f]
      /\ jobs' = [j \in Running \cup {job} |-> IF j = job THEN k ELSE jobs[j]]
      /\ spacing' = [spacing EXCEPT !["any"] = Spacing, ![OriginOfKey[k]] = Spacing]
      /\ cursor' = ((cursor - 1 + ClassDistance(k) + 1) % Turns) + 1
      /\ owed' = [owed EXCEPT ![k] = t]
  BY DEF ClaimDue
<1> HIDE DEF job
<1>4. f \in Entries /\ f.job = job /\ f.awaited /\ Tracks(f, t) /\ f # NoEntry
  BY <1>1, <1>2, ClaimedKeeps, NoEntryAssumption
<1> HIDE DEF f
<1>5. t \in Instants
  BY <1>1 DEF Instants
<1> HIDE DEF t
<1>6. /\ entry' \in [Keys -> Entries \cup {NoEntry}] /\ entry'[k] = f
      /\ \A l \in Keys \ {k} : entry'[l] = entry[l]
      /\ owed' \in [Keys -> Instants] /\ owed'[k] = t
      /\ \A l \in Keys \ {k} : owed'[l] = owed[l]
  BY <1>1, <1>3, <1>4, <1>5 DEF CoreInv, RefreshValues
<1>7. /\ Running' = Running \cup {job} /\ jobs'[job] = k
      /\ \A j \in Running : j # job /\ jobs'[j] = jobs[j]
  BY <1>2, <1>3 DEF Running
<1>8. Running' \subseteq Jobs /\ \A j \in Running' : jobs'[j] \in Keys
  BY <1>1, <1>2, <1>7 DEF CoreInv, RefreshValues
<1>9. spacing' \in [Scopes -> 0..Horizon]
  <2>1. "any" \in Scopes /\ OriginOfKey[k] \in Scopes
    BY <1>1 DEF Scopes
  <2>2. Spacing \in 0..Horizon /\ spacing \in [Scopes -> 0..Horizon]
    BY Delays DEF CoreInv, RefreshValues
  <2>3. QED
    BY <1>3, <2>1, <2>2
<1>10. cursor' \in DOMAIN ClassOrder
  <2>1. Turns \in Nat \ {0} /\ DOMAIN ClassOrder = 1..Turns
    <3>1. ClassOrder \in Seq(Range(ClassOrder)) /\ ClassOrder # <<>>
      BY RefreshAssumption
    <3>2. QED
      BY <3>1 DEF Turns
  <2>2. cursor \in 1..Turns /\ ClassDistance(k) \in Nat
    BY <1>1, <2>1, ClassTurn DEF CoreInv, RefreshValues
  <2> DEFINE x == cursor - 1 + ClassDistance(k) + 1
  <2>3. x \in Int
    BY <2>1, <2>2
  <2> HIDE DEF x
  <2>4. x % Turns \in 0..(Turns - 1)
    BY <2>1, <2>3, ModRange
  <2>5. cursor' = (x % Turns) + 1
    BY <1>3 DEF x
  <2>6. QED
    BY <2>1, <2>4, <2>5
<1>11. Registered' = Registered
  BY <1>1, <1>4, <1>6 DEF Registered
<1>12. Linked'
  <2>1. \A c \in RefreshCallers : asking'[c] # NoEntry =>
          asking'[c] \in Registered' /\ entry'[asking'[c]].awaited
    BY <1>4, <1>6, <1>11 DEF CoreInv, Linked, Registered
  <2>2. retired' \subseteq Running' /\ job \notin retired'
    BY <1>2, <1>7 DEF CoreInv, Linked
  <2>3. ASSUME NEW l \in Registered', entry'[l].job # 0
        PROVE  entry'[l].job \in Running' \ retired' /\ jobs'[entry'[l].job] = l
    <3>1. CASE l = k
      BY <1>4, <1>6, <1>7, <2>2, <3>1
    <3>2. CASE l # k
      <4>1. l \in Registered /\ entry'[l] = entry[l]
        BY <1>6, <1>11, <3>2 DEF Registered
      <4>2. entry[l].job \in Running \ retired /\ jobs[entry[l].job] = l
        BY <2>3, <4>1 DEF CoreInv, Linked, IsRunning
      <4>3. QED
        BY <1>7, <4>1, <4>2
    <3>3. QED
      BY <3>1, <3>2
  <2>4. QED
    BY <2>1, <2>2, <2>3 DEF Linked, IsRunning
<1>13. EventInv'
  <2>1. ASSUME NEW l \in Keys, owed'[l] # Never
        PROVE  l \in Registered' /\ Tracks(entry'[l], owed'[l])
    <3>1. CASE l = k
      BY <1>1, <1>4, <1>6, <1>11, <3>1
    <3>2. CASE l # k
      BY <1>6, <1>11, <2>1, <3>2 DEF CoreInv, EventInv
    <3>3. QED
      BY <3>1, <3>2
  <2>2. QED
    BY <2>1 DEF EventInv
<1>14. QED
  BY <1>6, <1>7, <1>8, <1>9, <1>10, <1>12, <1>13

\* A turn of the driver, up to its sleep with the timer set.
LEMMA DriveTurnStep ==
  ASSUME CoreInv, DriveTurn
  PROVE  CoreInv' /\ TimerInv' /\ Running \subseteq Running'
<1>1. /\ driver' = [at |-> "select", timer |-> NextWake'] /\ changed' = FALSE
      /\ UNCHANGED <<asking, unsignalled, stopped, retired, deferrals>>
  BY DEF DriveTurn, Arm
<1>2. /\ entry' \in [Keys -> Entries \cup {NoEntry}] /\ spacing' \in [Scopes -> 0..Horizon]
      /\ Running' \subseteq Jobs /\ \A j \in Running' : jobs'[j] \in Keys
      /\ cursor' \in DOMAIN ClassOrder /\ owed' \in [Keys -> Instants]
      /\ Linked' /\ EventInv' /\ Running \subseteq Running'
  <2>1. CASE Due = {}
    <3>1. UNCHANGED <<entry, jobs, spacing, cursor, owed, asking, retired>>
      BY <1>1, <2>1 DEF DriveTurn
    <3>2. Linked'
      BY <3>1 DEF CoreInv, Linked, Registered, IsRunning, Running
    <3>3. EventInv'
      BY <3>1 DEF CoreInv, EventInv, Registered
    <3>4. QED
      BY <3>1, <3>2, <3>3 DEF CoreInv, RefreshValues, Running
  <2>2. CASE Due # {}
    <3>1. PICK k \in FirstDue : ClaimDue(k)
      BY <2>2 DEF DriveTurn
    <3>2. UNCHANGED <<asking, retired>>
      BY <1>1
    <3>3. QED
      BY <3>1, <3>2, ClaimDueStep
  <2>3. QED
    BY <2>1, <2>2
<1>3. EntryValues'
  BY <1>2 DEF EntryValues
<1>4. (/\ NextWake \in Instants
       /\ \A k \in Claimable : NextWake # Never /\ NextWake <= EligibleAt(k)
       /\ NextWake # Never => \E k \in Claimable : NextWake = EligibleAt(k))'
  BY <1>3, NextWakeValue, PTL
<1>5. driver' \in Drivers
  BY <1>1, <1>4 DEF Drivers
<1>6. RefreshValues'
  BY <1>1, <1>2, <1>5 DEF CoreInv, RefreshValues
<1>7. TimerInv'
  BY <1>1, <1>4 DEF TimerInv
<1>8. QED
  BY <1>2, <1>6, <1>7 DEF CoreInv

\* The end of the driver, and of the reads with it.
LEMMA FinishDriveStep ==
  ASSUME CoreInv, FinishDrive, stopped => Registered = {}
  PROVE  CoreInv' /\ TimerInv'
<1>1. /\ driver' = [at |-> "finished", timer |-> Never] /\ stopped /\ jobs' = <<>> /\ retired' = {}
      /\ UNCHANGED <<entry, spacing, cursor, asking, changed, unsignalled, stopped, owed, deferrals>>
  BY DEF FinishDrive
<1>2. Running' = {}
  BY <1>1 DEF Running
<1>3. Registered = {} /\ Registered' = Registered
  BY <1>1 DEF Registered
<1>4. driver' \in Drivers
  BY <1>1 DEF Drivers, Instants
<1>5. RefreshValues'
  BY <1>1, <1>2, <1>4 DEF CoreInv, RefreshValues
<1>6. Linked'
  BY <1>1, <1>2, <1>3 DEF CoreInv, Linked
<1>7. EventInv'
  BY <1>1, <1>3 DEF CoreInv, EventInv
<1>8. TimerInv'
  BY <1>1 DEF TimerInv
<1>9. QED
  BY <1>5, <1>6, <1>7, <1>8 DEF CoreInv

\* A read that ends is taken by its entry, or by nobody if it is not current.
LEMMA JobEndsStep ==
  ASSUME CoreInv, NEW j \in Jobs, NEW outcome \in {"success", "failed", "unsupported"},
         JobEnds(j, outcome)
  PROVE  CoreInv' /\ TimerInv' /\ (j \in retired => UNCHANGED <<entry, asking, owed>>)
<1> DEFINE k == jobs[j]
           f == Completed(entry[k], outcome)
           t == IF outcome = "unsupported" THEN Never ELSE owed[k]
<1>1. /\ j \in Running /\ driver' = [at |-> "turn", timer |-> Never]
      /\ jobs' = [i \in Running \ {j} |-> jobs[i]]
      /\ retired' = retired \ {j}
      /\ IF IsCurrent(j)
           THEN /\ entry' = [entry EXCEPT ![k] = f]
                /\ asking' = [c \in RefreshCallers |-> IF asking[c] = k THEN NoEntry ELSE asking[c]]
                /\ owed' = [owed EXCEPT ![k] = t]
           ELSE UNCHANGED <<entry, asking, owed>>
      /\ UNCHANGED <<spacing, cursor, changed, unsignalled, stopped, deferrals>>
  BY DEF JobEnds, Restrict
<1>2. Running' = Running \ {j} /\ \A i \in Running' : jobs'[i] = jobs[i]
  BY <1>1 DEF Running
<1>3. driver' \in Drivers /\ TimerInv'
  BY <1>1 DEF Drivers, Instants, TimerInv
<1>4. retired' \subseteq Running'
  BY <1>1, <1>2 DEF CoreInv, Linked
<1>5. \A l \in Registered : IsRunning(l) =>
        entry[l].job \in Running \ retired /\ jobs[entry[l].job] = l
  BY DEF CoreInv, Linked
<1>6. CASE IsCurrent(j)
  <2>1. k \in Registered /\ entry[k].job = j /\ entry[k].job # 0
    BY <1>1, <1>6, RefreshAssumption DEF IsCurrent, CoreInv, RefreshValues
  <2>2. /\ k \in Keys /\ entry[k] \in Entries /\ owed[k] \in Instants /\ Tracks(entry[k], owed[k])
    BY <2>1, OwedValues
  <2>3. f \in Entries /\ f.job = 0 /\ f # NoEntry /\ Tracks(f, t) /\ t \in Instants
    BY <2>2, CompletedKeeps, NoEntryAssumption DEF Tracks, Instants
  <2>4. /\ entry' = [entry EXCEPT ![k] = f]
        /\ asking' = [c \in RefreshCallers |-> IF asking[c] = k THEN NoEntry ELSE asking[c]]
        /\ owed' = [owed EXCEPT ![k] = t]
    BY <1>1, <1>6
  <2>5. j \notin retired
    BY <1>5, <2>1 DEF IsRunning
  <2> HIDE DEF f, t, k
  <2>6. /\ entry' \in [Keys -> Entries \cup {NoEntry}] /\ entry'[k] = f
        /\ \A l \in Keys \ {k} : entry'[l] = entry[l]
        /\ owed' \in [Keys -> Instants] /\ owed'[k] = t
        /\ \A l \in Keys \ {k} : owed'[l] = owed[l]
    BY <2>2, <2>3, <2>4 DEF CoreInv, RefreshValues
  <2>7. /\ asking' \in [RefreshCallers -> Keys \cup {NoEntry}]
        /\ \A c \in RefreshCallers : asking'[c] # NoEntry => asking'[c] = asking[c] /\ asking[c] # k
    BY <2>4 DEF CoreInv, RefreshValues
  <2>8. Registered' = Registered
    BY <2>1, <2>3, <2>6 DEF Registered
  <2>9. \A c \in RefreshCallers : asking'[c] # NoEntry =>
          asking'[c] \in Registered' /\ entry'[asking'[c]].awaited
    BY <2>6, <2>7, <2>8 DEF CoreInv, Linked, Registered
  <2>10. ASSUME NEW l \in Registered', entry'[l].job # 0
         PROVE  entry'[l].job \in Running' \ retired' /\ jobs'[entry'[l].job] = l
    <3>1. l # k /\ l \in Registered /\ entry'[l] = entry[l]
      BY <2>3, <2>6, <2>8, <2>10 DEF Registered
    <3>2. entry[l].job \in Running \ retired /\ jobs[entry[l].job] = l
      BY <1>5, <2>10, <3>1 DEF IsRunning
    <3>3. entry[l].job # j
      BY <3>1, <3>2 DEF k
    <3>4. QED
      BY <1>1, <1>2, <3>1, <3>2, <3>3
  <2>11. Linked'
    BY <1>4, <2>9, <2>10 DEF Linked, IsRunning
  <2>12. EventInv'
    <3>1. ASSUME NEW l \in Keys, owed'[l] # Never
          PROVE  l \in Registered' /\ Tracks(entry'[l], owed'[l])
      <4>1. CASE l = k
        BY <2>1, <2>3, <2>6, <2>8, <4>1
      <4>2. CASE l # k
        BY <2>6, <2>8, <3>1, <4>2 DEF CoreInv, EventInv
      <4>3. QED
        BY <4>1, <4>2
    <3>2. QED
      BY <3>1 DEF EventInv
  <2>13. RefreshValues'
    BY <1>1, <1>2, <1>3, <2>6, <2>7 DEF CoreInv, RefreshValues
  <2>14. QED
    BY <1>3, <2>5, <2>11, <2>12, <2>13 DEF CoreInv
<1>7. CASE ~IsCurrent(j)
  <2>1. UNCHANGED <<entry, asking, owed>>
    BY <1>1, <1>7
  <2>2. Registered' = Registered
    BY <2>1 DEF Registered
  <2>3. ASSUME NEW l \in Registered', entry'[l].job # 0
        PROVE  entry'[l].job \in Running' \ retired' /\ jobs'[entry'[l].job] = l
    <3>1. entry[l].job \in Running \ retired /\ jobs[entry[l].job] = l /\ entry'[l] = entry[l]
      BY <1>5, <2>1, <2>2, <2>3 DEF IsRunning
    <3>2. entry[l].job # j
      BY <1>7, <2>2, <3>1 DEF IsCurrent
    <3>3. QED
      BY <1>1, <1>2, <3>1, <3>2
  <2>4. Linked'
    BY <1>4, <2>1, <2>2, <2>3 DEF CoreInv, Linked, IsRunning
  <2>5. EventInv'
    BY <2>1, <2>2 DEF CoreInv, EventInv
  <2>6. RefreshValues'
    BY <1>1, <1>2, <1>3, <2>1 DEF CoreInv, RefreshValues
  <2>7. QED
    BY <1>3, <2>1, <2>4, <2>5, <2>6 DEF CoreInv
<1>8. QED
  BY <1>6, <1>7

\* The clock moves every entry, the spacings and the timer alike: what may start
\* in t may start in t - 1 then.
LEMMA TickStep ==
  ASSUME CoreInv, TimerInv, Tick
  PROVE  CoreInv' /\ TimerInv'
<1>1. /\ entry' = [k \in Keys |-> IF k \in Registered THEN Later(entry[k]) ELSE NoEntry]
      /\ spacing' = [o \in Scopes |-> Sooner(spacing[o])]
      /\ driver' = [driver EXCEPT !.timer = Sooner(@)]
      /\ owed' = [k \in Keys |-> Sooner(owed[k])]
      /\ UNCHANGED <<jobs, cursor, asking, changed, unsignalled, stopped, retired, deferrals>>
  BY DEF Tick
<1>2. \A k \in Registered : /\ k \in Keys /\ entry[k] \in Entries
                            /\ KeepsRead(Later(entry[k]), entry[k]) /\ Later(entry[k]) # NoEntry
                            /\ entry'[k] = Later(entry[k])
  <2>1. ASSUME NEW k \in Registered
        PROVE  /\ k \in Keys /\ entry[k] \in Entries
               /\ KeepsRead(Later(entry[k]), entry[k]) /\ Later(entry[k]) # NoEntry
               /\ entry'[k] = Later(entry[k])
    <3>1. k \in Keys /\ entry[k] \in Entries
      BY RegisteredEntry DEF CoreInv
    <3>2. KeepsRead(Later(entry[k]), entry[k])
      BY <3>1, LaterKeeps
    <3>3. QED
      BY <1>1, <3>1, <3>2, NoEntryAssumption DEF KeepsRead
  <2>2. QED
    BY <2>1
<1>3. entry' \in [Keys -> Entries \cup {NoEntry}] /\ Registered' = Registered
  BY <1>1, <1>2 DEF Registered, KeepsRead
<1>4. \A k \in Keys : owed[k] \in Instants /\ owed'[k] = Sooner(owed[k])
  BY <1>1 DEF CoreInv, RefreshValues
<1>5. \A k \in Keys : owed'[k] \in Instants /\ (owed'[k] # Never => owed[k] # Never)
  BY <1>4, InstantValues
<1>6. \A k \in Keys : owed'[k] # Never => k \in Registered' /\ Tracks(entry'[k], owed'[k])
  <2>1. ASSUME NEW k \in Keys, owed'[k] # Never
        PROVE  k \in Registered' /\ Tracks(entry'[k], owed'[k])
    <3>1. k \in Registered /\ Tracks(entry[k], owed[k])
      BY <1>5, <2>1 DEF CoreInv, EventInv
    <3>2. Tracks(Later(entry[k]), Sooner(owed[k]))
      BY <1>2, <1>4, <3>1, LaterKeeps
    <3>3. QED
      BY <1>2, <1>3, <1>4, <3>1, <3>2
  <2>2. QED
    BY <2>1
<1>7. owed' \in [Keys -> Instants]
  BY <1>1, <1>4, <1>5
<1>8. \A k \in Registered' : entry'[k].job = IF k \in Registered THEN entry[k].job ELSE 0
  BY <1>2, <1>3 DEF KeepsRead
<1>9. \A k \in Registered \cap Registered' : entry[k].awaited => entry'[k].awaited
  BY <1>2 DEF KeepsRead
<1>10. retired' = retired \cup {entry[k].job : k \in {l \in Registered \ Registered' : IsRunning(l)}}
  BY <1>1, <1>3
<1>11. \A c \in RefreshCallers : asking'[c] # NoEntry =>
         asking'[c] \in Registered' /\ asking'[c] = asking[c]
  BY <1>1, <1>3 DEF CoreInv, Linked
<1>12. Linked' /\ EventInv'
  BY <1>1, <1>3, <1>6, <1>8, <1>9, <1>10, <1>11, CarriedOver DEF CoreInv
<1>13. /\ driver.timer \in Instants /\ driver' \in Drivers
       /\ driver'.at = driver.at /\ driver'.timer = Sooner(driver.timer)
  <2>1. driver \in [at : {"off", "turn", "select", "finished"}, timer : Instants]
    BY DEF CoreInv, RefreshValues, Drivers
  <2>2. driver.timer \in Instants
    BY <2>1
  <2>3. Sooner(driver.timer) \in Instants
    BY <2>2, InstantValues
  <2>4. QED
    BY <1>1, <2>1, <2>2, <2>3 DEF Drivers
<1>14. spacing' \in [Scopes -> 0..Horizon]
  <2>1. \A o \in Scopes : spacing[o] \in 0..Horizon
    BY DEF CoreInv, RefreshValues
  <2>2. \A o \in Scopes : Sooner(spacing[o]) \in 0..Horizon
    BY <2>1, Delays DEF Sooner
  <2>3. QED
    BY <1>1, <2>2
<1>15. RefreshValues'
  BY <1>1, <1>3, <1>7, <1>13, <1>14 DEF CoreInv, RefreshValues, Running
<1>16. ASSUME NEW k \in Claimable'
       PROVE  /\ k \in Claimable
              /\ EligibleAt(k) \in Nat /\ EligibleAt(k)' \in Nat
              /\ EligibleAt(k) <= EligibleAt(k)' + 1
  <2>1. k \in Registered /\ entry'[k].job = 0 /\ entry'[k].next # Never /\ ~entry'[k].unsupported
    BY <1>3, <1>16 DEF Claimable, IsRunning
  <2>2. /\ entry'[k].job = entry[k].job /\ entry'[k].unsupported = entry[k].unsupported
        /\ entry'[k].next = Sooner(entry[k].next) /\ entry'[k].floor = Sooner(entry[k].floor)
        /\ entry[k].next \in Instants /\ entry[k].floor \in 0..Horizon
        /\ k \in Keys
    BY <1>2, <2>1, LaterKeeps, EntryFields DEF KeepsRead
  <2>3. entry[k].next # Never
    BY <2>1, <2>2, InstantValues
  <2>4. RunCapacity(k)
    BY <1>1, <1>16 DEF Claimable, RunCapacity, Running, AtOrigin, Ordinary
  <2>5. k \in Claimable
    BY <2>1, <2>2, <2>3, <2>4 DEF Claimable, IsRunning
  <2>6. EntryValues
    BY DEF CoreInv, RefreshValues, EntryValues
  <2>7. EntryValues'
    BY <1>3, <1>14 DEF EntryValues
  <2> DEFINE due == {entry[k].next, entry[k].floor, spacing["any"], spacing[OriginOfKey[k]]}
             later == {entry'[k].next, entry'[k].floor, spacing'["any"], spacing'[OriginOfKey[k]]}
  <2>8. /\ due \subseteq 0..Horizon /\ EligibleAt(k) \in due /\ EligibleAt(k) \in 0..Horizon
    BY <2>5, <2>6, EligibleValue
  <2>9. /\ EligibleAt(k)' \in 0..Horizon
        /\ \A t \in later : t <= EligibleAt(k)'
    <3>1. (\A l \in Claimable :
             /\ EligibleAt(l) \in 0..Horizon
             /\ \A t \in {entry[l].next, entry[l].floor, spacing["any"], spacing[OriginOfKey[l]]} :
                  t <= EligibleAt(l))'
      BY <2>7, EligibleValues, PTL
    <3>2. QED
      BY <1>16, <3>1
  <2>10. \A t \in due : t \in 0..Horizon /\ Sooner(t) \in later
    <3>1. "any" \in Scopes /\ OriginOfKey[k] \in Scopes
      BY <2>2 DEF Scopes
    <3>2. spacing'["any"] = Sooner(spacing["any"])
          /\ spacing'[OriginOfKey[k]] = Sooner(spacing[OriginOfKey[k]])
      BY <1>1, <3>1
    <3>3. QED
      BY <2>2, <2>8, <3>2
  <2> HIDE DEF due, later
  <2>11. Sooner(EligibleAt(k)) <= EligibleAt(k)' /\ EligibleAt(k) \in Nat /\ EligibleAt(k)' \in Nat
    BY <2>8, <2>9, <2>10, Delays
  <2>12. Sooner(EligibleAt(k)) = IF EligibleAt(k) = 0 THEN 0 ELSE EligibleAt(k) - 1
    BY <2>11, Delays DEF Sooner
  <2>13. QED
    BY <2>5, <2>11, <2>12
<1>17. TimerInv'
  <2>1. SUFFICES ASSUME driver'.at = "select", ~changed', ~unsignalled', NEW k \in Claimable'
                 PROVE  driver'.timer # Never /\ driver'.timer <= EligibleAt(k)'
    BY DEF TimerInv
  <2>2. driver.at = "select" /\ ~changed /\ ~unsignalled
    BY <1>1, <1>13, <2>1
  <2>3. /\ k \in Claimable /\ EligibleAt(k) \in Nat /\ EligibleAt(k)' \in Nat
        /\ EligibleAt(k) <= EligibleAt(k)' + 1
    BY <1>16, <2>1
  <2>4. driver.timer # Never /\ driver.timer <= EligibleAt(k)
    BY <2>2, <2>3 DEF TimerInv
  <2>5. driver.timer \in Nat /\ driver'.timer # Never
        /\ driver'.timer = IF driver.timer = 0 THEN 0 ELSE driver.timer - 1
    BY <1>13, <2>4, InstantValues
  <2>6. QED
    BY <2>3, <2>4, <2>5
<1>18. QED
  BY <1>12, <1>15, <1>17 DEF CoreInv

-----------------------------------------------------------------------------
(* The service as a whole *)

\* Nothing is registered with a service that was shut down.
StoppedInv == stopped => Registered = {}

RefreshIInv == CoreInv /\ TimerInv /\ StoppedInv

\* What the hosts leave alone: the reads that run, and, unless they say so, the
\* driver and what it saw.
LEMMA HostsFrame ==
  ASSUME RefreshHosts
  PROVE  /\ jobs' = jobs
         /\ unsignalled' = TRUE \/ UNCHANGED <<entry, jobs, spacing, driver, changed, unsignalled>>
         /\ stopped' = stopped \/ ShutdownRefresh
         /\ stopped /\ Registered = {} => entry' = entry
<1> DEFINE Framed ==
      /\ jobs' = jobs
      /\ unsignalled' = TRUE \/ UNCHANGED <<entry, jobs, spacing, driver, changed, unsignalled>>
      /\ stopped' = stopped \/ ShutdownRefresh
      /\ stopped /\ Registered = {} => entry' = entry
<1>1. ASSUME NEW k \in Keys, NEW automatic \in BOOLEAN, NEW due_now \in BOOLEAN,
             Register(k, automatic, due_now)
      PROVE  Framed
  BY <1>1 DEF Register, Signalling
<1>2. ASSUME NEW keys \in SUBSET Keys, RemoveKeys(keys)
      PROVE  Framed
  BY <1>2 DEF RemoveKeys, Signalling
<1>3. ASSUME NEW c \in RefreshCallers, AbandonRead(c)
      PROVE  Framed
  BY <1>3 DEF AbandonRead
<1>4. ASSUME NEW c \in RefreshCallers, NEW k \in Keys, RequestRead(c, k)
      PROVE  Framed
  BY <1>4 DEF RequestRead, Signalling
<1>5. ASSUME NEW k \in Keys, MarkDirty(k)
      PROVE  Framed
  BY <1>5 DEF MarkDirty, Signalling, TakesEvents
<1>6. ASSUME NEW k \in Keys, RespectRetryAfter(k)
      PROVE  Framed
  BY <1>6 DEF RespectRetryAfter, Signalling
<1>7. ASSUME NEW k \in Keys, ObservePassiveQuota(k, Interval)
      PROVE  Framed
  BY <1>7 DEF ObservePassiveQuota, Signalling, TakesEvents
<1>8. ASSUME NEW k \in Keys, NEW delay \in 1..Interval, ScheduleAfter(k, delay)
      PROVE  Framed
  BY <1>8 DEF ScheduleAfter, Signalling, TakesEvents
<1>9. ASSUME ShutdownRefresh
      PROVE  Framed
  BY <1>9 DEF ShutdownRefresh, Signalling
<1> HIDE DEF Framed
<1>10. Framed
  BY <1>1, <1>2, <1>3, <1>4, <1>5, <1>6, <1>7, <1>8, <1>9 DEF RefreshHosts
<1>11. QED
  BY <1>10 DEF Framed

\* Nothing is registered once the service was shut down.
LEMMA StoppedStep ==
  ASSUME RefreshIInv, RefreshNext
  PROVE  StoppedInv'
<1>1. CASE ShutdownRefresh
  BY <1>1 DEF ShutdownRefresh, Without, Registered, StoppedInv
<1>2. CASE ~ShutdownRefresh
  <2>1. SUFFICES ASSUME stopped' PROVE Registered' = {}
    BY DEF StoppedInv
  <2>2. ASSUME RefreshHosts
        PROVE  stopped' = stopped /\ (stopped /\ Registered = {} => entry' = entry)
    BY <1>2, <2>2, HostsFrame
  <2>3. ASSUME SignalDriver \/ FinishDrive \/ WakeDriver
        PROVE  stopped' = stopped /\ entry' = entry
    BY <2>3 DEF SignalDriver, FinishDrive, WakeDriver
  <2>4. ASSUME DriveTurn
        PROVE  FALSE
    BY <2>1, <2>4 DEF DriveTurn
  <2>5. ASSUME Tick
        PROVE  /\ stopped' = stopped
               /\ Registered = {} => \A k \in Keys : entry'[k] = NoEntry
    BY <2>5 DEF Tick
  <2>6. ASSUME NEW j \in Jobs, ReadEnds(j)
        PROVE  stopped' = stopped /\ (Registered = {} => entry' = entry)
    BY <2>6 DEF ReadEnds, JobEnds, IsCurrent
  <2>7. /\ stopped' = stopped
        /\ stopped /\ Registered = {} => entry' = entry \/ \A k \in Keys : entry'[k] = NoEntry
    BY <2>2, <2>3, <2>4, <2>5, <2>6 DEF RefreshNext, DriverMoves
  <2>8. Registered = {}
    BY <2>1, <2>7 DEF RefreshIInv, StoppedInv
  <2>9. QED
    BY <2>1, <2>7, <2>8 DEF Registered
<1>3. QED
  BY <1>1, <1>2

\* Steps that leave entries, reads and driver alone leave the timer right.
LEMMA TimerKept ==
  ASSUME TimerInv, UNCHANGED <<entry, jobs, spacing, driver, changed, unsignalled>>
  PROVE  TimerInv'
<1>1. Registered' = Registered /\ Running' = Running
  BY DEF Registered, Running
<1>2. \A k : RunCapacity(k)' = RunCapacity(k)
  BY <1>1 DEF RunCapacity, AtOrigin, Ordinary
<1>3. Claimable' = Claimable
  BY <1>1, <1>2 DEF Claimable, IsRunning
<1>4. \A k : EligibleAt(k)' = EligibleAt(k)
  BY DEF EligibleAt
<1>5. QED
  BY <1>3, <1>4 DEF TimerInv

\* The invariant is inductive.
LEMMA RefreshStep ==
  RefreshIInv /\ [RefreshNext]_refreshVars => RefreshIInv'
<1> SUFFICES ASSUME RefreshIInv, [RefreshNext]_refreshVars PROVE RefreshIInv'
  OBVIOUS
<1>1. CoreInv /\ TimerInv
  BY DEF RefreshIInv
<1>2. ASSUME RefreshHosts
      PROVE  CoreInv' /\ TimerInv'
  BY <1>1, <1>2, HostsStep, HostsFrame, TimerKept DEF TimerInv
<1>3. ASSUME SignalDriver \/ WakeDriver
      PROVE  CoreInv' /\ TimerInv'
  <2>1. UNCHANGED <<entry, jobs, spacing, cursor, asking, stopped, retired, owed, deferrals>>
    BY <1>3 DEF SignalDriver, WakeDriver
  <2>2. \/ unsignalled' = FALSE /\ changed' = TRUE /\ driver' = driver
        \/ /\ driver' = [at |-> "turn", timer |-> Never]
           /\ unsignalled' = unsignalled /\ changed' = changed
    BY <1>3 DEF SignalDriver, WakeDriver
  <2>3. driver' \in Drivers
    BY <1>1, <2>2 DEF CoreInv, RefreshValues, Drivers, Instants
  <2>4. RefreshValues'
    BY <1>1, <2>1, <2>2, <2>3 DEF CoreInv, RefreshValues, Running
  <2>5. Linked'
    BY <1>1, <2>1 DEF CoreInv, Linked, Registered, IsRunning, Running
  <2>6. EventInv'
    BY <1>1, <2>1 DEF CoreInv, EventInv, Registered
  <2>7. TimerInv'
    BY <2>2 DEF TimerInv
  <2>8. QED
    BY <2>4, <2>5, <2>6, <2>7 DEF CoreInv
<1>4. ASSUME DriveTurn
      PROVE  CoreInv' /\ TimerInv'
  BY <1>1, <1>4, DriveTurnStep
<1>5. ASSUME FinishDrive
      PROVE  CoreInv' /\ TimerInv'
  BY <1>1, <1>5, FinishDriveStep DEF RefreshIInv, StoppedInv
<1>6. ASSUME Tick
      PROVE  CoreInv' /\ TimerInv'
  BY <1>1, <1>6, TickStep
<1>7. ASSUME NEW j \in Jobs, ReadEnds(j)
      PROVE  CoreInv' /\ TimerInv'
  BY <1>1, <1>7, JobEndsStep DEF ReadEnds
<1>8. ASSUME UNCHANGED refreshVars
      PROVE  RefreshIInv'
  <2>1. UNCHANGED <<entry, jobs, spacing, cursor, asking, driver, changed, unsignalled, stopped,
                    retired, owed, deferrals>>
    BY <1>8 DEF refreshVars
  <2>2. RefreshValues'
    BY <1>1, <2>1 DEF CoreInv, RefreshValues, Running
  <2>3. Linked'
    BY <1>1, <2>1 DEF CoreInv, Linked, Registered, IsRunning, Running
  <2>4. EventInv'
    BY <1>1, <2>1 DEF CoreInv, EventInv, Registered
  <2>5. StoppedInv'
    BY <2>1 DEF RefreshIInv, StoppedInv, Registered
  <2>6. QED
    BY <1>1, <2>1, <2>2, <2>3, <2>4, <2>5, TimerKept DEF CoreInv, RefreshIInv
<1>9. CASE RefreshNext
  <2>1. CoreInv' /\ TimerInv'
    BY <1>2, <1>3, <1>4, <1>5, <1>6, <1>7, <1>9 DEF RefreshNext, DriverMoves
  <2>2. QED
    BY <1>9, <2>1, StoppedStep DEF RefreshIInv
<1>10. QED
  BY <1>8, <1>9

\* It holds of an empty service.
LEMMA RefreshStart ==
  RefreshInit => RefreshIInv
<1> SUFFICES ASSUME RefreshInit PROVE RefreshIInv
  OBVIOUS
<1>1. Registered = {} /\ Running = {} /\ retired = {}
  BY DEF RefreshInit, Registered, Running
<1>2. 0 \in 0..Horizon /\ Never \in Instants
  BY Delays DEF Instants
<1>3. 1 \in DOMAIN ClassOrder
  <2>1. ClassOrder \in Seq(Range(ClassOrder)) /\ ClassOrder # <<>>
    BY RefreshAssumption
  <2>2. QED
    BY <2>1
<1>4. 0 \in 0..MaxDeferrals
  BY RefreshAssumption
<1>5. RefreshValues
  BY <1>1, <1>2, <1>3, <1>4 DEF RefreshInit, RefreshValues, Drivers
<1>6. Linked /\ EventInv
  BY <1>1 DEF RefreshInit, Linked, EventInv
<1>7. TimerInv /\ StoppedInv
  BY <1>1 DEF RefreshInit, TimerInv, StoppedInv
<1>8. QED
  BY <1>5, <1>6, <1>7 DEF RefreshIInv, CoreInv

\* It is an invariant of the service.
LEMMA RefreshAlways ==
  RefreshSpec => []RefreshIInv
BY RefreshStart, RefreshStep, PTL DEF RefreshSpec

\* Entries, jobs and callers keep their types, and their references to each
\* other, under any order of registrations, removals, requests and answers.
THEOREM RefreshTypeCorrect ==
  RefreshSpec => []RefreshTypeOK
<1>1. RefreshIInv => RefreshTypeOK
  BY DEF RefreshIInv, CoreInv, RefreshValues, Linked, RefreshTypeOK
<1>2. QED
  BY <1>1, RefreshAlways, PTL

\* A change announced before or during a read is followed by another read, while
\* the key stays automatic, whatever coalesces with it meanwhile.
THEOREM EventAlwaysLeadsToRead ==
  RefreshSpec => []EventLeadsToRead
<1>1. RefreshIInv => EventLeadsToRead
  BY DEF RefreshIInv, CoreInv, EventInv, Tracks, EventLeadsToRead, Registered
<1>2. QED
  BY <1>1, RefreshAlways, PTL

\* A driver that sleeps without a signal to come wakes by the time any read may
\* start, whatever the clock, the hosts and the reads do before it sleeps.
THEOREM DriverAlwaysSeesDue ==
  RefreshSpec => []DriverSeesDue
<1>1. RefreshIInv => DriverSeesDue
  <2> SUFFICES ASSUME RefreshIInv, driver.at = "select", ~changed, ~unsignalled, NextWake # Never
               PROVE  driver.timer # Never /\ driver.timer <= NextWake
    BY DEF DriverSeesDue
  <2>1. EntryValues
    BY DEF RefreshIInv, CoreInv, RefreshValues, EntryValues
  <2>2. PICK k \in Claimable : NextWake = EligibleAt(k)
    BY <2>1, NextWakeValue
  <2>3. QED
    BY <2>2 DEF RefreshIInv, TimerInv
<1>2. QED
  BY <1>1, RefreshAlways, PTL

\* The answer of a read whose registration was removed is neither kept nor handed
\* to anybody, even if its key is registered and read again.
THEOREM RetiredReadStaysInert ==
  RefreshSpec => RetiredReadIsInert
<1>1. RefreshIInv /\ [RefreshNext]_refreshVars =>
        [\A j \in retired : (j \in Running /\ j \notin Running')
           => UNCHANGED <<entry, asking, owed>>]_refreshVars
  <2> SUFFICES ASSUME RefreshIInv, RefreshNext, NEW j \in retired, j \in Running, j \notin Running'
               PROVE  UNCHANGED <<entry, asking, owed>>
    OBVIOUS
  <2>1. jobs' # jobs
    BY DEF Running
  <2>2. CASE DriveTurn
    BY <2>2, DriveTurnStep DEF RefreshIInv
  <2>3. CASE FinishDrive
    BY <2>3 DEF FinishDrive
  <2>4. ASSUME NEW i \in Jobs, ReadEnds(i)
        PROVE  UNCHANGED <<entry, asking, owed>>
    <3>1. PICK outcome \in {"success", "failed", "unsupported"} : JobEnds(i, outcome)
      BY <2>4 DEF ReadEnds
    <3>2. Running' = Running \ {i}
      BY <3>1 DEF JobEnds, Restrict, Running
    <3>3. i = j
      BY <3>2
    <3>4. QED
      BY <3>1, <3>3, JobEndsStep DEF RefreshIInv
  <2>5. CASE RefreshHosts \/ SignalDriver \/ WakeDriver \/ Tick
    <3>1. jobs' = jobs
      BY <2>5, HostsFrame DEF SignalDriver, WakeDriver, Tick
    <3>2. QED
      BY <2>1, <3>1
  <2>6. QED
    BY <2>2, <2>3, <2>4, <2>5 DEF RefreshNext, DriverMoves
<1>2. QED
  BY <1>1, RefreshAlways, PTL DEF RefreshSpec, RetiredReadIsInert

-----------------------------------------------------------------------------
(* The services together *)

\* A behaviour of the five services is a behaviour of each: none touches the
\* state of another.
THEOREM ServicesAreIndependent ==
  Spec => GateSpec /\ RefreshSpec /\ WakeSpec /\ PoolSpec /\ VaultSpec
<1>1. Init => GateInit /\ RefreshInit /\ WakeInit /\ PoolInit /\ VaultInit
  BY DEF Init
<1>2. [Next]_vars => /\ [GateNext]_gateVars /\ [RefreshNext]_refreshVars /\ [WakeNext]_wakeVars
                     /\ [PoolNext]_poolVars /\ [VaultNext]_vaultVars
  BY DEF Next, vars
<1>3. QED
  BY <1>1, <1>2, PTL DEF Spec, GateSpec, RefreshSpec, WakeSpec, PoolSpec, VaultSpec

\* The state of every service is well typed and its counters and references agree,
\* whichever of them runs.
THEOREM BackgroundTypeCorrect ==
  Spec => []BackgroundTypeOK
<1> DEFINE Focused == focus \in {"gate", "refresh", "wake", "pool", "vault"}
<1>1. Init => Focused
  BY DEF Init
<1>2. Focused /\ [Next]_vars => Focused'
  BY DEF Next, vars
<1>3. Focused /\ GateTypeOK /\ RefreshTypeOK /\ WakeTypeOK /\ PoolTypeOK /\ VaultTypeOK
        => BackgroundTypeOK
  BY DEF BackgroundTypeOK
<1>4. QED
  BY <1>1, <1>2, <1>3, ServicesAreIndependent, GateTypeCorrect, RefreshTypeCorrect,
     WakeTypeCorrect, PoolTypeCorrect, VaultTypeCorrect, PTL DEF Spec
=============================================================================
