------------------------- MODULE AdmissionQueueProofs -------------------------
(***************************************************************************)
(* What holds of AdmissionQueue for any number of requests, principals and *)
(* members, any capacities, limits and sets of hidden models.              *)
(***************************************************************************)
EXTENDS AdmissionQueue, TLAPS, SequenceTheorems, FiniteSetTheorems, WellFoundedInduction

-----------------------------------------------------------------------------
(* The inductive invariant *)

\* Stages of a driver whose guard stands for a waiter.
Guarded == AboutToSleep \cup Asleep \cup {"inspecting", "scanning", "granted", "leaving", "recovering"}

\* The queue and its turn order as sequences: bounded, without duplicates, the
\* order that of the waiters' principals.
QueueValues ==
  /\ queue \in Seq(Waiter) /\ Len(queue) <= MaxQueued
  /\ \A p \in Principals : Cardinality(OfPrincipal(p)) <= MaxPerPrincipal
  /\ principals \in Seq(Principals)
  /\ \A i, j \in DOMAIN queue : queue[i].request = queue[j].request => i = j
  /\ Distinct(principals)
  /\ {principals[i] : i \in DOMAIN principals} = {PrincipalOf[q] : q \in Waiting}

\* The other variables.
OtherValues ==
  /\ stage \in [Requests -> Stages]
  /\ section \in Section
  /\ lease \in [Requests -> [member : Members \cup {NoMember}, phase : Phases]]
  /\ status \in [Members -> Statuses]
  /\ hidden \subseteq Requests
  /\ retired \in BOOLEAN /\ recoveryEnabled \in BOOLEAN
  /\ announcing \subseteq Channels
  /\ woken \subseteq Requests
  /\ behind \in [Requests -> SUBSET Members]
  /\ due \in [Requests -> SUBSET Members]
  /\ armed \subseteq Requests /\ overdue \subseteq Requests
  /\ stopped \in [Requests -> Stops]
  /\ passed \in [Principals -> [Principals -> 0..2]]
  /\ arrivals \in 0..MaxArrivals /\ changes \in 0..MaxChanges

\* Who is where: a driver asleep has its guard, one that was granted and has
\* returned or gave up has none; the critical section belongs to the driver
\* that scans; only a granted request has a lease.
DriversMatch ==
  /\ \A q \in Requests :
       /\ stage[q] \in AboutToSleep \cup Asleep \cup {"recovering"} => q \in Waiting
       /\ q \in Waiting => stage[q] \in Guarded
       /\ section.owner = q <=> stage[q] = "scanning"
       /\ lease[q].phase = "held" => stage[q] \in {"granted", "attempting"}
       /\ lease[q].phase \in {"settled", "silent"} => stage[q] = "attempting"
  /\ section.owner = Nobody => section = FreeSection

Shape == QueueValues /\ OtherValues /\ DriversMatch

\* Nothing was missed: while no notification is owed, a driver that found no
\* room and was not woken since has none, and one that sleeps has a timer for
\* every cooldown that could end its wait.
Calm == announcing = {} /\ \A q \in Requests : lease[q].phase \notin {"settled", "silent"}

Informed(q) ==
  /\ stage[q] = "unserved" => ReadyMembers(q, behind[q]) = {}
  /\ stage[q] = "sleeping" =>
       /\ ReadyMembers(q, {}) = {}
       /\ \A m \in Eligible[q] : ~retired /\ status[m] = "cooling" => m \in due[q]

WakeInv == Calm => \A q \in Requests \ woken : Informed(q)

\* Who has a deadline has a timer for it, was woken to set it, or will be.
DeadlineInv ==
  \A q \in InAdmit \cup InRecovery :
    HasDeadline(q) => q \in armed \cup woken \/ "availability" \in announcing

\* The turn under computation: whatever comes before the turn found was unready.
SectionInv ==
  /\ section.unready \subseteq Selecting /\ section.ready \subseteq Selecting
  /\ section.unready \cap section.ready = {}
  /\ section.turn # Nobody =>
       /\ section.turn \in Selecting \ section.unready
       /\ \A v \in Selecting : Precedes(v, section.turn) => v \in section.unready

\* A principal that was passed over once, and could go, comes before the one
\* served instead.
BypassInv ==
  \A p, x \in Principals : passed[p][x] # 0 =>
    /\ passed[p][x] = 1
    /\ \E i \in DOMAIN principals : principals[i] = p
    /\ \A i, j \in DOMAIN principals : principals[i] = p /\ principals[j] = x => i < j

-----------------------------------------------------------------------------
(* Sequences *)

\* An element taken out by its index: the others keep their order.
LEMMA RemoveAtProperties ==
  ASSUME NEW S, NEW s \in Seq(S), NEW i \in 1..Len(s)
  PROVE  /\ RemoveAt(s, i) \in Seq(S)
         /\ Len(RemoveAt(s, i)) = Len(s) - 1
         /\ \A j \in 1..(Len(s) - 1) : RemoveAt(s, i)[j] = IF j < i THEN s[j] ELSE s[j + 1]
<1> DEFINE n == Len(s)
           left == SubSeq(s, 1, i - 1)
           right == SubSeq(s, i + 1, n)
<1>1. i \in 1..n /\ n \in Nat /\ \A j \in 1..n : s[j] \in S
  OBVIOUS
<1>2. RemoveAt(s, i) = left \o right
  BY DEF RemoveAt
<1> HIDE DEF n
<1>3. /\ left \in Seq(S) /\ Len(left) = i - 1
      /\ \A j \in 1..(i - 1) : left[j] = s[j]
  <2>1. 1 \in Int /\ i - 1 \in Int /\ \A j \in 1..(i - 1) : s[j] \in S
    BY <1>1
  <2>2. /\ left \in Seq(S)
        /\ Len(left) = IF 1 <= i - 1 THEN (i - 1) - 1 + 1 ELSE 0
        /\ \A j \in 1..((i - 1) - 1 + 1) : left[j] = s[1 + j - 1]
    BY <2>1, SubSeqProperties
  <2>3. QED
    BY <1>1, <2>2
<1>4. /\ right \in Seq(S) /\ Len(right) = n - i
      /\ \A j \in 1..(n - i) : right[j] = s[i + j]
  <2>1. i + 1 \in Int /\ n \in Int /\ \A j \in (i + 1)..n : s[j] \in S
    BY <1>1
  <2>2. /\ right \in Seq(S)
        /\ Len(right) = IF i + 1 <= n THEN n - (i + 1) + 1 ELSE 0
        /\ \A j \in 1..(n - (i + 1) + 1) : right[j] = s[(i + 1) + j - 1]
    BY <2>1, SubSeqProperties
  <2>3. QED
    BY <1>1, <2>2
<1> HIDE DEF left, right
<1>5. /\ left \o right \in Seq(S) /\ Len(left \o right) = n - 1
      /\ \A j \in 1..(n - 1) : (left \o right)[j] = IF j < i THEN s[j] ELSE s[j + 1]
  <2>1. /\ left \o right \in Seq(S) /\ Len(left \o right) = Len(left) + Len(right)
        /\ \A j \in 1..(Len(left) + Len(right)) : (left \o right)[j] =
             IF j <= Len(left) THEN left[j] ELSE right[j - Len(left)]
    BY <1>3, <1>4, ConcatProperties
  <2>2. QED
    BY <1>1, <1>3, <1>4, <2>1
<1>6. QED
  BY <1>2, <1>5 DEF n

\* Every element but the one taken out has its place in what is left.
LEMMA RemoveAtKeeps ==
  ASSUME NEW S, NEW s \in Seq(S), NEW i \in 1..Len(s), NEW k \in 1..Len(s), k # i
  PROVE  \E j \in 1..(Len(s) - 1) : RemoveAt(s, i)[j] = s[k]
<1>1. CASE k < i
  <2>1. k \in 1..(Len(s) - 1)
    BY <1>1
  <2>2. QED
    BY <1>1, <2>1, RemoveAtProperties
<1>2. CASE k > i
  <2>1. k - 1 \in 1..(Len(s) - 1) /\ ~(k - 1 < i) /\ (k - 1) + 1 = k
    BY <1>2
  <2>2. RemoveAt(s, i)[k - 1] = s[(k - 1) + 1]
    BY <2>1, RemoveAtProperties
  <2>3. QED
    BY <2>1, <2>2
<1>3. QED
  BY <1>1, <1>2

\* In a sequence t without duplicates, r lists some of the elements, in their order.
Sublist(r, t) ==
  \A i, j \in DOMAIN r : \E k, l \in DOMAIN t : r[i] = t[k] /\ r[j] = t[l] /\ (i < j <=> k < l)

\* Taking one element out leaves the others in their order, and no duplicate.
LEMMA RemoveAtSublist ==
  ASSUME NEW S, NEW s \in Seq(S), NEW n \in 1..Len(s), Distinct(s)
  PROVE  Sublist(RemoveAt(s, n), s) /\ Distinct(RemoveAt(s, n))
<1> DEFINE r == RemoveAt(s, n)
           at(i) == IF i < n THEN i ELSE i + 1
<1>1. /\ r \in Seq(S) /\ Len(r) = Len(s) - 1
      /\ \A j \in 1..(Len(s) - 1) : r[j] = IF j < n THEN s[j] ELSE s[j + 1]
  BY RemoveAtProperties, Zenon
<1>2. DOMAIN r = 1..(Len(s) - 1) /\ DOMAIN s = 1..Len(s) /\ Len(s) \in Nat
  BY <1>1
<1> HIDE DEF r
<1>3. \A i \in DOMAIN r : at(i) \in DOMAIN s /\ r[i] = s[at(i)]
  BY <1>1, <1>2
<1>4. \A i, j \in DOMAIN r : i < j <=> at(i) < at(j)
  BY <1>1, <1>2
<1>5. \A i, j \in DOMAIN r : at(i) = at(j) => i = j
  BY <1>1, <1>2
<1> HIDE DEF at
<1>6. Sublist(r, s)
  BY <1>3, <1>4 DEF Sublist
<1>7. Distinct(r)
  BY <1>3, <1>5 DEF Distinct
<1>8. QED
  BY <1>6, <1>7 DEF r

-----------------------------------------------------------------------------
(* The operations of the queue *)

\* What the positions of the two sequences hold, and who has a place in the order.
LEMMA QueueBasics ==
  ASSUME QueueValues
  PROVE  /\ Len(queue) \in Nat /\ DOMAIN queue = 1..Len(queue)
         /\ \A i \in DOMAIN queue :
              queue[i] \in Waiter /\ queue[i].request \in Requests /\ queue[i].selecting \in BOOLEAN
         /\ Len(principals) \in Nat /\ DOMAIN principals = 1..Len(principals)
         /\ \A i \in DOMAIN principals : principals[i] \in Principals
         /\ Waiting \subseteq Requests /\ Selecting \subseteq Waiting
         /\ \A p : OfPrincipal(p) \subseteq Requests /\ IsFiniteSet(OfPrincipal(p))
         /\ \A p : (\E i \in DOMAIN principals : principals[i] = p) <=> OfPrincipal(p) # {}
<1>1. Len(queue) \in Nat /\ DOMAIN queue = 1..Len(queue)
  BY DEF QueueValues
<1>2. \A i \in DOMAIN queue :
        queue[i] \in Waiter /\ queue[i].request \in Requests /\ queue[i].selecting \in BOOLEAN
  <2>1. \A i \in 1..Len(queue) : queue[i] \in Waiter
    BY DEF QueueValues
  <2>2. QED
    BY <1>1, <2>1 DEF Waiter
<1>3. /\ Len(principals) \in Nat /\ DOMAIN principals = 1..Len(principals)
      /\ \A i \in DOMAIN principals : principals[i] \in Principals
  BY DEF QueueValues
<1>4. Waiting \subseteq Requests /\ Selecting \subseteq Waiting
  BY <1>2 DEF Waiting, Selecting
<1>5. \A p : OfPrincipal(p) \subseteq Requests
  BY <1>4 DEF OfPrincipal
<1>6. \A p : IsFiniteSet(OfPrincipal(p))
  BY <1>5, AdmissionAssumption, FS_Subset
<1>7. \A p : (\E i \in DOMAIN principals : principals[i] = p) <=> OfPrincipal(p) # {}
  BY DEF QueueValues, OfPrincipal
<1>8. QED
  BY <1>1, <1>2, <1>3, <1>4, <1>5, <1>6, <1>7

\* insert: the waiter is last, its principal too unless it has a place.
LEMMA InsertStep ==
  ASSUME QueueValues, NEW q \in Requests, NEW b \in BOOLEAN, Room(q), Insert(q, b)
  PROVE  /\ QueueValues'
         /\ Waiting' = Waiting \cup {q}
         /\ Selecting' = IF b THEN Selecting \cup {q} ELSE Selecting
         /\ DOMAIN principals \subseteq DOMAIN principals'
         /\ \A i \in DOMAIN principals : principals'[i] = principals[i]
         /\ \A i \in DOMAIN principals, j \in DOMAIN principals' \ DOMAIN principals : i < j
<1> DEFINE w == [request |-> q, selecting |-> b]
           p == PrincipalOf[q]
           n == Len(queue)
<1>1. w \in Waiter /\ w.request = q /\ w.selecting = b /\ p \in Principals
  BY AdmissionAssumption DEF Waiter
<1>2. queue' = Append(queue, w)
  BY DEF Insert
<1>3. q \notin Waiting /\ Len(queue) < MaxQueued /\ Cardinality(OfPrincipal(p)) < MaxPerPrincipal
  BY DEF Room
<1>4. /\ n \in Nat /\ DOMAIN queue = 1..n
      /\ queue \in Seq(Waiter)
  BY QueueBasics DEF QueueValues
<1> HIDE DEF w
<1>5. /\ queue' \in Seq(Waiter) /\ Len(queue') = n + 1
      /\ \A i \in 1..n : queue'[i] = queue[i]
      /\ queue'[n + 1] = w
  BY <1>1, <1>2, <1>4, AppendProperties
<1>6. DOMAIN queue' = 1..(n + 1) /\ DOMAIN queue' = DOMAIN queue \cup {n + 1}
  <2>1. DOMAIN queue' = 1..(n + 1)
    BY <1>4, <1>5
  <2>2. QED
    BY <1>4, <2>1
<1>7. Waiting' = Waiting \cup {q}
  BY <1>1, <1>4, <1>5, <1>6 DEF Waiting
<1>8. Selecting' = IF b THEN Selecting \cup {q} ELSE Selecting
  BY <1>1, <1>4, <1>5, <1>6 DEF Selecting
<1>9. \A x : OfPrincipal(x)' = IF x = p THEN OfPrincipal(x) \cup {q} ELSE OfPrincipal(x)
  BY <1>7 DEF OfPrincipal
<1>10. Len(queue') <= MaxQueued
  BY <1>3, <1>4, <1>5, AdmissionAssumption
<1>11. \A x \in Principals : Cardinality(OfPrincipal(x)') <= MaxPerPrincipal
  <2>1. Cardinality(OfPrincipal(p) \cup {q}) <= MaxPerPrincipal
    <3>1. IsFiniteSet(OfPrincipal(p))
      BY QueueBasics
    <3>2. Cardinality(OfPrincipal(p)) \in Nat
      BY <3>1, FS_CardinalityType
    <3>3. q \notin OfPrincipal(p)
      BY <1>3 DEF OfPrincipal
    <3>4. Cardinality(OfPrincipal(p) \cup {q}) = Cardinality(OfPrincipal(p)) + 1
      BY <3>1, <3>3, FS_AddElement
    <3>5. QED
      BY <1>3, <3>2, <3>4, AdmissionAssumption
  <2>2. \A x \in Principals : Cardinality(OfPrincipal(x)) <= MaxPerPrincipal
    BY DEF QueueValues
  <2> HIDE DEF p
  <2>3. QED
    BY <1>9, <2>1, <2>2
<1>12. \A i, j \in DOMAIN queue' : queue'[i].request = queue'[j].request => i = j
  <2>1. \A i \in DOMAIN queue : queue[i].request # q
    BY <1>3 DEF Waiting
  <2>2. \A i, j \in DOMAIN queue : queue[i].request = queue[j].request => i = j
    BY DEF QueueValues
  <2>3. QED
    BY <1>1, <1>4, <1>5, <1>6, <2>1, <2>2
<1> HIDE DEF p, n
<1>13. CASE OfPrincipal(p) = {}
  <2>1. principals' = Append(principals, p)
    BY <1>13 DEF Insert, p
  <2>2. /\ Len(principals) \in Nat /\ DOMAIN principals = 1..Len(principals)
        /\ principals \in Seq(Principals)
    BY QueueBasics DEF QueueValues
  <2>3. /\ principals' \in Seq(Principals) /\ Len(principals') = Len(principals) + 1
        /\ \A i \in 1..Len(principals) : principals'[i] = principals[i]
        /\ principals'[Len(principals) + 1] = p
    BY <1>1, <2>1, <2>2, AppendProperties
  <2>4. DOMAIN principals' = DOMAIN principals \cup {Len(principals) + 1}
    <3>1. DOMAIN principals' = 1..(Len(principals) + 1)
      BY <2>2, <2>3
    <3>2. QED
      BY <2>2, <3>1
  <2>5. \A i \in DOMAIN principals : principals[i] # p
    BY <1>13, QueueBasics
  <2>6. Distinct(principals')
    <3>1. Distinct(principals)
      BY DEF QueueValues
    <3>2. QED
      BY <2>2, <2>3, <2>4, <2>5, <3>1 DEF Distinct
  <2>7. {principals'[i] : i \in DOMAIN principals'} = {PrincipalOf[r] : r \in Waiting'}
    <3>1. {principals'[i] : i \in DOMAIN principals'} = {principals[i] : i \in DOMAIN principals} \cup {p}
      BY <2>2, <2>3, <2>4
    <3>2. {principals[i] : i \in DOMAIN principals} = {PrincipalOf[r] : r \in Waiting}
      BY DEF QueueValues
    <3>3. {PrincipalOf[r] : r \in Waiting'} = {PrincipalOf[r] : r \in Waiting} \cup {p}
      BY <1>7 DEF p
    <3>4. QED
      BY <3>1, <3>2, <3>3
  <2>8. QueueValues'
    BY <1>5, <1>10, <1>11, <1>12, <2>3, <2>6, <2>7 DEF QueueValues
  <2>9. \A i \in DOMAIN principals, j \in DOMAIN principals' \ DOMAIN principals : i < j
    BY <2>2, <2>4
  <2>10. QED
    BY <1>7, <1>8, <2>2, <2>3, <2>4, <2>8, <2>9
<1>14. CASE OfPrincipal(p) # {}
  <2>1. principals' = principals
    BY <1>14 DEF Insert, p
  <2>2. {principals[i] : i \in DOMAIN principals} = {PrincipalOf[r] : r \in Waiting'}
    <3>1. \E r \in Waiting : PrincipalOf[r] = p
      BY <1>14 DEF OfPrincipal
    <3>2. {PrincipalOf[r] : r \in Waiting'} = {PrincipalOf[r] : r \in Waiting}
      BY <1>7, <3>1 DEF p
    <3>3. QED
      BY <3>2 DEF QueueValues
  <2>3. QueueValues'
    <3>1. principals \in Seq(Principals) /\ Distinct(principals)
      BY DEF QueueValues
    <3>2. QED
      BY <1>5, <1>10, <1>11, <1>12, <2>1, <2>2, <3>1 DEF QueueValues
  <2>4. QED
    BY <1>7, <1>8, <2>1, <2>3
<1>15. QED
  BY <1>13, <1>14

\* A request that waits has one waiter (`waiter_index`).
LEMMA IndexProperties ==
  ASSUME QueueValues, NEW q \in Waiting
  PROVE  /\ IndexOf(q) \in DOMAIN queue /\ queue[IndexOf(q)].request = q
         /\ \A i \in DOMAIN queue : queue[i].request = q => i = IndexOf(q)
<1>1. \E i \in DOMAIN queue : queue[i].request = q
  BY DEF Waiting
<1>2. IndexOf(q) \in DOMAIN queue /\ queue[IndexOf(q)].request = q
  BY <1>1 DEF IndexOf
<1>3. QED
  BY <1>2 DEF QueueValues

\* The principal of a request that waits has one place in the turn order.
LEMMA PlaceProperties ==
  ASSUME QueueValues, NEW q \in Waiting
  PROVE  /\ PlaceOf(PrincipalOf[q]) \in DOMAIN principals
         /\ principals[PlaceOf(PrincipalOf[q])] = PrincipalOf[q]
         /\ \A i \in DOMAIN principals : principals[i] = PrincipalOf[q] => i = PlaceOf(PrincipalOf[q])
<1>1. \E i \in DOMAIN principals : principals[i] = PrincipalOf[q]
  BY DEF QueueValues
<1>2. /\ PlaceOf(PrincipalOf[q]) \in DOMAIN principals
      /\ principals[PlaceOf(PrincipalOf[q])] = PrincipalOf[q]
  BY <1>1 DEF PlaceOf
<1>3. QED
  BY <1>2 DEF QueueValues, Distinct

\* remove: the others keep their order, and so do the principals.
LEMMA RemoveStep ==
  ASSUME QueueValues, NEW q \in Waiting, RemoveWaiter(q)
  PROVE  /\ QueueValues'
         /\ Waiting' = Waiting \ {q}
         /\ Selecting' = Selecting \ {q}
         /\ Sublist(principals', principals)
         /\ \A p : OfPrincipal(p)' = {} <=> OfPrincipal(p) \subseteq {q}
<1> DEFINE n == IndexOf(q)
           p == PrincipalOf[q]
           k == PlaceOf(PrincipalOf[q])
<1>1. /\ n \in 1..Len(queue) /\ queue[n].request = q
      /\ \A i \in DOMAIN queue : queue[i].request = q => i = n
      /\ Len(queue) \in Nat /\ DOMAIN queue = 1..Len(queue) /\ queue \in Seq(Waiter)
  BY IndexProperties, QueueBasics DEF QueueValues
<1>2. queue' = RemoveAt(queue, n)
  BY DEF RemoveWaiter
<1> HIDE DEF n
<1>3. /\ queue' \in Seq(Waiter) /\ Len(queue') = Len(queue) - 1
      /\ \A i \in 1..(Len(queue) - 1) : queue'[i] = IF i < n THEN queue[i] ELSE queue[i + 1]
  BY <1>1, <1>2, RemoveAtProperties
<1>4. DOMAIN queue' = 1..(Len(queue) - 1)
  BY <1>1, <1>3
<1>5. \A i \in DOMAIN queue' : \E j \in DOMAIN queue : j # n /\ queue'[i] = queue[j]
  BY <1>1, <1>3, <1>4
<1>6. \A j \in DOMAIN queue : j # n => \E i \in DOMAIN queue' : queue'[i] = queue[j]
  <2>1. ASSUME NEW j \in 1..Len(queue), j # n
        PROVE  \E i \in 1..(Len(queue) - 1) : RemoveAt(queue, n)[i] = queue[j]
    BY <1>1, <2>1, RemoveAtKeeps
  <2>2. QED
    BY <1>1, <1>2, <1>4, <2>1
<1>7. Waiting' = Waiting \ {q}
  BY <1>1, <1>5, <1>6 DEF Waiting
<1>8. Selecting' = Selecting \ {q}
  BY <1>1, <1>5, <1>6 DEF Selecting
<1>9. \A x : OfPrincipal(x)' = OfPrincipal(x) \ {q}
  BY <1>7 DEF OfPrincipal
<1>10. \A x : OfPrincipal(x)' = {} <=> OfPrincipal(x) \subseteq {q}
  BY <1>9
<1>11. Len(queue') <= MaxQueued
  BY <1>1, <1>3, AdmissionAssumption DEF QueueValues
<1>12. \A x \in Principals : Cardinality(OfPrincipal(x)') <= MaxPerPrincipal
  <2> TAKE x \in Principals
  <2>1. IsFiniteSet(OfPrincipal(x)) /\ Cardinality(OfPrincipal(x)) <= MaxPerPrincipal
    BY QueueBasics DEF QueueValues
  <2>2. OfPrincipal(x)' \in SUBSET OfPrincipal(x)
    BY <1>9
  <2>3. /\ IsFiniteSet(OfPrincipal(x)')
        /\ Cardinality(OfPrincipal(x)') <= Cardinality(OfPrincipal(x))
    BY <2>1, <2>2, FS_Subset
  <2>4. Cardinality(OfPrincipal(x)') \in Nat /\ Cardinality(OfPrincipal(x)) \in Nat
    BY <2>1, <2>3, FS_CardinalityType
  <2>5. QED
    BY <2>1, <2>3, <2>4, AdmissionAssumption
<1>13. \A i, j \in DOMAIN queue' : queue'[i].request = queue'[j].request => i = j
  <2> DEFINE at(i) == IF i < n THEN i ELSE i + 1
  <2>1. \A i \in DOMAIN queue' : at(i) \in DOMAIN queue /\ queue'[i] = queue[at(i)]
    BY <1>1, <1>3, <1>4
  <2>2. \A i, j \in DOMAIN queue' : at(i) = at(j) => i = j
    BY <1>1, <1>4
  <2> HIDE DEF at
  <2>3. \A i, j \in DOMAIN queue : queue[i].request = queue[j].request => i = j
    BY DEF QueueValues
  <2>4. QED
    BY <2>1, <2>2, <2>3
<1>14. p \in Principals /\ q \in OfPrincipal(p)
  BY QueueBasics, AdmissionAssumption DEF OfPrincipal
<1>15. principals \in Seq(Principals) /\ Distinct(principals) /\ DOMAIN principals = 1..Len(principals)
  BY QueueBasics DEF QueueValues
<1>16. {principals[i] : i \in DOMAIN principals} = {PrincipalOf[r] : r \in Waiting}
  BY DEF QueueValues
<1>17. CASE OfPrincipal(p) = {q}
  <2>1. /\ k \in 1..Len(principals) /\ principals[k] = p
        /\ \A i \in DOMAIN principals : principals[i] = p => i = k
    BY <1>15, PlaceProperties
  <2>2. principals' = RemoveAt(principals, k)
    BY <1>17 DEF RemoveWaiter
  <2> HIDE DEF k
  <2>3. /\ principals' \in Seq(Principals) /\ Len(principals') = Len(principals) - 1
        /\ \A i \in 1..(Len(principals) - 1) :
             principals'[i] = IF i < k THEN principals[i] ELSE principals[i + 1]
    BY <1>15, <2>1, <2>2, RemoveAtProperties
  <2>4. Sublist(principals', principals) /\ Distinct(principals')
    BY <1>15, <2>1, <2>2, RemoveAtSublist
  <2>5. DOMAIN principals' = 1..(Len(principals) - 1) /\ Len(principals) \in Nat
    BY <1>15, <2>3
  <2>6. \A i \in DOMAIN principals' : \E j \in DOMAIN principals : j # k /\ principals'[i] = principals[j]
    BY <1>15, <2>1, <2>3, <2>5
  <2>7. \A j \in DOMAIN principals : j # k => \E i \in DOMAIN principals' : principals'[i] = principals[j]
    <3>1. ASSUME NEW j \in 1..Len(principals), j # k
          PROVE  \E i \in 1..(Len(principals) - 1) : RemoveAt(principals, k)[i] = principals[j]
      BY <1>15, <2>1, <3>1, RemoveAtKeeps
    <3>2. QED
      BY <1>15, <2>2, <2>5, <3>1
  <2>8. {principals'[i] : i \in DOMAIN principals'} = {principals[i] : i \in DOMAIN principals} \ {p}
    BY <2>1, <2>6, <2>7
  <2>9. {PrincipalOf[r] : r \in Waiting'} = {PrincipalOf[r] : r \in Waiting} \ {p}
    <3>1. \A r \in Waiting : PrincipalOf[r] = p <=> r = q
      BY <1>17 DEF OfPrincipal
    <3>2. QED
      BY <1>7, <3>1
  <2>10. {principals'[i] : i \in DOMAIN principals'} = {PrincipalOf[r] : r \in Waiting'}
    BY <1>16, <2>8, <2>9
  <2>11. QueueValues'
    BY <1>3, <1>11, <1>12, <1>13, <2>3, <2>4, <2>10 DEF QueueValues
  <2>12. QED
    BY <1>7, <1>8, <1>10, <2>4, <2>11
<1>18. CASE OfPrincipal(p) # {q}
  <2>1. principals' = principals
    BY <1>18 DEF RemoveWaiter
  <2>2. Sublist(principals, principals)
    BY DEF Sublist
  <2>3. {PrincipalOf[r] : r \in Waiting'} = {PrincipalOf[r] : r \in Waiting}
    <3>1. PICK r \in Waiting : r # q /\ PrincipalOf[r] = p
      BY <1>14, <1>18 DEF OfPrincipal
    <3>2. QED
      BY <1>7, <3>1
  <2>4. QueueValues'
    <3>1. {principals'[i] : i \in DOMAIN principals'} = {PrincipalOf[r] : r \in Waiting'}
      BY <1>16, <2>1, <2>3
    <3>2. principals' \in Seq(Principals) /\ Distinct(principals')
      BY <1>15, <2>1
    <3>3. QED
      BY <1>3, <1>11, <1>12, <1>13, <3>1, <3>2 DEF QueueValues
  <2>5. QED
    BY <1>7, <1>8, <1>10, <2>1, <2>2, <2>4
<1>19. QED
  BY <1>17, <1>18

\* served: the principal goes to the back, the others keep their order.
LEMMA ServeStep ==
  ASSUME QueueValues, NEW p, principals' = ToBack(principals, p), UNCHANGED queue
  PROVE  /\ QueueValues'
         /\ Waiting' = Waiting /\ Selecting' = Selecting
         /\ \A x : OfPrincipal(x)' = OfPrincipal(x)
         /\ \A i, j \in DOMAIN principals' : principals'[i] # p =>
              \E k, l \in DOMAIN principals :
                /\ principals'[i] = principals[k] /\ principals'[j] = principals[l]
                /\ principals'[j] = p => i < j
                /\ principals'[j] # p => (i < j <=> k < l)
<1>1. Waiting' = Waiting /\ Selecting' = Selecting /\ \A x : OfPrincipal(x)' = OfPrincipal(x)
  BY DEF Waiting, Selecting, OfPrincipal
<1>2. /\ principals \in Seq(Principals) /\ Distinct(principals) /\ Len(principals) \in Nat
      /\ DOMAIN principals = 1..Len(principals) /\ \A i \in DOMAIN principals : principals[i] \in Principals
  BY QueueBasics DEF QueueValues
<1>3. CASE ~\E i \in DOMAIN principals : principals[i] = p
  <2>1. principals' = principals
    BY <1>3 DEF ToBack
  <2>2. QueueValues'
    BY <1>1, <2>1 DEF QueueValues
  <2>3. QED
    BY <1>1, <1>3, <2>1, <2>2
<1>4. CASE \E i \in DOMAIN principals : principals[i] = p
  <2> DEFINE n == CHOOSE i \in DOMAIN principals : principals[i] = p
             r == RemoveAt(principals, n)
             m == Len(principals)
  <2>1. n \in 1..m /\ principals[n] = p
    BY <1>2, <1>4
  <2>2. \A i \in DOMAIN principals : principals[i] = p => i = n
    BY <1>2, <2>1 DEF Distinct
  <2>3. principals' = Append(r, p)
    BY <1>4 DEF ToBack
  <2> HIDE DEF n
  <2>4. /\ r \in Seq(Principals) /\ Len(r) = m - 1
        /\ \A i \in 1..(m - 1) : r[i] = IF i < n THEN principals[i] ELSE principals[i + 1]
    BY <1>2, <2>1, RemoveAtProperties
  <2>5. \A j \in 1..m : j # n => \E i \in 1..(m - 1) : r[i] = principals[j]
    BY <1>2, <2>1, RemoveAtKeeps
  <2>6. p \in Principals
    BY <1>2, <1>4
  <2> HIDE DEF r
  <2>7. /\ principals' \in Seq(Principals) /\ Len(principals') = (m - 1) + 1
        /\ \A i \in 1..(m - 1) : principals'[i] = r[i]
        /\ principals'[(m - 1) + 1] = p
    BY <2>3, <2>4, <2>6, AppendProperties
  <2>8. /\ DOMAIN principals' = 1..m
        /\ \A i \in 1..(m - 1) : principals'[i] = IF i < n THEN principals[i] ELSE principals[i + 1]
        /\ principals'[m] = p
    BY <1>2, <2>4, <2>7
  <2>20. m \in Nat /\ DOMAIN principals = 1..m
    BY <1>2
  <2> HIDE DEF m
  <2> DEFINE at(i) == IF i = m THEN n ELSE IF i < n THEN i ELSE i + 1
  <2>9. \A i \in 1..m : at(i) \in 1..m /\ principals'[i] = principals[at(i)]
    BY <2>1, <2>8, <2>20
  <2>10. \A i, j \in 1..m : at(i) = at(j) => i = j
    BY <2>1, <2>20
  <2>11. \A i, j \in 1..m : i # m /\ j # m => (i < j <=> at(i) < at(j))
    BY <2>1, <2>20
  <2> HIDE DEF at
  <2>13. Distinct(principals')
    BY <1>2, <2>8, <2>9, <2>10, <2>20 DEF Distinct
  <2>14. {principals'[i] : i \in DOMAIN principals'} = {principals[i] : i \in DOMAIN principals}
    <3>1. \A i \in DOMAIN principals' : \E j \in DOMAIN principals : principals'[i] = principals[j]
      BY <2>8, <2>9, <2>20
    <3>2. ASSUME NEW j \in DOMAIN principals PROVE \E i \in DOMAIN principals' : principals'[i] = principals[j]
      <4>1. CASE j = n
        BY <2>1, <2>8, <2>20, <4>1
      <4>2. CASE j # n
        <5>1. PICK i \in 1..(m - 1) : r[i] = principals[j]
          BY <2>5, <2>20, <4>2
        <5>2. i \in 1..m
          BY <2>20, <5>1
        <5>3. QED
          BY <2>7, <2>8, <5>1, <5>2
      <4>3. QED
        BY <4>1, <4>2
    <3>3. QED
      BY <3>1, <3>2
  <2>15. QueueValues'
    BY <1>1, <2>7, <2>13, <2>14 DEF QueueValues
  <2>16. ASSUME NEW i \in DOMAIN principals', NEW j \in DOMAIN principals', principals'[i] # p
         PROVE  \E k, l \in DOMAIN principals :
                /\ principals'[i] = principals[k] /\ principals'[j] = principals[l]
                /\ principals'[j] = p => i < j
                /\ principals'[j] # p => (i < j <=> k < l)
    <3>1. i \in 1..m /\ j \in 1..m /\ i # m
      BY <2>8, <2>20, <2>16
    <3>2. principals'[j] = p => j = m
      BY <2>1, <2>8, <2>13, <2>20 DEF Distinct
    <3>3. j = m => i < j
      BY <2>20, <3>1
    <3>4. principals'[j] # p => j # m
      BY <2>8
    <3>5. /\ at(i) \in DOMAIN principals /\ at(j) \in DOMAIN principals
          /\ principals'[i] = principals[at(i)] /\ principals'[j] = principals[at(j)]
      BY <2>9, <2>20, <3>1
    <3>6. principals'[j] # p => (i < j <=> at(i) < at(j))
      BY <2>11, <3>1, <3>4
    <3>7. QED
      BY <3>2, <3>3, <3>5, <3>6
  <2>17. QED
    BY <1>1, <2>15, <2>16
<1>5. QED
  BY <1>3, <1>4

\* What a step that leaves the queue alone leaves alone with it.
LEMMA QueueKept ==
  ASSUME UNCHANGED queueVars
  PROVE  /\ QueueValues' <=> QueueValues
         /\ Waiting' = Waiting /\ Selecting' = Selecting
         /\ \A p : OfPrincipal(p)' = OfPrincipal(p)
         /\ principals' = principals
         /\ \A v, w : Precedes(v, w)' <=> Precedes(v, w)
<1>1. queue' = queue /\ principals' = principals
  BY DEF queueVars
<1>2. Waiting' = Waiting /\ Selecting' = Selecting
  BY <1>1 DEF Waiting, Selecting
<1>3. \A p : OfPrincipal(p)' = OfPrincipal(p)
  BY <1>2 DEF OfPrincipal
<1>4. QueueValues' <=> QueueValues
  <2>1. (\A p \in Principals : Cardinality(OfPrincipal(p)) <= MaxPerPrincipal)'
           <=> \A p \in Principals : Cardinality(OfPrincipal(p)) <= MaxPerPrincipal
    BY <1>3
  <2>2. {PrincipalOf[q] : q \in Waiting}' = {PrincipalOf[q] : q \in Waiting}
    BY <1>2
  <2>3. {principals[i] : i \in DOMAIN principals}' = {principals[i] : i \in DOMAIN principals}
    BY <1>1
  <2>4. Distinct(principals)' <=> Distinct(principals)
    BY <1>1 DEF Distinct
  <2>5. /\ (queue \in Seq(Waiter) /\ Len(queue) <= MaxQueued)' <=> (queue \in Seq(Waiter) /\ Len(queue) <= MaxQueued)
        /\ (principals \in Seq(Principals))' <=> principals \in Seq(Principals)
        /\ (\A i, j \in DOMAIN queue : queue[i].request = queue[j].request => i = j)'
              <=> \A i, j \in DOMAIN queue : queue[i].request = queue[j].request => i = j
    BY <1>1
  <2>6. QED
    BY <2>1, <2>2, <2>3, <2>4, <2>5 DEF QueueValues
<1>5. \A v, w : Precedes(v, w)' <=> Precedes(v, w)
  BY <1>1 DEF Precedes, PlaceOf, IndexOf
<1>6. QED
  BY <1>1, <1>2, <1>3, <1>4, <1>5

\* The end of a guard, whether it stands for a waiter or for nobody.
LEMMA DropStep ==
  ASSUME QueueValues, NEW q \in Requests, DropGuard(q)
  PROVE  /\ QueueValues'
         /\ Waiting' = Waiting \ {q} /\ Selecting' = Selecting \ {q}
         /\ Sublist(principals', principals)
         /\ woken \subseteq woken'
         /\ q \in Waiting => /\ woken' = woken \cup InAdmit /\ passed' = Forgotten(q)
                             /\ \A p : OfPrincipal(p)' = {} <=> OfPrincipal(p) \subseteq {q}
         /\ q \notin Waiting => /\ UNCHANGED <<queueVars, passed>>
                                /\ \A p : OfPrincipal(p)' = OfPrincipal(p)
<1>1. CASE q \in Waiting
  <2>1. RemoveWaiter(q) /\ woken' = woken \cup InAdmit /\ passed' = Forgotten(q)
    BY <1>1 DEF DropGuard, NotifyTurn
  <2>2. QED
    BY <1>1, <2>1, RemoveStep
<1>2. CASE q \notin Waiting
  <2>1. UNCHANGED <<queueVars, woken, passed>>
    BY <1>2 DEF DropGuard
  <2>2. Selecting \subseteq Waiting
    BY QueueBasics
  <2>3. Sublist(principals, principals)
    BY DEF Sublist
  <2>4. QED
    BY <1>2, <2>1, <2>2, <2>3, QueueKept
<1>3. QED
  BY <1>1, <1>2

\* register_waiter, or the answer that there is nothing to wait for.
LEMMA RegisterStep ==
  ASSUME QueueValues, NEW q \in Requests, NEW busy, NEW s, RegisterOrLeave(q, busy, s)
  PROVE  /\ QueueValues'
         /\ \/ /\ busy /\ stage' = [stage EXCEPT ![q] = s]
               /\ Waiting' = Waiting \cup {q}
               /\ Selecting' = Selecting \/ Selecting' = Selecting \cup {q}
            \/ /\ stage' = [stage EXCEPT ![q] = "leaving"]
               /\ Waiting' = Waiting /\ Selecting' = Selecting
         /\ DOMAIN principals \subseteq DOMAIN principals'
         /\ \A i \in DOMAIN principals : principals'[i] = principals[i]
         /\ \A i \in DOMAIN principals, j \in DOMAIN principals' \ DOMAIN principals : i < j
<1>1. CASE busy /\ q \notin Waiting /\ Room(q)
  <2>1. Insert(q, TRUE) /\ stage' = [stage EXCEPT ![q] = s]
    BY <1>1 DEF RegisterOrLeave, Register, MoveTo
  <2>2. QED
    BY <1>1, <2>1, InsertStep
<1>2. CASE busy /\ q \in Waiting
  <2>1. stage' = [stage EXCEPT ![q] = s] /\ UNCHANGED queueVars
    BY <1>2 DEF RegisterOrLeave, Register, MoveTo
  <2>2. Waiting \cup {q} = Waiting
    BY <1>2
  <2>3. QED
    BY <1>2, <2>1, <2>2, QueueKept
<1>3. CASE ~busy \/ (q \notin Waiting /\ ~Room(q))
  <2>1. stage' = [stage EXCEPT ![q] = "leaving"] /\ UNCHANGED queueVars
    BY <1>3 DEF RegisterOrLeave, Register, MoveTo
  <2>2. QED
    BY <2>1, QueueKept
<1>4. QED
  BY <1>1, <1>2, <1>3

-----------------------------------------------------------------------------
(* Types *)

\* Forgetting who passed a principal keeps the count of who passed whom one.
LEMMA ForgottenType ==
  ASSUME Shape, NEW q \in Requests
  PROVE  Forgotten(q) \in [Principals -> [Principals -> 0..2]]
<1>1. passed \in [Principals -> [Principals -> 0..2]] /\ [p \in Principals |-> 0] \in [Principals -> 0..2]
  BY DEF Shape, OtherValues
<1> DEFINE none == [p \in Principals |-> 0]
<1> HIDE DEF none
<1>2. [passed EXCEPT ![PrincipalOf[q]] = none] \in [Principals -> [Principals -> 0..2]]
  BY <1>1 DEF none
<1>3. QED
  BY <1>1, <1>2 DEF Forgotten, none

\* Every step keeps the types.
LEMMA OtherStep ==
  ASSUME Shape, [Next]_vars
  PROVE  OtherValues'
<1>1. CASE UNCHANGED vars
  BY <1>1 DEF Shape, vars, OtherValues, queueVars, poolVars, sleepVars, boundVars
<1>2. ASSUME NEW q \in Requests, Admit(q) PROVE OtherValues'
  BY <1>2, AdmissionAssumption DEF Admit, OtherValues, Shape, MoveTo, Stages, AboutToSleep, Asleep, queueVars, poolVars, sleepVars, boundVars, Subscribe, Stop, Stops
<1>3. ASSUME NEW q \in Requests, Resume(q) PROVE OtherValues'
  BY <1>3, AdmissionAssumption DEF Resume, OtherValues, Shape, MoveTo, Stages, AboutToSleep, Asleep, queueVars, poolVars, sleepVars, boundVars, Subscribe, Stop, Stops
<1>4. ASSUME NEW q \in Requests, EnterSaturated(q) PROVE OtherValues'
  <2>1. stage' \in [Requests -> Stages]
    BY <1>4 DEF EnterSaturated, Shape, OtherValues, MoveTo, Stages, AboutToSleep, Asleep, RegisterOrLeave, Register
  <2>2. stopped' \in [Requests -> Stops]
    BY <1>4 DEF EnterSaturated, Shape, OtherValues, Stop, Stops, RegisterOrLeave, Register
  <2>3. QED
    BY <1>4, <2>1, <2>2 DEF EnterSaturated, Shape, OtherValues, queueVars, poolVars, sleepVars, boundVars
<1>5. ASSUME NEW q \in Requests, EnterSection(q) PROVE OtherValues'
  <2>1. stage' \in [Requests -> Stages]
    BY <1>5 DEF EnterSection, Shape, OtherValues, MoveTo, Stages, AboutToSleep, Asleep
  <2>2. Selecting \subseteq Requests
    BY QueueBasics DEF Shape
  <2>3. section' \in Section
    BY <1>5, <2>2 DEF EnterSection, Section
  <2>4. QED
    BY <1>5, <2>1, <2>2, <2>3 DEF EnterSection, Shape, OtherValues, queueVars, poolVars, sleepVars, boundVars
<1>6. ASSUME NEW q \in Requests, Scan(q) PROVE OtherValues'
  <2>1. Selecting \subseteq Requests
    BY QueueBasics DEF Shape
  <2>2. section \in Section
    BY DEF Shape, OtherValues
  <2>3. section' \in Section
    <3>1. PICK w \in Selecting : section' = IF Admissible(w, behind[q])
                       THEN [section EXCEPT !.turn = w]
                       ELSE [section EXCEPT !.unready = @ \cup {w}, !.ready = @ \ {w}]
      BY <1>6 DEF Scan
    <3>2. w \in Requests
      BY <2>1, <3>1
    <3>3. [section EXCEPT !.turn = w] \in Section
      BY <2>2, <3>2 DEF Section
    <3>4. [section EXCEPT !.unready = @ \cup {w}, !.ready = @ \ {w}] \in Section
      BY <2>2, <3>2 DEF Section
    <3>5. QED
      BY <3>1, <3>3, <3>4
  <2>4. QED
    BY <1>6, <2>1, <2>2, <2>3 DEF Scan, Shape, OtherValues, queueVars, poolVars, sleepVars, boundVars
<1>7. ASSUME NEW q \in Requests, Grant(q) PROVE OtherValues'
  <2>1. stage' \in [Requests -> Stages]
    BY <1>7 DEF Grant, Shape, OtherValues, MoveTo, Stages, AboutToSleep, Asleep
  <2>2. section' \in Section
    BY <1>7 DEF Grant, Shape, OtherValues, Section, FreeSection
  <2>3. lease' \in [Requests -> [member : Members \cup {NoMember}, phase : Phases]]
    <3>1. PICK m \in ReadyMembers(q, behind[q]) : lease' = [lease EXCEPT ![q] = [member |-> m, phase |-> "held"]]
      BY <1>7 DEF Grant
    <3>2. m \in Members
      BY <3>1, AdmissionAssumption DEF ReadyMembers
    <3>3. QED
      BY <3>1, <3>2 DEF Shape, OtherValues, Phases
  <2>4. passed' \in [Principals -> [Principals -> 0..2]]
    <3>1. passed' = PassOver(q) /\ PrincipalOf[q] \in Principals
      BY <1>7, AdmissionAssumption DEF Grant
    <3>2. ASSUME NEW p \in Principals PROVE PassOver(q)[p] \in [Principals -> 0..2]
      <4>1. passed[p] \in [Principals -> 0..2] /\ [x \in Principals |-> 0] \in [Principals -> 0..2]
        BY DEF Shape, OtherValues
      <4>2. [passed[p] EXCEPT ![PrincipalOf[q]] = IF @ < 2 THEN @ + 1 ELSE 2] \in [Principals -> 0..2]
        BY <3>1, <4>1
      <4>3. QED
        BY <4>1, <4>2 DEF PassOver
    <3>3. QED
      BY <3>1, <3>2 DEF PassOver
  <2>5. QED
    BY <1>7, <2>1, <2>2, <2>3, <2>4 DEF Grant, Shape, OtherValues, queueVars, poolVars, sleepVars, boundVars
<1>8. ASSUME NEW q \in Requests, FindNothing(q) PROVE OtherValues'
  <2>1. stage' \in [Requests -> Stages]
    BY <1>8 DEF FindNothing, Shape, OtherValues, MoveTo, Stages, AboutToSleep, Asleep, RegisterOrLeave, Register
  <2>2. stopped' \in [Requests -> Stops]
    BY <1>8 DEF FindNothing, Shape, OtherValues, Stop, Stops, RegisterOrLeave, Register
  <2>3. section' \in Section
    BY <1>8 DEF FindNothing, Shape, OtherValues, Section, FreeSection
  <2>4. QED
    BY <1>8, <2>1, <2>2, <2>3 DEF FindNothing, Shape, OtherValues, queueVars, poolVars, sleepVars, boundVars
<1>9. ASSUME NEW q \in Requests, Yield(q) PROVE OtherValues'
  <2>1. stage' \in [Requests -> Stages]
    BY <1>9 DEF Yield, Shape, OtherValues, MoveTo, Stages, AboutToSleep, Asleep, RegisterOrLeave, Register
  <2>2. stopped' \in [Requests -> Stops]
    BY <1>9 DEF Yield, Shape, OtherValues, Stop, Stops, RegisterOrLeave, Register
  <2>3. section' \in Section
    BY <1>9 DEF Yield, Shape, OtherValues, Section, FreeSection
  <2>4. QED
    BY <1>9, <2>1, <2>2, <2>3 DEF Yield, Shape, OtherValues, queueVars, poolVars, sleepVars, boundVars
<1>10. ASSUME NEW q \in Requests, FallAsleep(q) PROVE OtherValues'
  BY <1>10, AdmissionAssumption DEF FallAsleep, OtherValues, Shape, MoveTo, Stages, AboutToSleep, Asleep, queueVars, poolVars, sleepVars, boundVars, Cooling, FireTimer
<1>11. ASSUME NEW q \in Requests, ReturnLease(q) PROVE OtherValues'
  <2>1. stage' \in [Requests -> Stages]
    BY <1>11 DEF ReturnLease, Shape, OtherValues, MoveTo, Stages, AboutToSleep, Asleep
  <2>2. /\ passed' \in [Principals -> [Principals -> 0..2]] /\ woken' \subseteq Requests
    BY <1>11, ForgottenType DEF ReturnLease, DropGuard, NotifyTurn, InAdmit, Shape, OtherValues
  <2>3. QED
    BY <1>11, <2>1, <2>2 DEF ReturnLease, Shape, OtherValues, queueVars, poolVars, sleepVars, boundVars
<1>12. ASSUME NEW q \in Requests, ReturnNothing(q) PROVE OtherValues'
  <2>1. stage' \in [Requests -> Stages]
    BY <1>12 DEF ReturnNothing, Shape, OtherValues, MoveTo, Stages, AboutToSleep, Asleep
  <2>2. /\ passed' \in [Principals -> [Principals -> 0..2]] /\ woken' \subseteq Requests
    BY <1>12, ForgottenType DEF ReturnNothing, DropGuard, NotifyTurn, InAdmit, Shape, OtherValues
  <2>3. QED
    BY <1>12, <2>1, <2>2 DEF ReturnNothing, Shape, OtherValues, queueVars, poolVars, sleepVars, boundVars
<1>13. ASSUME NEW q \in Requests, BeginRecovery(q) PROVE OtherValues'
  BY <1>13, AdmissionAssumption DEF BeginRecovery, OtherValues, Shape, MoveTo, Stages, AboutToSleep, Asleep, queueVars, poolVars, sleepVars, boundVars, Stop, Stops
<1>14. ASSUME NEW q \in Requests, Enlist(q) PROVE OtherValues'
  <2>1. stage' \in [Requests -> Stages]
    BY <1>14 DEF Enlist, Shape, OtherValues, MoveTo, Stages, AboutToSleep, Asleep
  <2>2. stopped' \in [Requests -> Stops]
    BY <1>14 DEF Enlist, Shape, OtherValues, Stop, Stops
  <2>3. QED
    BY <1>14, <2>1, <2>2 DEF Enlist, Shape, OtherValues, queueVars, poolVars, sleepVars, boundVars
<1>15. ASSUME NEW q \in Requests, EndRecovery(q) PROVE OtherValues'
  <2>1. stage' \in [Requests -> Stages]
    BY <1>15 DEF EndRecovery, Shape, OtherValues, MoveTo, Stages, AboutToSleep, Asleep
  <2>2. stopped' \in [Requests -> Stops]
    BY <1>15 DEF EndRecovery, Shape, OtherValues, Stop, Stops
  <2>3. /\ passed' \in [Principals -> [Principals -> 0..2]] /\ woken' \subseteq Requests
    BY <1>15, ForgottenType DEF EndRecovery, DropGuard, NotifyTurn, InAdmit, Shape, OtherValues
  <2>4. QED
    BY <1>15, <2>1, <2>2, <2>3 DEF EndRecovery, Shape, OtherValues, queueVars, poolVars, sleepVars, boundVars
<1>16. ASSUME NEW q \in Requests, GiveUp(q) PROVE OtherValues'
  BY <1>16, AdmissionAssumption DEF GiveUp, OtherValues, Shape, MoveTo, Stages, AboutToSleep, Asleep, queueVars, poolVars, sleepVars, boundVars
<1>17. ASSUME NEW q \in Requests, Settle(q) PROVE OtherValues'
  <2>1. lease' \in [Requests -> [member : Members \cup {NoMember}, phase : Phases]]
    BY <1>17 DEF Settle, Shape, OtherValues, Phases
  <2>2. status' \in [Members -> Statuses]
    BY <1>17 DEF Settle, Shape, OtherValues, Statuses
  <2>3. changes' \in 0..MaxChanges
    BY <1>17, AdmissionAssumption DEF Settle, Shape, OtherValues
  <2>4. QED
    BY <1>17, <2>1, <2>2, <2>3 DEF Settle, Shape, OtherValues, queueVars, poolVars, sleepVars, boundVars
<1>18. ASSUME NEW q \in Requests, ReleaseReservation(q) PROVE OtherValues'
  <2>1. lease' \in [Requests -> [member : Members \cup {NoMember}, phase : Phases]]
    BY <1>18 DEF ReleaseReservation, Shape, OtherValues, Phases
  <2>2. QED
    BY <1>18, <2>1 DEF ReleaseReservation, Shape, OtherValues, queueVars, poolVars, sleepVars, boundVars
<1>19. ASSUME NEW q \in Requests, AnnounceRelease(q) PROVE OtherValues'
  BY <1>19, AdmissionAssumption DEF AnnounceRelease, OtherValues, Shape, MoveTo, Stages, AboutToSleep, Asleep, queueVars, poolVars, sleepVars, boundVars, Phases, NotifyAvailability, InAdmit, InRecovery
<1>20. ASSUME NEW q \in Requests, Arrive(q) PROVE OtherValues'
  BY <1>20, AdmissionAssumption DEF Arrive, OtherValues, Shape, MoveTo, Stages, AboutToSleep, Asleep, queueVars, poolVars, sleepVars, boundVars, Stops
<1>21. ASSUME NEW q \in Requests, Cancel(q) PROVE OtherValues'
  <2>1. stage' \in [Requests -> Stages]
    BY <1>21 DEF Cancel, Shape, OtherValues, MoveTo, Stages, AboutToSleep, Asleep
  <2>2. /\ passed' \in [Principals -> [Principals -> 0..2]] /\ woken' \subseteq Requests
    BY <1>21, ForgottenType DEF Cancel, DropGuard, NotifyTurn, InAdmit, Shape, OtherValues
  <2>3. QED
    BY <1>21, <2>1, <2>2 DEF Cancel, Shape, OtherValues, queueVars, poolVars, sleepVars, boundVars
<1>22. ASSUME NEW q \in Requests, UseUpWait(q) PROVE OtherValues'
  BY <1>22, AdmissionAssumption DEF UseUpWait, OtherValues, Shape, MoveTo, Stages, AboutToSleep, Asleep, queueVars, poolVars, sleepVars, boundVars
<1>23. ASSUME NEW m \in Members, EndCooldown(m) PROVE OtherValues'
  BY <1>23, AdmissionAssumption DEF EndCooldown, OtherValues, Shape, MoveTo, Stages, AboutToSleep, Asleep, queueVars, poolVars, sleepVars, boundVars, Statuses
<1>24. ASSUME NEW m \in Members, NEW s \in {"up", "blocked"}, UpdateMember(m, s) PROVE OtherValues'
  BY <1>24, AdmissionAssumption DEF UpdateMember, OtherValues, Shape, MoveTo, Stages, AboutToSleep, Asleep, queueVars, poolVars, sleepVars, boundVars, Change, Channels, Statuses
<1>25. ASSUME NEW qs \in HiddenSets, SetHidden(qs) PROVE OtherValues'
  BY <1>25, AdmissionAssumption DEF SetHidden, OtherValues, Shape, MoveTo, Stages, AboutToSleep, Asleep, queueVars, poolVars, sleepVars, boundVars, Change, Channels, Statuses
<1>26. ASSUME NEW b \in BOOLEAN, SetRecoveryEnabled(b) PROVE OtherValues'
  BY <1>26, AdmissionAssumption DEF SetRecoveryEnabled, OtherValues, Shape, MoveTo, Stages, AboutToSleep, Asleep, queueVars, poolVars, sleepVars, boundVars, Change, Channels, Statuses
<1>27. CASE RetireForReplacement
  BY <1>27, AdmissionAssumption DEF RetireForReplacement, OtherValues, Shape, MoveTo, Stages, AboutToSleep, Asleep, queueVars, poolVars, sleepVars, boundVars, Change, Channels, Statuses
<1>28. ASSUME NEW channel \in Channels, Announce(channel) PROVE OtherValues'
  BY <1>28, AdmissionAssumption DEF Announce, OtherValues, Shape, MoveTo, Stages, AboutToSleep, Asleep, queueVars, poolVars, sleepVars, boundVars, Channels, NotifyTurn, NotifyAvailability, InAdmit, InRecovery
<1>29. QED
  BY <1>1, <1>2, <1>3, <1>4, <1>5, <1>6, <1>7, <1>8, <1>9, <1>10, <1>11, <1>12, <1>13,
     <1>14, <1>15, <1>16, <1>17, <1>18, <1>19, <1>20, <1>21, <1>22, <1>23, <1>24,
     <1>25, <1>26, <1>27, <1>28
     DEF Next, Driving, Enter, Decide, Return, AwaitRecovery, EndLease, Configuring

\* Every step keeps the queue and its turn order in shape.
LEMMA QueueStep ==
  ASSUME Shape, [Next]_vars
  PROVE  QueueValues'
<1>1. CASE UNCHANGED vars
  BY <1>1, QueueKept DEF Shape, vars, queueVars
<1>2. ASSUME NEW q \in Requests, Admit(q) PROVE QueueValues'
  <2>1. UNCHANGED queueVars
    BY <1>2 DEF Admit, queueVars, Change, Subscribe
  <2>2. QED
    BY <2>1, QueueKept DEF Shape
<1>3. ASSUME NEW q \in Requests, Resume(q) PROVE QueueValues'
  <2>1. UNCHANGED queueVars
    BY <1>3 DEF Resume, queueVars, Change, Subscribe
  <2>2. QED
    BY <2>1, QueueKept DEF Shape
<1>4. ASSUME NEW q \in Requests, EnterSaturated(q) PROVE QueueValues'
  BY <1>4, RegisterStep DEF EnterSaturated, Shape
<1>5. ASSUME NEW q \in Requests, EnterSection(q) PROVE QueueValues'
  <2>1. UNCHANGED queueVars
    BY <1>5 DEF EnterSection, queueVars, Change, Subscribe
  <2>2. QED
    BY <2>1, QueueKept DEF Shape
<1>6. ASSUME NEW q \in Requests, Scan(q) PROVE QueueValues'
  <2>1. UNCHANGED queueVars
    BY <1>6 DEF Scan, queueVars, Change, Subscribe
  <2>2. QED
    BY <2>1, QueueKept DEF Shape
<1>7. ASSUME NEW q \in Requests, Grant(q) PROVE QueueValues'
  BY <1>7, ServeStep DEF Grant, Shape
<1>8. ASSUME NEW q \in Requests, FindNothing(q) PROVE QueueValues'
  BY <1>8, RegisterStep DEF FindNothing, Shape
<1>9. ASSUME NEW q \in Requests, Yield(q) PROVE QueueValues'
  BY <1>9, RegisterStep DEF Yield, Shape
<1>10. ASSUME NEW q \in Requests, FallAsleep(q) PROVE QueueValues'
  <2>1. UNCHANGED queueVars
    BY <1>10 DEF FallAsleep, queueVars, Change, Subscribe
  <2>2. QED
    BY <2>1, QueueKept DEF Shape
<1>11. ASSUME NEW q \in Requests, ReturnLease(q) PROVE QueueValues'
  BY <1>11, DropStep DEF ReturnLease, Shape
<1>12. ASSUME NEW q \in Requests, ReturnNothing(q) PROVE QueueValues'
  BY <1>12, DropStep DEF ReturnNothing, Shape
<1>13. ASSUME NEW q \in Requests, BeginRecovery(q) PROVE QueueValues'
  <2>1. UNCHANGED queueVars
    BY <1>13 DEF BeginRecovery, queueVars, Change, Subscribe
  <2>2. QED
    BY <2>1, QueueKept DEF Shape
<1>14. ASSUME NEW q \in Requests, Enlist(q) PROVE QueueValues'
  <2>1. CASE Room(q)
    BY <1>14, <2>1, InsertStep DEF Enlist, Shape
  <2>2. CASE ~Room(q)
    BY <1>14, <2>2, QueueKept DEF Enlist, Shape
  <2>3. QED
    BY <2>1, <2>2
<1>15. ASSUME NEW q \in Requests, EndRecovery(q) PROVE QueueValues'
  BY <1>15, DropStep DEF EndRecovery, Shape
<1>16. ASSUME NEW q \in Requests, GiveUp(q) PROVE QueueValues'
  <2>1. UNCHANGED queueVars
    BY <1>16 DEF GiveUp, queueVars, Change, Subscribe
  <2>2. QED
    BY <2>1, QueueKept DEF Shape
<1>17. ASSUME NEW q \in Requests, Settle(q) PROVE QueueValues'
  <2>1. UNCHANGED queueVars
    BY <1>17 DEF Settle, queueVars, Change, Subscribe
  <2>2. QED
    BY <2>1, QueueKept DEF Shape
<1>18. ASSUME NEW q \in Requests, ReleaseReservation(q) PROVE QueueValues'
  <2>1. UNCHANGED queueVars
    BY <1>18 DEF ReleaseReservation, queueVars, Change, Subscribe
  <2>2. QED
    BY <2>1, QueueKept DEF Shape
<1>19. ASSUME NEW q \in Requests, AnnounceRelease(q) PROVE QueueValues'
  <2>1. UNCHANGED queueVars
    BY <1>19 DEF AnnounceRelease, queueVars, Change, Subscribe
  <2>2. QED
    BY <2>1, QueueKept DEF Shape
<1>20. ASSUME NEW q \in Requests, Arrive(q) PROVE QueueValues'
  <2>1. UNCHANGED queueVars
    BY <1>20 DEF Arrive, queueVars, Change, Subscribe
  <2>2. QED
    BY <2>1, QueueKept DEF Shape
<1>21. ASSUME NEW q \in Requests, Cancel(q) PROVE QueueValues'
  BY <1>21, DropStep DEF Cancel, Shape
<1>22. ASSUME NEW q \in Requests, UseUpWait(q) PROVE QueueValues'
  <2>1. UNCHANGED queueVars
    BY <1>22 DEF UseUpWait, queueVars, Change, Subscribe
  <2>2. QED
    BY <2>1, QueueKept DEF Shape
<1>23. ASSUME NEW m \in Members, EndCooldown(m) PROVE QueueValues'
  <2>1. UNCHANGED queueVars
    BY <1>23 DEF EndCooldown, queueVars, Change, Subscribe
  <2>2. QED
    BY <2>1, QueueKept DEF Shape
<1>24. ASSUME NEW m \in Members, NEW s \in {"up", "blocked"}, UpdateMember(m, s) PROVE QueueValues'
  <2>1. UNCHANGED queueVars
    BY <1>24 DEF UpdateMember, queueVars, Change, Subscribe
  <2>2. QED
    BY <2>1, QueueKept DEF Shape
<1>25. ASSUME NEW qs \in HiddenSets, SetHidden(qs) PROVE QueueValues'
  <2>1. UNCHANGED queueVars
    BY <1>25 DEF SetHidden, queueVars, Change, Subscribe
  <2>2. QED
    BY <2>1, QueueKept DEF Shape
<1>26. ASSUME NEW b \in BOOLEAN, SetRecoveryEnabled(b) PROVE QueueValues'
  <2>1. UNCHANGED queueVars
    BY <1>26 DEF SetRecoveryEnabled, queueVars, Change, Subscribe
  <2>2. QED
    BY <2>1, QueueKept DEF Shape
<1>27. CASE RetireForReplacement
  <2>1. UNCHANGED queueVars
    BY <1>27 DEF RetireForReplacement, queueVars, Change, Subscribe
  <2>2. QED
    BY <2>1, QueueKept DEF Shape
<1>28. ASSUME NEW channel \in Channels, Announce(channel) PROVE QueueValues'
  <2>1. UNCHANGED queueVars
    BY <1>28 DEF Announce, queueVars, Change, Subscribe
  <2>2. QED
    BY <2>1, QueueKept DEF Shape
<1>29. QED
  BY <1>1, <1>2, <1>3, <1>4, <1>5, <1>6, <1>7, <1>8, <1>9, <1>10, <1>11, <1>12, <1>13,
     <1>14, <1>15, <1>16, <1>17, <1>18, <1>19, <1>20, <1>21, <1>22, <1>23, <1>24,
     <1>25, <1>26, <1>27, <1>28
     DEF Next, Driving, Enter, Decide, Return, AwaitRecovery, EndLease, Configuring

\* Every step keeps the queue, the section and the leases in accord with the drivers.
LEMMA DriversStep ==
  ASSUME Shape, [Next]_vars
  PROVE  DriversMatch'
<1>1. CASE UNCHANGED vars
  <2>1. UNCHANGED <<queueVars, stage, section, lease>>
    BY <1>1 DEF vars, queueVars
  <2>2. Waiting' = Waiting
    BY <2>1, QueueKept
  <2>3. QED
    BY <2>1, <2>2 DEF Shape, DriversMatch
<1>2. ASSUME NEW q \in Requests, Admit(q) PROVE DriversMatch'
  <2>0. stage \in [Requests -> Stages] /\ section \in Section /\ Nobody \notin Requests
         /\ lease \in [Requests -> [member : Members \cup {NoMember}, phase : Phases]] /\ DriversMatch /\ QueueValues
    BY AdmissionAssumption DEF Shape, OtherValues
  <2>1. UNCHANGED queueVars /\ Waiting' = Waiting
    BY <1>2, QueueKept DEF Admit, queueVars, Change, Subscribe
  <2>9. QED
    BY <1>2, <2>0, <2>1 DEF Admit, DriversMatch, Guarded, AboutToSleep, Asleep, MoveTo, Subscribe
<1>3. ASSUME NEW q \in Requests, Resume(q) PROVE DriversMatch'
  <2>0. stage \in [Requests -> Stages] /\ section \in Section /\ Nobody \notin Requests
         /\ lease \in [Requests -> [member : Members \cup {NoMember}, phase : Phases]] /\ DriversMatch /\ QueueValues
    BY AdmissionAssumption DEF Shape, OtherValues
  <2>1. UNCHANGED queueVars /\ Waiting' = Waiting
    BY <1>3, QueueKept DEF Resume, queueVars, Change, Subscribe
  <2>9. QED
    BY <1>3, <2>0, <2>1 DEF Resume, DriversMatch, Guarded, AboutToSleep, Asleep, MoveTo, Subscribe
<1>4. ASSUME NEW q \in Requests, EnterSaturated(q) PROVE DriversMatch'
  <2>0. stage \in [Requests -> Stages] /\ section \in Section /\ Nobody \notin Requests
         /\ lease \in [Requests -> [member : Members \cup {NoMember}, phase : Phases]] /\ DriversMatch /\ QueueValues
    BY AdmissionAssumption DEF Shape, OtherValues
  <2>1. \/ /\ stage' = [stage EXCEPT ![q] = "unserved"] /\ Waiting' = Waiting \cup {q}
        \/ /\ stage' = [stage EXCEPT ![q] = "leaving"] /\ Waiting' = Waiting
    BY <1>4, <2>0, RegisterStep DEF EnterSaturated
  <2>9. QED
    BY <1>4, <2>0, <2>1 DEF EnterSaturated, DriversMatch, Guarded, AboutToSleep, Asleep, MoveTo, FreeSection
<1>5. ASSUME NEW q \in Requests, EnterSection(q) PROVE DriversMatch'
  <2>0. stage \in [Requests -> Stages] /\ section \in Section /\ Nobody \notin Requests
         /\ lease \in [Requests -> [member : Members \cup {NoMember}, phase : Phases]] /\ DriversMatch /\ QueueValues
    BY AdmissionAssumption DEF Shape, OtherValues
  <2>1. UNCHANGED queueVars /\ Waiting' = Waiting
    BY <1>5, QueueKept DEF EnterSection, queueVars, Change, Subscribe
  <2>9. QED
    BY <1>5, <2>0, <2>1 DEF EnterSection, DriversMatch, Guarded, AboutToSleep, Asleep, MoveTo
<1>6. ASSUME NEW q \in Requests, Scan(q) PROVE DriversMatch'
  <2>0. stage \in [Requests -> Stages] /\ section \in Section /\ Nobody \notin Requests
         /\ lease \in [Requests -> [member : Members \cup {NoMember}, phase : Phases]] /\ DriversMatch /\ QueueValues
    BY AdmissionAssumption DEF Shape, OtherValues
  <2>1. UNCHANGED queueVars /\ Waiting' = Waiting
    BY <1>6, QueueKept DEF Scan, queueVars, Change, Subscribe
  <2>9. QED
    BY <1>6, <2>0, <2>1 DEF Scan, DriversMatch, Guarded, AboutToSleep, Asleep, MoveTo
<1>7. ASSUME NEW q \in Requests, Grant(q) PROVE DriversMatch'
  <2>0. stage \in [Requests -> Stages] /\ section \in Section /\ Nobody \notin Requests
         /\ lease \in [Requests -> [member : Members \cup {NoMember}, phase : Phases]] /\ DriversMatch /\ QueueValues
    BY AdmissionAssumption DEF Shape, OtherValues
  <2>1. Waiting' = Waiting
    BY <1>7, <2>0, ServeStep DEF Grant
  <2>9. QED
    BY <1>7, <2>0, <2>1 DEF Grant, DriversMatch, Guarded, AboutToSleep, Asleep, MoveTo, FreeSection
<1>8. ASSUME NEW q \in Requests, FindNothing(q) PROVE DriversMatch'
  <2>0. stage \in [Requests -> Stages] /\ section \in Section /\ Nobody \notin Requests
         /\ lease \in [Requests -> [member : Members \cup {NoMember}, phase : Phases]] /\ DriversMatch /\ QueueValues
    BY AdmissionAssumption DEF Shape, OtherValues
  <2>1. \/ /\ stage' = [stage EXCEPT ![q] = "unserved"] /\ Waiting' = Waiting \cup {q}
        \/ /\ stage' = [stage EXCEPT ![q] = "leaving"] /\ Waiting' = Waiting
    BY <1>8, <2>0, RegisterStep DEF FindNothing
  <2>9. QED
    BY <1>8, <2>0, <2>1 DEF FindNothing, DriversMatch, Guarded, AboutToSleep, Asleep, MoveTo, FreeSection
<1>9. ASSUME NEW q \in Requests, Yield(q) PROVE DriversMatch'
  <2>0. stage \in [Requests -> Stages] /\ section \in Section /\ Nobody \notin Requests
         /\ lease \in [Requests -> [member : Members \cup {NoMember}, phase : Phases]] /\ DriversMatch /\ QueueValues
    BY AdmissionAssumption DEF Shape, OtherValues
  <2>1. \/ /\ stage' = [stage EXCEPT ![q] = "deferring"] /\ Waiting' = Waiting \cup {q}
        \/ /\ stage' = [stage EXCEPT ![q] = "leaving"] /\ Waiting' = Waiting
    BY <1>9, <2>0, RegisterStep DEF Yield
  <2>9. QED
    BY <1>9, <2>0, <2>1 DEF Yield, DriversMatch, Guarded, AboutToSleep, Asleep, MoveTo, FreeSection
<1>10. ASSUME NEW q \in Requests, FallAsleep(q) PROVE DriversMatch'
  <2>0. stage \in [Requests -> Stages] /\ section \in Section /\ Nobody \notin Requests
         /\ lease \in [Requests -> [member : Members \cup {NoMember}, phase : Phases]] /\ DriversMatch /\ QueueValues
    BY AdmissionAssumption DEF Shape, OtherValues
  <2>1. UNCHANGED queueVars /\ Waiting' = Waiting
    BY <1>10, QueueKept DEF FallAsleep, queueVars, Change, Subscribe
  <2>9. QED
    BY <1>10, <2>0, <2>1 DEF FallAsleep, DriversMatch, Guarded, AboutToSleep, Asleep, MoveTo
<1>11. ASSUME NEW q \in Requests, ReturnLease(q) PROVE DriversMatch'
  <2>0. stage \in [Requests -> Stages] /\ section \in Section /\ Nobody \notin Requests
         /\ lease \in [Requests -> [member : Members \cup {NoMember}, phase : Phases]] /\ DriversMatch /\ QueueValues
    BY AdmissionAssumption DEF Shape, OtherValues
  <2>1. Waiting' = Waiting \ {q}
    BY <1>11, <2>0, DropStep DEF ReturnLease
  <2>9. QED
    BY <1>11, <2>0, <2>1 DEF ReturnLease, DriversMatch, Guarded, AboutToSleep, Asleep, MoveTo
<1>12. ASSUME NEW q \in Requests, ReturnNothing(q) PROVE DriversMatch'
  <2>0. stage \in [Requests -> Stages] /\ section \in Section /\ Nobody \notin Requests
         /\ lease \in [Requests -> [member : Members \cup {NoMember}, phase : Phases]] /\ DriversMatch /\ QueueValues
    BY AdmissionAssumption DEF Shape, OtherValues
  <2>1. Waiting' = Waiting \ {q}
    BY <1>12, <2>0, DropStep DEF ReturnNothing
  <2>9. QED
    BY <1>12, <2>0, <2>1 DEF ReturnNothing, DriversMatch, Guarded, AboutToSleep, Asleep, MoveTo
<1>13. ASSUME NEW q \in Requests, BeginRecovery(q) PROVE DriversMatch'
  <2>0. stage \in [Requests -> Stages] /\ section \in Section /\ Nobody \notin Requests
         /\ lease \in [Requests -> [member : Members \cup {NoMember}, phase : Phases]] /\ DriversMatch /\ QueueValues
    BY AdmissionAssumption DEF Shape, OtherValues
  <2>1. UNCHANGED queueVars /\ Waiting' = Waiting
    BY <1>13, QueueKept DEF BeginRecovery, queueVars, Change, Subscribe
  <2>9. QED
    BY <1>13, <2>0, <2>1 DEF BeginRecovery, DriversMatch, Guarded, AboutToSleep, Asleep, MoveTo
<1>14. ASSUME NEW q \in Requests, Enlist(q) PROVE DriversMatch'
  <2>0. stage \in [Requests -> Stages] /\ section \in Section /\ Nobody \notin Requests
         /\ lease \in [Requests -> [member : Members \cup {NoMember}, phase : Phases]] /\ DriversMatch /\ QueueValues
    BY AdmissionAssumption DEF Shape, OtherValues
  <2>1. \/ /\ stage' = [stage EXCEPT ![q] = "recovering"] /\ Waiting' = Waiting \cup {q}
        \/ /\ stage' = [stage EXCEPT ![q] = "gone"] /\ Waiting' = Waiting
    <3>1. CASE Room(q)
      BY <1>14, <2>0, <3>1, InsertStep DEF Enlist, MoveTo
    <3>2. CASE ~Room(q)
      BY <1>14, <3>2, QueueKept DEF Enlist, MoveTo
    <3>3. QED
      BY <3>1, <3>2
  <2>9. QED
    BY <1>14, <2>0, <2>1 DEF Enlist, DriversMatch, Guarded, AboutToSleep, Asleep, MoveTo
<1>15. ASSUME NEW q \in Requests, EndRecovery(q) PROVE DriversMatch'
  <2>0. stage \in [Requests -> Stages] /\ section \in Section /\ Nobody \notin Requests
         /\ lease \in [Requests -> [member : Members \cup {NoMember}, phase : Phases]] /\ DriversMatch /\ QueueValues
    BY AdmissionAssumption DEF Shape, OtherValues
  <2>1. Waiting' = Waiting \ {q}
    BY <1>15, <2>0, DropStep DEF EndRecovery
  <2>9. QED
    BY <1>15, <2>0, <2>1 DEF EndRecovery, DriversMatch, Guarded, AboutToSleep, Asleep, MoveTo
<1>16. ASSUME NEW q \in Requests, GiveUp(q) PROVE DriversMatch'
  <2>0. stage \in [Requests -> Stages] /\ section \in Section /\ Nobody \notin Requests
         /\ lease \in [Requests -> [member : Members \cup {NoMember}, phase : Phases]] /\ DriversMatch /\ QueueValues
    BY AdmissionAssumption DEF Shape, OtherValues
  <2>1. UNCHANGED queueVars /\ Waiting' = Waiting
    BY <1>16, QueueKept DEF GiveUp, queueVars, Change, Subscribe
  <2>9. QED
    BY <1>16, <2>0, <2>1 DEF GiveUp, DriversMatch, Guarded, AboutToSleep, Asleep, MoveTo
<1>17. ASSUME NEW q \in Requests, Settle(q) PROVE DriversMatch'
  <2>0. stage \in [Requests -> Stages] /\ section \in Section /\ Nobody \notin Requests
         /\ lease \in [Requests -> [member : Members \cup {NoMember}, phase : Phases]] /\ DriversMatch /\ QueueValues
    BY AdmissionAssumption DEF Shape, OtherValues
  <2>1. UNCHANGED queueVars /\ Waiting' = Waiting
    BY <1>17, QueueKept DEF Settle, queueVars, Change, Subscribe
  <2>9. QED
    BY <1>17, <2>0, <2>1 DEF Settle, DriversMatch, Guarded, AboutToSleep, Asleep, MoveTo
<1>18. ASSUME NEW q \in Requests, ReleaseReservation(q) PROVE DriversMatch'
  <2>0. stage \in [Requests -> Stages] /\ section \in Section /\ Nobody \notin Requests
         /\ lease \in [Requests -> [member : Members \cup {NoMember}, phase : Phases]] /\ DriversMatch /\ QueueValues
    BY AdmissionAssumption DEF Shape, OtherValues
  <2>1. UNCHANGED queueVars /\ Waiting' = Waiting
    BY <1>18, QueueKept DEF ReleaseReservation, queueVars, Change, Subscribe
  <2>9. QED
    BY <1>18, <2>0, <2>1 DEF ReleaseReservation, DriversMatch, Guarded, AboutToSleep, Asleep, MoveTo
<1>19. ASSUME NEW q \in Requests, AnnounceRelease(q) PROVE DriversMatch'
  <2>0. stage \in [Requests -> Stages] /\ section \in Section /\ Nobody \notin Requests
         /\ lease \in [Requests -> [member : Members \cup {NoMember}, phase : Phases]] /\ DriversMatch /\ QueueValues
    BY AdmissionAssumption DEF Shape, OtherValues
  <2>1. UNCHANGED queueVars /\ Waiting' = Waiting
    BY <1>19, QueueKept DEF AnnounceRelease, queueVars, Change, Subscribe
  <2>9. QED
    BY <1>19, <2>0, <2>1 DEF AnnounceRelease, DriversMatch, Guarded, AboutToSleep, Asleep, MoveTo
<1>20. ASSUME NEW q \in Requests, Arrive(q) PROVE DriversMatch'
  <2>0. stage \in [Requests -> Stages] /\ section \in Section /\ Nobody \notin Requests
         /\ lease \in [Requests -> [member : Members \cup {NoMember}, phase : Phases]] /\ DriversMatch /\ QueueValues
    BY AdmissionAssumption DEF Shape, OtherValues
  <2>1. UNCHANGED queueVars /\ Waiting' = Waiting
    BY <1>20, QueueKept DEF Arrive, queueVars, Change, Subscribe
  <2>9. QED
    BY <1>20, <2>0, <2>1 DEF Arrive, DriversMatch, Guarded, AboutToSleep, Asleep, MoveTo
<1>21. ASSUME NEW q \in Requests, Cancel(q) PROVE DriversMatch'
  <2>0. stage \in [Requests -> Stages] /\ section \in Section /\ Nobody \notin Requests
         /\ lease \in [Requests -> [member : Members \cup {NoMember}, phase : Phases]] /\ DriversMatch /\ QueueValues
    BY AdmissionAssumption DEF Shape, OtherValues
  <2>1. Waiting' = Waiting \ {q}
    BY <1>21, <2>0, DropStep DEF Cancel
  <2>9. QED
    BY <1>21, <2>0, <2>1 DEF Cancel, DriversMatch, Guarded, AboutToSleep, Asleep, MoveTo
<1>22. ASSUME NEW q \in Requests, UseUpWait(q) PROVE DriversMatch'
  <2>0. stage \in [Requests -> Stages] /\ section \in Section /\ Nobody \notin Requests
         /\ lease \in [Requests -> [member : Members \cup {NoMember}, phase : Phases]] /\ DriversMatch /\ QueueValues
    BY AdmissionAssumption DEF Shape, OtherValues
  <2>1. UNCHANGED queueVars /\ Waiting' = Waiting
    BY <1>22, QueueKept DEF UseUpWait, queueVars, Change, Subscribe
  <2>9. QED
    BY <1>22, <2>0, <2>1 DEF UseUpWait, DriversMatch, Guarded, AboutToSleep, Asleep, MoveTo
<1>23. ASSUME NEW m \in Members, EndCooldown(m) PROVE DriversMatch'
  <2>0. stage \in [Requests -> Stages] /\ section \in Section /\ Nobody \notin Requests
         /\ lease \in [Requests -> [member : Members \cup {NoMember}, phase : Phases]] /\ DriversMatch /\ QueueValues
    BY AdmissionAssumption DEF Shape, OtherValues
  <2>1. UNCHANGED queueVars /\ Waiting' = Waiting
    BY <1>23, QueueKept DEF EndCooldown, queueVars, Change, Subscribe
  <2>9. QED
    BY <1>23, <2>0, <2>1 DEF EndCooldown, DriversMatch, Guarded, AboutToSleep, Asleep, MoveTo
<1>24. ASSUME NEW m \in Members, NEW s \in {"up", "blocked"}, UpdateMember(m, s) PROVE DriversMatch'
  <2>0. stage \in [Requests -> Stages] /\ section \in Section /\ Nobody \notin Requests
         /\ lease \in [Requests -> [member : Members \cup {NoMember}, phase : Phases]] /\ DriversMatch /\ QueueValues
    BY AdmissionAssumption DEF Shape, OtherValues
  <2>1. UNCHANGED queueVars /\ Waiting' = Waiting
    BY <1>24, QueueKept DEF UpdateMember, queueVars, Change, Subscribe
  <2>9. QED
    BY <1>24, <2>0, <2>1 DEF UpdateMember, DriversMatch, Guarded, AboutToSleep, Asleep, MoveTo, Change
<1>25. ASSUME NEW qs \in HiddenSets, SetHidden(qs) PROVE DriversMatch'
  <2>0. stage \in [Requests -> Stages] /\ section \in Section /\ Nobody \notin Requests
         /\ lease \in [Requests -> [member : Members \cup {NoMember}, phase : Phases]] /\ DriversMatch /\ QueueValues
    BY AdmissionAssumption DEF Shape, OtherValues
  <2>1. UNCHANGED queueVars /\ Waiting' = Waiting
    BY <1>25, QueueKept DEF SetHidden, queueVars, Change, Subscribe
  <2>9. QED
    BY <1>25, <2>0, <2>1 DEF SetHidden, DriversMatch, Guarded, AboutToSleep, Asleep, MoveTo, Change
<1>26. ASSUME NEW b \in BOOLEAN, SetRecoveryEnabled(b) PROVE DriversMatch'
  <2>0. stage \in [Requests -> Stages] /\ section \in Section /\ Nobody \notin Requests
         /\ lease \in [Requests -> [member : Members \cup {NoMember}, phase : Phases]] /\ DriversMatch /\ QueueValues
    BY AdmissionAssumption DEF Shape, OtherValues
  <2>1. UNCHANGED queueVars /\ Waiting' = Waiting
    BY <1>26, QueueKept DEF SetRecoveryEnabled, queueVars, Change, Subscribe
  <2>9. QED
    BY <1>26, <2>0, <2>1 DEF SetRecoveryEnabled, DriversMatch, Guarded, AboutToSleep, Asleep, MoveTo, Change
<1>27. CASE RetireForReplacement
  <2>0. stage \in [Requests -> Stages] /\ section \in Section /\ Nobody \notin Requests
         /\ lease \in [Requests -> [member : Members \cup {NoMember}, phase : Phases]] /\ DriversMatch /\ QueueValues
    BY AdmissionAssumption DEF Shape, OtherValues
  <2>1. UNCHANGED queueVars /\ Waiting' = Waiting
    BY <1>27, QueueKept DEF RetireForReplacement, queueVars, Change, Subscribe
  <2>9. QED
    BY <1>27, <2>0, <2>1 DEF RetireForReplacement, DriversMatch, Guarded, AboutToSleep, Asleep, MoveTo, Change
<1>28. ASSUME NEW channel \in Channels, Announce(channel) PROVE DriversMatch'
  <2>0. stage \in [Requests -> Stages] /\ section \in Section /\ Nobody \notin Requests
         /\ lease \in [Requests -> [member : Members \cup {NoMember}, phase : Phases]] /\ DriversMatch /\ QueueValues
    BY AdmissionAssumption DEF Shape, OtherValues
  <2>1. UNCHANGED queueVars /\ Waiting' = Waiting
    BY <1>28, QueueKept DEF Announce, queueVars, Change, Subscribe
  <2>9. QED
    BY <1>28, <2>0, <2>1 DEF Announce, DriversMatch, Guarded, AboutToSleep, Asleep, MoveTo
<1>29. QED
  BY <1>1, <1>2, <1>3, <1>4, <1>5, <1>6, <1>7, <1>8, <1>9, <1>10, <1>11, <1>12, <1>13,
     <1>14, <1>15, <1>16, <1>17, <1>18, <1>19, <1>20, <1>21, <1>22, <1>23, <1>24,
     <1>25, <1>26, <1>27, <1>28
     DEF Next, Driving, Enter, Decide, Return, AwaitRecovery, EndLease, Configuring

-----------------------------------------------------------------------------
(* The shape is an invariant *)

\* An empty queue and idle drivers have the shape.
LEMMA ShapeInit == Init => Shape
<1> SUFFICES ASSUME Init PROVE Shape
  OBVIOUS
<1>1. queue = <<>> /\ principals = <<>> /\ Waiting = {}
  BY DEF Init, Waiting
<1>2. QueueValues
  <2>1. \A p : OfPrincipal(p) = {}
    BY <1>1 DEF OfPrincipal
  <2>2. \A p \in Principals : Cardinality(OfPrincipal(p)) <= MaxPerPrincipal
    <3>1. Cardinality({}) = 0 /\ MaxPerPrincipal \in Nat
      BY FS_EmptySet, AdmissionAssumption
    <3>2. \A p \in Principals : Cardinality(OfPrincipal(p)) = 0
      BY <2>1, <3>1
    <3>3. QED
      BY <3>1, <3>2
  <2>3. queue \in Seq(Waiter) /\ principals \in Seq(Principals) /\ Len(queue) <= MaxQueued
    BY <1>1, AdmissionAssumption
  <2>4. DOMAIN queue = {} /\ DOMAIN principals = {}
    BY <1>1
  <2>5. QED
    BY <1>1, <2>2, <2>3, <2>4 DEF QueueValues, Distinct
<1>3. OtherValues
  <2>1. section \in Section
    BY DEF Init, Section, FreeSection
  <2>2. lease \in [Requests -> [member : Members \cup {NoMember}, phase : Phases]]
    BY DEF Init, Phases
  <2>3. stage \in [Requests -> Stages] /\ status \in [Members -> Statuses] /\ stopped \in [Requests -> Stops]
    BY DEF Init, Stages, Statuses, Stops
  <2>4. passed \in [Principals -> [Principals -> 0..2]]
    BY DEF Init
  <2>5. behind \in [Requests -> SUBSET Members] /\ due \in [Requests -> SUBSET Members]
    BY DEF Init
  <2>6. arrivals \in 0..MaxArrivals /\ changes \in 0..MaxChanges
    BY AdmissionAssumption DEF Init
  <2>7. QED
    BY <2>1, <2>2, <2>3, <2>4, <2>5, <2>6 DEF Init, OtherValues
<1>4. DriversMatch
  BY <1>1, AdmissionAssumption DEF Init, DriversMatch, FreeSection, AboutToSleep, Asleep
<1>5. QED
  BY <1>2, <1>3, <1>4 DEF Shape

\* The queue, its turn order, its critical section and the leases agree with the
\* drivers of the requests, whatever the driver, the pool and the configuration do.
THEOREM ShapeHolds == Spec => []Shape
<1>1. Shape /\ [Next]_vars => Shape'
  BY QueueStep, OtherStep, DriversStep DEF Shape
<1>2. QED
  BY <1>1, ShapeInit, PTL DEF Spec

\* The state is well typed, the queue within its limits in total and for each principal.
THEOREM TypeCorrect == Spec => []TypeOK
<1>1. Shape => TypeOK
  BY DEF Shape, QueueValues, OtherValues, TypeOK
<1>2. QED
  BY <1>1, ShapeHolds, PTL

\* No waiter without a driver, no sleeping driver without a place, and the turn
\* order lists exactly the principals that have a waiter.
THEOREM QueueMatches == Spec => []QueueMatchesDrivers
<1>1. Shape => QueueMatchesDrivers
  BY DEF Shape, QueueValues, DriversMatch, QueueMatchesDrivers, Guarded
<1>2. QED
  BY <1>1, ShapeHolds, PTL

-----------------------------------------------------------------------------
(* No wake-up for room is lost *)

\* Leases that begin take room and never make any.
Shrinking ==
  /\ UNCHANGED <<status, retired>>
  /\ \A q \in Requests : lease'[q] = lease[q] \/ (lease[q].phase = "none" /\ lease'[q].phase = "held")

\* A lease that begins makes no room on any member.
LEMMA RoomShrinks ==
  ASSUME Shape, Shrinking, NEW m \in Members
  PROVE  HasRoom(m)' => HasRoom(m)
<1>1. Capacity[m] \in Nat /\ IsFiniteSet(Requests)
  BY AdmissionAssumption
<1>2. Leased(m)' \subseteq Requests /\ Reserved(m)' \subseteq Requests
  BY DEF Leased, Reserved
<1>3. Leased(m) \in SUBSET (Leased(m)') /\ Reserved(m) \in SUBSET (Reserved(m)')
  BY DEF Shrinking, Leased, Reserved
<1>4. /\ Cardinality(Leased(m)) \in Nat /\ Cardinality(Leased(m)') \in Nat
      /\ Cardinality(Leased(m)) <= Cardinality(Leased(m)')
  <2>1. IsFiniteSet(Leased(m)')
    BY <1>1, <1>2, FS_Subset
  <2>2. IsFiniteSet(Leased(m)) /\ Cardinality(Leased(m)) <= Cardinality(Leased(m)')
    BY <1>3, <2>1, FS_Subset
  <2>3. QED
    BY <2>1, <2>2, FS_CardinalityType
<1>5. /\ Cardinality(Reserved(m)) \in Nat /\ Cardinality(Reserved(m)') \in Nat
      /\ Cardinality(Reserved(m)) <= Cardinality(Reserved(m)')
  <2>1. IsFiniteSet(Reserved(m)')
    BY <1>1, <1>2, FS_Subset
  <2>2. IsFiniteSet(Reserved(m)) /\ Cardinality(Reserved(m)) <= Cardinality(Reserved(m)')
    BY <1>3, <2>1, FS_Subset
  <2>3. QED
    BY <2>1, <2>2, FS_CardinalityType
<1>6. QED
  BY <1>1, <1>4, <1>5 DEF HasRoom, EngineFree

\* So it makes no member ready for anybody.
LEMMA ReadyShrinks ==
  ASSUME Shape, Shrinking, NEW q \in Requests, NEW u
  PROVE  \A m : m \in Eligible[q] /\ Up(m, u)' /\ HasRoom(m)' => m \in ReadyMembers(q, u)
<1>1. Eligible[q] \subseteq Members
  BY AdmissionAssumption
<1>2. \A m : Up(m, u)' => Up(m, u)
  BY DEF Shrinking, Up
<1>3. QED
  BY <1>1, <1>2, RoomShrinks DEF ReadyMembers

\* So a driver that knew there was no room for it still knows.
LEMMA InformedKept ==
  ASSUME Shape, Shrinking, NEW q \in Requests, Informed(q),
         stage'[q] = stage[q], behind'[q] = behind[q], due'[q] = due[q]
  PROVE  Informed(q)'
<1>1. ReadyMembers(q, behind[q]) = {} => ReadyMembers(q, behind[q])' = {}
  BY ReadyShrinks DEF ReadyMembers
<1>2. ReadyMembers(q, {}) = {} => ReadyMembers(q, {})' = {}
  BY ReadyShrinks DEF ReadyMembers
<1>3. UNCHANGED <<status, retired>>
  BY DEF Shrinking
<1>4. QED
  BY <1>1, <1>2, <1>3 DEF Informed

\* A step that keeps the pool from getting better only has to tell the drivers
\* it sends to sleep what they need to know.
LEMMA WakeKept ==
  ASSUME Shape, WakeInv, Shrinking, announcing' = announcing,
         \A q \in Requests \ woken' : stage'[q] \in {"unserved", "sleeping"} =>
            \/ /\ q \notin woken /\ stage'[q] = stage[q]
               /\ behind'[q] = behind[q] /\ due'[q] = due[q]
            \/ Calm => Informed(q)'
  PROVE  WakeInv'
<1>1. Calm' => Calm
  BY DEF Calm, Shrinking
<1>2. ASSUME NEW q \in Requests \ woken', Calm PROVE Informed(q)'
  <2>1. CASE stage'[q] \notin {"unserved", "sleeping"}
    BY <2>1 DEF Informed
  <2>2. CASE /\ q \notin woken /\ stage'[q] = stage[q]
             /\ behind'[q] = behind[q] /\ due'[q] = due[q]
    BY <1>2, <2>2, InformedKept DEF WakeInv
  <2>3. QED
    BY <1>2, <2>1, <2>2
<1>3. QED
  BY <1>1, <1>2 DEF WakeInv

\* Every step keeps the sleepers informed.
LEMMA WakeStep ==
  ASSUME Shape, WakeInv, [Next]_vars
  PROVE  WakeInv'
<1>1. CASE UNCHANGED vars
  <2>1. Shrinking /\ announcing' = announcing
    BY <1>1 DEF vars, Shrinking
  <2>2. \A r \in Requests \ woken' : stage'[r] \in {"unserved", "sleeping"} =>
          r \notin woken /\ stage'[r] = stage[r] /\ behind'[r] = behind[r] /\ due'[r] = due[r]
    BY <1>1 DEF vars
  <2>3. QED
    BY <2>1, <2>2, WakeKept
<1>2. ASSUME NEW q \in Requests, Admit(q) PROVE WakeInv'
  <2>0. stage \in [Requests -> Stages] /\ behind \in [Requests -> SUBSET Members] /\ due \in [Requests -> SUBSET Members]
        /\ lease \in [Requests -> [member : Members \cup {NoMember}, phase : Phases]] /\ woken \subseteq Requests
    BY DEF Shape, OtherValues
  <2>1. Shrinking /\ announcing' = announcing
    BY <1>2, <2>0 DEF Admit, Shrinking, poolVars, Change, Subscribe
  <2>2. \A r \in Requests \ woken' : stage'[r] \in {"unserved", "sleeping"} =>
          r \notin woken /\ stage'[r] = stage[r] /\ behind'[r] = behind[r] /\ due'[r] = due[r]
    BY <1>2, <2>0 DEF Admit, MoveTo, sleepVars, Subscribe
  <2>3. QED
    BY <2>1, <2>2, WakeKept
<1>3. ASSUME NEW q \in Requests, Resume(q) PROVE WakeInv'
  <2>0. stage \in [Requests -> Stages] /\ behind \in [Requests -> SUBSET Members] /\ due \in [Requests -> SUBSET Members]
        /\ lease \in [Requests -> [member : Members \cup {NoMember}, phase : Phases]] /\ woken \subseteq Requests
    BY DEF Shape, OtherValues
  <2>1. Shrinking /\ announcing' = announcing
    BY <1>3, <2>0 DEF Resume, Shrinking, poolVars, Change, Subscribe
  <2>2. \A r \in Requests \ woken' : stage'[r] \in {"unserved", "sleeping"} =>
          r \notin woken /\ stage'[r] = stage[r] /\ behind'[r] = behind[r] /\ due'[r] = due[r]
    BY <1>3, <2>0 DEF Resume, MoveTo, sleepVars, Subscribe
  <2>3. QED
    BY <2>1, <2>2, WakeKept
<1>4. ASSUME NEW q \in Requests, EnterSaturated(q) PROVE WakeInv'
  <2>0. stage \in [Requests -> Stages] /\ behind \in [Requests -> SUBSET Members] /\ due \in [Requests -> SUBSET Members]
        /\ lease \in [Requests -> [member : Members \cup {NoMember}, phase : Phases]] /\ woken \subseteq Requests
    BY DEF Shape, OtherValues
  <2>1. Shrinking /\ announcing' = announcing
    BY <1>4, <2>0 DEF EnterSaturated, Shrinking, poolVars
  <2>2. \A r \in Requests : stage'[r] = stage[r] \/ stage'[r] = "leaving"
                          \/ (r = q /\ stage'[q] = "unserved" /\ ReadyMembers(q, behind[q]) = {})
    <3>1. RegisterOrLeave(q, CapacityBlocked(q), "unserved")
      BY <1>4 DEF EnterSaturated
    <3>2. ReadyMembers(q, behind[q]) = {}
      BY <1>4, AdmissionAssumption DEF EnterSaturated, Saturated, AllReserved, ReadyMembers, HasRoom
    <3>3. QED
      BY <2>0, <3>1, <3>2, RegisterStep DEF Shape
  <2>3. UNCHANGED <<behind, due, woken>>
    BY <1>4 DEF EnterSaturated, sleepVars
  <2>4. \A r \in Requests \ woken' : stage'[r] \in {"unserved", "sleeping"} =>
            \/ /\ r \notin woken /\ stage'[r] = stage[r]
               /\ behind'[r] = behind[r] /\ due'[r] = due[r]
            \/ Calm => Informed(r)'
    <3>1. ReadyMembers(q, behind[q]) = {} => ReadyMembers(q, behind[q])' = {}
      BY <2>1, <2>3, ReadyShrinks DEF ReadyMembers
    <3>2. stage'[q] = "unserved" /\ ReadyMembers(q, behind[q]) = {} => Informed(q)'
      BY <3>1 DEF Informed
    <3>3. QED
      BY <2>2, <2>3, <3>2
  <2>5. QED
    BY <2>1, <2>4, WakeKept
<1>5. ASSUME NEW q \in Requests, EnterSection(q) PROVE WakeInv'
  <2>0. stage \in [Requests -> Stages] /\ behind \in [Requests -> SUBSET Members] /\ due \in [Requests -> SUBSET Members]
        /\ lease \in [Requests -> [member : Members \cup {NoMember}, phase : Phases]] /\ woken \subseteq Requests
    BY DEF Shape, OtherValues
  <2>1. Shrinking /\ announcing' = announcing
    BY <1>5, <2>0 DEF EnterSection, Shrinking, poolVars, Change
  <2>2. \A r \in Requests \ woken' : stage'[r] \in {"unserved", "sleeping"} =>
          r \notin woken /\ stage'[r] = stage[r] /\ behind'[r] = behind[r] /\ due'[r] = due[r]
    BY <1>5, <2>0 DEF EnterSection, MoveTo, sleepVars
  <2>3. QED
    BY <2>1, <2>2, WakeKept
<1>6. ASSUME NEW q \in Requests, Scan(q) PROVE WakeInv'
  <2>0. stage \in [Requests -> Stages] /\ behind \in [Requests -> SUBSET Members] /\ due \in [Requests -> SUBSET Members]
        /\ lease \in [Requests -> [member : Members \cup {NoMember}, phase : Phases]] /\ woken \subseteq Requests
    BY DEF Shape, OtherValues
  <2>1. Shrinking /\ announcing' = announcing
    BY <1>6, <2>0 DEF Scan, Shrinking, poolVars, Change
  <2>2. \A r \in Requests \ woken' : stage'[r] \in {"unserved", "sleeping"} =>
          r \notin woken /\ stage'[r] = stage[r] /\ behind'[r] = behind[r] /\ due'[r] = due[r]
    BY <1>6, <2>0 DEF Scan, MoveTo, sleepVars
  <2>3. QED
    BY <2>1, <2>2, WakeKept
<1>7. ASSUME NEW q \in Requests, Grant(q) PROVE WakeInv'
  <2>0. stage \in [Requests -> Stages] /\ behind \in [Requests -> SUBSET Members] /\ due \in [Requests -> SUBSET Members]
        /\ lease \in [Requests -> [member : Members \cup {NoMember}, phase : Phases]] /\ woken \subseteq Requests
    BY DEF Shape, OtherValues
  <2>1. lease[q].phase = "none"
    BY <1>7, <2>0 DEF Grant, Shape, DriversMatch, Phases
  <2>2. \E m \in ReadyMembers(q, behind[q]) : lease' = [lease EXCEPT ![q] = [member |-> m, phase |-> "held"]]
    BY <1>7 DEF Grant
  <2>3. lease'[q].phase = "held" /\ \A r \in Requests \ {q} : lease'[r] = lease[r]
    BY <2>0, <2>2
  <2>4. Shrinking /\ announcing' = announcing
    BY <1>7, <2>1, <2>3 DEF Grant, Shrinking, poolVars
  <2>5. \A r \in Requests \ woken' : stage'[r] \in {"unserved", "sleeping"} =>
          r \notin woken /\ stage'[r] = stage[r] /\ behind'[r] = behind[r] /\ due'[r] = due[r]
    BY <1>7, <2>0 DEF Grant, MoveTo, sleepVars
  <2>6. QED
    BY <2>4, <2>5, WakeKept
<1>8. ASSUME NEW q \in Requests, FindNothing(q) PROVE WakeInv'
  <2>0. stage \in [Requests -> Stages] /\ behind \in [Requests -> SUBSET Members] /\ due \in [Requests -> SUBSET Members]
        /\ lease \in [Requests -> [member : Members \cup {NoMember}, phase : Phases]] /\ woken \subseteq Requests
    BY DEF Shape, OtherValues
  <2>1. Shrinking /\ announcing' = announcing
    BY <1>8, <2>0 DEF FindNothing, Shrinking, poolVars
  <2>2. \A r \in Requests : stage'[r] = stage[r] \/ stage'[r] = "leaving"
                          \/ (r = q /\ stage'[q] = "unserved" /\ ReadyMembers(q, behind[q]) = {})
    <3>1. RegisterOrLeave(q, CanDispatch(q) /\ q \notin hidden /\ CapacityBlocked(q), "unserved")
      BY <1>8 DEF FindNothing
    <3>2. CanDispatch(q) /\ q \notin hidden => ReadyMembers(q, behind[q]) = {}
      BY <1>8 DEF FindNothing
    <3>3. \/ /\ CanDispatch(q) /\ q \notin hidden /\ CapacityBlocked(q)
             /\ stage' = [stage EXCEPT ![q] = "unserved"]
          \/ stage' = [stage EXCEPT ![q] = "leaving"]
      BY <3>1, RegisterStep DEF Shape
    <3>4. QED
      BY <2>0, <3>2, <3>3
  <2>3. UNCHANGED <<behind, due, woken>>
    BY <1>8 DEF FindNothing, sleepVars
  <2>4. \A r \in Requests \ woken' : stage'[r] \in {"unserved", "sleeping"} =>
            \/ /\ r \notin woken /\ stage'[r] = stage[r]
               /\ behind'[r] = behind[r] /\ due'[r] = due[r]
            \/ Calm => Informed(r)'
    <3>1. ReadyMembers(q, behind[q]) = {} => ReadyMembers(q, behind[q])' = {}
      BY <2>1, <2>3, ReadyShrinks DEF ReadyMembers
    <3>2. stage'[q] = "unserved" /\ ReadyMembers(q, behind[q]) = {} => Informed(q)'
      BY <3>1 DEF Informed
    <3>3. QED
      BY <2>2, <2>3, <3>2
  <2>5. QED
    BY <2>1, <2>4, WakeKept
<1>9. ASSUME NEW q \in Requests, Yield(q) PROVE WakeInv'
  <2>0. stage \in [Requests -> Stages] /\ behind \in [Requests -> SUBSET Members] /\ due \in [Requests -> SUBSET Members]
        /\ lease \in [Requests -> [member : Members \cup {NoMember}, phase : Phases]] /\ woken \subseteq Requests
    BY DEF Shape, OtherValues
  <2>1. Shrinking /\ announcing' = announcing
    BY <1>9, <2>0 DEF Yield, Shrinking, poolVars
  <2>2. \A r \in Requests : stage'[r] = stage[r] \/ stage'[r] \in {"deferring", "leaving"}
    BY <1>9, <2>0, RegisterStep DEF Yield, Shape
  <2>3. \A r \in Requests \ woken' : stage'[r] \in {"unserved", "sleeping"} =>
          r \notin woken /\ stage'[r] = stage[r] /\ behind'[r] = behind[r] /\ due'[r] = due[r]
    BY <1>9, <2>0, <2>2 DEF Yield, sleepVars
  <2>4. QED
    BY <2>1, <2>3, WakeKept
<1>10. ASSUME NEW q \in Requests, FallAsleep(q) PROVE WakeInv'
  <2>0. stage \in [Requests -> Stages] /\ behind \in [Requests -> SUBSET Members] /\ due \in [Requests -> SUBSET Members]
        /\ lease \in [Requests -> [member : Members \cup {NoMember}, phase : Phases]] /\ woken \subseteq Requests
    BY DEF Shape, OtherValues
  <2>1. Shrinking /\ announcing' = announcing
    BY <1>10, <2>0 DEF FallAsleep, Shrinking, poolVars
  <2>2. \A r \in Requests \ {q} : stage'[r] = stage[r] /\ behind'[r] = behind[r] /\ due'[r] = due[r]
    BY <1>10, <2>0 DEF FallAsleep, MoveTo
  <2>3. woken \subseteq woken' /\ (q \notin woken' => behind[q] \cap Eligible[q] = {})
    BY <1>10 DEF FallAsleep, FireTimer
  <2>4. stage'[q] = "sleeping" => stage[q] = "unserved"
    BY <1>10, <2>0 DEF FallAsleep, MoveTo, AboutToSleep
  <2>5. stage'[q] \in Asleep
    BY <1>10, <2>0 DEF FallAsleep, MoveTo, Asleep
  <2>6. ASSUME q \notin woken', Calm, stage'[q] = "sleeping" PROVE Informed(q)'
    <3>1. ReadyMembers(q, behind[q]) = {}
      BY <2>3, <2>4, <2>6 DEF WakeInv, Informed
    <3>2. ReadyMembers(q, {}) = {}
      BY <2>3, <2>6, <3>1 DEF ReadyMembers, Up
    <3>3. ReadyMembers(q, {})' = {}
      BY <2>1, <3>2, ReadyShrinks DEF ReadyMembers
    <3>4. due'[q] = Cooling(q) /\ UNCHANGED <<status, retired>>
      BY <1>10, <2>0 DEF FallAsleep, poolVars
    <3>5. QED
      BY <2>6, <3>3, <3>4 DEF Informed, Cooling
  <2>7. QED
    <3>1. \A r \in Requests \ woken' : stage'[r] \in {"unserved", "sleeping"} =>
            \/ /\ r \notin woken /\ stage'[r] = stage[r]
               /\ behind'[r] = behind[r] /\ due'[r] = due[r]
            \/ Calm => Informed(r)'
      BY <2>2, <2>3, <2>5, <2>6 DEF Asleep
    <3>2. QED
      BY <2>1, <3>1, WakeKept
<1>11. ASSUME NEW q \in Requests, ReturnLease(q) PROVE WakeInv'
  <2>0. stage \in [Requests -> Stages] /\ behind \in [Requests -> SUBSET Members] /\ due \in [Requests -> SUBSET Members]
        /\ lease \in [Requests -> [member : Members \cup {NoMember}, phase : Phases]] /\ woken \subseteq Requests
    BY DEF Shape, OtherValues
  <2>1. Shrinking /\ announcing' = announcing
    BY <1>11, <2>0 DEF ReturnLease, Shrinking, poolVars
  <2>2. woken \subseteq woken'
    BY <1>11, DropStep DEF ReturnLease, Shape
  <2>3. \A r \in Requests \ woken' : stage'[r] \in {"unserved", "sleeping"} =>
          r \notin woken /\ stage'[r] = stage[r] /\ behind'[r] = behind[r] /\ due'[r] = due[r]
    BY <1>11, <2>0, <2>2 DEF ReturnLease, MoveTo, sleepVars
  <2>4. QED
    BY <2>1, <2>3, WakeKept
<1>12. ASSUME NEW q \in Requests, ReturnNothing(q) PROVE WakeInv'
  <2>0. stage \in [Requests -> Stages] /\ behind \in [Requests -> SUBSET Members] /\ due \in [Requests -> SUBSET Members]
        /\ lease \in [Requests -> [member : Members \cup {NoMember}, phase : Phases]] /\ woken \subseteq Requests
    BY DEF Shape, OtherValues
  <2>1. Shrinking /\ announcing' = announcing
    BY <1>12, <2>0 DEF ReturnNothing, Shrinking, poolVars
  <2>2. woken \subseteq woken'
    BY <1>12, DropStep DEF ReturnNothing, Shape
  <2>3. \A r \in Requests \ woken' : stage'[r] \in {"unserved", "sleeping"} =>
          r \notin woken /\ stage'[r] = stage[r] /\ behind'[r] = behind[r] /\ due'[r] = due[r]
    BY <1>12, <2>0, <2>2 DEF ReturnNothing, MoveTo, sleepVars
  <2>4. QED
    BY <2>1, <2>3, WakeKept
<1>13. ASSUME NEW q \in Requests, BeginRecovery(q) PROVE WakeInv'
  <2>0. stage \in [Requests -> Stages] /\ behind \in [Requests -> SUBSET Members] /\ due \in [Requests -> SUBSET Members]
        /\ lease \in [Requests -> [member : Members \cup {NoMember}, phase : Phases]] /\ woken \subseteq Requests
    BY DEF Shape, OtherValues
  <2>1. Shrinking /\ announcing' = announcing
    BY <1>13, <2>0 DEF BeginRecovery, Shrinking, poolVars, Change
  <2>2. \A r \in Requests \ woken' : stage'[r] \in {"unserved", "sleeping"} =>
          r \notin woken /\ stage'[r] = stage[r] /\ behind'[r] = behind[r] /\ due'[r] = due[r]
    BY <1>13, <2>0 DEF BeginRecovery, MoveTo, sleepVars
  <2>3. QED
    BY <2>1, <2>2, WakeKept
<1>14. ASSUME NEW q \in Requests, Enlist(q) PROVE WakeInv'
  <2>0. stage \in [Requests -> Stages] /\ behind \in [Requests -> SUBSET Members] /\ due \in [Requests -> SUBSET Members]
        /\ lease \in [Requests -> [member : Members \cup {NoMember}, phase : Phases]] /\ woken \subseteq Requests
    BY DEF Shape, OtherValues
  <2>1. Shrinking /\ announcing' = announcing
    BY <1>14, <2>0 DEF Enlist, Shrinking, poolVars, Change
  <2>2. \A r \in Requests \ woken' : stage'[r] \in {"unserved", "sleeping"} =>
          r \notin woken /\ stage'[r] = stage[r] /\ behind'[r] = behind[r] /\ due'[r] = due[r]
    BY <1>14, <2>0 DEF Enlist, MoveTo, sleepVars
  <2>3. QED
    BY <2>1, <2>2, WakeKept
<1>15. ASSUME NEW q \in Requests, EndRecovery(q) PROVE WakeInv'
  <2>0. stage \in [Requests -> Stages] /\ behind \in [Requests -> SUBSET Members] /\ due \in [Requests -> SUBSET Members]
        /\ lease \in [Requests -> [member : Members \cup {NoMember}, phase : Phases]] /\ woken \subseteq Requests
    BY DEF Shape, OtherValues
  <2>1. Shrinking /\ announcing' = announcing
    BY <1>15, <2>0 DEF EndRecovery, Shrinking, poolVars
  <2>2. woken \subseteq woken'
    BY <1>15, DropStep DEF EndRecovery, Shape
  <2>3. \A r \in Requests \ woken' : stage'[r] \in {"unserved", "sleeping"} =>
          r \notin woken /\ stage'[r] = stage[r] /\ behind'[r] = behind[r] /\ due'[r] = due[r]
    BY <1>15, <2>0, <2>2 DEF EndRecovery, MoveTo, sleepVars
  <2>4. QED
    BY <2>1, <2>3, WakeKept
<1>16. ASSUME NEW q \in Requests, GiveUp(q) PROVE WakeInv'
  <2>0. stage \in [Requests -> Stages] /\ behind \in [Requests -> SUBSET Members] /\ due \in [Requests -> SUBSET Members]
        /\ lease \in [Requests -> [member : Members \cup {NoMember}, phase : Phases]] /\ woken \subseteq Requests
    BY DEF Shape, OtherValues
  <2>1. Shrinking /\ announcing' = announcing
    BY <1>16, <2>0 DEF GiveUp, Shrinking, poolVars, Change
  <2>2. \A r \in Requests \ woken' : stage'[r] \in {"unserved", "sleeping"} =>
          r \notin woken /\ stage'[r] = stage[r] /\ behind'[r] = behind[r] /\ due'[r] = due[r]
    BY <1>16, <2>0 DEF GiveUp, MoveTo, sleepVars
  <2>3. QED
    BY <2>1, <2>2, WakeKept
<1>17. ASSUME NEW q \in Requests, Settle(q) PROVE WakeInv'
  <2>0. stage \in [Requests -> Stages] /\ behind \in [Requests -> SUBSET Members] /\ due \in [Requests -> SUBSET Members]
        /\ lease \in [Requests -> [member : Members \cup {NoMember}, phase : Phases]] /\ woken \subseteq Requests
    BY DEF Shape, OtherValues
  <2>1. lease'[q].phase = "settled"
    BY <1>17, <2>0 DEF Settle
  <2>2. QED
    BY <2>1 DEF WakeInv, Calm
<1>18. ASSUME NEW q \in Requests, ReleaseReservation(q) PROVE WakeInv'
  <2>0. stage \in [Requests -> Stages] /\ behind \in [Requests -> SUBSET Members] /\ due \in [Requests -> SUBSET Members]
        /\ lease \in [Requests -> [member : Members \cup {NoMember}, phase : Phases]] /\ woken \subseteq Requests
    BY DEF Shape, OtherValues
  <2>1. lease'[q].phase = "silent"
    BY <1>18, <2>0 DEF ReleaseReservation
  <2>2. QED
    BY <2>1 DEF WakeInv, Calm
<1>19. ASSUME NEW q \in Requests, AnnounceRelease(q) PROVE WakeInv'
  <2>0. stage \in [Requests -> Stages] /\ behind \in [Requests -> SUBSET Members] /\ due \in [Requests -> SUBSET Members]
        /\ lease \in [Requests -> [member : Members \cup {NoMember}, phase : Phases]] /\ woken \subseteq Requests
    BY DEF Shape, OtherValues
  <2>2. \A r \in Requests : stage'[r] \in {"unserved", "sleeping"} => r \in woken'
    BY <1>19, <2>0 DEF AnnounceRelease, NotifyTurn, NotifyAvailability, InAdmit, AboutToSleep, Asleep, MoveTo
  <2>3. QED
    BY <2>2 DEF WakeInv, Informed
<1>20. ASSUME NEW q \in Requests, Arrive(q) PROVE WakeInv'
  <2>0. stage \in [Requests -> Stages] /\ behind \in [Requests -> SUBSET Members] /\ due \in [Requests -> SUBSET Members]
        /\ lease \in [Requests -> [member : Members \cup {NoMember}, phase : Phases]] /\ woken \subseteq Requests
    BY DEF Shape, OtherValues
  <2>1. Shrinking /\ announcing' = announcing
    BY <1>20, <2>0 DEF Arrive, Shrinking, poolVars, Change
  <2>2. \A r \in Requests \ woken' : stage'[r] \in {"unserved", "sleeping"} =>
          r \notin woken /\ stage'[r] = stage[r] /\ behind'[r] = behind[r] /\ due'[r] = due[r]
    BY <1>20, <2>0 DEF Arrive, MoveTo, sleepVars
  <2>3. QED
    BY <2>1, <2>2, WakeKept
<1>21. ASSUME NEW q \in Requests, Cancel(q) PROVE WakeInv'
  <2>0. stage \in [Requests -> Stages] /\ behind \in [Requests -> SUBSET Members] /\ due \in [Requests -> SUBSET Members]
        /\ lease \in [Requests -> [member : Members \cup {NoMember}, phase : Phases]] /\ woken \subseteq Requests
    BY DEF Shape, OtherValues
  <2>1. Shrinking /\ announcing' = announcing
    BY <1>21, <2>0 DEF Cancel, Shrinking, poolVars
  <2>2. woken \subseteq woken'
    BY <1>21, DropStep DEF Cancel, Shape
  <2>3. \A r \in Requests \ woken' : stage'[r] \in {"unserved", "sleeping"} =>
          r \notin woken /\ stage'[r] = stage[r] /\ behind'[r] = behind[r] /\ due'[r] = due[r]
    BY <1>21, <2>0, <2>2 DEF Cancel, MoveTo, sleepVars
  <2>4. QED
    BY <2>1, <2>3, WakeKept
<1>22. ASSUME NEW q \in Requests, UseUpWait(q) PROVE WakeInv'
  <2>0. stage \in [Requests -> Stages] /\ behind \in [Requests -> SUBSET Members] /\ due \in [Requests -> SUBSET Members]
        /\ lease \in [Requests -> [member : Members \cup {NoMember}, phase : Phases]] /\ woken \subseteq Requests
    BY DEF Shape, OtherValues
  <2>1. Shrinking /\ announcing' = announcing
    BY <1>22, <2>0 DEF UseUpWait, Shrinking, poolVars, Change
  <2>2. \A r \in Requests \ woken' : stage'[r] \in {"unserved", "sleeping"} =>
          r \notin woken /\ stage'[r] = stage[r] /\ behind'[r] = behind[r] /\ due'[r] = due[r]
    BY <1>22, <2>0 DEF UseUpWait, MoveTo, sleepVars
  <2>3. QED
    BY <2>1, <2>2, WakeKept
<1>23. ASSUME NEW m \in Members, EndCooldown(m) PROVE WakeInv'
  <2>0. stage \in [Requests -> Stages] /\ behind \in [Requests -> SUBSET Members] /\ due \in [Requests -> SUBSET Members]
        /\ lease \in [Requests -> [member : Members \cup {NoMember}, phase : Phases]] /\ woken \subseteq Requests
    BY DEF Shape, OtherValues
  <2>1. UNCHANGED <<stage, lease, retired, announcing, due>> /\ status' = [status EXCEPT ![m] = "up"]
    BY <1>23 DEF EndCooldown
  <2>2. (Calm' <=> Calm) /\ \A x : HasRoom(x)' <=> HasRoom(x)
    BY <2>1 DEF Calm, HasRoom, EngineFree, Leased, Reserved
  <2>3. ASSUME NEW r \in Requests \ woken', Calm PROVE Informed(r)'
    <3>1. r \notin woken /\ (stage[r] = "sleeping" => m \notin due[r])
      BY <1>23, <2>3 DEF EndCooldown, Asleep
    <3>2. Informed(r)
      BY <2>3, <3>1 DEF WakeInv
    <3>3. stage[r] = "unserved" => behind'[r] = behind[r] \cup {m}
      BY <1>23, <2>0 DEF EndCooldown, AboutToSleep
    <3>4. \A x \in Members : x # m => status'[x] = status[x]
      BY <2>1 DEF Shape, OtherValues
    <3>5. Eligible[r] \subseteq Members /\ status[m] = "cooling"
      BY <1>23, AdmissionAssumption DEF EndCooldown
    <3>6. ASSUME stage'[r] = "unserved" PROVE ReadyMembers(r, behind[r])' = {}
      <4>1. ReadyMembers(r, behind[r]) = {}
        BY <2>1, <3>2, <3>6 DEF Informed
      <4>2. \A x \in Eligible[r] : Up(x, behind[r])' => Up(x, behind[r])
        BY <2>1, <3>3, <3>4, <3>5, <3>6 DEF Up
      <4>3. QED
        BY <2>2, <4>1, <4>2 DEF ReadyMembers
    <3>7. ASSUME stage'[r] = "sleeping"
          PROVE  /\ ReadyMembers(r, {})' = {}
                 /\ \A x \in Eligible[r] : ~retired' /\ status'[x] = "cooling" => x \in due'[r]
      <4>1. /\ ReadyMembers(r, {}) = {} /\ m \notin due[r]
            /\ \A x \in Eligible[r] : ~retired /\ status[x] = "cooling" => x \in due[r]
        BY <2>1, <3>1, <3>2, <3>7 DEF Informed
      <4>2. m \notin Eligible[r] \/ retired
        BY <3>5, <4>1
      <4>3. \A x \in Eligible[r] : Up(x, {})' => Up(x, {})
        BY <2>1, <3>4, <3>5, <4>2 DEF Up
      <4>4. ReadyMembers(r, {})' = {}
        BY <2>2, <4>1, <4>3 DEF ReadyMembers
      <4>5. \A x \in Eligible[r] : ~retired' /\ status'[x] = "cooling" => x \in due'[r]
        BY <2>1, <3>4, <3>5, <4>1, <4>2
      <4>6. QED
        BY <4>4, <4>5
    <3>8. QED
      BY <3>6, <3>7 DEF Informed
  <2>4. QED
    BY <2>2, <2>3 DEF WakeInv
<1>24. ASSUME NEW m \in Members, NEW s \in {"up", "blocked"}, UpdateMember(m, s) PROVE WakeInv'
  <2>1. announcing' # {}
    BY <1>24 DEF UpdateMember, Change, Channels
  <2>2. QED
    BY <2>1 DEF WakeInv, Calm
<1>25. ASSUME NEW qs \in HiddenSets, SetHidden(qs) PROVE WakeInv'
  <2>1. announcing' # {}
    BY <1>25 DEF SetHidden, Change, Channels
  <2>2. QED
    BY <2>1 DEF WakeInv, Calm
<1>26. ASSUME NEW b \in BOOLEAN, SetRecoveryEnabled(b) PROVE WakeInv'
  <2>1. announcing' # {}
    BY <1>26 DEF SetRecoveryEnabled, Change, Channels
  <2>2. QED
    BY <2>1 DEF WakeInv, Calm
<1>27. CASE RetireForReplacement
  <2>1. announcing' # {}
    BY <1>27 DEF RetireForReplacement, Change, Channels
  <2>2. QED
    BY <2>1 DEF WakeInv, Calm
<1>28. ASSUME NEW channel \in Channels, Announce(channel) PROVE WakeInv'
  <2>0. stage \in [Requests -> Stages] /\ behind \in [Requests -> SUBSET Members] /\ due \in [Requests -> SUBSET Members]
        /\ lease \in [Requests -> [member : Members \cup {NoMember}, phase : Phases]] /\ woken \subseteq Requests
    BY DEF Shape, OtherValues
  <2>2. \A r \in Requests : stage'[r] \in {"unserved", "sleeping"} => r \in woken'
    BY <1>28, <2>0 DEF Announce, NotifyTurn, NotifyAvailability, InAdmit, AboutToSleep, Asleep, MoveTo
  <2>3. QED
    BY <2>2 DEF WakeInv, Informed
<1>29. QED
  BY <1>1, <1>2, <1>3, <1>4, <1>5, <1>6, <1>7, <1>8, <1>9, <1>10, <1>11, <1>12, <1>13,
     <1>14, <1>15, <1>16, <1>17, <1>18, <1>19, <1>20, <1>21, <1>22, <1>23, <1>24,
     <1>25, <1>26, <1>27, <1>28
     DEF Next, Driving, Enter, Decide, Return, AwaitRecovery, EndLease, Configuring

\* Whoever sleeps because it found no room is awake, or will be woken, once there
\* is: no release and no change of the pool falls between its inspection and its
\* sleep, whatever the other drivers do in between.
THEOREM NoWakeupLost == Spec => []NoLostWakeup
<1>1. Init => WakeInv
  BY DEF Init, WakeInv, Informed
<1>2. Shape /\ Shape' /\ WakeInv /\ [Next]_vars => WakeInv'
  BY WakeStep
<1>3. Shape /\ WakeInv => NoLostWakeup
  <2> SUFFICES ASSUME Shape, WakeInv, NEW w \in Selecting, stage[w] = "sleeping", Admissible(w, {}),
                      w \notin woken, ~RoomOwed
               PROVE  FALSE
    BY DEF NoLostWakeup, Awake
  <2>1. w \in Requests
    BY QueueBasics DEF Shape
  <2>2. Calm
    BY DEF RoomOwed, Calm
  <2>3. ReadyMembers(w, {}) = {}
    BY <2>1, <2>2 DEF WakeInv, Informed
  <2>4. QED
    BY <2>3 DEF Admissible
<1>4. QED
  BY <1>1, <1>2, <1>3, ShapeHolds, PTL DEF Spec

-----------------------------------------------------------------------------
(* Every sleeper knows its deadline *)

\* Every step leaves a timer, a wake-up or a notification to come.
LEMMA DeadlineStep ==
  ASSUME Shape, DeadlineInv, [Next]_vars
  PROVE  DeadlineInv'
<1>1. CASE UNCHANGED vars
  BY <1>1 DEF vars, poolVars, sleepVars, DeadlineInv, InAdmit, InRecovery, AboutToSleep, Asleep, HasDeadline
<1>2. ASSUME NEW q \in Requests, Admit(q) PROVE DeadlineInv'
  <2>0. stage \in [Requests -> Stages]
    BY DEF Shape, OtherValues
  <2>9. QED
    BY <1>2, <2>0 DEF Admit, DeadlineInv, InAdmit, InRecovery, AboutToSleep, Asleep, HasDeadline, MoveTo, poolVars, sleepVars, Subscribe
<1>3. ASSUME NEW q \in Requests, Resume(q) PROVE DeadlineInv'
  <2>0. stage \in [Requests -> Stages]
    BY DEF Shape, OtherValues
  <2>9. QED
    BY <1>3, <2>0 DEF Resume, DeadlineInv, InAdmit, InRecovery, AboutToSleep, Asleep, HasDeadline, MoveTo, poolVars, sleepVars, Subscribe
<1>4. ASSUME NEW q \in Requests, EnterSaturated(q) PROVE DeadlineInv'
  <2>0. stage \in [Requests -> Stages]
    BY DEF Shape, OtherValues
  <2>1. stage' = [stage EXCEPT ![q] = "unserved"] \/ stage' = [stage EXCEPT ![q] = "leaving"]
    BY <1>4, RegisterStep DEF EnterSaturated, Shape
  <2>9. QED
    BY <1>4, <2>0, <2>1 DEF EnterSaturated, DeadlineInv, InAdmit, InRecovery, AboutToSleep, Asleep, HasDeadline, MoveTo, poolVars, sleepVars
<1>5. ASSUME NEW q \in Requests, EnterSection(q) PROVE DeadlineInv'
  <2>0. stage \in [Requests -> Stages]
    BY DEF Shape, OtherValues
  <2>9. QED
    BY <1>5, <2>0 DEF EnterSection, DeadlineInv, InAdmit, InRecovery, AboutToSleep, Asleep, HasDeadline, MoveTo, poolVars, sleepVars
<1>6. ASSUME NEW q \in Requests, Scan(q) PROVE DeadlineInv'
  <2>0. stage \in [Requests -> Stages]
    BY DEF Shape, OtherValues
  <2>9. QED
    BY <1>6, <2>0 DEF Scan, DeadlineInv, InAdmit, InRecovery, AboutToSleep, Asleep, HasDeadline, MoveTo, poolVars, sleepVars
<1>7. ASSUME NEW q \in Requests, Grant(q) PROVE DeadlineInv'
  <2>0. stage \in [Requests -> Stages]
    BY DEF Shape, OtherValues
  <2>9. QED
    BY <1>7, <2>0 DEF Grant, DeadlineInv, InAdmit, InRecovery, AboutToSleep, Asleep, HasDeadline, MoveTo, poolVars, sleepVars
<1>8. ASSUME NEW q \in Requests, FindNothing(q) PROVE DeadlineInv'
  <2>0. stage \in [Requests -> Stages]
    BY DEF Shape, OtherValues
  <2>1. stage' = [stage EXCEPT ![q] = "unserved"] \/ stage' = [stage EXCEPT ![q] = "leaving"]
    BY <1>8, RegisterStep DEF FindNothing, Shape
  <2>2. stage[q] = "scanning" /\ UNCHANGED <<recoveryEnabled, announcing, woken, armed>>
    BY <1>8 DEF FindNothing, Shape, DriversMatch, poolVars, sleepVars
  <2>3. QED
    BY <2>0, <2>1, <2>2 DEF DeadlineInv, InAdmit, InRecovery, AboutToSleep, Asleep, HasDeadline
<1>9. ASSUME NEW q \in Requests, Yield(q) PROVE DeadlineInv'
  <2>0. stage \in [Requests -> Stages]
    BY DEF Shape, OtherValues
  <2>1. stage' = [stage EXCEPT ![q] = "deferring"] \/ stage' = [stage EXCEPT ![q] = "leaving"]
    BY <1>9, RegisterStep DEF Yield, Shape
  <2>2. stage[q] = "scanning" /\ UNCHANGED <<recoveryEnabled, announcing, woken, armed>>
    BY <1>9 DEF Yield, Shape, DriversMatch, poolVars, sleepVars
  <2>3. QED
    BY <2>0, <2>1, <2>2 DEF DeadlineInv, InAdmit, InRecovery, AboutToSleep, Asleep, HasDeadline
<1>10. ASSUME NEW q \in Requests, FallAsleep(q) PROVE DeadlineInv'
  <2>0. stage \in [Requests -> Stages]
    BY DEF Shape, OtherValues
  <2>9. QED
    BY <1>10, <2>0 DEF FallAsleep, DeadlineInv, InAdmit, InRecovery, AboutToSleep, Asleep, HasDeadline, MoveTo, poolVars, sleepVars, FireTimer
<1>11. ASSUME NEW q \in Requests, ReturnLease(q) PROVE DeadlineInv'
  <2>0. stage \in [Requests -> Stages]
    BY DEF Shape, OtherValues
  <2>1. woken \subseteq woken'
    BY <1>11, DropStep DEF ReturnLease, Shape
  <2>9. QED
    BY <1>11, <2>0, <2>1 DEF ReturnLease, DeadlineInv, InAdmit, InRecovery, AboutToSleep, Asleep, HasDeadline, MoveTo, poolVars, sleepVars
<1>12. ASSUME NEW q \in Requests, ReturnNothing(q) PROVE DeadlineInv'
  <2>0. stage \in [Requests -> Stages]
    BY DEF Shape, OtherValues
  <2>1. woken \subseteq woken'
    BY <1>12, DropStep DEF ReturnNothing, Shape
  <2>9. QED
    BY <1>12, <2>0, <2>1 DEF ReturnNothing, DeadlineInv, InAdmit, InRecovery, AboutToSleep, Asleep, HasDeadline, MoveTo, poolVars, sleepVars
<1>13. ASSUME NEW q \in Requests, BeginRecovery(q) PROVE DeadlineInv'
  <2>0. stage \in [Requests -> Stages]
    BY DEF Shape, OtherValues
  <2>9. QED
    BY <1>13, <2>0 DEF BeginRecovery, DeadlineInv, InAdmit, InRecovery, AboutToSleep, Asleep, HasDeadline, MoveTo, poolVars, sleepVars
<1>14. ASSUME NEW q \in Requests, Enlist(q) PROVE DeadlineInv'
  <2>0. stage \in [Requests -> Stages]
    BY DEF Shape, OtherValues
  <2>9. QED
    BY <1>14, <2>0 DEF Enlist, DeadlineInv, InAdmit, InRecovery, AboutToSleep, Asleep, HasDeadline, MoveTo, poolVars, sleepVars
<1>15. ASSUME NEW q \in Requests, EndRecovery(q) PROVE DeadlineInv'
  <2>0. stage \in [Requests -> Stages]
    BY DEF Shape, OtherValues
  <2>1. woken \subseteq woken'
    BY <1>15, DropStep DEF EndRecovery, Shape
  <2>9. QED
    BY <1>15, <2>0, <2>1 DEF EndRecovery, DeadlineInv, InAdmit, InRecovery, AboutToSleep, Asleep, HasDeadline, MoveTo, poolVars, sleepVars
<1>16. ASSUME NEW q \in Requests, GiveUp(q) PROVE DeadlineInv'
  <2>0. stage \in [Requests -> Stages]
    BY DEF Shape, OtherValues
  <2>9. QED
    BY <1>16, <2>0 DEF GiveUp, DeadlineInv, InAdmit, InRecovery, AboutToSleep, Asleep, HasDeadline, MoveTo, poolVars, sleepVars
<1>17. ASSUME NEW q \in Requests, Settle(q) PROVE DeadlineInv'
  <2>0. stage \in [Requests -> Stages]
    BY DEF Shape, OtherValues
  <2>9. QED
    BY <1>17, <2>0 DEF Settle, DeadlineInv, InAdmit, InRecovery, AboutToSleep, Asleep, HasDeadline, MoveTo, poolVars, sleepVars
<1>18. ASSUME NEW q \in Requests, ReleaseReservation(q) PROVE DeadlineInv'
  <2>0. stage \in [Requests -> Stages]
    BY DEF Shape, OtherValues
  <2>9. QED
    BY <1>18, <2>0 DEF ReleaseReservation, DeadlineInv, InAdmit, InRecovery, AboutToSleep, Asleep, HasDeadline, MoveTo, poolVars, sleepVars
<1>19. ASSUME NEW q \in Requests, AnnounceRelease(q) PROVE DeadlineInv'
  <2>0. stage \in [Requests -> Stages]
    BY DEF Shape, OtherValues
  <2>9. QED
    BY <1>19, <2>0 DEF AnnounceRelease, DeadlineInv, InAdmit, InRecovery, AboutToSleep, Asleep, HasDeadline, MoveTo, poolVars, sleepVars, NotifyAvailability
<1>20. ASSUME NEW q \in Requests, Arrive(q) PROVE DeadlineInv'
  <2>0. stage \in [Requests -> Stages]
    BY DEF Shape, OtherValues
  <2>9. QED
    BY <1>20, <2>0 DEF Arrive, DeadlineInv, InAdmit, InRecovery, AboutToSleep, Asleep, HasDeadline, MoveTo, poolVars, sleepVars
<1>21. ASSUME NEW q \in Requests, Cancel(q) PROVE DeadlineInv'
  <2>0. stage \in [Requests -> Stages]
    BY DEF Shape, OtherValues
  <2>1. woken \subseteq woken'
    BY <1>21, DropStep DEF Cancel, Shape
  <2>9. QED
    BY <1>21, <2>0, <2>1 DEF Cancel, DeadlineInv, InAdmit, InRecovery, AboutToSleep, Asleep, HasDeadline, MoveTo, poolVars, sleepVars
<1>22. ASSUME NEW q \in Requests, UseUpWait(q) PROVE DeadlineInv'
  <2>0. stage \in [Requests -> Stages]
    BY DEF Shape, OtherValues
  <2>9. QED
    BY <1>22, <2>0 DEF UseUpWait, DeadlineInv, InAdmit, InRecovery, AboutToSleep, Asleep, HasDeadline, MoveTo, poolVars, sleepVars
<1>23. ASSUME NEW m \in Members, EndCooldown(m) PROVE DeadlineInv'
  <2>0. stage \in [Requests -> Stages]
    BY DEF Shape, OtherValues
  <2>9. QED
    BY <1>23, <2>0 DEF EndCooldown, DeadlineInv, InAdmit, InRecovery, AboutToSleep, Asleep, HasDeadline, MoveTo, poolVars, sleepVars
<1>24. ASSUME NEW m \in Members, NEW s \in {"up", "blocked"}, UpdateMember(m, s) PROVE DeadlineInv'
  <2>0. stage \in [Requests -> Stages]
    BY DEF Shape, OtherValues
  <2>9. QED
    BY <1>24, <2>0 DEF UpdateMember, DeadlineInv, InAdmit, InRecovery, AboutToSleep, Asleep, HasDeadline, MoveTo, poolVars, sleepVars, Change, Channels
<1>25. ASSUME NEW qs \in HiddenSets, SetHidden(qs) PROVE DeadlineInv'
  <2>0. stage \in [Requests -> Stages]
    BY DEF Shape, OtherValues
  <2>9. QED
    BY <1>25, <2>0 DEF SetHidden, DeadlineInv, InAdmit, InRecovery, AboutToSleep, Asleep, HasDeadline, MoveTo, poolVars, sleepVars, Change, Channels
<1>26. ASSUME NEW b \in BOOLEAN, SetRecoveryEnabled(b) PROVE DeadlineInv'
  <2>0. stage \in [Requests -> Stages]
    BY DEF Shape, OtherValues
  <2>9. QED
    BY <1>26, <2>0 DEF SetRecoveryEnabled, DeadlineInv, InAdmit, InRecovery, AboutToSleep, Asleep, HasDeadline, MoveTo, poolVars, sleepVars, Change, Channels
<1>27. CASE RetireForReplacement
  <2>0. stage \in [Requests -> Stages]
    BY DEF Shape, OtherValues
  <2>9. QED
    BY <1>27, <2>0 DEF RetireForReplacement, DeadlineInv, InAdmit, InRecovery, AboutToSleep, Asleep, HasDeadline, MoveTo, poolVars, sleepVars, Change, Channels
<1>28. ASSUME NEW channel \in Channels, Announce(channel) PROVE DeadlineInv'
  <2>0. stage \in [Requests -> Stages]
    BY DEF Shape, OtherValues
  <2>9. QED
    BY <1>28, <2>0 DEF Announce, DeadlineInv, InAdmit, InRecovery, AboutToSleep, Asleep, HasDeadline, MoveTo, poolVars, sleepVars, NotifyAvailability, NotifyTurn, Channels
<1>29. QED
  BY <1>1, <1>2, <1>3, <1>4, <1>5, <1>6, <1>7, <1>8, <1>9, <1>10, <1>11, <1>12, <1>13,
     <1>14, <1>15, <1>16, <1>17, <1>18, <1>19, <1>20, <1>21, <1>22, <1>23, <1>24,
     <1>25, <1>26, <1>27, <1>28
     DEF Next, Driving, Enter, Decide, Return, AwaitRecovery, EndLease, Configuring

\* A waiter that has to give up at some time sleeps with a timer for it, also when
\* the recovery switch took away its privilege to wait without one while it slept.
THEOREM DeadlinesArmed == Spec => []DeadlineIsArmed
<1>1. Init => DeadlineInv
  BY DEF Init, DeadlineInv, InAdmit, InRecovery, AboutToSleep, Asleep
<1>2. Shape /\ Shape' /\ DeadlineInv /\ [Next]_vars => DeadlineInv'
  BY DeadlineStep
<1>3. Shape /\ DeadlineInv => DeadlineIsArmed
  <2> SUFFICES ASSUME Shape, DeadlineInv, NEW q \in Waiting,
                      stage[q] \in Asleep \cup {"recovering"}, HasDeadline(q)
               PROVE  q \in armed \/ q \in woken \/ announcing # {}
    BY DEF DeadlineIsArmed
  <2>1. q \in InAdmit \cup InRecovery
    BY QueueBasics DEF Shape, InAdmit, InRecovery
  <2>2. QED
    BY <2>1 DEF DeadlineInv
<1>4. QED
  BY <1>1, <1>2, <1>3, ShapeHolds, PTL DEF Spec

-----------------------------------------------------------------------------
(* The order of admissions *)

\* Waiters are inspected in a strict total order.
LEMMA PrecedesOrder ==
  ASSUME QueueValues, NEW v \in Waiting, NEW w \in Waiting
  PROVE  /\ ~(Precedes(v, w) /\ Precedes(w, v))
         /\ v # w => Precedes(v, w) \/ Precedes(w, v)
<1> DEFINE pv == PlaceOf(PrincipalOf[v])
           pw == PlaceOf(PrincipalOf[w])
<1>1. pv \in DOMAIN principals /\ pw \in DOMAIN principals
  BY PlaceProperties
<1>2. pv \in Nat /\ pw \in Nat
  <2>1. DOMAIN principals = 1..Len(principals) /\ Len(principals) \in Nat
    BY QueueBasics
  <2> HIDE DEF pv, pw
  <2>2. QED
    BY <1>1, <2>1
<1>3. /\ IndexOf(v) \in DOMAIN queue /\ queue[IndexOf(v)].request = v
      /\ IndexOf(w) \in DOMAIN queue /\ queue[IndexOf(w)].request = w
  BY IndexProperties
<1>4. IndexOf(v) \in Nat /\ IndexOf(w) \in Nat
  <2>1. DOMAIN queue = 1..Len(queue) /\ Len(queue) \in Nat
    BY QueueBasics
  <2>2. QED
    BY <1>3, <2>1
<1>5. v # w => IndexOf(v) # IndexOf(w)
  BY <1>3
<1>6. /\ Precedes(v, w) <=> pv < pw \/ (pv = pw /\ IndexOf(v) < IndexOf(w))
      /\ Precedes(w, v) <=> pw < pv \/ (pw = pv /\ IndexOf(w) < IndexOf(v))
  BY DEF Precedes
<1> HIDE DEF pv, pw
<1>7. QED
  BY <1>2, <1>4, <1>5, <1>6

\* Every step keeps what the critical section knows of the turn.
LEMMA SectionStep ==
  ASSUME Shape, SectionInv, [Next]_vars
  PROVE  SectionInv'
<1>1. CASE UNCHANGED vars
  <2>1. UNCHANGED <<queueVars, section>>
    BY <1>1 DEF vars, queueVars
  <2>2. QED
    BY <2>1, QueueKept DEF SectionInv
<1>2. ASSUME NEW q \in Requests, Admit(q) PROVE SectionInv'
  <2>1. UNCHANGED <<queueVars, section>>
    BY <1>2 DEF Admit, queueVars, Subscribe
  <2>2. QED
    BY <2>1, QueueKept DEF SectionInv
<1>3. ASSUME NEW q \in Requests, Resume(q) PROVE SectionInv'
  <2>1. UNCHANGED <<queueVars, section>>
    BY <1>3 DEF Resume, queueVars, Subscribe
  <2>2. QED
    BY <2>1, QueueKept DEF SectionInv
<1>4. ASSUME NEW q \in Requests, EnterSaturated(q) PROVE SectionInv'
  <2>1. section' = FreeSection
    BY <1>4 DEF EnterSaturated, QueueFree, Shape, DriversMatch
  <2>2. QED
    BY <2>1 DEF SectionInv, FreeSection
<1>5. ASSUME NEW q \in Requests, EnterSection(q) PROVE SectionInv'
  <2>1. /\ section'.unready = {} /\ section'.turn = Nobody
        /\ section'.ready = {w \in Selecting : Admissible(w, behind[q])}
    BY <1>5 DEF EnterSection
  <2>2. Selecting' = Selecting
    BY <1>5, QueueKept DEF EnterSection
  <2>3. QED
    BY <2>1, <2>2 DEF SectionInv
<1>6. ASSUME NEW q \in Requests, Scan(q) PROVE SectionInv'
  <2>1. PICK w \in Selecting :
          /\ NextToInspect(w)
          /\ section' = IF Admissible(w, behind[q])
                         THEN [section EXCEPT !.turn = w]
                         ELSE [section EXCEPT !.unready = @ \cup {w}, !.ready = @ \ {w}]
    BY <1>6 DEF Scan
  <2>2. section \in Section /\ section.turn = Nobody
    BY <1>6 DEF Scan, Shape, OtherValues
  <2>3. Selecting' = Selecting /\ \A u, v : Precedes(u, v)' <=> Precedes(u, v)
    BY <1>6, QueueKept DEF Scan
  <2>4. Selecting \subseteq Waiting
    BY QueueBasics DEF Shape
  <2>5. CASE Admissible(w, behind[q])
    <3>1. section'.turn = w /\ section'.unready = section.unready /\ section'.ready = section.ready
      BY <2>1, <2>2, <2>5 DEF Section
    <3>2. w \in Selecting \ section.unready
      BY <2>1 DEF NextToInspect
    <3>3. ASSUME NEW v \in Selecting, Precedes(v, w) PROVE v \in section.unready
      <4>1. ~(Precedes(v, w) /\ Precedes(w, v)) /\ v # w
        BY <2>4, <3>2, <3>3, PrecedesOrder DEF Shape
      <4>2. QED
        BY <2>1, <3>3, <4>1 DEF NextToInspect
    <3>4. QED
      BY <2>3, <3>1, <3>2, <3>3 DEF SectionInv
  <2>6. CASE ~Admissible(w, behind[q])
    <3>1. /\ section'.turn = Nobody /\ section'.unready = section.unready \cup {w}
          /\ section'.ready = section.ready \ {w}
      BY <2>1, <2>2, <2>6 DEF Section
    <3>2. QED
      BY <2>1, <2>3, <3>1 DEF SectionInv
  <2>7. QED
    BY <2>5, <2>6
<1>7. ASSUME NEW q \in Requests, Grant(q) PROVE SectionInv'
  <2>1. section' = FreeSection
    BY <1>7 DEF Grant
  <2>2. QED
    BY <2>1 DEF SectionInv, FreeSection
<1>8. ASSUME NEW q \in Requests, FindNothing(q) PROVE SectionInv'
  <2>1. section' = FreeSection
    BY <1>8 DEF FindNothing
  <2>2. QED
    BY <2>1 DEF SectionInv, FreeSection
<1>9. ASSUME NEW q \in Requests, Yield(q) PROVE SectionInv'
  <2>1. section' = FreeSection
    BY <1>9 DEF Yield
  <2>2. QED
    BY <2>1 DEF SectionInv, FreeSection
<1>10. ASSUME NEW q \in Requests, FallAsleep(q) PROVE SectionInv'
  <2>1. UNCHANGED <<queueVars, section>>
    BY <1>10 DEF FallAsleep, queueVars
  <2>2. QED
    BY <2>1, QueueKept DEF SectionInv
<1>11. ASSUME NEW q \in Requests, ReturnLease(q) PROVE SectionInv'
  <2>1. section' = FreeSection
    BY <1>11 DEF ReturnLease, QueueFree, Shape, DriversMatch
  <2>2. QED
    BY <2>1 DEF SectionInv, FreeSection
<1>12. ASSUME NEW q \in Requests, ReturnNothing(q) PROVE SectionInv'
  <2>1. section' = FreeSection
    BY <1>12 DEF ReturnNothing, QueueFree, Shape, DriversMatch
  <2>2. QED
    BY <2>1 DEF SectionInv, FreeSection
<1>13. ASSUME NEW q \in Requests, BeginRecovery(q) PROVE SectionInv'
  <2>1. UNCHANGED <<queueVars, section>>
    BY <1>13 DEF BeginRecovery, queueVars
  <2>2. QED
    BY <2>1, QueueKept DEF SectionInv
<1>14. ASSUME NEW q \in Requests, Enlist(q) PROVE SectionInv'
  <2>1. section' = FreeSection
    BY <1>14 DEF Enlist, QueueFree, Shape, DriversMatch
  <2>2. QED
    BY <2>1 DEF SectionInv, FreeSection
<1>15. ASSUME NEW q \in Requests, EndRecovery(q) PROVE SectionInv'
  <2>1. section' = FreeSection
    BY <1>15 DEF EndRecovery, QueueFree, Shape, DriversMatch
  <2>2. QED
    BY <2>1 DEF SectionInv, FreeSection
<1>16. ASSUME NEW q \in Requests, GiveUp(q) PROVE SectionInv'
  <2>1. UNCHANGED <<queueVars, section>>
    BY <1>16 DEF GiveUp, queueVars
  <2>2. QED
    BY <2>1, QueueKept DEF SectionInv
<1>17. ASSUME NEW q \in Requests, Settle(q) PROVE SectionInv'
  <2>1. UNCHANGED <<queueVars, section>>
    BY <1>17 DEF Settle, queueVars
  <2>2. QED
    BY <2>1, QueueKept DEF SectionInv
<1>18. ASSUME NEW q \in Requests, ReleaseReservation(q) PROVE SectionInv'
  <2>1. UNCHANGED <<queueVars, section>>
    BY <1>18 DEF ReleaseReservation, queueVars
  <2>2. QED
    BY <2>1, QueueKept DEF SectionInv
<1>19. ASSUME NEW q \in Requests, AnnounceRelease(q) PROVE SectionInv'
  <2>1. UNCHANGED <<queueVars, section>>
    BY <1>19 DEF AnnounceRelease, queueVars
  <2>2. QED
    BY <2>1, QueueKept DEF SectionInv
<1>20. ASSUME NEW q \in Requests, Arrive(q) PROVE SectionInv'
  <2>1. UNCHANGED <<queueVars, section>>
    BY <1>20 DEF Arrive, queueVars
  <2>2. QED
    BY <2>1, QueueKept DEF SectionInv
<1>21. ASSUME NEW q \in Requests, Cancel(q) PROVE SectionInv'
  <2>1. section' = FreeSection
    BY <1>21 DEF Cancel, QueueFree, Shape, DriversMatch
  <2>2. QED
    BY <2>1 DEF SectionInv, FreeSection
<1>22. ASSUME NEW q \in Requests, UseUpWait(q) PROVE SectionInv'
  <2>1. UNCHANGED <<queueVars, section>>
    BY <1>22 DEF UseUpWait, queueVars
  <2>2. QED
    BY <2>1, QueueKept DEF SectionInv
<1>23. ASSUME NEW m \in Members, EndCooldown(m) PROVE SectionInv'
  <2>1. UNCHANGED <<queueVars, section>>
    BY <1>23 DEF EndCooldown, queueVars
  <2>2. QED
    BY <2>1, QueueKept DEF SectionInv
<1>24. ASSUME NEW m \in Members, NEW s \in {"up", "blocked"}, UpdateMember(m, s) PROVE SectionInv'
  <2>1. UNCHANGED <<queueVars, section>>
    BY <1>24 DEF UpdateMember, queueVars, Change
  <2>2. QED
    BY <2>1, QueueKept DEF SectionInv
<1>25. ASSUME NEW qs \in HiddenSets, SetHidden(qs) PROVE SectionInv'
  <2>1. UNCHANGED <<queueVars, section>>
    BY <1>25 DEF SetHidden, queueVars, Change
  <2>2. QED
    BY <2>1, QueueKept DEF SectionInv
<1>26. ASSUME NEW b \in BOOLEAN, SetRecoveryEnabled(b) PROVE SectionInv'
  <2>1. UNCHANGED <<queueVars, section>>
    BY <1>26 DEF SetRecoveryEnabled, queueVars, Change
  <2>2. QED
    BY <2>1, QueueKept DEF SectionInv
<1>27. CASE RetireForReplacement
  <2>1. UNCHANGED <<queueVars, section>>
    BY <1>27 DEF RetireForReplacement, queueVars, Change
  <2>2. QED
    BY <2>1, QueueKept DEF SectionInv
<1>28. ASSUME NEW channel \in Channels, Announce(channel) PROVE SectionInv'
  <2>1. UNCHANGED <<queueVars, section>>
    BY <1>28 DEF Announce, queueVars
  <2>2. QED
    BY <2>1, QueueKept DEF SectionInv
<1>29. QED
  BY <1>1, <1>2, <1>3, <1>4, <1>5, <1>6, <1>7, <1>8, <1>9, <1>10, <1>11, <1>12, <1>13,
     <1>14, <1>15, <1>16, <1>17, <1>18, <1>19, <1>20, <1>21, <1>22, <1>23, <1>24,
     <1>25, <1>26, <1>27, <1>28
     DEF Next, Driving, Enter, Decide, Return, AwaitRecovery, EndLease, Configuring

\* Only its own grant admits a driver.
LEMMA GrantedByGrant ==
  ASSUME Shape, NEW r \in Requests, Granted(r), [Next]_vars
  PROVE  Grant(r)
<1>1. CASE UNCHANGED vars
  BY <1>1 DEF vars, Granted
<1>2. ASSUME NEW q \in Requests, Admit(q) PROVE Grant(r)
  <2>0. stage \in [Requests -> Stages]
    BY DEF Shape, OtherValues
  <2>1. QED
    BY <1>2, <2>0 DEF Admit, Granted, MoveTo, Subscribe
<1>3. ASSUME NEW q \in Requests, Resume(q) PROVE Grant(r)
  <2>0. stage \in [Requests -> Stages]
    BY DEF Shape, OtherValues
  <2>1. QED
    BY <1>3, <2>0 DEF Resume, Granted, MoveTo, Subscribe
<1>4. ASSUME NEW q \in Requests, EnterSaturated(q) PROVE Grant(r)
  <2>0. stage \in [Requests -> Stages]
    BY DEF Shape, OtherValues
  <2>1. stage' = [stage EXCEPT ![q] = "unserved"] \/ stage' = [stage EXCEPT ![q] = "leaving"]
    BY <1>4, RegisterStep DEF EnterSaturated, Shape
  <2>2. QED
    BY <2>0, <2>1 DEF Granted
<1>5. ASSUME NEW q \in Requests, EnterSection(q) PROVE Grant(r)
  <2>0. stage \in [Requests -> Stages]
    BY DEF Shape, OtherValues
  <2>1. QED
    BY <1>5, <2>0 DEF EnterSection, Granted, MoveTo
<1>6. ASSUME NEW q \in Requests, Scan(q) PROVE Grant(r)
  <2>0. stage \in [Requests -> Stages]
    BY DEF Shape, OtherValues
  <2>1. QED
    BY <1>6, <2>0 DEF Scan, Granted, MoveTo
<1>7. ASSUME NEW q \in Requests, Grant(q) PROVE Grant(r)
  <2>0. stage \in [Requests -> Stages]
    BY DEF Shape, OtherValues
  <2>1. stage' = [stage EXCEPT ![q] = "granted"]
    BY <1>7 DEF Grant, MoveTo
  <2>2. r = q
    BY <2>0, <2>1 DEF Granted
  <2>3. QED
    BY <1>7, <2>2
<1>8. ASSUME NEW q \in Requests, FindNothing(q) PROVE Grant(r)
  <2>0. stage \in [Requests -> Stages]
    BY DEF Shape, OtherValues
  <2>1. stage' = [stage EXCEPT ![q] = "unserved"] \/ stage' = [stage EXCEPT ![q] = "leaving"]
    BY <1>8, RegisterStep DEF FindNothing, Shape
  <2>2. QED
    BY <2>0, <2>1 DEF Granted
<1>9. ASSUME NEW q \in Requests, Yield(q) PROVE Grant(r)
  <2>0. stage \in [Requests -> Stages]
    BY DEF Shape, OtherValues
  <2>1. stage' = [stage EXCEPT ![q] = "deferring"] \/ stage' = [stage EXCEPT ![q] = "leaving"]
    BY <1>9, RegisterStep DEF Yield, Shape
  <2>2. QED
    BY <2>0, <2>1 DEF Granted
<1>10. ASSUME NEW q \in Requests, FallAsleep(q) PROVE Grant(r)
  <2>0. stage \in [Requests -> Stages]
    BY DEF Shape, OtherValues
  <2>1. QED
    BY <1>10, <2>0 DEF FallAsleep, Granted, MoveTo
<1>11. ASSUME NEW q \in Requests, ReturnLease(q) PROVE Grant(r)
  <2>0. stage \in [Requests -> Stages]
    BY DEF Shape, OtherValues
  <2>1. QED
    BY <1>11, <2>0 DEF ReturnLease, Granted, MoveTo
<1>12. ASSUME NEW q \in Requests, ReturnNothing(q) PROVE Grant(r)
  <2>0. stage \in [Requests -> Stages]
    BY DEF Shape, OtherValues
  <2>1. QED
    BY <1>12, <2>0 DEF ReturnNothing, Granted, MoveTo
<1>13. ASSUME NEW q \in Requests, BeginRecovery(q) PROVE Grant(r)
  <2>0. stage \in [Requests -> Stages]
    BY DEF Shape, OtherValues
  <2>1. QED
    BY <1>13, <2>0 DEF BeginRecovery, Granted, MoveTo
<1>14. ASSUME NEW q \in Requests, Enlist(q) PROVE Grant(r)
  <2>0. stage \in [Requests -> Stages]
    BY DEF Shape, OtherValues
  <2>1. QED
    BY <1>14, <2>0 DEF Enlist, Granted, MoveTo
<1>15. ASSUME NEW q \in Requests, EndRecovery(q) PROVE Grant(r)
  <2>0. stage \in [Requests -> Stages]
    BY DEF Shape, OtherValues
  <2>1. QED
    BY <1>15, <2>0 DEF EndRecovery, Granted, MoveTo
<1>16. ASSUME NEW q \in Requests, GiveUp(q) PROVE Grant(r)
  <2>0. stage \in [Requests -> Stages]
    BY DEF Shape, OtherValues
  <2>1. QED
    BY <1>16, <2>0 DEF GiveUp, Granted, MoveTo
<1>17. ASSUME NEW q \in Requests, Settle(q) PROVE Grant(r)
  <2>0. stage \in [Requests -> Stages]
    BY DEF Shape, OtherValues
  <2>1. QED
    BY <1>17, <2>0 DEF Settle, Granted, MoveTo
<1>18. ASSUME NEW q \in Requests, ReleaseReservation(q) PROVE Grant(r)
  <2>0. stage \in [Requests -> Stages]
    BY DEF Shape, OtherValues
  <2>1. QED
    BY <1>18, <2>0 DEF ReleaseReservation, Granted, MoveTo
<1>19. ASSUME NEW q \in Requests, AnnounceRelease(q) PROVE Grant(r)
  <2>0. stage \in [Requests -> Stages]
    BY DEF Shape, OtherValues
  <2>1. QED
    BY <1>19, <2>0 DEF AnnounceRelease, Granted, MoveTo
<1>20. ASSUME NEW q \in Requests, Arrive(q) PROVE Grant(r)
  <2>0. stage \in [Requests -> Stages]
    BY DEF Shape, OtherValues
  <2>1. QED
    BY <1>20, <2>0 DEF Arrive, Granted, MoveTo
<1>21. ASSUME NEW q \in Requests, Cancel(q) PROVE Grant(r)
  <2>0. stage \in [Requests -> Stages]
    BY DEF Shape, OtherValues
  <2>1. QED
    BY <1>21, <2>0 DEF Cancel, Granted, MoveTo
<1>22. ASSUME NEW q \in Requests, UseUpWait(q) PROVE Grant(r)
  <2>0. stage \in [Requests -> Stages]
    BY DEF Shape, OtherValues
  <2>1. QED
    BY <1>22, <2>0 DEF UseUpWait, Granted, MoveTo
<1>23. ASSUME NEW m \in Members, EndCooldown(m) PROVE Grant(r)
  <2>0. stage \in [Requests -> Stages]
    BY DEF Shape, OtherValues
  <2>1. QED
    BY <1>23, <2>0 DEF EndCooldown, Granted, MoveTo
<1>24. ASSUME NEW m \in Members, NEW s \in {"up", "blocked"}, UpdateMember(m, s) PROVE Grant(r)
  <2>0. stage \in [Requests -> Stages]
    BY DEF Shape, OtherValues
  <2>1. QED
    BY <1>24, <2>0 DEF UpdateMember, Granted, MoveTo, Change
<1>25. ASSUME NEW qs \in HiddenSets, SetHidden(qs) PROVE Grant(r)
  <2>0. stage \in [Requests -> Stages]
    BY DEF Shape, OtherValues
  <2>1. QED
    BY <1>25, <2>0 DEF SetHidden, Granted, MoveTo, Change
<1>26. ASSUME NEW b \in BOOLEAN, SetRecoveryEnabled(b) PROVE Grant(r)
  <2>0. stage \in [Requests -> Stages]
    BY DEF Shape, OtherValues
  <2>1. QED
    BY <1>26, <2>0 DEF SetRecoveryEnabled, Granted, MoveTo, Change
<1>27. CASE RetireForReplacement
  <2>0. stage \in [Requests -> Stages]
    BY DEF Shape, OtherValues
  <2>1. QED
    BY <1>27, <2>0 DEF RetireForReplacement, Granted, MoveTo, Change
<1>28. ASSUME NEW channel \in Channels, Announce(channel) PROVE Grant(r)
  <2>0. stage \in [Requests -> Stages]
    BY DEF Shape, OtherValues
  <2>1. QED
    BY <1>28, <2>0 DEF Announce, Granted, MoveTo
<1>29. QED
  BY <1>1, <1>2, <1>3, <1>4, <1>5, <1>6, <1>7, <1>8, <1>9, <1>10, <1>11, <1>12, <1>13,
     <1>14, <1>15, <1>16, <1>17, <1>18, <1>19, <1>20, <1>21, <1>22, <1>23, <1>24,
     <1>25, <1>26, <1>27, <1>28
     DEF Next, Driving, Enter, Decide, Return, AwaitRecovery, EndLease, Configuring

\* An admission passes no older waiter of its principal that could go when the
\* turn was computed, and one that never waited passes nobody who could.
THEOREM GrantsOrdered == Spec => GrantsInOrder
<1>1. Init => SectionInv
  BY DEF Init, SectionInv, FreeSection
<1>2. Shape /\ SectionInv /\ [Next]_vars => SectionInv'
  BY SectionStep
<1>3. ASSUME Shape, SectionInv, [Next]_vars, NEW q \in Requests, Granted(q),
             NEW w \in section.ready \ {q}
      PROVE  q \in Waiting /\ (PrincipalOf[w] = PrincipalOf[q] => Precedes(q, w))
  <2>1. Grant(q)
    BY <1>3, GrantedByGrant
  <2>2. w \in Selecting \ section.unready
    BY <1>3 DEF SectionInv
  <2>3. section.turn = q
    BY <1>3, <2>1, <2>2, AdmissionAssumption DEF Grant, TurnKnown
  <2>4. q # Nobody
    BY AdmissionAssumption
  <2>5. q \in Selecting /\ ~Precedes(w, q)
    BY <1>3, <2>2, <2>3, <2>4 DEF SectionInv
  <2>6. q \in Waiting /\ w \in Waiting
    BY <1>3, <2>2, <2>5, QueueBasics DEF Shape
  <2>7. QED
    BY <1>3, <2>5, <2>6, PrecedesOrder DEF Shape
<1>4. Shape /\ SectionInv /\ [Next]_vars =>
        \A q \in Requests : Granted(q) =>
          \A w \in section.ready \ {q} :
            /\ q \in Waiting
            /\ PrincipalOf[w] = PrincipalOf[q] => Precedes(q, w)
  BY <1>3
<1>5. QED
  BY <1>1, <1>2, <1>4, ShapeHolds, PTL DEF Spec, GrantsInOrder

-----------------------------------------------------------------------------
(* Nobody is served twice past another's ready waiter *)

\* A principal keeps its place while its requests wait.
LEMMA ListedPrincipals ==
  ASSUME QueueValues, QueueValues', Waiting \subseteq Waiting'
  PROVE  \A p : (\E i \in DOMAIN principals : principals[i] = p)
                  => \E i \in DOMAIN principals' : principals'[i] = p
<1>1. /\ {principals[i] : i \in DOMAIN principals} = {PrincipalOf[q] : q \in Waiting}
      /\ {principals'[i] : i \in DOMAIN principals'} = {PrincipalOf[q] : q \in Waiting'}
  BY DEF QueueValues
<1>2. QED
  BY <1>1

\* New places are behind the old ones.
LEMMA BypassOnInsert ==
  ASSUME BypassInv, passed' = passed,
         DOMAIN principals \subseteq DOMAIN principals',
         \A i \in DOMAIN principals : principals'[i] = principals[i],
         \A i \in DOMAIN principals, j \in DOMAIN principals' \ DOMAIN principals : i < j,
         Distinct(principals')
  PROVE  BypassInv'
<1> SUFFICES ASSUME NEW p \in Principals, NEW x \in Principals, passed[p][x] # 0
             PROVE  /\ passed[p][x] = 1
                    /\ \E i \in DOMAIN principals' : principals'[i] = p
                    /\ \A i, j \in DOMAIN principals' : principals'[i] = p /\ principals'[j] = x => i < j
  BY DEF BypassInv
<1>1. PICK k \in DOMAIN principals : principals[k] = p
  BY DEF BypassInv
<1>2. passed[p][x] = 1
  BY DEF BypassInv
<1>3. ASSUME NEW i \in DOMAIN principals', NEW j \in DOMAIN principals',
             principals'[i] = p, principals'[j] = x
      PROVE  i < j
  <2>1. i = k
    BY <1>1, <1>3 DEF Distinct
  <2>2. CASE j \in DOMAIN principals
    BY <1>1, <1>3, <2>1, <2>2 DEF BypassInv
  <2>3. CASE j \notin DOMAIN principals
    BY <1>1, <1>3, <2>1, <2>3
  <2>4. QED
    BY <2>2, <2>3
<1>4. QED
  BY <1>1, <1>2, <1>3

\* Who passed whom when a waiter leaves: its principal's counts are forgotten
\* with its place.
LEMMA BypassOnDrop ==
  ASSUME Shape, BypassInv, NEW q \in Requests, DropGuard(q)
  PROVE  BypassInv'
<1>1. QueueValues /\ QueueValues' /\ Waiting' = Waiting \ {q} /\ Sublist(principals', principals)
  BY DropStep DEF Shape
<1>2. CASE q \notin Waiting
  <2>1. principals' = principals /\ passed' = passed
    BY <1>2, DropStep DEF Shape, queueVars
  <2>2. QED
    BY <2>1 DEF BypassInv
<1>3. CASE q \in Waiting
  <2>1. passed' = Forgotten(q) /\ \A p : OfPrincipal(p)' = {} <=> OfPrincipal(p) \subseteq {q}
    BY <1>3, DropStep DEF Shape
  <2>2. PrincipalOf[q] \in Principals /\ passed \in [Principals -> [Principals -> 0..2]]
    BY AdmissionAssumption DEF Shape, OtherValues
  <2> SUFFICES ASSUME NEW p \in Principals, NEW x \in Principals, passed'[p][x] # 0
               PROVE  /\ passed'[p][x] = 1
                      /\ \E i \in DOMAIN principals' : principals'[i] = p
                      /\ \A i, j \in DOMAIN principals' : principals'[i] = p /\ principals'[j] = x => i < j
    BY DEF BypassInv
  <2>3. passed'[p][x] = passed[p][x] /\ ~(p = PrincipalOf[q] /\ OfPrincipal(p) \subseteq {q})
    BY <2>1, <2>2 DEF Forgotten
  <2>4. passed[p][x] = 1 /\ \E i \in DOMAIN principals : principals[i] = p
    BY <2>3 DEF BypassInv
  <2>5. \E i \in DOMAIN principals' : principals'[i] = p
    <3>1. OfPrincipal(p) # {}
      BY <1>1, <2>4, QueueBasics
    <3>2. ~(OfPrincipal(p) \subseteq {q})
      BY <2>3, <3>1 DEF OfPrincipal
    <3>3. OfPrincipal(p)' # {}
      BY <2>1, <3>2
    <3>4. p \in {PrincipalOf[r] : r \in Waiting'}
      BY <3>3 DEF OfPrincipal
    <3>5. QED
      BY <1>1, <3>4 DEF QueueValues
  <2>6. ASSUME NEW i \in DOMAIN principals', NEW j \in DOMAIN principals',
               principals'[i] = p, principals'[j] = x
        PROVE  i < j
    <3>1. PICK k \in DOMAIN principals, l \in DOMAIN principals :
            principals'[i] = principals[k] /\ principals'[j] = principals[l] /\ (i < j <=> k < l)
      BY <1>1, <2>6 DEF Sublist
    <3>2. k < l
      BY <2>3, <2>6, <3>1 DEF BypassInv
    <3>3. QED
      BY <3>1, <3>2
  <2>7. QED
    BY <2>3, <2>4, <2>5, <2>6
<1>4. QED
  BY <1>2, <1>3

\* A principal that was passed over and can still go has the turn before the one
\* served: it is not passed over again.
LEMMA BypassOnGrant ==
  ASSUME Shape, SectionInv, BypassInv, NEW q \in Requests, Grant(q)
  PROVE  BypassInv'
<1> DEFINE P == PrincipalOf[q]
<1>1. /\ P \in Principals /\ q # Nobody /\ passed \in [Principals -> [Principals -> 0..2]]
      /\ passed' = PassOver(q) /\ principals' = ToBack(principals, P) /\ queue' = queue
  BY AdmissionAssumption DEF Shape, OtherValues, Grant
<1>2. /\ QueueValues /\ QueueValues' /\ Waiting' = Waiting
      /\ \A i, j \in DOMAIN principals' : principals'[i] # P =>
              \E k, l \in DOMAIN principals :
                /\ principals'[i] = principals[k] /\ principals'[j] = principals[l]
                /\ principals'[j] = P => i < j
                /\ principals'[j] # P => (i < j <=> k < l)
  BY <1>1, ServeStep DEF Shape
<1> HIDE DEF P
<1>3. ASSUME NEW w \in section.ready, PrincipalOf[w] # P
      PROVE  /\ \E i \in DOMAIN principals : principals[i] = PrincipalOf[w]
             /\ passed[PrincipalOf[w]][P] = 0
  <2>1. w \in Selecting \ section.unready
    BY <1>3 DEF SectionInv
  <2>2. section.turn = q
    BY <2>1 DEF Grant, TurnKnown
  <2>3. q \in Selecting /\ ~Precedes(w, q)
    BY <1>1, <2>1, <2>2 DEF SectionInv
  <2>4. q \in Waiting /\ w \in Waiting /\ Waiting \subseteq Requests
    BY <1>2, <2>1, <2>3, QueueBasics
  <2>5. /\ PlaceOf(P) \in DOMAIN principals /\ principals[PlaceOf(P)] = P
        /\ PlaceOf(PrincipalOf[w]) \in DOMAIN principals
        /\ principals[PlaceOf(PrincipalOf[w])] = PrincipalOf[w]
    BY <1>2, <2>4, PlaceProperties DEF P
  <2>6. ~(PlaceOf(PrincipalOf[w]) < PlaceOf(P))
    BY <2>3 DEF Precedes, P
  <2>7. PrincipalOf[w] \in Principals
    BY <2>4, AdmissionAssumption
  <2>8. passed[PrincipalOf[w]][P] = 0
    BY <1>1, <2>5, <2>6, <2>7 DEF BypassInv
  <2>9. QED
    BY <2>5, <2>8
<1> SUFFICES ASSUME NEW p \in Principals, NEW x \in Principals, passed'[p][x] # 0
             PROVE  /\ passed'[p][x] = 1
                    /\ \E i \in DOMAIN principals' : principals'[i] = p
                    /\ \A i, j \in DOMAIN principals' : principals'[i] = p /\ principals'[j] = x => i < j
  BY DEF BypassInv
<1>4. p # P
  BY <1>1 DEF PassOver, P
<1>5. /\ passed'[p][x] = 1
      /\ \E i \in DOMAIN principals : principals[i] = p
      /\ x # P => passed[p][x] # 0
  <2>1. CASE \E w \in section.ready : PrincipalOf[w] = p /\ Admissible(w, behind[q])
    <3>1. PICK w \in section.ready : PrincipalOf[w] = p
      BY <2>1
    <3>2. passed[p][P] = 0 /\ \E i \in DOMAIN principals : principals[i] = p
      BY <1>3, <1>4, <3>1
    <3>3. passed'[p] = [passed[p] EXCEPT ![P] = IF @ < 2 THEN @ + 1 ELSE 2]
      BY <1>1, <1>4, <2>1 DEF PassOver, P
    <3>4. CASE x = P
      <4>1. passed'[p][x] = 1
        BY <1>1, <3>2, <3>3, <3>4
      <4>2. QED
        BY <3>2, <3>4, <4>1
    <3>5. CASE x # P
      <4>1. passed'[p][x] = passed[p][x]
        BY <1>1, <3>3, <3>5
      <4>2. QED
        BY <3>2, <4>1 DEF BypassInv
    <3>6. QED
      BY <3>4, <3>5
  <2>2. CASE ~\E w \in section.ready : PrincipalOf[w] = p /\ Admissible(w, behind[q])
    <3>1. passed'[p] = passed[p]
      BY <1>1, <1>4, <2>2 DEF PassOver, P
    <3>2. QED
      BY <3>1 DEF BypassInv
  <2>3. QED
    BY <2>1, <2>2
<1>6. \E i \in DOMAIN principals' : principals'[i] = p
  BY <1>2, <1>5, ListedPrincipals
<1>7. ASSUME NEW i \in DOMAIN principals', NEW j \in DOMAIN principals',
             principals'[i] = p, principals'[j] = x
      PROVE  i < j
  <2>1. PICK k \in DOMAIN principals, l \in DOMAIN principals :
          /\ principals'[i] = principals[k] /\ principals'[j] = principals[l]
          /\ principals'[j] = P => i < j
          /\ principals'[j] # P => (i < j <=> k < l)
    BY <1>2, <1>4, <1>7
  <2>2. x # P => k < l
    BY <1>5, <1>7, <2>1 DEF BypassInv
  <2>3. QED
    BY <1>7, <2>1, <2>2
<1>8. QED
  BY <1>5, <1>6, <1>7

\* Every step keeps the passed-over principals in front.
LEMMA BypassStep ==
  ASSUME Shape, SectionInv, BypassInv, [Next]_vars
  PROVE  BypassInv'
<1>1. CASE UNCHANGED vars
  <2>1. UNCHANGED <<principals, passed>>
    BY <1>1 DEF vars
  <2>2. QED
    BY <2>1 DEF BypassInv
<1>2. ASSUME NEW q \in Requests, Admit(q) PROVE BypassInv'
  <2>1. UNCHANGED <<principals, passed>>
    BY <1>2 DEF Admit, queueVars, Subscribe
  <2>2. QED
    BY <2>1 DEF BypassInv
<1>3. ASSUME NEW q \in Requests, Resume(q) PROVE BypassInv'
  <2>1. UNCHANGED <<principals, passed>>
    BY <1>3 DEF Resume, queueVars, Subscribe
  <2>2. QED
    BY <2>1 DEF BypassInv
<1>4. ASSUME NEW q \in Requests, EnterSaturated(q) PROVE BypassInv'
  <2>1. /\ DOMAIN principals \subseteq DOMAIN principals'
        /\ \A i \in DOMAIN principals : principals'[i] = principals[i]
        /\ \A i \in DOMAIN principals, j \in DOMAIN principals' \ DOMAIN principals : i < j
        /\ QueueValues'
    BY <1>4, RegisterStep DEF EnterSaturated, Shape
  <2>2. passed' = passed /\ Distinct(principals')
    BY <1>4, <2>1 DEF EnterSaturated, QueueValues
  <2>3. QED
    BY <2>1, <2>2, BypassOnInsert
<1>5. ASSUME NEW q \in Requests, EnterSection(q) PROVE BypassInv'
  <2>1. UNCHANGED <<principals, passed>>
    BY <1>5 DEF EnterSection, queueVars
  <2>2. QED
    BY <2>1 DEF BypassInv
<1>6. ASSUME NEW q \in Requests, Scan(q) PROVE BypassInv'
  <2>1. UNCHANGED <<principals, passed>>
    BY <1>6 DEF Scan, queueVars
  <2>2. QED
    BY <2>1 DEF BypassInv
<1>7. ASSUME NEW q \in Requests, Grant(q) PROVE BypassInv'
  BY <1>7, BypassOnGrant
<1>8. ASSUME NEW q \in Requests, FindNothing(q) PROVE BypassInv'
  <2>1. /\ DOMAIN principals \subseteq DOMAIN principals'
        /\ \A i \in DOMAIN principals : principals'[i] = principals[i]
        /\ \A i \in DOMAIN principals, j \in DOMAIN principals' \ DOMAIN principals : i < j
        /\ QueueValues'
    BY <1>8, RegisterStep DEF FindNothing, Shape
  <2>2. passed' = passed /\ Distinct(principals')
    BY <1>8, <2>1 DEF FindNothing, QueueValues
  <2>3. QED
    BY <2>1, <2>2, BypassOnInsert
<1>9. ASSUME NEW q \in Requests, Yield(q) PROVE BypassInv'
  <2>1. /\ DOMAIN principals \subseteq DOMAIN principals'
        /\ \A i \in DOMAIN principals : principals'[i] = principals[i]
        /\ \A i \in DOMAIN principals, j \in DOMAIN principals' \ DOMAIN principals : i < j
        /\ QueueValues'
    BY <1>9, RegisterStep DEF Yield, Shape
  <2>2. passed' = passed /\ Distinct(principals')
    BY <1>9, <2>1 DEF Yield, QueueValues
  <2>3. QED
    BY <2>1, <2>2, BypassOnInsert
<1>10. ASSUME NEW q \in Requests, FallAsleep(q) PROVE BypassInv'
  <2>1. UNCHANGED <<principals, passed>>
    BY <1>10 DEF FallAsleep, queueVars
  <2>2. QED
    BY <2>1 DEF BypassInv
<1>11. ASSUME NEW q \in Requests, ReturnLease(q) PROVE BypassInv'
  BY <1>11, BypassOnDrop DEF ReturnLease
<1>12. ASSUME NEW q \in Requests, ReturnNothing(q) PROVE BypassInv'
  BY <1>12, BypassOnDrop DEF ReturnNothing
<1>13. ASSUME NEW q \in Requests, BeginRecovery(q) PROVE BypassInv'
  <2>1. UNCHANGED <<principals, passed>>
    BY <1>13 DEF BeginRecovery, queueVars
  <2>2. QED
    BY <2>1 DEF BypassInv
<1>14. ASSUME NEW q \in Requests, Enlist(q) PROVE BypassInv'
  <2>1. passed' = passed
    BY <1>14 DEF Enlist
  <2>2. CASE Room(q)
    <3>1. /\ DOMAIN principals \subseteq DOMAIN principals'
          /\ \A i \in DOMAIN principals : principals'[i] = principals[i]
          /\ \A i \in DOMAIN principals, j \in DOMAIN principals' \ DOMAIN principals : i < j
          /\ QueueValues'
      BY <1>14, <2>2, InsertStep DEF Enlist, Shape
    <3>2. Distinct(principals')
      BY <3>1 DEF QueueValues
    <3>3. QED
      BY <2>1, <3>1, <3>2, BypassOnInsert
  <2>3. CASE ~Room(q)
    <3>1. principals' = principals
      BY <1>14, <2>3 DEF Enlist, queueVars
    <3>2. QED
      BY <2>1, <3>1 DEF BypassInv
  <2>4. QED
    BY <2>2, <2>3
<1>15. ASSUME NEW q \in Requests, EndRecovery(q) PROVE BypassInv'
  BY <1>15, BypassOnDrop DEF EndRecovery
<1>16. ASSUME NEW q \in Requests, GiveUp(q) PROVE BypassInv'
  <2>1. UNCHANGED <<principals, passed>>
    BY <1>16 DEF GiveUp, queueVars
  <2>2. QED
    BY <2>1 DEF BypassInv
<1>17. ASSUME NEW q \in Requests, Settle(q) PROVE BypassInv'
  <2>1. UNCHANGED <<principals, passed>>
    BY <1>17 DEF Settle, queueVars
  <2>2. QED
    BY <2>1 DEF BypassInv
<1>18. ASSUME NEW q \in Requests, ReleaseReservation(q) PROVE BypassInv'
  <2>1. UNCHANGED <<principals, passed>>
    BY <1>18 DEF ReleaseReservation, queueVars
  <2>2. QED
    BY <2>1 DEF BypassInv
<1>19. ASSUME NEW q \in Requests, AnnounceRelease(q) PROVE BypassInv'
  <2>1. UNCHANGED <<principals, passed>>
    BY <1>19 DEF AnnounceRelease, queueVars
  <2>2. QED
    BY <2>1 DEF BypassInv
<1>20. ASSUME NEW q \in Requests, Arrive(q) PROVE BypassInv'
  <2>1. UNCHANGED <<principals, passed>>
    BY <1>20 DEF Arrive, queueVars
  <2>2. QED
    BY <2>1 DEF BypassInv
<1>21. ASSUME NEW q \in Requests, Cancel(q) PROVE BypassInv'
  BY <1>21, BypassOnDrop DEF Cancel
<1>22. ASSUME NEW q \in Requests, UseUpWait(q) PROVE BypassInv'
  <2>1. UNCHANGED <<principals, passed>>
    BY <1>22 DEF UseUpWait, queueVars
  <2>2. QED
    BY <2>1 DEF BypassInv
<1>23. ASSUME NEW m \in Members, EndCooldown(m) PROVE BypassInv'
  <2>1. UNCHANGED <<principals, passed>>
    BY <1>23 DEF EndCooldown, queueVars
  <2>2. QED
    BY <2>1 DEF BypassInv
<1>24. ASSUME NEW m \in Members, NEW s \in {"up", "blocked"}, UpdateMember(m, s) PROVE BypassInv'
  <2>1. UNCHANGED <<principals, passed>>
    BY <1>24 DEF UpdateMember, queueVars, Change
  <2>2. QED
    BY <2>1 DEF BypassInv
<1>25. ASSUME NEW qs \in HiddenSets, SetHidden(qs) PROVE BypassInv'
  <2>1. UNCHANGED <<principals, passed>>
    BY <1>25 DEF SetHidden, queueVars, Change
  <2>2. QED
    BY <2>1 DEF BypassInv
<1>26. ASSUME NEW b \in BOOLEAN, SetRecoveryEnabled(b) PROVE BypassInv'
  <2>1. UNCHANGED <<principals, passed>>
    BY <1>26 DEF SetRecoveryEnabled, queueVars, Change
  <2>2. QED
    BY <2>1 DEF BypassInv
<1>27. CASE RetireForReplacement
  <2>1. UNCHANGED <<principals, passed>>
    BY <1>27 DEF RetireForReplacement, queueVars, Change
  <2>2. QED
    BY <2>1 DEF BypassInv
<1>28. ASSUME NEW channel \in Channels, Announce(channel) PROVE BypassInv'
  <2>1. UNCHANGED <<principals, passed>>
    BY <1>28 DEF Announce, queueVars
  <2>2. QED
    BY <2>1 DEF BypassInv
<1>29. QED
  BY <1>1, <1>2, <1>3, <1>4, <1>5, <1>6, <1>7, <1>8, <1>9, <1>10, <1>11, <1>12, <1>13,
     <1>14, <1>15, <1>16, <1>17, <1>18, <1>19, <1>20, <1>21, <1>22, <1>23, <1>24,
     <1>25, <1>26, <1>27, <1>28
     DEF Next, Driving, Enter, Decide, Return, AwaitRecovery, EndLease, Configuring

\* While a principal has a waiter that could go, no other principal is served
\* twice before it, however requests arrive, leave, sleep and wake.
THEOREM BypassBounded == Spec => []BoundedBypass
<1>1. Init => SectionInv /\ BypassInv
  BY DEF Init, SectionInv, FreeSection, BypassInv
<1>2. Shape /\ Shape' /\ SectionInv /\ BypassInv /\ [Next]_vars => SectionInv' /\ BypassInv'
  BY SectionStep, BypassStep
<1>3. Shape /\ BypassInv => BoundedBypass
  <2> SUFFICES ASSUME Shape, BypassInv, NEW p \in Principals, NEW x \in Principals
               PROVE  passed[p][x] <= 1
    BY DEF BoundedBypass
  <2>1. passed[p][x] \in 0..2 /\ (passed[p][x] # 0 => passed[p][x] = 1)
    BY DEF Shape, OtherValues, BypassInv
  <2>2. QED
    BY <2>1
<1>4. QED
  BY <1>1, <1>2, <1>3, ShapeHolds, PTL DEF Spec

-----------------------------------------------------------------------------
(* The requests of one principal do not wait for each other *)

\* A waiter that selects is inside admit; the others wait for a recovery.
KindInv == \A q \in Waiting : q \in Selecting <=> stage[q] # "recovering"

\* The guard of v will be dropped before long, and its drop wakes the others.
Going(v) == v \in Waiting /\ (stage[v] \in {"granted", "leaving"} \/ Expired(v))

\* No wake-up is on its way.
Still == Calm /\ \A v \in Requests : ~Going(v)

\* Drivers that wait for another's turn, and the one that may find that it has to.
Deferred == {q \in Requests \ woken : stage[q] \in {"scanning", "deferring", "yielded"}}

\* What the owner of the section found out holds for its clock to the end.
ComputedInv ==
  Still /\ Deferred # {} /\ section.owner # Nobody =>
    /\ section.turn # Nobody => Admissible(section.turn, behind[section.owner])
    /\ \A v \in section.unready : ~Admissible(v, behind[section.owner])

\* The members whose recovery a driver has not seen.
Unseen(q) == IF stage[q] = "yielded" THEN {} ELSE behind[q]

\* v came to the queue before w.
Before(v, w) == \E i, j \in DOMAIN queue : i < j /\ queue[i].request = v /\ queue[j].request = w

\* Somebody older can go, if q can.
Excused(q) ==
  Admissible(q, Unseen(q)) => \E v \in Selecting : Before(v, q) /\ Admissible(v, Unseen(q))

YieldInv ==
  Still => \A q \in Deferred :
    /\ stage[q] # "scanning" => Excused(q)
    /\ stage[q] = "yielded" => \A m \in Eligible[q] : ~retired /\ status[m] = "cooling" => m \in due[q]

\* With one principal the order of turns is that of the queue.
LEMMA PrecedesBefore ==
  ASSUME QueueValues, NEW v \in Waiting, NEW w \in Waiting, PrincipalOf[v] = PrincipalOf[w],
         Precedes(v, w)
  PROVE  Before(v, w)
<1>1. PlaceOf(PrincipalOf[v]) \in Nat
  <2>1. PlaceOf(PrincipalOf[v]) \in DOMAIN principals
    BY PlaceProperties
  <2>2. QED
    BY <2>1, QueueBasics
<1>2. IndexOf(v) < IndexOf(w)
  BY <1>1 DEF Precedes
<1>3. /\ IndexOf(v) \in DOMAIN queue /\ queue[IndexOf(v)].request = v
      /\ IndexOf(w) \in DOMAIN queue /\ queue[IndexOf(w)].request = w
  BY IndexProperties
<1>4. QED
  BY <1>2, <1>3 DEF Before

\* A queue that is left alone keeps its order.
LEMMA BeforeKept ==
  ASSUME UNCHANGED queue
  PROVE  \A v, w : Before(v, w)' <=> Before(v, w)
BY DEF Before

\* A waiter is queued behind the others.
LEMMA EnqueuedLast ==
  ASSUME QueueValues, NEW q \in Requests, NEW b \in BOOLEAN,
         queue' = Append(queue, [request |-> q, selecting |-> b])
  PROVE  /\ \A v, w : Before(v, w) => Before(v, w)'
         /\ \A v \in Waiting : Before(v, q)'
<1> DEFINE new == [request |-> q, selecting |-> b]
           n == Len(queue)
<1>1. new \in Waiter /\ new.request = q
  BY DEF Waiter
<1>2. n \in Nat /\ DOMAIN queue = 1..n /\ queue \in Seq(Waiter)
  BY QueueBasics DEF QueueValues
<1> HIDE DEF new
<1>3. /\ queue' \in Seq(Waiter) /\ Len(queue') = n + 1
      /\ \A i \in 1..n : queue'[i] = queue[i]
      /\ queue'[n + 1] = new
  BY <1>1, <1>2, AppendProperties DEF new
<1>4. DOMAIN queue' = 1..(n + 1)
  BY <1>2, <1>3
<1> HIDE DEF n
<1>5. ASSUME NEW v, NEW w, Before(v, w) PROVE Before(v, w)'
  <2>1. PICK i \in DOMAIN queue, j \in DOMAIN queue :
          i < j /\ queue[i].request = v /\ queue[j].request = w
    BY <1>5 DEF Before
  <2>2. i \in DOMAIN queue' /\ j \in DOMAIN queue' /\ queue'[i] = queue[i] /\ queue'[j] = queue[j]
    BY <1>2, <1>3, <1>4
  <2>3. QED
    BY <2>1, <2>2 DEF Before
<1>6. ASSUME NEW v \in Waiting PROVE Before(v, q)'
  <2>1. PICK i \in DOMAIN queue : queue[i].request = v
    BY DEF Waiting
  <2>2. i \in DOMAIN queue' /\ n + 1 \in DOMAIN queue' /\ i < n + 1 /\ queue'[i] = queue[i]
    BY <1>2, <1>3, <1>4
  <2>3. QED
    BY <1>1, <1>3, <2>1, <2>2 DEF Before
<1>7. QED
  BY <1>5, <1>6

\* What register_waiter does to the waiters and their order.
LEMMA RegisterOrder ==
  ASSUME Shape, NEW q \in Requests, NEW busy, NEW s, RegisterOrLeave(q, busy, s)
  PROVE  /\ \A w \in Waiting : stopped'[w] = stopped[w]
         /\ \A v, w : Before(v, w) => Before(v, w)'
         /\ \/ Waiting' = Waiting /\ Selecting' = Selecting
            \/ /\ q \notin Waiting /\ Waiting' = Waiting \cup {q} /\ Selecting' = Selecting \cup {q}
               /\ \A v \in Waiting : Before(v, q)'
         /\ \/ stage' = [stage EXCEPT ![q] = s] /\ q \in Waiting'
            \/ stage' = [stage EXCEPT ![q] = "leaving"]
<1>1. CASE busy /\ q \notin Waiting /\ Room(q)
  <2>1. Insert(q, TRUE) /\ stage' = [stage EXCEPT ![q] = s] /\ UNCHANGED stopped
    BY <1>1 DEF RegisterOrLeave, Register, MoveTo
  <2>2. Waiting' = Waiting \cup {q} /\ Selecting' = Selecting \cup {q}
    BY <1>1, <2>1, InsertStep DEF Shape
  <2>3. queue' = Append(queue, [request |-> q, selecting |-> TRUE])
    BY <2>1 DEF Insert
  <2>4. (\A v, w : Before(v, w) => Before(v, w)') /\ \A v \in Waiting : Before(v, q)'
    BY <2>3, EnqueuedLast DEF Shape
  <2>5. QED
    BY <1>1, <2>1, <2>2, <2>4
<1>2. CASE busy /\ q \in Waiting
  <2>1. stage' = [stage EXCEPT ![q] = s] /\ UNCHANGED queueVars /\ UNCHANGED stopped
    BY <1>2 DEF RegisterOrLeave, Register, MoveTo
  <2>2. UNCHANGED queue
    BY <2>1 DEF queueVars
  <2>3. QED
    BY <1>2, <2>1, <2>2, QueueKept, BeforeKept
<1>3. CASE ~busy \/ (q \notin Waiting /\ ~Room(q))
  <2>1. stage' = [stage EXCEPT ![q] = "leaving"] /\ UNCHANGED queueVars
    BY <1>3 DEF RegisterOrLeave, Register, MoveTo
  <2>2. UNCHANGED queue
    BY <2>1 DEF queueVars
  <2>3. stopped \in [Requests -> Stops] /\ Waiting \subseteq Requests
    BY QueueBasics DEF Shape, OtherValues
  <2>4. \A w \in Waiting : stopped'[w] = stopped[w]
    BY <1>3, <2>3 DEF RegisterOrLeave, Register, Stop
  <2>5. QED
    BY <2>1, <2>2, <2>4, QueueKept, BeforeKept
<1>4. QED
  BY <1>1, <1>2, <1>3

\* Every step keeps the two kinds of waiters apart.
LEMMA KindKept ==
  ASSUME KindInv, UNCHANGED queue,
         \A w \in Waiting : stage'[w] = "recovering" <=> stage[w] = "recovering"
  PROVE  KindInv'
<1>1. Waiting' = Waiting /\ Selecting' = Selecting
  BY DEF Waiting, Selecting
<1>2. QED
  BY <1>1 DEF KindInv

LEMMA KindStep ==
  ASSUME Shape, KindInv, [Next]_vars
  PROVE  KindInv'
<1>0. stage \in [Requests -> Stages] /\ Waiting \subseteq Requests /\ Selecting \subseteq Waiting
  BY QueueBasics DEF Shape, OtherValues
<1>1. CASE UNCHANGED vars
  <2>1. UNCHANGED <<queue, stage>>
    BY <1>1 DEF vars
  <2>2. QED
    BY <2>1, KindKept
<1>2. ASSUME NEW q \in Requests, Admit(q) PROVE KindInv'
  <2>1. UNCHANGED queue
    BY <1>2 DEF Admit, queueVars, Subscribe
  <2>2. \A w \in Requests : stage'[w] = "recovering" <=> stage[w] = "recovering"
    BY <1>2, <1>0 DEF Admit, Subscribe, MoveTo
  <2>3. QED
    BY <1>0, <2>1, <2>2, KindKept
<1>3. ASSUME NEW q \in Requests, Resume(q) PROVE KindInv'
  <2>1. UNCHANGED queue
    BY <1>3 DEF Resume, queueVars, Subscribe
  <2>2. \A w \in Requests : stage'[w] = "recovering" <=> stage[w] = "recovering"
    BY <1>3, <1>0 DEF Resume, Subscribe, MoveTo, Asleep
  <2>3. QED
    BY <1>0, <2>1, <2>2, KindKept
<1>4. ASSUME NEW q \in Requests, EnterSaturated(q) PROVE KindInv'
  <2>1. stage[q] \in {"inspecting", "scanning"}
    BY <1>4 DEF EnterSaturated, Shape, DriversMatch
  <2>2. RegisterOrLeave(q, CapacityBlocked(q), "unserved")
    BY <1>4 DEF EnterSaturated
  <2>3. \A w \in Requests : stage'[w] = "recovering" <=> stage[w] = "recovering"
    BY <1>0, <2>1, <2>2, RegisterOrder
  <2>4. QED
    BY <1>0, <2>1, <2>2, <2>3, RegisterOrder DEF KindInv
<1>5. ASSUME NEW q \in Requests, EnterSection(q) PROVE KindInv'
  <2>1. UNCHANGED queue
    BY <1>5 DEF EnterSection, queueVars
  <2>2. \A w \in Requests : stage'[w] = "recovering" <=> stage[w] = "recovering"
    BY <1>5, <1>0 DEF EnterSection, MoveTo
  <2>3. QED
    BY <1>0, <2>1, <2>2, KindKept
<1>6. ASSUME NEW q \in Requests, Scan(q) PROVE KindInv'
  <2>1. UNCHANGED queue
    BY <1>6 DEF Scan, queueVars
  <2>2. \A w \in Requests : stage'[w] = "recovering" <=> stage[w] = "recovering"
    BY <1>6, <1>0 DEF Scan
  <2>3. QED
    BY <1>0, <2>1, <2>2, KindKept
<1>7. ASSUME NEW q \in Requests, Grant(q) PROVE KindInv'
  <2>1. UNCHANGED queue
    BY <1>7 DEF Grant, queueVars
  <2>2. \A w \in Requests : stage'[w] = "recovering" <=> stage[w] = "recovering"
    BY <1>7, <1>0 DEF Grant, MoveTo, Shape, DriversMatch
  <2>3. QED
    BY <1>0, <2>1, <2>2, KindKept
<1>8. ASSUME NEW q \in Requests, FindNothing(q) PROVE KindInv'
  <2>1. stage[q] \in {"inspecting", "scanning"}
    BY <1>8 DEF FindNothing, Shape, DriversMatch
  <2>2. RegisterOrLeave(q, CanDispatch(q) /\ q \notin hidden /\ CapacityBlocked(q), "unserved")
    BY <1>8 DEF FindNothing
  <2>3. \A w \in Requests : stage'[w] = "recovering" <=> stage[w] = "recovering"
    BY <1>0, <2>1, <2>2, RegisterOrder
  <2>4. QED
    BY <1>0, <2>1, <2>2, <2>3, RegisterOrder DEF KindInv
<1>9. ASSUME NEW q \in Requests, Yield(q) PROVE KindInv'
  <2>1. stage[q] \in {"inspecting", "scanning"}
    BY <1>9 DEF Yield, Shape, DriversMatch
  <2>2. RegisterOrLeave(q, ReadyMembers(q, behind[q]) # {} \/ CapacityBlocked(q), "deferring")
    BY <1>9 DEF Yield
  <2>3. \A w \in Requests : stage'[w] = "recovering" <=> stage[w] = "recovering"
    BY <1>0, <2>1, <2>2, RegisterOrder
  <2>4. QED
    BY <1>0, <2>1, <2>2, <2>3, RegisterOrder DEF KindInv
<1>10. ASSUME NEW q \in Requests, FallAsleep(q) PROVE KindInv'
  <2>1. UNCHANGED queue
    BY <1>10 DEF FallAsleep, queueVars
  <2>2. \A w \in Requests : stage'[w] = "recovering" <=> stage[w] = "recovering"
    BY <1>10, <1>0 DEF FallAsleep, MoveTo, AboutToSleep
  <2>3. QED
    BY <1>0, <2>1, <2>2, KindKept
<1>11. ASSUME NEW q \in Requests, ReturnLease(q) PROVE KindInv'
  <2>1. Waiting' = Waiting \ {q} /\ Selecting' = Selecting \ {q}
    BY <1>11, DropStep DEF ReturnLease, Shape
  <2>2. \A w \in Requests \ {q} : stage'[w] = stage[w]
    BY <1>11, <1>0 DEF ReturnLease, MoveTo
  <2>3. QED
    BY <1>0, <2>1, <2>2 DEF KindInv
<1>12. ASSUME NEW q \in Requests, ReturnNothing(q) PROVE KindInv'
  <2>1. Waiting' = Waiting \ {q} /\ Selecting' = Selecting \ {q}
    BY <1>12, DropStep DEF ReturnNothing, Shape
  <2>2. \A w \in Requests \ {q} : stage'[w] = stage[w]
    BY <1>12, <1>0 DEF ReturnNothing, MoveTo
  <2>3. QED
    BY <1>0, <2>1, <2>2 DEF KindInv
<1>13. ASSUME NEW q \in Requests, BeginRecovery(q) PROVE KindInv'
  <2>1. UNCHANGED queue
    BY <1>13 DEF BeginRecovery, queueVars
  <2>2. \A w \in Requests : stage'[w] = "recovering" <=> stage[w] = "recovering"
    BY <1>13, <1>0 DEF BeginRecovery, MoveTo
  <2>3. QED
    BY <1>0, <2>1, <2>2, KindKept
<1>14. ASSUME NEW q \in Requests, Enlist(q) PROVE KindInv'
  <2>1. CASE Room(q)
    <3>1. Insert(q, FALSE) /\ stage' = [stage EXCEPT ![q] = "recovering"] /\ q \notin Waiting
      BY <1>14, <2>1 DEF Enlist, MoveTo, Room
    <3>2. Waiting' = Waiting \cup {q} /\ Selecting' = Selecting
      BY <2>1, <3>1, InsertStep DEF Shape
    <3>3. QED
      BY <1>0, <3>1, <3>2 DEF KindInv
  <2>2. CASE ~Room(q)
    <3>1. UNCHANGED queue /\ stage[q] = "enlisting" /\ stage' = [stage EXCEPT ![q] = "gone"]
      BY <1>14, <2>2 DEF Enlist, MoveTo, queueVars
    <3>2. QED
      BY <1>0, <3>1, KindKept
  <2>3. QED
    BY <2>1, <2>2
<1>15. ASSUME NEW q \in Requests, EndRecovery(q) PROVE KindInv'
  <2>1. Waiting' = Waiting \ {q} /\ Selecting' = Selecting \ {q}
    BY <1>15, DropStep DEF EndRecovery, Shape
  <2>2. \A w \in Requests \ {q} : stage'[w] = stage[w]
    BY <1>15, <1>0 DEF EndRecovery, MoveTo
  <2>3. QED
    BY <1>0, <2>1, <2>2 DEF KindInv
<1>16. ASSUME NEW q \in Requests, GiveUp(q) PROVE KindInv'
  <2>1. UNCHANGED queue
    BY <1>16 DEF GiveUp, queueVars
  <2>2. \A w \in Requests : stage'[w] = "recovering" <=> stage[w] = "recovering"
    BY <1>16, <1>0 DEF GiveUp, MoveTo
  <2>3. QED
    BY <1>0, <2>1, <2>2, KindKept
<1>17. ASSUME NEW q \in Requests, Settle(q) PROVE KindInv'
  <2>1. UNCHANGED queue
    BY <1>17 DEF Settle, queueVars
  <2>2. \A w \in Requests : stage'[w] = "recovering" <=> stage[w] = "recovering"
    BY <1>17, <1>0 DEF Settle
  <2>3. QED
    BY <1>0, <2>1, <2>2, KindKept
<1>18. ASSUME NEW q \in Requests, ReleaseReservation(q) PROVE KindInv'
  <2>1. UNCHANGED queue
    BY <1>18 DEF ReleaseReservation, queueVars
  <2>2. \A w \in Requests : stage'[w] = "recovering" <=> stage[w] = "recovering"
    BY <1>18, <1>0 DEF ReleaseReservation
  <2>3. QED
    BY <1>0, <2>1, <2>2, KindKept
<1>19. ASSUME NEW q \in Requests, AnnounceRelease(q) PROVE KindInv'
  <2>1. UNCHANGED queue
    BY <1>19 DEF AnnounceRelease, queueVars
  <2>2. \A w \in Requests : stage'[w] = "recovering" <=> stage[w] = "recovering"
    BY <1>19, <1>0 DEF AnnounceRelease, MoveTo, Shape, DriversMatch
  <2>3. QED
    BY <1>0, <2>1, <2>2, KindKept
<1>20. ASSUME NEW q \in Requests, Arrive(q) PROVE KindInv'
  <2>1. UNCHANGED queue
    BY <1>20 DEF Arrive, queueVars
  <2>2. \A w \in Requests : stage'[w] = "recovering" <=> stage[w] = "recovering"
    BY <1>20, <1>0 DEF Arrive, MoveTo
  <2>3. QED
    BY <1>0, <2>1, <2>2, KindKept
<1>21. ASSUME NEW q \in Requests, Cancel(q) PROVE KindInv'
  <2>1. Waiting' = Waiting \ {q} /\ Selecting' = Selecting \ {q}
    BY <1>21, DropStep DEF Cancel, Shape
  <2>2. \A w \in Requests \ {q} : stage'[w] = stage[w]
    BY <1>21, <1>0 DEF Cancel, MoveTo
  <2>3. QED
    BY <1>0, <2>1, <2>2 DEF KindInv
<1>22. ASSUME NEW q \in Requests, UseUpWait(q) PROVE KindInv'
  <2>1. UNCHANGED queue
    BY <1>22 DEF UseUpWait, queueVars
  <2>2. \A w \in Requests : stage'[w] = "recovering" <=> stage[w] = "recovering"
    BY <1>22, <1>0 DEF UseUpWait
  <2>3. QED
    BY <1>0, <2>1, <2>2, KindKept
<1>23. ASSUME NEW m \in Members, EndCooldown(m) PROVE KindInv'
  BY <1>23, KindKept DEF EndCooldown, queueVars
<1>24. CASE Configuring
  <2>1. UNCHANGED <<queue, stage>>
    BY <1>24 DEF Configuring, UpdateMember, SetHidden, SetRecoveryEnabled, RetireForReplacement,
                 Announce, Change, queueVars
  <2>2. QED
    BY <2>1, KindKept
<1>25. QED
  BY <1>1, <1>2, <1>3, <1>4, <1>5, <1>6, <1>7, <1>8, <1>9, <1>10, <1>11, <1>12, <1>13,
     <1>14, <1>15, <1>16, <1>17, <1>18, <1>19, <1>20, <1>21, <1>22, <1>23, <1>24
     DEF Next, Driving, Enter, Decide, Return, AwaitRecovery, EndLease

\* A step that leaves the pool and the waiters as they are keeps what the
\* deferred drivers rely on.
LEMMA DeferKept ==
  ASSUME Shape, YieldInv, UNCHANGED <<status, retired, hidden, recoveryEnabled, lease>>,
         Still' => Still,
         \A r \in Deferred' : stage'[r] # "scanning" /\ Still' =>
            \/ r \in Deferred /\ stage'[r] = stage[r] /\ behind'[r] = behind[r] /\ due'[r] = due[r]
            \/ /\ Excused(r)'
               /\ \A m \in Eligible[r] : ~retired' /\ status'[m] = "cooling" => m \in due'[r]
            \/ stage'[r] = "deferring" /\ Excused(r)',
         Selecting \subseteq Selecting', \A v, w : Before(v, w) => Before(v, w)',
         Still' => \A w \in Waiting : stopped'[w] = stopped[w] /\ (Expired(w)' <=> Expired(w))
  PROVE  YieldInv'
<1>1. Selecting \subseteq Waiting /\ Waiting \subseteq Requests
  BY QueueBasics DEF Shape
<1>2. \A w, u : ReadyMembers(w, u)' = ReadyMembers(w, u)
  BY DEF ReadyMembers, Up, HasRoom, EngineFree, Leased, Reserved
<1>3. Still' => \A w \in Waiting : \A u : Admissible(w, u)' <=> Admissible(w, u)
  BY <1>2 DEF Admissible, CanDispatch
<1> SUFFICES ASSUME Still', NEW r \in Deferred', stage'[r] # "scanning",
                    r \in Deferred /\ stage'[r] = stage[r] /\ behind'[r] = behind[r] /\ due'[r] = due[r]
             PROVE  /\ Excused(r)'
                    /\ stage'[r] = "yielded" =>
                         \A m \in Eligible[r] : ~retired' /\ status'[m] = "cooling" => m \in due'[r]
  BY DEF YieldInv
<1>4. r \in Deferred /\ stage'[r] = stage[r] /\ due'[r] = due[r] /\ Unseen(r)' = Unseen(r)
  BY DEF Unseen
<1>5. r \in Waiting
  BY <1>4 DEF Deferred, Shape, DriversMatch, AboutToSleep, Asleep
<1>6. Excused(r)
  BY <1>4 DEF YieldInv
<1>7. Excused(r)'
  <2> SUFFICES ASSUME Admissible(r, Unseen(r))'
               PROVE  \E v \in Selecting' : Before(v, r)' /\ Admissible(v, Unseen(r))'
    BY DEF Excused
  <2>1. Admissible(r, Unseen(r))
    BY <1>3, <1>4, <1>5 DEF Admissible, ReadyMembers
  <2>2. PICK v \in Selecting : Before(v, r) /\ Admissible(v, Unseen(r))
    BY <1>6, <2>1 DEF Excused
  <2>3. Admissible(v, Unseen(r))'
    BY <1>1, <1>3, <1>4, <2>2 DEF Admissible, ReadyMembers
  <2>4. QED
    BY <2>2, <2>3
<1>8. QED
  BY <1>4, <1>7 DEF YieldInv

\* And what the owner of the section found out.
LEMMA ComputedKept ==
  ASSUME Shape, SectionInv, ComputedInv, UNCHANGED <<status, retired, hidden, recoveryEnabled, lease, section>>,
         Still' => Still, Deferred' \subseteq Deferred,
         section.owner # Nobody => behind'[section.owner] = behind[section.owner],
         Still' => \A w \in Waiting : stopped'[w] = stopped[w] /\ (Expired(w)' <=> Expired(w))
  PROVE  ComputedInv'
<1>1. Selecting \subseteq Waiting /\ Waiting \subseteq Requests
  BY QueueBasics DEF Shape
<1>2. \A w, u : ReadyMembers(w, u)' = ReadyMembers(w, u)
  BY DEF ReadyMembers, Up, HasRoom, EngineFree, Leased, Reserved
<1>3. Still' => \A w \in Waiting : \A u : Admissible(w, u)' <=> Admissible(w, u)
  BY <1>2 DEF Admissible, CanDispatch
<1>4. (section.turn # Nobody => section.turn \in Waiting) /\ section.unready \subseteq Waiting
  BY <1>1 DEF SectionInv
<1>5. ASSUME Still', Deferred' # {}, section.owner # Nobody
      PROVE  /\ section.turn # Nobody => Admissible(section.turn, behind[section.owner])'
             /\ \A v \in section.unready : ~Admissible(v, behind[section.owner])'
  <2>1. \A w \in Waiting : Admissible(w, behind[section.owner])' <=> Admissible(w, behind[section.owner])
    BY <1>3, <1>5 DEF Admissible, ReadyMembers
  <2>2. QED
    BY <1>4, <1>5, <2>1 DEF ComputedInv
<1>6. QED
  BY <1>5 DEF ComputedInv

\* A step of a driver that neither has nor takes a turn.
LEMMA AsideStep ==
  ASSUME Shape, SectionInv, YieldInv, ComputedInv, NEW q \in Requests,
         UNCHANGED <<status, retired, hidden, recoveryEnabled, lease, announcing>>,
         Waiting \subseteq Waiting', Selecting \subseteq Selecting',
         \A v, w : Before(v, w) => Before(v, w)',
         \A r \in Requests \ {q} : stage'[r] = stage[r] /\ behind'[r] = behind[r] /\ due'[r] = due[r],
         woken \ {q} \subseteq woken',
         \A w \in Waiting : w \in overdue' <=> w \in overdue,
         \A w \in Waiting \ {q} : stopped'[w] = stopped[w],
         q \in Waiting => /\ stopped'[q] = stopped[q] \/ stage'[q] = "leaving"
                          /\ stage[q] \notin {"granted", "leaving"},
         stage'[q] \notin {"scanning", "deferring", "yielded"},
         section' = FreeSection \/ (section' = section /\ section.owner # q)
  PROVE  YieldInv' /\ ComputedInv'
<1>1. Selecting \subseteq Waiting /\ Waiting \subseteq Requests
  BY QueueBasics DEF Shape
<1>2. \A w \in Waiting : Expired(w)' <=> Expired(w)
  BY DEF Expired, HasDeadline
<1>3. \A v : Going(v) => Going(v)'
  BY <1>1, <1>2 DEF Going
<1>4. Still' => Still
  <2>1. Calm' <=> Calm
    BY DEF Calm
  <2>2. QED
    BY <1>3, <2>1 DEF Still
<1>5. Still' => \A w \in Waiting : stopped'[w] = stopped[w]
  BY DEF Still, Going
<1>6. \A r \in Deferred' : r \in Deferred /\ r # q
  BY DEF Deferred
<1>7. YieldInv'
  BY <1>2, <1>4, <1>5, <1>6, DeferKept DEF Deferred
<1>8. CASE section' = FreeSection
  BY <1>7, <1>8 DEF ComputedInv, FreeSection
<1>9. CASE section' = section /\ section.owner # q
  <2>1. section.owner # Nobody => section.owner \in Requests
    BY DEF Shape, OtherValues, Section
  <2>2. section.owner # Nobody => behind'[section.owner] = behind[section.owner]
    BY <1>9, <2>1
  <2>3. ComputedInv'
    BY <1>2, <1>4, <1>5, <1>6, <1>9, <2>2, ComputedKept
  <2>4. QED
    BY <1>7, <2>3
<1>10. QED
  BY <1>8, <1>9

\* The drop of a guard wakes everybody who relies on it, and a driver without a
\* guard concerns nobody.
LEMMA LeaveStep ==
  ASSUME Shape, SectionInv, YieldInv, ComputedInv, NEW q \in Requests, DropGuard(q), QueueFree,
         UNCHANGED <<section, status, retired, hidden, recoveryEnabled, lease, announcing,
                     behind, due, overdue>>,
         \A r \in Requests \ {q} : stage'[r] = stage[r] /\ stopped'[r] = stopped[r],
         stage'[q] \notin {"scanning", "deferring", "yielded"}
  PROVE  YieldInv' /\ ComputedInv'
<1>1. section' = FreeSection
  BY DEF QueueFree, Shape, DriversMatch
<1>2. CASE q \in Waiting
  <2>1. woken' = woken \cup InAdmit
    BY <1>2 DEF DropGuard, NotifyTurn
  <2>2. Deferred' = {}
    BY <2>1 DEF Deferred, InAdmit, AboutToSleep, Asleep
  <2>3. QED
    BY <2>2 DEF YieldInv, ComputedInv
<1>3. CASE q \notin Waiting
  <2>1. UNCHANGED queueVars /\ UNCHANGED woken
    BY <1>3 DEF DropGuard
  <2>2. UNCHANGED queue
    BY <2>1 DEF queueVars
  <2>3. Waiting \subseteq Requests
    BY QueueBasics DEF Shape
  <2>4. QED
    BY <1>1, <1>3, <2>1, <2>2, <2>3, QueueKept, BeforeKept, AsideStep
<1>4. QED
  BY <1>2, <1>3

\* A newcomer that is granted what nobody in the queue can use takes nothing
\* from anybody; a waiter that is granted will wake the others.
LEMMA GrantStep ==
  ASSUME Shape, SectionInv, YieldInv, ComputedInv, NEW q \in Requests, Grant(q)
  PROVE  YieldInv' /\ ComputedInv'
<1>0. /\ stage \in [Requests -> Stages]
      /\ lease \in [Requests -> [member : Members \cup {NoMember}, phase : Phases]]
      /\ Selecting \subseteq Waiting /\ Waiting \subseteq Requests /\ q # Nobody
  BY QueueBasics, AdmissionAssumption DEF Shape, OtherValues
<1>1. /\ section' = FreeSection /\ stage' = [stage EXCEPT ![q] = "granted"] /\ stage[q] = "scanning"
      /\ UNCHANGED <<queue, status, hidden, retired, recoveryEnabled, announcing, woken, behind, due,
                     overdue, stopped>>
      /\ section.owner = q /\ TurnKnown /\ section.turn \in {Nobody, q}
  BY DEF Grant, MoveTo, poolVars, sleepVars, Shape, DriversMatch
<1>2. PICK m \in ReadyMembers(q, behind[q]) : lease' = [lease EXCEPT ![q] = [member |-> m, phase |-> "held"]]
  BY DEF Grant
<1>3. /\ lease'[q].phase = "held" /\ lease'[q].member = m /\ lease[q].phase = "none"
      /\ \A r \in Requests \ {q} : lease'[r] = lease[r]
  BY <1>0, <1>1, <1>2 DEF Shape, DriversMatch, Phases
<1>4. Waiting' = Waiting /\ Selecting' = Selecting /\ \A v, w : Before(v, w)' <=> Before(v, w)
  BY <1>1, BeforeKept DEF Waiting, Selecting
<1>5. ComputedInv'
  BY <1>1 DEF ComputedInv, FreeSection
<1>6. CASE q \in Waiting
  <2>1. Going(q)'
    BY <1>0, <1>1, <1>4, <1>6 DEF Going
  <2>2. QED
    BY <1>5, <2>1 DEF YieldInv, Still
<1>7. CASE q \notin Waiting
  <2>1. section.turn = Nobody /\ Selecting \subseteq section.unready
    BY <1>0, <1>1, <1>7 DEF SectionInv, TurnKnown
  <2>2. Still' => Still
    <3>1. Calm' => Calm
      BY <1>1, <1>3 DEF Calm
    <3>2. \A w : Expired(w)' <=> Expired(w)
      BY <1>1 DEF Expired, HasDeadline
    <3>3. \A v \in Requests : Going(v) => Going(v)'
      BY <1>0, <1>1, <1>4, <3>2 DEF Going
    <3>4. QED
      BY <3>1, <3>3 DEF Still
  <2>3. \A x : x # m => (HasRoom(x)' <=> HasRoom(x))
    <3>1. ASSUME NEW x, x # m PROVE Leased(x)' = Leased(x) /\ Reserved(x)' = Reserved(x)
      BY <1>3, <3>1 DEF Leased, Reserved
    <3>2. QED
      BY <3>1 DEF HasRoom, EngineFree
  <2>4. Shrinking
    BY <1>1, <1>3 DEF Shrinking
  <2>5. \A w : CanDispatch(w)' = CanDispatch(w) /\ (Expired(w)' <=> Expired(w))
    BY <1>1 DEF CanDispatch, Expired, HasDeadline
  <2>6. \A x, u : Up(x, u)' <=> Up(x, u)
    BY <1>1 DEF Up
  <2> SUFFICES ASSUME Still', NEW r \in Deferred', stage'[r] # "scanning"
               PROVE  /\ Excused(r)'
                      /\ stage'[r] = "yielded" =>
                           \A x \in Eligible[r] : ~retired' /\ status'[x] = "cooling" => x \in due'[r]
    BY <1>5 DEF YieldInv
  <2>7. r \in Deferred /\ r # q /\ stage'[r] = stage[r] /\ due'[r] = due[r] /\ Unseen(r)' = Unseen(r)
    BY <1>0, <1>1 DEF Deferred, Unseen
  <2>8. Excused(r)'
    <3> SUFFICES ASSUME Admissible(r, Unseen(r))'
                 PROVE  \E v \in Selecting' : Before(v, r)' /\ Admissible(v, Unseen(r))'
      BY DEF Excused
    <3>1. r \in Requests
      BY <2>7 DEF Deferred
    <3>2. Admissible(r, Unseen(r))
      <4>1. ReadyMembers(r, Unseen(r))' # {}
        BY <2>7 DEF Admissible
      <4>2. ReadyMembers(r, Unseen(r)) # {}
        BY <2>4, <2>7, <3>1, <4>1, ReadyShrinks DEF ReadyMembers
      <4>3. QED
        BY <1>1, <2>5, <4>2 DEF Admissible
    <3>3. PICK v \in Selecting : Before(v, r) /\ Admissible(v, Unseen(r))
      BY <2>2, <2>7, <3>2 DEF YieldInv, Excused
    <3>4. ~Admissible(v, behind[q])
      BY <1>0, <1>1, <2>1, <2>2, <2>7, <3>3 DEF ComputedInv
    <3>5. ReadyMembers(v, behind[q]) = {}
      BY <3>3, <3>4 DEF Admissible
    <3>6. m \notin Eligible[v]
      BY <1>2, <3>5 DEF ReadyMembers
    <3>7. ReadyMembers(v, Unseen(r))' = ReadyMembers(v, Unseen(r))
      BY <2>3, <2>6, <2>7, <3>6 DEF ReadyMembers
    <3>8. Admissible(v, Unseen(r))'
      BY <1>1, <2>5, <3>3, <3>7 DEF Admissible
    <3>9. QED
      BY <1>4, <3>3, <3>8
  <2>9. QED
    BY <1>1, <2>2, <2>7, <2>8 DEF YieldInv
<1>8. QED
  BY <1>6, <1>7

\* Another's turn is the turn of somebody older, when all have one principal.
LEMMA YieldStep ==
  ASSUME Shape, KindInv, SectionInv, YieldInv, ComputedInv,
         \A v, w \in Requests : PrincipalOf[v] = PrincipalOf[w],
         NEW q \in Requests, Yield(q)
  PROVE  YieldInv' /\ ComputedInv'
<1>a. PICK w : w = section.turn
  OBVIOUS
<1>0. Selecting \subseteq Waiting /\ Waiting \subseteq Requests /\ q # Nobody /\ stage \in [Requests -> Stages]
  BY QueueBasics, AdmissionAssumption DEF Shape, OtherValues
<1>1. /\ RegisterOrLeave(q, ReadyMembers(q, behind[q]) # {} \/ CapacityBlocked(q), "deferring")
      /\ UNCHANGED <<status, retired, hidden, recoveryEnabled, lease, announcing, woken, behind, due,
                     overdue>>
      /\ section' = FreeSection /\ section.owner = q /\ stage[q] = "scanning" /\ w \notin {Nobody, q}
  BY <1>a DEF Yield, poolVars, sleepVars, Shape, DriversMatch
<1>2. /\ \A v \in Waiting : stopped'[v] = stopped[v]
      /\ \A v, u : Before(v, u) => Before(v, u)'
      /\ Waiting \subseteq Waiting' /\ Selecting \subseteq Selecting'
      /\ q \notin Waiting /\ q \in Waiting' => \A v \in Waiting : Before(v, q)'
  BY <1>1, RegisterOrder
<1>3. w \in Selecting \ section.unready /\ \A v \in Selecting : Precedes(v, w) => v \in section.unready
  BY <1>1, <1>a DEF SectionInv
<1>4. CASE stage' = [stage EXCEPT ![q] = "leaving"]
  <2>1. \A r \in Requests \ {q} : stage'[r] = stage[r]
    BY <1>0, <1>4
  <2>2. stage'[q] = "leaving"
    BY <1>0, <1>4
  <2>3. QED
    BY <1>1, <1>2, <2>1, <2>2, AsideStep
<1>5. CASE stage' = [stage EXCEPT ![q] = "deferring"] /\ q \in Waiting'
  <2>1. stage'[q] = "deferring" /\ \A r \in Requests \ {q} : stage'[r] = stage[r]
    BY <1>0, <1>5
  <2>2. \A v : Expired(v)' <=> Expired(v)
    BY <1>1 DEF Expired, HasDeadline
  <2>3. Still' => Still
    <3>1. Calm' <=> Calm
      BY <1>1 DEF Calm
    <3>2. \A v \in Requests : Going(v) => Going(v)'
      BY <1>1, <1>2, <2>1, <2>2 DEF Going
    <3>3. QED
      BY <3>1, <3>2 DEF Still
  <2>4. \A v, u : ReadyMembers(v, u)' = ReadyMembers(v, u)
    BY <1>1 DEF ReadyMembers, Up, HasRoom, EngineFree, Leased, Reserved
  <2>5. \A v \in Waiting : \A u : Admissible(v, u)' <=> Admissible(v, u)
    BY <1>1, <1>2, <2>2, <2>4 DEF Admissible, CanDispatch
  <2>6. ASSUME Still', q \in Deferred' PROVE Excused(q)'
    <3>1. q \in Deferred
      BY <1>1, <2>6 DEF Deferred
    <3>2. Admissible(w, behind[q]) /\ \A v \in section.unready : ~Admissible(v, behind[q])
      BY <1>0, <1>1, <1>a, <2>3, <2>6, <3>1 DEF ComputedInv
    <3>3. Unseen(q)' = behind[q]
      BY <1>1, <2>1 DEF Unseen
    <3> SUFFICES ASSUME Admissible(q, Unseen(q))'
                 PROVE  Before(w, q)' /\ Admissible(w, Unseen(q))'
      BY <1>2, <1>3 DEF Excused
    <3>4. Admissible(w, behind[q])'
      BY <1>0, <1>1, <1>3, <2>5, <3>2 DEF Admissible, ReadyMembers
    <3>5. Admissible(w, Unseen(q))'
      BY <1>1, <3>3, <3>4 DEF Admissible, ReadyMembers, Up
    <3>6. CASE q \in Waiting
      <4>1. q \in Selecting
        BY <1>1, <3>6 DEF KindInv
      <4>2. Admissible(q, behind[q])'
        BY <1>1, <3>3 DEF Admissible, ReadyMembers, Up
      <4>3. Admissible(q, behind[q])
        BY <1>1, <2>5, <3>6, <4>2 DEF Admissible, ReadyMembers
      <4>4. ~Precedes(q, w)
        BY <1>3, <3>2, <4>1, <4>3
      <4>5. Precedes(w, q)
        BY <1>0, <1>1, <1>3, <3>6, <4>4, PrecedesOrder DEF Shape
      <4>6. Before(w, q)
        BY <1>0, <1>3, <3>6, <4>5, PrecedesBefore DEF Shape
      <4>7. QED
        BY <1>2, <3>5, <4>6
    <3>7. CASE q \notin Waiting
      BY <1>0, <1>2, <1>3, <1>5, <3>5, <3>7
    <3>8. QED
      BY <3>6, <3>7
  <2>7. YieldInv'
    <3>1. \A r \in Deferred' : r # q =>
            r \in Deferred /\ stage'[r] = stage[r] /\ behind'[r] = behind[r] /\ due'[r] = due[r]
      BY <1>1, <2>1 DEF Deferred
    <3>2. QED
      BY <1>1, <1>2, <2>1, <2>2, <2>3, <2>6, <3>1, DeferKept
  <2>8. ComputedInv'
    BY <1>1 DEF ComputedInv, FreeSection
  <2>9. QED
    BY <2>7, <2>8
<1>6. QED
  BY <1>1, <1>4, <1>5, RegisterOrder

\* A deferred driver arms its timers, unless one has fired by then.
LEMMA FallAsleepStep ==
  ASSUME Shape, SectionInv, YieldInv, ComputedInv, NEW q \in Requests, FallAsleep(q)
  PROVE  YieldInv' /\ ComputedInv'
<1>0. /\ stage \in [Requests -> Stages] /\ due \in [Requests -> SUBSET Members]
      /\ Selecting \subseteq Waiting /\ Waiting \subseteq Requests
  BY QueueBasics DEF Shape, OtherValues
<1>1. /\ UNCHANGED <<queue, section, status, retired, hidden, recoveryEnabled, lease, announcing, behind,
                     overdue, stopped>>
      /\ due' = [due EXCEPT ![q] = Cooling(q)] /\ stage[q] \in {"unserved", "deferring"}
      /\ stage' = [stage EXCEPT ![q] = IF stage[q] = "unserved" THEN "sleeping" ELSE "yielded"]
      /\ woken \subseteq woken' /\ (q \notin woken' => behind[q] \cap Eligible[q] = {})
  BY DEF FallAsleep, poolVars, queueVars, MoveTo, AboutToSleep, FireTimer
<1>2. \A r \in Requests \ {q} : stage'[r] = stage[r] /\ due'[r] = due[r]
  BY <1>0, <1>1
<1>3. Waiting' = Waiting /\ Selecting' = Selecting /\ \A v, w : Before(v, w)' <=> Before(v, w)
  BY <1>1, BeforeKept DEF Waiting, Selecting
<1>4. CASE stage[q] = "unserved"
  <2>1. stage'[q] = "sleeping"
    BY <1>0, <1>1, <1>4
  <2>2. section.owner # q
    BY <1>4 DEF Shape, DriversMatch
  <2>3. QED
    BY <1>0, <1>1, <1>2, <1>3, <1>4, <2>1, <2>2, AsideStep
<1>5. CASE stage[q] = "deferring"
  <2>1. stage'[q] = "yielded" /\ due'[q] = Cooling(q)
    BY <1>0, <1>1, <1>5
  <2>2. \A v : Expired(v)' <=> Expired(v)
    BY <1>1 DEF Expired, HasDeadline
  <2>3. Still' => Still
    <3>1. Calm' <=> Calm
      BY <1>1 DEF Calm
    <3>2. \A v \in Requests : Going(v) => Going(v)'
      BY <1>2, <1>3, <1>5, <2>2 DEF Going
    <3>3. QED
      BY <3>1, <3>2 DEF Still
  <2>4. Deferred' \subseteq Deferred
    BY <1>1, <1>2, <1>5 DEF Deferred
  <2>5. \A v, u : ReadyMembers(v, u)' = ReadyMembers(v, u)
    BY <1>1 DEF ReadyMembers, Up, HasRoom, EngineFree, Leased, Reserved
  <2>6. \A v, u : Admissible(v, u)' <=> Admissible(v, u)
    BY <1>1, <2>2, <2>5 DEF Admissible, CanDispatch
  <2>7. ASSUME Still', q \in Deferred'
        PROVE  /\ Excused(q)'
               /\ \A m \in Eligible[q] : ~retired' /\ status'[m] = "cooling" => m \in due'[q]
    <3>1. q \in Deferred /\ behind[q] \cap Eligible[q] = {}
      BY <1>1, <2>4, <2>7 DEF Deferred
    <3>2. Excused(q) /\ Unseen(q) = behind[q] /\ Unseen(q)' = {}
      BY <1>5, <2>1, <2>3, <2>7, <3>1 DEF YieldInv, Unseen
    <3>3. Excused(q)'
      <4> SUFFICES ASSUME Admissible(q, Unseen(q))'
                   PROVE  \E v \in Selecting' : Before(v, q)' /\ Admissible(v, Unseen(q))'
        BY DEF Excused
      <4>1. Admissible(q, {})
        BY <2>6, <3>2 DEF Admissible, ReadyMembers, Up
      <4>2. Admissible(q, behind[q])
        BY <3>1, <4>1 DEF Admissible, ReadyMembers, Up
      <4>3. PICK v \in Selecting : Before(v, q) /\ Admissible(v, behind[q])
        BY <3>2, <4>2 DEF Excused
      <4>4. Admissible(v, {})
        BY <4>3 DEF Admissible, ReadyMembers, Up
      <4>5. Admissible(v, {})'
        BY <2>6, <4>4
      <4>6. Admissible(v, Unseen(q))'
        BY <3>2, <4>5 DEF Admissible, ReadyMembers, Up
      <4>7. QED
        BY <1>3, <4>3, <4>6
    <3>4. QED
      BY <1>1, <2>1, <3>3 DEF Cooling
  <2>8. YieldInv'
    <3>1. \A r \in Deferred' : r # q =>
            r \in Deferred /\ stage'[r] = stage[r] /\ behind'[r] = behind[r] /\ due'[r] = due[r]
      BY <1>1, <1>2, <2>4 DEF Deferred
    <3>2. QED
      BY <1>1, <1>3, <2>2, <2>3, <2>7, <3>1, DeferKept
  <2>9. ComputedInv'
    BY <1>1, <2>2, <2>3, <2>4, ComputedKept
  <2>10. QED
    BY <2>8, <2>9
<1>6. QED
  BY <1>1, <1>4, <1>5

\* A cooldown that ends is not seen by those who look, and wakes those who sleep.
LEMMA CooldownStep ==
  ASSUME Shape, SectionInv, YieldInv, ComputedInv, NEW m \in Members, EndCooldown(m)
  PROVE  YieldInv' /\ ComputedInv'
<1>0. /\ stage \in [Requests -> Stages] /\ behind \in [Requests -> SUBSET Members]
      /\ status \in [Members -> Statuses] /\ section \in Section
      /\ Selecting \subseteq Waiting /\ Waiting \subseteq Requests
      /\ \A v \in Requests : Eligible[v] \subseteq Members
  BY QueueBasics, AdmissionAssumption DEF Shape, OtherValues
<1>1. /\ UNCHANGED <<queue, section, stage, retired, hidden, recoveryEnabled, lease, announcing, due,
                     overdue, stopped>>
      /\ status[m] = "cooling" /\ status' = [status EXCEPT ![m] = "up"]
      /\ \A r \in Requests : r \notin woken' => r \notin woken /\ (stage[r] = "yielded" => m \notin due[r])
      /\ \A r \in Requests : stage[r] \in {"scanning", "deferring"} => behind'[r] = behind[r] \cup {m}
  BY DEF EndCooldown, queueVars, Asleep, AboutToSleep
<1>2. Waiting' = Waiting /\ Selecting' = Selecting /\ \A v, w : Before(v, w)' <=> Before(v, w)
  BY <1>1, BeforeKept DEF Waiting, Selecting
<1>3. \A v : (CanDispatch(v)' <=> CanDispatch(v)) /\ (Expired(v)' <=> Expired(v))
  BY <1>1 DEF CanDispatch, Expired, HasDeadline
<1>4. Still' <=> Still
  <2>1. Calm' <=> Calm
    BY <1>1 DEF Calm
  <2>2. \A v : Going(v)' <=> Going(v)
    BY <1>1, <1>2, <1>3 DEF Going
  <2>3. QED
    BY <2>1, <2>2 DEF Still
<1>5. \A x : HasRoom(x)' <=> HasRoom(x)
  BY <1>1 DEF HasRoom, EngineFree, Leased, Reserved
<1>6. \A x \in Members : x # m => status'[x] = status[x]
  BY <1>0, <1>1
<1>7. status'[m] = "up"
  BY <1>0, <1>1
<1>8. ASSUME NEW r \in Requests, stage[r] \in {"scanning", "deferring"}, NEW v \in Requests
      PROVE  Admissible(v, behind[r])' <=> Admissible(v, behind[r])
  <2>1. \A x \in Members : Up(x, behind[r])' <=> Up(x, behind[r])
    BY <1>1, <1>6, <1>8 DEF Up
  <2>2. ReadyMembers(v, behind[r])' = ReadyMembers(v, behind[r])
    BY <1>0, <1>5, <2>1 DEF ReadyMembers
  <2>3. QED
    BY <1>1, <1>3, <2>2 DEF Admissible
<1>9. ComputedInv'
  <2>1. section.owner # Nobody => section.owner \in Requests /\ stage[section.owner] = "scanning"
    BY <1>0 DEF Section, Shape, DriversMatch
  <2>2. Deferred' \subseteq Deferred
    BY <1>1 DEF Deferred
  <2>3. (section.turn # Nobody => section.turn \in Requests) /\ section.unready \subseteq Requests
    BY <1>0 DEF Section
  <2>4. ASSUME Still', Deferred' # {}, section.owner # Nobody
        PROVE  /\ section.turn # Nobody => Admissible(section.turn, behind[section.owner])'
               /\ \A v \in section.unready : ~Admissible(v, behind[section.owner])'
    <3>1. PICK r \in Requests : r = section.owner /\ stage[r] = "scanning"
      BY <2>1, <2>4
    <3>2. \A v \in Requests : Admissible(v, behind[r])' <=> Admissible(v, behind[r])
      BY <1>8, <3>1
    <3>3. /\ section.turn # Nobody => Admissible(section.turn, behind[r])
          /\ \A v \in section.unready : ~Admissible(v, behind[r])
      BY <1>4, <2>2, <2>4, <3>1 DEF ComputedInv
    <3>4. PICK w : w = section.turn
      OBVIOUS
    <3>5. /\ w # Nobody => Admissible(w, behind[r])'
          /\ \A v \in section.unready : ~Admissible(v, behind[r])'
      BY <2>3, <3>2, <3>3, <3>4
    <3>6. QED
      BY <1>1, <3>1, <3>4, <3>5
  <2>5. QED
    BY <1>1, <2>4 DEF ComputedInv
<1>10. YieldInv'
  <2> SUFFICES ASSUME Still', NEW r \in Deferred', stage'[r] # "scanning"
               PROVE  /\ Excused(r)'
                      /\ stage'[r] = "yielded" =>
                           \A x \in Eligible[r] : ~retired' /\ status'[x] = "cooling" => x \in due'[r]
    BY DEF YieldInv
  <2>1. r \in Requests /\ r \in Deferred /\ (stage[r] = "yielded" => m \notin due[r])
    BY <1>1 DEF Deferred
  <2>2. /\ Excused(r)
        /\ stage[r] = "yielded" => \A x \in Eligible[r] : ~retired /\ status[x] = "cooling" => x \in due[r]
    BY <1>1, <1>4, <2>1 DEF YieldInv
  <2>3. CASE stage[r] = "deferring"
    <3>1. Unseen(r) = behind[r] /\ Unseen(r)' = behind'[r]
      BY <1>1, <2>3 DEF Unseen
    <3>2. Excused(r)'
      <4> SUFFICES ASSUME Admissible(r, behind[r])'
                   PROVE  \E v \in Selecting' : Before(v, r)' /\ Admissible(v, behind[r])'
        BY <1>1, <2>3 DEF Excused, Unseen
      <4>1. PICK v \in Selecting : Before(v, r) /\ Admissible(v, behind[r])
        BY <1>8, <2>1, <2>2, <2>3, <3>1 DEF Excused
      <4>2. QED
        BY <1>0, <1>2, <1>8, <2>1, <2>3, <4>1
    <3>3. QED
      BY <1>1, <2>3, <3>2
  <2>4. CASE stage[r] = "yielded"
    <3>1. m \notin Eligible[r] \/ retired
      BY <1>1, <2>1, <2>2, <2>4
    <3>2. \A x \in Eligible[r] : Up(x, {})' => Up(x, {})
      BY <1>0, <1>1, <1>6, <2>1, <3>1 DEF Up
    <3>3. \A x \in Members : Up(x, {}) => Up(x, {})'
      BY <1>1, <1>6, <1>7 DEF Up
    <3>4. Excused(r)'
      <4> SUFFICES ASSUME Admissible(r, {})'
                   PROVE  \E v \in Selecting' : Before(v, r)' /\ Admissible(v, {})'
        BY <1>1, <2>4 DEF Excused, Unseen
      <4>1. Admissible(r, {})
        BY <1>1, <1>3, <1>5, <3>2 DEF Admissible, ReadyMembers
      <4>2. PICK v \in Selecting : Before(v, r) /\ Admissible(v, {})
        BY <2>2, <2>4, <4>1 DEF Excused, Unseen
      <4>3. Admissible(v, {})'
        BY <1>0, <1>1, <1>3, <1>5, <3>3, <4>2 DEF Admissible, ReadyMembers
      <4>4. QED
        BY <1>2, <4>2, <4>3
    <3>5. \A x \in Eligible[r] : ~retired' /\ status'[x] = "cooling" => x \in due'[r]
      BY <1>0, <1>1, <1>6, <1>7, <2>1, <2>2, <2>4
    <3>6. QED
      BY <3>4, <3>5
  <2>5. QED
    BY <1>1, <2>1, <2>3, <2>4 DEF Deferred
<1>11. QED
  BY <1>9, <1>10

\* Every step keeps what the deferred drivers rely on.
LEMMA StallStep ==
  ASSUME Shape, KindInv, SectionInv, YieldInv, ComputedInv, [Next]_vars,
         \A v, w \in Requests : PrincipalOf[v] = PrincipalOf[w]
  PROVE  YieldInv' /\ ComputedInv'
<1>0. /\ stage \in [Requests -> Stages] /\ behind \in [Requests -> SUBSET Members]
      /\ due \in [Requests -> SUBSET Members] /\ stopped \in [Requests -> Stops]
      /\ Waiting \subseteq Requests /\ Selecting \subseteq Waiting
      /\ \A q \in Waiting : stage[q] \in Guarded
  BY QueueBasics DEF Shape, OtherValues, DriversMatch
<1>1. CASE UNCHANGED vars
  <2>1. Waiting' = Waiting /\ Selecting' = Selecting /\ \A v, w : Before(v, w)' <=> Before(v, w)
    BY <1>1, BeforeKept DEF vars, Waiting, Selecting
  <2>2. \A v : (Going(v)' <=> Going(v)) /\ (Expired(v)' <=> Expired(v))
    BY <1>1, <2>1 DEF vars, Going, Expired, HasDeadline
  <2>3. (Still' <=> Still) /\ Deferred' = Deferred
    BY <1>1, <2>2 DEF vars, Still, Calm, Deferred
  <2>4. YieldInv'
    BY <1>1, <2>1, <2>2, <2>3, DeferKept DEF vars
  <2>5. ComputedInv'
    BY <1>1, <2>2, <2>3, ComputedKept DEF vars
  <2>6. QED
    BY <2>4, <2>5
<1>2. ASSUME NEW q \in Requests, Admit(q) PROVE YieldInv' /\ ComputedInv'
  <2>1. /\ UNCHANGED <<queue, section, status, retired, hidden, recoveryEnabled, lease, announcing>>
        /\ woken \ {q} \subseteq woken' /\ section.owner # q
    BY <1>2 DEF Admit, Subscribe, queueVars, poolVars, Shape, DriversMatch
  <2>2. Waiting' = Waiting /\ Selecting' = Selecting /\ \A v, w : Before(v, w)' <=> Before(v, w)
    BY <2>1, BeforeKept DEF Waiting, Selecting
  <2>3. /\ \A r \in Requests \ {q} : stage'[r] = stage[r] /\ behind'[r] = behind[r] /\ due'[r] = due[r]
        /\ \A w \in Waiting : w \in overdue' <=> w \in overdue
        /\ \A w \in Waiting \ {q} : stopped'[w] = stopped[w]
    BY <1>2, <1>0 DEF Admit, Subscribe, MoveTo, Stop, sleepVars, Guarded, AboutToSleep, Asleep
  <2>4. q \in Waiting => stopped'[q] = stopped[q] \/ stage'[q] = "leaving"
    BY <1>2, <1>0 DEF Admit, Subscribe, MoveTo, Stop, Guarded, AboutToSleep, Asleep
  <2>5. stage'[q] \notin {"scanning", "deferring", "yielded"} /\ (q \in Waiting => stage[q] \notin {"granted", "leaving"})
    BY <1>2, <1>0 DEF Admit, Subscribe, MoveTo, Guarded, AboutToSleep, Asleep
  <2>6. QED
    BY <2>1, <2>2, <2>3, <2>4, <2>5, AsideStep
<1>3. ASSUME NEW q \in Requests, Resume(q) PROVE YieldInv' /\ ComputedInv'
  <2>1. /\ UNCHANGED <<queue, section, status, retired, hidden, recoveryEnabled, lease, announcing>>
        /\ woken \ {q} \subseteq woken' /\ section.owner # q
    BY <1>3 DEF Resume, Subscribe, queueVars, poolVars, Shape, DriversMatch, Asleep
  <2>2. Waiting' = Waiting /\ Selecting' = Selecting /\ \A v, w : Before(v, w)' <=> Before(v, w)
    BY <2>1, BeforeKept DEF Waiting, Selecting
  <2>3. /\ \A r \in Requests \ {q} : stage'[r] = stage[r] /\ behind'[r] = behind[r] /\ due'[r] = due[r]
        /\ \A w \in Waiting : w \in overdue' <=> w \in overdue
        /\ \A w \in Waiting \ {q} : stopped'[w] = stopped[w]
    BY <1>3, <1>0 DEF Resume, Subscribe, MoveTo, Stop, sleepVars, Guarded, AboutToSleep, Asleep
  <2>4. q \in Waiting => stopped'[q] = stopped[q] \/ stage'[q] = "leaving"
    BY <1>3, <1>0 DEF Resume, Subscribe, MoveTo, Stop, Guarded, AboutToSleep, Asleep
  <2>5. stage'[q] \notin {"scanning", "deferring", "yielded"} /\ (q \in Waiting => stage[q] \notin {"granted", "leaving"})
    BY <1>3, <1>0 DEF Resume, Subscribe, MoveTo, Guarded, AboutToSleep, Asleep
  <2>6. QED
    BY <2>1, <2>2, <2>3, <2>4, <2>5, AsideStep
<1>4. ASSUME NEW q \in Requests, EnterSaturated(q) PROVE YieldInv' /\ ComputedInv'
  <2>1. /\ RegisterOrLeave(q, CapacityBlocked(q), "unserved")
        /\ UNCHANGED <<status, retired, hidden, recoveryEnabled, lease, announcing, woken, behind, due, overdue>>
        /\ section' = FreeSection /\ stage[q] \in {"inspecting", "scanning"}
    BY <1>4 DEF EnterSaturated, poolVars, sleepVars, Shape, DriversMatch
  <2>2. /\ \A w \in Waiting : stopped'[w] = stopped[w]
        /\ \A v, w : Before(v, w) => Before(v, w)'
        /\ Waiting \subseteq Waiting' /\ Selecting \subseteq Selecting'
    BY <2>1, RegisterOrder
  <2>3. stage' = [stage EXCEPT ![q] = "unserved"] \/ stage' = [stage EXCEPT ![q] = "leaving"]
    BY <2>1, RegisterOrder
  <2>4. stage'[q] \in {"unserved", "leaving"} /\ \A r \in Requests \ {q} : stage'[r] = stage[r]
    BY <1>0, <2>3
  <2>5. QED
    BY <2>1, <2>2, <2>4, AsideStep
<1>5. ASSUME NEW q \in Requests, EnterSection(q) PROVE YieldInv' /\ ComputedInv'
  <2>1. /\ UNCHANGED <<queue, status, retired, hidden, recoveryEnabled, lease, announcing, woken, behind, due,
                       overdue, stopped>>
        /\ section'.unready = {} /\ section'.turn = Nobody
        /\ stage[q] = "inspecting" /\ stage' = [stage EXCEPT ![q] = "scanning"]
    BY <1>5 DEF EnterSection, queueVars, poolVars, sleepVars, MoveTo
  <2>2. Waiting' = Waiting /\ Selecting' = Selecting /\ \A v, w : Before(v, w)' <=> Before(v, w)
    BY <2>1, BeforeKept DEF Waiting, Selecting
  <2>3. \A v : Expired(v)' <=> Expired(v)
    BY <2>1 DEF Expired, HasDeadline
  <2>4. \A v \in Requests : Going(v)' <=> Going(v)
    BY <1>0, <2>1, <2>2, <2>3 DEF Going
  <2>5. Still' => Still
    BY <2>1, <2>4 DEF Still, Calm
  <2>6. \A r \in Deferred' : stage'[r] # "scanning" => r \in Deferred /\ stage'[r] = stage[r]
    BY <1>0, <2>1 DEF Deferred
  <2>7. YieldInv'
    BY <2>1, <2>2, <2>3, <2>5, <2>6, DeferKept
  <2>8. QED
    BY <2>1, <2>7 DEF ComputedInv
<1>6. ASSUME NEW q \in Requests, Scan(q) PROVE YieldInv' /\ ComputedInv'
  <2>1. UNCHANGED <<stage, queue, status, retired, hidden, recoveryEnabled, lease, announcing, woken, behind, due,
                    overdue, stopped>>
    BY <1>6 DEF Scan, queueVars, poolVars, sleepVars
  <2>2. Waiting' = Waiting /\ Selecting' = Selecting /\ \A v, w : Before(v, w)' <=> Before(v, w)
    BY <2>1, BeforeKept DEF Waiting, Selecting
  <2>3. \A v : (Going(v)' <=> Going(v)) /\ (Expired(v)' <=> Expired(v))
    BY <2>1, <2>2 DEF Going, Expired, HasDeadline
  <2>4. (Still' <=> Still) /\ Deferred' = Deferred
    BY <2>1, <2>3 DEF Still, Calm, Deferred
  <2>5. YieldInv'
    BY <2>1, <2>2, <2>3, <2>4, DeferKept
  <2>6. PICK w \in Selecting :
          section' = IF Admissible(w, behind[q])
                       THEN [section EXCEPT !.turn = w]
                       ELSE [section EXCEPT !.unready = @ \cup {w}, !.ready = @ \ {w}]
    BY <1>6 DEF Scan
  <2>7. section \in Section /\ section.turn = Nobody /\ section.owner = q
    BY <1>6 DEF Scan, Shape, OtherValues
  <2>8. /\ section'.owner = q
        /\ \/ Admissible(w, behind[q]) /\ section'.turn = w /\ section'.unready = section.unready
           \/ ~Admissible(w, behind[q]) /\ section'.turn = Nobody /\ section'.unready = section.unready \cup {w}
    BY <2>6, <2>7 DEF Section
  <2>9. \A v : Admissible(v, behind[q])' <=> Admissible(v, behind[q])
    <3>1. \A v, u : ReadyMembers(v, u)' = ReadyMembers(v, u)
      BY <2>1 DEF ReadyMembers, Up, HasRoom, EngineFree, Leased, Reserved
    <3>2. \A v, u : Admissible(v, u)' <=> Admissible(v, u)
      BY <2>1, <2>3, <3>1 DEF Admissible, CanDispatch
    <3>3. QED
      BY <2>1, <3>2 DEF Admissible, ReadyMembers
  <2>10. ASSUME Still', Deferred' # {}
         PROVE  /\ section'.turn # Nobody => Admissible(section'.turn, behind[q])
                /\ \A v \in section'.unready : ~Admissible(v, behind[q])
    <3>1. q # Nobody
      BY AdmissionAssumption
    <3>2. \A v \in section.unready : ~Admissible(v, behind[q])
      BY <2>4, <2>7, <2>10, <3>1 DEF ComputedInv
    <3>3. QED
      BY <2>8, <3>2
  <2>11. ComputedInv'
    <3>1. PICK t : t = section'.turn
      OBVIOUS
    <3>2. ASSUME Still', Deferred' # {}
          PROVE  /\ t # Nobody => Admissible(t, behind[q])'
                 /\ \A v \in section'.unready : ~Admissible(v, behind[q])'
      BY <2>9, <2>10, <3>1, <3>2
    <3>3. QED
      BY <2>8, <3>1, <3>2 DEF ComputedInv
  <2>12. QED
    BY <2>5, <2>11
<1>7. ASSUME NEW q \in Requests, Grant(q) PROVE YieldInv' /\ ComputedInv'
  BY <1>7, GrantStep
<1>8. ASSUME NEW q \in Requests, FindNothing(q) PROVE YieldInv' /\ ComputedInv'
  <2>1. /\ RegisterOrLeave(q, CanDispatch(q) /\ q \notin hidden /\ CapacityBlocked(q), "unserved")
        /\ UNCHANGED <<status, retired, hidden, recoveryEnabled, lease, announcing, woken, behind, due, overdue>>
        /\ section' = FreeSection /\ stage[q] \in {"inspecting", "scanning"}
    BY <1>8 DEF FindNothing, poolVars, sleepVars, Shape, DriversMatch
  <2>2. /\ \A w \in Waiting : stopped'[w] = stopped[w]
        /\ \A v, w : Before(v, w) => Before(v, w)'
        /\ Waiting \subseteq Waiting' /\ Selecting \subseteq Selecting'
    BY <2>1, RegisterOrder
  <2>3. stage' = [stage EXCEPT ![q] = "unserved"] \/ stage' = [stage EXCEPT ![q] = "leaving"]
    BY <2>1, RegisterOrder
  <2>4. stage'[q] \in {"unserved", "leaving"} /\ \A r \in Requests \ {q} : stage'[r] = stage[r]
    BY <1>0, <2>3
  <2>5. QED
    BY <2>1, <2>2, <2>4, AsideStep
<1>9. ASSUME NEW q \in Requests, Yield(q) PROVE YieldInv' /\ ComputedInv'
  BY <1>9, YieldStep
<1>10. ASSUME NEW q \in Requests, FallAsleep(q) PROVE YieldInv' /\ ComputedInv'
  BY <1>10, FallAsleepStep
<1>11. ASSUME NEW q \in Requests, ReturnLease(q) PROVE YieldInv' /\ ComputedInv'
  <2>1. /\ DropGuard(q) /\ QueueFree
        /\ UNCHANGED <<section, status, retired, hidden, recoveryEnabled, lease, announcing, behind, due, overdue>>
    BY <1>11 DEF ReturnLease, poolVars, sleepVars
  <2>2. /\ \A r \in Requests \ {q} : stage'[r] = stage[r] /\ stopped'[r] = stopped[r]
        /\ stage'[q] \notin {"scanning", "deferring", "yielded"}
    BY <1>11, <1>0 DEF ReturnLease, MoveTo, Stop
  <2>3. QED
    BY <2>1, <2>2, LeaveStep
<1>12. ASSUME NEW q \in Requests, ReturnNothing(q) PROVE YieldInv' /\ ComputedInv'
  <2>1. /\ DropGuard(q) /\ QueueFree
        /\ UNCHANGED <<section, status, retired, hidden, recoveryEnabled, lease, announcing, behind, due, overdue>>
    BY <1>12 DEF ReturnNothing, poolVars, sleepVars
  <2>2. /\ \A r \in Requests \ {q} : stage'[r] = stage[r] /\ stopped'[r] = stopped[r]
        /\ stage'[q] \notin {"scanning", "deferring", "yielded"}
    BY <1>12, <1>0 DEF ReturnNothing, MoveTo, Stop
  <2>3. QED
    BY <2>1, <2>2, LeaveStep
<1>13. ASSUME NEW q \in Requests, BeginRecovery(q) PROVE YieldInv' /\ ComputedInv'
  <2>1. /\ UNCHANGED <<queue, section, status, retired, hidden, recoveryEnabled, lease, announcing>>
        /\ woken \ {q} \subseteq woken' /\ section.owner # q
    BY <1>13 DEF BeginRecovery, queueVars, poolVars, Shape, DriversMatch
  <2>2. Waiting' = Waiting /\ Selecting' = Selecting /\ \A v, w : Before(v, w)' <=> Before(v, w)
    BY <2>1, BeforeKept DEF Waiting, Selecting
  <2>3. /\ \A r \in Requests \ {q} : stage'[r] = stage[r] /\ behind'[r] = behind[r] /\ due'[r] = due[r]
        /\ \A w \in Waiting : w \in overdue' <=> w \in overdue
        /\ \A w \in Waiting \ {q} : stopped'[w] = stopped[w]
    BY <1>13, <1>0 DEF BeginRecovery, MoveTo, Stop, sleepVars, Guarded, AboutToSleep, Asleep
  <2>4. q \in Waiting => stopped'[q] = stopped[q] \/ stage'[q] = "leaving"
    BY <1>13, <1>0 DEF BeginRecovery, MoveTo, Stop, Guarded, AboutToSleep, Asleep
  <2>5. stage'[q] \notin {"scanning", "deferring", "yielded"} /\ (q \in Waiting => stage[q] \notin {"granted", "leaving"})
    BY <1>13, <1>0 DEF BeginRecovery, MoveTo, Guarded, AboutToSleep, Asleep
  <2>6. QED
    BY <2>1, <2>2, <2>3, <2>4, <2>5, AsideStep
<1>14. ASSUME NEW q \in Requests, Enlist(q) PROVE YieldInv' /\ ComputedInv'
  <2>1. /\ UNCHANGED <<section, status, retired, hidden, recoveryEnabled, lease, announcing, woken, behind, due, overdue>>
        /\ section.owner # q /\ stage[q] = "enlisting"
    BY <1>14 DEF Enlist, poolVars, sleepVars, Shape, DriversMatch
  <2>2. q \notin Waiting
    BY <1>0, <2>1 DEF Guarded, AboutToSleep, Asleep
  <2>3. Waiting \subseteq Waiting' /\ Selecting \subseteq Selecting' /\ \A v, w : Before(v, w) => Before(v, w)'
    <3>1. CASE Room(q)
      <4>1. Insert(q, FALSE) /\ queue' = Append(queue, [request |-> q, selecting |-> FALSE])
        BY <1>14, <3>1 DEF Enlist, Insert
      <4>2. Waiting \subseteq Waiting' /\ Selecting \subseteq Selecting'
        BY <3>1, <4>1, InsertStep DEF Shape
      <4>3. QED
        BY <4>1, <4>2, EnqueuedLast DEF Shape
    <3>2. CASE ~Room(q)
      <4>1. UNCHANGED queueVars /\ UNCHANGED queue
        BY <1>14, <3>2 DEF Enlist, queueVars
      <4>2. QED
        BY <4>1, QueueKept, BeforeKept
    <3>3. QED
      BY <3>1, <3>2
  <2>4. /\ \A r \in Requests \ {q} : stage'[r] = stage[r] /\ stopped'[r] = stopped[r]
        /\ stage'[q] \in {"recovering", "gone"}
    BY <1>14, <1>0 DEF Enlist, MoveTo, Stop
  <2>5. QED
    BY <1>0, <2>1, <2>2, <2>3, <2>4, AsideStep
<1>15. ASSUME NEW q \in Requests, EndRecovery(q) PROVE YieldInv' /\ ComputedInv'
  <2>1. /\ DropGuard(q) /\ QueueFree
        /\ UNCHANGED <<section, status, retired, hidden, recoveryEnabled, lease, announcing, behind, due, overdue>>
    BY <1>15 DEF EndRecovery, poolVars, sleepVars
  <2>2. /\ \A r \in Requests \ {q} : stage'[r] = stage[r] /\ stopped'[r] = stopped[r]
        /\ stage'[q] \notin {"scanning", "deferring", "yielded"}
    BY <1>15, <1>0 DEF EndRecovery, MoveTo, Stop
  <2>3. QED
    BY <2>1, <2>2, LeaveStep
<1>16. ASSUME NEW q \in Requests, GiveUp(q) PROVE YieldInv' /\ ComputedInv'
  <2>1. /\ UNCHANGED <<queue, section, status, retired, hidden, recoveryEnabled, lease, announcing>>
        /\ woken \ {q} \subseteq woken' /\ section.owner # q
    BY <1>16 DEF GiveUp, queueVars, poolVars, Shape, DriversMatch
  <2>2. Waiting' = Waiting /\ Selecting' = Selecting /\ \A v, w : Before(v, w)' <=> Before(v, w)
    BY <2>1, BeforeKept DEF Waiting, Selecting
  <2>3. /\ \A r \in Requests \ {q} : stage'[r] = stage[r] /\ behind'[r] = behind[r] /\ due'[r] = due[r]
        /\ \A w \in Waiting : w \in overdue' <=> w \in overdue
        /\ \A w \in Waiting \ {q} : stopped'[w] = stopped[w]
    BY <1>16, <1>0 DEF GiveUp, MoveTo, Stop, sleepVars, Guarded, AboutToSleep, Asleep
  <2>4. q \in Waiting => stopped'[q] = stopped[q] \/ stage'[q] = "leaving"
    BY <1>16, <1>0 DEF GiveUp, MoveTo, Stop, Guarded, AboutToSleep, Asleep
  <2>5. stage'[q] \notin {"scanning", "deferring", "yielded"} /\ (q \in Waiting => stage[q] \notin {"granted", "leaving"})
    BY <1>16, <1>0 DEF GiveUp, MoveTo, Guarded, AboutToSleep, Asleep
  <2>6. QED
    BY <2>1, <2>2, <2>3, <2>4, <2>5, AsideStep
<1>17. ASSUME NEW q \in Requests, Settle(q) PROVE YieldInv' /\ ComputedInv'
  <2>1. lease'[q].phase \in {"settled", "silent"}
    BY <1>17 DEF Settle, Shape, OtherValues
  <2>2. QED
    BY <2>1 DEF YieldInv, ComputedInv, Still, Calm
<1>18. ASSUME NEW q \in Requests, ReleaseReservation(q) PROVE YieldInv' /\ ComputedInv'
  <2>1. lease'[q].phase \in {"settled", "silent"}
    BY <1>18 DEF ReleaseReservation, Shape, OtherValues
  <2>2. QED
    BY <2>1 DEF YieldInv, ComputedInv, Still, Calm
<1>19. ASSUME NEW q \in Requests, AnnounceRelease(q) PROVE YieldInv' /\ ComputedInv'
  <2>1. stage' = [stage EXCEPT ![q] = "gone"] /\ InAdmit \subseteq woken'
    BY <1>19 DEF AnnounceRelease, NotifyAvailability, MoveTo
  <2>2. Deferred' = {}
    BY <1>0, <2>1 DEF Deferred, InAdmit, AboutToSleep, Asleep
  <2>3. QED
    BY <2>2 DEF YieldInv, ComputedInv
<1>20. ASSUME NEW q \in Requests, Arrive(q) PROVE YieldInv' /\ ComputedInv'
  <2>1. /\ UNCHANGED <<queue, section, status, retired, hidden, recoveryEnabled, lease, announcing>>
        /\ woken \ {q} \subseteq woken' /\ section.owner # q
    BY <1>20 DEF Arrive, queueVars, poolVars, Shape, DriversMatch
  <2>2. Waiting' = Waiting /\ Selecting' = Selecting /\ \A v, w : Before(v, w)' <=> Before(v, w)
    BY <2>1, BeforeKept DEF Waiting, Selecting
  <2>3. /\ \A r \in Requests \ {q} : stage'[r] = stage[r] /\ behind'[r] = behind[r] /\ due'[r] = due[r]
        /\ \A w \in Waiting : w \in overdue' <=> w \in overdue
        /\ \A w \in Waiting \ {q} : stopped'[w] = stopped[w]
    BY <1>20, <1>0 DEF Arrive, MoveTo, Stop, sleepVars, Guarded, AboutToSleep, Asleep
  <2>4. q \in Waiting => stopped'[q] = stopped[q] \/ stage'[q] = "leaving"
    BY <1>20, <1>0 DEF Arrive, MoveTo, Stop, Guarded, AboutToSleep, Asleep
  <2>5. stage'[q] \notin {"scanning", "deferring", "yielded"} /\ (q \in Waiting => stage[q] \notin {"granted", "leaving"})
    BY <1>20, <1>0 DEF Arrive, MoveTo, Guarded, AboutToSleep, Asleep
  <2>6. QED
    BY <2>1, <2>2, <2>3, <2>4, <2>5, AsideStep
<1>21. ASSUME NEW q \in Requests, Cancel(q) PROVE YieldInv' /\ ComputedInv'
  <2>1. /\ DropGuard(q) /\ QueueFree
        /\ UNCHANGED <<section, status, retired, hidden, recoveryEnabled, lease, announcing, behind, due, overdue>>
    BY <1>21 DEF Cancel, poolVars, sleepVars
  <2>2. /\ \A r \in Requests \ {q} : stage'[r] = stage[r] /\ stopped'[r] = stopped[r]
        /\ stage'[q] \notin {"scanning", "deferring", "yielded"}
    BY <1>21, <1>0 DEF Cancel, MoveTo, Stop
  <2>3. QED
    BY <2>1, <2>2, LeaveStep
<1>22. ASSUME NEW q \in Requests, UseUpWait(q) PROVE YieldInv' /\ ComputedInv'
  <2>1. /\ UNCHANGED <<stage, queue, section, status, retired, hidden, recoveryEnabled, lease, announcing, woken,
                       behind, due, stopped>>
        /\ q \in Waiting /\ overdue' = overdue \cup {q}
    BY <1>22 DEF UseUpWait, queueVars, poolVars, sleepVars
  <2>2. Waiting' = Waiting /\ Selecting' = Selecting /\ \A v, w : Before(v, w)' <=> Before(v, w)
    BY <2>1, BeforeKept DEF Waiting, Selecting
  <2>3. \A v : Going(v) => Going(v)'
    BY <2>1, <2>2 DEF Going, Expired, HasDeadline
  <2>4. (Still' => Still) /\ Deferred' = Deferred
    BY <2>1, <2>3 DEF Still, Calm, Deferred
  <2>5. Still' => \A w \in Waiting : Expired(w)' <=> Expired(w)
    <3>1. Still' => ~Expired(q)'
      BY <1>0, <2>1, <2>2 DEF Still, Going
    <3>2. Still' => ~HasDeadline(q)
      BY <2>1, <3>1 DEF Expired, HasDeadline
    <3>3. QED
      BY <2>1, <3>2 DEF Expired, HasDeadline
  <2>6. YieldInv'
    BY <2>1, <2>2, <2>4, <2>5, DeferKept
  <2>7. ComputedInv'
    BY <2>1, <2>4, <2>5, ComputedKept
  <2>8. QED
    BY <2>6, <2>7
<1>23. ASSUME NEW m \in Members, EndCooldown(m) PROVE YieldInv' /\ ComputedInv'
  BY <1>23, CooldownStep
<1>24. ASSUME Configuring, \A channel \in Channels : ~Announce(channel) PROVE YieldInv' /\ ComputedInv'
  <2>1. announcing' # {}
    BY <1>24 DEF Configuring, UpdateMember, SetHidden, SetRecoveryEnabled, RetireForReplacement, Change, Channels
  <2>2. QED
    BY <2>1 DEF YieldInv, ComputedInv, Still, Calm
<1>25. ASSUME NEW channel \in Channels, Announce(channel) PROVE YieldInv' /\ ComputedInv'
  <2>1. stage' = stage /\ InAdmit \subseteq woken'
    BY <1>25 DEF Announce, NotifyTurn, NotifyAvailability
  <2>2. Deferred' = {}
    BY <2>1 DEF Deferred, InAdmit, AboutToSleep, Asleep
  <2>3. QED
    BY <2>2 DEF YieldInv, ComputedInv
<1>26. QED
  BY <1>1, <1>2, <1>3, <1>4, <1>5, <1>6, <1>7, <1>8, <1>9, <1>10, <1>11, <1>12, <1>13,
     <1>14, <1>15, <1>16, <1>17, <1>18, <1>19, <1>20, <1>21, <1>22, <1>23, <1>24, <1>25
     DEF Next, Driving, Enter, Decide, Return, AwaitRecovery, EndLease

\* A non-empty set of positions of the queue has a first one.
LEMMA FirstPosition ==
  ASSUME NEW S \in SUBSET Nat, S # {}
  PROVE  \E x \in S : \A y \in S : x <= y
<1> DEFINE Below == {0..x : x \in S}
<1>1. Below \subseteq FiniteSubsetsOf(Nat)
  <2>1. \A x \in S : IsFiniteSet(0..x)
    BY FS_Interval
  <2>2. QED
    BY <2>1 DEF FiniteSubsetsOf
<1>2. Below # {}
  OBVIOUS
<1> HIDE DEF Below
<1>3. PICK least \in Below : \A other \in Below : ~(<<other, least>> \in StrictSubsetOrdering(Nat))
  BY <1>1, <1>2, FS_StrictSubsetOrderingWellFounded, WFMin
<1>4. PICK x \in S : least = 0..x
  BY <1>3 DEF Below
<1>5. ASSUME NEW y \in S, y < x PROVE FALSE
  <2>1. 0..y \subseteq 0..x /\ 0..y # 0..x
    BY <1>5
  <2>2. <<0..y, 0..x>> \in StrictSubsetOrdering(Nat)
    BY <2>1 DEF StrictSubsetOrdering
  <2>3. 0..y \in Below
    BY DEF Below
  <2>4. QED
    BY <1>3, <1>4, <2>2, <2>3
<1>6. QED
  BY <1>5

\* When nothing more will happen, the oldest waiter that could go would have
\* found room or nobody before it.
LEMMA QuietMeansUnready ==
  ASSUME Shape, KindInv, DeadlineInv, YieldInv, WakeInv, Quiet,
         NEW i \in DOMAIN queue, queue[i].selecting, Admissible(queue[i].request, {}),
         \A j \in DOMAIN queue : queue[j].selecting /\ Admissible(queue[j].request, {}) => i <= j
  PROVE  FALSE
<1> DEFINE w == queue[i].request
<1>1. w \in Selecting /\ w \in Waiting /\ w \in Requests
  <2>1. w \in Selecting
    BY DEF Selecting
  <2>2. QED
    BY <2>1, QueueBasics DEF Shape
<1>2. Admissible(w, {}) /\ \A k \in DOMAIN queue : queue[k].request = w => k = i
  BY DEF Shape, QueueValues
<1> HIDE DEF w
<1>3. Calm
  BY DEF Quiet, Calm
<1>4. Still
  <2> SUFFICES ASSUME NEW v \in Requests, Going(v) PROVE FALSE
    BY <1>3 DEF Still
  <2>1. stage[v] \in Asleep \cup {"recovering"}
    <3>1. v \in Waiting /\ stage[v] \in Asleep \cup {"gone", "recovering"}
      BY DEF Going, Quiet
    <3>2. stage[v] # "gone"
      BY <3>1 DEF Shape, DriversMatch, Guarded, AboutToSleep, Asleep
    <3>3. QED
      BY <3>1, <3>2
  <2>2. ~Awake(v) /\ v \in InAdmit \cup InRecovery /\ announcing = {}
    BY <2>1 DEF Quiet, InAdmit, InRecovery, Asleep
  <2>3. HasDeadline(v) /\ v \in overdue
    BY <2>1 DEF Going, Expired, Asleep
  <2>4. QED
    BY <2>2, <2>3 DEF DeadlineInv, Awake
<1>5. stage[w] \in Asleep /\ w \notin woken
  <2>1. stage[w] \in Asleep \cup {"gone", "recovering"} /\ (stage[w] # "gone" => ~Awake(w))
    BY <1>1 DEF Quiet
  <2>2. stage[w] # "gone"
    BY <1>1 DEF Shape, DriversMatch, Guarded, AboutToSleep, Asleep
  <2>3. stage[w] # "recovering"
    BY <1>1 DEF KindInv
  <2>4. QED
    BY <2>1, <2>2, <2>3 DEF Awake
<1>6. CASE stage[w] = "sleeping"
  <2>1. ReadyMembers(w, {}) = {}
    BY <1>1, <1>3, <1>5, <1>6 DEF WakeInv, Informed
  <2>2. QED
    BY <1>2, <2>1 DEF Admissible
<1>7. CASE stage[w] = "yielded"
  <2>1. w \in Deferred
    BY <1>1, <1>5, <1>7 DEF Deferred
  <2>2. PICK v \in Selecting : Before(v, w) /\ Admissible(v, {})
    BY <1>2, <1>4, <1>7, <2>1 DEF YieldInv, Excused, Unseen
  <2>3. PICK k \in DOMAIN queue, l \in DOMAIN queue : k < l /\ queue[k].request = v /\ queue[l].request = w
    BY <2>2 DEF Before
  <2>4. l = i
    BY <1>2, <2>3
  <2>5. PICK j \in DOMAIN queue : queue[j].selecting /\ queue[j].request = v
    BY DEF Selecting
  <2>6. j = k
    BY <2>3, <2>5 DEF Shape, QueueValues
  <2>7. i <= k
    BY <2>2, <2>5, <2>6
  <2>8. i \in Nat /\ k \in Nat
    BY QueueBasics DEF Shape
  <2>9. QED
    BY <2>3, <2>4, <2>7, <2>8
<1>8. QED
  BY <1>5, <1>6, <1>7 DEF Asleep

\* The requests of one principal never all sleep behind each other while a
\* member is free that one of them may use: "oldest-compatible" (admission.rs)
\* leaves somebody to go.  With two principals this fails (NoStall, run stall).
THEOREM OnePrincipalNeverStalls ==
  ASSUME \A v, w \in Requests : PrincipalOf[v] = PrincipalOf[w]
  PROVE  Spec => []NoStall
<1> DEFINE Inv == KindInv /\ SectionInv /\ DeadlineInv /\ WakeInv /\ YieldInv /\ ComputedInv
<1>1. Init => Inv
  <2>1. Init => KindInv
    BY DEF Init, KindInv, Waiting
  <2>2. Init => SectionInv /\ DeadlineInv /\ WakeInv
    BY DEF Init, SectionInv, FreeSection, DeadlineInv, InAdmit, InRecovery, AboutToSleep, Asleep, WakeInv, Informed
  <2>3. Init => YieldInv /\ ComputedInv
    BY DEF Init, YieldInv, ComputedInv, FreeSection, Deferred
  <2>4. QED
    BY <2>1, <2>2, <2>3
<1>2. Shape /\ Shape' /\ Inv /\ [Next]_vars => Inv'
  BY KindStep, SectionStep, DeadlineStep, WakeStep, StallStep
<1>3. Shape /\ Inv => NoStall
  <2> SUFFICES ASSUME Shape, Inv, Quiet, NEW w \in Selecting, Admissible(w, {}) PROVE FALSE
    BY DEF NoStall
  <2> DEFINE S == {i \in DOMAIN queue : queue[i].selecting /\ Admissible(queue[i].request, {})}
  <2>1. S # {} /\ S \in SUBSET Nat
    <3>1. PICK i \in DOMAIN queue : queue[i].selecting /\ queue[i].request = w
      BY DEF Selecting
    <3>2. i \in S
      BY <3>1
    <3>3. DOMAIN queue \subseteq Nat
      BY QueueBasics DEF Shape
    <3>4. QED
      BY <3>2, <3>3
  <2>2. PICK i \in S : \A j \in S : i <= j
    BY <2>1, FirstPosition
  <2>3. QED
    BY <2>2, QuietMeansUnready
<1>4. QED
  BY <1>1, <1>2, <1>3, ShapeHolds, PTL DEF Spec

=============================================================================
