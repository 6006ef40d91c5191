------------------------- MODULE PoolMembersProofs -------------------------
(***************************************************************************)
(* PoolMembers for every number of candidates, members, requests and       *)
(* edits: the counters are those of the leases, limits and fences hold,    *)
(* and a revoked lease is not dispatched.                                  *)
(***************************************************************************)
EXTENDS PoolMembers, FiniteSetTheorems, TLAPS

-----------------------------------------------------------------------------
(* Types *)

Registration == [enabled : BOOLEAN, draining : BOOLEAN]

PoolValues ==
  /\ candidates \in [Candidates -> Registration \cup {Absent}]
  /\ tombstones \subseteq Candidates
  /\ permission \in [Candidates -> Nat]
  /\ fences \in [Candidates -> [epoch : Nat, count : Nat]] /\ fenceEpoch \in 0..MaxEpochs
  /\ poolLease \in [PoolLeases -> HeldLease \cup {NoLease}]
  /\ fenceHolder \in [FenceHolders -> HeldFence \cup {NoFence}]
  /\ upserts \in 0..MaxUpserts

\* A lease is free or on a candidate.
LEMMA LeaseCases ==
  ASSUME PoolValues, NEW l \in PoolLeases
  PROVE  \/ poolLease[l].at = "free" /\ poolLease[l] = NoLease
         \/ /\ poolLease[l] \in HeldLease /\ poolLease[l].at # "free"
            /\ poolLease[l].candidate \in Candidates
BY DEF PoolValues, HeldLease, NoLease

\* An edit holds no fence, or one of a candidate.
LEMMA FenceCases ==
  ASSUME PoolValues, NEW f \in FenceHolders
  PROVE  \/ ~fenceHolder[f].held /\ fenceHolder[f] = NoFence
         \/ /\ fenceHolder[f] \in HeldFence /\ fenceHolder[f].held
            /\ fenceHolder[f].candidate \in Candidates
<1>1. CASE fenceHolder[f] = NoFence
  BY <1>1 DEF NoFence
<1>2. CASE fenceHolder[f] \in HeldFence
  BY <1>2 DEF HeldFence
<1>3. QED
  BY <1>1, <1>2 DEF PoolValues

LEMMA StaleValues ==
  ASSUME PoolValues, NEW c \in Candidates
  PROVE  /\ Stale(poolLease, c) \in [PoolLeases -> HeldLease \cup {NoLease}]
         /\ \A l \in PoolLeases :
              /\ Stale(poolLease, c)[l].at = poolLease[l].at
              /\ poolLease[l].at # "free" =>
                   /\ Stale(poolLease, c)[l].candidate = poolLease[l].candidate
                   /\ Stale(poolLease, c)[l].permission = poolLease[l].permission
                   /\ poolLease[l].candidate # c =>
                        Stale(poolLease, c)[l].stale = poolLease[l].stale
<1> SUFFICES ASSUME NEW l \in PoolLeases
             PROVE  /\ Stale(poolLease, c)[l] \in HeldLease \cup {NoLease}
                    /\ Stale(poolLease, c)[l].at = poolLease[l].at
                    /\ poolLease[l].at # "free" =>
                         /\ Stale(poolLease, c)[l].candidate = poolLease[l].candidate
                         /\ Stale(poolLease, c)[l].permission = poolLease[l].permission
                         /\ poolLease[l].candidate # c =>
                              Stale(poolLease, c)[l].stale = poolLease[l].stale
  BY DEF Stale
<1>1. CASE l \in Holding(poolLease, c)
  <2>1. poolLease[l] \in HeldLease
    BY <1>1, LeaseCases DEF Holding
  <2>2. Stale(poolLease, c)[l] = [poolLease[l] EXCEPT !.stale = TRUE]
    BY <1>1 DEF Stale
  <2>3. QED
    BY <1>1, <2>1, <2>2 DEF HeldLease, Holding
<1>2. CASE l \notin Holding(poolLease, c)
  <2>1. Stale(poolLease, c)[l] = poolLease[l]
    BY <1>2 DEF Stale
  <2>2. QED
    BY <2>1, LeaseCases
<1>3. QED
  BY <1>1, <1>2

LEMMA RemoveNowValues ==
  ASSUME PoolValues, NEW c \in Candidates, NEW left, RemoveNow(c, left)
  PROVE  /\ candidates' \in [Candidates -> Registration \cup {Absent}]
         /\ tombstones' \subseteq Candidates
         /\ permission' \in [Candidates -> Nat]
         /\ fences' \in [Candidates -> [epoch : Nat, count : Nat]]
         /\ fenceHolder' \in [FenceHolders -> HeldFence \cup {NoFence}]
<1>1. fenceHolder' \in [FenceHolders -> HeldFence \cup {NoFence}]
  <2> SUFFICES ASSUME NEW f \in FenceHolders PROVE fenceHolder'[f] \in HeldFence \cup {NoFence}
    BY DEF RemoveNow
  <2>1. fenceHolder[f] \in HeldFence \cup {NoFence}
    BY DEF PoolValues
  <2>2. CASE fenceHolder[f].held /\ fenceHolder[f].candidate = c
    <3>1. fenceHolder'[f] = [fenceHolder[f] EXCEPT !.removed = TRUE]
      BY <2>2 DEF RemoveNow
    <3>2. fenceHolder[f] \in HeldFence
      BY <2>1, <2>2 DEF NoFence
    <3>3. QED
      BY <3>1, <3>2 DEF HeldFence
  <2>3. CASE ~(fenceHolder[f].held /\ fenceHolder[f].candidate = c)
    BY <2>1, <2>3 DEF RemoveNow
  <2>4. QED
    BY <2>2, <2>3
<1>2. fences' \in [Candidates -> [epoch : Nat, count : Nat]]
  BY DEF RemoveNow, PoolValues
<1>3. QED
  BY <1>1, <1>2 DEF RemoveNow, PoolValues

LEMMA PoolValuesInit ==
  PoolInit => PoolValues
BY PoolAssumption DEF PoolInit, PoolValues, NoLease, NoFence, HeldLease, HeldFence

LEMMA PoolValuesStep ==
  PoolValues /\ [PoolNext]_poolVars => PoolValues'
<1> SUFFICES ASSUME PoolValues, [PoolNext]_poolVars PROVE PoolValues'
  OBVIOUS
<1> USE PoolAssumption
<1>1. ASSUME NEW c \in Candidates, NEW new \in Registration, UpsertCandidate(c, new)
      PROVE  PoolValues'
  <2>1. poolLease' \in [PoolLeases -> HeldLease \cup {NoLease}]
    BY <1>1, StaleValues DEF UpsertCandidate, PoolValues
  <2>2. /\ candidates' \in [Candidates -> Registration \cup {Absent}]
        /\ permission' \in [Candidates -> Nat] /\ tombstones' \subseteq Candidates
        /\ upserts' \in 0..MaxUpserts
    BY <1>1 DEF UpsertCandidate, PoolValues
  <2>3. QED
    BY <1>1, <2>1, <2>2 DEF UpsertCandidate, PoolValues
<1>2. ASSUME NEW c \in Candidates, NEW enabled \in BOOLEAN, UpdateAvailability(c, enabled)
      PROVE  PoolValues'
  <2>1. candidates[c] \in Registration
    BY <1>2 DEF UpdateAvailability, Known, PoolValues
  <2>2. [candidates[c] EXCEPT !.enabled = enabled] \in Registration
    BY <2>1 DEF Registration
  <2>3. candidates' \in [Candidates -> Registration \cup {Absent}]
    BY <1>2, <2>2 DEF UpdateAvailability, PoolValues
  <2>4. QED
    BY <1>2, <2>3 DEF UpdateAvailability, PoolValues
<1>3. ASSUME NEW c \in Candidates, RemoveCandidate(c) PROVE PoolValues'
  <2>1. poolLease' \in [PoolLeases -> HeldLease \cup {NoLease}]
    BY <1>3, StaleValues DEF RemoveCandidate
  <2>2. CASE activity[c] > 0
    <3>1. [enabled |-> FALSE, draining |-> TRUE] \in Registration
      BY DEF Registration
    <3>2. /\ candidates' = [candidates EXCEPT ![c] = [enabled |-> FALSE, draining |-> TRUE]]
          /\ tombstones' = tombstones \cup {c}
          /\ UNCHANGED <<permission, fences, fenceHolder, fenceEpoch, upserts>>
      BY <1>3, <2>2 DEF RemoveCandidate
    <3>3. candidates' \in [Candidates -> Registration \cup {Absent}]
      BY <3>1, <3>2 DEF PoolValues
    <3>4. QED
      BY <2>1, <3>2, <3>3 DEF PoolValues
  <2>3. CASE ~(activity[c] > 0)
    BY <1>3, <2>1, <2>3, RemoveNowValues DEF RemoveCandidate, PoolValues
  <2>4. QED
    BY <2>2, <2>3
<1>4. ASSUME NEW f \in FenceHolders, NEW c \in Candidates, BeginFence(f, c) PROVE PoolValues'
  <2>1. /\ fences' \in [Candidates -> [epoch : Nat, count : Nat]]
        /\ fenceEpoch' \in 0..MaxEpochs
    BY <1>4 DEF BeginFence, PoolValues
  <2>2. fences'[c].epoch \in Nat
    BY <2>1
  <2>3. fenceHolder' \in [FenceHolders -> HeldFence \cup {NoFence}]
    BY <1>4, <2>2 DEF BeginFence, PoolValues, HeldFence
  <2>4. QED
    BY <1>4, <2>1, <2>3 DEF BeginFence, PoolValues
<1>5. ASSUME NEW f \in FenceHolders, EndFence(f) PROVE PoolValues'
  <2>1. fenceHolder' \in [FenceHolders -> HeldFence \cup {NoFence}]
    BY <1>5 DEF EndFence, PoolValues
  <2>2. fences' \in [Candidates -> [epoch : Nat, count : Nat]]
    <3> DEFINE c == fenceHolder[f].candidate
    <3>1. c \in Candidates
      BY <1>5, FenceCases DEF EndFence
    <3>2. Opens(c, fenceHolder[f].epoch) => fences[c].count - 1 \in Nat
      BY <3>1 DEF Opens, PoolValues
    <3> HIDE DEF c
    <3>3. fences' = IF Opens(c, fenceHolder[f].epoch) THEN [fences EXCEPT ![c].count = @ - 1]
                    ELSE fences
      BY <1>5 DEF EndFence, c
    <3>4. QED
      BY <3>1, <3>2, <3>3 DEF PoolValues
  <2>3. QED
    BY <1>5, <2>1, <2>2 DEF EndFence, PoolValues
<1>6. ASSUME NEW l \in PoolLeases, NEW c \in Candidates, ReserveRequest(l, c) PROVE PoolValues'
  <2>1. [at |-> "reserved", candidate |-> c, permission |-> permission[c], stale |-> FALSE]
          \in HeldLease
    BY DEF HeldLease, PoolValues
  <2>2. poolLease' \in [PoolLeases -> HeldLease \cup {NoLease}]
    BY <1>6, <2>1 DEF ReserveRequest, PoolValues
  <2>3. QED
    BY <1>6, <2>2 DEF ReserveRequest, PoolValues
<1>7. ASSUME NEW l \in PoolLeases, DispatchRequest(l) \/ SettleRequest(l) PROVE PoolValues'
  <2>1. poolLease[l] \in HeldLease
    BY <1>7, LeaseCases DEF DispatchRequest, SettleRequest
  <2>2. \A stage \in {"dispatched", "settled"} : [poolLease[l] EXCEPT !.at = stage] \in HeldLease
    BY <2>1 DEF HeldLease
  <2>3. poolLease' \in [PoolLeases -> HeldLease \cup {NoLease}]
    BY <1>7, <2>2 DEF DispatchRequest, SettleRequest, PoolValues
  <2>4. QED
    BY <1>7, <2>3 DEF DispatchRequest, SettleRequest, PoolValues
<1>8. ASSUME NEW l \in PoolLeases, ReleaseRequest(l) PROVE PoolValues'
  <2> DEFINE c == poolLease[l].candidate
             left == [memberActivity EXCEPT ![PoolMemberOf[c]] = @ - 1]
  <2>1. c \in Candidates
    BY <1>8, LeaseCases DEF ReleaseRequest
  <2>2. /\ poolLease' \in [PoolLeases -> HeldLease \cup {NoLease}]
        /\ UNCHANGED <<fenceEpoch, upserts>>
    BY <1>8 DEF ReleaseRequest, PoolValues
  <2>3. \/ RemoveNow(c, left)
        \/ UNCHANGED <<candidates, tombstones, permission, fences, fenceHolder>>
    BY <1>8 DEF ReleaseRequest
  <2> HIDE DEF c, left
  <2>4. QED
    BY <2>1, <2>2, <2>3, RemoveNowValues DEF PoolValues
<1>9. CASE UNCHANGED poolVars
  BY <1>9 DEF poolVars, PoolValues
<1>10. QED
  BY <1>1, <1>2, <1>3, <1>4, <1>5, <1>6, <1>7, <1>8, <1>9 DEF PoolNext, Registration

-----------------------------------------------------------------------------
(* Counters *)

\* The part of PoolTypeOK about counters.
Counted ==
  /\ activity = [c \in Candidates |-> Cardinality(Holding(poolLease, c))]
  /\ memberActivity = [m \in PoolMembersSet |-> Cardinality(HoldingMember(m))]
  /\ \A c \in tombstones : candidates[c] # Absent /\ activity[c] > 0
  /\ \A c \in Candidates : activity[c] > 0 => candidates[c] # Absent

\* A step that moves no lease, onto a candidate or off it.
LeasesStay ==
  \A l \in PoolLeases :
    /\ poolLease'[l].at = "free" <=> poolLease[l].at = "free"
    /\ poolLease[l].at # "free" => poolLease'[l].candidate = poolLease[l].candidate

LEMMA HoldingStays ==
  ASSUME LeasesStay
  PROVE  /\ \A c : Holding(poolLease', c) = Holding(poolLease, c)
         /\ \A m : HoldingMember(m)' = HoldingMember(m)
<1>1. ASSUME NEW c PROVE Holding(poolLease', c) = Holding(poolLease, c)
  BY DEF LeasesStay, Holding
<1>2. ASSUME NEW m PROVE HoldingMember(m)' = HoldingMember(m)
  BY DEF LeasesStay, HoldingMember
<1>3. QED
  BY <1>1, <1>2

LEMMA HoldingFinite ==
  /\ \A leases, c : /\ IsFiniteSet(Holding(leases, c)) /\ Cardinality(Holding(leases, c)) \in Nat
                    /\ Cardinality(Holding(leases, c)) = 0 <=> Holding(leases, c) = {}
  /\ \A m : /\ IsFiniteSet(HoldingMember(m)) /\ Cardinality(HoldingMember(m)) \in Nat
            /\ Cardinality(HoldingMember(m)) = 0 <=> HoldingMember(m) = {}
<1> USE PoolAssumption
<1>1. ASSUME NEW leases, NEW c PROVE IsFiniteSet(Holding(leases, c))
  <2>1. Holding(leases, c) \subseteq PoolLeases
    BY DEF Holding
  <2>2. QED
    BY <2>1, FS_Subset
<1>2. ASSUME NEW m PROVE IsFiniteSet(HoldingMember(m))
  <2>1. HoldingMember(m) \subseteq PoolLeases
    BY DEF HoldingMember
  <2>2. QED
    BY <2>1, FS_Subset
<1>3. QED
  BY <1>1, <1>2, FS_CardinalityType, FS_EmptySet

\* The candidate of a lease is registered.
LEMMA HeldIsKnown ==
  ASSUME PoolValues, Counted, NEW l \in PoolLeases, poolLease[l].at # "free"
  PROVE  /\ poolLease[l].candidate \in Candidates
         /\ activity[poolLease[l].candidate] > 0
         /\ Known(poolLease[l].candidate)
<1> DEFINE c == poolLease[l].candidate
<1>1. c \in Candidates
  BY LeaseCases
<1>2. l \in Holding(poolLease, c)
  BY DEF Holding
<1>3. Cardinality(Holding(poolLease, c)) \in Nat /\ Cardinality(Holding(poolLease, c)) # 0
  BY <1>2, HoldingFinite
<1> HIDE DEF c
<1>4. activity[c] = Cardinality(Holding(poolLease, c))
  BY <1>1 DEF Counted
<1>5. activity[c] > 0
  BY <1>3, <1>4
<1>6. Known(c)
  BY <1>1, <1>5 DEF Counted, Known
<1>7. QED
  BY <1>1, <1>5, <1>6 DEF c

\* A candidate goes when nothing holds it; its member's count then is that of
\* the other candidates.
LEMMA CountedRemoval ==
  ASSUME PoolValues, PoolValues', NEW c \in Candidates, NEW left,
         RemoveNow(c, left),
         activity' = [d \in Candidates |-> Cardinality(Holding(poolLease', d))],
         left = [m \in PoolMembersSet |-> Cardinality(HoldingMember(m)')],
         Holding(poolLease', c) = {},
         \A l \in PoolLeases : poolLease'[l].at # "free" => Known(poolLease'[l].candidate),
         \A d \in tombstones \ {c} : Known(d) /\ activity'[d] > 0
  PROVE  Counted'
<1> DEFINE n == PoolMemberOf[c]
<1>1. memberActivity' = left
  <2>1. CASE \E d \in Candidates \ {c} : Known(d) /\ PoolMemberOf[d] = n
    BY <2>1 DEF RemoveNow, MemberActivityWithout
  <2>2. CASE ~(\E d \in Candidates \ {c} : Known(d) /\ PoolMemberOf[d] = n)
    <3>1. memberActivity' = [left EXCEPT ![n] = 0]
      BY <2>2 DEF RemoveNow, MemberActivityWithout
    <3>2. HoldingMember(n)' = {}
      <4>1. SUFFICES ASSUME NEW l \in PoolLeases, poolLease'[l].at # "free",
                            PoolMemberOf[poolLease'[l].candidate] = n
                     PROVE  FALSE
        BY DEF HoldingMember
      <4>2. poolLease'[l].candidate \in Candidates
        BY <4>1 DEF PoolValues, HeldLease, NoLease
      <4>3. poolLease'[l].candidate # c
        BY <4>1 DEF Holding
      <4>4. QED
        BY <2>2, <4>1, <4>2, <4>3
    <3>3. Cardinality(HoldingMember(n)') = 0
      BY <3>2, FS_EmptySet
    <3>4. n \in PoolMembersSet
      BY DEF PoolMembersSet
    <3> HIDE DEF n
    <3>5. left[n] = 0
      BY <3>3, <3>4
    <3>6. QED
      BY <3>1, <3>4, <3>5
  <2>3. QED
    BY <2>1, <2>2
<1>2. \A d \in Candidates : activity'[d] > 0 => candidates'[d] # Absent
  <2> SUFFICES ASSUME NEW d \in Candidates, activity'[d] > 0 PROVE candidates'[d] # Absent
    OBVIOUS
  <2>1. Holding(poolLease', d) # {}
    <3>1. activity'[d] = Cardinality(Holding(poolLease', d))
      OBVIOUS
    <3>2. Cardinality(Holding(poolLease', d)) # 0
      BY <3>1
    <3>3. QED
      BY <3>2, FS_EmptySet
  <2>2. d # c
    BY <2>1
  <2>3. Known(d)
    BY <2>1 DEF Holding
  <2>4. QED
    BY <2>2, <2>3 DEF RemoveNow, Known, PoolValues
<1>3. \A d \in tombstones' : candidates'[d] # Absent /\ activity'[d] > 0
  BY DEF RemoveNow, Known, PoolValues
<1>4. QED
  BY <1>1, <1>2, <1>3 DEF Counted

\* What a new lease, and a released one, does to the sets of leases.
LEMMA HoldingReserve ==
  ASSUME PoolValues, NEW l \in PoolLeases, NEW c \in Candidates, ReserveRequest(l, c)
  PROVE  /\ \A d : Holding(poolLease', d) =
              IF d = c THEN Holding(poolLease, d) \cup {l} ELSE Holding(poolLease, d)
         /\ \A m : HoldingMember(m)' =
              IF m = PoolMemberOf[c] THEN HoldingMember(m) \cup {l} ELSE HoldingMember(m)
         /\ \A d : l \notin Holding(poolLease, d)
         /\ \A m : l \notin HoldingMember(m)
<1>1. /\ poolLease'[l].at = "reserved" /\ poolLease'[l].candidate = c
      /\ \A k \in PoolLeases \ {l} : poolLease'[k] = poolLease[k]
      /\ poolLease[l].at = "free"
  BY DEF ReserveRequest, PoolValues
<1>2. ASSUME NEW d
      PROVE  /\ Holding(poolLease', d) =
                  IF d = c THEN Holding(poolLease, d) \cup {l} ELSE Holding(poolLease, d)
             /\ l \notin Holding(poolLease, d)
  BY <1>1 DEF Holding
<1>3. ASSUME NEW m
      PROVE  /\ HoldingMember(m)' =
                  IF m = PoolMemberOf[c] THEN HoldingMember(m) \cup {l} ELSE HoldingMember(m)
             /\ l \notin HoldingMember(m)
  BY <1>1 DEF HoldingMember
<1>4. QED
  BY <1>2, <1>3

LEMMA HoldingRelease ==
  ASSUME PoolValues, NEW l \in PoolLeases, ReleaseRequest(l)
  PROVE  /\ \A d : Holding(poolLease', d) = Holding(poolLease, d) \ {l}
         /\ \A m : HoldingMember(m)' = HoldingMember(m) \ {l}
         /\ \A d : l \in Holding(poolLease, d) <=> d = poolLease[l].candidate
         /\ \A m : l \in HoldingMember(m) <=> m = PoolMemberOf[poolLease[l].candidate]
<1>1. /\ poolLease'[l].at = "free"
      /\ \A k \in PoolLeases \ {l} : poolLease'[k] = poolLease[k]
      /\ poolLease[l].at # "free"
  BY DEF ReleaseRequest, PoolValues, NoLease
<1>2. ASSUME NEW d
      PROVE  /\ Holding(poolLease', d) = Holding(poolLease, d) \ {l}
             /\ l \in Holding(poolLease, d) <=> d = poolLease[l].candidate
  BY <1>1 DEF Holding
<1>3. ASSUME NEW m
      PROVE  /\ HoldingMember(m)' = HoldingMember(m) \ {l}
             /\ l \in HoldingMember(m) <=> m = PoolMemberOf[poolLease[l].candidate]
  BY <1>1 DEF HoldingMember
<1>4. QED
  BY <1>2, <1>3

\* The counters follow the leases when one is reserved.
LEMMA CountedReserve ==
  ASSUME PoolValues, Counted, NEW l \in PoolLeases, NEW c \in Candidates, ReserveRequest(l, c)
  PROVE  Counted'
<1>1. activity' = [d \in Candidates |-> Cardinality(Holding(poolLease', d))]
  <2> SUFFICES ASSUME NEW d \in Candidates
               PROVE  activity'[d] = Cardinality(Holding(poolLease', d))
    BY DEF ReserveRequest, Counted
  <2>1. activity'[d] = IF d = c THEN activity[d] + 1 ELSE activity[d]
    BY DEF ReserveRequest, Counted
  <2>2. activity[d] = Cardinality(Holding(poolLease, d))
    BY DEF Counted
  <2>3. /\ l \notin Holding(poolLease, d) /\ IsFiniteSet(Holding(poolLease, d))
        /\ Holding(poolLease', d) =
             IF d = c THEN Holding(poolLease, d) \cup {l} ELSE Holding(poolLease, d)
    BY HoldingReserve, HoldingFinite
  <2>4. Cardinality(Holding(poolLease, d) \cup {l}) = Cardinality(Holding(poolLease, d)) + 1
    BY <2>3, FS_AddElement
  <2>5. QED
    BY <2>1, <2>2, <2>3, <2>4
<1>2. memberActivity' = [m \in PoolMembersSet |-> Cardinality(HoldingMember(m)')]
  <2> SUFFICES ASSUME NEW m \in PoolMembersSet
               PROVE  memberActivity'[m] = Cardinality(HoldingMember(m)')
    BY DEF ReserveRequest, Counted
  <2>1. memberActivity'[m] = IF m = PoolMemberOf[c] THEN memberActivity[m] + 1
                             ELSE memberActivity[m]
    BY DEF ReserveRequest, Counted
  <2>2. memberActivity[m] = Cardinality(HoldingMember(m))
    BY DEF Counted
  <2>3. /\ l \notin HoldingMember(m) /\ IsFiniteSet(HoldingMember(m))
        /\ HoldingMember(m)' =
             IF m = PoolMemberOf[c] THEN HoldingMember(m) \cup {l} ELSE HoldingMember(m)
    BY HoldingReserve, HoldingFinite
  <2>4. Cardinality(HoldingMember(m) \cup {l}) = Cardinality(HoldingMember(m)) + 1
    BY <2>3, FS_AddElement
  <2>5. QED
    BY <2>1, <2>2, <2>3, <2>4
<1>3. Known(c) /\ UNCHANGED <<candidates, tombstones>>
  BY DEF ReserveRequest, Visible
<1>4. \A d \in Candidates : activity[d] \in Nat /\ activity'[d] \in Nat
        /\ (activity[d] > 0 => activity'[d] > 0) /\ (activity'[d] > 0 => activity[d] > 0 \/ d = c)
  <2> SUFFICES ASSUME NEW d \in Candidates
               PROVE  activity[d] \in Nat /\ activity'[d] \in Nat
                 /\ (activity[d] > 0 => activity'[d] > 0)
                 /\ (activity'[d] > 0 => activity[d] > 0 \/ d = c)
    OBVIOUS
  <2>1. activity[d] \in Nat
    BY HoldingFinite DEF Counted
  <2>2. activity'[d] = IF d = c THEN activity[d] + 1 ELSE activity[d]
    BY DEF ReserveRequest, Counted
  <2>3. QED
    BY <2>1, <2>2
<1>5. \A d \in tombstones' : candidates'[d] # Absent /\ activity'[d] > 0
  BY <1>3, <1>4 DEF Counted, PoolValues
<1>6. \A d \in Candidates : activity'[d] > 0 => candidates'[d] # Absent
  BY <1>3, <1>4 DEF Counted, Known
<1>7. QED
  BY <1>1, <1>2, <1>5, <1>6 DEF Counted

\* And when one is released: its candidate goes with it if it was a tombstone
\* and this was its last.
LEMMA CountedRelease ==
  ASSUME PoolValues, PoolValues', Counted, NEW l \in PoolLeases, ReleaseRequest(l)
  PROVE  Counted'
<1> DEFINE c == poolLease[l].candidate
           left == [memberActivity EXCEPT ![PoolMemberOf[c]] = @ - 1]
<1>1. c \in Candidates /\ Known(c) /\ activity[c] > 0
  <2>1. poolLease[l].at # "free"
    BY DEF ReleaseRequest
  <2>2. QED
    BY <2>1, HeldIsKnown
<1>2. activity' = [d \in Candidates |-> Cardinality(Holding(poolLease', d))]
  <2> SUFFICES ASSUME NEW d \in Candidates
               PROVE  activity'[d] = Cardinality(Holding(poolLease', d))
    BY DEF ReleaseRequest, Counted
  <2>1. activity'[d] = IF d = c THEN activity[d] - 1 ELSE activity[d]
    BY DEF ReleaseRequest, Counted
  <2>2. activity[d] = Cardinality(Holding(poolLease, d))
    BY DEF Counted
  <2>3. /\ l \in Holding(poolLease, d) <=> d = c
        /\ IsFiniteSet(Holding(poolLease, d))
        /\ Holding(poolLease', d) = Holding(poolLease, d) \ {l}
    BY HoldingRelease, HoldingFinite
  <2>4. Cardinality(Holding(poolLease, d) \ {l}) =
          IF l \in Holding(poolLease, d) THEN Cardinality(Holding(poolLease, d)) - 1
          ELSE Cardinality(Holding(poolLease, d))
    BY <2>3, FS_RemoveElement
  <2>5. QED
    BY <2>1, <2>2, <2>3, <2>4
<1>3. left = [m \in PoolMembersSet |-> Cardinality(HoldingMember(m)')]
  <2> SUFFICES ASSUME NEW m \in PoolMembersSet PROVE left[m] = Cardinality(HoldingMember(m)')
    BY DEF Counted
  <2>1. left[m] = IF m = PoolMemberOf[c] THEN memberActivity[m] - 1 ELSE memberActivity[m]
    BY DEF Counted
  <2>2. memberActivity[m] = Cardinality(HoldingMember(m))
    BY DEF Counted
  <2>3. /\ l \in HoldingMember(m) <=> m = PoolMemberOf[c]
        /\ IsFiniteSet(HoldingMember(m))
        /\ HoldingMember(m)' = HoldingMember(m) \ {l}
    BY HoldingRelease, HoldingFinite
  <2>4. Cardinality(HoldingMember(m) \ {l}) =
          IF l \in HoldingMember(m) THEN Cardinality(HoldingMember(m)) - 1
          ELSE Cardinality(HoldingMember(m))
    BY <2>3, FS_RemoveElement
  <2> HIDE DEF left, c
  <2>5. QED
    BY <2>1, <2>2, <2>3, <2>4
<1>4. \A d \in Candidates : /\ activity[d] \in Nat
                            /\ activity'[d] = IF d = c THEN activity[d] - 1 ELSE activity[d]
  BY HoldingFinite DEF Counted, ReleaseRequest
<1>5. CASE c \in tombstones /\ activity[c] = 1
  <2>1. RemoveNow(c, left)
    BY <1>5 DEF ReleaseRequest
  <2>2. Holding(poolLease', c) = {}
    <3>1. activity'[c] = Cardinality(Holding(poolLease', c))
      BY <1>1, <1>2
    <3>2. activity'[c] = 0
      BY <1>1, <1>4, <1>5
    <3> HIDE DEF c
    <3>3. QED
      BY <3>1, <3>2, HoldingFinite
  <2>3. \A k \in PoolLeases : poolLease'[k].at # "free" => Known(poolLease'[k].candidate)
    <3> SUFFICES ASSUME NEW k \in PoolLeases, poolLease'[k].at # "free"
                 PROVE  Known(poolLease'[k].candidate)
      OBVIOUS
    <3>1. poolLease'[k] = poolLease[k]
      BY DEF ReleaseRequest, PoolValues, NoLease
    <3>2. QED
      BY <3>1, HeldIsKnown
  <2>4. \A d \in tombstones \ {c} : Known(d) /\ activity'[d] > 0
    BY <1>4 DEF Counted, Known, PoolValues
  <2> HIDE DEF c, left
  <2>5. QED
    BY <1>1, <1>2, <1>3, <2>1, <2>2, <2>3, <2>4, CountedRemoval
<1>6. CASE ~(c \in tombstones /\ activity[c] = 1)
  <2>1. memberActivity' = left /\ UNCHANGED <<candidates, tombstones>>
    BY <1>6 DEF ReleaseRequest
  <2> HIDE DEF c, left
  <2>2. ASSUME NEW d \in tombstones' PROVE candidates'[d] # Absent /\ activity'[d] > 0
    <3>1. d \in tombstones /\ d \in Candidates /\ candidates[d] # Absent /\ activity[d] > 0
      BY <2>1 DEF Counted, PoolValues
    <3>2. activity'[d] > 0
      BY <1>4, <1>6, <3>1
    <3>3. QED
      BY <2>1, <3>1, <3>2
  <2>3. \A d \in Candidates : activity'[d] > 0 => candidates'[d] # Absent
    BY <1>4, <2>1 DEF Counted
  <2>4. QED
    BY <1>2, <1>3, <2>1, <2>2, <2>3 DEF Counted
<1>7. QED
  BY <1>5, <1>6

LEMMA CountedStays ==
  ASSUME PoolValues, PoolValues', Counted, LeasesStay,
         UNCHANGED <<activity, memberActivity>>,
         \A d \in Candidates : Known(d) => candidates'[d] # Absent,
         \A d \in tombstones' : activity[d] > 0
  PROVE  Counted'
<1>1. \A d \in Candidates : Holding(poolLease', d) = Holding(poolLease, d)
  BY HoldingStays
<1>2. \A m \in PoolMembersSet : HoldingMember(m)' = HoldingMember(m)
  BY HoldingStays
<1>3. activity' = [d \in Candidates |-> Cardinality(Holding(poolLease', d))]
  BY <1>1 DEF Counted
<1>4. memberActivity' = [m \in PoolMembersSet |-> Cardinality(HoldingMember(m)')]
  BY <1>2 DEF Counted
<1>5. \A d \in Candidates : activity'[d] > 0 => candidates'[d] # Absent
  BY DEF Counted, Known
<1>6. \A d \in tombstones' : candidates'[d] # Absent /\ activity'[d] > 0
  BY <1>5 DEF PoolValues
<1>7. QED
  BY <1>3, <1>4, <1>5, <1>6 DEF Counted

LEMMA StaleStays ==
  ASSUME PoolValues, NEW c \in Candidates, poolLease' \in {poolLease, Stale(poolLease, c)}
  PROVE  LeasesStay
BY StaleValues DEF LeasesStay

LEMMA LifecycleStays ==
  ASSUME PoolValues, NEW l \in PoolLeases, DispatchRequest(l) \/ SettleRequest(l)
  PROVE  LeasesStay
<1>1. poolLease[l] \in HeldLease /\ poolLease[l].at # "free"
  BY LeaseCases DEF DispatchRequest, SettleRequest
<1>2. \E stage \in {"dispatched", "settled"} : poolLease' = [poolLease EXCEPT ![l].at = stage]
  BY DEF DispatchRequest, SettleRequest
<1>3. PICK stage \in {"dispatched", "settled"} : poolLease' = [poolLease EXCEPT ![l].at = stage]
  BY <1>2
<1>4. poolLease'[l].at = stage /\ poolLease'[l].candidate = poolLease[l].candidate
  BY <1>1, <1>3 DEF PoolValues, HeldLease
<1>5. \A k \in PoolLeases \ {l} : poolLease'[k] = poolLease[k]
  BY <1>3 DEF PoolValues
<1>6. QED
  BY <1>1, <1>4, <1>5 DEF LeasesStay

LEMMA CountedRemove ==
  ASSUME PoolValues, PoolValues', Counted, NEW c \in Candidates, RemoveCandidate(c)
  PROVE  Counted'
<1>1. poolLease' = Stale(poolLease, c) /\ UNCHANGED activity
  BY DEF RemoveCandidate
<1>2. LeasesStay
  BY <1>1, StaleStays
<1>3. CASE activity[c] > 0
  <2>1. /\ candidates' = [candidates EXCEPT ![c] = [enabled |-> FALSE, draining |-> TRUE]]
        /\ tombstones' = tombstones \cup {c}
        /\ UNCHANGED memberActivity
    BY <1>3 DEF RemoveCandidate
  <2>2. \A d \in Candidates : Known(d) => candidates'[d] # Absent
    <3>1. [enabled |-> FALSE, draining |-> TRUE] \in [enabled : BOOLEAN, draining : BOOLEAN]
      OBVIOUS
    <3>2. [enabled |-> FALSE, draining |-> TRUE] # Absent
      BY <3>1, PoolAssumption
    <3>3. QED
      BY <2>1, <3>2 DEF Known, PoolValues
  <2>3. \A d \in tombstones' : activity[d] > 0
    BY <1>3, <2>1 DEF Counted
  <2>4. QED
    BY <1>1, <1>2, <2>1, <2>2, <2>3, CountedStays
<1>4. CASE ~(activity[c] > 0)
  <2>1. RemoveNow(c, memberActivity)
    BY <1>4 DEF RemoveCandidate
  <2>2. \A d \in Candidates : Holding(poolLease', d) = Holding(poolLease, d)
    BY <1>2, HoldingStays
  <2>3. \A m \in PoolMembersSet : HoldingMember(m)' = HoldingMember(m)
    BY <1>2, HoldingStays
  <2>4. activity' = [d \in Candidates |-> Cardinality(Holding(poolLease', d))]
    BY <1>1, <2>2 DEF Counted
  <2>5. memberActivity = [m \in PoolMembersSet |-> Cardinality(HoldingMember(m)')]
    BY <2>3 DEF Counted
  <2>6. Holding(poolLease', c) = {}
    <3>1. activity[c] = Cardinality(Holding(poolLease, c))
      BY DEF Counted
    <3>2. Cardinality(Holding(poolLease, c)) \in Nat
      BY HoldingFinite
    <3>3. Cardinality(Holding(poolLease, c)) = 0
      BY <1>4, <3>1, <3>2
    <3>4. QED
      BY <2>2, <3>3, HoldingFinite
  <2>7. \A l \in PoolLeases : poolLease'[l].at # "free" => Known(poolLease'[l].candidate)
    BY <1>2, HeldIsKnown DEF LeasesStay
  <2>8. \A d \in tombstones \ {c} : Known(d) /\ activity'[d] > 0
    BY <1>1 DEF Counted, Known
  <2>9. QED
    BY <2>1, <2>4, <2>5, <2>6, <2>7, <2>8, CountedRemoval
<1>5. QED
  BY <1>3, <1>4

LEMMA CountedInit ==
  PoolInit => Counted
<1> SUFFICES ASSUME PoolInit PROVE Counted
  OBVIOUS
<1>1. \A c : Holding(poolLease, c) = {}
  BY DEF PoolInit, Holding, NoLease
<1>2. \A m : HoldingMember(m) = {}
  BY DEF PoolInit, HoldingMember, NoLease
<1>3. Cardinality({}) = 0
  BY FS_EmptySet
<1>4. activity = [c \in Candidates |-> Cardinality(Holding(poolLease, c))]
  BY <1>1, <1>3 DEF PoolInit
<1>5. memberActivity = [m \in PoolMembersSet |-> Cardinality(HoldingMember(m))]
  BY <1>2, <1>3 DEF PoolInit
<1>6. QED
  BY <1>4, <1>5 DEF PoolInit, Counted

LEMMA CountedStep ==
  PoolValues /\ Counted /\ [PoolNext]_poolVars => Counted'
<1> SUFFICES ASSUME PoolValues, Counted, [PoolNext]_poolVars PROVE Counted'
  OBVIOUS
<1> USE PoolAssumption
<1>0. PoolValues'
  BY PoolValuesStep
<1>1. ASSUME NEW c \in Candidates, NEW new \in Registration, UpsertCandidate(c, new)
      PROVE  Counted'
  <2>1. /\ LeasesStay /\ UNCHANGED <<activity, memberActivity>>
        /\ tombstones' \subseteq tombstones
    BY <1>1, StaleStays DEF UpsertCandidate
  <2>2. \A d \in Candidates : Known(d) => candidates'[d] # Absent
    BY <1>1 DEF UpsertCandidate, Known, PoolValues, Registration
  <2>3. \A d \in tombstones' : activity[d] > 0
    BY <2>1 DEF Counted
  <2>4. QED
    BY <1>0, <2>1, <2>2, <2>3, CountedStays
<1>2. ASSUME NEW c \in Candidates, NEW enabled \in BOOLEAN, UpdateAvailability(c, enabled)
      PROVE  Counted'
  <2>1. LeasesStay /\ UNCHANGED <<activity, memberActivity, tombstones>>
    BY <1>2 DEF UpdateAvailability, LeasesStay
  <2>2. [candidates[c] EXCEPT !.enabled = enabled] # Absent
    <3>1. candidates[c] \in Registration
      BY <1>2 DEF UpdateAvailability, Known, PoolValues
    <3>2. [candidates[c] EXCEPT !.enabled = enabled] \in Registration
      BY <3>1 DEF Registration
    <3>3. QED
      BY <3>2 DEF Registration
  <2>3. \A d \in Candidates : Known(d) => candidates'[d] # Absent
    BY <1>2, <2>2 DEF UpdateAvailability, Known, PoolValues
  <2>4. \A d \in tombstones' : activity[d] > 0
    BY <2>1 DEF Counted
  <2>5. QED
    BY <1>0, <2>1, <2>3, <2>4, CountedStays
<1>3. ASSUME NEW l \in PoolLeases, DispatchRequest(l) \/ SettleRequest(l) PROVE Counted'
  <2>1. LeasesStay
    BY <1>3, LifecycleStays
  <2>2. UNCHANGED <<activity, memberActivity, candidates, tombstones>>
    BY <1>3 DEF DispatchRequest, SettleRequest
  <2>3. QED
    BY <1>0, <2>1, <2>2, CountedStays DEF Known, Counted
<1>4. CASE UNCHANGED <<candidates, tombstones, activity, memberActivity, poolLease>>
  <2>1. LeasesStay
    BY <1>4 DEF LeasesStay
  <2>2. QED
    BY <1>0, <1>4, <2>1, CountedStays DEF Known, Counted
<1>5. ASSUME NEW f \in FenceHolders, EndFence(f) \/ \E c \in Candidates : BeginFence(f, c)
      PROVE  Counted'
  BY <1>4, <1>5 DEF EndFence, BeginFence
<1>6. CASE UNCHANGED poolVars
  BY <1>4, <1>6 DEF poolVars
<1>7. QED
  BY <1>0, <1>1, <1>2, <1>3, <1>5, <1>6, CountedRemove, CountedReserve, CountedRelease
     DEF PoolNext, Registration

\* The counters of the scheduler are the leases that are held, of each
\* candidate and each member, and a tombstone goes with its last lease
\* (reservations.rs, registry.rs).
THEOREM PoolTypeCorrect ==
  PoolSpec => []PoolTypeOK
<1>1. PoolInit => PoolValues /\ Counted
  BY PoolValuesInit, CountedInit
<1>2. PoolValues /\ Counted /\ [PoolNext]_poolVars => PoolValues' /\ Counted'
  BY PoolValuesStep, CountedStep
<1>3. PoolValues /\ Counted => PoolTypeOK
  BY DEF PoolValues, Counted, PoolTypeOK, Registration
<1>4. QED
  BY <1>1, <1>2, <1>3, PTL DEF PoolSpec

-----------------------------------------------------------------------------
(* The limit of a member *)

LEMMA LimitStep ==
  PoolValues /\ Counted /\ MemberWithinLimit /\ [PoolNext]_poolVars => MemberWithinLimit'
<1> SUFFICES ASSUME PoolValues, Counted, MemberWithinLimit, [PoolNext]_poolVars,
                    NEW m \in PoolMembersSet, PoolLimit[m] > 0
             PROVE  Cardinality(HoldingMember(m)') <= PoolLimit[m]
  BY DEF MemberWithinLimit
<1> USE PoolAssumption
<1>1. /\ IsFiniteSet(HoldingMember(m)) /\ Cardinality(HoldingMember(m)) \in Nat
      /\ Cardinality(HoldingMember(m)) <= PoolLimit[m] /\ PoolLimit[m] \in Nat
  BY HoldingFinite DEF MemberWithinLimit
<1>2. ASSUME HoldingMember(m)' \subseteq HoldingMember(m)
      PROVE  Cardinality(HoldingMember(m)') <= PoolLimit[m]
  <2>1. /\ IsFiniteSet(HoldingMember(m)')
        /\ Cardinality(HoldingMember(m)') <= Cardinality(HoldingMember(m))
    BY <1>1, <1>2, FS_Subset
  <2>2. Cardinality(HoldingMember(m)') \in Nat
    BY <2>1, FS_CardinalityType
  <2>3. QED
    BY <1>1, <2>1, <2>2
<1>3. ASSUME NEW l \in PoolLeases, NEW c \in Candidates, ReserveRequest(l, c)
      PROVE  Cardinality(HoldingMember(m)') <= PoolLimit[m]
  <2>1. CASE m # PoolMemberOf[c]
    BY <1>2, <1>3, <2>1, HoldingReserve
  <2>2. CASE m = PoolMemberOf[c]
    <3>1. HoldingMember(m)' = HoldingMember(m) \cup {l} /\ l \notin HoldingMember(m)
      BY <1>3, <2>2, HoldingReserve
    <3>2. Cardinality(HoldingMember(m)') = Cardinality(HoldingMember(m)) + 1
      BY <1>1, <3>1, FS_AddElement
    <3>3. memberActivity[m] < PoolLimit[m]
      BY <1>3, <2>2 DEF ReserveRequest, MemberAllows
    <3>4. memberActivity[m] = Cardinality(HoldingMember(m))
      BY DEF Counted
    <3>5. QED
      BY <1>1, <3>2, <3>3, <3>4
  <2>3. QED
    BY <2>1, <2>2
<1>4. ASSUME NEW l \in PoolLeases, ReleaseRequest(l)
      PROVE  Cardinality(HoldingMember(m)') <= PoolLimit[m]
  BY <1>2, <1>4, HoldingRelease
<1>5. ASSUME LeasesStay PROVE Cardinality(HoldingMember(m)') <= PoolLimit[m]
  BY <1>2, <1>5, HoldingStays
<1>6. ASSUME NEW c \in Candidates, NEW new \in Registration,
             UpsertCandidate(c, new) \/ RemoveCandidate(c)
      PROVE  LeasesStay
  BY <1>6, StaleStays DEF UpsertCandidate, RemoveCandidate
<1>7. ASSUME NEW l \in PoolLeases, DispatchRequest(l) \/ SettleRequest(l) PROVE LeasesStay
  BY <1>7, LifecycleStays
<1>8. CASE UNCHANGED poolLease
  BY <1>5, <1>8 DEF LeasesStay
<1>11. CASE UNCHANGED poolVars
  BY <1>8, <1>11 DEF poolVars
<1>12. CASE \E c \in Candidates, enabled, draining \in BOOLEAN :
              UpsertCandidate(c, [enabled |-> enabled, draining |-> draining])
  BY <1>5, <1>6, <1>12 DEF Registration
<1>13. CASE \E c \in Candidates : RemoveCandidate(c)
  <2>1. [enabled |-> TRUE, draining |-> TRUE] \in Registration
    BY DEF Registration
  <2>2. QED
    BY <1>5, <1>6, <1>13, <2>1
<1>14. CASE \E c \in Candidates, enabled \in BOOLEAN : UpdateAvailability(c, enabled)
  BY <1>8, <1>14 DEF UpdateAvailability
<1>15. CASE \E f \in FenceHolders : EndFence(f) \/ \E c \in Candidates : BeginFence(f, c)
  BY <1>8, <1>15 DEF BeginFence, EndFence
<1>16. QED
  BY <1>3, <1>4, <1>5, <1>7, <1>11, <1>12, <1>13, <1>14, <1>15 DEF PoolNext

\* A member never carries more requests than its limit (member_capacity_allows,
\* members.rs), whatever is removed and registered again meanwhile.
THEOREM MemberWithinLimitAlways ==
  PoolSpec => []MemberWithinLimit
<1>1. PoolInit => PoolValues /\ Counted /\ MemberWithinLimit
  <2>1. ASSUME PoolInit PROVE \A m : HoldingMember(m) = {}
    BY <2>1 DEF PoolInit, HoldingMember, NoLease
  <2>2. PoolInit => MemberWithinLimit
    BY <2>1, FS_EmptySet, PoolAssumption DEF MemberWithinLimit
  <2>3. QED
    BY <2>2, PoolValuesInit, CountedInit
<1>2. PoolValues /\ Counted /\ MemberWithinLimit /\ [PoolNext]_poolVars
        => PoolValues' /\ Counted' /\ MemberWithinLimit'
  BY PoolValuesStep, CountedStep, LimitStep
<1>3. QED
  BY <1>1, <1>2, PTL DEF PoolSpec

-----------------------------------------------------------------------------
(* Fences *)

\* The fences held on a registration that is still there.
Fencing(c) ==
  {f \in FenceHolders :
     fenceHolder[f].held /\ fenceHolder[f].candidate = c /\ ~fenceHolder[f].removed}

\* The count of a group is that of its holders; what was removed belongs to
\* an earlier group, which never opens this one.
Fenced ==
  /\ \A c \in Candidates : fences[c].count = Cardinality(Fencing(c))
  /\ \A c \in Candidates : fences[c].epoch <= fenceEpoch
  /\ \A f \in FenceHolders : fenceHolder[f].held =>
       LET c == fenceHolder[f].candidate
           e == fenceHolder[f].epoch
       IN  /\ e <= fences[c].epoch
           /\ ~fenceHolder[f].removed => e = fences[c].epoch
           /\ fenceHolder[f].removed /\ e = fences[c].epoch => fences[c].count = 0

LEMMA FencingFinite ==
  \A c : /\ IsFiniteSet(Fencing(c)) /\ Cardinality(Fencing(c)) \in Nat
         /\ Cardinality(Fencing(c)) = 0 <=> Fencing(c) = {}
<1> SUFFICES ASSUME NEW c
             PROVE  /\ IsFiniteSet(Fencing(c)) /\ Cardinality(Fencing(c)) \in Nat
                    /\ Cardinality(Fencing(c)) = 0 <=> Fencing(c) = {}
  OBVIOUS
<1>1. Fencing(c) \subseteq FenceHolders
  BY DEF Fencing
<1>2. QED
  BY <1>1, PoolAssumption, FS_Subset, FS_CardinalityType, FS_EmptySet

LEMMA FencedBegin ==
  ASSUME PoolValues, PoolValues', Fenced, NEW f \in FenceHolders, NEW c \in Candidates,
         BeginFence(f, c)
  PROVE  Fenced'
<1> USE PoolAssumption
<1> DEFINE e == fences'[c].epoch
           n == fences'[c].count
<1>1. /\ n = fences[c].count + 1
      /\ fences[c].count > 0 => e = fences[c].epoch /\ fenceEpoch' = fenceEpoch
      /\ ~(fences[c].count > 0) => e = fenceEpoch + 1 /\ fenceEpoch' = fenceEpoch + 1
      /\ \A d \in Candidates \ {c} : fences'[d] = fences[d]
  <2>1. fences[c].count \in Nat
    BY DEF PoolValues
  <2>2. CASE fences[c].count > 0
    BY <2>1, <2>2 DEF BeginFence, PoolValues
  <2>3. CASE ~(fences[c].count > 0)
    BY <2>1, <2>3 DEF BeginFence, PoolValues
  <2>4. QED
    BY <2>2, <2>3
<1>2. /\ fenceHolder'[f] = [held |-> TRUE, candidate |-> c, epoch |-> e, removed |-> FALSE]
      /\ \A g \in FenceHolders \ {f} : fenceHolder'[g] = fenceHolder[g]
      /\ ~fenceHolder[f].held
  BY DEF BeginFence, PoolValues
<1>3. /\ fenceEpoch \in Nat /\ fences[c].epoch \in Nat /\ fences[c].count \in Nat
      /\ fences[c].epoch <= fenceEpoch
      /\ fences[c].epoch <= e /\ fenceEpoch <= fenceEpoch' /\ e <= fenceEpoch'
  BY <1>1 DEF PoolValues, Fenced
<1> HIDE DEF e, n
<1>4. ASSUME NEW d \in Candidates
      PROVE  fences'[d].count = Cardinality(Fencing(d)') /\ fences'[d].epoch <= fenceEpoch'
  <2>1. fences[d].count = Cardinality(Fencing(d)) /\ IsFiniteSet(Fencing(d))
    BY FencingFinite DEF Fenced
  <2>2. CASE d = c
    <3>1. Fencing(c)' = Fencing(c) \cup {f} /\ f \notin Fencing(c)
      BY <1>2 DEF Fencing
    <3>2. Cardinality(Fencing(c)') = Cardinality(Fencing(c)) + 1
      BY <2>1, <2>2, <3>1, FS_AddElement
    <3>3. QED
      BY <1>1, <1>3, <2>1, <2>2, <3>2 DEF e, n
  <2>3. CASE d # c
    <3>1. Fencing(d)' = Fencing(d)
      BY <1>2, <2>3 DEF Fencing
    <3>2. fences[d].epoch <= fenceEpoch /\ fences[d].epoch \in Nat /\ fenceEpoch' \in Nat
      BY DEF Fenced, PoolValues
    <3>3. QED
      BY <1>1, <1>3, <2>1, <2>3, <3>1, <3>2
  <2>4. QED
    BY <2>2, <2>3
<1>5. ASSUME NEW g \in FenceHolders, fenceHolder'[g].held
      PROVE  /\ fenceHolder'[g].epoch <= fences'[fenceHolder'[g].candidate].epoch
             /\ ~fenceHolder'[g].removed =>
                  fenceHolder'[g].epoch = fences'[fenceHolder'[g].candidate].epoch
             /\ fenceHolder'[g].removed
                /\ fenceHolder'[g].epoch = fences'[fenceHolder'[g].candidate].epoch
                  => fences'[fenceHolder'[g].candidate].count = 0
  <2>1. CASE g = f
    <3>1. e \in Nat
      BY DEF PoolValues, e
    <3>2. QED
      BY <1>2, <2>1, <3>1 DEF e
  <2>2. CASE g # f
    <3> DEFINE d == fenceHolder[g].candidate
    <3>1. fenceHolder'[g] = fenceHolder[g] /\ fenceHolder[g].held
      BY <1>2, <1>5, <2>2
    <3>2. d \in Candidates /\ fenceHolder[g].epoch \in Nat /\ fenceHolder[g].removed \in BOOLEAN
      BY <3>1, FenceCases DEF HeldFence
    <3>3. /\ fenceHolder[g].epoch <= fences[d].epoch
          /\ ~fenceHolder[g].removed => fenceHolder[g].epoch = fences[d].epoch
          /\ fenceHolder[g].removed /\ fenceHolder[g].epoch = fences[d].epoch
               => fences[d].count = 0
      BY <3>1 DEF Fenced
    <3> HIDE DEF d
    <3>4. CASE d # c
      BY <1>1, <3>1, <3>2, <3>3, <3>4 DEF d
    <3>5. CASE d = c /\ fences[c].count > 0
      BY <1>1, <3>1, <3>2, <3>3, <3>5 DEF d, e
    <3>6. CASE d = c /\ ~(fences[c].count > 0)
      <4>1. fenceHolder[g].removed
        <5>1. Fencing(c) = {}
          <6>1. Cardinality(Fencing(c)) = 0
            BY <1>3, <3>6 DEF Fenced
          <6>2. QED
            BY <6>1, FencingFinite
        <5>2. QED
          BY <3>1, <3>6, <5>1 DEF Fencing, d
      <4>2. fenceHolder[g].epoch < e
        BY <1>1, <1>3, <3>2, <3>3, <3>6
      <4>3. e \in Nat
        BY DEF PoolValues, e
      <4>4. QED
        BY <3>1, <3>2, <3>6, <4>1, <4>2, <4>3 DEF d, e
    <3>7. QED
      BY <3>4, <3>5, <3>6
  <2>3. QED
    BY <2>1, <2>2
<1>6. QED
  BY <1>4, <1>5 DEF Fenced

LEMMA FencedEnd ==
  ASSUME PoolValues, PoolValues', Fenced, NEW f \in FenceHolders, EndFence(f)
  PROVE  Fenced'
<1> DEFINE c == fenceHolder[f].candidate
<1>1. /\ c \in Candidates /\ fenceHolder[f].held
      /\ fenceHolder[f].epoch \in Nat /\ fenceHolder[f].removed \in BOOLEAN
  BY FenceCases DEF EndFence, HeldFence
<1>2. /\ ~fenceHolder'[f].held
      /\ \A g \in FenceHolders \ {f} : fenceHolder'[g] = fenceHolder[g]
      /\ fenceEpoch' = fenceEpoch
  BY DEF EndFence, PoolValues, NoFence
<1>3. fences[c].count \in Nat /\ fences[c].epoch \in Nat
  BY <1>1 DEF PoolValues
<1>4. /\ fences[c].count = Cardinality(Fencing(c))
      /\ ~fenceHolder[f].removed => fenceHolder[f].epoch = fences[c].epoch
      /\ fenceHolder[f].removed /\ fenceHolder[f].epoch = fences[c].epoch => fences[c].count = 0
  BY <1>1 DEF Fenced
<1>5. Opens(c, fenceHolder[f].epoch) <=> ~fenceHolder[f].removed
  <2>1. ~fenceHolder[f].removed => fences[c].count # 0
    <3>1. ~fenceHolder[f].removed => f \in Fencing(c)
      BY <1>1 DEF Fencing
    <3>2. QED
      BY <1>4, <3>1, FencingFinite
  <2>2. QED
    BY <1>1, <1>3, <1>4, <2>1 DEF Opens
<1>6. /\ \A d \in Candidates : fences'[d].epoch = fences[d].epoch
      /\ \A d \in Candidates \ {c} : fences'[d].count = fences[d].count
      /\ fences'[c].count = IF fenceHolder[f].removed THEN fences[c].count ELSE fences[c].count - 1
  <2>1. CASE fenceHolder[f].removed
    BY <1>1, <1>5, <2>1 DEF EndFence, PoolValues
  <2>2. CASE ~fenceHolder[f].removed
    <3>1. fences' = [fences EXCEPT ![c].count = @ - 1]
      BY <1>5, <2>2 DEF EndFence
    <3> HIDE DEF c
    <3>2. QED
      BY <1>1, <2>2, <3>1 DEF PoolValues
  <2>3. QED
    BY <2>1, <2>2
<1>7. ASSUME NEW d \in Candidates
      PROVE  fences'[d].count = Cardinality(Fencing(d)') /\ fences'[d].epoch <= fenceEpoch'
  <2>1. fences[d].count = Cardinality(Fencing(d)) /\ IsFiniteSet(Fencing(d))
    BY FencingFinite DEF Fenced
  <2>2. Fencing(d)' = Fencing(d) \ {f}
    BY <1>2 DEF Fencing
  <2>3. f \in Fencing(d) <=> (d = c /\ ~fenceHolder[f].removed)
    BY <1>1 DEF Fencing
  <2>4. Cardinality(Fencing(d)') =
          IF f \in Fencing(d) THEN Cardinality(Fencing(d)) - 1 ELSE Cardinality(Fencing(d))
    BY <2>1, <2>2, FS_RemoveElement
  <2>5. fences'[d].count = Cardinality(Fencing(d)')
    BY <1>6, <2>1, <2>3, <2>4
  <2>6. fences'[d].epoch <= fenceEpoch'
    BY <1>2, <1>6 DEF Fenced
  <2>7. QED
    BY <2>5, <2>6
<1>8. ASSUME NEW g \in FenceHolders, fenceHolder'[g].held
      PROVE  /\ fenceHolder'[g].epoch <= fences'[fenceHolder'[g].candidate].epoch
             /\ ~fenceHolder'[g].removed =>
                  fenceHolder'[g].epoch = fences'[fenceHolder'[g].candidate].epoch
             /\ fenceHolder'[g].removed
                /\ fenceHolder'[g].epoch = fences'[fenceHolder'[g].candidate].epoch
                  => fences'[fenceHolder'[g].candidate].count = 0
  <2> DEFINE d == fenceHolder[g].candidate
  <2>1. g # f /\ fenceHolder'[g] = fenceHolder[g] /\ fenceHolder[g].held
    BY <1>2, <1>8
  <2>2. d \in Candidates
    BY <2>1, FenceCases
  <2>3. /\ fenceHolder[g].epoch <= fences[d].epoch
        /\ ~fenceHolder[g].removed => fenceHolder[g].epoch = fences[d].epoch
        /\ fenceHolder[g].removed /\ fenceHolder[g].epoch = fences[d].epoch => fences[d].count = 0
    BY <2>1 DEF Fenced
  <2>4. fences[d].count = 0 => fences'[d].count = 0
    <3>1. CASE d # c
      BY <1>6, <2>2, <3>1
    <3>2. CASE d = c
      <4>1. fences[c].count = 0 => fenceHolder[f].removed
        <5>1. ~fenceHolder[f].removed => f \in Fencing(c)
          BY <1>1 DEF Fencing
        <5>2. QED
          BY <1>1, <1>4, <5>1, FencingFinite
      <4> HIDE DEF c, d
      <4>2. QED
        BY <1>6, <3>2, <4>1
    <3>3. QED
      BY <3>1, <3>2
  <2>5. QED
    BY <1>6, <2>1, <2>2, <2>3, <2>4
<1>9. QED
  BY <1>7, <1>8 DEF Fenced

LEMMA FencedRemoval ==
  ASSUME PoolValues, PoolValues', Fenced, NEW c \in Candidates, NEW left, RemoveNow(c, left),
         UNCHANGED fenceEpoch
  PROVE  Fenced'
<1>1. /\ \A d \in Candidates : fences'[d].epoch = fences[d].epoch
      /\ \A d \in Candidates \ {c} : fences'[d].count = fences[d].count
      /\ fences'[c].count = 0
  BY DEF RemoveNow, PoolValues
<1>2. ASSUME NEW g \in FenceHolders
      PROVE  /\ fenceHolder'[g].held = fenceHolder[g].held
             /\ fenceHolder[g].held =>
                  /\ fenceHolder'[g].candidate = fenceHolder[g].candidate
                  /\ fenceHolder'[g].epoch = fenceHolder[g].epoch
                  /\ fenceHolder'[g].removed = (fenceHolder[g].removed \/ fenceHolder[g].candidate = c)
  <2>1. CASE fenceHolder[g].held /\ fenceHolder[g].candidate = c
    <3>1. fenceHolder'[g] = [fenceHolder[g] EXCEPT !.removed = TRUE]
      BY <2>1 DEF RemoveNow
    <3>2. fenceHolder[g] \in HeldFence
      BY <2>1, FenceCases
    <3>3. QED
      BY <2>1, <3>1, <3>2 DEF HeldFence
  <2>2. CASE ~(fenceHolder[g].held /\ fenceHolder[g].candidate = c)
    <3>1. fenceHolder'[g] = fenceHolder[g]
      BY <2>2 DEF RemoveNow
    <3>2. fenceHolder[g].held => fenceHolder[g].removed \in BOOLEAN
      BY FenceCases DEF HeldFence
    <3>3. QED
      BY <2>2, <3>1, <3>2
  <2>3. QED
    BY <2>1, <2>2
<1>3. ASSUME NEW d \in Candidates
      PROVE  fences'[d].count = Cardinality(Fencing(d)') /\ fences'[d].epoch <= fenceEpoch'
  <2>1. fences[d].count = Cardinality(Fencing(d)) /\ fences'[d].epoch <= fenceEpoch'
    BY <1>1 DEF Fenced
  <2>2. CASE d = c
    <3>1. Fencing(c)' = {}
      BY <1>2 DEF Fencing
    <3>2. QED
      BY <1>1, <2>1, <2>2, <3>1, FS_EmptySet
  <2>3. CASE d # c
    <3>1. Fencing(d)' = Fencing(d)
      BY <1>2, <2>3 DEF Fencing
    <3>2. QED
      BY <1>1, <2>1, <2>3, <3>1
  <2>4. QED
    BY <2>2, <2>3
<1>4. ASSUME NEW g \in FenceHolders, fenceHolder'[g].held
      PROVE  /\ fenceHolder'[g].epoch <= fences'[fenceHolder'[g].candidate].epoch
             /\ ~fenceHolder'[g].removed =>
                  fenceHolder'[g].epoch = fences'[fenceHolder'[g].candidate].epoch
             /\ fenceHolder'[g].removed
                /\ fenceHolder'[g].epoch = fences'[fenceHolder'[g].candidate].epoch
                  => fences'[fenceHolder'[g].candidate].count = 0
  <2>1. fenceHolder[g].held /\ fenceHolder[g].candidate \in Candidates
    BY <1>2, <1>4, FenceCases
  <2>2. /\ fenceHolder[g].epoch <= fences[fenceHolder[g].candidate].epoch
        /\ ~fenceHolder[g].removed =>
             fenceHolder[g].epoch = fences[fenceHolder[g].candidate].epoch
        /\ fenceHolder[g].removed /\ fenceHolder[g].epoch = fences[fenceHolder[g].candidate].epoch
             => fences[fenceHolder[g].candidate].count = 0
    BY <2>1 DEF Fenced
  <2> DEFINE d == fenceHolder[g].candidate
  <2>3. /\ fenceHolder'[g].candidate = d /\ fenceHolder'[g].epoch = fenceHolder[g].epoch
        /\ fenceHolder'[g].removed = (fenceHolder[g].removed \/ d = c)
        /\ fences'[d].epoch = fences[d].epoch
        /\ fences'[d].count = IF d = c THEN 0 ELSE fences[d].count
    BY <1>1, <1>2, <2>1
  <2> HIDE DEF d
  <2>4. /\ fenceHolder[g].epoch <= fences'[d].epoch
        /\ ~fenceHolder[g].removed => fenceHolder[g].epoch = fences'[d].epoch
        /\ fenceHolder[g].removed /\ fenceHolder[g].epoch = fences'[d].epoch => fences'[d].count = 0
    BY <2>2, <2>3 DEF d
  <2>5. QED
    BY <2>3, <2>4
<1>5. QED
  BY <1>3, <1>4 DEF Fenced

LEMMA FencedInit ==
  PoolInit => Fenced
<1>1. ASSUME PoolInit PROVE \A c : Fencing(c) = {}
  BY <1>1 DEF PoolInit, Fencing, NoFence
<1>2. ASSUME PoolInit PROVE \A c \in Candidates : fences[c].count = 0 /\ fences[c].epoch = 0
  BY <1>2 DEF PoolInit
<1>3. ASSUME PoolInit PROVE \A f \in FenceHolders : ~fenceHolder[f].held
  BY <1>3 DEF PoolInit, NoFence
<1>4. ASSUME PoolInit PROVE fenceEpoch = 0
  BY <1>4 DEF PoolInit
<1>5. QED
  BY <1>1, <1>2, <1>3, <1>4, FS_EmptySet DEF Fenced

LEMMA FencedStep ==
  PoolValues /\ Fenced /\ [PoolNext]_poolVars => Fenced'
<1> SUFFICES ASSUME PoolValues, Fenced, [PoolNext]_poolVars PROVE Fenced'
  OBVIOUS
<1>1. PoolValues'
  BY PoolValuesStep
<1>2. CASE UNCHANGED <<fences, fenceEpoch, fenceHolder>>
  <2>1. \A c : Fencing(c)' = Fencing(c)
    BY <1>2 DEF Fencing
  <2>2. QED
    BY <1>2, <2>1 DEF Fenced
<1>3. ASSUME NEW c \in Candidates, RemoveCandidate(c) PROVE Fenced'
  <2>1. CASE activity[c] > 0
    BY <1>2, <1>3, <2>1 DEF RemoveCandidate
  <2>2. CASE ~(activity[c] > 0)
    BY <1>1, <1>3, <2>2, FencedRemoval DEF RemoveCandidate
  <2>3. QED
    BY <2>1, <2>2
<1>4. ASSUME NEW l \in PoolLeases, ReleaseRequest(l) PROVE Fenced'
  <2> DEFINE c == poolLease[l].candidate
             left == [memberActivity EXCEPT ![PoolMemberOf[c]] = @ - 1]
  <2>1. c \in Candidates /\ UNCHANGED fenceEpoch
    BY <1>4, LeaseCases DEF ReleaseRequest
  <2>2. RemoveNow(c, left) \/ UNCHANGED <<fences, fenceHolder>>
    BY <1>4 DEF ReleaseRequest
  <2> HIDE DEF c, left
  <2>3. QED
    BY <1>1, <1>2, <2>1, <2>2, FencedRemoval
<1>5. CASE \E c \in Candidates, enabled, draining \in BOOLEAN :
             UpsertCandidate(c, [enabled |-> enabled, draining |-> draining])
  BY <1>2, <1>5 DEF UpsertCandidate
<1>6. CASE \E c \in Candidates, enabled \in BOOLEAN : UpdateAvailability(c, enabled)
  BY <1>2, <1>6 DEF UpdateAvailability
<1>7. CASE \E f \in FenceHolders : EndFence(f) \/ \E c \in Candidates : BeginFence(f, c)
  BY <1>1, <1>7, FencedBegin, FencedEnd
<1>8. CASE \E l \in PoolLeases, c \in Candidates : ReserveRequest(l, c)
  BY <1>2, <1>8 DEF ReserveRequest
<1>9. CASE \E l \in PoolLeases : DispatchRequest(l) \/ SettleRequest(l)
  BY <1>2, <1>9 DEF DispatchRequest, SettleRequest
<1>10. CASE UNCHANGED poolVars
  BY <1>2, <1>10 DEF poolVars
<1>11. QED
  BY <1>3, <1>4, <1>5, <1>6, <1>7, <1>8, <1>9, <1>10 DEF PoolNext

\* While an edit holds its fence its candidate is not selected, unless it was
\* removed meanwhile; and a fence outlived by a removal opens nothing
\* (begin_execution_fence and end_execution_fence, registry.rs).
THEOREM FenceHoldsAlways ==
  PoolSpec => []FenceHolds
<1>1. PoolInit => PoolValues /\ Fenced
  BY PoolValuesInit, FencedInit
<1>2. PoolValues /\ Fenced /\ [PoolNext]_poolVars => PoolValues' /\ Fenced'
  BY PoolValuesStep, FencedStep
<1>3. PoolValues /\ Fenced => FenceHolds
  <2> SUFFICES ASSUME PoolValues, Fenced, NEW f \in FenceHolders,
                      fenceHolder[f].held, ~fenceHolder[f].removed
               PROVE  ~Visible(fenceHolder[f].candidate)
    BY DEF FenceHolds
  <2>1. fenceHolder[f].candidate \in Candidates /\ f \in Fencing(fenceHolder[f].candidate)
    BY FenceCases DEF Fencing
  <2>2. fences[fenceHolder[f].candidate].count # 0
    BY <2>1, FencingFinite DEF Fenced
  <2>3. QED
    BY <2>2 DEF Visible
<1>4. QED
  BY <1>1, <1>2, <1>3, PTL DEF PoolSpec

-----------------------------------------------------------------------------
(* Permissions *)

\* A lease carries a permission of its candidate; that of a revoked one is an
\* earlier one, or the candidate drains.
Permitted ==
  \A l \in PoolLeases : poolLease[l].at # "free" =>
    LET c == poolLease[l].candidate
    IN  /\ poolLease[l].permission <= permission[c]
        /\ poolLease[l].at = "reserved" /\ poolLease[l].stale =>
             poolLease[l].permission < permission[c] \/ candidates[c].draining

\* A step that changes one lease at most, and not to the worse.
LEMMA PermittedStays ==
  ASSUME Permitted, UNCHANGED <<permission, candidates>>,
         \A l \in PoolLeases : \/ poolLease'[l] = poolLease[l]
                               \/ poolLease'[l].at = "free"
                               \/ /\ poolLease'[l].at # "reserved" /\ poolLease[l].at # "free"
                                  /\ poolLease'[l].candidate = poolLease[l].candidate
                                  /\ poolLease'[l].permission = poolLease[l].permission
  PROVE  Permitted'
BY DEF Permitted

LEMMA PermittedUpsert ==
  ASSUME PoolValues, Counted, Permitted, NEW c \in Candidates, NEW new \in Registration,
         UpsertCandidate(c, new)
  PROVE  Permitted'
<1> USE PoolAssumption
<1> SUFFICES ASSUME NEW l \in PoolLeases, poolLease'[l].at # "free"
             PROVE  LET d == poolLease'[l].candidate
                    IN  /\ poolLease'[l].permission <= permission'[d]
                        /\ poolLease'[l].at = "reserved" /\ poolLease'[l].stale =>
                             poolLease'[l].permission < permission'[d] \/ candidates'[d].draining
  BY DEF Permitted
<1> DEFINE d == poolLease[l].candidate
<1>1. /\ poolLease'[l].at = poolLease[l].at /\ poolLease'[l].candidate = d
      /\ poolLease'[l].permission = poolLease[l].permission
      /\ d # c \/ candidates[c] = new => poolLease'[l].stale = poolLease[l].stale
  BY StaleValues DEF UpsertCandidate
<1>2. d \in Candidates /\ Known(d) /\ poolLease[l].permission \in Nat
  <2>1. poolLease[l].at # "free"
    BY <1>1
  <2>2. QED
    BY <2>1, HeldIsKnown, LeaseCases DEF HeldLease
<1>3. /\ poolLease[l].permission <= permission[d]
      /\ poolLease[l].at = "reserved" /\ poolLease[l].stale =>
           poolLease[l].permission < permission[d] \/ candidates[d].draining
  BY <1>1 DEF Permitted
<1> HIDE DEF d
<1>4. permission[d] \in Nat
  BY <1>2 DEF PoolValues
<1>5. CASE d # c
  <2>1. permission'[d] = permission[d] /\ candidates'[d] = candidates[d]
    BY <1>2, <1>5 DEF UpsertCandidate, PoolValues
  <2>2. QED
    BY <1>1, <1>3, <1>5, <2>1
<1>6. CASE d = c /\ candidates[c] = new
  <2>1. permission'[d] = permission[d] /\ candidates'[d] = candidates[d]
    BY <1>2, <1>6 DEF UpsertCandidate, PoolValues, Revokes
  <2>2. QED
    BY <1>1, <1>3, <1>6, <2>1
<1>7. CASE d = c /\ candidates[c] # new
  <2>1. permission'[d] = permission[d] + 1
    BY <1>2, <1>7 DEF UpsertCandidate, PoolValues, Revokes
  <2>2. QED
    BY <1>1, <1>2, <1>3, <1>4, <2>1
<1>8. QED
  BY <1>5, <1>6, <1>7

LEMMA PermittedRemove ==
  ASSUME PoolValues, PoolValues', Counted, Permitted, NEW c \in Candidates, RemoveCandidate(c)
  PROVE  Permitted'
<1> SUFFICES ASSUME NEW l \in PoolLeases, poolLease'[l].at # "free"
             PROVE  LET d == poolLease'[l].candidate
                    IN  /\ poolLease'[l].permission <= permission'[d]
                        /\ poolLease'[l].at = "reserved" /\ poolLease'[l].stale =>
                             poolLease'[l].permission < permission'[d] \/ candidates'[d].draining
  BY DEF Permitted
<1> DEFINE d == poolLease[l].candidate
<1>1. /\ poolLease'[l].at = poolLease[l].at /\ poolLease'[l].candidate = d
      /\ poolLease'[l].permission = poolLease[l].permission
      /\ d # c => poolLease'[l].stale = poolLease[l].stale
  BY StaleValues DEF RemoveCandidate
<1>2. d \in Candidates /\ activity[d] > 0
  BY <1>1, HeldIsKnown
<1>3. /\ poolLease[l].permission <= permission[d]
      /\ poolLease[l].at = "reserved" /\ poolLease[l].stale =>
           poolLease[l].permission < permission[d] \/ candidates[d].draining
  BY <1>1 DEF Permitted
<1> HIDE DEF d
<1>4. CASE d = c
  <2>1. permission' = permission
        /\ candidates' = [candidates EXCEPT ![c] = [enabled |-> FALSE, draining |-> TRUE]]
    BY <1>2, <1>4 DEF RemoveCandidate
  <2>2. candidates'[c].draining
    BY <2>1 DEF PoolValues
  <2>3. QED
    BY <1>1, <1>3, <1>4, <2>1, <2>2
<1>5. CASE d # c
  <2>1. permission'[d] = permission[d] /\ candidates'[d] = candidates[d]
    BY <1>2, <1>5 DEF RemoveCandidate, RemoveNow, PoolValues
  <2>2. QED
    BY <1>1, <1>3, <1>5, <2>1
<1>6. QED
  BY <1>4, <1>5

LEMMA PermittedRelease ==
  ASSUME PoolValues, PoolValues', Counted, Permitted, NEW l \in PoolLeases, ReleaseRequest(l)
  PROVE  Permitted'
<1> DEFINE c == poolLease[l].candidate
           left == [memberActivity EXCEPT ![PoolMemberOf[c]] = @ - 1]
<1>1. \A k \in PoolLeases : poolLease'[k] = IF k = l THEN NoLease ELSE poolLease[k]
  BY DEF ReleaseRequest, PoolValues
<1>2. CASE ~(c \in tombstones /\ activity[c] = 1)
  <2>1. UNCHANGED <<permission, candidates>>
    BY <1>2 DEF ReleaseRequest
  <2>2. QED
    BY <1>1, <2>1, PermittedStays DEF NoLease
<1>3. CASE c \in tombstones /\ activity[c] = 1
  <2>1. RemoveNow(c, left) /\ c \in Candidates
    BY <1>3, LeaseCases DEF ReleaseRequest
  <2>2. Holding(poolLease', c) = {}
    <3>1. Holding(poolLease', c) = Holding(poolLease, c) \ {l} /\ l \in Holding(poolLease, c)
      BY HoldingRelease
    <3>2. Cardinality(Holding(poolLease, c)) = 1
      BY <1>3, <2>1 DEF Counted
    <3>3. Cardinality(Holding(poolLease, c) \ {l}) = 0
      <4>1. Cardinality(Holding(poolLease, c) \ {l}) = Cardinality(Holding(poolLease, c)) - 1
        BY <3>1, HoldingFinite, FS_RemoveElement
      <4>2. QED
        BY <3>2, <4>1
    <3> HIDE DEF c
    <3>4. Cardinality(Holding(poolLease', c)) = 0
      BY <3>1, <3>3
    <3>5. QED
      BY <3>4, HoldingFinite
  <2> SUFFICES ASSUME NEW k \in PoolLeases, poolLease'[k].at # "free"
               PROVE  LET d == poolLease'[k].candidate
                      IN  /\ poolLease'[k].permission <= permission'[d]
                          /\ poolLease'[k].at = "reserved" /\ poolLease'[k].stale =>
                               poolLease'[k].permission < permission'[d] \/ candidates'[d].draining
    BY DEF Permitted
  <2>3. poolLease'[k] = poolLease[k] /\ poolLease[k].candidate \in Candidates
    BY <1>1, LeaseCases DEF NoLease
  <2> HIDE DEF c, left
  <2>4. poolLease[k].candidate # c
    BY <2>2, <2>3 DEF Holding
  <2>5. /\ permission'[poolLease[k].candidate] = permission[poolLease[k].candidate]
        /\ candidates'[poolLease[k].candidate] = candidates[poolLease[k].candidate]
    BY <2>1, <2>3, <2>4 DEF RemoveNow, PoolValues
  <2>6. QED
    BY <2>3, <2>5 DEF Permitted
<1>4. QED
  BY <1>2, <1>3

LEMMA PermittedStep ==
  PoolValues /\ Counted /\ Permitted /\ [PoolNext]_poolVars => Permitted'
<1> SUFFICES ASSUME PoolValues, Counted, Permitted, [PoolNext]_poolVars PROVE Permitted'
  OBVIOUS
<1>1. PoolValues'
  BY PoolValuesStep
<1>2. CASE \E c \in Candidates, enabled, draining \in BOOLEAN :
             UpsertCandidate(c, [enabled |-> enabled, draining |-> draining])
  BY <1>2, PermittedUpsert DEF Registration
<1>3. ASSUME NEW c \in Candidates, NEW enabled \in BOOLEAN, UpdateAvailability(c, enabled)
      PROVE  Permitted'
  <2>1. \A d \in Candidates : /\ permission'[d] = permission[d]
                              /\ Known(d) => candidates'[d].draining = candidates[d].draining
    <3>1. candidates[c] \in Registration
      BY <1>3 DEF UpdateAvailability, Known, PoolValues
    <3>2. [candidates[c] EXCEPT !.enabled = enabled].draining = candidates[c].draining
      BY <3>1 DEF Registration
    <3>3. QED
      BY <1>3, <3>2 DEF UpdateAvailability, PoolValues
  <2>2. poolLease' = poolLease
    BY <1>3 DEF UpdateAvailability
  <2>3. \A l \in PoolLeases : poolLease[l].at # "free" =>
          poolLease[l].candidate \in Candidates /\ Known(poolLease[l].candidate)
    BY HeldIsKnown
  <2>4. QED
    BY <2>1, <2>2, <2>3 DEF Permitted
<1>4. ASSUME NEW l \in PoolLeases, NEW c \in Candidates, ReserveRequest(l, c) PROVE Permitted'
  <2>1. /\ poolLease'[l] =
             [at |-> "reserved", candidate |-> c, permission |-> permission[c], stale |-> FALSE]
        /\ \A k \in PoolLeases \ {l} : poolLease'[k] = poolLease[k]
        /\ UNCHANGED <<permission, candidates>>
    BY <1>4 DEF ReserveRequest, PoolValues
  <2>2. permission[c] \in Nat
    BY DEF PoolValues
  <2>3. QED
    BY <2>1, <2>2 DEF Permitted
<1>5. ASSUME NEW l \in PoolLeases, DispatchRequest(l) \/ SettleRequest(l) PROVE Permitted'
  <2>1. poolLease[l] \in HeldLease /\ poolLease[l].at # "free"
    BY <1>5, LeaseCases DEF DispatchRequest, SettleRequest
  <2>2. \E stage \in {"dispatched", "settled"} : poolLease' = [poolLease EXCEPT ![l].at = stage]
    BY <1>5 DEF DispatchRequest, SettleRequest
  <2>3. /\ poolLease'[l].at # "reserved"
        /\ poolLease'[l].candidate = poolLease[l].candidate
        /\ poolLease'[l].permission = poolLease[l].permission
        /\ \A k \in PoolLeases \ {l} : poolLease'[k] = poolLease[k]
    BY <2>1, <2>2 DEF PoolValues, HeldLease
  <2>4. UNCHANGED <<permission, candidates>>
    BY <1>5 DEF DispatchRequest, SettleRequest
  <2>5. QED
    BY <2>1, <2>3, <2>4, PermittedStays
<1>6. CASE UNCHANGED <<permission, candidates, poolLease>>
  BY <1>6 DEF Permitted
<1>7. CASE \E f \in FenceHolders : EndFence(f) \/ \E c \in Candidates : BeginFence(f, c)
  BY <1>6, <1>7 DEF EndFence, BeginFence
<1>8. CASE UNCHANGED poolVars
  BY <1>6, <1>8 DEF poolVars
<1>9. QED
  BY <1>1, <1>2, <1>3, <1>4, <1>5, <1>7, <1>8, PermittedRemove, PermittedRelease DEF PoolNext

\* What was reserved on a registration that was changed or removed since is
\* not sent (candidate_permission_revisions and the final gate,
\* begin_rotation_dispatch_with_wire, lease.rs).
THEOREM RevokedIsNeverSent ==
  PoolSpec => RevokedIsNotSent
<1>1. PoolInit => PoolValues /\ Counted /\ Permitted
  <2>1. PoolInit => Permitted
    BY DEF PoolInit, Permitted, NoLease
  <2>2. QED
    BY <2>1, PoolValuesInit, CountedInit
<1>2. PoolValues /\ Counted /\ Permitted /\ [PoolNext]_poolVars
        => PoolValues' /\ Counted' /\ Permitted'
  BY PoolValuesStep, CountedStep, PermittedStep
<1> DEFINE Step == \A l \in PoolLeases :
      poolLease'[l].at = "dispatched" /\ poolLease[l].at = "reserved" => ~poolLease[l].stale
<1>3. PoolValues /\ Counted /\ Permitted /\ [PoolNext]_poolVars => [Step]_poolVars
  <2> SUFFICES ASSUME PoolValues, Counted, Permitted, PoolNext, NEW l \in PoolLeases,
                      poolLease'[l].at = "dispatched", poolLease[l].at = "reserved"
               PROVE  ~poolLease[l].stale
    OBVIOUS
  <2>1. CASE DispatchRequest(l)
    <3>1. /\ poolLease[l].permission = permission[poolLease[l].candidate]
          /\ ~candidates[poolLease[l].candidate].draining
      BY <2>1 DEF DispatchRequest, Visible
    <3>2. permission[poolLease[l].candidate] \in Nat
      BY LeaseCases DEF PoolValues
    <3>3. QED
      BY <3>1, <3>2 DEF Permitted
  <2>2. ASSUME NEW k \in PoolLeases, k # l, DispatchRequest(k) PROVE FALSE
    BY <2>2 DEF DispatchRequest, PoolValues
  <2>3. ASSUME NEW k \in PoolLeases, SettleRequest(k) PROVE FALSE
    <3>1. poolLease'[l].at \in {poolLease[l].at, "settled"}
      <4>1. CASE k = l
        <5>1. poolLease[l] \in HeldLease
          BY LeaseCases
        <5>2. QED
          BY <2>3, <4>1, <5>1 DEF SettleRequest, PoolValues, HeldLease
      <4>2. CASE k # l
        BY <2>3, <4>2 DEF SettleRequest, PoolValues
      <4>3. QED
        BY <4>1, <4>2
    <3>2. QED
      BY <3>1
  <2>4. ASSUME NEW k \in PoolLeases, ReleaseRequest(k) PROVE FALSE
    BY <2>4 DEF ReleaseRequest, PoolValues, NoLease
  <2>5. ASSUME NEW k \in PoolLeases, NEW c \in Candidates, ReserveRequest(k, c) PROVE FALSE
    BY <2>5 DEF ReserveRequest, PoolValues
  <2>6. ASSUME NEW c \in Candidates, RemoveCandidate(c) PROVE FALSE
    BY <2>6, StaleValues DEF RemoveCandidate
  <2>7. CASE \E c \in Candidates, enabled, draining \in BOOLEAN :
               UpsertCandidate(c, [enabled |-> enabled, draining |-> draining])
    BY <2>7, StaleValues DEF UpsertCandidate
  <2>8. CASE \E c \in Candidates, enabled \in BOOLEAN : UpdateAvailability(c, enabled)
    BY <2>8 DEF UpdateAvailability
  <2>9. CASE \E f \in FenceHolders : EndFence(f) \/ \E c \in Candidates : BeginFence(f, c)
    BY <2>9 DEF EndFence, BeginFence
  <2>10. QED
    BY <2>1, <2>2, <2>3, <2>4, <2>5, <2>6, <2>7, <2>8, <2>9 DEF PoolNext
<1>4. QED
  BY <1>1, <1>2, <1>3, PTL DEF PoolSpec, RevokedIsNotSent

=============================================================================
