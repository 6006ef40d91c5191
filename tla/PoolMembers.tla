---------------------------- MODULE PoolMembers ----------------------------
(***************************************************************************)
(* The registrations of PoolScheduler (crates/relay-core/src/scheduler/    *)
(* selection: registry.rs, reservations.rs, members.rs) and the leases     *)
(* requests hold on them (CandidateLease, runtime/attempt/lease.rs).  A    *)
(* candidate is a route of a member; a candidate removed while requests    *)
(* run stays as a tombstone until the last of them ends.                   *)
(*                                                                         *)
(* Every operation runs under the scheduler lock and is one step.  The end *)
(* of a lease is two: the engine's lease is settled, then the physical     *)
(* reservation is released.  What the engine would refuse is in            *)
(* RotationEngine; the separate limit of image requests is left out.       *)
(***************************************************************************)
EXTENDS Integers, FiniteSets

CONSTANTS
  Candidates, PoolMemberOf,
  PoolLimit,        \* max_concurrency of each member, 0 if it has none
  PoolLeases,       \* requests that may hold a lease
  FenceHolders,     \* edits that may hold an ExecutionFence
  MaxUpserts,       \* bound on registrations
  MaxEpochs,        \* bound on groups of fences
  Absent

VARIABLES
  candidates,       \* PoolScheduler.candidates: [enabled, draining], or Absent
  tombstones,       \* retired_candidates
  permission,       \* candidate_permission_revisions
  activity,         \* active_request_count of each candidate
  memberActivity,   \* and of each member
  fences, fenceEpoch,    \* execution_fences, next_execution_fence_epoch
  poolLease,        \* the lease of each request
  fenceHolder,      \* the ExecutionFence of each edit
  upserts

poolVars == <<candidates, tombstones, permission, activity, memberActivity, fences, fenceEpoch,
              poolLease, fenceHolder, upserts>>

PoolMembersSet == {PoolMemberOf[c] : c \in Candidates}

ASSUME PoolAssumption ==
  /\ PoolLimit \in [PoolMembersSet -> Nat]
  /\ Absent \notin [enabled : BOOLEAN, draining : BOOLEAN]
  /\ MaxUpserts \in Nat /\ MaxEpochs \in Nat
  /\ IsFiniteSet(PoolLeases) /\ IsFiniteSet(FenceHolders)

\* stale: history, the registration it was reserved on was removed or changed
\* since, by anything but a fresh account state.
NoLease == [at |-> "free"]
HeldLease ==
  [at : {"reserved", "dispatched", "settled"}, candidate : Candidates, permission : Nat,
   stale : BOOLEAN]

\* removed: history, the candidate was removed and its fences with it.
NoFence == [held |-> FALSE]
HeldFence == [held : {TRUE}, candidate : Candidates, epoch : Nat, removed : BOOLEAN]

Holding(leases, c) == {l \in PoolLeases : leases[l].at # "free" /\ leases[l].candidate = c}
HoldingMember(m) ==
  {l \in PoolLeases : poolLease[l].at # "free" /\ PoolMemberOf[poolLease[l].candidate] = m}

\* The counters are those of the leases, and a tombstone has one at least.
PoolTypeOK ==
  /\ candidates \in [Candidates -> [enabled : BOOLEAN, draining : BOOLEAN] \cup {Absent}]
  /\ permission \in [Candidates -> Nat]
  /\ activity = [c \in Candidates |-> Cardinality(Holding(poolLease, c))]
  /\ memberActivity = [m \in PoolMembersSet |-> Cardinality(HoldingMember(m))]
  /\ fences \in [Candidates -> [epoch : Nat, count : Nat]] /\ fenceEpoch \in 0..MaxEpochs
  /\ poolLease \in [PoolLeases -> HeldLease \cup {NoLease}]
  /\ fenceHolder \in [FenceHolders -> HeldFence \cup {NoFence}]
  /\ tombstones \subseteq Candidates
  /\ \A c \in tombstones : candidates[c] # Absent /\ activity[c] > 0
  /\ \A c \in Candidates : activity[c] > 0 => candidates[c] # Absent
  /\ upserts \in 0..MaxUpserts

PoolInit ==
  /\ candidates = [c \in Candidates |-> Absent]
  /\ tombstones = {}
  /\ permission = [c \in Candidates |-> 0]
  /\ activity = [c \in Candidates |-> 0]
  /\ memberActivity = [m \in PoolMembersSet |-> 0]
  /\ fences = [c \in Candidates |-> [epoch |-> 0, count |-> 0]] /\ fenceEpoch = 0
  /\ poolLease = [l \in PoolLeases |-> NoLease]
  /\ fenceHolder = [f \in FenceHolders |-> NoFence]
  /\ upserts = 0

-----------------------------------------------------------------------------
(* Registrations *)

Known(c) == candidates[c] # Absent

\* Mutant: only a change of enabled revokes.
RevokesEnabled(old, new) == old.enabled # new.enabled

\* The changes that revoke reserved leases.
Revokes(old, new) == old # new

Stale(leases, c) ==
  [l \in PoolLeases |->
    IF l \in Holding(leases, c) THEN [leases[l] EXCEPT !.stale = TRUE] ELSE leases[l]]

\* upsert: a policy edit of a live runtime does it with a tombstone too.
UpsertCandidate(c, new) ==
  /\ upserts < MaxUpserts
  /\ candidates' = [candidates EXCEPT ![c] = new]
  /\ permission' = [permission EXCEPT
       ![c] = IF Known(c) /\ Revokes(candidates[c], new) THEN @ + 1 ELSE @]
  /\ tombstones' = tombstones \ {c}
  /\ poolLease' = IF candidates[c] = new THEN poolLease ELSE Stale(poolLease, c)
  /\ upserts' = upserts + 1
  /\ UNCHANGED <<activity, memberActivity, fences, fenceEpoch, fenceHolder>>

\* update_candidate_availability: a fresh account state, no permission.
UpdateAvailability(c, enabled) ==
  /\ Known(c)
  /\ candidates' = [candidates EXCEPT ![c].enabled = enabled]
  /\ UNCHANGED <<tombstones, permission, activity, memberActivity, fences, fenceEpoch,
                 poolLease, fenceHolder, upserts>>

\* Mutant: the last request of a removed route takes the count of its member.
RemoveMemberActivity(c, left) == [left EXCEPT ![PoolMemberOf[c]] = 0]

\* The activity of a member goes with its last route.
MemberActivityWithout(c, left) ==
  IF \E d \in Candidates \ {c} : Known(d) /\ PoolMemberOf[d] = PoolMemberOf[c] THEN left
  ELSE [left EXCEPT ![PoolMemberOf[c]] = 0]

\* remove_now, given the activity that is left of members
RemoveNow(c, left) ==
  /\ candidates' = [candidates EXCEPT ![c] = Absent]
  /\ tombstones' = tombstones \ {c}
  /\ permission' = [permission EXCEPT ![c] = 0]
  /\ memberActivity' = MemberActivityWithout(c, left)
  /\ fences' = [fences EXCEPT ![c].count = 0]
  /\ fenceHolder' = [f \in FenceHolders |->
       IF fenceHolder[f].held /\ fenceHolder[f].candidate = c
       THEN [fenceHolder[f] EXCEPT !.removed = TRUE] ELSE fenceHolder[f]]

RemoveCandidate(c) ==
  /\ Known(c)
  /\ IF activity[c] > 0
       THEN /\ candidates' = [candidates EXCEPT ![c] = [enabled |-> FALSE, draining |-> TRUE]]
            /\ tombstones' = tombstones \cup {c}
            /\ UNCHANGED <<permission, memberActivity, fences, fenceHolder>>
       ELSE RemoveNow(c, memberActivity)
  /\ poolLease' = Stale(poolLease, c)
  /\ UNCHANGED <<activity, fenceEpoch, upserts>>

-----------------------------------------------------------------------------
(* Fences: an edit of credentials or permissions is under way *)

BeginFence(f, c) ==
  /\ ~fenceHolder[f].held /\ Known(c)
  /\ IF fences[c].count > 0
       THEN /\ fences' = [fences EXCEPT ![c].count = @ + 1]
            /\ UNCHANGED fenceEpoch
       ELSE /\ fenceEpoch < MaxEpochs
            /\ fences' = [fences EXCEPT ![c] = [epoch |-> fenceEpoch + 1, count |-> 1]]
            /\ fenceEpoch' = fenceEpoch + 1
  /\ fenceHolder' = [fenceHolder EXCEPT
       ![f] = [held |-> TRUE, candidate |-> c, epoch |-> fences'[c].epoch, removed |-> FALSE]]
  /\ UNCHANGED <<candidates, tombstones, permission, activity, memberActivity, poolLease, upserts>>

\* Mutant: a fence is released by the name of its candidate.
OpensByName(c, epoch) == fences[c].count > 0

\* end_execution_fence: a fence of the same group is open.
Opens(c, epoch) == fences[c].count > 0 /\ fences[c].epoch = epoch

\* ExecutionFence::drop
EndFence(f) ==
  /\ fenceHolder[f].held
  /\ fences' = IF Opens(fenceHolder[f].candidate, fenceHolder[f].epoch)
               THEN [fences EXCEPT ![fenceHolder[f].candidate].count = @ - 1] ELSE fences
  /\ fenceHolder' = [fenceHolder EXCEPT ![f] = NoFence]
  /\ UNCHANGED <<candidates, tombstones, permission, activity, memberActivity, fenceEpoch,
                 poolLease, upserts>>

-----------------------------------------------------------------------------
(* Leases *)

\* rotation_visible
Visible(c) ==
  /\ Known(c) /\ c \notin tombstones /\ fences[c].count = 0
  /\ candidates[c].enabled /\ ~candidates[c].draining

\* member_capacity_allows
MemberAllows(m) == PoolLimit[m] = 0 \/ memberActivity[m] < PoolLimit[m]

\* Selection and reserve_request_with_operation, under one lock.
ReserveRequest(l, c) ==
  /\ poolLease[l].at = "free" /\ Visible(c) /\ MemberAllows(PoolMemberOf[c])
  /\ activity' = [activity EXCEPT ![c] = @ + 1]
  /\ memberActivity' = [memberActivity EXCEPT ![PoolMemberOf[c]] = @ + 1]
  /\ poolLease' = [poolLease EXCEPT
       ![l] = [at |-> "reserved", candidate |-> c, permission |-> permission[c], stale |-> FALSE]]
  /\ UNCHANGED <<candidates, tombstones, permission, fences, fenceEpoch, fenceHolder, upserts>>

\* begin_rotation_dispatch: the final gate, in the transaction of the debit
DispatchRequest(l) ==
  /\ poolLease[l].at = "reserved"
  /\ poolLease[l].permission = permission[poolLease[l].candidate]
  /\ Visible(poolLease[l].candidate)
  /\ poolLease' = [poolLease EXCEPT ![l].at = "dispatched"]
  /\ UNCHANGED <<candidates, tombstones, permission, activity, memberActivity, fences, fenceEpoch,
                 fenceHolder, upserts>>

\* settle_rotation_with_latency, cancel_rotation or release_rotation_unstarted
SettleRequest(l) ==
  /\ poolLease[l].at \in {"reserved", "dispatched"}
  /\ poolLease' = [poolLease EXCEPT ![l].at = "settled"]
  /\ UNCHANGED <<candidates, tombstones, permission, activity, memberActivity, fences, fenceEpoch,
                 fenceHolder, upserts>>

\* release_reservation and finalize_retired_if_idle
ReleaseRequest(l) ==
  LET c == poolLease[l].candidate
      left == [memberActivity EXCEPT ![PoolMemberOf[c]] = @ - 1]
  IN  /\ poolLease[l].at = "settled"
      /\ poolLease' = [poolLease EXCEPT ![l] = NoLease]
      /\ activity' = [activity EXCEPT ![c] = @ - 1]
      /\ IF c \in tombstones /\ activity[c] = 1 THEN RemoveNow(c, left)
         ELSE /\ memberActivity' = left
              /\ UNCHANGED <<candidates, tombstones, permission, fences, fenceHolder>>
      /\ UNCHANGED <<fenceEpoch, upserts>>

PoolNext ==
  \/ \E c \in Candidates, enabled, draining \in BOOLEAN :
       UpsertCandidate(c, [enabled |-> enabled, draining |-> draining])
  \/ \E c \in Candidates, enabled \in BOOLEAN : UpdateAvailability(c, enabled)
  \/ \E c \in Candidates : RemoveCandidate(c)
  \/ \E f \in FenceHolders : EndFence(f) \/ \E c \in Candidates : BeginFence(f, c)
  \/ \E l \in PoolLeases, c \in Candidates : ReserveRequest(l, c)
  \/ \E l \in PoolLeases : DispatchRequest(l) \/ SettleRequest(l) \/ ReleaseRequest(l)

PoolSpec == PoolInit /\ [][PoolNext]_poolVars

-----------------------------------------------------------------------------
(* Properties *)

\* A member never carries more requests than its limit, whichever of its
\* routes were removed and registered again.
MemberWithinLimit ==
  \A m \in PoolMembersSet : PoolLimit[m] > 0 => Cardinality(HoldingMember(m)) <= PoolLimit[m]

\* A request reserved on a registration that was removed or changed since is
\* not sent, even when the same route is registered again as it was (the
\* permission revision, read by begin_rotation_dispatch).
RevokedIsNotSent ==
  [][\A l \in PoolLeases :
       poolLease'[l].at = "dispatched" /\ poolLease[l].at = "reserved" => ~poolLease[l].stale]_poolVars

\* While an edit holds its fence, its candidate is not visible, unless it was
\* removed; the fence of a removed one does not open that of its successor.
FenceHolds ==
  \A f \in FenceHolders :
    fenceHolder[f].held /\ ~fenceHolder[f].removed => ~Visible(fenceHolder[f].candidate)
=============================================================================
