--------------------------- MODULE AdmissionQueue ---------------------------
(***************************************************************************)
(* The admission queue of a gateway runtime                                *)
(* (crates/relay-core/src/runtime/admission.rs, admission/waiting.rs):     *)
(* requests that find the pool full wait, in turn across principals, for   *)
(* two notifications, `candidate_availability` and `admission_changed`.    *)
(*                                                                         *)
(* A request driver is a task.  Its steps are separated where it takes or  *)
(* gives up a lock or awaits: the queue's mutex is held from Enter to the  *)
(* end of Scan and Decide, the scheduler's mutex only within one step of   *)
(* them, so leases end and members change while a turn is being computed.  *)
(* The pool is reduced to what the queue asks of it: which members a       *)
(* request may use, and whether each is up and has room.                   *)
(***************************************************************************)
EXTENDS Integers, Sequences, FiniteSets, SequencesExt

CONSTANTS
  Requests,        \* request slots: a request that is gone may be followed by another
  Principals,      \* API keys
  Members,         \* physical pool members
  Nobody,          \* no request
  NoMember,        \* no member
  PrincipalOf,     \* [Requests -> Principals]
  Eligible,        \* [Requests -> SUBSET Members], route support and exclusions
  Persistent,      \* requests that wait without a deadline while recovery is enabled
  HiddenSets,      \* sets of requests a choice of hidden models may hit
  Impatient,       \* requests whose wait may be used up in this instance
  Capacity,        \* [Members -> Nat \ {0}]
  MaxQueued,       \* AdmissionLimits.requests (1024 in the code)
  MaxPerPrincipal, \* AdmissionLimits.principal_requests (256)
  MaxArrivals,     \* bound on the requests that arrive, for TLC
  MaxChanges       \* bound on configuration changes, for TLC

VARIABLES
  stage,           \* where the driver of each request is
  queue,           \* waiters, oldest first
  principals,      \* the principals of the waiters, in turn order
  section,         \* the queue's critical section: who computes whose turn
  lease,           \* the lease of each request and how far its end has come
  status,          \* availability of each member
  hidden,          \* requests whose model is hidden
  retired,         \* the runtime was replaced
  recoveryEnabled, \* route_recovery_enabled
  announcing,      \* notifications owed for a change already made
  woken,           \* drivers notified since they subscribed
  behind,          \* cooldowns that ended after the driver read the clock
  due,             \* members whose cooldown ends the sleep of each driver
  armed,           \* drivers that sleep with a deadline
  overdue,         \* requests whose accumulated wait is used up
  stopped,         \* AdmissionStopReason of each request
  passed,          \* history: grants past a ready waiter of each principal
  arrivals, changes

vars == <<stage, queue, principals, section, lease, status, hidden, retired,
          recoveryEnabled, announcing, woken, behind, due, armed, overdue,
          stopped, passed, arrivals, changes>>

queueVars  == <<queue, principals>>
poolVars   == <<status, hidden, retired, recoveryEnabled>>
sleepVars  == <<behind, due, armed>>
boundVars  == <<arrivals, changes>>

ASSUME AdmissionAssumption ==
  /\ IsFiniteSet(Requests) /\ Nobody \notin Requests /\ NoMember \notin Members
  /\ PrincipalOf \in [Requests -> Principals]
  /\ Eligible \in [Requests -> SUBSET Members]
  /\ Persistent \subseteq Requests /\ Impatient \subseteq Requests
  /\ HiddenSets \subseteq SUBSET Requests
  /\ Capacity \in [Members -> Nat \ {0}]
  /\ MaxQueued \in Nat /\ MaxPerPrincipal \in Nat
  /\ MaxArrivals \in Nat /\ MaxChanges \in Nat

-----------------------------------------------------------------------------
(* Types *)

\* inspecting to yielded: inside admit.  unserved, sleeping: found no room, and
\* now awaits; deferring, yielded: the same behind the turn of another.
\* enlisting, recovering: inside wait_for_recovery_event; granted, leaving: about
\* to drop the AdmissionGuard.
Stages == {"gone", "idle", "inspecting", "scanning", "unserved", "deferring",
           "sleeping", "yielded", "granted", "leaving", "refused", "enlisting",
           "recovering", "attempting"}
AboutToSleep == {"unserved", "deferring"}
Asleep       == {"sleeping", "yielded"}

\* held: engine lease and reservation; settled: the engine lease is gone;
\* silent: the reservation is gone too, its release not yet announced.
Phases   == {"none", "held", "settled", "silent"}
Statuses == {"up", "cooling", "blocked"}
Channels == {"availability", "turn"}
Stops    == {"no", "QueueFull", "WaitExpired"}

\* `selecting` waiters compete for a turn; the others wait for a recovery.
Waiter  == [request : Requests, selecting : BOOLEAN]

\* The turn being computed: waiters found unready so far, and the one found.
\* `ready` is history: the waiters that could go when the section was entered
\* and were not found unready since.
Section == [owner : Requests \cup {Nobody}, unready : SUBSET Requests,
            turn : Requests \cup {Nobody}, ready : SUBSET Requests]

FreeSection == [owner |-> Nobody, unready |-> {}, turn |-> Nobody, ready |-> {}]

-----------------------------------------------------------------------------
(* The pool, as the scheduler answers for it *)

Waiting == {queue[i].request : i \in DOMAIN queue}
Selecting == {queue[i].request : i \in {j \in DOMAIN queue : queue[j].selecting}}

Leased(m)   == {q \in Requests : lease[q].member = m /\ lease[q].phase = "held"}
Reserved(m) == {q \in Requests : lease[q].member = m /\ lease[q].phase \in {"held", "settled"}}

EngineFree(m) == Cardinality(Leased(m)) < Capacity[m]
HasRoom(m)    == EngineFree(m) /\ Cardinality(Reserved(m)) < Capacity[m]

\* A driver reads the clock once per pass (now_ms): what it inspects in that
\* pass is still cooling down if it was then.
Up(m, unseen) == ~retired /\ status[m] = "up" /\ m \notin unseen

\* admission_ready_for: select finds a member.
ReadyMembers(q, unseen) == {m \in Eligible[q] : Up(m, unseen) /\ HasRoom(m)}

\* capacity_blocked_for: Busy, or Ready behind a reservation that outlives its
\* engine lease.
CapacityBlocked(q) == \E m \in Eligible[q] : Up(m, behind[q]) /\ ~HasRoom(m)

AllReserved == \A m \in Members : ~EngineFree(m)

Cooling(q) == {m \in Eligible[q] : ~retired /\ (status[m] = "cooling" \/ m \in behind[q])}

\* queue_deadline is None for a persistent request while recovery is enabled.
HasDeadline(q) == ~(q \in Persistent /\ recoveryEnabled)
Expired(q)     == HasDeadline(q) /\ q \in overdue
CanDispatch(q) == stopped[q] = "no"

\* A waiter that `turn` would choose, for a driver that misses `unseen`.
Admissible(w, unseen) ==
  /\ CanDispatch(w) /\ ~Expired(w)
  /\ w \notin hidden /\ ReadyMembers(w, unseen) # {}

-----------------------------------------------------------------------------
(* Notifications.  A definition that differs from the next one in what its  *)
(* name says is a fault the runs are shown to detect; no action uses it.    *)

InAdmit    == {q \in Requests : stage[q] \in {"inspecting", "scanning"} \cup AboutToSleep \cup Asleep}
InRecovery == {q \in Requests : stage[q] \in {"enlisting", "recovering"}}

\* notify_waiters reaches every future that is subscribed, polled or not.
NotifyTurn == woken' = woken \cup InAdmit

NotifyRecoveriesOnly == woken' = woken \cup InRecovery
NotifyAvailability   == woken' = woken \cup InAdmit \cup InRecovery

Awake(q) == q \in woken \/ (q \in armed /\ q \in overdue)

-----------------------------------------------------------------------------
(* The queue *)

\* insert
OfPrincipal(p) == {q \in Waiting : PrincipalOf[q] = p}

RoomForOneMore(q) == q \notin Waiting /\ Len(queue) <= MaxQueued

Room(q) == /\ q \notin Waiting
           /\ Len(queue) < MaxQueued
           /\ Cardinality(OfPrincipal(PrincipalOf[q])) < MaxPerPrincipal

InsertInFront(q, selecting) ==
  /\ queue' = Append(queue, [request |-> q, selecting |-> selecting])
  /\ principals' = IF OfPrincipal(PrincipalOf[q]) = {}
                     THEN <<PrincipalOf[q]>> \o principals ELSE principals

Insert(q, selecting) ==
  /\ queue' = Append(queue, [request |-> q, selecting |-> selecting])
  /\ principals' = IF OfPrincipal(PrincipalOf[q]) = {}
                     THEN Append(principals, PrincipalOf[q]) ELSE principals

PlaceOf(p) == CHOOSE i \in DOMAIN principals : principals[i] = p
IndexOf(q) == CHOOSE i \in DOMAIN queue : queue[i].request = q

\* served: the principal goes to the back.
ToBack(order, p) ==
  IF \E i \in DOMAIN order : order[i] = p
    THEN Append(RemoveAt(order, CHOOSE i \in DOMAIN order : order[i] = p), p) ELSE order

RemoveWaiterOnly(q) == queue' = RemoveAt(queue, IndexOf(q)) /\ UNCHANGED principals

\* remove, and with it the principal of the last waiter.
RemoveWaiter(q) ==
  /\ queue' = RemoveAt(queue, IndexOf(q))
  /\ principals' = IF OfPrincipal(PrincipalOf[q]) = {q}
                     THEN RemoveAt(principals, PlaceOf(PrincipalOf[q])) ELSE principals

\* A principal without waiters has nothing to be passed over for.
Forgotten(q) ==
  IF OfPrincipal(PrincipalOf[q]) \subseteq {q}
    THEN [passed EXCEPT ![PrincipalOf[q]] = [p \in Principals |-> 0]] ELSE passed

\* AdmissionGuard::drop: leave the queue, then wake the other waiters.
DropGuard(q) ==
  IF q \in Waiting
    THEN RemoveWaiter(q) /\ NotifyTurn /\ passed' = Forgotten(q)
    ELSE UNCHANGED <<queueVars, woken, passed>>

\* The order in which `turn` inspects waiters: principals in turn order, then
\* oldest first.
Precedes(v, w) ==
  LET pv == PlaceOf(PrincipalOf[v])
      pw == PlaceOf(PrincipalOf[w])
  IN  pv < pw \/ (pv = pw /\ IndexOf(v) < IndexOf(w))

NextToInspect(w) ==
  /\ w \in Selecting \ section.unready
  /\ \A v \in Selecting \ section.unready : v = w \/ Precedes(w, v)

-----------------------------------------------------------------------------
(* admit *)

MoveTo(q, s) == stage' = [stage EXCEPT ![q] = s]
Stop(q, why) == stopped' = [stopped EXCEPT ![q] = IF @ = "no" THEN why ELSE @]

\* The head of the loop: subscribe to both notifications, then check the
\* deadline, the budget and the model.
Subscribe(q) ==
  /\ woken' = woken \ {q}
  /\ behind' = [behind EXCEPT ![q] = {}]
  /\ armed' = IF HasDeadline(q) THEN armed \cup {q} ELSE armed \ {q}
  /\ IF Expired(q) THEN Stop(q, "WaitExpired") ELSE UNCHANGED stopped
  /\ MoveTo(q, IF Expired(q) \/ ~CanDispatch(q) \/ q \in hidden
                 THEN "leaving" ELSE "inspecting")
  /\ UNCHANGED <<queueVars, section, lease, poolVars, announcing, due, overdue,
                 passed, boundVars>>

Admit(q)  == stage[q] = "idle" /\ Subscribe(q)
Resume(q) == stage[q] \in Asleep /\ Awake(q) /\ Subscribe(q)

\* register_waiter: a waiter that is queued already keeps its place.
Register(q, s) ==
  IF q \in Waiting
    THEN MoveTo(q, s) /\ UNCHANGED <<queueVars, stopped>>
    ELSE IF Room(q)
      THEN Insert(q, TRUE) /\ MoveTo(q, s) /\ UNCHANGED stopped
      ELSE Stop(q, "QueueFull") /\ MoveTo(q, "leaving") /\ UNCHANGED queueVars

RegisterOrLeave(q, busy, s) ==
  IF busy THEN Register(q, s)
          ELSE MoveTo(q, "leaving") /\ UNCHANGED <<queueVars, stopped>>

SubscribeThen(q) == woken' = woken \ {q}

\* A timer for a cooldown that is over by now fires at once.
FireTimer(q) ==
  woken' = IF behind[q] \cap Eligible[q] # {} THEN woken \cup {q} ELSE woken

\* The await, after the queue's mutex is free again: earliest_retry_at arms a
\* timer for the members that cool down.
FallAsleep(q) ==
  /\ stage[q] \in AboutToSleep
  /\ due' = [due EXCEPT ![q] = Cooling(q)]
  /\ FireTimer(q)
  /\ MoveTo(q, IF stage[q] = "unserved" THEN "sleeping" ELSE "yielded")
  /\ UNCHANGED <<queueVars, section, lease, poolVars, announcing, behind, armed, overdue,
                 stopped, passed, boundVars>>

\* Taking the queue's mutex.  With waiters and every capacity reserved there is
\* no turn to compute.
Saturated == queue # <<>> /\ AllReserved

EnterSaturated(q) ==
  /\ stage[q] = "inspecting" /\ section.owner = Nobody
  /\ Saturated
  /\ RegisterOrLeave(q, CapacityBlocked(q), "unserved")
  /\ UNCHANGED <<section, lease, poolVars, announcing, woken, sleepVars, overdue,
                 passed, boundVars>>

EnterSection(q) ==
  /\ stage[q] = "inspecting" /\ section.owner = Nobody
  /\ ~Saturated
  /\ section' = [owner |-> q, unready |-> {}, turn |-> Nobody,
                 ready |-> {w \in Selecting : Admissible(w, behind[q])}]
  /\ MoveTo(q, "scanning")
  /\ UNCHANGED <<queueVars, lease, poolVars, announcing, woken, sleepVars, overdue,
                 stopped, passed, boundVars>>

\* turn: one waiter is inspected under the scheduler's mutex.
Scan(q) ==
  /\ section.owner = q /\ section.turn = Nobody
  /\ \E w \in Selecting :
       /\ NextToInspect(w)
       /\ section' = IF Admissible(w, behind[q])
                       THEN [section EXCEPT !.turn = w]
                       ELSE [section EXCEPT !.unready = @ \cup {w}, !.ready = @ \ {w}]
  /\ UNCHANGED <<stage, queueVars, lease, poolVars, announcing, woken, sleepVars,
                 overdue, stopped, passed, boundVars>>

TurnIgnored == TRUE

TurnKnown == section.turn # Nobody \/ Selecting \subseteq section.unready

PassOver(q) ==
  [p \in Principals |->
     IF p = PrincipalOf[q] THEN [x \in Principals |-> 0]
     ELSE IF \E w \in section.ready : PrincipalOf[w] = p /\ Admissible(w, behind[q])
       THEN [passed[p] EXCEPT ![PrincipalOf[q]] = IF @ < 2 THEN @ + 1 ELSE 2]
       ELSE passed[p]]

\* try_reserve_admission, in one critical section of the scheduler, then served.
Grant(q) ==
  /\ section.owner = q /\ TurnKnown /\ section.turn \in {Nobody, q}
  /\ CanDispatch(q) /\ q \notin hidden
  /\ \E m \in ReadyMembers(q, behind[q]) :
       lease' = [lease EXCEPT ![q] = [member |-> m, phase |-> "held"]]
  /\ principals' = ToBack(principals, PrincipalOf[q])
  /\ section' = FreeSection
  /\ passed' = PassOver(q)
  /\ MoveTo(q, "granted")
  /\ UNCHANGED <<queue, poolVars, announcing, woken, sleepVars, overdue, stopped,
                 boundVars>>

\* Its turn, or nobody's, but nothing to reserve.
FindNothing(q) ==
  /\ section.owner = q /\ TurnKnown /\ section.turn \in {Nobody, q}
  /\ ~(CanDispatch(q) /\ q \notin hidden /\ ReadyMembers(q, behind[q]) # {})
  /\ section' = FreeSection
  /\ RegisterOrLeave(q, CanDispatch(q) /\ q \notin hidden /\ CapacityBlocked(q), "unserved")
  /\ UNCHANGED <<lease, poolVars, announcing, woken, sleepVars, overdue, passed,
                 boundVars>>

\* Another waiter's turn: wait behind it if there is something to wait for.
Yield(q) ==
  /\ section.owner = q /\ TurnKnown /\ section.turn \notin {Nobody, q}
  /\ section' = FreeSection
  /\ RegisterOrLeave(q, ReadyMembers(q, behind[q]) # {} \/ CapacityBlocked(q), "deferring")
  /\ UNCHANGED <<lease, poolVars, announcing, woken, sleepVars, overdue, passed,
                 boundVars>>

\* The guard, dropped after the queue's mutex is free again.
QueueFree == section.owner = Nobody

ReturnLease(q) ==
  /\ stage[q] = "granted" /\ QueueFree
  /\ DropGuard(q)
  /\ MoveTo(q, "attempting")
  /\ UNCHANGED <<section, lease, poolVars, announcing, sleepVars, overdue, stopped, boundVars>>

ReturnNothing(q) ==
  /\ stage[q] = "leaving" /\ QueueFree
  /\ DropGuard(q)
  /\ MoveTo(q, "refused")
  /\ UNCHANGED <<section, lease, poolVars, announcing, sleepVars, overdue, stopped, boundVars>>

\* The client goes away while the driver sleeps: the future is dropped.
Cancel(q) ==
  /\ stage[q] \in Asleep \cup {"recovering"} /\ QueueFree
  /\ DropGuard(q)
  /\ MoveTo(q, "gone")
  /\ UNCHANGED <<section, lease, poolVars, announcing, sleepVars, overdue, stopped, boundVars>>

-----------------------------------------------------------------------------
(* wait_for_recovery_event *)

\* Ready for the engine, whatever the reservations say.
EngineReady(q) == \E m \in Eligible[q] : ~retired /\ status[m] = "up" /\ EngineFree(m)

WaitsForEvent(q) == q \in Persistent /\ recoveryEnabled

MayRecover(q) == CanDispatch(q) /\ q \notin hidden /\ ~retired

\* Subscribes to candidate_availability only.  recovery_retry_at: a member that
\* is ready now, or the cooldowns that end; a persistent driver waits without.
BeginRecovery(q) ==
  /\ stage[q] = "refused"
  /\ MayRecover(q)
  /\ woken' = woken \ {q}
  /\ armed' = IF HasDeadline(q) THEN armed \cup {q} ELSE armed \ {q}
  /\ behind' = [behind EXCEPT ![q] = {}]
  /\ due' = [due EXCEPT ![q] = {m \in Eligible[q] : status[m] = "cooling"}]
  /\ IF Expired(q) THEN Stop(q, "WaitExpired") ELSE UNCHANGED stopped
  /\ MoveTo(q, IF Expired(q) THEN "gone"
               ELSE IF EngineReady(q) THEN "idle"
               ELSE IF due'[q] # {} \/ WaitsForEvent(q) THEN "enlisting"
               ELSE "gone")
  /\ UNCHANGED <<queueVars, section, lease, poolVars, announcing, overdue, passed, boundVars>>

Enlist(q) ==
  /\ stage[q] = "enlisting" /\ QueueFree
  /\ IF Room(q)
       THEN Insert(q, FALSE) /\ MoveTo(q, "recovering") /\ UNCHANGED stopped
       ELSE Stop(q, "QueueFull") /\ MoveTo(q, "gone") /\ UNCHANGED queueVars
  /\ UNCHANGED <<section, lease, poolVars, announcing, woken, sleepVars, overdue,
                 passed, boundVars>>

EndRecovery(q) ==
  /\ stage[q] = "recovering" /\ Awake(q) /\ QueueFree
  /\ DropGuard(q)
  /\ IF MayRecover(q) /\ Expired(q) THEN Stop(q, "WaitExpired") ELSE UNCHANGED stopped
  /\ MoveTo(q, IF MayRecover(q) /\ ~Expired(q) THEN "idle" ELSE "gone")
  /\ UNCHANGED <<section, lease, poolVars, announcing, sleepVars, overdue, boundVars>>

-----------------------------------------------------------------------------
(* Requests and their leases *)

Arrive(q) ==
  /\ stage[q] = "gone" /\ arrivals < MaxArrivals
  /\ arrivals' = arrivals + 1
  /\ stopped' = [stopped EXCEPT ![q] = "no"]
  /\ overdue' = overdue \ {q}
  /\ MoveTo(q, "idle")
  /\ UNCHANGED <<queueVars, section, lease, poolVars, announcing, woken, sleepVars,
                 passed, changes>>

\* The driver reports the failure to its client.
GiveUp(q) ==
  /\ stage[q] = "refused"
  /\ MoveTo(q, "gone")
  /\ UNCHANGED <<queueVars, section, lease, poolVars, announcing, woken, sleepVars,
                 overdue, stopped, passed, boundVars>>

\* settle_rotation, with the cooldown a failure may carry; release then gives
\* the reservation back, and only then notifies.
Settle(q) ==
  /\ stage[q] = "attempting" /\ lease[q].phase = "held"
  /\ lease' = [lease EXCEPT ![q].phase = "settled"]
  /\ \/ UNCHANGED status
     \/ /\ status[lease[q].member] = "up"
        /\ changes < MaxChanges
        /\ status' = [status EXCEPT ![lease[q].member] = "cooling"]
  /\ changes' = IF status' = status THEN changes ELSE changes + 1
  /\ UNCHANGED <<stage, queueVars, section, hidden, retired, recoveryEnabled, announcing,
                 woken, sleepVars, overdue, stopped, passed, arrivals>>

ReleaseReservation(q) ==
  /\ lease[q].phase = "settled"
  /\ lease' = [lease EXCEPT ![q].phase = "silent"]
  /\ UNCHANGED <<stage, queueVars, section, poolVars, announcing, woken, sleepVars,
                 overdue, stopped, passed, boundVars>>

AnnounceRelease(q) ==
  /\ lease[q].phase = "silent"
  /\ lease' = [lease EXCEPT ![q] = [member |-> NoMember, phase |-> "none"]]
  /\ NotifyAvailability
  /\ MoveTo(q, "gone")
  /\ UNCHANGED <<queueVars, section, poolVars, announcing, sleepVars, overdue, stopped,
                 passed, boundVars>>

-----------------------------------------------------------------------------
(* Configuration and time *)

Change(channels) ==
  /\ changes < MaxChanges /\ changes' = changes + 1
  /\ announcing' = announcing \cup channels
  /\ UNCHANGED <<stage, queueVars, section, lease, woken, sleepVars, overdue, stopped,
                 passed, arrivals>>

\* update_candidate_availability, execution fences, policies: the scheduler's
\* mutex is free again before the notification.
UpdateMember(m, s) ==
  /\ status[m] # s
  /\ status' = [status EXCEPT ![m] = s]
  /\ Change({"availability"})
  /\ UNCHANGED <<hidden, retired, recoveryEnabled>>

SetHidden(qs) ==
  /\ hidden # qs /\ hidden' = qs
  /\ Change(Channels)
  /\ UNCHANGED <<status, retired, recoveryEnabled>>

SetRecoveryEnabledSilently(b) ==
  /\ recoveryEnabled # b /\ recoveryEnabled' = b
  /\ Change({})
  /\ UNCHANGED <<status, hidden, retired>>

SetRecoveryEnabled(b) ==
  /\ recoveryEnabled # b /\ recoveryEnabled' = b
  /\ Change({"availability"})
  /\ UNCHANGED <<status, hidden, retired>>

RetireForReplacement ==
  /\ ~retired /\ retired' = TRUE
  /\ Change(Channels)
  /\ UNCHANGED <<status, hidden, recoveryEnabled>>

Announce(channel) ==
  /\ channel \in announcing
  /\ announcing' = announcing \ {channel}
  /\ IF channel = "turn" THEN NotifyTurn ELSE NotifyAvailability
  /\ UNCHANGED <<stage, queueVars, section, lease, poolVars, sleepVars, overdue, stopped,
                 passed, boundVars>>

\* A cooldown ends with no notification: only the timers of the drivers fire.
EndCooldown(m) ==
  /\ status[m] = "cooling"
  /\ status' = [status EXCEPT ![m] = "up"]
  /\ woken' = woken \cup {q \in Requests : stage[q] \in Asleep \cup {"enlisting", "recovering"}
                                             /\ m \in due[q]}
  /\ behind' = [q \in Requests |-> IF stage[q] \in {"inspecting", "scanning"} \cup AboutToSleep
                                     THEN behind[q] \cup {m} ELSE behind[q]]
  /\ UNCHANGED <<stage, queueVars, section, lease, hidden, retired, recoveryEnabled,
                 announcing, due, armed, overdue, stopped, passed, boundVars>>

\* MAX_ACCUMULATED_WAIT has gone by in the queue.
UseUpWait(q) ==
  /\ q \in (Waiting \cap Impatient) \ overdue
  /\ overdue' = overdue \cup {q}
  /\ UNCHANGED <<stage, queueVars, section, lease, poolVars, announcing, woken, sleepVars,
                 stopped, passed, boundVars>>

-----------------------------------------------------------------------------
(* Specification *)

Init ==
  /\ stage = [q \in Requests |-> "gone"]
  /\ queue = <<>> /\ principals = <<>>
  /\ section = FreeSection
  /\ lease = [q \in Requests |-> [member |-> NoMember, phase |-> "none"]]
  /\ status = [m \in Members |-> "up"]
  /\ hidden = {} /\ retired = FALSE /\ recoveryEnabled \in BOOLEAN
  /\ announcing = {} /\ woken = {}
  /\ behind = [q \in Requests |-> {}] /\ due = [q \in Requests |-> {}] /\ armed = {} /\ overdue = {}
  /\ stopped = [q \in Requests |-> "no"]
  /\ passed = [p \in Principals |-> [x \in Principals |-> 0]]
  /\ arrivals = 0 /\ changes = 0

Enter(q) == EnterSaturated(q) \/ EnterSection(q)
Decide(q) == Grant(q) \/ FindNothing(q) \/ Yield(q)
Return(q) == ReturnLease(q) \/ ReturnNothing(q)
AwaitRecovery(q) == BeginRecovery(q) \/ Enlist(q) \/ EndRecovery(q)
EndLease(q) == Settle(q) \/ ReleaseReservation(q) \/ AnnounceRelease(q)

Driving(q) ==
  \/ Admit(q) \/ Resume(q) \/ Enter(q) \/ Scan(q) \/ Decide(q) \/ FallAsleep(q)
  \/ Return(q) \/ AwaitRecovery(q) \/ GiveUp(q) \/ EndLease(q)

Configuring ==
  \/ \E m \in Members, s \in {"up", "blocked"} : UpdateMember(m, s)
  \/ \E qs \in HiddenSets : SetHidden(qs)
  \/ \E b \in BOOLEAN : SetRecoveryEnabled(b)
  \/ RetireForReplacement
  \/ \E channel \in Channels : Announce(channel)

Next ==
  \/ \E q \in Requests : Driving(q) \/ Arrive(q) \/ Cancel(q) \/ UseUpWait(q)
  \/ \E m \in Members : EndCooldown(m)
  \/ Configuring

Spec == Init /\ [][Next]_vars

\* The tasks of the runtime keep running, the scheduler of tasks and the mutex
\* of the queue starve nobody, leases end, and timers fire.
Fairness ==
  /\ \A q \in Requests :
       /\ WF_vars(Admit(q) \/ Resume(q) \/ Scan(q) \/ Decide(q) \/ FallAsleep(q)
                     \/ AwaitRecovery(q))
       /\ SF_vars(Enter(q)) /\ SF_vars(Return(q))
       /\ WF_vars(EndLease(q))
       /\ WF_vars(UseUpWait(q))
  /\ \A m \in Members : WF_vars(EndCooldown(m))
  /\ \A channel \in Channels : WF_vars(Announce(channel))

FairSpec == Spec /\ Fairness

-----------------------------------------------------------------------------
(* Properties *)

\* The state is well typed, the queue within its limits.
TypeOK ==
  /\ stage \in [Requests -> Stages]
  /\ queue \in Seq(Waiter) /\ Len(queue) <= MaxQueued
  /\ \A p \in Principals : Cardinality(OfPrincipal(p)) <= MaxPerPrincipal
  /\ principals \in Seq(Principals)
  /\ section \in Section
  /\ lease \in [Requests -> [member : Members \cup {NoMember}, phase : Phases]]
  /\ status \in [Members -> Statuses]
  /\ hidden \subseteq Requests
  /\ retired \in BOOLEAN /\ recoveryEnabled \in BOOLEAN
  /\ announcing \subseteq Channels
  /\ woken \subseteq Requests
  /\ behind \in [Requests -> SUBSET Members]
  /\ due \in [Requests -> SUBSET Members]
  /\ armed \subseteq Requests /\ overdue \subseteq Requests
  /\ stopped \in [Requests -> Stops]
  /\ passed \in [Principals -> [Principals -> 0..2]]
  /\ arrivals \in 0..MaxArrivals /\ changes \in 0..MaxChanges

Distinct(s) == \A i, j \in DOMAIN s : s[i] = s[j] => i = j

\* The queue holds exactly the requests whose driver still owns a guard, each
\* once, its turn order exactly their principals, each once: a cancelled,
\* refused or admitted request leaves no waiter behind that would keep a place,
\* and no principal loses its turn while one of its requests waits.
QueueMatchesDrivers ==
  /\ \A i, j \in DOMAIN queue : queue[i].request = queue[j].request => i = j
  /\ Distinct(principals)
  /\ {principals[i] : i \in DOMAIN principals} = {PrincipalOf[q] : q \in Waiting}
  /\ \A q \in Requests :
       /\ stage[q] \in AboutToSleep \cup Asleep \cup {"recovering"} => q \in Waiting
       /\ q \in Waiting => stage[q] \in AboutToSleep \cup Asleep
                              \cup {"inspecting", "scanning", "granted", "leaving", "recovering"}

\* A release or a change whose notification is owed.
RoomOwed == announcing # {} \/ \E q \in Requests : lease[q].phase \in {"settled", "silent"}

\* "Subscribe before inspecting capacity: release/config events in the
\* inspection-to-await gap must never be lost" (waiting.rs): who sleeps because
\* there was no room for it is awake, or will be woken, once there is.
NoLostWakeup ==
  \A w \in Selecting :
    stage[w] = "sleeping" /\ Admissible(w, {}) => Awake(w) \/ RoomOwed

\* A waiter that has to give up at some time sleeps with a timer: also one that
\* began to wait without a deadline and lost that privilege while it slept.
DeadlineIsArmed ==
  \A q \in Waiting :
    /\ stage[q] \in Asleep \cup {"recovering"} /\ HasDeadline(q)
    => q \in armed \/ q \in woken \/ announcing # {}

\* "Principal-fair admission" (admission.rs): while a principal has a waiter
\* that could go, no other principal is served twice before it.
BoundedBypass ==
  \A p, x \in Principals : passed[p][x] <= 1

Granted(q) == stage[q] = "scanning" /\ stage'[q] = "granted"

\* "Oldest-compatible" (admission.rs): an admission passes no older waiter of
\* its principal that could go when the turn was computed, and one that never
\* waited passes nobody who could.
GrantsInOrder ==
  [][\A q \in Requests : Granted(q) =>
       \A w \in section.ready \ {q} :
         /\ q \in Waiting
         /\ PrincipalOf[w] = PrincipalOf[q] => Precedes(q, w)]_vars

\* Nothing will happen before a request arrives or a change is made: every
\* driver sleeps, nobody holds a lease and no notification is owed.
Quiet ==
  /\ announcing = {}
  /\ \A q \in Requests :
       /\ lease[q].phase = "none"
       /\ stage[q] \in Asleep \cup {"gone", "recovering"}
       /\ stage[q] # "gone" => ~Awake(q)

\* "Oldest-compatible, principal-fair admission" (admission.rs): not everybody
\* sleeps behind everybody else while a member is free that one of them may use.
NoStall == Quiet => \A w \in Selecting : ~Admissible(w, {})

\* Among the requests of one principal, whoever waits for capacity is admitted
\* or gives up in the end, without a deadline too: capacity is handed on and no
\* wake-up is lost.
WaitersLeave ==
  \A q \in Requests : q \in Selecting ~> q \notin Selecting

=============================================================================
