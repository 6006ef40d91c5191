------------------------ MODULE TokenRotationProofs ------------------------
(***************************************************************************)
(* What holds of TokenRotation whatever windows are open: the types, who   *)
(* holds the process lock and the mutex of a slot, what a prepared token   *)
(* knows of its slot, and that a deleted account's grants are gone.        *)
(***************************************************************************)
EXTENDS TokenRotation, FiniteSetTheorems, WellFoundedInduction, TLAPS

-----------------------------------------------------------------------------
(* Where the tasks are *)

\* The process lock is held from Load to the adapter's answer, from SaveTokens
\* to the account record, and by a sign-in and a deletion.
LoadStages   == {"recovered", "decide", "send", "wait", "answered", "rotated", "saved"}
SaveStages   == {"saveClear", "saveMeta"}
DeleteStages == {"deleteJournal", "deleteAccount"}
LoginStages  == {"loginAccount", "register", "readBack"}
LockStages   == LoadStages \cup SaveStages \cup DeleteStages \cup {"loginAccount"}

\* A renewal is under way: nothing else changes the slot.
ExchangeStages == LoadStages \cup {"exchange", "returned"}
WriteStages    == SaveStages \cup {"save", "auth"}

RequestStages == Inside \cup {"idle", "slotLock", "prepared", "sent"}
UserStages    == DeleteStages \cup LoginStages \cup {"idle", "edit", "edited"}

\* The task has received a pair; its renewal ended well.
BringsPair(t) ==
  \/ At(t, "answered") /\ task[t].answer = "ok"
  \/ At(t, "rotated")
  \/ At(t, "saved")
Ok(t) == At(t, "returned") /\ task[t].answer = "ok"

\* The slot registered now.
Kept == slot[registered]

\* Where a task may be, and what it carries there.
StageOf(t) ==
  /\ t = User => task[t].pc \in UserStages /\ task[t].slot = 0
  /\ t # User => task[t].pc \in RequestStages /\ (task[t].pc = "idle" <=> task[t].slot = 0)
  /\ task[t].pc \in LoadStages \cup SaveStages \cup LoginStages \cup {"edit", "edited"}
       => task[t].credential \in Credentials
  /\ Ok(t) => task[t].credential \in Credentials
  /\ BringsPair(t) => task[t].other \in Credentials
  /\ task[t].time <= now
StageInv == \A t \in Tasks : StageOf(t)

LockInv == \A t \in Tasks : lock = t <=> task[t].pc \in LockStages

MutexInv == \A t, u \in Requests :
  (task[t].pc \in Inside /\ task[u].pc \in Inside /\ task[t].slot = task[u].slot) => t = u

\* Only a deletion retires a slot, under the process lock.
CurrentInv == \A t \in Requests : task[t].pc \in LoadStages \cup SaveStages => Current(t)

\* A renewal starts when nothing is left to write.
SettledInv == \A t \in Requests :
  (task[t].pc \in ExchangeStages /\ Current(t)) => ~Kept.persistence_pending

Structure == TypeOK /\ StageInv /\ LockInv /\ MutexInv /\ CurrentInv /\ SettledInv

-----------------------------------------------------------------------------
(* Choices *)

\* A nonempty set of natural numbers has a least element.
LEMMA LeastNatural ==
  ASSUME NEW S \in SUBSET Nat, S # {}
  PROVE  \E x \in S : \A y \in S : x <= y
<1> DEFINE Below == {0..x : x \in S}
<1>1. Below \subseteq FiniteSubsetsOf(Nat)
  <2>1. \A x \in S : IsFiniteSet(0..x)
    BY FS_Interval
  <2>2. QED
    BY <2>1 DEF FiniteSubsetsOf
<1>2. Below # {}
  OBVIOUS
<1>3. PICK least \in Below : \A other \in Below :
          ~(<<other, least>> \in StrictSubsetOrdering(Nat))
  BY <1>1, <1>2, FS_StrictSubsetOrderingWellFounded, WFMin
<1>4. PICK x \in S : least = 0..x
  OBVIOUS
<1>5. \A y \in S : x <= y
  <2>1. SUFFICES ASSUME NEW y \in S, y < x PROVE FALSE
    OBVIOUS
  <2>2. 0..y \subseteq 0..x /\ 0..y # 0..x
    BY <2>1
  <2>3. <<0..y, 0..x>> \in StrictSubsetOrdering(Nat)
    BY <2>2 DEF StrictSubsetOrdering
  <2>4. QED
    BY <1>3, <1>4, <2>3
<1>6. QED
  BY <1>5

\* The provider issues a grant that was not issued before.
LEMMA NextGrantIsNew ==
  ASSUME Unissued # {}
  PROVE  NextGrant \in Grants /\ use[NextGrant] = "none"
<1>1. Unissued \in SUBSET Nat
  BY TokenAssumption DEF Unissued, Grants
<1>2. \E g \in Unissued : \A h \in Unissued : g <= h
  BY <1>1, LeastNatural
<1>3. NextGrant \in Unissued
  BY <1>2 DEF NextGrant
<1>4. QED
  BY <1>3 DEF Unissued

\* There are more slots than requests, so an unused one is left for the account.
LEMMA FreeSlotIsFree ==
  ASSUME TypeOK, StageInv, registered = 0
  PROVE  FreeSlot \in Slots /\ FreeSlot # 0 /\ \A t \in Tasks : task[t].slot # FreeSlot
<1> DEFINE used == {task[t].slot : t \in Requests}
           f    == [t \in Requests |-> task[t].slot]
           free == {s \in Slots : s \notin used}
<1>1. IsFiniteSet(used) /\ Cardinality(used) <= Cardinality(Requests)
  <2>1. f \in Surjection(Requests, used)
    BY DEF Surjection
  <2>2. QED
    BY <2>1, FS_Surjection, TokenAssumption
<1>2. Cardinality(Requests) \in Nat
  BY TokenAssumption, FS_CardinalityType
<1>3. IsFiniteSet(Slots) /\ Cardinality(Slots) = Cardinality(Requests) + 1
  BY <1>2, FS_Interval DEF Slots
<1>4. free # {}
  <2>1. SUFFICES ASSUME Slots \subseteq used PROVE FALSE
    OBVIOUS
  <2>2. Cardinality(Slots) <= Cardinality(used)
    BY <1>1, <2>1, FS_Subset
  <2>3. Cardinality(used) \in Nat
    BY <1>1, FS_CardinalityType
  <2>4. QED
    BY <1>1, <1>2, <1>3, <2>2, <2>3
<1>5. free \in SUBSET Nat
  BY <1>2 DEF Slots
<1>6. \A s \in Slots : s \in free <=> (s # registered /\ \A t \in Tasks : task[t].slot # s)
  <2>1. \A s \in Slots : s # 0
    BY <1>2 DEF Slots
  <2>2. QED
    BY <2>1, TokenAssumption DEF StageInv, StageOf, Tasks
<1>7. \E s \in free : \A r \in free : s <= r
  BY <1>4, <1>5, LeastNatural
<1> HIDE DEF free, used, f
<1>8. free \subseteq Slots
  BY DEF free
<1>9. \E s \in Slots : /\ s # registered /\ \A t \in Tasks : task[t].slot # s
                       /\ \A r \in Slots : (r # registered /\ \A t \in Tasks : task[t].slot # r) => s <= r
  BY <1>6, <1>7, <1>8
<1>10. FreeSlot \in Slots /\ FreeSlot # registered /\ \A t \in Tasks : task[t].slot # FreeSlot
  BY <1>9 DEF FreeSlot
<1>11. QED
  BY <1>10
-----------------------------------------------------------------------------
(* What a step makes of its task *)

Others(t) == \A u \in Tasks \ {t} : task'[u] = task[u]

TaskIs(t, pc, s, time, credential, other, answer, sequel) ==
  /\ task' \in [Tasks -> TaskStates]
  /\ Others(t)
  /\ task'[t].pc = pc /\ task'[t].slot = s /\ task'[t].time = time
  /\ task'[t].credential = credential /\ task'[t].other = other
  /\ task'[t].answer = answer /\ task'[t].sequel = sequel

\* Which stages and values there are.
LEMMA Names ==
  /\ Inside \subseteq Stages
  /\ {"idle", "slotLock", "prepared", "sent", "loginAccount", "register", "readBack",
      "deleteJournal", "deleteAccount", "edit", "edited"} \subseteq Stages
  /\ Credentials \subseteq Stored /\ None \in Stored
  BY DEF Stages, Stored

\* A task that does nothing is a task.
LEMMA IdleType == Idle \in TaskStates
  BY Names, TokenAssumption DEF Idle, TaskStates, AuthStates, Answers, Sequels

\* One task is replaced.
LEMMA Replace ==
  ASSUME TypeOK, NEW t \in Tasks, NEW r \in TaskStates, task' = [task EXCEPT ![t] = r]
  PROVE  task' \in [Tasks -> TaskStates] /\ task'[t] = r /\ Others(t)
  BY DEF TypeOK, Others

\* The task moves on and carries the same.
LEMMA GoEffect ==
  ASSUME TypeOK, NEW t \in Tasks, NEW stage \in Stages, Go(t, stage)
  PROVE  TaskIs(t, stage, task[t].slot, task[t].time, task[t].credential, task[t].other,
                task[t].answer, task[t].sequel)
<1> DEFINE r == [task[t] EXCEPT !.pc = stage]
<1>1. task[t] \in TaskStates
  BY DEF TypeOK
<1>2. /\ r \in TaskStates /\ r.pc = stage /\ r.slot = task[t].slot /\ r.time = task[t].time
      /\ r.credential = task[t].credential /\ r.other = task[t].other
      /\ r.answer = task[t].answer /\ r.sequel = task[t].sequel
  BY <1>1 DEF TaskStates
<1>3. task' = [task EXCEPT ![t] = r]
  BY DEF Go
<1> HIDE DEF r
<1>4. QED
  BY <1>2, <1>3, Replace DEF TaskIs

\* A task that leaves is idle; the registered slot keeps its content.
LEMMA LeaveEffect ==
  ASSUME TypeOK, NEW t \in Tasks, NEW sl \in [Slots -> TokenSlots], LeaveWith(t, sl)
  PROVE  /\ TaskIs(t, "idle", 0, 0, None, None, "none", "none")
         /\ slot' \in [Slots -> TokenSlots]
         /\ registered # 0 => slot'[registered] = sl[registered]
         /\ registered' = registered
         /\ superseded' = superseded \ {t}
         /\ lock' = Unlocked(t)
<1>1. TaskIs(t, "idle", 0, 0, None, None, "none", "none")
  <2>1. task' = [task EXCEPT ![t] = Idle]
    BY DEF LeaveWith
  <2>2. task' \in [Tasks -> TaskStates] /\ task'[t] = Idle /\ Others(t)
    BY <2>1, IdleType, Replace
  <2>3. QED
    BY <2>2 DEF TaskIs, Idle
<1>2. EmptySlot \in TokenSlots
  BY DEF EmptySlot, Fresh, TokenSlots, AuthStates, Stored
<1>3. slot' \in [Slots -> TokenSlots]
  BY <1>2 DEF LeaveWith, Dropped
<1>4. registered # 0 => slot'[registered] = sl[registered]
  BY DEF TypeOK, LeaveWith, Dropped
<1>5. QED
  BY <1>1, <1>3, <1>4 DEF LeaveWith

\* The adapter returns with nothing.
LEMMA AnswerEffect ==
  ASSUME TypeOK, NEW t \in Tasks, NEW answer \in Answers, Answer(t, answer)
  PROVE  TaskIs(t, "returned", task[t].slot, task[t].time, None, None, answer, task[t].sequel)
<1> DEFINE r == [task[t] EXCEPT !.pc = "returned", !.answer = answer, !.credential = None, !.other = None]
<1>1. task[t] \in TaskStates /\ "returned" \in Stages /\ None \in Stored
  BY Names DEF TypeOK, Inside
<1>2. /\ r \in TaskStates /\ r.pc = "returned" /\ r.slot = task[t].slot /\ r.time = task[t].time
      /\ r.credential = None /\ r.other = None
      /\ r.answer = answer /\ r.sequel = task[t].sequel
  BY <1>1 DEF TaskStates
<1>3. task' = [task EXCEPT ![t] = r]
  BY DEF Answer
<1> HIDE DEF r
<1>4. QED
  BY <1>2, <1>3, Replace DEF TaskIs

\* The adapter returns with a credential.
LEMMA AnswerOkEffect ==
  ASSUME TypeOK, NEW t \in Tasks, NEW c \in Stored, AnswerOk(t, c)
  PROVE  TaskIs(t, "returned", task[t].slot, task[t].time, c, None, "ok", task[t].sequel)
<1> DEFINE r == [task[t] EXCEPT !.pc = "returned", !.answer = "ok", !.credential = c, !.other = None]
<1>1. task[t] \in TaskStates /\ "returned" \in Stages /\ None \in Stored /\ "ok" \in Answers
  BY Names DEF TypeOK, Inside, Answers
<1>2. /\ r \in TaskStates /\ r.pc = "returned" /\ r.slot = task[t].slot /\ r.time = task[t].time
      /\ r.credential = c /\ r.other = None
      /\ r.answer = "ok" /\ r.sequel = task[t].sequel
  BY <1>1 DEF TaskStates
<1>3. task' = [task EXCEPT ![t] = r]
  BY DEF AnswerOk
<1> HIDE DEF r
<1>4. QED
  BY <1>2, <1>3, Replace DEF TaskIs

\* The request has the tokens and nothing else.
LEMMA HandOverEffect ==
  ASSUME TypeOK, NEW t \in Tasks, NEW c \in Stored, HandOver(t, c)
  PROVE  TaskIs(t, "prepared", task[t].slot, 0, c, None, "none", "none")
<1> DEFINE r == [Idle EXCEPT !.pc = "prepared", !.slot = task[t].slot, !.credential = c]
<1>1. task[t] \in TaskStates /\ "prepared" \in Stages
  BY Names DEF TypeOK
<1>2. task[t].slot \in Slots \cup {0}
  BY <1>1 DEF TaskStates
<1>3. r \in TaskStates
  BY <1>1, <1>2, IdleType DEF TaskStates
<1>4. /\ r.pc = "prepared" /\ r.slot = task[t].slot /\ r.time = 0
      /\ r.credential = c /\ r.other = None
      /\ r.answer = "none" /\ r.sequel = "none"
  BY DEF Idle
<1>5. task' = [task EXCEPT ![t] = r]
  BY DEF HandOver
<1> HIDE DEF r
<1>6. QED
  BY <1>3, <1>4, <1>5, Replace DEF TaskIs

\* What a step makes of the registered slot.
KeptIs(tokens, auth, pending) ==
  /\ registered' = registered
  /\ slot' \in [Slots -> TokenSlots]
  /\ registered # 0 => /\ slot'[registered].tokens = tokens
                       /\ slot'[registered].auth_state = auth
                       /\ slot'[registered].persistence_pending = pending
KeptStays == KeptIs(Kept.tokens, Kept.auth_state, Kept.persistence_pending)

\* The registered slot is as it was when the memory is.
LEMMA MemoryStays ==
  ASSUME TypeOK, UNCHANGED <<registered, slot>>
  PROVE  KeptStays
  BY DEF TypeOK, KeptStays, KeptIs, Kept

\* A task leaves and changes no slot.
LEMMA LeaveKeeps ==
  ASSUME TypeOK, NEW t \in Tasks, Leave(t)
  PROVE  /\ TaskIs(t, "idle", 0, 0, None, None, "none", "none")
         /\ KeptStays
         /\ superseded' = superseded \ {t}
         /\ lock' = Unlocked(t)
<1>1. slot \in [Slots -> TokenSlots] /\ LeaveWith(t, slot)
  BY DEF TypeOK, Leave
<1>2. QED
  BY <1>1, LeaveEffect DEF KeptStays, KeptIs, Kept

\* The slot of a task is replaced; it may be the registered one.
LEMMA SetSlotEffect ==
  ASSUME TypeOK, NEW s \in Slots, NEW r \in TokenSlots, SetSlot(s, r), registered' = registered
  PROVE  KeptIs(IF registered = s THEN r.tokens ELSE Kept.tokens,
                IF registered = s THEN r.auth_state ELSE Kept.auth_state,
                IF registered = s THEN r.persistence_pending ELSE Kept.persistence_pending)
<1>1. slot' \in [Slots -> TokenSlots]
  BY DEF TypeOK, SetSlot
<1>2. registered # 0 => slot'[registered] = IF registered = s THEN r ELSE Kept
  BY DEF TypeOK, SetSlot, Kept
<1>3. QED
  BY <1>1, <1>2 DEF KeptIs

\* The slot a request refers to, with another state.
LEMMA SetStateEffect ==
  ASSUME TypeOK, NEW t \in Requests, task[t].slot \in Slots, NEW auth \in AuthStates,
         NEW pending \in BOOLEAN,
         SetSlot(task[t].slot, [MySlot(t) EXCEPT !.auth_state = auth, !.auth_pending = pending]),
         registered' = registered
  PROVE  KeptIs(Kept.tokens, IF Current(t) THEN auth ELSE Kept.auth_state, Kept.persistence_pending)
<1> DEFINE r == [MySlot(t) EXCEPT !.auth_state = auth, !.auth_pending = pending]
<1>1. MySlot(t) \in TokenSlots
  BY DEF TypeOK, MySlot
<1>2. /\ r \in TokenSlots /\ r.tokens = MySlot(t).tokens /\ r.auth_state = auth
      /\ r.persistence_pending = MySlot(t).persistence_pending
  BY <1>1 DEF TokenSlots
<1> HIDE DEF r
<1>3. SetSlot(task[t].slot, r)
  BY DEF r
<1>4. registered = task[t].slot => MySlot(t) = Kept
  BY DEF MySlot, Kept
<1>5. QED
  BY <1>2, <1>3, <1>4, SetSlotEffect DEF Current, KeptIs

\* A request starts with the registered slot and the time.
LEMMA PrepareStartEffect ==
  ASSUME TypeOK, NEW t \in Requests, PrepareStart(t)
  PROVE  TaskIs(t, "slotLock", registered, now, task[t].credential, task[t].other,
                task[t].answer, task[t].sequel)
<1> DEFINE r == [task[t] EXCEPT !.pc = "slotLock", !.slot = registered, !.time = now]
<1>1. t \in Tasks /\ task[t] \in TaskStates /\ "slotLock" \in Stages
      /\ registered \in Slots \cup {0} /\ now \in 0..MaxTime
  BY Names DEF TypeOK, Tasks
<1>2. /\ r \in TaskStates /\ r.pc = "slotLock" /\ r.slot = registered /\ r.time = now
      /\ r.credential = task[t].credential /\ r.other = task[t].other
      /\ r.answer = task[t].answer /\ r.sequel = task[t].sequel
  BY <1>1 DEF TaskStates
<1>3. task' = [task EXCEPT ![t] = r]
  BY DEF PrepareStart
<1> HIDE DEF r
<1>4. QED
  BY <1>1, <1>2, <1>3, Replace DEF TaskIs

\* A write is begun: the stage and what follows it.
LEMMA SequelEffect ==
  ASSUME TypeOK, NEW t \in Tasks, NEW stage \in Stages, NEW sequel \in Sequels,
         task' = [task EXCEPT ![t].sequel = sequel, ![t].pc = stage]
  PROVE  TaskIs(t, stage, task[t].slot, task[t].time, task[t].credential, task[t].other,
                task[t].answer, sequel)
<1> DEFINE r == [task[t] EXCEPT !.sequel = sequel, !.pc = stage]
<1>1. task[t] \in TaskStates
  BY DEF TypeOK
<1>2. /\ r \in TaskStates /\ r.pc = stage /\ r.slot = task[t].slot /\ r.time = task[t].time
      /\ r.credential = task[t].credential /\ r.other = task[t].other
      /\ r.answer = task[t].answer /\ r.sequel = sequel
  BY <1>1 DEF TaskStates
<1>3. task' = [task EXCEPT ![t] = r]
  OBVIOUS
<1> HIDE DEF r
<1>4. QED
  BY <1>2, <1>3, Replace DEF TaskIs

\* A renewal starts: the slot is marked Refreshing.
LEMMA StartRefreshEffect ==
  ASSUME TypeOK, NEW t \in Requests, task[t].slot \in Slots, StartRefresh(t)
  PROVE  /\ TaskIs(t, "exchange", task[t].slot, task[t].time, task[t].credential, task[t].other,
                   task[t].answer, "none")
         /\ KeptIs(Kept.tokens, IF Current(t) THEN "Refreshing" ELSE Kept.auth_state,
                   Kept.persistence_pending)
<1> DEFINE r == [task[t] EXCEPT !.pc = "exchange", !.sequel = "none", !.previous = MySlot(t).auth_state]
           q == [MySlot(t) EXCEPT !.auth_state = "Refreshing"]
<1>1. t \in Tasks /\ task[t] \in TaskStates /\ "exchange" \in Stages /\ MySlot(t) \in TokenSlots
  BY Names DEF TypeOK, Tasks, Inside, MySlot
<1>2. MySlot(t).auth_state \in AuthStates /\ "none" \in Sequels /\ "Refreshing" \in AuthStates
  BY <1>1 DEF TokenSlots, Sequels, AuthStates
<1>3. /\ r \in TaskStates /\ r.pc = "exchange" /\ r.slot = task[t].slot /\ r.time = task[t].time
      /\ r.credential = task[t].credential /\ r.other = task[t].other
      /\ r.answer = task[t].answer /\ r.sequel = "none"
  BY <1>1, <1>2 DEF TaskStates
<1>4. task' = [task EXCEPT ![t] = r]
  BY DEF StartRefresh
<1>5. /\ q \in TokenSlots /\ q.tokens = MySlot(t).tokens /\ q.auth_state = "Refreshing"
      /\ q.persistence_pending = MySlot(t).persistence_pending
  BY <1>1, <1>2 DEF TokenSlots
<1>6. SetSlot(task[t].slot, q) /\ registered' = registered
  BY DEF StartRefresh
<1> HIDE DEF r, q
<1>7. registered = task[t].slot => MySlot(t) = Kept
  BY DEF MySlot, Kept
<1>8. QED
  BY <1>1, <1>3, <1>4, <1>5, <1>6, <1>7, Replace, SetSlotEffect DEF TaskIs, Current, KeptIs

\* The adapter goes on with a credential.
LEMMA CarryEffect ==
  ASSUME TypeOK, NEW t \in Tasks, NEW stage \in Stages, NEW c \in Stored,
         task' = [task EXCEPT ![t].pc = stage, ![t].credential = c]
  PROVE  TaskIs(t, stage, task[t].slot, task[t].time, c, task[t].other, task[t].answer, task[t].sequel)
<1> DEFINE r == [task[t] EXCEPT !.pc = stage, !.credential = c]
<1>1. task[t] \in TaskStates
  BY DEF TypeOK
<1>2. /\ r \in TaskStates /\ r.pc = stage /\ r.slot = task[t].slot /\ r.time = task[t].time
      /\ r.credential = c /\ r.other = task[t].other
      /\ r.answer = task[t].answer /\ r.sequel = task[t].sequel
  BY <1>1 DEF TaskStates
<1>3. task' = [task EXCEPT ![t] = r]
  OBVIOUS
<1> HIDE DEF r
<1>4. QED
  BY <1>2, <1>3, Replace DEF TaskIs

\* The pair that answers task t.
Pair(t) == [grant |-> NextGrant, issued_at |-> task[t].time,
            generation |-> task[t].credential.generation + 1, cut |-> FALSE,
            proxy |-> task[t].credential.proxy]

\* The request has the pair the provider sent.
LEMMA ProviderRotatesEffect ==
  ASSUME TypeOK, NEW t \in Requests, task[t].credential \in Credentials, ProviderRotates(t)
  PROVE  /\ Pair(t) \in Credentials
         /\ TaskIs(t, "answered", task[t].slot, task[t].time, task[t].credential, Pair(t), "ok",
                   task[t].sequel)
<1> DEFINE o == Pair(t)
           r == [task[t] EXCEPT !.pc = "answered", !.answer = "ok", !.other = o]
<1>1. t \in Tasks /\ task[t] \in TaskStates /\ "answered" \in Stages /\ "ok" \in Answers
  BY Names DEF TypeOK, Tasks, Inside, Answers
<1>2. NextGrant \in Grants /\ task[t].time \in 0..MaxTime
  BY <1>1, NextGrantIsNew DEF ProviderRotates, TaskStates
<1>3. o \in Credentials
  BY <1>2 DEF Credentials, Pair
<1>4. task' = [task EXCEPT ![t].pc = "answered", ![t].answer = "ok", ![t].other = o]
  BY DEF ProviderRotates, Pair
<1> HIDE DEF o
<1>5. task' = [task EXCEPT ![t] = r]
  BY <1>4
<1>6. /\ r \in TaskStates /\ r.pc = "answered" /\ r.slot = task[t].slot /\ r.time = task[t].time
      /\ r.credential = task[t].credential /\ r.other = o
      /\ r.answer = "ok" /\ r.sequel = task[t].sequel
  BY <1>1, <1>3, Names DEF TaskStates
<1> HIDE DEF r
<1>7. QED
  BY <1>1, <1>3, <1>5, <1>6, Replace DEF TaskIs, o

\* The request learns of a refusal, and of nothing else that happened.
LEMMA ProviderFailsOutcome ==
  ASSUME NEW t \in Requests, ProviderFails(t)
  PROVE  \E outcome \in {"refused", "fresh", "lost"}, answer \in {"refused", "transient"} :
           /\ use' = [use EXCEPT ![task[t].credential.grant] = outcome]
           /\ task' = [task EXCEPT ![t].pc = "answered", ![t].answer = answer]
<1>1. PICK outcome \in {"refused", "fresh", "lost"} :
        /\ use' = [use EXCEPT ![task[t].credential.grant] = outcome]
        /\ task' = [task EXCEPT ![t].pc = "answered",
                      ![t].answer = IF outcome = "refused" THEN "refused" ELSE "transient"]
  BY DEF ProviderFails
<1>2. CASE outcome = "refused"
  BY <1>1, <1>2
<1>3. CASE outcome # "refused"
  BY <1>1, <1>3
<1>4. QED
  BY <1>2, <1>3

\* The request has the provider's refusal or its failure.
LEMMA ProviderFailsEffect ==
  ASSUME TypeOK, NEW t \in Requests, NEW answer \in {"refused", "transient"},
         task' = [task EXCEPT ![t].pc = "answered", ![t].answer = answer]
  PROVE  TaskIs(t, "answered", task[t].slot, task[t].time, task[t].credential, task[t].other, answer,
                task[t].sequel)
<1> DEFINE r == [task[t] EXCEPT !.pc = "answered", !.answer = answer]
<1>1. t \in Tasks /\ task[t] \in TaskStates /\ "answered" \in Stages /\ answer \in Answers
  BY Names DEF TypeOK, Tasks, Inside, Answers
<1>2. /\ r \in TaskStates /\ r.pc = "answered" /\ r.slot = task[t].slot /\ r.time = task[t].time
      /\ r.credential = task[t].credential /\ r.other = task[t].other
      /\ r.answer = answer /\ r.sequel = task[t].sequel
  BY <1>1 DEF TaskStates
<1>3. task' = [task EXCEPT ![t] = r]
  OBVIOUS
<1> HIDE DEF r
<1>4. QED
  BY <1>1, <1>2, <1>3, Replace DEF TaskIs

\* A write of the slot is begun by a task that forgets the rest.
LEMMA RestartEffect ==
  ASSUME TypeOK, NEW t \in Tasks, NEW stage \in Stages, NEW sequel \in Sequels,
         task' = [task EXCEPT ![t] = [Idle EXCEPT !.pc = stage, !.sequel = sequel, !.slot = task[t].slot]]
  PROVE  TaskIs(t, stage, task[t].slot, 0, None, None, "none", sequel)
<1> DEFINE r == [Idle EXCEPT !.pc = stage, !.sequel = sequel, !.slot = task[t].slot]
<1>1. task[t].slot \in Slots \cup {0}
  BY DEF TypeOK, TaskStates
<1>2. r \in TaskStates
  BY <1>1, IdleType DEF TaskStates
<1>3. /\ r.pc = stage /\ r.slot = task[t].slot /\ r.time = 0
      /\ r.credential = None /\ r.other = None
      /\ r.answer = "none" /\ r.sequel = sequel
  BY DEF Idle
<1>4. task' = [task EXCEPT ![t] = r]
  OBVIOUS
<1> HIDE DEF r
<1>5. QED
  BY <1>2, <1>3, <1>4, Replace DEF TaskIs

\* The tokens a renewal puts into the slot.
Renewed(t) == [grant |-> task[t].credential.grant, issued_at |-> task[t].time,
               generation |-> Kept.tokens.generation + 1, cut |-> FALSE, proxy |-> FALSE]

\* The renewed tokens are in the slot, still to be written.
LEMMA InstallRefreshedEffect ==
  ASSUME TypeOK, NEW t \in Requests, task[t].slot \in Slots, task[t].credential \in Credentials,
         InstallRefreshed(t)
  PROVE  /\ Renewed(t) \in Credentials
         /\ TaskIs(t, "save", task[t].slot, 0, None, None, "none", "refreshed")
         /\ KeptIs(Renewed(t), "Active", TRUE)
<1> DEFINE n == Renewed(t)
           q == [MySlot(t) EXCEPT !.tokens = n, !.auth_state = "Active", !.persistence_pending = TRUE]
<1>1. registered = task[t].slot /\ MySlot(t) = Kept /\ Kept \in TokenSlots /\ registered # 0
  BY TokenAssumption, FS_CardinalityType DEF TypeOK, InstallRefreshed, Current, MySlot, Kept, Slots
<1>2. Kept.tokens \in Credentials /\ task[t].time \in 0..MaxTime
  BY <1>1 DEF TypeOK, Kept, TaskStates, Tasks
<1>3. n \in Credentials
  BY <1>2 DEF Credentials, Renewed
<1>4. SetSlot(task[t].slot, q) /\ registered' = registered
  BY <1>1 DEF InstallRefreshed, Renewed
<1> HIDE DEF n
<1>5. q \in TokenSlots /\ q.tokens = n /\ q.auth_state = "Active" /\ q.persistence_pending = TRUE
  BY <1>1, <1>3, Names DEF TokenSlots, AuthStates
<1> HIDE DEF q
<1>6. KeptIs(n, "Active", TRUE)
  BY <1>1, <1>4, <1>5, SetSlotEffect DEF KeptIs
<1>7. task' = [task EXCEPT ![t] = [Idle EXCEPT !.pc = "save", !.sequel = "refreshed", !.slot = task[t].slot]]
  BY DEF InstallRefreshed
<1>8. t \in Tasks /\ "save" \in Stages /\ "refreshed" \in Sequels
  BY Names DEF Tasks, Inside, Sequels
<1>9. QED
  BY <1>3, <1>6, <1>7, <1>8, RestartEffect DEF n

\* The slot waits for a sign-in, still to be written.
LEMMA InstallReauthEffect ==
  ASSUME TypeOK, NEW t \in Requests, task[t].slot \in Slots, InstallReauth(t)
  PROVE  /\ TaskIs(t, "auth", task[t].slot, 0, None, None, "none", "reauth")
         /\ KeptIs(Kept.tokens, "Reauth", Kept.persistence_pending)
<1>1. Current(t) /\ registered' = registered /\ "Reauth" \in AuthStates /\ TRUE \in BOOLEAN
      /\ SetSlot(task[t].slot, [MySlot(t) EXCEPT !.auth_state = "Reauth", !.auth_pending = TRUE])
  BY DEF InstallReauth, AuthStates
<1>2. KeptIs(Kept.tokens, "Reauth", Kept.persistence_pending)
  BY <1>1, SetStateEffect
<1>3. task' = [task EXCEPT ![t] = [Idle EXCEPT !.pc = "auth", !.sequel = "reauth", !.slot = task[t].slot]]
  BY DEF InstallReauth
<1>4. t \in Tasks /\ "auth" \in Stages /\ "reauth" \in Sequels
  BY Names DEF Tasks, Inside, Sequels
<1>5. QED
  BY <1>2, <1>3, <1>4, RestartEffect

\* The request gives up; its slot has the state it had before.
LEMMA DropResultEffect ==
  ASSUME TypeOK, NEW t \in Requests, task[t].slot \in Slots, DropResult(t)
  PROVE  /\ TaskIs(t, "idle", 0, 0, None, None, "none", "none")
         /\ KeptIs(Kept.tokens, IF Current(t) THEN task[t].previous ELSE Kept.auth_state,
                   Kept.persistence_pending)
         /\ superseded' = superseded \ {t}
         /\ lock' = Unlocked(t)
<1>1. t \in Tasks
  BY DEF Tasks
<1>2. CASE ~Current(t) /\ Leave(t)
  BY <1>1, <1>2, LeaveKeeps DEF KeptStays
<1>3. CASE Current(t) /\ LeaveWith(t, [slot EXCEPT ![task[t].slot].auth_state = task[t].previous])
  <2> DEFINE sl == [slot EXCEPT ![task[t].slot].auth_state = task[t].previous]
             q  == [MySlot(t) EXCEPT !.auth_state = task[t].previous]
  <2>1. MySlot(t) \in TokenSlots /\ task[t].previous \in AuthStates /\ MySlot(t) = Kept
    BY <1>1, <1>3 DEF TypeOK, MySlot, Kept, Current, TaskStates
  <2>2. /\ q \in TokenSlots /\ q.tokens = Kept.tokens /\ q.auth_state = task[t].previous
        /\ q.persistence_pending = Kept.persistence_pending
    BY <2>1 DEF TokenSlots
  <2>3. sl = [slot EXCEPT ![task[t].slot] = q]
    BY DEF MySlot
  <2> HIDE DEF q
  <2>4. sl \in [Slots -> TokenSlots] /\ sl[task[t].slot] = q
    BY <2>2, <2>3 DEF TypeOK
  <2> HIDE DEF sl
  <2>5. LeaveWith(t, sl)
    BY <1>3 DEF sl
  <2>6. QED
    BY <1>1, <1>3, <2>2, <2>4, <2>5, LeaveEffect DEF KeptIs, Current
<1>4. QED
  BY <1>2, <1>3 DEF DropResult

\* What SaveTokens leaves in the store.
Merged == IF Newer(Kept.tokens, primary) THEN [Kept.tokens EXCEPT !.proxy = primary.proxy] ELSE primary

\* The newer of slot and store is stored, or the request leaves.
LEMMA SaveTokensEffect ==
  ASSUME TypeOK, NEW t \in Requests, task[t].slot \in Slots, SaveTokens(t)
  PROVE  \/ /\ Current(t) /\ primary # None /\ registered # 0
            /\ Merged \in Credentials /\ primary' = Merged /\ lock' = t /\ UNCHANGED memory
            /\ TaskIs(t, "saveClear", task[t].slot, task[t].time, Merged, task[t].other,
                      task[t].answer, task[t].sequel)
         \/ ~(Current(t) /\ primary # None) /\ Leave(t) /\ UNCHANGED primary
<1>1. t \in Tasks /\ "saveClear" \in Stages /\ 0 \notin Slots
  BY Names, TokenAssumption, FS_CardinalityType DEF Tasks, Inside, Slots
<1>2. CASE Current(t) /\ primary # None
  <2>1. MySlot(t) = Kept /\ registered # 0 /\ Kept.tokens \in Credentials /\ primary \in Credentials
    BY <1>1, <1>2 DEF Current, MySlot, Kept, TypeOK, Stored
  <2>2. Merged \in Credentials
    <3>1. [Kept.tokens EXCEPT !.proxy = primary.proxy] \in Credentials
      BY <2>1 DEF Credentials
    <3>2. QED
      BY <2>1, <3>1 DEF Merged
  <2>3. /\ primary' = Merged /\ lock' = t /\ UNCHANGED memory
        /\ task' = [task EXCEPT ![t].pc = "saveClear", ![t].credential = Merged]
    BY <1>2, <2>1 DEF SaveTokens, Merged
  <2>4. Merged \in Stored
    BY <2>2 DEF Stored
  <2>5. QED
    BY <1>1, <1>2, <2>1, <2>2, <2>3, <2>4, CarryEffect
<1>3. CASE ~(Current(t) /\ primary # None)
  BY <1>3 DEF SaveTokens
<1>4. QED
  BY <1>2, <1>3

\* The tokens are written: on to the state, or to the end.
LEMMA AfterSaveEffect ==
  ASSUME TypeOK, NEW t \in Requests, task[t].slot \in Slots, AfterSave(t), Current(t)
  PROVE  /\ KeptIs(Kept.tokens, Kept.auth_state, FALSE)
         /\ lock' = Unlocked(t)
         /\ \/ /\ task[t].sequel # "invalidated"
               /\ superseded' = superseded
               /\ TaskIs(t, IF task[t].sequel = "pending" THEN "entered" ELSE "auth", task[t].slot,
                         task[t].time, None, task[t].other, task[t].answer, task[t].sequel)
            \/ /\ superseded' = superseded \ {t}
               /\ TaskIs(t, "idle", 0, 0, None, None, "none", "none")
<1> DEFINE s == task[t].slot
           pending == Kept.auth_pending \/ task[t].sequel # "invalidated"
           q == [Kept EXCEPT !.persistence_pending = FALSE, !.auth_pending = pending]
           written == [slot EXCEPT ![s].persistence_pending = FALSE,
                              ![s].auth_pending = @ \/ task[t].sequel # "invalidated"]
<1>1. t \in Tasks /\ Kept \in TokenSlots /\ registered = s /\ registered # 0
  BY TokenAssumption, FS_CardinalityType DEF Tasks, TypeOK, Current, Kept, Slots
<1>2. pending \in BOOLEAN
  BY <1>1 DEF TokenSlots
<1>3. written = [slot EXCEPT ![s] = q]
  BY <1>1 DEF TypeOK, Kept
<1> HIDE DEF pending
<1>4. /\ q \in TokenSlots /\ q.tokens = Kept.tokens /\ q.auth_state = Kept.auth_state
      /\ q.persistence_pending = FALSE
  BY <1>1, <1>2 DEF TokenSlots
<1> HIDE DEF q
<1>5. written \in [Slots -> TokenSlots] /\ written[registered] = q
  BY <1>1, <1>3, <1>4 DEF TypeOK
<1>6. CASE task[t].sequel # "invalidated"
  <2> DEFINE stage == IF task[t].sequel = "pending" THEN "entered" ELSE "auth"
  <2>1. /\ slot' = written
        /\ task' = [task EXCEPT ![t].credential = None, ![t].pc = stage]
        /\ lock' = Unlocked(t) /\ UNCHANGED <<registered, superseded>>
    BY <1>6 DEF AfterSave
  <2>2. stage \in Stages
    BY Names DEF Inside
  <2> DEFINE r == [task[t] EXCEPT !.credential = None, !.pc = stage]
  <2> HIDE DEF written, stage
  <2>3. task[t] \in TaskStates /\ None \in Stored
    BY <1>1, Names DEF TypeOK
  <2>4. /\ r \in TaskStates /\ r.pc = stage /\ r.slot = task[t].slot /\ r.time = task[t].time
        /\ r.credential = None /\ r.other = task[t].other
        /\ r.answer = task[t].answer /\ r.sequel = task[t].sequel
    BY <2>2, <2>3 DEF TaskStates
  <2>5. task' = [task EXCEPT ![t] = r]
    BY <2>1
  <2> HIDE DEF r
  <2>6. TaskIs(t, stage, task[t].slot, task[t].time, None, task[t].other, task[t].answer, task[t].sequel)
    BY <1>1, <2>4, <2>5, Replace DEF TaskIs
  <2>7. KeptIs(Kept.tokens, Kept.auth_state, FALSE)
    BY <1>4, <1>5, <2>1 DEF KeptIs
  <2>8. QED
    BY <1>6, <2>1, <2>6, <2>7 DEF stage
<1>7. CASE task[t].sequel = "invalidated"
  <2>1. LeaveWith(t, written)
    BY <1>7 DEF AfterSave
  <2> HIDE DEF written
  <2>2. QED
    BY <1>1, <1>4, <1>5, <2>1, LeaveEffect DEF KeptIs
<1>8. QED
  BY <1>6, <1>7

\* The state is written: on to what the request came for, or to the end.
LEMMA AfterAuthEffect ==
  ASSUME TypeOK, NEW t \in Requests, task[t].slot \in Slots, AfterAuth(t), Current(t),
         lock # t
  PROVE  /\ KeptStays
         /\ lock' = lock
         /\ \/ /\ task[t].sequel = "pending"
               /\ superseded' = superseded
               /\ TaskIs(t, "entered", task[t].slot, task[t].time, task[t].credential, task[t].other,
                         task[t].answer, task[t].sequel)
            \/ /\ task[t].sequel = "refreshed"
               /\ superseded' = superseded
               /\ TaskIs(t, "prepared", task[t].slot, 0, Kept.tokens, None, "none", "none")
            \/ /\ superseded' = superseded \ {t}
               /\ TaskIs(t, "idle", 0, 0, None, None, "none", "none")
<1> DEFINE s == task[t].slot
           q == [Kept EXCEPT !.auth_pending = FALSE]
           written == [slot EXCEPT ![s].auth_pending = FALSE]
<1>1. t \in Tasks /\ Kept \in TokenSlots /\ registered = s /\ registered # 0 /\ MySlot(t) = Kept
  BY TokenAssumption, FS_CardinalityType DEF Tasks, TypeOK, Current, Kept, Slots, MySlot
<1>2. /\ q \in TokenSlots /\ q.tokens = Kept.tokens /\ q.auth_state = Kept.auth_state
      /\ q.persistence_pending = Kept.persistence_pending
  BY <1>1 DEF TokenSlots
<1>3. written = [slot EXCEPT ![s] = q]
  BY <1>1 DEF TypeOK, Kept
<1> HIDE DEF q
<1>4. written \in [Slots -> TokenSlots] /\ written[registered] = q
  BY <1>1, <1>2, <1>3 DEF TypeOK
<1>5. Kept.tokens \in Stored
  BY <1>1 DEF TokenSlots
<1>6. CASE task[t].sequel = "pending"
  <2>1. slot' = written /\ Go(t, "entered") /\ UNCHANGED <<lock, registered, superseded>>
    BY <1>6 DEF AfterAuth
  <2> HIDE DEF written
  <2>2. "entered" \in Stages
    BY Names DEF Inside
  <2>3. QED
    BY <1>1, <1>2, <1>4, <1>6, <2>1, <2>2, GoEffect DEF KeptIs, KeptStays
<1>7. CASE task[t].sequel = "refreshed"
  <2>1. slot' = written /\ HandOver(t, Kept.tokens) /\ UNCHANGED <<lock, registered, superseded>>
    BY <1>1, <1>7 DEF AfterAuth
  <2> HIDE DEF written
  <2>2. QED
    BY <1>1, <1>2, <1>4, <1>5, <1>7, <2>1, HandOverEffect DEF KeptIs, KeptStays
<1>8. CASE task[t].sequel # "pending" /\ task[t].sequel # "refreshed"
  <2>1. LeaveWith(t, written)
    BY <1>8 DEF AfterAuth
  <2> HIDE DEF written
  <2>2. QED
    BY <1>1, <1>2, <1>4, <2>1, LeaveEffect DEF KeptIs, KeptStays, Unlocked
<1>9. QED
  BY <1>6, <1>7, <1>8

\* The tokens a rejection puts into the slot.
Rejected == [Kept.tokens EXCEPT !.cut = TRUE, !.issued_at = now,
                                !.generation = Kept.tokens.generation + 1]

\* The tokens in the slot are cut, still to be written.
LEMMA InvalidateEffect ==
  ASSUME TypeOK, NEW t \in Requests, task[t].slot \in Slots, Invalidate(t), GuardHolds(t)
  PROVE  /\ Rejected \in Credentials
         /\ TaskIs(t, "save", task[t].slot, task[t].time, None, task[t].other, task[t].answer,
                   "invalidated")
         /\ KeptIs(Rejected, Kept.auth_state, TRUE)
         /\ Bump(task[t].slot) /\ lock' = lock
<1> DEFINE n == Rejected
           q == [Kept EXCEPT !.tokens = n, !.persistence_pending = TRUE]
           r == [task[t] EXCEPT !.pc = "save", !.sequel = "invalidated", !.credential = None]
<1>1. /\ t \in Tasks /\ registered = task[t].slot /\ MySlot(t) = Kept /\ Kept \in TokenSlots
      /\ registered # 0 /\ Kept.tokens \in Credentials /\ now \in 0..MaxTime /\ task[t] \in TaskStates
  BY TokenAssumption, FS_CardinalityType DEF Tasks, TypeOK, GuardHolds, Current, MySlot, Kept, Slots
<1>2. n \in Credentials
  <2>1. Kept.tokens.generation + 1 \in Nat
    BY <1>1 DEF Credentials
  <2>2. QED
    BY <1>1, <2>1 DEF Credentials, Rejected
<1>3. /\ SetSlot(task[t].slot, [Kept EXCEPT !.tokens.cut = TRUE, !.tokens.issued_at = now,
                                            !.tokens.generation = @ + 1, !.persistence_pending = TRUE])
      /\ task' = [task EXCEPT ![t].pc = "save", ![t].sequel = "invalidated", ![t].credential = None]
      /\ Bump(task[t].slot) /\ UNCHANGED <<lock, registered>>
  BY <1>1 DEF Invalidate
<1>4. [Kept EXCEPT !.tokens.cut = TRUE, !.tokens.issued_at = now,
                   !.tokens.generation = @ + 1, !.persistence_pending = TRUE] = q
  BY <1>1 DEF Rejected, TokenSlots, Credentials
<1> HIDE DEF n
<1>5. /\ q \in TokenSlots /\ q.tokens = n /\ q.auth_state = Kept.auth_state
      /\ q.persistence_pending = TRUE
  BY <1>1, <1>2, Names DEF TokenSlots
<1> HIDE DEF q
<1>6. KeptIs(n, Kept.auth_state, TRUE)
  BY <1>1, <1>3, <1>4, <1>5, SetSlotEffect DEF KeptIs
<1>7. "save" \in Stages /\ "invalidated" \in Sequels /\ None \in Stored
  BY Names DEF Inside, Sequels
<1>8. /\ r \in TaskStates /\ r.pc = "save" /\ r.slot = task[t].slot /\ r.time = task[t].time
      /\ r.credential = None /\ r.other = task[t].other
      /\ r.answer = task[t].answer /\ r.sequel = "invalidated"
  BY <1>1, <1>7 DEF TaskStates
<1>9. task' = [task EXCEPT ![t] = r]
  BY <1>3
<1> HIDE DEF r
<1>10. QED
  BY <1>1, <1>2, <1>3, <1>6, <1>8, <1>9, Replace DEF TaskIs, n

\* A sign-in is begun.
NewLogin == [grant |-> NextGrant, generation |-> LoginGeneration, issued_at |-> now,
             cut |-> FALSE, proxy |-> primary # None /\ primary.proxy]

\* The generation of a sign-in is above those of the record and the store.
LEMMA LoginGenerationType ==
  ASSUME TypeOK
  PROVE  /\ LoginGeneration \in Nat
         /\ primary # None => primary.generation < LoginGeneration
<1> DEFINE known == {0} \cup (IF account = None THEN {} ELSE {account.generation})
                        \cup (IF primary = None THEN {} ELSE {primary.generation})
           up == CHOOSE n \in known : \A m \in known : m <= n
<1>1. primary # None => primary.generation \in Nat
  BY DEF TypeOK, Stored, Credentials
<1>2. account # None => account.generation \in Nat
  BY DEF TypeOK, Accounts
<1>3. known \subseteq Nat
  BY <1>1, <1>2
<1>4. \E n \in known : \A m \in known : m <= n
  <2> DEFINE a == IF account = None THEN 0 ELSE account.generation
             b == IF primary = None THEN 0 ELSE primary.generation
             top == IF a <= b THEN b ELSE a
  <2>1. a \in Nat /\ b \in Nat
    BY <1>1, <1>2
  <2>2. top \in known \/ (top = 0 /\ 0 \in known)
    OBVIOUS
  <2>3. \A m \in known : m = 0 \/ m = a \/ m = b
    OBVIOUS
  <2> HIDE DEF known, a, b
  <2>4. \A m \in known : m <= top
    BY <2>1, <2>3
  <2>5. QED
    BY <2>2, <2>4
<1>5. up \in known /\ \A m \in known : m <= up
  BY <1>4
<1>6. primary # None => primary.generation \in known
  OBVIOUS
<1>7. LoginGeneration = 1 + up
  BY DEF LoginGeneration
<1> HIDE DEF known, up
<1>8. QED
  BY <1>1, <1>3, <1>5, <1>6, <1>7

\* A sign-in is stored, and what it replaced remembered.
LEMMA CommitLoginEffect ==
  ASSUME TypeOK, CommitLogin
  PROVE  /\ NewLogin \in Credentials /\ primary' = NewLogin
         /\ TaskIs(User, "loginAccount", task[User].slot, task[User].time, NewLogin, primary,
                   task[User].answer, task[User].sequel)
<1> DEFINE n == NewLogin
           r == [task[User] EXCEPT !.pc = "loginAccount", !.credential = n, !.other = primary]
<1>1. /\ User \in Tasks /\ task[User] \in TaskStates /\ "loginAccount" \in Stages
      /\ primary \in Stored /\ now \in 0..MaxTime
  BY Names DEF TypeOK, Tasks
<1>2. NextGrant \in Grants /\ LoginGeneration \in Nat
  BY NextGrantIsNew, LoginGenerationType DEF CommitLogin
<1>3. (primary # None /\ primary.proxy) \in BOOLEAN
  BY <1>1 DEF Stored, Credentials
<1>4. n \in Credentials
  BY <1>1, <1>2, <1>3 DEF Credentials, NewLogin
<1>5. /\ primary' = n
      /\ task' = [task EXCEPT ![User].pc = "loginAccount", ![User].credential = n, ![User].other = primary]
  BY DEF CommitLogin, NewLogin
<1> HIDE DEF n
<1>6. /\ r \in TaskStates /\ r.pc = "loginAccount" /\ r.slot = task[User].slot /\ r.time = task[User].time
      /\ r.credential = n /\ r.other = primary
      /\ r.answer = task[User].answer /\ r.sequel = task[User].sequel
  BY <1>1, <1>4, Names DEF TaskStates
<1>7. task' = [task EXCEPT ![User] = r]
  BY <1>5
<1> HIDE DEF r
<1>8. QED
  BY <1>1, <1>4, <1>5, <1>6, <1>7, Replace DEF TaskIs, n

\* The user's commands replace what they remember, or forget it.
LEMMA RememberEffect ==
  ASSUME TypeOK, NEW t \in Tasks, NEW stage \in Stages, NEW c \in Stored,
         task' = [task EXCEPT ![t].pc = stage, ![t].other = c]
  PROVE  TaskIs(t, stage, task[t].slot, task[t].time, task[t].credential, c, task[t].answer,
                task[t].sequel)
<1> DEFINE r == [task[t] EXCEPT !.pc = stage, !.other = c]
<1>1. task[t] \in TaskStates
  BY DEF TypeOK
<1>2. /\ r \in TaskStates /\ r.pc = stage /\ r.slot = task[t].slot /\ r.time = task[t].time
      /\ r.credential = task[t].credential /\ r.other = c
      /\ r.answer = task[t].answer /\ r.sequel = task[t].sequel
  BY <1>1 DEF TaskStates
<1>3. task' = [task EXCEPT ![t] = r]
  OBVIOUS
<1> HIDE DEF r
<1>4. QED
  BY <1>2, <1>3, Replace DEF TaskIs

\* The task is idle again.
LEMMA ForgetEffect ==
  ASSUME TypeOK, NEW t \in Tasks, task' = [task EXCEPT ![t] = Idle]
  PROVE  TaskIs(t, "idle", 0, 0, None, None, "none", "none")
<1>1. task' \in [Tasks -> TaskStates] /\ task'[t] = Idle /\ Others(t)
  BY IdleType, Replace
<1>2. QED
  BY <1>1 DEF TaskIs, Idle

\* The settings are not part of the tokens.
LEMMA TokenSetType ==
  ASSUME NEW c \in Credentials
  PROVE  /\ TokenSet(c) \in Credentials
         /\ TokenSet(c).grant = c.grant /\ TokenSet(c).generation = c.generation
         /\ TokenSet(c).issued_at = c.issued_at /\ TokenSet(c).cut = c.cut
         /\ TokenSet(c).proxy = FALSE
  BY DEF TokenSet, Credentials

\* A new slot has the tokens, and nothing to write.
LEMMA FreshType ==
  ASSUME NEW c \in Credentials, NEW auth \in AuthStates
  PROVE  /\ Fresh(TokenSet(c), auth) \in TokenSlots
         /\ Fresh(TokenSet(c), auth).tokens = TokenSet(c)
         /\ Fresh(TokenSet(c), auth).auth_state = auth
         /\ Fresh(TokenSet(c), auth).persistence_pending = FALSE
<1>1. TokenSet(c) \in Stored
  BY TokenSetType, Names
<1> DEFINE d == TokenSet(c)
<1> HIDE DEF d
<1>2. d \in Stored => /\ Fresh(d, auth) \in TokenSlots
                      /\ Fresh(d, auth).tokens = d
                      /\ Fresh(d, auth).auth_state = auth
                      /\ Fresh(d, auth).persistence_pending = FALSE
  BY DEF Fresh, TokenSlots
<1>3. QED
  BY <1>1, <1>2 DEF d

\* The account gets a slot no task refers to.
LEMMA InsertSlotEffect ==
  ASSUME TypeOK, StageInv, registered = 0, NEW c \in Credentials, NEW auth \in AuthStates,
         InsertSlot(c, auth)
  PROVE  /\ registered' \in Slots /\ registered' # 0 /\ \A t \in Tasks : task[t].slot # registered'
         /\ slot' \in [Slots -> TokenSlots]
         /\ Kept'.tokens = TokenSet(c) /\ Kept'.auth_state = auth /\ Kept'.persistence_pending = FALSE
<1> DEFINE q == Fresh(TokenSet(c), auth)
<1>1. q \in TokenSlots /\ q.tokens = TokenSet(c) /\ q.auth_state = auth /\ q.persistence_pending = FALSE
  BY FreshType
<1>2. registered' = FreeSlot /\ slot' = [slot EXCEPT ![FreeSlot] = q]
  BY DEF InsertSlot, SetSlot
<1> HIDE DEF q
<1>3. FreeSlot \in Slots /\ FreeSlot # 0 /\ \A t \in Tasks : task[t].slot # FreeSlot
  BY FreeSlotIsFree
<1>4. slot' \in [Slots -> TokenSlots] /\ slot'[FreeSlot] = q
  BY <1>1, <1>2, <1>3 DEF TypeOK
<1>5. QED
  BY <1>1, <1>2, <1>3, <1>4 DEF Kept

-----------------------------------------------------------------------------
(* Who holds what *)

\* Everything a task holds is at its own disposal.
LEMMA StageStep ==
  ASSUME StageInv, NEW t \in Tasks, Others(t), now' >= now, now \in Int, now' \in Int, StageOf(t)',
         task \in [Tasks -> TaskStates]
  PROVE  StageInv'
<1>1. SUFFICES ASSUME NEW u \in Tasks, u # t PROVE StageOf(u)'
  BY DEF StageInv
<1>2. task'[u] = task[u] /\ StageOf(u)
  BY <1>1 DEF Others, StageInv
<1>3. task[u].time \in Int
  BY TokenAssumption DEF TaskStates
<1>4. QED
  BY <1>2, <1>3 DEF StageOf, Ok, BringsPair, At

\* The lock stays with its owner, is taken when it is free, or is dropped.
LEMMA LockStep ==
  ASSUME LockInv, NEW t \in Tasks, Others(t),
         \/ lock' = lock /\ (task'[t].pc \in LockStages <=> task[t].pc \in LockStages)
         \/ LockFree /\ lock' = t /\ task'[t].pc \in LockStages
         \/ lock' = Unlocked(t) /\ task'[t].pc \notin LockStages
  PROVE  LockInv'
<1> USE TokenAssumption DEF LockInv, Others, LockFree, Unlocked
<1>1. SUFFICES ASSUME NEW u \in Tasks PROVE lock' = u <=> task'[u].pc \in LockStages
  OBVIOUS
<1>2. CASE u = t
  BY <1>2
<1>3. CASE u # t
  BY <1>3
<1>4. QED
  BY <1>2, <1>3

\* A slot's mutex stays with its owner, or is taken when it is free.
LEMMA MutexStep ==
  ASSUME MutexInv, NEW t \in Tasks, Others(t), t = User \/ t \in Requests,
         task'[t].pc \in Inside =>
           \/ task[t].pc \in Inside /\ task'[t].slot = task[t].slot
           \/ SlotFree(task'[t].slot),
         t = User => task'[t].pc \notin Inside
  PROVE  MutexInv'
<1>1. SUFFICES ASSUME NEW u \in Requests, NEW v \in Requests, u # v,
                      task'[u].pc \in Inside, task'[v].pc \in Inside, task'[u].slot = task'[v].slot
               PROVE  FALSE
  BY DEF MutexInv
<1>2. u \in Tasks /\ v \in Tasks
  BY DEF Tasks
<1>3. CASE u # t /\ v # t
  BY <1>1, <1>2, <1>3 DEF Others, MutexInv
<1>4. ASSUME NEW w \in Requests, w # t, w \in Tasks, task'[w].pc \in Inside,
             t \in Requests, task'[t].pc \in Inside, task'[t].slot = task'[w].slot
      PROVE  FALSE
  <2>1. task[w].pc \in Inside /\ task[w].slot = task'[t].slot
    BY <1>4 DEF Others
  <2>2. CASE task[t].pc \in Inside /\ task'[t].slot = task[t].slot
    BY <1>4, <2>1, <2>2 DEF MutexInv
  <2>3. CASE SlotFree(task'[t].slot)
    BY <1>4, <2>1, <2>3 DEF SlotFree
  <2>4. QED
    BY <1>4, <2>2, <2>3
<1>5. QED
  BY <1>1, <1>2, <1>3, <1>4

\* A slot stays registered while the adapter holds the lock for it.
LEMMA CurrentStep ==
  ASSUME CurrentInv, NEW t \in Tasks, Others(t), registered' = registered,
         t \in Requests /\ task'[t].pc \in LoadStages \cup SaveStages => registered = task'[t].slot
  PROVE  CurrentInv'
<1>1. SUFFICES ASSUME NEW u \in Requests, task'[u].pc \in LoadStages \cup SaveStages
               PROVE  registered' = task'[u].slot
  BY DEF CurrentInv, Current
<1>2. u \in Tasks
  BY DEF Tasks
<1>3. CASE u = t
  BY <1>1, <1>3
<1>4. CASE u # t
  BY <1>1, <1>2, <1>4 DEF Others, CurrentInv, Current
<1>5. QED
  BY <1>3, <1>4

\* A renewal keeps its slot settled as long as nobody else writes to it.
LEMMA SettledStep ==
  ASSUME SettledInv, MutexInv, NEW t \in Tasks, Others(t), registered' = registered,
         t = User \/ t \in Requests, t = User => task[t].pc \notin Inside,
         \/ Kept.persistence_pending' = Kept.persistence_pending
         \/ Kept.persistence_pending' = FALSE
         \/ SlotFree(registered)
         \/ registered = 0
         \/ t # User /\ task[t].pc \in Inside /\ task[t].slot = registered,
         \A u \in Requests : task[u].slot = 0 => task[u].pc \notin ExchangeStages,
         t # User /\ task'[t].pc \in ExchangeStages /\ registered = task'[t].slot
            => Kept.persistence_pending' = FALSE
  PROVE  SettledInv'
<1>1. SUFFICES ASSUME NEW u \in Requests, u # t, task'[u].pc \in ExchangeStages,
                      registered' = task'[u].slot
               PROVE  Kept.persistence_pending' = FALSE
  BY TokenAssumption DEF SettledInv, Current
<1>2. u \in Tasks
  BY DEF Tasks
<1>3. task[u].pc \in ExchangeStages /\ registered = task[u].slot /\ task[u].pc \in Inside
  BY <1>1, <1>2 DEF Others, ExchangeStages, LoadStages, Inside
<1>4. ~Kept.persistence_pending /\ ~SlotFree(registered) /\ registered # 0
  BY <1>2, <1>3 DEF SettledInv, Current, SlotFree
<1>5. ~(t # User /\ task[t].pc \in Inside /\ task[t].slot = registered)
  BY <1>1, <1>3 DEF MutexInv
<1>6. QED
  BY <1>4, <1>5

\* What holds of a request that has started.
LEMMA Started ==
  ASSUME Structure, NEW t \in Requests, task[t].pc # "idle"
  PROVE  /\ t \in Tasks /\ t # User
         /\ task[t] \in TaskStates /\ task[t].time \in 0..MaxTime /\ task[t].time <= now
         /\ now \in 0..MaxTime /\ task[t].slot \in Slots /\ task[t].slot # 0
         /\ registered \in Slots \cup {0}
         /\ registered # 0 => Kept.tokens \in Credentials
         /\ Current(t) => registered # 0 /\ MySlot(t) = Kept
         /\ StageOf(t)
<1>1. t \in Tasks /\ t # User /\ TypeOK /\ StageOf(t)
  BY TokenAssumption DEF Structure, Tasks, StageInv
<1>2. /\ task[t] \in TaskStates /\ now \in 0..MaxTime
      /\ registered \in Slots \cup {0}
      /\ registered # 0 => Kept.tokens \in Credentials
  BY <1>1 DEF TypeOK, Kept
<1>3. task[t].time \in 0..MaxTime /\ task[t].slot \in Slots \cup {0}
  BY <1>2 DEF TaskStates
<1>4. task[t].slot # 0 /\ task[t].time <= now
  BY <1>1 DEF StageOf
<1>5. Current(t) => registered # 0 /\ MySlot(t) = Kept
  BY <1>4 DEF Current, MySlot, Kept
<1>6. QED
  BY <1>1, <1>2, <1>3, <1>4, <1>5

\* What a step may make of the request that takes it.
Moves(t) ==
  /\ task' \in [Tasks -> TaskStates] /\ Others(t)
  /\ task'[t].pc \in RequestStages /\ (task'[t].pc = "idle" <=> task'[t].slot = 0)
  /\ task'[t].time <= now
  /\ task'[t].pc \in LoadStages \cup SaveStages =>
       task'[t].credential \in Credentials /\ registered = task'[t].slot
  /\ Ok(t)' => task'[t].credential \in Credentials
  /\ BringsPair(t)' => task'[t].other \in Credentials
  /\ \/ lock' = lock /\ (task'[t].pc \in LockStages <=> task[t].pc \in LockStages)
     \/ LockFree /\ lock' = t /\ task'[t].pc \in LockStages
     \/ lock' = Unlocked(t) /\ task'[t].pc \notin LockStages
  /\ task'[t].pc \in Inside =>
       \/ task[t].pc \in Inside /\ task'[t].slot = task[t].slot
       \/ SlotFree(task'[t].slot)

\* And of the write the registered slot waits for.
KeepsSettled(t) ==
  /\ \/ Kept.persistence_pending' = Kept.persistence_pending
     \/ Kept.persistence_pending' = FALSE
     \/ SlotFree(registered)
     \/ registered = 0
     \/ task[t].pc \in Inside /\ task[t].slot = registered
  /\ task'[t].pc \in ExchangeStages /\ registered = task'[t].slot => Kept.persistence_pending' = FALSE

\* A step of one request that keeps the registration.
LEMMA RequestStep ==
  ASSUME Structure, NEW t \in Requests, Moves(t), KeepsSettled(t), TypeOK', now' = now,
         registered' = registered
  PROVE  Structure'
<1>1. t \in Tasks /\ t # User /\ Others(t) /\ TypeOK /\ now \in Int /\ task \in [Tasks -> TaskStates]
  BY TokenAssumption DEF Tasks, Moves, Structure, TypeOK
<1>2. StageOf(t)'
  BY <1>1 DEF Moves, StageOf, RequestStages, Inside, LoginStages
<1>3. StageInv'
  BY <1>1, <1>2, StageStep DEF Structure
<1>4. LockInv'
  BY <1>1, LockStep DEF Structure, Moves
<1>5. MutexInv'
  BY <1>1, MutexStep DEF Structure, Moves
<1>6. CurrentInv'
  BY <1>1, CurrentStep DEF Structure, Moves
<1>7. SettledInv'
  <2>1. \A u \in Requests : task[u].slot = 0 => task[u].pc \notin ExchangeStages
    BY TokenAssumption DEF Structure, StageInv, StageOf, Tasks, ExchangeStages, LoadStages
  <2>2. QED
    BY <1>1, <2>1, SettledStep DEF Structure, KeepsSettled
<1>8. QED
  BY <1>3, <1>4, <1>5, <1>6, <1>7 DEF Structure

\* The clock stands still, and the counters keep within their bounds.
Steady ==
  /\ now' = now
  /\ buried' \subseteq Grants
  /\ edits' \in Nat /\ faults' \in Nat /\ crashes' \in Nat
  /\ edits' + faults' + crashes' <= MaxMishaps

\* So they do when nothing counts.
LEMMA BoundsStay ==
  ASSUME TypeOK, UNCHANGED bounds
  PROVE  Steady
  BY DEF TypeOK, bounds, Steady

\* And when one fault is counted.
LEMMA FaultCounts ==
  ASSUME TypeOK, MayFail, faults' = faults + 1, UNCHANGED <<now, buried, edits, crashes>>
  PROVE  Steady
  BY TokenAssumption DEF TypeOK, MayFail, Steady

\* Types hold of what a step leaves alone.
LEMMA TypeStep ==
  ASSUME TypeOK, primary' \in Stored, rotation' \in Checkpoints \cup {None},
         account' \in Accounts \cup {None}, lock' \in Tasks \cup {Nobody, Dead},
         slot' \in [Slots -> TokenSlots], registered' = registered,
         registered # 0 => Kept.tokens' \in Credentials, superseded' \subseteq Requests,
         task' \in [Tasks -> TaskStates],
         use' \in [Grants -> {"none", "fresh", "flying", "spent", "refused", "lost", "unknown"}],
         Steady
  PROVE  TypeOK'
  BY DEF TypeOK, Steady, Kept

\* The lock names its owner or nobody after it is dropped.
LEMMA UnlockedType ==
  ASSUME TypeOK, NEW t \in Tasks
  PROVE  Unlocked(t) \in Tasks \cup {Nobody, Dead}
  BY DEF TypeOK, Unlocked

\* A step of one request that leaves the store, the grants and the clock alone,
\* and the tokens and pending write of the slot.
LEMMA QuietStep ==
  ASSUME Structure, NEW t \in Requests, Moves(t), UNCHANGED <<durable, use>>, Steady,
         superseded' \subseteq Requests, NEW auth,
         KeptIs(Kept.tokens, auth, Kept.persistence_pending),
         task'[t].pc \in ExchangeStages /\ registered = task'[t].slot => Kept.persistence_pending = FALSE
  PROVE  Structure'
<1>1. /\ t \in Tasks /\ TypeOK /\ registered' = registered /\ task' \in [Tasks -> TaskStates]
      /\ now' = now
  BY DEF Tasks, Structure, Moves, KeptIs, Steady
<1>2. lock' \in Tasks \cup {Nobody, Dead}
  BY <1>1, UnlockedType DEF TypeOK, Moves
<1>3. /\ registered # 0 => Kept.tokens \in Credentials
      /\ registered # 0 => Kept.tokens' = Kept.tokens
      /\ registered # 0 => Kept.persistence_pending' = Kept.persistence_pending
  BY <1>1 DEF TypeOK, Kept, KeptIs
<1>4. TypeOK'
  <2>1. UNCHANGED <<primary, rotation, account, use>>
    BY DEF durable
  <2>2. QED
    BY <1>1, <1>2, <1>3, <2>1, TypeStep DEF TypeOK, KeptIs
<1>5. task'[t].pc \in ExchangeStages => task'[t].slot # 0
  BY DEF ExchangeStages, LoadStages, Moves
<1>6. KeepsSettled(t)
  BY <1>3, <1>5 DEF KeepsSettled
<1>7. QED
  BY <1>1, <1>4, <1>6, RequestStep

\* A request that leaves lets go of all it holds.
LEMMA LeaveMoves ==
  ASSUME Structure, NEW t \in Requests, TaskIs(t, "idle", 0, 0, None, None, "none", "none"),
         lock' = Unlocked(t)
  PROVE  Moves(t) /\ task'[t].pc \notin ExchangeStages
<1>1. now \in 0..MaxTime
  BY DEF Structure, TypeOK
<1>2. QED
  BY <1>1, TokenAssumption DEF TaskIs, Moves, RequestStages, Inside, LockStages, LoadStages, SaveStages,
                               DeleteStages, ExchangeStages, Ok, BringsPair, At

\* A request that leaves drops what it holds.
LEMMA LeaveStructure ==
  ASSUME Structure, NEW t \in Requests, Leave(t), UNCHANGED <<durable, use, bounds>>
  PROVE  Structure'
<1>1. t \in Tasks /\ TypeOK /\ superseded \subseteq Requests
  BY DEF Structure, TypeOK, Tasks
<1>2. /\ TaskIs(t, "idle", 0, 0, None, None, "none", "none") /\ KeptStays
      /\ superseded' = superseded \ {t} /\ lock' = Unlocked(t)
  BY <1>1, LeaveKeeps
<1>3. Moves(t) /\ task'[t].pc \notin ExchangeStages
  BY <1>2, LeaveMoves
<1>4. QED
  BY <1>1, <1>2, <1>3, BoundsStay, QuietStep DEF KeptStays

\* Only requests are told of a bump.
LEMMA BumpType ==
  ASSUME TypeOK, NEW s, Bump(s)
  PROVE  superseded' \subseteq Requests
  BY DEF TypeOK, Bump

-----------------------------------------------------------------------------
(* prepare_inner *)

\* A request starts outside every lock.
LEMMA PrepareStartStructure ==
  ASSUME Structure, NEW t \in Requests, PrepareStart(t)
  PROVE  Structure'
<1>1. /\ TypeOK /\ UNCHANGED <<durable, lock, memory, use, bounds>> /\ registered # 0
      /\ task[t].pc = "idle" /\ now \in 0..MaxTime /\ superseded' \subseteq Requests
  BY DEF PrepareStart, At, Structure, TypeOK, memory
<1>2. KeptStays
  BY <1>1, MemoryStays DEF memory
<1>3. now <= now
  BY <1>1, TokenAssumption
<1>4. TaskIs(t, "slotLock", registered, now, task[t].credential, task[t].other, task[t].answer,
             task[t].sequel)
  BY <1>1, PrepareStartEffect
<1>5. Moves(t) /\ task'[t].pc \notin ExchangeStages
  BY <1>1, <1>3, <1>4 DEF TaskIs, Moves, RequestStages, Inside, LockStages, LoadStages, SaveStages,
                          DeleteStages, ExchangeStages, Ok, BringsPair, At
<1>6. QED
  BY <1>1, <1>2, <1>5, BoundsStay, QuietStep DEF KeptStays

\* A request takes the mutex of its slot when nobody has it.
LEMMA EnterSlotStructure ==
  ASSUME Structure, NEW t \in Requests, EnterSlot(t)
  PROVE  Structure'
<1>1. /\ TypeOK /\ UNCHANGED <<durable, use, bounds>> /\ task[t].pc = "slotLock" /\ SlotFree(task[t].slot)
      /\ superseded \subseteq Requests
  BY DEF EnterSlot, At, Structure, TypeOK
<1>2. /\ t \in Tasks /\ task[t].slot # 0 /\ task[t].time <= now
  BY <1>1, Started
<1>3. CASE Current(t)
  <2>1. Go(t, "entered") /\ UNCHANGED <<lock, memory>> /\ superseded' \subseteq Requests
    BY <1>1, <1>3 DEF EnterSlot, memory
  <2>2. KeptStays
    BY <1>1, <2>1, MemoryStays DEF memory
  <2>3. TaskIs(t, "entered", task[t].slot, task[t].time, task[t].credential, task[t].other,
               task[t].answer, task[t].sequel)
    BY <1>1, <1>2, <2>1, Names, GoEffect DEF Inside
  <2>4. Moves(t) /\ task'[t].pc \notin ExchangeStages
    BY <1>1, <1>2, <2>1, <2>3 DEF TaskIs, Moves, RequestStages, Inside, LockStages, LoadStages, SaveStages,
                                  DeleteStages, ExchangeStages, Ok, BringsPair, At
  <2>5. QED
    BY <1>1, <2>1, <2>2, <2>4, BoundsStay, QuietStep DEF KeptStays
<1>4. CASE ~Current(t)
  BY <1>1, <1>4, LeaveStructure DEF EnterSlot
<1>5. QED
  BY <1>3, <1>4

\* What is pending is written under the mutex the request has.
LEMMA WritePendingStructure ==
  ASSUME Structure, NEW t \in Requests, WritePending(t)
  PROVE  Structure'
<1>1. /\ TypeOK /\ UNCHANGED <<durable, lock, memory, use, bounds>> /\ task[t].pc = "entered"
      /\ superseded' \subseteq Requests
  BY DEF WritePending, At, Structure, TypeOK, memory
<1>2. t \in Tasks /\ task[t].slot # 0 /\ task[t].time <= now
  BY <1>1, Started
<1>3. KeptStays
  BY <1>1, MemoryStays DEF memory
<1>4. PICK stage \in {"save", "auth"} :
        task' = [task EXCEPT ![t].sequel = "pending", ![t].pc = stage]
  BY DEF WritePending
<1>5. TaskIs(t, stage, task[t].slot, task[t].time, task[t].credential, task[t].other,
             task[t].answer, "pending")
  BY <1>1, <1>2, <1>4, Names, SequelEffect DEF Inside, Sequels
<1>6. Moves(t) /\ task'[t].pc \notin ExchangeStages
  BY <1>1, <1>2, <1>5 DEF TaskIs, Moves, RequestStages, Inside, LockStages, LoadStages,
                          SaveStages, DeleteStages, ExchangeStages, Ok, BringsPair, At
<1>7. QED
  BY <1>1, <1>3, <1>6, BoundsStay, QuietStep DEF KeptStays

\* So is the state that an older release stored.
LEMMA HealReusedStructure ==
  ASSUME Structure, NEW t \in Requests, HealReused(t)
  PROVE  Structure'
<1>1. /\ TypeOK /\ UNCHANGED <<durable, lock, registered, use, bounds>> /\ task[t].pc = "entered"
      /\ superseded' \subseteq Requests
  BY BumpType DEF HealReused, At, Structure
<1>2. t \in Tasks /\ task[t].slot # 0 /\ task[t].slot \in Slots /\ task[t].time <= now
  BY <1>1, Started
<1>3. KeptIs(Kept.tokens, IF Current(t) THEN "Active" ELSE Kept.auth_state, Kept.persistence_pending)
  BY <1>1, <1>2, SetStateEffect DEF HealReused, AuthStates
<1>4. task' = [task EXCEPT ![t].sequel = "pending", ![t].pc = "auth"]
  BY DEF HealReused
<1>5. TaskIs(t, "auth", task[t].slot, task[t].time, task[t].credential, task[t].other,
             task[t].answer, "pending")
  BY <1>1, <1>2, <1>4, Names, SequelEffect DEF Inside, Sequels
<1>6. Moves(t) /\ task'[t].pc \notin ExchangeStages
  BY <1>1, <1>2, <1>5 DEF TaskIs, Moves, RequestStages, Inside, LockStages, LoadStages,
                          SaveStages, DeleteStages, ExchangeStages, Ok, BringsPair, At
<1>7. QED
  BY <1>1, <1>3, <1>6, BoundsStay, QuietStep

\* A refused request leaves.
LEMMA RefusePreparationStructure ==
  ASSUME Structure, NEW t \in Requests, RefusePreparation(t)
  PROVE  Structure'
  BY LeaveStructure DEF RefusePreparation

\* A request with usable tokens lets go of the mutex.
LEMMA PrepareReadyStructure ==
  ASSUME Structure, NEW t \in Requests, PrepareReady(t)
  PROVE  Structure'
<1>1. /\ TypeOK /\ UNCHANGED <<durable, lock, memory, use, bounds>> /\ task[t].pc = "entered"
      /\ superseded' \subseteq Requests /\ now \in 0..MaxTime
  BY DEF PrepareReady, At, Structure, TypeOK, memory
<1>2. t \in Tasks /\ task[t].slot # 0 /\ task[t].slot \in Slots /\ 0 <= now
  BY <1>1, Started, TokenAssumption
<1>3. KeptStays
  BY <1>1, MemoryStays DEF memory
<1>4. MySlot(t).tokens \in Stored
  BY <1>1, <1>2 DEF TypeOK, MySlot, TokenSlots
<1>5. TaskIs(t, "prepared", task[t].slot, 0, MySlot(t).tokens, None, "none", "none")
  BY <1>1, <1>2, <1>4, HandOverEffect DEF PrepareReady
<1>6. Moves(t) /\ task'[t].pc \notin ExchangeStages
  BY <1>1, <1>2, <1>5 DEF TaskIs, Moves, RequestStages, Inside, LockStages, LoadStages,
                          SaveStages, DeleteStages, ExchangeStages, Ok, BringsPair, At
<1>7. QED
  BY <1>1, <1>3, <1>6, BoundsStay, QuietStep DEF KeptStays

\* A renewal starts when nothing is left to write.
LEMMA StartRefreshStructure ==
  ASSUME Structure, NEW t \in Requests, StartRefresh(t)
  PROVE  Structure'
<1>1. /\ TypeOK /\ UNCHANGED <<durable, lock, registered, use, bounds>> /\ task[t].pc = "entered"
      /\ superseded' \subseteq Requests /\ ~MySlot(t).persistence_pending
  BY BumpType DEF StartRefresh, At, Structure, Settled
<1>2. /\ t \in Tasks /\ task[t].slot # 0 /\ task[t].slot \in Slots /\ task[t].time <= now
      /\ Current(t) => MySlot(t) = Kept
  BY <1>1, Started
<1>3. /\ TaskIs(t, "exchange", task[t].slot, task[t].time, task[t].credential, task[t].other,
                task[t].answer, "none")
      /\ KeptIs(Kept.tokens, IF Current(t) THEN "Refreshing" ELSE Kept.auth_state,
                Kept.persistence_pending)
  BY <1>1, <1>2, StartRefreshEffect
<1>4. Kept.persistence_pending \in BOOLEAN \/ registered = 0
  BY <1>1 DEF TypeOK, Kept, TokenSlots
<1>5. Moves(t)
  BY <1>1, <1>2, <1>3 DEF TaskIs, Moves, RequestStages, Inside, LockStages, LoadStages,
                          SaveStages, DeleteStages, ExchangeStages, Ok, BringsPair, At
<1>6. registered = task'[t].slot => Kept.persistence_pending = FALSE
  BY <1>1, <1>2, <1>3, <1>4 DEF TaskIs, Current
<1>7. QED
  BY <1>1, <1>3, <1>5, <1>6, BoundsStay, QuietStep

-----------------------------------------------------------------------------
(* refresh_inner *)

\* A step that writes: to the store, the journal, the record or the ledger.
LEMMA WriteStep ==
  ASSUME Structure, NEW t \in Requests, Moves(t),
         primary' \in Stored, rotation' \in Checkpoints \cup {None},
         account' \in Accounts \cup {None},
         use' \in [Grants -> {"none", "fresh", "flying", "spent", "refused", "lost", "unknown"}],
         Steady, superseded' \subseteq Requests,
         NEW auth, NEW pending \in {Kept.persistence_pending, FALSE}, KeptIs(Kept.tokens, auth, pending),
         task'[t].pc \in ExchangeStages /\ registered = task'[t].slot => pending = FALSE
  PROVE  Structure'
<1>1. /\ t \in Tasks /\ TypeOK /\ registered' = registered /\ task' \in [Tasks -> TaskStates]
      /\ now' = now
  BY DEF Tasks, Structure, Moves, KeptIs, Steady
<1>2. lock' \in Tasks \cup {Nobody, Dead}
  BY <1>1, UnlockedType DEF TypeOK, Moves
<1>3. /\ registered # 0 => Kept.tokens \in Credentials
      /\ registered # 0 => Kept.tokens' = Kept.tokens
      /\ registered # 0 => Kept.persistence_pending' = pending
  BY <1>1 DEF TypeOK, Kept, KeptIs
<1>4. TypeOK'
  BY <1>1, <1>2, <1>3, TypeStep DEF KeptIs
<1>5. task'[t].pc \in ExchangeStages => task'[t].slot # 0
  BY DEF ExchangeStages, LoadStages, Moves
<1>6. KeepsSettled(t)
  BY <1>3, <1>5 DEF KeepsSettled
<1>7. QED
  BY <1>1, <1>4, <1>6, RequestStep

\* A step of the adapter, which leaves the slots alone.
LEMMA AdapterStep ==
  ASSUME Structure, NEW t \in Requests, Moves(t),
         primary' \in Stored, rotation' \in Checkpoints \cup {None}, account' = account,
         use' \in [Grants -> {"none", "fresh", "flying", "spent", "refused", "lost", "unknown"}],
         UNCHANGED memory, Steady, task[t].pc \in ExchangeStages, task'[t].slot = task[t].slot
  PROVE  Structure'
<1>1. TypeOK /\ SettledInv /\ superseded' \subseteq Requests /\ UNCHANGED <<registered, slot>>
      /\ account' \in Accounts \cup {None}
  BY DEF Structure, TypeOK, memory
<1>2. KeptStays
  BY <1>1, MemoryStays
<1>3. registered = 0 \/ Kept.persistence_pending \in BOOLEAN
  BY <1>1 DEF TypeOK, Kept, TokenSlots
<1>4. registered = task[t].slot => Kept.persistence_pending = FALSE
  <2>1. task[t].slot # 0
    BY Started DEF ExchangeStages, LoadStages
  <2>2. QED
    BY <1>1, <1>3, <2>1 DEF SettledInv, Current
<1>5. QED
  BY <1>1, <1>2, <1>4, WriteStep DEF KeptStays

\* The adapter takes the process lock, or returns without it.
LEMMA LoadStructure ==
  ASSUME Structure, NEW t \in Requests, Load(t)
  PROVE  Structure'
<1>1. /\ TypeOK /\ UNCHANGED <<memory, use, bounds>> /\ task[t].pc = "exchange" /\ LockFree
      /\ primary \in Stored /\ rotation \in Checkpoints \cup {None}
      /\ use \in [Grants -> {"none", "fresh", "flying", "spent", "refused", "lost", "unknown"}]
  BY DEF Load, At, Structure, TypeOK
<1>2. /\ t \in Tasks /\ task[t].slot # 0 /\ task[t].slot \in Slots /\ task[t].time <= now
      /\ task[t].pc \in ExchangeStages
  BY <1>1, Started DEF ExchangeStages
<1>3. ASSUME NEW answer \in {"transient", "recovery"}, Answer(t, answer), UNCHANGED durable
      PROVE  Structure'
  <2>1. TaskIs(t, "returned", task[t].slot, task[t].time, None, None, answer, task[t].sequel)
        /\ lock' = Unlocked(t) /\ UNCHANGED <<primary, rotation, account>>
    BY <1>1, <1>2, <1>3, AnswerEffect DEF Answers, Answer, durable
  <2>2. Moves(t)
    BY <1>1, <1>2, <2>1 DEF TaskIs, Moves, RequestStages, Inside, LockStages, LoadStages,
                            SaveStages, DeleteStages, ExchangeStages, Ok, BringsPair, At
  <2>3. task'[t].slot = task[t].slot
    BY <2>1 DEF TaskIs
  <2>4. QED
    BY <1>1, <1>2, <2>1, <2>2, <2>3, BoundsStay, AdapterStep
<1>4. CASE Current(t) /\ primary # None /\ LoadStored(t)
  <2>1. primary \in Credentials
    BY <1>1, <1>4 DEF Stored
  <2>2. TaskIs(t, "decide", task[t].slot, task[t].time, primary, task[t].other, task[t].answer,
               task[t].sequel)
    BY <1>1, <1>2, <1>4, Names, CarryEffect DEF LoadStored, Inside
  <2>3. lock' = t /\ rotation' = None /\ primary' = primary /\ account' = account
    BY <1>4 DEF LoadStored
  <2>4. Moves(t)
    BY <1>1, <1>2, <1>4, <2>1, <2>2, <2>3 DEF TaskIs, Moves, RequestStages, Inside, LockStages,
                                              LoadStages, SaveStages, DeleteStages,
                                              ExchangeStages, Ok, BringsPair, At, Current
  <2>5. task'[t].slot = task[t].slot
    BY <2>2 DEF TaskIs
  <2>6. QED
    BY <1>1, <1>2, <2>3, <2>4, <2>5, BoundsStay, AdapterStep
<1>5. CASE Current(t) /\ primary # None /\ RecoverRotation(t)
  <2>1. /\ primary' = [rotation.after EXCEPT !.proxy = primary.proxy]
        /\ task' = [task EXCEPT ![t].pc = "recovered", ![t].credential = primary']
        /\ rotation.after # None /\ rotation # None
        /\ lock' = t /\ rotation' = rotation /\ account' = account
    BY <1>5 DEF RecoverRotation, Recoverable, NoCheckpoint
  <2>2. rotation.after \in Credentials /\ primary \in Credentials
    BY <1>1, <1>5, <2>1 DEF Stored, Checkpoints
  <2>3. primary' \in Credentials
    BY <2>1, <2>2 DEF Credentials
  <2>4. TaskIs(t, "recovered", task[t].slot, task[t].time, primary', task[t].other, task[t].answer,
               task[t].sequel)
    BY <1>1, <1>2, <2>1, <2>3, Names, CarryEffect DEF Inside
  <2>5. Moves(t)
    BY <1>1, <1>2, <1>5, <2>1, <2>3, <2>4 DEF TaskIs, Moves, RequestStages, Inside, LockStages,
                                              LoadStages, SaveStages, DeleteStages,
                                              ExchangeStages, Ok, BringsPair, At, Current
  <2>6. task'[t].slot = task[t].slot
    BY <2>4 DEF TaskIs
  <2>7. QED
    BY <1>1, <1>2, <2>1, <2>3, <2>5, <2>6, Names, BoundsStay, AdapterStep
<1>6. QED
  BY <1>3, <1>4, <1>5 DEF Load, RequireRecovery


\* The adapter returns a failure.
LEMMA AnswerStructure ==
  ASSUME Structure, NEW t \in Requests, task[t].pc \in ExchangeStages,
         NEW answer \in Answers \ {"ok"}, Answer(t, answer),
         primary' \in Stored, rotation' \in Checkpoints \cup {None}, account' = account,
         use' = use, UNCHANGED memory, Steady
  PROVE  Structure'
<1>1. TypeOK /\ use' \in [Grants -> {"none", "fresh", "flying", "spent", "refused", "lost", "unknown"}]
  BY DEF Structure, TypeOK
<1>2. t \in Tasks /\ task[t].slot # 0 /\ task[t].time <= now /\ task[t].pc # "idle"
  BY Started DEF ExchangeStages, LoadStages
<1>3. TaskIs(t, "returned", task[t].slot, task[t].time, None, None, answer, task[t].sequel)
      /\ lock' = Unlocked(t)
  BY <1>1, <1>2, AnswerEffect DEF Answer
<1>4. task[t].pc \in Inside
  BY DEF ExchangeStages, LoadStages, Inside
<1>5. Moves(t)
  BY <1>2, <1>3, <1>4 DEF TaskIs, Moves, RequestStages, Inside, LockStages, LoadStages,
                          SaveStages, DeleteStages, ExchangeStages, Ok, BringsPair, At
<1>6. task'[t].slot = task[t].slot
  BY <1>3 DEF TaskIs
<1>7. QED
  BY <1>1, <1>5, <1>6, AdapterStep

\* The adapter returns a credential.
LEMMA AnswerOkStructure ==
  ASSUME Structure, NEW t \in Requests, task[t].pc \in ExchangeStages,
         NEW c \in Credentials, AnswerOk(t, c),
         primary' \in Stored, rotation' \in Checkpoints \cup {None}, account' = account,
         use' = use, UNCHANGED memory, Steady
  PROVE  Structure'
<1>1. TypeOK /\ use' \in [Grants -> {"none", "fresh", "flying", "spent", "refused", "lost", "unknown"}]
      /\ c \in Stored
  BY Names DEF Structure, TypeOK
<1>2. t \in Tasks /\ task[t].slot # 0 /\ task[t].time <= now /\ task[t].pc # "idle"
  BY Started DEF ExchangeStages, LoadStages
<1>3. TaskIs(t, "returned", task[t].slot, task[t].time, c, None, "ok", task[t].sequel)
      /\ lock' = Unlocked(t)
  BY <1>1, <1>2, AnswerOkEffect DEF AnswerOk
<1>4. task[t].pc \in Inside
  BY DEF ExchangeStages, LoadStages, Inside
<1>5. Moves(t)
  BY <1>2, <1>3, <1>4 DEF TaskIs, Moves, RequestStages, Inside, LockStages, LoadStages,
                          SaveStages, DeleteStages, ExchangeStages, Ok, BringsPair, At
<1>6. task'[t].slot = task[t].slot
  BY <1>3 DEF TaskIs
<1>7. QED
  BY <1>1, <1>5, <1>6, AdapterStep

\* The adapter goes on under the lock, with a pair where one is due.
LEMMA AdapterGoes ==
  ASSUME Structure, NEW t \in Requests, task[t].pc \in LoadStages, NEW stage \in LoadStages,
         Go(t, stage),
         stage # "answered",
         stage \in {"rotated", "saved"} => task[t].other \in Credentials,
         primary' \in Stored, rotation' \in Checkpoints \cup {None}, account' = account,
         use' \in [Grants -> {"none", "fresh", "flying", "spent", "refused", "lost", "unknown"}],
         UNCHANGED <<lock, memory>>, Steady
  PROVE  Structure'
<1>1. TypeOK /\ CurrentInv /\ stage \in Stages /\ task[t].pc \in Inside /\ stage \in RequestStages
  BY Names DEF Structure, LoadStages, Inside, RequestStages
<1>2. /\ t \in Tasks /\ task[t].slot # 0 /\ task[t].time <= now /\ StageOf(t)
      /\ task[t].pc \in ExchangeStages
  BY Started DEF ExchangeStages, LoadStages
<1>3. /\ TaskIs(t, stage, task[t].slot, task[t].time, task[t].credential, task[t].other,
               task[t].answer, task[t].sequel)
      /\ lock' = lock
  BY <1>1, <1>2, GoEffect
<1>4. registered = task[t].slot /\ task[t].credential \in Credentials
  BY <1>1, <1>2 DEF CurrentInv, Current, StageOf
<1>5. stage \notin {"idle", "returned"} /\ stage \in LockStages /\ task[t].pc \in LockStages
  BY DEF LoadStages, LockStages
<1>6. Moves(t)
  BY <1>1, <1>2, <1>3, <1>4, <1>5 DEF TaskIs, Moves, Ok, BringsPair, At
<1>7. task'[t].slot = task[t].slot /\ UNCHANGED memory
  BY <1>3 DEF TaskIs
<1>8. QED
  BY <1>2, <1>6, <1>7, AdapterStep

\* The adapter goes on under the lock: the recovered checkpoint is dropped.
LEMMA ForgetRecoveredStructure ==
  ASSUME Structure, NEW t \in Requests, ForgetRecovered(t)
  PROVE  Structure'
<1>1. TypeOK /\ UNCHANGED <<primary, account, lock, memory, use, bounds>> /\ task[t].pc \in LoadStages
      /\ rotation' = None /\ Go(t, "decide") /\ "decide" \in LoadStages
  BY DEF ForgetRecovered, At, Structure, LoadStages
<1>2. primary \in Stored /\ use \in [Grants -> {"none", "fresh", "flying", "spent", "refused", "lost", "unknown"}]
  BY <1>1 DEF TypeOK
<1>3. QED
  BY <1>1, <1>2, BoundsStay, AdapterGoes

\* The adapter returns the stored credential, and the lock.
LEMMA UseStoredStructure ==
  ASSUME Structure, NEW t \in Requests, UseStored(t)
  PROVE  Structure'
<1>1. TypeOK /\ UNCHANGED <<durable, memory, use, bounds>> /\ task[t].pc = "decide"
      /\ AnswerOk(t, task[t].credential) /\ task[t].pc \in ExchangeStages
  BY DEF UseStored, At, Structure, ExchangeStages, LoadStages
<1>2. primary \in Stored /\ rotation \in Checkpoints \cup {None}
  BY <1>1 DEF TypeOK
<1>3. task[t].credential \in Credentials
  BY <1>1, Started DEF StageOf, LoadStages
<1>4. QED
  BY <1>1, <1>2, <1>3, BoundsStay, AnswerOkStructure DEF durable

\* A grant is checkpointed under the lock.
LEMMA CheckpointGrantStructure ==
  ASSUME Structure, NEW t \in Requests, CheckpointGrant(t)
  PROVE  Structure'
<1>1. TypeOK /\ UNCHANGED <<primary, account, memory, use, bounds>> /\ task[t].pc = "decide"
      /\ task[t].pc \in LoadStages /\ "send" \in LoadStages /\ task[t].pc \in ExchangeStages
  BY DEF CheckpointGrant, At, Structure, LoadStages, ExchangeStages
<1>2. /\ primary \in Stored /\ rotation \in Checkpoints \cup {None}
      /\ use \in [Grants -> {"none", "fresh", "flying", "spent", "refused", "lost", "unknown"}]
  BY <1>1 DEF TypeOK
<1>3. task[t].credential \in Credentials
  BY <1>1, Started DEF StageOf, LoadStages
<1>4. CASE Current(t)
  <2>1. rotation' = [before |-> task[t].credential, after |-> None] /\ Go(t, "send") /\ lock' = lock
    BY <1>4 DEF CheckpointGrant
  <2>2. rotation' \in Checkpoints
    BY <1>3, <2>1, Names DEF Checkpoints
  <2>3. QED
    BY <1>1, <1>2, <2>1, <2>2, BoundsStay, AdapterGoes
<1>5. CASE ~Current(t)
  <2>1. Answer(t, "transient") /\ rotation' = rotation /\ "transient" \in Answers \ {"ok"}
    BY <1>5 DEF CheckpointGrant, Answers
  <2>2. QED
    BY <1>1, <1>2, <2>1, BoundsStay, AnswerStructure
<1>6. QED
  BY <1>4, <1>5

\* A grant is sent under the lock.
LEMMA SendStructure ==
  ASSUME Structure, NEW t \in Requests, Send(t)
  PROVE  Structure'
<1>1. TypeOK /\ UNCHANGED <<durable, lock, memory, bounds>> /\ task[t].pc \in LoadStages
      /\ Go(t, "wait") /\ "wait" \in LoadStages
      /\ use' = [use EXCEPT ![task[t].credential.grant] = "flying"]
  BY DEF Send, At, Structure, LoadStages
<1>2. /\ primary \in Stored /\ rotation \in Checkpoints \cup {None}
      /\ use' \in [Grants -> {"none", "fresh", "flying", "spent", "refused", "lost", "unknown"}]
  BY <1>1 DEF TypeOK
<1>3. QED
  BY <1>1, <1>2, BoundsStay, AdapterGoes DEF durable

\* A pair is received under the lock.
LEMMA ProviderRotatesStructure ==
  ASSUME Structure, NEW t \in Requests, ProviderRotates(t)
  PROVE  Structure'
<1>1. TypeOK /\ UNCHANGED <<durable, lock, memory, now, edits, faults, crashes>> /\ task[t].pc = "wait"
      /\ task[t].pc \in LoadStages /\ task[t].pc \in ExchangeStages /\ Unissued # {} /\ CurrentInv
  BY DEF ProviderRotates, At, Structure, LoadStages, ExchangeStages
<1>2. /\ t \in Tasks /\ task[t].slot # 0 /\ task[t].slot \in Slots /\ task[t].time <= now
      /\ task[t].credential \in Credentials
  BY <1>1, Started DEF StageOf
<1>3. /\ Pair(t) \in Credentials
      /\ TaskIs(t, "answered", task[t].slot, task[t].time, task[t].credential, Pair(t), "ok",
                task[t].sequel)
  BY <1>1, <1>2, ProviderRotatesEffect
<1>4. use' \in [Grants -> {"none", "fresh", "flying", "spent", "refused", "lost", "unknown"}]
  <2>1. use' = [use EXCEPT ![task[t].credential.grant] = "spent", ![NextGrant] = "fresh"]
    BY DEF ProviderRotates
  <2>2. QED
    BY <1>1, <2>1 DEF TypeOK
<1>5. Steady
  <2>1. buried' = IF task[t].credential.grant \in buried THEN buried \cup {NextGrant} ELSE buried
    BY DEF ProviderRotates
  <2>2. NextGrant \in Grants
    BY <1>1, NextGrantIsNew
  <2> HIDE DEF NextGrant
  <2>3. buried' \subseteq Grants
    BY <1>1, <2>1, <2>2 DEF TypeOK
  <2>4. QED
    BY <1>1, <2>3 DEF TypeOK, Steady
<1>6. registered = task[t].slot
  BY <1>1 DEF CurrentInv, Current
<1>7. Moves(t)
  BY <1>1, <1>2, <1>3, <1>6 DEF TaskIs, Moves, RequestStages, Inside, LockStages, LoadStages,
                                SaveStages, DeleteStages, ExchangeStages, Ok, BringsPair, At
<1>8. task'[t].slot = task[t].slot /\ UNCHANGED memory /\ primary' \in Stored
      /\ rotation' \in Checkpoints \cup {None} /\ account' = account
  BY <1>1, <1>3 DEF TaskIs, TypeOK, durable
<1>9. QED
  BY <1>1, <1>4, <1>5, <1>7, <1>8, AdapterStep

\* A failure is received under the lock.
LEMMA ProviderFailsStructure ==
  ASSUME Structure, NEW t \in Requests, ProviderFails(t)
  PROVE  Structure'
<1>1. TypeOK /\ UNCHANGED <<durable, lock, memory, bounds>> /\ task[t].pc = "wait"
      /\ task[t].pc \in LoadStages /\ task[t].pc \in ExchangeStages /\ CurrentInv
  BY DEF ProviderFails, At, Structure, LoadStages, ExchangeStages
<1>2. /\ t \in Tasks /\ task[t].slot # 0 /\ task[t].slot \in Slots /\ task[t].time <= now
      /\ task[t].credential \in Credentials
  BY <1>1, Started DEF StageOf
<1>3. PICK outcome \in {"refused", "fresh", "lost"}, answer \in {"refused", "transient"} :
        /\ use' = [use EXCEPT ![task[t].credential.grant] = outcome]
        /\ task' = [task EXCEPT ![t].pc = "answered", ![t].answer = answer]
  BY ProviderFailsOutcome
<1>4. TaskIs(t, "answered", task[t].slot, task[t].time, task[t].credential, task[t].other, answer,
             task[t].sequel)
  BY <1>1, <1>3, ProviderFailsEffect
<1>5. use' \in [Grants -> {"none", "fresh", "flying", "spent", "refused", "lost", "unknown"}]
  BY <1>1, <1>3 DEF TypeOK
<1>6. registered = task[t].slot
  BY <1>1 DEF CurrentInv, Current
<1>7. Moves(t)
  BY <1>1, <1>2, <1>4, <1>6 DEF TaskIs, Moves, RequestStages, Inside, LockStages, LoadStages,
                                SaveStages, DeleteStages, ExchangeStages, Ok, BringsPair, At
<1>8. task'[t].slot = task[t].slot /\ UNCHANGED memory /\ primary' \in Stored
      /\ rotation' \in Checkpoints \cup {None} /\ account' = account
  BY <1>1, <1>4 DEF TaskIs, TypeOK, durable
<1>9. QED
  BY <1>1, <1>5, <1>7, <1>8, BoundsStay, AdapterStep

\* An overtaken answer gives the lock back.
LEMMA OvertakenStructure ==
  ASSUME Structure, NEW t \in Requests, Overtaken(t)
  PROVE  Structure'
<1>1. TypeOK /\ UNCHANGED <<durable, memory, use, bounds>> /\ task[t].pc \in ExchangeStages
  BY DEF Overtaken, At, Structure, ExchangeStages, LoadStages
<1>2. primary \in Stored /\ rotation \in Checkpoints \cup {None} /\ "transient" \in Answers \ {"ok"}
  BY <1>1 DEF TypeOK, Answers
<1>3. CASE primary # None /\ AnswerOk(t, primary)
  <2>1. primary \in Credentials
    BY <1>2, <1>3 DEF Stored
  <2>2. QED
    BY <1>1, <1>2, <1>3, <2>1, BoundsStay, AnswerOkStructure DEF durable
<1>4. CASE Answer(t, "transient")
  BY <1>1, <1>2, <1>4, BoundsStay, AnswerStructure DEF durable
<1>5. QED
  BY <1>3, <1>4 DEF Overtaken

\* A received pair is checkpointed under the lock.
LEMMA CheckpointRotationStructure ==
  ASSUME Structure, NEW t \in Requests, CheckpointRotation(t)
  PROVE  Structure'
<1>1. /\ TypeOK /\ UNCHANGED <<primary, account, lock, memory, use, bounds>> /\ task[t].pc = "answered"
      /\ task[t].pc \in LoadStages /\ "rotated" \in LoadStages /\ Go(t, "rotated")
      /\ BringsPair(t) /\ rotation' = [before |-> task[t].credential, after |-> task[t].other]
  BY DEF CheckpointRotation, At, Structure, LoadStages, BringsPair
<1>2. /\ primary \in Stored
      /\ use \in [Grants -> {"none", "fresh", "flying", "spent", "refused", "lost", "unknown"}]
  BY <1>1 DEF TypeOK
<1>3. task[t].credential \in Credentials /\ task[t].other \in Credentials
  BY <1>1, Started DEF StageOf
<1>4. rotation' \in Checkpoints
  BY <1>1, <1>3, Names DEF Checkpoints
<1>5. QED
  BY <1>1, <1>2, <1>3, <1>4, BoundsStay, AdapterGoes

\* A failed renewal gives the lock back.
LEMMA FailRefreshStructure ==
  ASSUME Structure, NEW t \in Requests, FailRefresh(t)
  PROVE  Structure'
<1>1. TypeOK /\ UNCHANGED <<primary, account, memory, use, bounds>> /\ task[t].pc \in ExchangeStages
      /\ rotation' = None /\ Answer(t, task[t].answer) /\ task[t].answer # "ok" /\ task[t].pc # "idle"
  BY DEF FailRefresh, At, Structure, ExchangeStages, LoadStages
<1>2. primary \in Stored
  BY <1>1 DEF TypeOK
<1>3. task[t].answer \in Answers \ {"ok"}
  BY <1>1, Started DEF TaskStates
<1>4. QED
  BY <1>1, <1>2, <1>3, BoundsStay, AnswerStructure

\* A received pair is stored under the lock.
LEMMA SaveRotatedStructure ==
  ASSUME Structure, NEW t \in Requests, SaveRotated(t)
  PROVE  Structure'
<1>1. TypeOK /\ UNCHANGED <<rotation, account, lock, memory, use, bounds>> /\ task[t].pc = "rotated"
      /\ task[t].pc \in LoadStages /\ "saved" \in LoadStages /\ Go(t, "saved")
      /\ BringsPair(t) /\ primary' = task[t].other
  BY DEF SaveRotated, At, Structure, LoadStages, BringsPair
<1>2. /\ rotation \in Checkpoints \cup {None}
      /\ use \in [Grants -> {"none", "fresh", "flying", "spent", "refused", "lost", "unknown"}]
  BY <1>1 DEF TypeOK
<1>3. task[t].other \in Credentials
  BY <1>1, Started DEF StageOf
<1>4. QED
  BY <1>1, <1>2, <1>3, Names, BoundsStay, AdapterGoes

\* A finished rotation gives the lock back.
LEMMA ForgetRotatedStructure ==
  ASSUME Structure, NEW t \in Requests, ForgetRotated(t)
  PROVE  Structure'
<1>1. TypeOK /\ UNCHANGED <<primary, account, memory, use, bounds>> /\ task[t].pc \in ExchangeStages
      /\ rotation' = None /\ AnswerOk(t, task[t].other) /\ BringsPair(t) /\ task[t].pc # "idle"
  BY DEF ForgetRotated, At, Structure, ExchangeStages, LoadStages, BringsPair
<1>2. primary \in Stored
  BY <1>1 DEF TypeOK
<1>3. task[t].other \in Credentials
  BY <1>1, Started DEF StageOf
<1>4. QED
  BY <1>1, <1>2, <1>3, BoundsStay, AnswerOkStructure

-----------------------------------------------------------------------------
(* After the adapter: the slot and the writes of what is pending *)

\* A step of a request that may change the tokens of its slot.
LEMMA SlotStep ==
  ASSUME Structure, NEW t \in Requests, Moves(t), task'[t].pc \notin ExchangeStages,
         UNCHANGED <<durable, use>>, Steady, superseded' \subseteq Requests,
         NEW tokens \in Credentials, NEW auth, NEW pending,
         KeptIs(tokens, auth, pending), registered # 0,
         SlotFree(registered) \/ (task[t].pc \in Inside /\ task[t].slot = registered)
  PROVE  Structure'
<1>1. /\ t \in Tasks /\ TypeOK /\ registered' = registered /\ task' \in [Tasks -> TaskStates]
      /\ now' = now
  BY DEF Tasks, Structure, Moves, KeptIs, Steady
<1>2. lock' \in Tasks \cup {Nobody, Dead}
  BY <1>1, UnlockedType DEF TypeOK, Moves
<1>3. Kept.tokens' \in Credentials
  BY <1>1 DEF Kept, KeptIs
<1>4. TypeOK'
  <2>1. UNCHANGED <<primary, rotation, account, use>>
    BY DEF durable
  <2>2. QED
    BY <1>1, <1>2, <1>3, <2>1, TypeStep DEF TypeOK, KeptIs
<1>5. KeepsSettled(t)
  BY DEF KeepsSettled
<1>6. QED
  BY <1>1, <1>4, <1>5, RequestStep

\* The request that installs the renewed tokens is the one that writes them.
LEMMA InstallRefreshedStructure ==
  ASSUME Structure, NEW t \in Requests, InstallRefreshed(t)
  PROVE  Structure'
<1>1. /\ TypeOK /\ UNCHANGED <<durable, lock, registered, use, bounds>> /\ task[t].pc = "returned"
      /\ Current(t) /\ task[t].answer = "ok" /\ Ok(t) /\ superseded' \subseteq Requests
  BY BumpType DEF InstallRefreshed, At, Structure, Ok
<1>2. /\ t \in Tasks /\ task[t].slot # 0 /\ task[t].slot \in Slots /\ task[t].credential \in Credentials
      /\ registered = task[t].slot /\ now \in 0..MaxTime /\ task[t].pc \in Inside
  BY <1>1, Started DEF StageOf, Inside, Current
<1>3. /\ Renewed(t) \in Credentials
      /\ TaskIs(t, "save", task[t].slot, 0, None, None, "none", "refreshed")
      /\ KeptIs(Renewed(t), "Active", TRUE)
  BY <1>1, <1>2, InstallRefreshedEffect
<1>4. Moves(t) /\ task'[t].pc \notin ExchangeStages
  BY <1>1, <1>2, <1>3, TokenAssumption DEF TaskIs, Moves, RequestStages, Inside, LockStages,
                                           LoadStages, SaveStages, DeleteStages, ExchangeStages,
                                           Ok, BringsPair, At
<1>5. QED
  BY <1>1, <1>2, <1>3, <1>4, BoundsStay, SlotStep

\* A refused renewal ends under the mutex of its slot.
LEMMA InstallReauthStructure ==
  ASSUME Structure, NEW t \in Requests, InstallReauth(t)
  PROVE  Structure'
<1>1. /\ TypeOK /\ UNCHANGED <<durable, lock, registered, superseded, use, bounds>>
      /\ task[t].pc = "returned" /\ superseded' \subseteq Requests
  BY DEF InstallReauth, At, Structure, TypeOK
<1>2. t \in Tasks /\ task[t].slot # 0 /\ task[t].slot \in Slots /\ now \in 0..MaxTime
  BY <1>1, Started
<1>3. /\ TaskIs(t, "auth", task[t].slot, 0, None, None, "none", "reauth")
      /\ KeptIs(Kept.tokens, "Reauth", Kept.persistence_pending)
  BY <1>1, <1>2, InstallReauthEffect
<1>4. Moves(t) /\ task'[t].pc \notin ExchangeStages
  BY <1>1, <1>2, <1>3, TokenAssumption DEF TaskIs, Moves, RequestStages, Inside, LockStages,
                                           LoadStages, SaveStages, DeleteStages, ExchangeStages,
                                           Ok, BringsPair, At
<1>5. QED
  BY <1>1, <1>3, <1>4, BoundsStay, QuietStep

\* A request that gives up drops what it holds.
LEMMA DropResultStructure ==
  ASSUME Structure, NEW t \in Requests, DropResult(t)
  PROVE  Structure'
<1>1. /\ TypeOK /\ UNCHANGED <<durable, use, bounds>> /\ task[t].pc = "returned" /\ superseded \subseteq Requests
  BY DEF DropResult, At, Structure, TypeOK
<1>2. t \in Tasks /\ task[t].slot \in Slots
  BY <1>1, Started
<1>3. /\ TaskIs(t, "idle", 0, 0, None, None, "none", "none")
      /\ KeptIs(Kept.tokens, IF Current(t) THEN task[t].previous ELSE Kept.auth_state,
                Kept.persistence_pending)
      /\ superseded' \subseteq Requests
      /\ lock' = Unlocked(t)
  BY <1>1, <1>2, DropResultEffect
<1>4. Moves(t) /\ task'[t].pc \notin ExchangeStages
  BY <1>3, LeaveMoves
<1>5. QED
  BY <1>1, <1>3, <1>4, BoundsStay, QuietStep

\* A request leaves, and something was written or counted.
LEMMA LeaveWriting ==
  ASSUME Structure, NEW t \in Requests, Leave(t), primary' \in Stored,
         rotation' \in Checkpoints \cup {None}, account' \in Accounts \cup {None},
         use' \in [Grants -> {"none", "fresh", "flying", "spent", "refused", "lost", "unknown"}], Steady
  PROVE  Structure'
<1>1. t \in Tasks /\ TypeOK /\ superseded \subseteq Requests
  BY DEF Structure, TypeOK, Tasks
<1>2. /\ TaskIs(t, "idle", 0, 0, None, None, "none", "none") /\ KeptStays
      /\ superseded' = superseded \ {t} /\ lock' = Unlocked(t)
  BY <1>1, LeaveKeeps
<1>3. Moves(t) /\ task'[t].pc \notin ExchangeStages
  BY <1>2, LeaveMoves
<1>4. QED
  BY <1>1, <1>2, <1>3, WriteStep DEF KeptStays

\* A write of the tokens takes the process lock while its slot is the account's.
LEMMA SaveTokensStructure ==
  ASSUME Structure, NEW t \in Requests, SaveTokens(t)
  PROVE  Structure'
<1>1. /\ TypeOK /\ UNCHANGED <<rotation, account, use, bounds>> /\ task[t].pc = "save" /\ LockFree
      /\ superseded \subseteq Requests /\ rotation \in Checkpoints \cup {None}
      /\ account \in Accounts \cup {None} /\ primary \in Stored
      /\ use \in [Grants -> {"none", "fresh", "flying", "spent", "refused", "lost", "unknown"}]
  BY DEF SaveTokens, At, Structure, TypeOK
<1>2. t \in Tasks /\ task[t].slot \in Slots /\ task[t].slot # 0 /\ task[t].time <= now
  BY <1>1, Started
<1>3. CASE /\ Current(t) /\ primary # None /\ registered # 0
           /\ Merged \in Credentials /\ primary' = Merged /\ lock' = t /\ UNCHANGED memory
           /\ TaskIs(t, "saveClear", task[t].slot, task[t].time, Merged, task[t].other,
                     task[t].answer, task[t].sequel)
  <2>1. Moves(t) /\ task'[t].pc \notin ExchangeStages
    BY <1>1, <1>2, <1>3 DEF TaskIs, Moves, RequestStages, Inside, LockStages, LoadStages,
                            SaveStages, DeleteStages, ExchangeStages, Ok, BringsPair, At, Current
  <2>2. KeptStays /\ superseded' \subseteq Requests
    BY <1>1, <1>3, MemoryStays DEF memory
  <2>3. QED
    BY <1>1, <1>3, <2>1, <2>2, Names, BoundsStay, WriteStep DEF KeptStays
<1>4. CASE Leave(t) /\ UNCHANGED primary
  BY <1>1, <1>4, BoundsStay, LeaveWriting
<1>5. QED
  BY <1>1, <1>2, <1>3, <1>4, SaveTokensEffect

\* The checkpoint is dropped under the lock.
LEMMA ClearCheckpointStructure ==
  ASSUME Structure, NEW t \in Requests, ClearCheckpoint(t)
  PROVE  Structure'
<1>1. /\ TypeOK /\ UNCHANGED <<primary, account, lock, memory, use, bounds>> /\ task[t].pc = "saveClear"
      /\ rotation' = None /\ Go(t, "saveMeta") /\ CurrentInv
      /\ superseded' \subseteq Requests
      /\ account \in Accounts \cup {None} /\ primary \in Stored
      /\ use \in [Grants -> {"none", "fresh", "flying", "spent", "refused", "lost", "unknown"}]
  BY DEF ClearCheckpoint, At, Structure, TypeOK, memory
<1>2. /\ t \in Tasks /\ task[t].slot # 0 /\ task[t].time <= now
      /\ task[t].credential \in Credentials /\ registered = task[t].slot
  BY <1>1, Started DEF StageOf, SaveStages, CurrentInv, Current
<1>3. TaskIs(t, "saveMeta", task[t].slot, task[t].time, task[t].credential, task[t].other,
             task[t].answer, task[t].sequel)
  BY <1>1, <1>2, Names, GoEffect DEF Inside
<1>4. Moves(t) /\ task'[t].pc \notin ExchangeStages
  BY <1>1, <1>2, <1>3 DEF TaskIs, Moves, RequestStages, Inside, LockStages, LoadStages,
                          SaveStages, DeleteStages, ExchangeStages, Ok, BringsPair, At
<1>5. KeptStays
  BY <1>1, MemoryStays DEF memory
<1>6. QED
  BY <1>1, <1>4, <1>5, BoundsStay, WriteStep DEF KeptStays

\* The lock is given back once the record is written, with the mutex or without.
LEMMA SaveGenerationStructure ==
  ASSUME Structure, NEW t \in Requests, SaveGeneration(t)
  PROVE  Structure'
<1>1. /\ TypeOK /\ UNCHANGED <<primary, rotation, use, bounds>> /\ task[t].pc = "saveMeta"
      /\ CurrentInv /\ superseded \subseteq Requests
      /\ rotation \in Checkpoints \cup {None}
      /\ account \in Accounts \cup {None} /\ primary \in Stored
      /\ use \in [Grants -> {"none", "fresh", "flying", "spent", "refused", "lost", "unknown"}]
  BY DEF SaveGeneration, At, Structure, TypeOK
<1>2. /\ t \in Tasks /\ task[t].slot # 0 /\ task[t].slot \in Slots /\ task[t].time <= now
      /\ task[t].credential \in Credentials /\ Current(t)
  BY <1>1, Started DEF StageOf, SaveStages, CurrentInv
<1>3. CASE account # None
  <2>1. account' = [account EXCEPT !.generation = task[t].credential.generation] /\ AfterSave(t)
    BY <1>3 DEF SaveGeneration
  <2>2. account' \in Accounts
    BY <1>1, <1>2, <1>3, <2>1 DEF Accounts, Credentials
  <2>3. /\ KeptIs(Kept.tokens, Kept.auth_state, FALSE)
        /\ lock' = Unlocked(t)
        /\ \/ /\ task[t].sequel # "invalidated"
              /\ superseded' = superseded
              /\ TaskIs(t, IF task[t].sequel = "pending" THEN "entered" ELSE "auth", task[t].slot,
                        task[t].time, None, task[t].other, task[t].answer, task[t].sequel)
           \/ /\ superseded' = superseded \ {t}
              /\ TaskIs(t, "idle", 0, 0, None, None, "none", "none")
    BY <1>1, <1>2, <2>1, AfterSaveEffect
  <2>4. Moves(t) /\ task'[t].pc \notin ExchangeStages
    <3>1. CASE TaskIs(t, "idle", 0, 0, None, None, "none", "none")
      BY <2>3, <3>1, LeaveMoves
    <3>2. CASE TaskIs(t, IF task[t].sequel = "pending" THEN "entered" ELSE "auth", task[t].slot,
                      task[t].time, None, task[t].other, task[t].answer, task[t].sequel)
      BY <1>1, <1>2, <2>3, <3>2 DEF TaskIs, Moves, RequestStages, Inside, LockStages, LoadStages,
                                    SaveStages, DeleteStages, ExchangeStages, Ok, BringsPair, At
    <3>3. QED
      BY <2>3, <3>1, <3>2
  <2>5. superseded' \subseteq Requests
    BY <1>1, <2>3
  <2>6. QED
    BY <1>1, <2>2, <2>3, <2>4, <2>5, BoundsStay, WriteStep
<1>4. CASE account = None
  BY <1>1, <1>4, BoundsStay, LeaveWriting DEF SaveGeneration
<1>5. QED
  BY <1>3, <1>4

\* The state is written within a step: the lock stays free.
LEMMA SaveAuthStructure ==
  ASSUME Structure, NEW t \in Requests, SaveAuth(t)
  PROVE  Structure'
<1>1. /\ TypeOK /\ UNCHANGED <<primary, rotation, use, bounds>> /\ task[t].pc = "auth" /\ LockFree
      /\ superseded \subseteq Requests
      /\ rotation \in Checkpoints \cup {None}
      /\ account \in Accounts \cup {None} /\ primary \in Stored
      /\ use \in [Grants -> {"none", "fresh", "flying", "spent", "refused", "lost", "unknown"}]
  BY DEF SaveAuth, At, Structure, TypeOK
<1>2. /\ t \in Tasks /\ task[t].slot # 0 /\ task[t].slot \in Slots /\ task[t].time <= now
      /\ now \in 0..MaxTime /\ lock # t
  BY <1>1, Started, TokenAssumption DEF LockFree
<1>3. CASE Current(t) /\ account # None
  <2>1. account' = [account EXCEPT !.auth = MySlot(t).auth_state] /\ AfterAuth(t)
    BY <1>3 DEF SaveAuth
  <2>2. MySlot(t).auth_state \in AuthStates
    BY <1>1, <1>2 DEF TypeOK, MySlot, TokenSlots
  <2>3. account' \in Accounts
    BY <1>1, <1>3, <2>1, <2>2 DEF Accounts
  <2>4. /\ KeptStays
        /\ lock' = lock
        /\ \/ /\ superseded' = superseded
              /\ TaskIs(t, "entered", task[t].slot, task[t].time, task[t].credential, task[t].other,
                        task[t].answer, task[t].sequel)
           \/ /\ superseded' = superseded
              /\ TaskIs(t, "prepared", task[t].slot, 0, Kept.tokens, None, "none", "none")
           \/ /\ superseded' = superseded \ {t}
              /\ TaskIs(t, "idle", 0, 0, None, None, "none", "none")
    BY <1>1, <1>2, <1>3, <2>1, AfterAuthEffect
  <2>5. Moves(t) /\ task'[t].pc \notin ExchangeStages
    BY <1>1, <1>2, <2>4, TokenAssumption DEF TaskIs, Moves, RequestStages, Inside, LockStages,
                                             LoadStages, SaveStages, DeleteStages, ExchangeStages,
                                             Ok, BringsPair, At
  <2>6. superseded' \subseteq Requests
    BY <1>1, <2>4
  <2>7. QED
    BY <1>1, <2>3, <2>4, <2>5, <2>6, BoundsStay, WriteStep DEF KeptStays
<1>4. CASE ~(Current(t) /\ account # None)
  BY <1>1, <1>4, BoundsStay, LeaveWriting DEF SaveAuth
<1>5. QED
  BY <1>3, <1>4

-----------------------------------------------------------------------------
(* Dispatch, rejection, and what ends a request early *)

\* A token is sent outside every lock.
LEMMA DispatchStructure ==
  ASSUME Structure, NEW t \in Requests, Dispatch(t)
  PROVE  Structure'
<1>1. /\ TypeOK /\ UNCHANGED <<durable, use, bounds>> /\ task[t].pc = "prepared" /\ superseded \subseteq Requests
  BY DEF Dispatch, At, Structure, TypeOK
<1>2. t \in Tasks /\ task[t].slot # 0 /\ task[t].time <= now
  BY <1>1, Started
<1>3. CASE GuardHolds(t)
  <2>1. Go(t, "sent") /\ UNCHANGED <<lock, memory>> /\ superseded' \subseteq Requests
    BY <1>1, <1>3 DEF Dispatch, memory
  <2>2. KeptStays
    BY <1>1, <2>1, MemoryStays DEF memory
  <2>3. TaskIs(t, "sent", task[t].slot, task[t].time, task[t].credential, task[t].other,
               task[t].answer, task[t].sequel)
    BY <1>1, <1>2, <2>1, Names, GoEffect
  <2>4. Moves(t) /\ task'[t].pc \notin ExchangeStages
    BY <1>1, <1>2, <2>1, <2>3 DEF TaskIs, Moves, RequestStages, Inside, LockStages, LoadStages,
                                  SaveStages, DeleteStages, ExchangeStages, Ok, BringsPair, At
  <2>5. QED
    BY <1>1, <2>1, <2>2, <2>4, BoundsStay, QuietStep DEF KeptStays
<1>4. CASE ~GuardHolds(t)
  BY <1>1, <1>4, LeaveStructure DEF Dispatch
<1>5. QED
  BY <1>3, <1>4

\* A rejection takes the mutex when nobody has it.
LEMMA InvalidateStructure ==
  ASSUME Structure, NEW t \in Requests, Invalidate(t)
  PROVE  Structure'
<1>1. /\ TypeOK /\ UNCHANGED <<durable, use, bounds>> /\ task[t].pc = "sent" /\ SlotFree(task[t].slot)
      /\ superseded \subseteq Requests
  BY DEF Invalidate, At, Structure, TypeOK
<1>2. t \in Tasks /\ task[t].slot # 0 /\ task[t].slot \in Slots /\ task[t].time <= now
  BY <1>1, Started
<1>3. CASE GuardHolds(t)
  <2>1. /\ Rejected \in Credentials
        /\ TaskIs(t, "save", task[t].slot, task[t].time, None, task[t].other, task[t].answer,
                  "invalidated")
        /\ KeptIs(Rejected, Kept.auth_state, TRUE)
        /\ Bump(task[t].slot) /\ lock' = lock
    BY <1>1, <1>2, <1>3, InvalidateEffect
  <2>2. Moves(t) /\ task'[t].pc \notin ExchangeStages
    BY <1>1, <1>2, <2>1 DEF TaskIs, Moves, RequestStages, Inside, LockStages, LoadStages,
                            SaveStages, DeleteStages, ExchangeStages, Ok, BringsPair, At
  <2>3. superseded' \subseteq Requests /\ registered = task[t].slot
    BY <1>1, <1>3, <2>1, BumpType DEF GuardHolds, Current
  <2>4. QED
    BY <1>1, <1>2, <2>1, <2>2, <2>3, BoundsStay, SlotStep
<1>4. CASE ~GuardHolds(t)
  BY <1>1, <1>4, LeaveStructure DEF Invalidate
<1>5. QED
  BY <1>3, <1>4

\* A dropped request drops what it holds.
LEMMA CancelStructure ==
  ASSUME Structure, NEW t \in Requests, Cancel(t)
  PROVE  Structure'
<1>1. /\ TypeOK /\ UNCHANGED durable /\ Leave(t) /\ Steady
  BY FaultCounts DEF Cancel, Structure
<1>2. use' \in [Grants -> {"none", "fresh", "flying", "spent", "refused", "lost", "unknown"}]
  BY <1>1 DEF TypeOK, Cancel
<1>3. primary' \in Stored /\ rotation' \in Checkpoints \cup {None} /\ account' \in Accounts \cup {None}
  BY <1>1 DEF TypeOK, durable
<1>4. QED
  BY <1>1, <1>2, <1>3, LeaveWriting

-----------------------------------------------------------------------------
(* The user's commands *)

\* What a step may make of the user's task.
UserMoves ==
  /\ task' \in [Tasks -> TaskStates] /\ Others(User)
  /\ task'[User].pc \in UserStages /\ task'[User].slot = 0 /\ task'[User].time <= now
  /\ task'[User].pc \in LoginStages \cup {"edit", "edited"} => task'[User].credential \in Credentials
  /\ \/ lock' = lock /\ (task'[User].pc \in LockStages <=> task[User].pc \in LockStages)
     \/ LockFree /\ lock' = User /\ task'[User].pc \in LockStages
     \/ lock' = Unlocked(User) /\ task'[User].pc \notin LockStages

\* The user's task is not one of a request.
LEMMA UserStarted ==
  ASSUME Structure
  PROVE  /\ User \in Tasks /\ User \notin Requests /\ task[User] \in TaskStates
         /\ task[User].pc \in UserStages /\ task[User].slot = 0
         /\ task[User].time \in 0..MaxTime /\ task[User].time <= now /\ now \in 0..MaxTime
         /\ task[User].credential \in Stored /\ task[User].other \in Stored
         /\ task[User].pc \in LoginStages \cup {"edit", "edited"} => task[User].credential \in Credentials
         /\ task[User].pc \notin Inside
<1>1. User \in Tasks /\ User \notin Requests /\ TypeOK /\ StageOf(User)
  BY TokenAssumption DEF Structure, Tasks, StageInv
<1>2. task[User] \in TaskStates /\ now \in 0..MaxTime
  BY <1>1 DEF TypeOK
<1>3. /\ task[User].time \in 0..MaxTime /\ task[User].credential \in Stored
      /\ task[User].other \in Stored
  BY <1>2 DEF TaskStates
<1>4. task[User].pc \notin Inside
  BY <1>1 DEF StageOf, UserStages, DeleteStages, LoginStages, Inside
<1>5. QED
  BY <1>1, <1>2, <1>3, <1>4 DEF StageOf

\* What the user's step leaves of its own task, and of the lock.
LEMMA UserStage ==
  ASSUME Structure, UserMoves, now' = now
  PROVE  StageInv' /\ LockInv'
<1>1. /\ User \in Tasks /\ now \in Int /\ task \in [Tasks -> TaskStates] /\ Others(User)
      /\ StageInv /\ LockInv
  BY UserStarted DEF UserMoves, Structure, TypeOK
<1>2. StageOf(User)'
  BY <1>1 DEF UserMoves, StageOf, UserStages, LoginStages, DeleteStages, LoadStages, SaveStages, Ok,
              BringsPair, At
<1>3. QED
  BY <1>1, <1>2, StageStep, LockStep DEF UserMoves

\* A step of the user's task that keeps the registration.
LEMMA UserStructure ==
  ASSUME Structure, UserMoves, TypeOK', now' = now, registered' = registered,
         \/ Kept.persistence_pending' = Kept.persistence_pending
         \/ SlotFree(registered)
         \/ registered = 0
  PROVE  Structure'
<1>1. /\ User \in Tasks /\ User \notin Requests /\ task[User].pc \notin Inside /\ Others(User)
      /\ task'[User].pc \notin Inside
  BY UserStarted DEF UserMoves, UserStages, DeleteStages, LoginStages, Inside
<1>2. StageInv' /\ LockInv'
  BY UserStage
<1>3. MutexInv' /\ CurrentInv'
  BY <1>1, MutexStep, CurrentStep DEF Structure
<1>4. SettledInv'
  <2>1. \A u \in Requests : task[u].slot = 0 => task[u].pc \notin ExchangeStages
    BY TokenAssumption DEF Structure, StageInv, StageOf, Tasks, ExchangeStages, LoadStages
  <2>2. QED
    BY <1>1, <2>1, SettledStep DEF Structure
<1>5. QED
  BY <1>2, <1>3, <1>4 DEF Structure

\* A step of the user's task that leaves the slots alone.
LEMMA UserWrites ==
  ASSUME Structure, UserMoves, KeptStays, superseded' \subseteq Requests,
         primary' \in Stored, rotation' \in Checkpoints \cup {None}, account' \in Accounts \cup {None},
         use' \in [Grants -> {"none", "fresh", "flying", "spent", "refused", "lost", "unknown"}], Steady
  PROVE  Structure'
<1>1. /\ TypeOK /\ registered' = registered /\ now' = now /\ slot' \in [Slots -> TokenSlots]
      /\ task' \in [Tasks -> TaskStates]
  BY DEF Structure, KeptStays, KeptIs, Steady, UserMoves
<1>2. lock' \in Tasks \cup {Nobody, Dead}
  BY <1>1, UserStarted, UnlockedType DEF TypeOK, UserMoves
<1>3. /\ registered # 0 => Kept.tokens' \in Credentials
      /\ registered # 0 => Kept.persistence_pending' = Kept.persistence_pending
  BY <1>1 DEF TypeOK, Kept, KeptIs, KeptStays
<1>4. TypeOK'
  BY <1>1, <1>2, <1>3, TypeStep
<1>5. QED
  BY <1>1, <1>3, <1>4, UserStructure

\* The command ends.
LEMMA UserLeaves ==
  ASSUME Structure, Leave(User),
         primary' \in Stored, rotation' \in Checkpoints \cup {None}, account' \in Accounts \cup {None},
         use' \in [Grants -> {"none", "fresh", "flying", "spent", "refused", "lost", "unknown"}], Steady
  PROVE  Structure'
<1>1. User \in Tasks /\ TypeOK /\ superseded \subseteq Requests /\ now \in 0..MaxTime
  BY UserStarted DEF Structure, TypeOK
<1>2. /\ TaskIs(User, "idle", 0, 0, None, None, "none", "none") /\ KeptStays
      /\ superseded' \subseteq Requests /\ lock' = Unlocked(User)
  BY <1>1, LeaveKeeps
<1>3. UserMoves
  BY <1>1, <1>2, TokenAssumption
     DEF TaskIs, UserMoves, UserStages, LoginStages, DeleteStages, LockStages, LoadStages, SaveStages
<1>4. QED
  BY <1>2, <1>3, UserWrites

\* The kind of what a step of the user leaves alone.
LEMMA UserTypes ==
  ASSUME Structure
  PROVE  /\ TypeOK /\ primary \in Stored /\ rotation \in Checkpoints \cup {None}
         /\ account \in Accounts \cup {None} /\ superseded \subseteq Requests
         /\ use \in [Grants -> {"none", "fresh", "flying", "spent", "refused", "lost", "unknown"}]
  BY DEF Structure, TypeOK

\* A sign-in takes the process lock when it is free.
LEMMA CommitLoginStructure ==
  ASSUME Structure, CommitLogin
  PROVE  Structure'
<1>1. /\ UNCHANGED <<rotation, account, memory, bounds>> /\ LockFree /\ lock' = User /\ Unissued # {}
      /\ use' = [use EXCEPT ![NextGrant] = "fresh"]
  BY DEF CommitLogin
<1>2. /\ NewLogin \in Credentials /\ primary' = NewLogin
      /\ TaskIs(User, "loginAccount", task[User].slot, task[User].time, NewLogin, primary,
                task[User].answer, task[User].sequel)
  BY UserTypes, CommitLoginEffect
<1>3. use' \in [Grants -> {"none", "fresh", "flying", "spent", "refused", "lost", "unknown"}]
  BY <1>1, UserTypes
<1>4. UserMoves
  BY <1>1, <1>2, UserStarted
     DEF TaskIs, UserMoves, UserStages, LoginStages, DeleteStages, LockStages, LoadStages, SaveStages
<1>5. KeptStays /\ superseded' \subseteq Requests
  BY <1>1, UserTypes, MemoryStays DEF memory
<1>6. QED
  BY <1>1, <1>2, <1>3, <1>4, <1>5, UserTypes, Names, BoundsStay, UserWrites

\* A recorded sign-in gives the lock back.
LEMMA RecordLoginStructure ==
  ASSUME Structure, RecordLogin
  PROVE  Structure'
<1>1. /\ UNCHANGED <<primary, rotation, memory, use, bounds>> /\ lock' = Unlocked(User)
      /\ account' = [generation |-> task[User].credential.generation, auth |-> "Active"]
      /\ task' = [task EXCEPT ![User].pc = "register", ![User].other = None]
      /\ task[User].pc = "loginAccount"
  BY DEF RecordLogin, At
<1>2. task[User].credential \in Credentials
  BY <1>1, UserStarted DEF LoginStages
<1>3. account' \in Accounts
  BY <1>1, <1>2 DEF Accounts, Credentials, AuthStates
<1>4. TaskIs(User, "register", task[User].slot, task[User].time, task[User].credential, None,
             task[User].answer, task[User].sequel)
  BY <1>1, UserStarted, UserTypes, Names, RememberEffect
<1>5. UserMoves
  BY <1>1, <1>2, <1>4, UserStarted
     DEF TaskIs, UserMoves, UserStages, LoginStages, DeleteStages, LockStages, LoadStages, SaveStages
<1>6. KeptStays /\ superseded' \subseteq Requests
  BY <1>1, UserTypes, MemoryStays DEF memory
<1>7. QED
  BY <1>1, <1>3, <1>5, <1>6, UserTypes, BoundsStay, UserWrites

\* The account gets a slot: no request refers to it yet.
LEMMA InsertStructure ==
  ASSUME Structure, registered = 0, NEW c \in Credentials, NEW auth \in AuthStates,
         InsertSlot(c, auth), \A u \in Requests : task'[u] = task[u],
         StageInv', LockInv', task' \in [Tasks -> TaskStates],
         UNCHANGED <<durable, lock, use, bounds>>
  PROVE  Structure'
<1>1. /\ registered' \in Slots /\ registered' # 0 /\ \A t \in Tasks : task[t].slot # registered'
      /\ slot' \in [Slots -> TokenSlots] /\ Kept'.tokens = TokenSet(c)
  BY InsertSlotEffect DEF Structure
<1>2. superseded' = superseded
  BY DEF InsertSlot
<1>3. TypeOK'
  <2>1. slot'[registered'].tokens \in Credentials
    BY <1>1, TokenSetType DEF Kept
  <2>2. QED
    BY <1>1, <1>2, <2>1 DEF TypeOK, Structure, durable, bounds
<1>4. MutexInv'
  BY DEF MutexInv, Structure
<1>5. \A u \in Requests : u \in Tasks /\ task[u].slot # registered'
  BY <1>1 DEF Tasks
<1>6. \A u \in Requests : task[u].pc \in LoadStages \cup SaveStages => FALSE
  <2>1. SUFFICES ASSUME NEW u \in Requests, task[u].pc \in LoadStages \cup SaveStages PROVE FALSE
    OBVIOUS
  <2>2. task[u].slot # 0
    BY <2>1, Started DEF LoadStages, SaveStages
  <2>3. QED
    BY <2>1, <2>2 DEF Structure, CurrentInv, Current
<1>7. CurrentInv' /\ SettledInv'
  BY <1>5, <1>6 DEF CurrentInv, SettledInv, Current
<1>8. QED
  BY <1>3, <1>4, <1>7 DEF Structure

\* A sign-in replaces the slot's tokens when nobody has its mutex.
LEMMA RegisterLoginStructure ==
  ASSUME Structure, RegisterLogin
  PROVE  Structure'
<1>1. /\ UNCHANGED <<durable, lock, use, bounds>> /\ Go(User, "readBack")
      /\ task[User].pc = "register" /\ (registered # 0 => SlotFree(registered))
  BY DEF RegisterLogin, At
<1>2. task[User].credential \in Credentials
  BY <1>1, UserStarted DEF LoginStages
<1>3. TaskIs(User, "readBack", task[User].slot, task[User].time, task[User].credential,
             task[User].other, task[User].answer, task[User].sequel)
  BY <1>1, UserStarted, UserTypes, Names, GoEffect
<1>4. UserMoves
  BY <1>1, <1>2, <1>3, UserStarted
     DEF TaskIs, UserMoves, UserStages, LoginStages, DeleteStages, LockStages, LoadStages, SaveStages
<1>5. "Active" \in AuthStates /\ now' = now
  BY <1>1 DEF AuthStates, bounds
<1>6. CASE registered = 0 /\ InsertSlot(task[User].credential, "Active")
  <2>1. \A u \in Requests : task'[u] = task[u]
    BY <1>3, UserStarted DEF TaskIs, Others, Tasks
  <2>2. task' \in [Tasks -> TaskStates]
    BY <1>3 DEF TaskIs
  <2>3. StageInv' /\ LockInv'
    BY <1>4, <1>5, UserStage
  <2>4. QED
    BY <1>1, <1>2, <1>5, <1>6, <2>1, <2>2, <2>3, InsertStructure
<1>7. CASE /\ registered # 0 /\ Bump(registered)
           /\ SetSlot(registered, Fresh(TokenSet(task[User].credential), "Active"))
           /\ UNCHANGED registered
  <2> DEFINE q == Fresh(TokenSet(task[User].credential), "Active")
  <2>1. q \in TokenSlots /\ q.tokens \in Credentials
    BY <1>2, <1>5, FreshType, TokenSetType
  <2> HIDE DEF q
  <2>2. SetSlot(registered, q)
    BY <1>7 DEF q
  <2>3. slot' \in [Slots -> TokenSlots] /\ slot'[registered] = q /\ registered \in Slots
    BY <1>7, <2>1, <2>2, UserTypes DEF SetSlot, TypeOK
  <2>4. superseded' \subseteq Requests
    BY <1>7, UserTypes, BumpType
  <2>5. TypeOK'
    <3>1. Kept.tokens' \in Credentials
      BY <1>7, <2>1, <2>3 DEF Kept
    <3>2. task' \in [Tasks -> TaskStates]
      BY <1>3 DEF TaskIs
    <3>3. UNCHANGED <<primary, rotation, account, lock, use>>
      BY <1>1 DEF durable
    <3>4. lock' \in Tasks \cup {Nobody, Dead}
      BY <3>3, UserTypes DEF TypeOK
    <3>5. QED
      BY <1>1, <1>7, <2>3, <2>4, <3>1, <3>2, <3>3, <3>4, UserTypes, BoundsStay, TypeStep
  <2>6. QED
    BY <1>1, <1>4, <1>5, <1>7, <2>5, UserStructure
<1>8. CASE UNCHANGED memory
  <2>1. KeptStays /\ superseded' \subseteq Requests
    BY <1>8, UserTypes, MemoryStays DEF memory
  <2>2. QED
    BY <1>1, <1>4, <2>1, UserTypes, BoundsStay, UserWrites DEF durable
<1>9. QED
  BY <1>6, <1>7, <1>8 DEF RegisterLogin

\* The end of a sign-in touches the record alone.
LEMMA ReadBackStructure ==
  ASSUME Structure, ReadBack
  PROVE  Structure'
<1>1. /\ UNCHANGED <<primary, rotation, use, bounds>> /\ Leave(User)
      /\ \/ account' = account
         \/ registered # 0 /\ account' = [generation |-> Kept.tokens.generation, auth |-> Kept.auth_state]
  BY DEF ReadBack, LeaveUser, Kept
<1>2. registered # 0 => Kept.tokens \in Credentials /\ Kept \in TokenSlots
  BY UserTypes DEF TypeOK, Kept
<1>3. account' \in Accounts \cup {None}
  BY <1>1, <1>2, UserTypes DEF Accounts, Credentials, TokenSlots
<1>4. QED
  BY <1>1, <1>3, UserTypes, BoundsStay, UserLeaves

\* A deletion takes the process lock when it is free.
LEMMA DeleteCredentialStructure ==
  ASSUME Structure, DeleteCredential
  PROVE  Structure'
<1>1. /\ UNCHANGED <<rotation, account, memory, use, bounds>> /\ LockFree /\ lock' = User
      /\ primary' = None
      /\ task' = [task EXCEPT ![User].pc = "deleteJournal", ![User].other = primary]
  BY DEF DeleteCredential
<1>2. TaskIs(User, "deleteJournal", task[User].slot, task[User].time, task[User].credential, primary,
             task[User].answer, task[User].sequel)
  BY <1>1, UserStarted, UserTypes, Names, RememberEffect
<1>3. UserMoves
  BY <1>1, <1>2, UserStarted
     DEF TaskIs, UserMoves, UserStages, LoginStages, DeleteStages, LockStages, LoadStages, SaveStages
<1>4. KeptStays /\ superseded' \subseteq Requests
  BY <1>1, UserTypes, MemoryStays DEF memory
<1>5. QED
  BY <1>1, <1>3, <1>4, UserTypes, Names, BoundsStay, UserWrites

\* A deletion goes on under the lock.
LEMMA DeleteCheckpointStructure ==
  ASSUME Structure, DeleteCheckpoint
  PROVE  Structure'
<1>1. /\ UNCHANGED <<primary, account, lock, memory, use, bounds>> /\ rotation' = None
      /\ Go(User, "deleteAccount") /\ task[User].pc = "deleteJournal"
  BY DEF DeleteCheckpoint, At
<1>2. TaskIs(User, "deleteAccount", task[User].slot, task[User].time, task[User].credential,
             task[User].other, task[User].answer, task[User].sequel)
  BY <1>1, UserStarted, UserTypes, Names, GoEffect
<1>3. UserMoves
  BY <1>1, <1>2, UserStarted
     DEF TaskIs, UserMoves, UserStages, LoginStages, DeleteStages, LockStages, LoadStages, SaveStages
<1>4. KeptStays /\ superseded' \subseteq Requests
  BY <1>1, UserTypes, MemoryStays DEF memory
<1>5. QED
  BY <1>1, <1>3, <1>4, UserTypes, BoundsStay, UserWrites

\* The slot of a deleted account is retired by the holder of the process lock.
LEMMA DeleteAccountStructure ==
  ASSUME Structure, DeleteAccount
  PROVE  Structure'
<1>1. /\ UNCHANGED <<primary, rotation, superseded, use, now, edits, faults, crashes>>
      /\ registered' = 0 /\ account' = None /\ lock' = Unlocked(User)
      /\ buried' = {g \in Grants : use[g] # "none"}
      /\ slot' = [s \in Slots |-> IF \E t \in Requests : task[t].slot = s THEN slot[s] ELSE EmptySlot]
      /\ task' = [task EXCEPT ![User] = Idle] /\ task[User].pc = "deleteAccount"
  BY DEF DeleteAccount, At
<1>2. TaskIs(User, "idle", 0, 0, None, None, "none", "none")
  BY <1>1, UserStarted, UserTypes, ForgetEffect
<1>3. UserMoves
  BY <1>1, <1>2, UserStarted, TokenAssumption
     DEF TaskIs, UserMoves, UserStages, LoginStages, DeleteStages, LockStages, LoadStages, SaveStages
<1>4. StageInv' /\ LockInv'
  BY <1>1, <1>3, UserStage
<1>5. EmptySlot \in TokenSlots
  BY DEF EmptySlot, Fresh, TokenSlots, AuthStates, Stored
<1>6. TypeOK'
  <2>1. slot' \in [Slots -> TokenSlots] /\ buried' \subseteq Grants
    BY <1>1, <1>5, UserTypes DEF TypeOK
  <2>2. lock' \in Tasks \cup {Nobody, Dead} /\ task' \in [Tasks -> TaskStates]
    BY <1>1, <1>2, UserStarted, UserTypes, UnlockedType DEF TaskIs
  <2>3. QED
    BY <1>1, <2>1, <2>2, UserTypes DEF TypeOK
<1>7. \A u \in Requests : u \in Tasks /\ task'[u] = task[u] /\ (task[u].slot = 0 => task[u].pc = "idle")
  BY <1>2, UserStarted DEF TaskIs, Others, Tasks, Structure, StageInv, StageOf
<1>8. MutexInv'
  BY <1>7 DEF MutexInv, Structure
<1>9. lock = User
  BY <1>1, UserStarted DEF Structure, LockInv, LockStages, DeleteStages
<1>10. \A u \in Requests : task[u].pc \notin LockStages
  BY <1>7, <1>9, UserStarted DEF Structure, LockInv
<1>11. CurrentInv'
  BY <1>7, <1>10 DEF CurrentInv, LockStages
<1>12. SettledInv'
  BY <1>1, <1>7 DEF SettledInv, Current, ExchangeStages, LoadStages
<1>13. QED
  BY <1>4, <1>6, <1>8, <1>11, <1>12 DEF Structure

\* An edit reads outside the lock.
LEMMA StartEditStructure ==
  ASSUME Structure, StartEdit
  PROVE  Structure'
<1>1. /\ UNCHANGED <<durable, lock, memory, use, now, buried, faults, crashes>> /\ MayFail
      /\ edits' = edits + 1 /\ primary # None /\ task[User].pc = "idle"
      /\ task' = [task EXCEPT ![User].pc = "edit", ![User].credential = primary]
  BY DEF StartEdit, At
<1>2. Steady
  BY <1>1, UserTypes, TokenAssumption DEF TypeOK, MayFail, Steady
<1>3. TaskIs(User, "edit", task[User].slot, task[User].time, primary, task[User].other,
             task[User].answer, task[User].sequel)
  BY <1>1, UserStarted, UserTypes, Names, CarryEffect
<1>4. primary \in Credentials
  BY <1>1, UserTypes DEF Stored
<1>5. UserMoves
  BY <1>1, <1>3, <1>4, UserStarted
     DEF TaskIs, UserMoves, UserStages, LoginStages, DeleteStages, LockStages, LoadStages, SaveStages
<1>6. KeptStays /\ superseded' \subseteq Requests
  BY <1>1, UserTypes, MemoryStays DEF memory
<1>7. QED
  BY <1>1, <1>2, <1>5, <1>6, UserTypes, UserWrites DEF durable

\* Other settings make it no other credential.
LEMMA ReroutedType ==
  ASSUME NEW c \in Credentials
  PROVE  Rerouted(c) \in Credentials
  BY DEF Rerouted, Credentials

\* And writes outside the lock.
LEMMA SaveEditStructure ==
  ASSUME Structure, SaveEdit
  PROVE  Structure'
<1>1. UNCHANGED <<rotation, account, use, bounds>> /\ task[User].pc = "edit"
  BY DEF SaveEdit, At
<1>2. task[User].credential \in Credentials
  BY <1>1, UserStarted
<1>3. CASE MayOverwrite(task[User].credential)
  <2>1. primary' = Rerouted(task[User].credential) /\ Go(User, "edited") /\ UNCHANGED <<lock, memory>>
    BY <1>3 DEF SaveEdit
  <2>2. primary' \in Stored
    BY <1>2, <2>1, ReroutedType, Names
  <2>3. TaskIs(User, "edited", task[User].slot, task[User].time, task[User].credential,
               task[User].other, task[User].answer, task[User].sequel)
    BY <2>1, UserStarted, UserTypes, Names, GoEffect
  <2>4. UserMoves
    BY <1>1, <1>2, <2>1, <2>3, UserStarted
       DEF TaskIs, UserMoves, UserStages, LoginStages, DeleteStages, LockStages, LoadStages, SaveStages
  <2>5. KeptStays /\ superseded' \subseteq Requests
    BY <2>1, UserTypes, MemoryStays DEF memory
  <2>6. QED
    BY <1>1, <2>2, <2>4, <2>5, UserTypes, BoundsStay, UserWrites
<1>4. CASE ~MayOverwrite(task[User].credential)
  <2>1. Leave(User) /\ primary' = primary
    BY <1>4 DEF SaveEdit, LeaveUser
  <2>2. QED
    BY <1>1, <2>1, UserTypes, BoundsStay, UserLeaves
<1>5. QED
  BY <1>3, <1>4

\* An edit ends.
LEMMA FinishEditStructure ==
  ASSUME Structure, FinishEdit
  PROVE  Structure'
<1>1. UNCHANGED <<durable, use, bounds>> /\ Leave(User)
  BY DEF FinishEdit, LeaveUser
<1>2. QED
  BY <1>1, UserTypes, BoundsStay, UserLeaves DEF durable

-----------------------------------------------------------------------------
(* Failures and time *)

\* A request whose storage fails answers, or drops what it holds.
LEMMA RequestFaultStructure ==
  ASSUME Structure, NEW t \in Requests, StorageFault(t)
  PROVE  Structure'
<1>1. UNCHANGED <<account, use>> /\ Steady
  BY UserTypes, FaultCounts DEF StorageFault
<1>2. "transient" \in Answers \ {"ok"}
  BY DEF Answers
<1>3. CASE /\ task[t].pc \in {"exchange", "recovered", "decide", "answered"}
           /\ Answer(t, "transient") /\ UNCHANGED <<primary, rotation, memory>>
  <2>1. task[t].pc \in ExchangeStages
    BY <1>3 DEF ExchangeStages, LoadStages
  <2>2. QED
    BY <1>1, <1>2, <1>3, <2>1, UserTypes, AnswerStructure
<1>4. CASE /\ task[t].pc \in {"rotated", "saved"} \/ (At(t, "answered") /\ task[t].answer = "ok")
           /\ AnswerOk(t, task[t].other) /\ UNCHANGED <<primary, rotation, memory>>
  <2>1. BringsPair(t) /\ task[t].pc \in ExchangeStages /\ task[t].pc # "idle"
    BY <1>4 DEF BringsPair, At, ExchangeStages, LoadStages
  <2>2. task[t].other \in Credentials
    BY <2>1, Started DEF StageOf
  <2>3. QED
    BY <1>1, <1>4, <2>1, <2>2, UserTypes, AnswerOkStructure
<1>5. CASE Leave(t) /\ UNCHANGED <<primary, rotation>>
  BY <1>1, <1>5, UserTypes, LeaveWriting
<1>6. CASE task[t].pc \in {"loginAccount", "edited", "deleteJournal", "deleteAccount"}
  <2>1. task[t].pc \in RequestStages
    BY <1>6, Started DEF StageOf
  <2>2. QED
    BY <1>6, <2>1 DEF RequestStages, Inside
<1>7. \/ /\ task[t].pc \in {"exchange", "recovered", "decide", "answered"}
         /\ Answer(t, "transient") /\ UNCHANGED <<primary, rotation, memory>>
      \/ /\ task[t].pc \in {"rotated", "saved"} \/ (At(t, "answered") /\ task[t].answer = "ok")
         /\ AnswerOk(t, task[t].other) /\ UNCHANGED <<primary, rotation, memory>>
      \/ Leave(t) /\ UNCHANGED <<primary, rotation>>
      \/ task[t].pc \in {"loginAccount", "edited", "deleteJournal", "deleteAccount"}
  BY SMT DEF StorageFault, At
<1>8. QED
  BY <1>3, <1>4, <1>5, <1>6, <1>7

\* A command whose storage fails drops the lock.
LEMMA UserFaultStructure ==
  ASSUME Structure, StorageFault(User)
  PROVE  Structure'
<1>1. UNCHANGED <<account, use>> /\ Steady
  BY UserTypes, FaultCounts DEF StorageFault
<1>2. task[User].pc \notin {"exchange", "recovered", "decide", "answered", "rotated", "saved"}
  BY UserStarted DEF UserStages, DeleteStages, LoginStages
<1>3. Leave(User)
  BY <1>2 DEF StorageFault, At
<1>4. primary' \in Stored /\ rotation' \in Checkpoints \cup {None}
  BY <1>2, UserStarted, UserTypes DEF StorageFault, At
<1>5. QED
  BY <1>1, <1>3, <1>4, UserTypes, UserLeaves

\* A request that waited too long for the lock holds none.
LEMMA LockTimeoutStructure ==
  ASSUME Structure, NEW t \in Tasks, LockTimeout(t)
  PROVE  Structure'
<1>1. UNCHANGED <<durable, use, bounds>> /\ task[t].pc \in {"exchange", "save", "auth"}
  BY DEF LockTimeout, LockWaits, At
<1>2. t \in Requests
  BY <1>1, UserStarted DEF UserStages, DeleteStages, LoginStages, Tasks
<1>3. CASE Leave(t)
  BY <1>1, <1>2, <1>3, LeaveStructure
<1>4. CASE At(t, "exchange") /\ Answer(t, "transient") /\ UNCHANGED memory
  <2>1. task[t].pc \in ExchangeStages /\ "transient" \in Answers \ {"ok"}
    BY <1>4 DEF At, ExchangeStages, Answers
  <2>2. QED
    BY <1>1, <1>2, <1>4, <2>1, UserTypes, BoundsStay, AnswerStructure DEF durable
<1>5. QED
  BY <1>3, <1>4 DEF LockTimeout

\* After a stop nobody holds anything; the lock file names a dead process.
LEMMA CrashStructure ==
  ASSUME Structure, Crash
  PROVE  Structure'
<1>1. /\ task' = [t \in Tasks |-> Idle] /\ registered' = 0 /\ slot' = [s \in Slots |-> EmptySlot]
      /\ superseded' = {} /\ lock' = IF lock \in Tasks THEN Dead ELSE lock
      /\ use' = [g \in Grants |-> IF use[g] = "flying" THEN "unknown" ELSE use[g]]
      /\ crashes' = crashes + 1 /\ MayFail /\ UNCHANGED <<durable, now, buried, edits, faults>>
  BY DEF Crash
<1>2. EmptySlot \in TokenSlots
  BY DEF EmptySlot, Fresh, TokenSlots, AuthStates, Stored
<1>3. lock' \notin Tasks /\ lock' \in Tasks \cup {Nobody, Dead}
  BY <1>1, UserTypes, TokenAssumption DEF TypeOK
<1>4. TypeOK'
  <2>1. task' \in [Tasks -> TaskStates]
    BY <1>1, IdleType
  <2>2. use' \in [Grants -> {"none", "fresh", "flying", "spent", "refused", "lost", "unknown"}]
    BY <1>1, UserTypes
  <2>3. slot' \in [Slots -> TokenSlots]
    BY <1>1, <1>2
  <2>4. edits' + faults' + crashes' <= MaxMishaps /\ crashes' \in Nat
    BY <1>1, UserTypes, TokenAssumption DEF TypeOK, MayFail
  <2>5. QED
    BY <1>1, <1>3, <2>1, <2>2, <2>3, <2>4, UserTypes DEF TypeOK, durable
<1>5. \A t \in Tasks : /\ task'[t].pc = "idle" /\ task'[t].slot = 0 /\ task'[t].time = 0
                       /\ task'[t].answer = "none"
  BY <1>1 DEF Idle
<1>6. StageInv'
  BY <1>1, <1>5, UserStarted, TokenAssumption
     DEF StageInv, StageOf, UserStages, RequestStages, LoadStages, SaveStages, LoginStages, Ok,
         BringsPair, At
<1>7. LockInv'
  BY <1>3, <1>5 DEF LockInv, LockStages, LoadStages, SaveStages, DeleteStages
<1>8. MutexInv' /\ CurrentInv' /\ SettledInv'
  BY <1>5 DEF MutexInv, CurrentInv, SettledInv, Inside, LoadStages, SaveStages, ExchangeStages, Tasks
<1>9. QED
  BY <1>4, <1>6, <1>7, <1>8 DEF Structure

\* The runtime starts with a slot of its own.
LEMMA AssembleStructure ==
  ASSUME Structure, Assemble
  PROVE  Structure'
<1>1. /\ registered = 0 /\ primary # None /\ account # None /\ InsertSlot(primary, account.auth)
      /\ UNCHANGED <<durable, lock, task, use, bounds>>
  BY DEF Assemble
<1>2. primary \in Credentials /\ account.auth \in AuthStates
  BY <1>1, UserTypes DEF Stored, Accounts
<1>3. task' \in [Tasks -> TaskStates] /\ StageInv' /\ LockInv'
  BY <1>1 DEF Structure, TypeOK, StageInv, StageOf, LockInv, Ok, BringsPair, At, bounds
<1>4. QED
  BY <1>1, <1>2, <1>3, InsertStructure

\* The lock file of a dead process is nobody's.
LEMMA BreakLockStructure ==
  ASSUME Structure, BreakLock
  PROVE  Structure'
<1>1. lock = Dead /\ lock' = Nobody /\ UNCHANGED <<durable, memory, task, use, bounds>>
  BY DEF BreakLock
<1>2. LockInv'
  BY <1>1, TokenAssumption DEF Structure, LockInv
<1>3. TypeOK'
  BY <1>1 DEF Structure, TypeOK, durable, memory, bounds
<1>4. StageInv' /\ MutexInv' /\ CurrentInv' /\ SettledInv'
  BY <1>1 DEF Structure, StageInv, StageOf, MutexInv, CurrentInv, SettledInv, Ok, BringsPair, At,
              Current, Kept, memory, bounds
<1>5. QED
  BY <1>2, <1>3, <1>4 DEF Structure

\* No task's clock is ahead of the time.
LEMMA TickStructure ==
  ASSUME Structure, Tick
  PROVE  Structure'
<1>1. /\ now < MaxTime /\ now' = now + 1
      /\ UNCHANGED <<durable, lock, memory, task, use, buried, edits, faults, crashes>>
  BY DEF Tick
<1>2. TypeOK'
  BY <1>1, TokenAssumption DEF Structure, TypeOK, durable, memory
<1>3. StageInv'
  <2>1. SUFFICES ASSUME NEW t \in Tasks PROVE StageOf(t)'
    BY DEF StageInv
  <2>2. StageOf(t) /\ task' = task /\ task[t].time \in 0..MaxTime /\ now \in 0..MaxTime
    BY <1>1 DEF Structure, TypeOK, StageInv, TaskStates
  <2>3. QED
    BY <1>1, <2>2, TokenAssumption DEF StageOf, Ok, BringsPair, At
<1>4. LockInv' /\ MutexInv' /\ CurrentInv' /\ SettledInv'
  BY <1>1 DEF Structure, LockInv, MutexInv, CurrentInv, SettledInv, Current, Kept, memory
<1>5. QED
  BY <1>2, <1>3, <1>4 DEF Structure

\* Nothing happens.
LEMMA StutterStructure ==
  ASSUME Structure, UNCHANGED vars
  PROVE  Structure'
  BY DEF Structure, TypeOK, StageInv, StageOf, LockInv, MutexInv, CurrentInv, SettledInv, Ok,
         BringsPair, At, Current, Kept, vars, durable, memory, bounds

\* Every step of a request keeps the structure.
LEMMA StepStructure ==
  ASSUME Structure, NEW t \in Requests, Step(t)
  PROVE  Structure'
  BY EnterSlotStructure, WritePendingStructure, HealReusedStructure, RefusePreparationStructure,
     PrepareReadyStructure, StartRefreshStructure, LoadStructure, ForgetRecoveredStructure,
     UseStoredStructure, CheckpointGrantStructure, SendStructure, ProviderRotatesStructure,
     ProviderFailsStructure, OvertakenStructure, CheckpointRotationStructure, FailRefreshStructure,
     SaveRotatedStructure, ForgetRotatedStructure, InstallRefreshedStructure, InstallReauthStructure,
     DropResultStructure, SaveTokensStructure, ClearCheckpointStructure, SaveGenerationStructure,
     SaveAuthStructure, DispatchStructure, InvalidateStructure, LeaveStructure
  DEF Step, Accepted

\* Every step keeps it.
LEMMA NextStructure ==
  ASSUME Structure, [Next]_vars
  PROVE  Structure'
<1>1. ASSUME NEW t \in Requests, PrepareStart(t) \/ Step(t) \/ Cancel(t) PROVE Structure'
  BY <1>1, PrepareStartStructure, StepStructure, CancelStructure
<1>2. CASE CommitLogin \/ DeleteCredential \/ StartEdit \/ UserStep
  BY <1>2, CommitLoginStructure, DeleteCredentialStructure, StartEditStructure, RecordLoginStructure,
     RegisterLoginStructure, ReadBackStructure, DeleteCheckpointStructure, DeleteAccountStructure,
     SaveEditStructure, FinishEditStructure DEF UserStep
<1>3. ASSUME NEW t \in Tasks, StorageFault(t) \/ LockTimeout(t) PROVE Structure'
  BY <1>3, RequestFaultStructure, UserFaultStructure, LockTimeoutStructure DEF Tasks
<1>4. CASE Crash \/ Assemble \/ BreakLock \/ Tick
  BY <1>4, CrashStructure, AssembleStructure, BreakLockStructure, TickStructure
<1>5. CASE UNCHANGED vars
  BY <1>5, StutterStructure
<1>6. QED
  BY <1>1, <1>2, <1>3, <1>4, <1>5 DEF Next

\* The first credential is the one the account signed in with.
LEMMA InitTypes ==
  ASSUME Init
  PROVE  /\ 1 \in Grants /\ primary \in Credentials /\ primary.grant = 1 /\ ~primary.cut
         /\ account \in Accounts
         /\ use \in [Grants -> {"none", "fresh", "flying", "spent", "refused", "lost", "unknown"}]
         /\ EmptySlot \in TokenSlots
<1>1. 1 \in Grants /\ 0 \in 0..MaxTime
  BY TokenAssumption DEF Grants
<1>2. primary = [grant |-> 1, generation |-> 1, issued_at |-> 0, cut |-> FALSE, proxy |-> FALSE]
  BY DEF Init
<1>3. primary \in Credentials
  BY <1>1, <1>2 DEF Credentials
<1>4. account \in Accounts
  BY DEF Init, Accounts, AuthStates
<1>5. use \in [Grants -> {"none", "fresh", "flying", "spent", "refused", "lost", "unknown"}]
  BY DEF Init
<1>6. EmptySlot \in TokenSlots
  BY DEF EmptySlot, Fresh, TokenSlots, AuthStates, Stored
<1>7. QED
  BY <1>1, <1>2, <1>3, <1>4, <1>5, <1>6

\* Nobody has started, and no slot is registered.
LEMMA InitIdle ==
  ASSUME Init
  PROVE  /\ rotation = None /\ lock = Nobody /\ registered = 0 /\ slot = [s \in Slots |-> EmptySlot]
         /\ superseded = {} /\ task = [t \in Tasks |-> Idle] /\ now = 0 /\ buried = {}
         /\ edits = 0 /\ faults = 0 /\ crashes = 0
         /\ \A t \in Tasks : /\ task[t].pc = "idle" /\ task[t].slot = 0 /\ task[t].time = 0
                             /\ task[t].answer = "none"
<1>1. /\ rotation = None /\ lock = Nobody /\ registered = 0 /\ slot = [s \in Slots |-> EmptySlot]
      /\ superseded = {} /\ task = [t \in Tasks |-> Idle] /\ now = 0 /\ buried = {}
      /\ edits = 0 /\ faults = 0 /\ crashes = 0
  BY DEF Init
<1>2. QED
  BY <1>1 DEF Idle

\* It holds when the program starts.
LEMMA InitStructure ==
  ASSUME Init
  PROVE  Structure
<1>1. /\ rotation = None /\ lock = Nobody /\ registered = 0 /\ slot = [s \in Slots |-> EmptySlot]
      /\ superseded = {} /\ task = [t \in Tasks |-> Idle] /\ now = 0 /\ buried = {}
      /\ edits = 0 /\ faults = 0 /\ crashes = 0
  BY InitIdle
<1>2. TypeOK
  BY <1>1, InitTypes, IdleType, TokenAssumption DEF TypeOK, Stored
<1>3. \A t \in Tasks : /\ task[t].pc = "idle" /\ task[t].slot = 0 /\ task[t].time = 0
                       /\ task[t].answer = "none"
  BY InitIdle
<1>4. StageInv
  BY <1>1, <1>3, TokenAssumption
     DEF StageInv, StageOf, UserStages, RequestStages, LoadStages, SaveStages, LoginStages, Ok,
         BringsPair, At
<1>5. LockInv
  BY <1>1, <1>3, TokenAssumption DEF LockInv, LockStages, LoadStages, SaveStages, DeleteStages
<1>6. MutexInv /\ CurrentInv /\ SettledInv
  BY <1>3 DEF MutexInv, CurrentInv, SettledInv, Inside, LoadStages, SaveStages, ExchangeStages, Tasks
<1>7. QED
  BY <1>2, <1>4, <1>5, <1>6 DEF Structure

\* Who holds what, in every state.
THEOREM StructureHolds == Spec => []Structure
<1>1. Init => Structure
  BY InitStructure
<1>2. Structure /\ [Next]_vars => Structure'
  BY NextStructure
<1>3. QED
  BY <1>1, <1>2, PTL DEF Spec

\* Every state is well formed.
THEOREM TypeCorrect == Spec => []TypeOK
<1>1. Structure => TypeOK
  BY DEF Structure
<1>2. QED
  BY <1>1, StructureHolds, PTL

-----------------------------------------------------------------------------
(* What a prepared token knows of its slot *)

\* The token a request took is the one its slot holds, unless it was told.
PreparedOf(u) ==
  task[u].pc \in {"prepared", "sent"} /\ GuardHolds(u) =>
    /\ Kept.tokens = task[u].credential /\ ~Kept.tokens.cut
    /\ Kept.auth_state # "Reauth" /\ ~Kept.persistence_pending

\* Whoever renews has told the requests with a token of its slot.
SupersededOf(t, u) ==
  /\ task[t].pc \in ExchangeStages /\ Current(t)
  /\ task[u].pc \in {"prepared", "sent"} /\ task[u].slot = task[t].slot
  => u \in superseded

\* The tokens of a renewal stay in the slot until they are written and handed over.
RefreshedOf(t) ==
  task[t].pc \in WriteStages /\ task[t].sequel = "refreshed" /\ Current(t) =>
    /\ ~Kept.tokens.cut /\ Kept.auth_state = "Active"
    /\ At(t, "auth") => ~Kept.persistence_pending

DispatchInv ==
  /\ \A u \in Requests : PreparedOf(u)
  /\ \A t, u \in Requests : SupersededOf(t, u)
  /\ \A t \in Requests : RefreshedOf(t)

\* What a step of task t makes of the registered slot: it writes down at most
\* that nothing is pending, tells those with a token of the slot, or belongs
\* to the renewal that told them.
Told == \A u \in Requests : task[u].slot = registered /\ task[u].pc \in {"prepared", "sent"} => u \in superseded'
Unmoved ==
  registered # 0 => /\ Kept.tokens' = Kept.tokens /\ Kept.auth_state' = Kept.auth_state
                    /\ Kept.persistence_pending' \in {Kept.persistence_pending, FALSE}
Alone(t) == SlotFree(registered) \/ (task[t].pc \in Inside /\ task[t].slot = registered)
Tells(t) ==
  \/ Unmoved
  \/ Told /\ Alone(t)
  \/ t \in Requests /\ task[t].pc \in ExchangeStages /\ Current(t)

\* A bump tells everybody who has a token of the slot.
LEMMA ToldByBump ==
  ASSUME Bump(registered)
  PROVE  Told
  BY DEF Bump, Told

\* Nobody else is inside the slot of a task that is.
LEMMA AloneInside ==
  ASSUME Structure, NEW t \in Tasks, NEW u \in Requests, u # t, Alone(t), Current(u)
  PROVE  task[u].pc \notin Inside
<1>1. u \in Tasks
  BY DEF Tasks
<1>2. t = User \/ t \in Requests
  BY DEF Tasks
<1>3. QED
  BY <1>1, <1>2, UserStarted DEF Alone, SlotFree, Structure, MutexInv, Current

\* A step of task t keeps what the other requests know, and what it knows
\* itself it has taken from its slot.
LEMMA DispatchStep ==
  ASSUME Structure, DispatchInv, NEW t \in Tasks, Others(t), registered' = registered,
         superseded \ {t} \subseteq superseded', Tells(t),
         t \in Requests => PreparedOf(t)' /\ RefreshedOf(t)',
         t \in Requests /\ task'[t].pc \in ExchangeStages /\ Current(t)' =>
           Told \/ (task[t].pc \in ExchangeStages /\ task'[t].slot = task[t].slot),
         t \in Requests /\ task'[t].pc \in {"prepared", "sent"} =>
           /\ task'[t].slot = task[t].slot
           /\ task[t].pc \in Inside \/ (task[t].pc \in {"prepared", "sent"} /\ superseded' = superseded)
  PROVE  DispatchInv'
<1>1. \A u \in Requests : u \in Tasks /\ (u # t => task'[u] = task[u])
  BY DEF Tasks, Others
<1>2. t \in Requests /\ task[t].pc \in ExchangeStages /\ Current(t) => Alone(t)
  BY DEF Alone, ExchangeStages, LoadStages, Inside, Current
<1>3. Unmoved \/ Alone(t)
  BY <1>2 DEF Tells
<1>4. ASSUME NEW u \in Requests, u # t PROVE PreparedOf(u)'
  <2>1. SUFFICES ASSUME task[u].pc \in {"prepared", "sent"}, registered = task[u].slot, u \notin superseded'
                 PROVE  /\ Kept.tokens' = task[u].credential /\ ~Kept.tokens'.cut
                        /\ Kept.auth_state' # "Reauth" /\ ~Kept.persistence_pending'
    BY <1>1, <1>4 DEF PreparedOf, GuardHolds, Current
  <2>2. u \notin superseded /\ registered # 0 /\ task[u].pc \notin Inside
    BY <1>4, <2>1, Started DEF Inside
  <2>3. Unmoved
    BY <1>4, <2>1, <2>2 DEF Tells, Told, DispatchInv, SupersededOf, Current
  <2>4. PreparedOf(u)
    BY DEF DispatchInv
  <2>5. QED
    BY <2>1, <2>2, <2>3, <2>4 DEF PreparedOf, GuardHolds, Current, Unmoved
<1>5. ASSUME NEW u \in Requests, u # t PROVE RefreshedOf(u)'
  <2>1. SUFFICES ASSUME task[u].pc \in WriteStages, task[u].sequel = "refreshed", registered = task[u].slot
                 PROVE  /\ ~Kept.tokens'.cut /\ Kept.auth_state' = "Active"
                        /\ At(u, "auth") => ~Kept.persistence_pending'
    BY <1>1, <1>5 DEF RefreshedOf, Current, At
  <2>2. task[u].pc \in Inside /\ task[u].pc # "idle"
    BY <2>1 DEF WriteStages, SaveStages, Inside
  <2>3. registered # 0
    BY <2>1, <2>2, Started
  <2>4. Unmoved
    BY <1>3, <1>5, <2>1, <2>2, AloneInside DEF Current
  <2>5. RefreshedOf(u)
    BY DEF DispatchInv
  <2>6. QED
    BY <2>1, <2>3, <2>4, <2>5 DEF RefreshedOf, Current, Unmoved
<1>6. ASSUME NEW v \in Requests, NEW u \in Requests PROVE SupersededOf(v, u)'
  <2>1. SUFFICES ASSUME task'[v].pc \in ExchangeStages, registered = task'[v].slot,
                        task'[u].pc \in {"prepared", "sent"}, task'[u].slot = task'[v].slot
                 PROVE  u \in superseded'
    BY DEF SupersededOf, Current
  <2>2. u # v
    BY <2>1 DEF ExchangeStages, LoadStages
  <2>3. CASE v # t /\ u # t
    BY <1>1, <2>1, <2>3 DEF DispatchInv, SupersededOf, Current
  <2>4. CASE v = t
    <3>1. task'[u] = task[u] /\ registered = task'[t].slot
      BY <1>1, <2>1, <2>2, <2>4
    <3>2. CASE Told
      BY <2>1, <3>1, <3>2 DEF Told
    <3>3. CASE task[t].pc \in ExchangeStages /\ task'[t].slot = task[t].slot
      BY <2>1, <2>2, <2>4, <3>1, <3>3 DEF DispatchInv, SupersededOf, Current
    <3>4. QED
      BY <2>1, <2>4, <3>2, <3>3 DEF Current
  <2>5. CASE u = t
    <3>1. task'[v] = task[v]
      BY <1>1, <2>2, <2>5
    <3>2. task[v].pc \in Inside
      BY <2>1, <3>1 DEF ExchangeStages, LoadStages, Inside
    <3>3. task[t].slot = task[v].slot
      BY <2>1, <2>5, <3>1
    <3>4. task[t].pc \notin Inside
      BY <2>2, <2>5, <3>2, <3>3 DEF Structure, MutexInv
    <3>5. task[t].pc \in {"prepared", "sent"} /\ superseded' = superseded
      BY <2>1, <2>5, <3>4
    <3>6. QED
      BY <2>1, <2>5, <3>1, <3>3, <3>5 DEF DispatchInv, SupersededOf, Current
  <2>6. QED
    BY <2>3, <2>4, <2>5
<1>7. QED
  BY <1>4, <1>5, <1>6 DEF DispatchInv

\* A task that leaves takes nothing with it.
LEMMA LeaveDispatch ==
  ASSUME Structure, DispatchInv, NEW t \in Tasks, TaskIs(t, "idle", 0, 0, None, None, "none", "none"),
         superseded' = superseded \ {t}, registered' = registered, Tells(t)
  PROVE  DispatchInv'
<1>1. PreparedOf(t)' /\ RefreshedOf(t)' /\ task'[t].pc \notin ExchangeStages
  BY DEF TaskIs, PreparedOf, RefreshedOf, WriteStages, SaveStages, ExchangeStages, LoadStages
<1>2. task'[t].pc \notin {"prepared", "sent"} /\ Others(t)
  BY DEF TaskIs
<1>3. QED
  BY <1>1, <1>2, DispatchStep

\* A task that leaves tells nobody anything.
LEMMA LeavesDispatch ==
  ASSUME Structure, DispatchInv, NEW t \in Tasks, Leave(t)
  PROVE  DispatchInv'
<1>1. /\ TaskIs(t, "idle", 0, 0, None, None, "none", "none") /\ KeptStays
      /\ superseded' = superseded \ {t}
  BY LeaveKeeps DEF Structure
<1>2. registered' = registered /\ Tells(t)
  BY <1>1 DEF KeptStays, KeptIs, Tells, Unmoved, Kept
<1>3. QED
  BY <1>1, <1>2, LeaveDispatch

\* The adapter leaves the slots alone.
LEMMA AdapterDispatch ==
  ASSUME Structure, DispatchInv, NEW t \in Requests, Others(t), UNCHANGED memory,
         task[t].pc \in ExchangeStages, task'[t].pc \in ExchangeStages, task'[t].slot = task[t].slot
  PROVE  DispatchInv'
<1>1. t \in Tasks /\ registered' = registered /\ superseded \ {t} \subseteq superseded'
  BY DEF memory, Tasks
<1>2. Tells(t)
  BY DEF memory, Tells, Unmoved, Kept
<1>3. PreparedOf(t)' /\ RefreshedOf(t)' /\ task'[t].pc \notin {"prepared", "sent"}
  BY DEF PreparedOf, RefreshedOf, WriteStages, SaveStages, ExchangeStages, LoadStages
<1>4. QED
  BY <1>1, <1>2, <1>3, DispatchStep

\* So does a request on its way to a token, and one that writes.
LEMMA WaitDispatch ==
  ASSUME Structure, DispatchInv, NEW t \in Requests, Others(t), UNCHANGED memory,
         task'[t].pc \in {"slotLock", "entered"} \cup WriteStages,
         task'[t].pc \in WriteStages /\ task'[t].sequel = "refreshed" =>
           /\ task[t].pc \in WriteStages /\ task[t].sequel = "refreshed" /\ task'[t].slot = task[t].slot
           /\ task'[t].pc # "auth"
  PROVE  DispatchInv'
<1>1. t \in Tasks /\ registered' = registered /\ superseded \ {t} \subseteq superseded' /\ slot' = slot
  BY DEF memory, Tasks
<1>2. Tells(t)
  BY <1>1 DEF Tells, Unmoved, Kept
<1>3. /\ PreparedOf(t)' /\ task'[t].pc \notin {"prepared", "sent"}
      /\ task'[t].pc \notin ExchangeStages
  BY DEF PreparedOf, WriteStages, SaveStages, ExchangeStages, LoadStages
<1>4. RefreshedOf(t)'
  BY <1>1 DEF DispatchInv, RefreshedOf, Current, Kept, At
<1>5. QED
  BY <1>1, <1>2, <1>3, <1>4, DispatchStep

\* The steps of the refresh adapter.
Adapter(t) ==
  \/ Load(t) \/ ForgetRecovered(t) \/ UseStored(t) \/ CheckpointGrant(t) \/ Send(t)
  \/ ProviderRotates(t) \/ ProviderFails(t) \/ Overtaken(t) \/ CheckpointRotation(t)
  \/ FailRefresh(t) \/ SaveRotated(t) \/ ForgetRotated(t)

\* A renewal stays with its slot until it returns.
Stays(t) ==
  /\ Others(t) /\ UNCHANGED memory
  /\ task[t].pc \in ExchangeStages /\ task'[t].pc \in ExchangeStages
  /\ task'[t].slot = task[t].slot

\* An answer is such a step.
LEMMA AnswerStays ==
  ASSUME TypeOK, NEW t \in Requests, NEW answer, Answer(t, answer) \/ AnswerOk(t, answer),
         UNCHANGED memory, task[t].pc \in ExchangeStages
  PROVE  Stays(t)
<1>1. t \in Tasks /\ task \in [Tasks -> TaskStates]
  BY DEF TypeOK, Tasks
<1>2. Others(t)
  BY <1>1 DEF Answer, AnswerOk, Others
<1>3. task'[t].pc = "returned" /\ task'[t].slot = task[t].slot
  BY <1>1 DEF Answer, AnswerOk, TaskStates
<1>4. QED
  BY <1>2, <1>3 DEF Stays, ExchangeStages

\* The adapter goes on and leaves the slot alone.
LEMMA GoStays ==
  ASSUME TypeOK, NEW t \in Requests, NEW stage \in LoadStages, Go(t, stage),
         UNCHANGED memory, task[t].pc \in ExchangeStages
  PROVE  Stays(t)
<1>1. t \in Tasks /\ task \in [Tasks -> TaskStates]
  BY DEF TypeOK, Tasks
<1>2. Others(t) /\ task'[t].pc = stage /\ task'[t].slot = task[t].slot
  BY <1>1 DEF Go, Others, TaskStates
<1>3. QED
  BY <1>2 DEF Stays, ExchangeStages

\* So does every step of the adapter.
LEMMA AdapterStays ==
  ASSUME TypeOK, NEW t \in Requests, Adapter(t)
  PROVE  Stays(t)
<1>1. t \in Tasks /\ task \in [Tasks -> TaskStates]
  BY DEF TypeOK, Tasks
<1>2. UNCHANGED memory /\ task[t].pc \in ExchangeStages
  BY DEF Adapter, Load, ForgetRecovered, UseStored, CheckpointGrant, Send, ProviderRotates, ProviderFails,
         Overtaken, CheckpointRotation, FailRefresh, SaveRotated, ForgetRotated, At, ExchangeStages,
         LoadStages
<1>3. CASE Load(t)
  <2>1. CASE LoadStored(t) \/ RecoverRotation(t)
    <3>1. Others(t) /\ task'[t].pc \in ExchangeStages /\ task'[t].slot = task[t].slot
      BY <1>1, <2>1 DEF LoadStored, RecoverRotation, Others, TaskStates, ExchangeStages, LoadStages
    <3>2. QED
      BY <1>2, <3>1 DEF Stays
  <2>2. CASE Answer(t, "recovery") \/ Answer(t, "transient")
    BY <1>2, <2>2, AnswerStays
  <2>3. QED
    BY <1>3, <2>1, <2>2 DEF Load, RequireRecovery
<1>4. CASE ForgetRecovered(t) \/ Send(t) \/ CheckpointRotation(t) \/ SaveRotated(t)
  BY <1>2, <1>4, GoStays DEF ForgetRecovered, Send, CheckpointRotation, SaveRotated, LoadStages
<1>5. CASE UseStored(t) \/ Overtaken(t) \/ FailRefresh(t) \/ ForgetRotated(t)
  BY <1>2, <1>5, AnswerStays DEF UseStored, Overtaken, FailRefresh, ForgetRotated
<1>6. CASE CheckpointGrant(t)
  <2>1. Go(t, "send") \/ Answer(t, "transient")
    BY <1>6 DEF CheckpointGrant
  <2>2. QED
    BY <1>2, <2>1, GoStays, AnswerStays DEF LoadStages
<1>7. CASE ProviderRotates(t) \/ ProviderFails(t)
  <2>1. Others(t) /\ task'[t].pc \in ExchangeStages /\ task'[t].slot = task[t].slot
    BY <1>1, <1>7 DEF ProviderRotates, ProviderFails, Others, TaskStates, ExchangeStages, LoadStages
  <2>2. QED
    BY <1>2, <2>1 DEF Stays
<1>8. QED
  BY <1>3, <1>4, <1>5, <1>6, <1>7 DEF Adapter

\* The tokens handed over stay what the slot has.
LEMMA StaysDispatch ==
  ASSUME Structure, DispatchInv, NEW t \in Requests, Stays(t)
  PROVE  DispatchInv'
  BY AdapterDispatch DEF Stays

\* A request that starts has no token.
LEMMA PrepareStartDispatch ==
  ASSUME Structure, DispatchInv, NEW t \in Requests, PrepareStart(t)
  PROVE  DispatchInv'
<1>1. TaskIs(t, "slotLock", registered, now, task[t].credential, task[t].other,
             task[t].answer, task[t].sequel)
  BY PrepareStartEffect DEF Structure
<1>2. Others(t) /\ UNCHANGED memory /\ task'[t].pc = "slotLock"
  BY <1>1 DEF TaskIs, PrepareStart
<1>3. QED
  BY <1>2, WaitDispatch DEF WriteStages, SaveStages

\* Nor has one that enters.
LEMMA EnterSlotDispatch ==
  ASSUME Structure, DispatchInv, NEW t \in Requests, EnterSlot(t)
  PROVE  DispatchInv'
<1>1. t \in Tasks /\ TypeOK
  BY DEF Tasks, Structure
<1>2. CASE Current(t)
  <2>1. Go(t, "entered") /\ UNCHANGED memory
    BY <1>2 DEF EnterSlot, memory
  <2>2. Others(t) /\ task'[t].pc = "entered"
    BY <1>1, <2>1, Names, GoEffect DEF TaskIs, Inside
  <2>3. QED
    BY <2>1, <2>2, WaitDispatch DEF WriteStages, SaveStages
<1>3. CASE ~Current(t)
  BY <1>1, <1>3, LeavesDispatch DEF EnterSlot
<1>4. QED
  BY <1>2, <1>3

\* A write of what is pending changes no token.
LEMMA WritePendingDispatch ==
  ASSUME Structure, DispatchInv, NEW t \in Requests, WritePending(t)
  PROVE  DispatchInv'
<1>1. t \in Tasks /\ TypeOK /\ UNCHANGED memory
  BY DEF Tasks, Structure, WritePending, memory
<1>2. PICK stage \in {"save", "auth"} :
        task' = [task EXCEPT ![t].sequel = "pending", ![t].pc = stage]
  BY DEF WritePending
<1>3. Others(t) /\ task'[t].pc = stage /\ task'[t].sequel = "pending"
  <2>1. stage \in Stages /\ "pending" \in Sequels
    BY Names DEF Inside, Sequels
  <2>2. TaskIs(t, stage, task[t].slot, task[t].time, task[t].credential, task[t].other,
               task[t].answer, "pending")
    BY <1>1, <1>2, <2>1, SequelEffect
  <2>3. QED
    BY <2>2 DEF TaskIs
<1>4. QED
  BY <1>1, <1>3, WaitDispatch DEF WriteStages

\* A step that tells everybody with a token of the slot.
LEMMA BumpDispatch ==
  ASSUME Structure, DispatchInv, NEW t \in Requests, Others(t), registered' = registered,
         Bump(task[t].slot), SlotFree(task[t].slot) \/ task[t].pc \in Inside,
         ~Current(t) => KeptStays,
         task'[t].slot = task[t].slot,
         task'[t].pc \in WriteStages \cup {"exchange"}, RefreshedOf(t)'
  PROVE  DispatchInv'
<1>1. t \in Tasks /\ superseded \ {t} \subseteq superseded'
  BY DEF Tasks, Bump
<1>2. task'[t].pc \notin {"prepared", "sent"} /\ PreparedOf(t)'
  BY DEF WriteStages, SaveStages, PreparedOf
<1>3. Tells(t)
  <2>1. CASE Current(t)
    BY <2>1, ToldByBump DEF Tells, Alone, Current
  <2>2. CASE ~Current(t)
    BY <2>2 DEF Tells, Unmoved, KeptStays, KeptIs, Kept
  <2>3. QED
    BY <2>1, <2>2
<1>4. task'[t].pc \in ExchangeStages /\ Current(t)' => Told
  BY ToldByBump DEF Current
<1>5. QED
  BY <1>1, <1>2, <1>3, <1>4, DispatchStep

\* A healed state is told to everybody.
LEMMA HealReusedDispatch ==
  ASSUME Structure, DispatchInv, NEW t \in Requests, HealReused(t)
  PROVE  DispatchInv'
<1>1. /\ TypeOK /\ Bump(task[t].slot) /\ task[t].pc = "entered" /\ UNCHANGED registered
      /\ task' = [task EXCEPT ![t].sequel = "pending", ![t].pc = "auth"]
  BY DEF HealReused, At, Structure
<1>2. t \in Tasks /\ task[t].slot \in Slots
  BY <1>1, Started
<1>3. KeptIs(Kept.tokens, IF Current(t) THEN "Active" ELSE Kept.auth_state, Kept.persistence_pending)
  BY <1>1, <1>2, SetStateEffect DEF HealReused, AuthStates
<1>4. TaskIs(t, "auth", task[t].slot, task[t].time, task[t].credential, task[t].other,
             task[t].answer, "pending")
  BY <1>1, <1>2, Names, SequelEffect DEF Inside, Sequels
<1>5. RefreshedOf(t)'
  BY <1>4 DEF TaskIs, RefreshedOf
<1>6. ~Current(t) => KeptStays
  BY <1>3 DEF KeptStays
<1>7. /\ Others(t) /\ task'[t].slot = task[t].slot /\ task[t].pc \in Inside
      /\ task'[t].pc \in WriteStages
  BY <1>1, <1>4 DEF TaskIs, Inside, WriteStages
<1>8. QED
  BY <1>1, <1>5, <1>6, <1>7, BumpDispatch

\* A renewal is told to everybody before it starts.
LEMMA StartRefreshDispatch ==
  ASSUME Structure, DispatchInv, NEW t \in Requests, StartRefresh(t)
  PROVE  DispatchInv'
<1>1. TypeOK /\ Bump(task[t].slot) /\ task[t].pc = "entered" /\ UNCHANGED registered
  BY DEF StartRefresh, At, Structure
<1>2. t \in Tasks /\ task[t].slot \in Slots
  BY <1>1, Started
<1>3. /\ TaskIs(t, "exchange", task[t].slot, task[t].time, task[t].credential, task[t].other,
                task[t].answer, "none")
      /\ KeptIs(Kept.tokens, IF Current(t) THEN "Refreshing" ELSE Kept.auth_state,
                Kept.persistence_pending)
  BY <1>1, <1>2, StartRefreshEffect
<1>4. RefreshedOf(t)'
  BY <1>3 DEF TaskIs, RefreshedOf
<1>5. ~Current(t) => KeptStays
  BY <1>3 DEF KeptStays
<1>6. /\ Others(t) /\ task'[t].slot = task[t].slot /\ task[t].pc \in Inside
      /\ task'[t].pc = "exchange"
  BY <1>1, <1>3 DEF TaskIs, Inside
<1>7. QED
  BY <1>1, <1>4, <1>5, <1>6, BumpDispatch

\* A request gets the tokens of its slot.
LEMMA PrepareReadyDispatch ==
  ASSUME Structure, DispatchInv, NEW t \in Requests, PrepareReady(t)
  PROVE  DispatchInv'
<1>1. /\ TypeOK /\ UNCHANGED memory /\ task[t].pc = "entered" /\ ~MySlot(t).persistence_pending
      /\ MySlot(t).auth_state # "Reauth" /\ Usable(MySlot(t).tokens, task[t].time)
      /\ HandOver(t, MySlot(t).tokens)
  BY DEF PrepareReady, At, Structure, Settled
<1>2. /\ t \in Tasks /\ task[t].slot # 0 /\ task[t].slot \in Slots
      /\ Current(t) => MySlot(t) = Kept
  BY <1>1, Started
<1>3. MySlot(t).tokens \in Stored
  BY <1>1, <1>2 DEF TypeOK, MySlot, TokenSlots
<1>4. TaskIs(t, "prepared", task[t].slot, 0, MySlot(t).tokens, None, "none", "none")
  BY <1>1, <1>2, <1>3, HandOverEffect
<1>5. PreparedOf(t)'
  BY <1>1, <1>2, <1>4 DEF TaskIs, PreparedOf, GuardHolds, Current, Usable, memory, Kept
<1>6. RefreshedOf(t)' /\ task'[t].pc \notin ExchangeStages /\ task[t].pc \in Inside
  BY <1>1, <1>4 DEF TaskIs, RefreshedOf, WriteStages, SaveStages, ExchangeStages, LoadStages, Inside
<1>7. Tells(t) /\ registered' = registered /\ superseded' = superseded
  BY <1>1 DEF Tells, Unmoved, Kept, memory
<1>8. Others(t) /\ task'[t].slot = task[t].slot
  BY <1>4 DEF TaskIs
<1>9. QED
  BY <1>2, <1>5, <1>6, <1>7, <1>8, DispatchStep

\* Everybody who has a token has been told of the renewal.
LEMMA InstallRefreshedDispatch ==
  ASSUME Structure, DispatchInv, NEW t \in Requests, InstallRefreshed(t)
  PROVE  DispatchInv'
<1>1. /\ TypeOK /\ UNCHANGED registered /\ task[t].pc = "returned"
      /\ Current(t) /\ task[t].answer = "ok" /\ Ok(t) /\ Bump(task[t].slot)
  BY DEF InstallRefreshed, At, Structure, Ok
<1>2. /\ t \in Tasks /\ task[t].slot \in Slots /\ task[t].credential \in Credentials
      /\ registered = task[t].slot /\ registered # 0
  BY <1>1, Started DEF StageOf, Current
<1>3. /\ TaskIs(t, "save", task[t].slot, 0, None, None, "none", "refreshed")
      /\ KeptIs(Renewed(t), "Active", TRUE)
  BY <1>1, <1>2, InstallRefreshedEffect
<1>4. Kept.tokens' = Renewed(t) /\ Kept.auth_state' = "Active"
  BY <1>2, <1>3 DEF KeptIs, Kept
<1>5. RefreshedOf(t)'
  BY <1>3, <1>4 DEF TaskIs, RefreshedOf, Renewed, At
<1>6. /\ Others(t) /\ task'[t].slot = task[t].slot /\ task[t].pc \in Inside
      /\ task'[t].pc \in WriteStages
  BY <1>1, <1>3 DEF TaskIs, Inside, WriteStages
<1>7. QED
  BY <1>1, <1>5, <1>6, BumpDispatch

\* And of one that was refused.
LEMMA InstallReauthDispatch ==
  ASSUME Structure, DispatchInv, NEW t \in Requests, InstallReauth(t)
  PROVE  DispatchInv'
<1>1. /\ TypeOK /\ UNCHANGED <<registered, superseded>> /\ task[t].pc = "returned" /\ Current(t)
  BY DEF InstallReauth, At, Structure
<1>2. t \in Tasks /\ task[t].slot \in Slots
  BY <1>1, Started
<1>3. TaskIs(t, "auth", task[t].slot, 0, None, None, "none", "reauth")
  BY <1>1, <1>2, InstallReauthEffect
<1>4. PreparedOf(t)' /\ RefreshedOf(t)' /\ task'[t].pc = "auth"
  BY <1>3 DEF TaskIs, PreparedOf, RefreshedOf
<1>5. Tells(t) /\ Others(t) /\ "auth" \notin ExchangeStages
  BY <1>1, <1>3 DEF Tells, ExchangeStages, LoadStages, TaskIs
<1>6. QED
  BY <1>1, <1>2, <1>4, <1>5, DispatchStep

\* And of one that came to nothing.
LEMMA DropResultDispatch ==
  ASSUME Structure, DispatchInv, NEW t \in Requests, DropResult(t)
  PROVE  DispatchInv'
<1>1. TypeOK /\ task[t].pc = "returned"
  BY DEF DropResult, At, Structure
<1>2. t \in Tasks /\ task[t].slot \in Slots
  BY <1>1, Started
<1>3. CASE Leave(t)
  BY <1>2, <1>3, LeavesDispatch
<1>4. CASE Current(t)
  <2>1. /\ TaskIs(t, "idle", 0, 0, None, None, "none", "none")
        /\ registered' = registered /\ superseded' = superseded \ {t}
    BY <1>1, <1>2, DropResultEffect DEF KeptIs
  <2>2. Tells(t)
    BY <1>1, <1>4 DEF Tells, ExchangeStages
  <2>3. QED
    BY <1>2, <2>1, <2>2, LeaveDispatch
<1>5. QED
  BY <1>3, <1>4 DEF DropResult

\* A write changes the store, not the slot.
LEMMA SaveTokensDispatch ==
  ASSUME Structure, DispatchInv, NEW t \in Requests, SaveTokens(t)
  PROVE  DispatchInv'
<1>1. TypeOK /\ task[t].pc = "save"
  BY DEF SaveTokens, At, Structure
<1>2. t \in Tasks /\ task[t].slot \in Slots
  BY <1>1, Started
<1>3. CASE /\ UNCHANGED memory
           /\ TaskIs(t, "saveClear", task[t].slot, task[t].time, Merged, task[t].other,
                     task[t].answer, task[t].sequel)
  <2>1. /\ Others(t) /\ task'[t].pc = "saveClear" /\ task'[t].sequel = task[t].sequel
        /\ task'[t].slot = task[t].slot
    BY <1>3 DEF TaskIs
  <2>2. QED
    BY <1>1, <1>3, <2>1, WaitDispatch DEF WriteStages, SaveStages
<1>4. CASE Leave(t)
  BY <1>2, <1>4, LeavesDispatch
<1>5. QED
  BY <1>1, <1>2, <1>3, <1>4, SaveTokensEffect

\* Nor does dropping the checkpoint.
LEMMA ClearCheckpointDispatch ==
  ASSUME Structure, DispatchInv, NEW t \in Requests, ClearCheckpoint(t)
  PROVE  DispatchInv'
<1>1. TypeOK /\ task[t].pc = "saveClear" /\ UNCHANGED memory /\ Go(t, "saveMeta") /\ t \in Tasks
  BY DEF ClearCheckpoint, At, Structure, Tasks
<1>2. /\ Others(t) /\ task'[t].pc = "saveMeta" /\ task'[t].sequel = task[t].sequel
      /\ task'[t].slot = task[t].slot
  BY <1>1, Names, GoEffect DEF TaskIs, Inside
<1>3. QED
  BY <1>1, <1>2, WaitDispatch DEF WriteStages, SaveStages

\* The tokens written are the slot's.
LEMMA SaveGenerationDispatch ==
  ASSUME Structure, DispatchInv, NEW t \in Requests, SaveGeneration(t)
  PROVE  DispatchInv'
<1>1. TypeOK /\ task[t].pc = "saveMeta" /\ CurrentInv
  BY DEF SaveGeneration, At, Structure
<1>2. t \in Tasks /\ task[t].slot \in Slots /\ Current(t) /\ registered # 0
  BY <1>1, Started DEF SaveStages, CurrentInv
<1>3. CASE AfterSave(t)
  <2>1. /\ KeptIs(Kept.tokens, Kept.auth_state, FALSE)
        /\ \/ /\ task[t].sequel # "invalidated"
              /\ superseded' = superseded
              /\ TaskIs(t, IF task[t].sequel = "pending" THEN "entered" ELSE "auth", task[t].slot,
                        task[t].time, None, task[t].other, task[t].answer, task[t].sequel)
           \/ /\ superseded' = superseded \ {t}
              /\ TaskIs(t, "idle", 0, 0, None, None, "none", "none")
    BY <1>1, <1>2, <1>3, AfterSaveEffect
  <2>2. registered' = registered /\ Tells(t) /\ Kept.tokens' = Kept.tokens
        /\ Kept.auth_state' = Kept.auth_state /\ Kept.persistence_pending' = FALSE
    BY <1>2, <2>1 DEF KeptIs, Tells, Unmoved, Kept
  <2>3. CASE TaskIs(t, "idle", 0, 0, None, None, "none", "none") /\ superseded' = superseded \ {t}
    BY <1>2, <2>2, <2>3, LeaveDispatch
  <2>4. CASE /\ superseded' = superseded
             /\ TaskIs(t, IF task[t].sequel = "pending" THEN "entered" ELSE "auth", task[t].slot,
                       task[t].time, None, task[t].other, task[t].answer, task[t].sequel)
    <3>1. /\ Others(t) /\ task'[t].pc = (IF task[t].sequel = "pending" THEN "entered" ELSE "auth")
          /\ task'[t].slot = task[t].slot /\ task'[t].sequel = task[t].sequel
      BY <2>4 DEF TaskIs
    <3>2. task'[t].pc \notin {"prepared", "sent"} /\ task'[t].pc \notin ExchangeStages
          /\ PreparedOf(t)'
      BY <3>1 DEF ExchangeStages, LoadStages, PreparedOf
    <3>3. RefreshedOf(t)'
      <4>1. RefreshedOf(t)
        BY DEF DispatchInv
      <4>2. QED
        BY <1>1, <1>2, <2>2, <3>1, <4>1 DEF RefreshedOf, WriteStages, SaveStages
    <3>4. QED
      BY <1>2, <2>2, <2>4, <3>1, <3>2, <3>3, DispatchStep
  <2>5. QED
    BY <2>1, <2>3, <2>4
<1>4. CASE Leave(t)
  BY <1>2, <1>4, LeavesDispatch
<1>5. QED
  BY <1>3, <1>4 DEF SaveGeneration

\* The renewed tokens are handed over as they are in the slot.
LEMMA SaveAuthDispatch ==
  ASSUME Structure, DispatchInv, NEW t \in Requests, SaveAuth(t)
  PROVE  DispatchInv'
<1>1. TypeOK /\ task[t].pc = "auth" /\ LockFree
  BY DEF SaveAuth, At, Structure
<1>2. t \in Tasks /\ task[t].slot # 0 /\ task[t].slot \in Slots /\ lock # t
  BY <1>1, Started, TokenAssumption DEF LockFree
<1>3. CASE Current(t) /\ AfterAuth(t)
  <2>1. /\ KeptStays
        /\ \/ /\ superseded' = superseded
              /\ task[t].sequel = "pending"
              /\ TaskIs(t, "entered", task[t].slot, task[t].time, task[t].credential, task[t].other,
                        task[t].answer, task[t].sequel)
           \/ /\ superseded' = superseded
              /\ task[t].sequel = "refreshed"
              /\ TaskIs(t, "prepared", task[t].slot, 0, Kept.tokens, None, "none", "none")
           \/ /\ superseded' = superseded \ {t}
              /\ TaskIs(t, "idle", 0, 0, None, None, "none", "none")
    BY <1>1, <1>2, <1>3, AfterAuthEffect
  <2>2. registered # 0
    BY <1>2, <1>3 DEF Current
  <2>3. /\ registered' = registered /\ Tells(t) /\ Kept.tokens' = Kept.tokens
        /\ Kept.auth_state' = Kept.auth_state /\ Kept.persistence_pending' = Kept.persistence_pending
    BY <2>1, <2>2 DEF KeptStays, KeptIs, Tells, Unmoved, Kept
  <2>4. CASE TaskIs(t, "idle", 0, 0, None, None, "none", "none") /\ superseded' = superseded \ {t}
    BY <1>2, <2>3, <2>4, LeaveDispatch
  <2>5. CASE /\ superseded' = superseded
             /\ TaskIs(t, "entered", task[t].slot, task[t].time, task[t].credential, task[t].other,
                       task[t].answer, task[t].sequel)
    <3>1. Others(t) /\ task'[t].pc = "entered"
      BY <2>5 DEF TaskIs
    <3>2. PreparedOf(t)' /\ RefreshedOf(t)' /\ "entered" \notin ExchangeStages
      BY <3>1 DEF PreparedOf, RefreshedOf, WriteStages, SaveStages, ExchangeStages, LoadStages
    <3>3. QED
      BY <1>2, <2>3, <2>5, <3>1, <3>2, DispatchStep
  <2>6. CASE /\ superseded' = superseded
             /\ task[t].sequel = "refreshed"
             /\ TaskIs(t, "prepared", task[t].slot, 0, Kept.tokens, None, "none", "none")
    <3>1. /\ Others(t) /\ task'[t].pc = "prepared" /\ task'[t].credential = Kept.tokens
          /\ task'[t].slot = task[t].slot
      BY <2>6 DEF TaskIs
    <3>2. /\ ~Kept.tokens.cut /\ Kept.auth_state = "Active" /\ ~Kept.persistence_pending
      BY <1>1, <1>3, <2>6 DEF DispatchInv, RefreshedOf, WriteStages, At
    <3>3. PreparedOf(t)'
      BY <2>3, <3>1, <3>2 DEF PreparedOf
    <3>4. RefreshedOf(t)' /\ "prepared" \notin ExchangeStages /\ task[t].pc \in Inside
      BY <1>1, <3>1 DEF RefreshedOf, WriteStages, SaveStages, ExchangeStages, LoadStages, Inside
    <3>5. QED
      BY <1>2, <2>3, <2>6, <3>1, <3>3, <3>4, DispatchStep
  <2>7. QED
    BY <2>1, <2>4, <2>5, <2>6
<1>4. CASE Leave(t)
  BY <1>2, <1>4, LeavesDispatch
<1>5. QED
  BY <1>3, <1>4 DEF SaveAuth

\* A token is sent behind the fence.
LEMMA DispatchDispatch ==
  ASSUME Structure, DispatchInv, NEW t \in Requests, Dispatch(t)
  PROVE  DispatchInv'
<1>1. t \in Tasks /\ TypeOK /\ task[t].pc = "prepared"
  BY DEF Tasks, Structure, Dispatch, At
<1>2. CASE GuardHolds(t)
  <2>1. Go(t, "sent") /\ UNCHANGED memory
    BY <1>2 DEF Dispatch, memory
  <2>2. /\ Others(t) /\ task'[t].pc = "sent" /\ task'[t].slot = task[t].slot
        /\ task'[t].credential = task[t].credential
    BY <1>1, <2>1, Names, GoEffect DEF TaskIs
  <2>3. PreparedOf(t)
    BY DEF DispatchInv
  <2>4. PreparedOf(t)'
    BY <1>1, <2>1, <2>2, <2>3 DEF PreparedOf, GuardHolds, Current, Kept, memory
  <2>5. RefreshedOf(t)' /\ "sent" \notin ExchangeStages
    BY <2>2 DEF RefreshedOf, WriteStages, SaveStages, ExchangeStages, LoadStages
  <2>6. Tells(t) /\ registered' = registered /\ superseded' = superseded
    BY <2>1 DEF Tells, Unmoved, Kept, memory
  <2>7. QED
    BY <1>1, <2>2, <2>4, <2>5, <2>6, DispatchStep
<1>3. CASE ~GuardHolds(t)
  BY <1>1, <1>3, LeavesDispatch DEF Dispatch
<1>4. QED
  BY <1>2, <1>3

\* A rejection is told to everybody who has the token.
LEMMA InvalidateDispatch ==
  ASSUME Structure, DispatchInv, NEW t \in Requests, Invalidate(t)
  PROVE  DispatchInv'
<1>1. TypeOK /\ task[t].pc = "sent" /\ SlotFree(task[t].slot)
  BY DEF Invalidate, At, Structure
<1>2. t \in Tasks /\ task[t].slot \in Slots
  BY <1>1, Started
<1>3. CASE GuardHolds(t)
  <2>1. /\ TaskIs(t, "save", task[t].slot, task[t].time, None, task[t].other, task[t].answer,
                  "invalidated")
        /\ registered' = registered /\ Bump(task[t].slot)
    BY <1>1, <1>2, <1>3, InvalidateEffect DEF KeptIs
  <2>2. RefreshedOf(t)' /\ Others(t) /\ task'[t].slot = task[t].slot /\ task'[t].pc \in WriteStages
    BY <2>1 DEF TaskIs, RefreshedOf, WriteStages
  <2>3. Current(t)
    BY <1>3 DEF GuardHolds
  <2>4. QED
    BY <1>1, <2>1, <2>2, <2>3, BumpDispatch
<1>4. CASE ~GuardHolds(t)
  BY <1>2, <1>4, LeavesDispatch DEF Invalidate
<1>5. QED
  BY <1>3, <1>4

\* The user's commands and the registration.
LEMMA UserDispatch ==
  ASSUME Structure, DispatchInv, Others(User), UNCHANGED memory
  PROVE  DispatchInv'
<1>1. User \in Tasks /\ User \notin Requests /\ Tells(User)
  BY UserStarted DEF Tells, Unmoved, Kept, memory
<1>2. QED
  BY <1>1, DispatchStep DEF memory

\* Nobody refers to the account's new slot.
LEMMA NewSlotDispatch ==
  ASSUME Structure, \A u \in Requests : task'[u].slot # registered' \/ task'[u].pc = "idle"
  PROVE  DispatchInv'
  BY DEF DispatchInv, PreparedOf, SupersededOf, RefreshedOf, GuardHolds, Current, ExchangeStages,
         LoadStages, WriteStages, SaveStages

\* A sign-in is told to everybody, or has a slot of its own.
LEMMA RegisterLoginDispatch ==
  ASSUME Structure, DispatchInv, RegisterLogin
  PROVE  DispatchInv'
<1>1. /\ Go(User, "readBack") /\ task[User].pc = "register" /\ (registered # 0 => SlotFree(registered))
  BY DEF RegisterLogin, At
<1>2. Others(User)
  BY <1>1, UserStarted, UserTypes, Names, GoEffect DEF TaskIs
<1>3. CASE registered = 0 /\ InsertSlot(task[User].credential, "Active")
  <2>1. task[User].credential \in Credentials /\ "Active" \in AuthStates
    BY <1>1, UserStarted DEF LoginStages, AuthStates
  <2>2. \A t \in Tasks : task[t].slot # registered'
    BY <1>3, <2>1, InsertSlotEffect DEF Structure
  <2>3. QED
    BY <1>2, <2>2, UserStarted, NewSlotDispatch DEF Others, Tasks
<1>4. CASE registered # 0 /\ Bump(registered) /\ UNCHANGED registered
  <2>1. Told /\ Alone(User) /\ superseded \subseteq superseded'
    BY <1>1, <1>4, ToldByBump DEF Alone, Bump
  <2>2. QED
    BY <1>2, <1>4, <2>1, UserStarted, DispatchStep DEF Tells
<1>5. CASE UNCHANGED memory
  BY <1>2, <1>5, UserDispatch
<1>6. QED
  BY <1>3, <1>4, <1>5 DEF RegisterLogin

\* The other commands tell nobody anything, or retire the slot.
LEMMA CommandDispatch ==
  ASSUME Structure, DispatchInv, CommitLogin \/ DeleteCredential \/ StartEdit \/ UserStep
  PROVE  DispatchInv'
<1>1. task \in [Tasks -> TaskStates] /\ User \in Tasks
  BY UserStarted DEF Structure, TypeOK
<1>2. CASE CommitLogin \/ DeleteCredential \/ StartEdit \/ RecordLogin \/ DeleteCheckpoint
  <2>1. Others(User) /\ UNCHANGED memory
    BY <1>1, <1>2 DEF CommitLogin, DeleteCredential, StartEdit, RecordLogin, DeleteCheckpoint, Go, Others
  <2>2. QED
    BY <2>1, UserDispatch
<1>3. CASE ReadBack \/ FinishEdit
  BY <1>1, <1>3, LeavesDispatch DEF ReadBack, FinishEdit, LeaveUser
<1>4. CASE SaveEdit
  <2>1. CASE Leave(User)
    BY <1>1, <2>1, LeavesDispatch
  <2>2. CASE Go(User, "edited") /\ UNCHANGED memory
    <3>1. Others(User)
      BY <1>1, <2>2 DEF Go, Others
    <3>2. QED
      BY <2>2, <3>1, UserDispatch
  <2>3. QED
    BY <1>4, <2>1, <2>2 DEF SaveEdit, LeaveUser, memory
<1>5. CASE DeleteAccount
  <2>1. registered' = 0 /\ task' = [task EXCEPT ![User] = Idle]
    BY <1>5 DEF DeleteAccount
  <2>2. \A u \in Requests : task'[u] = task[u] /\ (task[u].slot = 0 => task[u].pc = "idle")
    BY <1>1, <2>1, UserStarted DEF Structure, StageInv, StageOf, Tasks
  <2>3. QED
    BY <2>1, <2>2, NewSlotDispatch
<1>6. QED
  BY <1>2, <1>3, <1>4, <1>5, RegisterLoginDispatch DEF UserStep

\* A failure changes no token.
LEMMA FaultDispatch ==
  ASSUME Structure, DispatchInv, NEW t \in Tasks, StorageFault(t) \/ LockTimeout(t)
  PROVE  DispatchInv'
<1>1. CASE Leave(t)
  BY <1>1, LeavesDispatch
<1>2. CASE /\ task[t].pc \in ExchangeStages /\ UNCHANGED memory
           /\ \E c : Answer(t, c) \/ AnswerOk(t, c)
  <2>1. t \in Requests
    BY <1>2, UserStarted DEF UserStages, DeleteStages, LoginStages, ExchangeStages, LoadStages, Tasks
  <2>2. Stays(t)
    BY <1>2, <2>1, AnswerStays DEF Structure
  <2>3. QED
    BY <2>1, <2>2, StaysDispatch
<1>3. \/ Leave(t)
      \/ /\ task[t].pc \in ExchangeStages /\ UNCHANGED memory
         /\ Answer(t, "transient") \/ AnswerOk(t, task[t].other)
  BY SMT DEF StorageFault, LockTimeout, At, ExchangeStages, LoadStages
<1>4. QED
  BY <1>1, <1>2, <1>3

\* Every step keeps what is known of the handed over tokens.
LEMMA NextDispatch ==
  ASSUME Structure, DispatchInv, [Next]_vars
  PROVE  DispatchInv'
<1>1. ASSUME NEW t \in Requests, PrepareStart(t) \/ Step(t) \/ Cancel(t) PROVE DispatchInv'
  <2>1. t \in Tasks /\ TypeOK
    BY DEF Tasks, Structure
  <2>2. CASE Adapter(t)
    BY <2>1, <2>2, AdapterStays, StaysDispatch
  <2>3. CASE RefusePreparation(t) \/ Accepted(t) \/ Cancel(t)
    BY <2>1, <2>3, LeavesDispatch DEF RefusePreparation, Accepted, Cancel
  <2>4. QED
    BY <1>1, <2>2, <2>3, PrepareStartDispatch, EnterSlotDispatch, WritePendingDispatch,
       HealReusedDispatch, PrepareReadyDispatch, StartRefreshDispatch, InstallRefreshedDispatch,
       InstallReauthDispatch, DropResultDispatch, SaveTokensDispatch, ClearCheckpointDispatch,
       SaveGenerationDispatch, SaveAuthDispatch, DispatchDispatch, InvalidateDispatch
    DEF Step, Adapter
<1>2. CASE CommitLogin \/ DeleteCredential \/ StartEdit \/ UserStep
  BY <1>2, CommandDispatch
<1>3. ASSUME NEW t \in Tasks, StorageFault(t) \/ LockTimeout(t) PROVE DispatchInv'
  BY <1>3, FaultDispatch
<1>4. CASE Crash
  <2>1. \A u \in Requests : task'[u].pc = "idle"
    BY <1>4 DEF Crash, Idle, Tasks
  <2>2. QED
    BY <2>1, NewSlotDispatch
<1>5. CASE Assemble
  <2>1. registered = 0 /\ InsertSlot(primary, account.auth) /\ primary # None /\ account # None /\ task' = task
    BY <1>5 DEF Assemble
  <2>2. primary \in Credentials /\ account.auth \in AuthStates
    BY <2>1, UserTypes DEF Stored, Accounts
  <2>3. \A t \in Tasks : task[t].slot # registered'
    BY <2>1, <2>2, InsertSlotEffect DEF Structure
  <2>4. QED
    BY <2>1, <2>3, NewSlotDispatch DEF Tasks
<1>6. CASE BreakLock \/ Tick \/ UNCHANGED vars
  BY <1>6 DEF BreakLock, Tick, vars, memory, DispatchInv, PreparedOf, SupersededOf, RefreshedOf,
              GuardHolds, Current, Kept, At
<1>7. QED
  BY <1>1, <1>2, <1>3, <1>4, <1>5, <1>6 DEF Next

\* A token that passes the dispatch fence is the authority's current one, and
\* its account is not waiting for a sign-in: the conjunct on tokens
\* of DispatchInv needs that a renewal tells everybody before it starts, and
\* that its result is not cut while it is written.
THEOREM PreparedMatches == Spec => []PreparedMatchesSlot
<1>1. Init => DispatchInv
  <2>1. SUFFICES ASSUME Init PROVE DispatchInv
    OBVIOUS
  <2>2. \A t \in Requests : task[t].pc = "idle"
    BY <2>1, InitIdle DEF Tasks
  <2>3. QED
    BY <2>2 DEF DispatchInv, PreparedOf, SupersededOf, RefreshedOf, ExchangeStages, LoadStages,
                WriteStages, SaveStages
<1>2. Structure /\ DispatchInv /\ [Next]_vars => DispatchInv'
  BY NextDispatch
<1>3. Structure /\ DispatchInv => PreparedMatchesSlot
  BY DEF DispatchInv, PreparedOf, PreparedMatchesSlot, GuardHolds, Current, MySlot, Kept, At
<1>4. QED
  BY <1>1, <1>2, <1>3, StructureHolds, PTL DEF Spec

-----------------------------------------------------------------------------
(* The steps that touch neither the store nor the adapter *)

\* The task goes on to wait for a usable token, with the clock it read.
Waits(t) ==
  \/ task[t].pc \in {"slotLock", "entered"}
  \/ task[t].pc \in WriteStages /\ task[t].sequel = "pending"

\* A request that holds a token of its slot has had it all along, found it
\* usable when it waited, or renewed it.
HoldsToken(t) ==
  task'[t].pc \in {"prepared", "sent"} =>
    /\ task'[t].slot = task[t].slot
    /\ \/ task[t].pc \in {"prepared", "sent"} /\ superseded' = superseded
       \/ Waits(t) /\ Usable(MySlot(t).tokens, task[t].time)
       \/ task[t].pc \in WriteStages /\ task[t].sequel = "refreshed" /\ Current(t)

\* What these steps make of their task and of the registered slot.
Outside(t) ==
  /\ Others(t)
  /\ task'[t].pc \notin LoadStages \cup SaveStages \cup {"returned"}
  /\ task'[t].pc \in WriteStages => task'[t].sequel # "refreshed"
  /\ Waits(t)' =>
       \/ task'[t].time = now
       \/ Waits(t) /\ task'[t].time = task[t].time /\ task'[t].slot = task[t].slot
  /\ HoldsToken(t)
  /\ superseded \ {t} \subseteq superseded'
  /\ registered' = registered
  /\ registered # 0 => /\ Kept.tokens' = Kept.tokens
                       /\ Kept.persistence_pending' = Kept.persistence_pending

\* A task that leaves is such a step.
LEMMA LeftOutside ==
  ASSUME TypeOK, NEW t \in Tasks, TaskIs(t, "idle", 0, 0, None, None, "none", "none"),
         superseded' = superseded \ {t},
         NEW auth, KeptIs(Kept.tokens, auth, Kept.persistence_pending)
  PROVE  Outside(t)
<1>1. /\ Others(t) /\ task'[t].pc = "idle" /\ registered' = registered
      /\ registered # 0 => /\ Kept.tokens' = Kept.tokens
                           /\ Kept.persistence_pending' = Kept.persistence_pending
  BY DEF TaskIs, KeptIs, Kept
<1>2. QED
  BY <1>1 DEF Outside, Waits, HoldsToken, LoadStages, SaveStages, WriteStages

\* Also when it leaves and changes no slot.
LEMMA LeaveOutside ==
  ASSUME TypeOK, NEW t \in Tasks, Leave(t)
  PROVE  Outside(t)
  BY LeaveKeeps, LeftOutside DEF KeptStays

\* So is one on its way to a token, or to a write of what is pending.
LEMMA WaitOutside ==
  ASSUME Structure, NEW t \in Requests, Others(t), superseded \subseteq superseded',
         NEW auth, KeptIs(Kept.tokens, auth, Kept.persistence_pending),
         \/ task'[t].pc \in {"slotLock", "entered"}
         \/ task'[t].pc \in {"save", "auth"} /\ task'[t].sequel \in {"pending", "reauth"}
         \/ task'[t].pc = "exchange",
         Waits(t)' => \/ task'[t].time = now
                      \/ Waits(t) /\ task'[t].time = task[t].time /\ task'[t].slot = task[t].slot
  PROVE  Outside(t)
<1>1. /\ registered' = registered
      /\ registered # 0 => /\ Kept.tokens' = Kept.tokens
                           /\ Kept.persistence_pending' = Kept.persistence_pending
  BY DEF KeptIs, Kept
<1>2. task'[t].pc \notin LoadStages \cup SaveStages \cup {"returned", "prepared", "sent"}
  BY DEF LoadStages, SaveStages
<1>3. task'[t].pc \in WriteStages => task'[t].sequel # "refreshed"
  BY DEF WriteStages, SaveStages
<1>4. QED
  BY <1>1, <1>2, <1>3 DEF Outside, HoldsToken

\* And one that hands a token over, or sends it.
LEMMA HoldOutside ==
  ASSUME Structure, NEW t \in Requests, Others(t), superseded' = superseded, KeptStays,
         task'[t].pc \in {"prepared", "sent"}, HoldsToken(t)
  PROVE  Outside(t)
<1>1. /\ registered' = registered
      /\ registered # 0 => /\ Kept.tokens' = Kept.tokens
                           /\ Kept.persistence_pending' = Kept.persistence_pending
  BY DEF KeptStays, KeptIs, Kept
<1>2. task'[t].pc \notin LoadStages \cup SaveStages \cup WriteStages \cup {"returned"} /\ ~Waits(t)'
  BY DEF LoadStages, SaveStages, WriteStages, Waits
<1>3. QED
  BY <1>1, <1>2 DEF Outside

\* What a step leaves of the store when it is not the adapter's.
Unwritten == UNCHANGED <<primary, rotation, use, bounds>>

\* The steps before the adapter.
LEMMA PreparingOutside ==
  ASSUME Structure, NEW t \in Requests,
         \/ PrepareStart(t) \/ EnterSlot(t) \/ WritePending(t) \/ HealReused(t)
         \/ RefusePreparation(t) \/ PrepareReady(t) \/ StartRefresh(t)
  PROVE  Outside(t) /\ Unwritten
<1>1. t \in Tasks /\ TypeOK
  BY DEF Tasks, Structure
<1>2. Unwritten
  BY DEF PrepareStart, EnterSlot, WritePending, HealReused, RefusePreparation, PrepareReady,
         StartRefresh, durable, Unwritten
<1>3. CASE PrepareStart(t)
  <2>1. UNCHANGED memory
    BY <1>3 DEF PrepareStart
  <2>2. /\ TaskIs(t, "slotLock", registered, now, task[t].credential, task[t].other,
                  task[t].answer, task[t].sequel)
        /\ KeptStays
    BY <1>1, <1>3, <2>1, PrepareStartEffect, MemoryStays DEF memory
  <2>3. Others(t) /\ task'[t].pc = "slotLock" /\ task'[t].time = now
    BY <2>2 DEF TaskIs
  <2>4. superseded \subseteq superseded'
    BY <2>1 DEF memory
  <2>5. QED
    BY <1>2, <2>2, <2>3, <2>4, WaitOutside DEF KeptStays
<1>4. CASE EnterSlot(t)
  <2>1. CASE Go(t, "entered") /\ UNCHANGED memory
    <3>1. /\ TaskIs(t, "entered", task[t].slot, task[t].time, task[t].credential, task[t].other,
                    task[t].answer, task[t].sequel)
          /\ KeptStays
      BY <1>1, <2>1, Names, GoEffect, MemoryStays DEF memory, Inside
    <3>2. /\ Others(t) /\ task'[t].pc = "entered" /\ task'[t].time = task[t].time
          /\ task'[t].slot = task[t].slot
      BY <3>1 DEF TaskIs
    <3>3. superseded \subseteq superseded' /\ Waits(t)
      BY <1>4, <2>1 DEF memory, EnterSlot, At, Waits
    <3>4. QED
      BY <1>2, <3>1, <3>2, <3>3, WaitOutside DEF KeptStays
  <2>2. CASE Leave(t)
    BY <1>1, <1>2, <2>2, LeaveOutside
  <2>3. QED
    BY <1>4, <2>1, <2>2 DEF EnterSlot, memory
<1>5. CASE WritePending(t)
  <2>1. PICK stage \in {"save", "auth"} :
          task' = [task EXCEPT ![t].sequel = "pending", ![t].pc = stage]
    BY <1>5 DEF WritePending
  <2>2. stage \in Stages /\ "pending" \in Sequels
    BY Names DEF Inside, Sequels
  <2>3. TaskIs(t, stage, task[t].slot, task[t].time, task[t].credential, task[t].other,
               task[t].answer, "pending")
    BY <1>1, <2>1, <2>2, SequelEffect
  <2>4. KeptStays /\ superseded \subseteq superseded' /\ Waits(t)
    BY <1>1, <1>5, MemoryStays DEF WritePending, memory, At, Waits
  <2>5. /\ Others(t) /\ task'[t].pc \in {"save", "auth"} /\ task'[t].time = task[t].time
        /\ task'[t].slot = task[t].slot /\ task'[t].sequel = "pending"
    BY <2>3 DEF TaskIs
  <2>6. QED
    BY <1>2, <2>4, <2>5, WaitOutside DEF KeptStays
<1>6. CASE HealReused(t)
  <2>1. /\ Bump(task[t].slot) /\ task[t].pc = "entered" /\ UNCHANGED registered
        /\ task' = [task EXCEPT ![t].sequel = "pending", ![t].pc = "auth"]
    BY <1>6 DEF HealReused, At
  <2>2. task[t].slot \in Slots /\ "auth" \in Stages /\ "pending" \in Sequels
    BY <2>1, Started, Names DEF Inside, Sequels
  <2>3. KeptIs(Kept.tokens, IF Current(t) THEN "Active" ELSE Kept.auth_state, Kept.persistence_pending)
    BY <1>1, <1>6, <2>2, SetStateEffect DEF HealReused, AuthStates
  <2>4. TaskIs(t, "auth", task[t].slot, task[t].time, task[t].credential, task[t].other,
               task[t].answer, "pending")
    BY <1>1, <2>1, <2>2, SequelEffect
  <2>5. superseded \subseteq superseded' /\ Waits(t)
    BY <2>1 DEF Bump, Waits
  <2>6. /\ Others(t) /\ task'[t].pc \in {"save", "auth"} /\ task'[t].time = task[t].time
        /\ task'[t].slot = task[t].slot /\ task'[t].sequel = "pending"
    BY <2>4 DEF TaskIs
  <2>7. QED
    BY <1>2, <2>3, <2>5, <2>6, WaitOutside
<1>7. CASE RefusePreparation(t)
  BY <1>1, <1>2, <1>7, LeaveOutside DEF RefusePreparation
<1>8. CASE PrepareReady(t)
  <2>1. /\ UNCHANGED memory /\ task[t].pc = "entered" /\ Usable(MySlot(t).tokens, task[t].time)
        /\ HandOver(t, MySlot(t).tokens)
    BY <1>8 DEF PrepareReady, At
  <2>2. MySlot(t).tokens \in Stored
    BY <1>1, <2>1, Started DEF TypeOK, MySlot, TokenSlots
  <2>3. TaskIs(t, "prepared", task[t].slot, 0, MySlot(t).tokens, None, "none", "none") /\ KeptStays
    BY <1>1, <2>1, <2>2, HandOverEffect, MemoryStays DEF memory
  <2>4. Others(t) /\ task'[t].pc = "prepared" /\ task'[t].slot = task[t].slot /\ Waits(t)
    BY <2>1, <2>3 DEF TaskIs, Waits
  <2>5. HoldsToken(t) /\ superseded' = superseded
    BY <2>1, <2>4 DEF HoldsToken, memory
  <2>6. QED
    BY <1>2, <2>3, <2>4, <2>5, HoldOutside
<1>9. CASE StartRefresh(t)
  <2>1. Bump(task[t].slot) /\ task[t].pc = "entered"
    BY <1>9 DEF StartRefresh, At
  <2>2. task[t].slot \in Slots
    BY <2>1, Started
  <2>3. /\ TaskIs(t, "exchange", task[t].slot, task[t].time, task[t].credential, task[t].other,
                  task[t].answer, "none")
        /\ KeptIs(Kept.tokens, IF Current(t) THEN "Refreshing" ELSE Kept.auth_state,
                  Kept.persistence_pending)
    BY <1>1, <1>9, <2>2, StartRefreshEffect
  <2>4. superseded \subseteq superseded'
    BY <2>1 DEF Bump
  <2>5. Others(t) /\ task'[t].pc = "exchange" /\ ~Waits(t)'
    BY <2>3 DEF TaskIs, Waits, WriteStages, SaveStages
  <2>6. QED
    BY <1>2, <2>3, <2>4, <2>5, WaitOutside
<1>10. QED
  BY <1>3, <1>4, <1>5, <1>6, <1>7, <1>8, <1>9

\* The steps after it that bring no token.
LEMMA EndingOutside ==
  ASSUME Structure, NEW t \in Requests,
         InstallReauth(t) \/ DropResult(t) \/ SaveAuth(t) \/ Dispatch(t) \/ Accepted(t)
  PROVE  Outside(t) /\ Unwritten
<1>1. t \in Tasks /\ TypeOK
  BY DEF Tasks, Structure
<1>2. Unwritten
  BY DEF InstallReauth, DropResult, SaveAuth, Dispatch, Accepted, durable, Unwritten
<1>3. CASE InstallReauth(t)
  <2>1. task[t].pc = "returned" /\ superseded' = superseded
    BY <1>3 DEF InstallReauth, At
  <2>2. task[t].slot \in Slots
    BY <2>1, Started
  <2>3. /\ TaskIs(t, "auth", task[t].slot, 0, None, None, "none", "reauth")
        /\ KeptIs(Kept.tokens, "Reauth", Kept.persistence_pending)
    BY <1>1, <1>3, <2>2, InstallReauthEffect
  <2>4. Others(t) /\ task'[t].pc = "auth" /\ task'[t].sequel = "reauth" /\ ~Waits(t)'
    BY <2>3 DEF TaskIs, Waits
  <2>5. QED
    BY <1>2, <2>1, <2>3, <2>4, WaitOutside
<1>4. CASE DropResult(t)
  <2>1. task[t].slot \in Slots
    BY <1>4, Started DEF DropResult, At
  <2>2. QED
    BY <1>1, <1>2, <1>4, <2>1, DropResultEffect, LeftOutside
<1>5. CASE SaveAuth(t)
  <2>1. task[t].pc = "auth" /\ LockFree
    BY <1>5 DEF SaveAuth, At
  <2>2. task[t].slot \in Slots /\ lock # t
    BY <1>1, <2>1, Started, TokenAssumption DEF LockFree
  <2>3. CASE Leave(t)
    BY <1>1, <1>2, <2>3, LeaveOutside
  <2>4. CASE Current(t) /\ AfterAuth(t)
    <3>1. KeptStays
      BY <1>1, <2>2, <2>4, AfterAuthEffect
    <3>2. \/ /\ task[t].sequel = "pending"
             /\ superseded' = superseded
             /\ TaskIs(t, "entered", task[t].slot, task[t].time, task[t].credential, task[t].other,
                       task[t].answer, task[t].sequel)
          \/ /\ task[t].sequel = "refreshed"
             /\ superseded' = superseded
             /\ TaskIs(t, "prepared", task[t].slot, 0, Kept.tokens, None, "none", "none")
          \/ /\ superseded' = superseded \ {t}
             /\ TaskIs(t, "idle", 0, 0, None, None, "none", "none")
      BY <1>1, <2>2, <2>4, AfterAuthEffect
    <3>3. CASE superseded' = superseded \ {t} /\ TaskIs(t, "idle", 0, 0, None, None, "none", "none")
      BY <1>1, <1>2, <3>1, <3>3, LeftOutside DEF KeptStays
    <3>4. CASE /\ task[t].sequel = "pending"
               /\ superseded' = superseded
               /\ TaskIs(t, "entered", task[t].slot, task[t].time, task[t].credential, task[t].other,
                         task[t].answer, task[t].sequel)
      <4>1. /\ Others(t) /\ task'[t].pc = "entered" /\ task'[t].time = task[t].time
            /\ task'[t].slot = task[t].slot
        BY <3>4 DEF TaskIs
      <4>2. Waits(t) /\ superseded \subseteq superseded'
        BY <2>1, <3>4 DEF Waits, WriteStages
      <4>3. QED
        BY <1>2, <3>1, <4>1, <4>2, WaitOutside DEF KeptStays
    <3>5. CASE /\ task[t].sequel = "refreshed"
               /\ superseded' = superseded
               /\ TaskIs(t, "prepared", task[t].slot, 0, Kept.tokens, None, "none", "none")
      <4>1. Others(t) /\ task'[t].pc = "prepared" /\ task'[t].slot = task[t].slot
        BY <3>5 DEF TaskIs
      <4>2. HoldsToken(t)
        BY <2>1, <2>4, <3>5, <4>1 DEF HoldsToken, WriteStages
      <4>3. QED
        BY <1>2, <3>1, <3>5, <4>1, <4>2, HoldOutside
    <3>6. QED
      BY <3>2, <3>3, <3>4, <3>5
  <2>5. QED
    BY <1>5, <2>3, <2>4 DEF SaveAuth
<1>6. CASE Dispatch(t)
  <2>1. CASE Go(t, "sent") /\ UNCHANGED memory
    <3>1. /\ TaskIs(t, "sent", task[t].slot, task[t].time, task[t].credential, task[t].other,
                    task[t].answer, task[t].sequel)
          /\ KeptStays
      BY <1>1, <2>1, Names, GoEffect, MemoryStays DEF memory
    <3>2. Others(t) /\ task'[t].pc = "sent" /\ task'[t].slot = task[t].slot
      BY <3>1 DEF TaskIs
    <3>3. HoldsToken(t) /\ superseded' = superseded
      BY <1>6, <2>1, <3>2 DEF HoldsToken, memory, Dispatch, At
    <3>4. QED
      BY <1>2, <3>1, <3>2, <3>3, HoldOutside
  <2>2. CASE Leave(t)
    BY <1>1, <1>2, <2>2, LeaveOutside
  <2>3. QED
    BY <1>6, <2>1, <2>2 DEF Dispatch, memory
<1>7. CASE Accepted(t)
  BY <1>1, <1>2, <1>7, LeaveOutside DEF Accepted
<1>8. QED
  BY <1>3, <1>4, <1>5, <1>6, <1>7

-----------------------------------------------------------------------------
(* What was issued before a deletion *)

Clean(c) == c # None => c.grant \notin buried

\* What a request brings back, and what the user's commands put back.
CleanTask(t) ==
  /\ task[t].pc \in LoadStages \/ (Ok(t) /\ Current(t)) => Clean(task[t].credential)
  /\ BringsPair(t) => Clean(task[t].other)
CleanUser ==
  /\ task[User].pc \in {"loginAccount", "register", "edit", "edited"} => Clean(task[User].credential)
  /\ task[User].pc \in {"loginAccount"} \cup DeleteStages => Clean(task[User].other)
  /\ task[User].pc \in DeleteStages => primary = None
  /\ At(User, "deleteAccount") => rotation = None
CleanStore ==
  /\ Clean(primary)
  /\ registered # 0 => Clean(Kept.tokens)
  /\ rotation # None => Clean(rotation.after)
AllIssued == \A g \in buried : use[g] # "none"

BurialInv == AllIssued /\ CleanStore /\ CleanUser /\ \A t \in Requests : CleanTask(t)

\* No grant is taken back.
Monotone == \A g \in Grants : use[g] # "none" => use'[g] # "none"

\* A step of a task that buries nothing and takes only what was in view.
LEMMA BurialStep ==
  ASSUME Structure, BurialInv, NEW t \in Tasks, Others(t), buried' = buried, Monotone,
         registered' = registered, CleanStore',
         t \in Requests => /\ CleanTask(t)'
                           /\ \/ primary' = primary /\ rotation' = rotation
                              \/ lock = t \/ LockFree,
         t = User => CleanUser'
  PROVE  BurialInv'
<1>1. AllIssued'
  BY DEF BurialInv, AllIssued, Monotone, Structure, TypeOK
<1>2. ASSUME NEW u \in Requests PROVE CleanTask(u)'
  <2>1. CASE u = t
    BY <2>1
  <2>2. CASE u # t
    <3>1. task'[u] = task[u]
      BY <2>2 DEF Others, Tasks
    <3>2. QED
      BY <3>1 DEF BurialInv, CleanTask, Clean, Ok, BringsPair, At, Current
  <2>3. QED
    BY <2>1, <2>2
<1>3. CleanUser'
  <2>1. CASE t = User
    BY <2>1
  <2>2. CASE t # User
    <3>1. t \in Requests /\ task'[User] = task[User] /\ User \in Tasks
      BY <2>2, UserStarted DEF Others, Tasks
    <3>2. lock = t \/ LockFree => task[User].pc \notin DeleteStages
      BY <2>2, <3>1, TokenAssumption DEF Structure, LockInv, LockFree, LockStages
    <3>3. QED
      BY <3>1, <3>2 DEF BurialInv, CleanUser, Clean, At, DeleteStages
  <2>3. QED
    BY <2>1, <2>2
<1>4. QED
  BY <1>1, <1>2, <1>3 DEF BurialInv

\* A step outside the store, the journal and the adapter takes nothing new.
LEMMA OutsideBurial ==
  ASSUME Structure, BurialInv, NEW t \in Requests, Outside(t),
         primary' = primary, rotation' = rotation, buried' = buried, Monotone
  PROVE  BurialInv'
<1>1. t \in Tasks /\ Others(t) /\ registered' = registered
      /\ task'[t].pc \notin LoadStages \cup {"returned"}
  BY DEF Outside, Tasks
<1>2. CleanTask(t)'
  BY <1>1 DEF CleanTask, Ok, BringsPair, At, LoadStages
<1>3. CleanStore'
  BY DEF Outside, BurialInv, CleanStore, Clean
<1>4. t # User
  BY TokenAssumption
<1>5. QED
  BY <1>1, <1>2, <1>3, <1>4, BurialStep

\* The steps of the adapter, and those that write, hold the lock or take it.
LEMMA HolderBurial ==
  ASSUME Structure, BurialInv, NEW t \in Requests, Others(t), buried' = buried, Monotone,
         registered' = registered, registered # 0 => Kept.tokens' = Kept.tokens, CleanTask(t)',
         lock = t \/ LockFree, Clean(primary)', rotation' # None => Clean(rotation.after)'
  PROVE  BurialInv'
<1>1. t \in Tasks /\ t # User
  BY TokenAssumption DEF Tasks
<1>2. CleanStore'
  BY DEF BurialInv, CleanStore, Clean
<1>3. QED
  BY <1>1, <1>2, BurialStep

\* An answer that brings nothing.
LEMMA AnswerBurial ==
  ASSUME Structure, BurialInv, NEW t \in Requests, NEW answer \in Answers \ {"ok"}, Answer(t, answer),
         UNCHANGED <<primary, memory, use, buried>>, rotation' \in {rotation, None},
         rotation' = rotation \/ lock = t
  PROVE  BurialInv'
<1>1. t \in Tasks /\ t # User /\ TypeOK
  BY TokenAssumption DEF Tasks, Structure
<1>2. Others(t) /\ task'[t].pc = "returned" /\ task'[t].answer = answer
  BY <1>1, AnswerEffect DEF TaskIs
<1>3. CleanTask(t)'
  BY <1>2 DEF CleanTask, Ok, BringsPair, At, LoadStages
<1>4. CleanStore' /\ registered' = registered /\ Monotone
  BY DEF BurialInv, CleanStore, Clean, Kept, memory, Monotone
<1>5. buried' = buried
  OBVIOUS
<1>6. (primary' = primary /\ rotation' = rotation) \/ lock = t \/ LockFree
  OBVIOUS
<1>7. QED
  BY <1>1, <1>2, <1>3, <1>4, <1>5, <1>6, BurialStep

\* An answer that brings a clean credential.
LEMMA AnswerOkBurial ==
  ASSUME Structure, BurialInv, NEW t \in Requests, NEW c \in Credentials, AnswerOk(t, c), Clean(c),
         UNCHANGED <<primary, memory, use, buried>>, rotation' \in {rotation, None},
         rotation' = rotation \/ lock = t
  PROVE  BurialInv'
<1>1. t \in Tasks /\ t # User /\ TypeOK /\ c \in Stored
  BY TokenAssumption, Names DEF Tasks, Structure
<1>2. Others(t) /\ task'[t].pc = "returned" /\ task'[t].credential = c
  BY <1>1, AnswerOkEffect DEF TaskIs
<1>3. CleanTask(t)'
  BY <1>2 DEF CleanTask, BringsPair, At, LoadStages, Clean
<1>4. CleanStore' /\ registered' = registered /\ Monotone
  BY DEF BurialInv, CleanStore, Clean, Kept, memory, Monotone
<1>5. buried' = buried
  OBVIOUS
<1>6. (primary' = primary /\ rotation' = rotation) \/ lock = t \/ LockFree
  OBVIOUS
<1>7. QED
  BY <1>1, <1>2, <1>3, <1>4, <1>5, <1>6, BurialStep

\* The adapter goes on under the lock it holds.
LEMMA GoBurial ==
  ASSUME Structure, BurialInv, NEW t \in Requests, task[t].pc \in LoadStages, NEW stage \in LoadStages,
         Go(t, stage), stage # "answered",
         stage \in {"rotated", "saved"} => BringsPair(t),
         UNCHANGED <<memory, buried>>, Monotone,
         Clean(primary)', rotation' # None => Clean(rotation.after)'
  PROVE  BurialInv'
<1>1. t \in Tasks /\ TypeOK /\ stage \in Stages
  BY Names DEF Tasks, Structure, LoadStages, Inside
<1>2. /\ Others(t) /\ task'[t].pc = stage /\ task'[t].credential = task[t].credential
      /\ task'[t].other = task[t].other
  BY <1>1, GoEffect DEF TaskIs
<1>3. CleanTask(t)
  BY DEF BurialInv
<1>4. CleanTask(t)'
  BY <1>2, <1>3 DEF CleanTask, Ok, BringsPair, At, Clean, LoadStages
<1>5. lock = t
  BY <1>1 DEF Structure, LockInv, LockStages
<1>6. registered' = registered /\ Kept.tokens' = Kept.tokens /\ buried' = buried
  BY DEF memory, Kept
<1>7. QED
  BY <1>2, <1>4, <1>5, <1>6, HolderBurial

\* What the adapter reads is in the store, or in its checkpoint.
LEMMA LoadBurial ==
  ASSUME Structure, BurialInv, NEW t \in Requests, Load(t)
  PROVE  BurialInv'
<1>1. /\ UNCHANGED <<memory, use, bounds>> /\ task[t].pc = "exchange" /\ LockFree /\ TypeOK /\ t \in Tasks
      /\ primary \in Stored /\ rotation \in Checkpoints \cup {None}
  BY DEF Load, At, Structure, Tasks, TypeOK
<1>2. /\ Monotone /\ buried' = buried /\ registered' = registered /\ Kept.tokens' = Kept.tokens
      /\ CleanStore
  BY <1>1 DEF Monotone, bounds, memory, Kept, BurialInv
<1>3. CASE LoadStored(t) /\ primary # None
  <2>1. rotation' = None /\ primary' = primary
    BY <1>3 DEF LoadStored
  <2>2. primary \in Credentials
    BY <1>1, <1>3 DEF Stored
  <2>3. TaskIs(t, "decide", task[t].slot, task[t].time, primary, task[t].other, task[t].answer,
               task[t].sequel)
    BY <1>1, <1>3, Names, CarryEffect DEF LoadStored, Inside
  <2>4. CleanTask(t)' /\ Others(t)
    BY <1>2, <2>1, <2>3 DEF TaskIs, CleanTask, Ok, BringsPair, At, Clean, CleanStore
  <2>5. Clean(primary)'
    BY <1>2, <2>1 DEF CleanStore, Clean
  <2>6. QED
    BY <1>1, <1>2, <2>1, <2>4, <2>5, HolderBurial
<1>4. CASE RecoverRotation(t) /\ primary # None
  <2>1. /\ primary' = [rotation.after EXCEPT !.proxy = primary.proxy]
        /\ task' = [task EXCEPT ![t].pc = "recovered", ![t].credential = primary']
        /\ rotation.after # None /\ rotation # None /\ rotation' = rotation
    BY <1>4 DEF RecoverRotation, Recoverable, NoCheckpoint
  <2>2. rotation.after \in Credentials /\ primary \in Credentials
    BY <1>1, <1>4, <2>1 DEF Stored, Checkpoints
  <2>3. primary' \in Credentials /\ primary'.grant = rotation.after.grant
    BY <2>1, <2>2 DEF Credentials
  <2>4. TaskIs(t, "recovered", task[t].slot, task[t].time, primary', task[t].other, task[t].answer,
               task[t].sequel)
    BY <1>1, <2>1, <2>3, Names, CarryEffect DEF Inside
  <2>5. Clean(primary)'
    BY <1>2, <2>1, <2>3 DEF CleanStore, Clean
  <2>6. CleanTask(t)' /\ Others(t)
    BY <2>4, <2>5 DEF TaskIs, CleanTask, Ok, BringsPair, At, Clean
  <2>7. rotation' # None => Clean(rotation.after)'
    BY <1>2, <2>1 DEF CleanStore, Clean
  <2>8. QED
    BY <1>1, <1>2, <2>5, <2>6, <2>7, HolderBurial
<1>5. CASE UNCHANGED durable /\ Answer(t, "recovery")
  <2>1. "recovery" \in Answers \ {"ok"} /\ UNCHANGED <<primary, memory, use, buried>> /\ rotation' = rotation
    BY <1>1, <1>5 DEF Answers, durable, bounds
  <2>2. QED
    BY <1>5, <2>1, AnswerBurial
<1>6. CASE UNCHANGED durable /\ Answer(t, "transient")
  <2>1. "transient" \in Answers \ {"ok"} /\ UNCHANGED <<primary, memory, use, buried>> /\ rotation' = rotation
    BY <1>1, <1>6 DEF Answers, durable, bounds
  <2>2. QED
    BY <1>6, <2>1, AnswerBurial
<1>7. QED
  BY <1>3, <1>4, <1>5, <1>6 DEF Load, RequireRecovery

\* The steps that go on or answer.
LEMMA GoingBurial ==
  ASSUME Structure, BurialInv, NEW t \in Requests,
         ForgetRecovered(t) \/ CheckpointGrant(t) \/ Send(t) \/ CheckpointRotation(t) \/ SaveRotated(t)
  PROVE  BurialInv'
<1>1. /\ TypeOK /\ t \in Tasks /\ CleanStore /\ CleanTask(t) /\ task[t].pc \in LoadStages
      /\ {"decide", "send", "wait", "rotated", "saved"} \subseteq LoadStages
  BY DEF Structure, Tasks, BurialInv, LoadStages, ForgetRecovered, CheckpointGrant, Send,
         CheckpointRotation, SaveRotated, At
<1>2. UNCHANGED <<memory, buried>>
  BY DEF ForgetRecovered, CheckpointGrant, Send, CheckpointRotation, SaveRotated, bounds
<1>3. Monotone
  <2>1. CASE Send(t)
    BY <1>1, <2>1 DEF Send, Monotone, TypeOK
  <2>2. CASE use' = use
    BY <2>2 DEF Monotone
  <2>3. QED
    BY <2>1, <2>2 DEF ForgetRecovered, CheckpointGrant, CheckpointRotation, SaveRotated
<1>4. CASE ForgetRecovered(t)
  <2>1. Go(t, "decide") /\ rotation' = None /\ primary' = primary
    BY <1>4 DEF ForgetRecovered
  <2>2. Clean(primary)'
    BY <1>1, <1>2, <2>1 DEF CleanStore, Clean
  <2>3. QED
    BY <1>1, <1>2, <1>3, <2>1, <2>2, GoBurial
<1>5. CASE CheckpointGrant(t)
  <2>1. primary' = primary
    BY <1>5 DEF CheckpointGrant
  <2>2. Clean(primary)'
    BY <1>1, <1>2, <2>1 DEF CleanStore, Clean
  <2>3. CASE rotation' = [before |-> task[t].credential, after |-> None] /\ Go(t, "send")
    <3>1. Clean(rotation.after)'
      BY <2>3 DEF Clean
    <3>2. QED
      BY <1>1, <1>2, <1>3, <2>2, <2>3, <3>1, GoBurial
  <2>4. CASE Answer(t, "transient") /\ rotation' = rotation
    <3>1. "transient" \in Answers \ {"ok"} /\ UNCHANGED <<primary, memory, use, buried>>
      BY <1>2, <1>5 DEF Answers, CheckpointGrant
    <3>2. QED
      BY <2>4, <3>1, AnswerBurial
  <2>5. QED
    BY <1>5, <2>3, <2>4 DEF CheckpointGrant
<1>6. CASE Send(t)
  <2>1. Go(t, "wait") /\ rotation' = rotation /\ primary' = primary
    BY <1>6 DEF Send, durable
  <2>2. Clean(primary)' /\ (rotation' # None => Clean(rotation.after)')
    BY <1>1, <1>2, <2>1 DEF CleanStore, Clean
  <2>3. QED
    BY <1>1, <1>2, <1>3, <2>1, <2>2, GoBurial
<1>7. CASE CheckpointRotation(t)
  <2>1. /\ Go(t, "rotated") /\ primary' = primary /\ BringsPair(t)
        /\ rotation' = [before |-> task[t].credential, after |-> task[t].other]
    BY <1>7 DEF CheckpointRotation, BringsPair, At
  <2>2. Clean(primary)' /\ Clean(rotation.after)'
    BY <1>1, <1>2, <2>1 DEF CleanStore, CleanTask, Clean
  <2>3. QED
    BY <1>1, <1>2, <1>3, <2>1, <2>2, GoBurial
<1>8. CASE SaveRotated(t)
  <2>1. /\ Go(t, "saved") /\ primary' = task[t].other /\ BringsPair(t) /\ rotation' = rotation
    BY <1>8 DEF SaveRotated, BringsPair, At
  <2>2. Clean(primary)' /\ (rotation' # None => Clean(rotation.after)')
    BY <1>1, <1>2, <2>1 DEF CleanStore, CleanTask, Clean
  <2>3. QED
    BY <1>1, <1>2, <1>3, <2>1, <2>2, GoBurial
<1>9. QED
  BY <1>4, <1>5, <1>6, <1>7, <1>8

\* The adapter's other answers.
LEMMA AnsweringBurial ==
  ASSUME Structure, BurialInv, NEW t \in Requests,
         UseStored(t) \/ Overtaken(t) \/ FailRefresh(t) \/ ForgetRotated(t)
  PROVE  BurialInv'
<1>1. /\ TypeOK /\ t \in Tasks /\ CleanStore /\ CleanTask(t) /\ task[t].pc \in LoadStages /\ lock = t
      /\ task[t].pc # "idle"
  BY DEF Structure, Tasks, BurialInv, LoadStages, UseStored, Overtaken, FailRefresh, ForgetRotated, At,
         LockInv, LockStages
<1>2. UNCHANGED <<primary, memory, use, buried>> /\ rotation' \in {rotation, None}
  BY DEF UseStored, Overtaken, FailRefresh, ForgetRotated, bounds, durable
<1>3. StageOf(t) /\ task[t] \in TaskStates
  BY <1>1, Started
<1>4. ASSUME NEW c \in Credentials, AnswerOk(t, c), Clean(c) PROVE BurialInv'
  BY <1>1, <1>2, <1>4, AnswerOkBurial
<1>5. ASSUME NEW answer \in Answers \ {"ok"}, Answer(t, answer) PROVE BurialInv'
  BY <1>1, <1>2, <1>5, AnswerBurial
<1>6. CASE UseStored(t)
  <2>1. task[t].credential \in Credentials /\ Clean(task[t].credential)
    BY <1>1, <1>3 DEF StageOf, CleanTask
  <2>2. QED
    BY <1>4, <1>6, <2>1 DEF UseStored
<1>7. CASE Overtaken(t)
  <2>1. "transient" \in Answers \ {"ok"}
    BY DEF Answers
  <2>2. primary # None => primary \in Credentials /\ Clean(primary)
    BY <1>1 DEF TypeOK, Stored, CleanStore
  <2>3. QED
    BY <1>4, <1>5, <1>7, <2>1, <2>2 DEF Overtaken
<1>8. CASE FailRefresh(t)
  <2>1. task[t].answer \in Answers \ {"ok"}
    BY <1>3, <1>8 DEF FailRefresh, TaskStates
  <2>2. QED
    BY <1>5, <1>8, <2>1 DEF FailRefresh
<1>9. CASE ForgetRotated(t)
  <2>1. BringsPair(t)
    BY <1>9 DEF ForgetRotated, BringsPair
  <2>2. task[t].other \in Credentials /\ Clean(task[t].other)
    BY <1>1, <1>3, <2>1 DEF StageOf, CleanTask
  <2>3. QED
    BY <1>4, <1>9, <2>2 DEF ForgetRotated
<1>10. QED
  BY <1>6, <1>7, <1>8, <1>9

\* A pair is new: it was not issued when the account was deleted.
LEMMA ProviderBurial ==
  ASSUME Structure, BurialInv, NEW t \in Requests, ProviderRotates(t) \/ ProviderFails(t)
  PROVE  BurialInv'
<1>1. /\ TypeOK /\ t \in Tasks /\ CleanStore /\ CleanTask(t) /\ task[t].pc = "wait" /\ lock = t
      /\ AllIssued /\ task[t].pc \in LoadStages
  BY DEF Structure, Tasks, BurialInv, LoadStages, ProviderRotates, ProviderFails, At,
         LockInv, LockStages
<1>2. UNCHANGED <<durable, lock, memory>> /\ registered' = registered /\ Kept.tokens' = Kept.tokens
  BY DEF ProviderRotates, ProviderFails, memory, Kept
<1>3. task[t].credential \in Credentials /\ Clean(task[t].credential)
  BY <1>1, Started DEF StageOf, CleanTask
<1>4. task[t].credential.grant \in Grants /\ task[t].credential.grant \notin buried
  <2>1. task[t].credential.grant \in Grants
    BY <1>3 DEF Credentials
  <2>2. task[t].credential # None
    BY <1>3, NoneAssumption
  <2>3. QED
    BY <1>3, <2>1, <2>2 DEF Clean
<1>5. CASE ProviderRotates(t)
  <2>1. /\ use' = [use EXCEPT ![task[t].credential.grant] = "spent", ![NextGrant] = "fresh"]
        /\ buried' = buried /\ Unissued # {}
    BY <1>4, <1>5 DEF ProviderRotates
  <2>2. NextGrant \in Grants /\ NextGrant \notin buried
    BY <1>1, <2>1, NextGrantIsNew DEF AllIssued
  <2>3. Monotone
    BY <1>1, <2>1 DEF Monotone, TypeOK
  <2>4. /\ Pair(t) \in Credentials
        /\ TaskIs(t, "answered", task[t].slot, task[t].time, task[t].credential, Pair(t), "ok",
                  task[t].sequel)
    BY <1>1, <1>3, <1>5, ProviderRotatesEffect
  <2>5. Clean(Pair(t))
    BY <2>2 DEF Clean, Pair
  <2>6. CleanTask(t)' /\ Others(t)
    BY <1>3, <2>1, <2>4, <2>5 DEF TaskIs, CleanTask, Clean, Ok, At
  <2>7. Clean(primary)' /\ (rotation' # None => Clean(rotation.after)')
    BY <1>1, <1>2, <2>1 DEF CleanStore, Clean, durable
  <2>8. QED
    BY <1>1, <1>2, <2>1, <2>3, <2>6, <2>7, HolderBurial
<1>6. CASE ProviderFails(t)
  <2>1. PICK outcome \in {"refused", "fresh", "lost"}, answer \in {"refused", "transient"} :
          /\ use' = [use EXCEPT ![task[t].credential.grant] = outcome]
          /\ task' = [task EXCEPT ![t].pc = "answered", ![t].answer = answer]
    BY <1>6, ProviderFailsOutcome
  <2>2. Monotone /\ buried' = buried
    BY <1>1, <1>6, <2>1 DEF Monotone, TypeOK, ProviderFails, bounds
  <2>3. TaskIs(t, "answered", task[t].slot, task[t].time, task[t].credential, task[t].other, answer,
               task[t].sequel)
    BY <1>1, <2>1, ProviderFailsEffect
  <2>4. CleanTask(t)' /\ Others(t)
    BY <1>3, <2>2, <2>3 DEF TaskIs, CleanTask, Clean, Ok, BringsPair, At
  <2>5. Clean(primary)' /\ (rotation' # None => Clean(rotation.after)')
    BY <1>1, <1>2, <2>2 DEF CleanStore, Clean, durable
  <2>6. QED
    BY <1>1, <1>2, <2>2, <2>4, <2>5, HolderBurial
<1>7. QED
  BY <1>5, <1>6

\* The slot gets what the request brought for it.
LEMMA InstallRefreshedBurial ==
  ASSUME Structure, BurialInv, NEW t \in Requests, InstallRefreshed(t)
  PROVE  BurialInv'
<1>1. /\ TypeOK /\ UNCHANGED <<durable, use, bounds>> /\ task[t].pc = "returned"
      /\ Current(t) /\ Ok(t) /\ CleanTask(t) /\ CleanStore
  BY DEF InstallRefreshed, At, Structure, Ok, BurialInv
<1>2. /\ t \in Tasks /\ t # User /\ task[t].slot \in Slots /\ task[t].credential \in Credentials
      /\ registered # 0
  BY <1>1, Started DEF StageOf, Current
<1>3. /\ TaskIs(t, "save", task[t].slot, 0, None, None, "none", "refreshed")
      /\ KeptIs(Renewed(t), "Active", TRUE)
  BY <1>1, <1>2, InstallRefreshedEffect
<1>4. CleanTask(t)' /\ Others(t)
  BY <1>3 DEF TaskIs, CleanTask, Ok, BringsPair, At, LoadStages
<1>5. registered' = registered /\ Kept.tokens' = Renewed(t)
  BY <1>2, <1>3 DEF KeptIs, Kept
<1>6. Renewed(t).grant = task[t].credential.grant
  BY DEF Renewed
<1>7. task[t].credential.grant \notin buried
  BY <1>1, <1>2, TokenAssumption, NoneAssumption DEF CleanTask, Clean
<1>8. buried' = buried /\ Monotone /\ primary' = primary /\ rotation' = rotation
  BY <1>1 DEF bounds, durable, Monotone
<1>9. CleanStore'
  BY <1>1, <1>5, <1>6, <1>7, <1>8 DEF CleanStore, Clean
<1>10. QED
  BY <1>2, <1>4, <1>5, <1>8, <1>9, BurialStep

\* What is merged comes from the slot and the store.
LEMMA SaveTokensBurial ==
  ASSUME Structure, BurialInv, NEW t \in Requests, SaveTokens(t)
  PROVE  BurialInv'
<1>1. /\ TypeOK /\ UNCHANGED <<rotation, use, bounds>> /\ task[t].pc = "save" /\ LockFree /\ CleanStore
  BY DEF SaveTokens, At, Structure, BurialInv
<1>2. t \in Tasks /\ task[t].slot \in Slots
  BY <1>1, Started
<1>3. buried' = buried /\ Monotone
  BY <1>1 DEF bounds, Monotone
<1>4. CASE /\ primary # None /\ registered # 0
           /\ primary' = Merged /\ UNCHANGED memory
           /\ TaskIs(t, "saveClear", task[t].slot, task[t].time, Merged, task[t].other,
                     task[t].answer, task[t].sequel)
  <2>1. primary \in Credentials /\ Kept.tokens \in Credentials
    BY <1>1, <1>4 DEF TypeOK, Stored, Kept
  <2>2. Merged.grant \in {primary.grant, Kept.tokens.grant}
    BY <2>1 DEF Merged, Credentials
  <2>3. primary.grant \notin buried /\ Kept.tokens.grant \notin buried
    BY <1>1, <1>4, <2>1, NoneAssumption DEF CleanStore, Clean
  <2>4. Clean(primary)' /\ (rotation' # None => Clean(rotation.after)')
    BY <1>1, <1>3, <1>4, <2>2, <2>3 DEF CleanStore, Clean
  <2>5. CleanTask(t)' /\ Others(t)
    BY <1>4 DEF TaskIs, CleanTask, Ok, BringsPair, At, LoadStages
  <2>6. registered' = registered /\ Kept.tokens' = Kept.tokens
    BY <1>4 DEF memory, Kept
  <2>7. QED
    BY <1>1, <1>3, <2>4, <2>5, <2>6, HolderBurial
<1>5. CASE Leave(t) /\ UNCHANGED primary
  BY <1>1, <1>2, <1>3, <1>5, LeaveOutside, OutsideBurial
<1>6. QED
  BY <1>1, <1>2, <1>4, <1>5, SaveTokensEffect

\* The rest of the write changes no credential.
LEMMA PersistBurial ==
  ASSUME Structure, BurialInv, NEW t \in Requests, ClearCheckpoint(t) \/ SaveGeneration(t)
  PROVE  BurialInv'
<1>1. /\ TypeOK /\ primary' = primary /\ buried' = buried /\ Monotone /\ t \in Tasks /\ CleanStore
      /\ rotation' \in {rotation, None} /\ task[t].pc \in SaveStages
  BY DEF ClearCheckpoint, SaveGeneration, Structure, bounds, Monotone, Tasks, BurialInv, At, SaveStages
<1>2. task[t].slot \in Slots /\ lock = t /\ Current(t) /\ registered # 0
  BY <1>1, Started DEF Structure, LockInv, LockStages, CurrentInv, SaveStages
<1>3. Clean(primary)' /\ (rotation' # None => Clean(rotation.after)')
  BY <1>1 DEF CleanStore, Clean
<1>4. CASE ClearCheckpoint(t)
  <2>1. Go(t, "saveMeta") /\ UNCHANGED memory
    BY <1>4 DEF ClearCheckpoint
  <2>2. Others(t) /\ task'[t].pc = "saveMeta"
    BY <1>1, <2>1, Names, GoEffect DEF TaskIs, Inside
  <2>3. CleanTask(t)' /\ registered' = registered /\ Kept.tokens' = Kept.tokens
    BY <2>1, <2>2 DEF CleanTask, Ok, BringsPair, At, LoadStages, memory, Kept
  <2>4. QED
    BY <1>1, <1>2, <1>3, <2>2, <2>3, HolderBurial
<1>5. CASE SaveGeneration(t) /\ AfterSave(t)
  <2>1. KeptIs(Kept.tokens, Kept.auth_state, FALSE)
    BY <1>1, <1>2, <1>5, AfterSaveEffect
  <2>2. \/ TaskIs(t, IF task[t].sequel = "pending" THEN "entered" ELSE "auth", task[t].slot,
                  task[t].time, None, task[t].other, task[t].answer, task[t].sequel)
        \/ TaskIs(t, "idle", 0, 0, None, None, "none", "none")
    BY <1>1, <1>2, <1>5, AfterSaveEffect
  <2>3. Others(t) /\ task'[t].pc \in {"entered", "auth", "idle"}
    BY <2>2 DEF TaskIs
  <2>4. CleanTask(t)' /\ registered' = registered /\ Kept.tokens' = Kept.tokens
    BY <1>2, <2>1, <2>3 DEF CleanTask, Ok, BringsPair, At, LoadStages, KeptIs, Kept
  <2>5. QED
    BY <1>1, <1>2, <1>3, <2>3, <2>4, HolderBurial
<1>6. CASE SaveGeneration(t) /\ Leave(t)
  <2>1. rotation' = rotation
    BY <1>6 DEF SaveGeneration
  <2>2. QED
    BY <1>1, <1>6, <2>1, LeaveOutside, OutsideBurial
<1>7. QED
  BY <1>4, <1>5, <1>6 DEF SaveGeneration

\* A rejection cuts the tokens and keeps their grant.
LEMMA InvalidateBurial ==
  ASSUME Structure, BurialInv, NEW t \in Requests, Invalidate(t)
  PROVE  BurialInv'
<1>1. TypeOK /\ task[t].pc = "sent" /\ UNCHANGED <<durable, use, bounds>> /\ CleanStore
  BY DEF Invalidate, At, Structure, BurialInv
<1>2. t \in Tasks /\ t # User /\ task[t].slot \in Slots /\ task[t].slot # 0
  BY <1>1, Started
<1>3. buried' = buried /\ Monotone /\ primary' = primary /\ rotation' = rotation
  BY <1>1 DEF bounds, durable, Monotone
<1>4. CASE GuardHolds(t)
  <2>1. /\ TaskIs(t, "save", task[t].slot, task[t].time, None, task[t].other, task[t].answer,
                  "invalidated")
        /\ KeptIs(Rejected, Kept.auth_state, TRUE)
    BY <1>1, <1>2, <1>4, InvalidateEffect
  <2>2. registered # 0 /\ Kept.tokens \in Credentials
    BY <1>1, <1>2, <1>4 DEF GuardHolds, Current, TypeOK, Kept
  <2>3. Rejected.grant = Kept.tokens.grant
    BY <2>2 DEF Rejected, Credentials
  <2>4. registered' = registered /\ Kept.tokens' = Rejected
    BY <2>1, <2>2 DEF KeptIs, Kept
  <2>5. Kept.tokens.grant \notin buried
    BY <1>1, <2>2, NoneAssumption DEF CleanStore, Clean
  <2>6. CleanStore'
    BY <1>1, <1>3, <2>3, <2>4, <2>5 DEF CleanStore, Clean
  <2>7. CleanTask(t)' /\ Others(t)
    BY <2>1 DEF TaskIs, CleanTask, Ok, BringsPair, At, LoadStages
  <2>8. QED
    BY <1>2, <1>3, <2>4, <2>6, <2>7, BurialStep
<1>5. CASE ~GuardHolds(t)
  BY <1>1, <1>2, <1>3, <1>5, LeaveOutside, OutsideBurial DEF Invalidate
<1>6. QED
  BY <1>4, <1>5

\* A dropped request brings nothing.
LEMMA CancelBurial ==
  ASSUME Structure, BurialInv, NEW t \in Requests, Cancel(t)
  PROVE  BurialInv'
<1>1. t \in Tasks /\ TypeOK /\ Leave(t) /\ UNCHANGED <<durable, buried>>
  BY DEF Tasks, Structure, Cancel
<1>2. Monotone /\ primary' = primary /\ rotation' = rotation
  BY <1>1 DEF Cancel, Monotone, TypeOK, durable
<1>3. QED
  BY <1>1, <1>2, LeaveOutside, OutsideBurial

\* No step of a request digs out what is buried.
LEMMA StepBurial ==
  ASSUME Structure, BurialInv, NEW t \in Requests, PrepareStart(t) \/ Step(t) \/ Cancel(t)
  PROVE  BurialInv'
<1>1. ASSUME Outside(t), Unwritten PROVE BurialInv'
  <2>1. primary' = primary /\ rotation' = rotation /\ buried' = buried /\ Monotone
    BY <1>1 DEF Unwritten, bounds, Monotone
  <2>2. QED
    BY <1>1, <2>1, OutsideBurial
<1>2. CASE \/ PrepareStart(t) \/ EnterSlot(t) \/ WritePending(t) \/ HealReused(t)
           \/ RefusePreparation(t) \/ PrepareReady(t) \/ StartRefresh(t)
  BY <1>1, <1>2, PreparingOutside
<1>3. CASE InstallReauth(t) \/ DropResult(t) \/ SaveAuth(t) \/ Dispatch(t) \/ Accepted(t)
  BY <1>1, <1>3, EndingOutside
<1>4. CASE Adapter(t)
  BY <1>4, LoadBurial, GoingBurial, AnsweringBurial, ProviderBurial DEF Adapter
<1>5. QED
  BY <1>2, <1>3, <1>4, InstallRefreshedBurial, SaveTokensBurial, PersistBurial, InvalidateBurial,
     CancelBurial DEF Step, Adapter

\* A step of a user's command that keeps the registration.
LEMMA CommandBurial ==
  ASSUME Structure, BurialInv, Others(User), buried' = buried, Monotone, registered' = registered,
         registered # 0 => Clean(Kept.tokens)', Clean(primary)', rotation' # None => Clean(rotation.after)',
         CleanUser'
  PROVE  BurialInv'
<1>1. User \in Tasks /\ User \notin Requests
  BY UserStarted
<1>2. CleanStore'
  BY DEF CleanStore
<1>3. QED
  BY <1>1, <1>2, BurialStep

\* A command ends, whatever it puts back.
LEMMA CommandEndsBurial ==
  ASSUME Structure, BurialInv, Leave(User), buried' = buried, use' = use,
         Clean(primary)', rotation' \in {rotation, None}
  PROVE  BurialInv'
<1>1. /\ TaskIs(User, "idle", 0, 0, None, None, "none", "none") /\ KeptStays
  BY UserStarted, UserTypes, LeaveKeeps
<1>2. Others(User) /\ registered' = registered /\ (registered # 0 => Kept.tokens' = Kept.tokens)
  BY <1>1 DEF TaskIs, KeptStays, KeptIs, Kept
<1>3. CleanUser' /\ Monotone
  BY <1>1 DEF TaskIs, CleanUser, At, DeleteStages, Monotone
<1>4. /\ registered # 0 => Clean(Kept.tokens)'
      /\ rotation' # None => Clean(rotation.after)'
  BY <1>2 DEF BurialInv, CleanStore, Clean
<1>5. QED
  BY <1>2, <1>3, <1>4, CommandBurial

\* A sign-in brings a grant that was not issued when the account was deleted.
LEMMA CommitLoginBurial ==
  ASSUME Structure, BurialInv, CommitLogin
  PROVE  BurialInv'
<1>1. /\ UNCHANGED <<rotation, memory, bounds>> /\ Unissued # {}
      /\ use' = [use EXCEPT ![NextGrant] = "fresh"]
  BY DEF CommitLogin
<1>2. /\ primary' = NewLogin
      /\ TaskIs(User, "loginAccount", task[User].slot, task[User].time, NewLogin, primary,
                task[User].answer, task[User].sequel)
  BY UserTypes, CommitLoginEffect
<1>3. NextGrant \in Grants /\ use[NextGrant] = "none"
  BY <1>1, NextGrantIsNew
<1>4. buried' = buried /\ registered' = registered /\ Kept.tokens' = Kept.tokens
  BY <1>1 DEF bounds, memory, Kept
<1>5. Monotone
  BY <1>1, <1>3, UserTypes DEF Monotone
<1>6. NewLogin.grant \notin buried
  BY <1>3 DEF NewLogin, BurialInv, AllIssued
<1>7. Clean(primary)' /\ Others(User)
  BY <1>2, <1>4, <1>6 DEF Clean, TaskIs
<1>8. CleanUser'
  BY <1>2, <1>4, <1>6 DEF TaskIs, CleanUser, Clean, At, DeleteStages, BurialInv, CleanStore
<1>9. /\ registered # 0 => Clean(Kept.tokens)'
      /\ rotation' # None => Clean(rotation.after)'
  BY <1>1, <1>4 DEF BurialInv, CleanStore, Clean
<1>10. QED
  BY <1>4, <1>5, <1>7, <1>8, <1>9, CommandBurial

\* The commands that only go on.
LEMMA CommandGoesBurial ==
  ASSUME Structure, BurialInv, RecordLogin \/ DeleteCredential \/ DeleteCheckpoint \/ StartEdit
  PROVE  BurialInv'
<1>1. User \in Tasks /\ TypeOK /\ CleanStore /\ CleanUser
  BY UserStarted, UserTypes DEF BurialInv
<1>2. /\ UNCHANGED memory /\ use' = use /\ buried' = buried /\ primary' \in {primary, None}
      /\ rotation' \in {rotation, None}
  BY DEF RecordLogin, DeleteCredential, DeleteCheckpoint, StartEdit, bounds, durable
<1>3. /\ registered' = registered /\ Kept.tokens' = Kept.tokens /\ Monotone
  BY <1>2 DEF memory, Kept, Monotone
<1>4. /\ registered # 0 => Clean(Kept.tokens)'
      /\ Clean(primary)'
      /\ rotation' # None => Clean(rotation.after)'
  BY <1>1, <1>2, <1>3 DEF CleanStore, Clean
<1>5. Others(User) /\ CleanUser'
  <2>1. CASE RecordLogin
    <3>1. /\ task' = [task EXCEPT ![User].pc = "register", ![User].other = None] /\ task[User].pc = "loginAccount"
      BY <2>1 DEF RecordLogin, At
    <3>2. TaskIs(User, "register", task[User].slot, task[User].time, task[User].credential, None,
                 task[User].answer, task[User].sequel)
      BY <1>1, <3>1, Names, RememberEffect
    <3>3. QED
      BY <1>1, <1>2, <3>1, <3>2 DEF TaskIs, CleanUser, Clean, At, DeleteStages
  <2>2. CASE DeleteCredential
    <3>1. /\ task' = [task EXCEPT ![User].pc = "deleteJournal", ![User].other = primary] /\ primary' = None
      BY <2>2 DEF DeleteCredential
    <3>2. TaskIs(User, "deleteJournal", task[User].slot, task[User].time, task[User].credential, primary,
                 task[User].answer, task[User].sequel)
      BY <1>1, <3>1, Names, UserTypes, RememberEffect
    <3>3. QED
      BY <1>1, <1>2, <3>1, <3>2 DEF TaskIs, CleanUser, CleanStore, Clean, At, DeleteStages
  <2>3. CASE DeleteCheckpoint
    <3>1. Go(User, "deleteAccount") /\ task[User].pc = "deleteJournal" /\ rotation' = None /\ primary' = primary
      BY <2>3 DEF DeleteCheckpoint, At
    <3>2. TaskIs(User, "deleteAccount", task[User].slot, task[User].time, task[User].credential,
                 task[User].other, task[User].answer, task[User].sequel)
      BY <1>1, <3>1, Names, GoEffect
    <3>3. QED
      BY <1>1, <1>2, <3>1, <3>2 DEF TaskIs, CleanUser, Clean, At, DeleteStages
  <2>4. CASE StartEdit
    <3>1. task' = [task EXCEPT ![User].pc = "edit", ![User].credential = primary]
      BY <2>4 DEF StartEdit
    <3>2. TaskIs(User, "edit", task[User].slot, task[User].time, primary, task[User].other,
                 task[User].answer, task[User].sequel)
      BY <1>1, <3>1, Names, UserTypes, CarryEffect
    <3>3. QED
      BY <1>1, <1>2, <3>2 DEF TaskIs, CleanUser, CleanStore, Clean, At, DeleteStages
  <2>5. QED
    BY <2>1, <2>2, <2>3, <2>4
<1>6. QED
  BY <1>2, <1>3, <1>4, <1>5, CommandBurial

\* The account's new slot has no request.
LEMMA NewSlotBurial ==
  ASSUME Structure, BurialInv, \A u \in Requests : task'[u] = task[u] /\ task[u].slot # registered',
         UNCHANGED <<primary, rotation, use, buried>>, Clean(Kept.tokens)', CleanUser'
  PROVE  BurialInv'
<1>1. AllIssued' /\ CleanStore'
  BY DEF BurialInv, AllIssued, CleanStore, Clean
<1>2. ASSUME NEW u \in Requests PROVE CleanTask(u)'
  BY DEF BurialInv, CleanTask, Clean, Ok, BringsPair, At, Current
<1>3. QED
  BY <1>1, <1>2 DEF BurialInv

\* The authority gets the credential of the sign-in.
LEMMA RegisterLoginBurial ==
  ASSUME Structure, BurialInv, RegisterLogin
  PROVE  BurialInv'
<1>1. /\ UNCHANGED <<durable, use, bounds>> /\ Go(User, "readBack") /\ task[User].pc = "register"
      /\ User \in Tasks /\ TypeOK
  BY UserStarted, UserTypes DEF RegisterLogin, At
<1>2. task[User].credential \in Credentials /\ Clean(task[User].credential) /\ "Active" \in AuthStates
  BY <1>1, UserStarted DEF LoginStages, BurialInv, CleanUser, AuthStates
<1>3. TaskIs(User, "readBack", task[User].slot, task[User].time, task[User].credential,
             task[User].other, task[User].answer, task[User].sequel)
  BY <1>1, Names, GoEffect
<1>4. Others(User) /\ CleanUser'
  BY <1>3 DEF TaskIs, CleanUser, At, DeleteStages
<1>5. TokenSet(task[User].credential).grant \notin buried
  <2>1. task[User].credential # None
    BY <1>2, NoneAssumption
  <2>2. QED
    BY <1>2, <2>1, TokenSetType DEF Clean
<1>6. UNCHANGED <<primary, rotation, use, buried>> /\ Monotone
  BY <1>1 DEF durable, bounds, Monotone
<1>7. Clean(primary)' /\ (rotation' # None => Clean(rotation.after)')
  BY <1>6 DEF BurialInv, CleanStore, Clean
<1>8. CASE registered = 0 /\ InsertSlot(task[User].credential, "Active")
  <2>1. (\A u \in Tasks : task[u].slot # registered') /\ Kept'.tokens = TokenSet(task[User].credential)
    BY <1>2, <1>8, InsertSlotEffect DEF Structure
  <2>2. \A u \in Requests : task'[u] = task[u] /\ task[u].slot # registered'
    BY <1>4, <2>1, UserStarted DEF Others, Tasks
  <2>3. Clean(Kept.tokens)'
    BY <1>5, <1>6, <2>1 DEF Clean
  <2>4. QED
    BY <1>4, <1>6, <2>2, <2>3, NewSlotBurial
<1>9. CASE /\ registered # 0 /\ UNCHANGED registered
           /\ SetSlot(registered, Fresh(TokenSet(task[User].credential), "Active"))
  <2> DEFINE q == Fresh(TokenSet(task[User].credential), "Active")
  <2>1. q.tokens = TokenSet(task[User].credential)
    BY <1>2, FreshType
  <2> HIDE DEF q
  <2>2. slot' = [slot EXCEPT ![registered] = q] /\ registered \in Slots
    BY <1>1, <1>9 DEF SetSlot, TypeOK, q
  <2>3. slot'[registered] = q
    BY <1>1, <2>2 DEF TypeOK
  <2>4. Kept.tokens' = TokenSet(task[User].credential)
    BY <1>9, <2>1, <2>3 DEF Kept
  <2>5. Clean(Kept.tokens)'
    BY <1>5, <1>6, <2>4 DEF Clean
  <2>6. QED
    BY <1>4, <1>6, <1>7, <1>9, <2>5, CommandBurial
<1>10. CASE UNCHANGED memory
  <2>1. registered' = registered /\ (registered # 0 => Clean(Kept.tokens)')
    BY <1>6, <1>10 DEF memory, Kept, BurialInv, CleanStore, Clean
  <2>2. QED
    BY <1>4, <1>6, <1>7, <2>1, CommandBurial
<1>11. QED
  BY <1>8, <1>9, <1>10 DEF RegisterLogin

\* The deletion has emptied the store before it buries what was issued, and
\* nobody else holds the process lock.
LEMMA DeleteAccountBurial ==
  ASSUME Structure, BurialInv, DeleteAccount
  PROVE  BurialInv'
<1>1. /\ UNCHANGED <<primary, rotation, use>> /\ registered' = 0 /\ task[User].pc = "deleteAccount"
      /\ buried' = {g \in Grants : use[g] # "none"} /\ task' = [task EXCEPT ![User] = Idle]
  BY DEF DeleteAccount, At
<1>2. primary = None /\ rotation = None /\ User \in Tasks /\ User \notin Requests
  BY <1>1, UserStarted DEF BurialInv, CleanUser, DeleteStages, At
<1>3. TaskIs(User, "idle", 0, 0, None, None, "none", "none")
  BY <1>1, <1>2, UserTypes, ForgetEffect
<1>4. AllIssued' /\ CleanStore'
  BY <1>1, <1>2 DEF AllIssued, CleanStore, Clean
<1>5. CleanUser'
  BY <1>3 DEF TaskIs, CleanUser, At, DeleteStages
<1>6. lock = User
  BY <1>1, <1>2 DEF Structure, LockInv, LockStages, DeleteStages
<1>7. ASSUME NEW u \in Requests PROVE CleanTask(u)'
  <2>1. task'[u] = task[u] /\ u \in Tasks /\ u # User
    BY <1>2, <1>3 DEF TaskIs, Others, Tasks
  <2>2. task[u].pc \notin LoadStages
    BY <1>6, <2>1 DEF Structure, LockInv, LockStages
  <2>3. ~BringsPair(u)'
    BY <2>1, <2>2 DEF BringsPair, At, LoadStages
  <2>4. Current(u)' => task[u].pc = "idle"
    BY <1>1, <2>1 DEF Current, Structure, StageInv, StageOf
  <2>5. QED
    BY <2>1, <2>2, <2>3, <2>4 DEF CleanTask, Ok, At
<1>8. QED
  BY <1>4, <1>5, <1>7 DEF BurialInv

\* What an edit writes is what it read, with other settings.
LEMMA SaveEditBurial ==
  ASSUME Structure, BurialInv, SaveEdit
  PROVE  BurialInv'
<1>1. UNCHANGED <<rotation, use, bounds>> /\ task[User].pc = "edit" /\ User \in Tasks /\ TypeOK
  BY UserStarted, UserTypes DEF SaveEdit, At
<1>2. task[User].credential \in Credentials /\ Clean(task[User].credential)
  BY <1>1, UserStarted DEF BurialInv, CleanUser
<1>3. buried' = buried /\ Monotone /\ (rotation' # None => Clean(rotation.after)')
  BY <1>1 DEF bounds, Monotone, BurialInv, CleanStore, Clean
<1>4. CASE primary' = Rerouted(task[User].credential) /\ Go(User, "edited") /\ UNCHANGED memory
  <2>1. primary'.grant = task[User].credential.grant /\ task[User].credential # None
    BY <1>2, <1>4, NoneAssumption DEF Rerouted, Credentials
  <2>2. Clean(primary)'
    BY <1>2, <1>3, <2>1 DEF Clean
  <2>3. TaskIs(User, "edited", task[User].slot, task[User].time, task[User].credential,
               task[User].other, task[User].answer, task[User].sequel)
    BY <1>1, <1>4, Names, GoEffect
  <2>4. Others(User) /\ CleanUser'
    BY <1>2, <1>3, <2>3 DEF TaskIs, CleanUser, Clean, At, DeleteStages
  <2>5. registered' = registered /\ (registered # 0 => Clean(Kept.tokens)')
    BY <1>3, <1>4 DEF memory, Kept, BurialInv, CleanStore, Clean
  <2>6. QED
    BY <1>3, <2>2, <2>4, <2>5, CommandBurial
<1>5. CASE Leave(User) /\ primary' = primary
  <2>1. Clean(primary)'
    BY <1>3, <1>5 DEF BurialInv, CleanStore, Clean
  <2>2. QED
    BY <1>1, <1>3, <1>5, <2>1, CommandEndsBurial
<1>6. QED
  BY <1>4, <1>5 DEF SaveEdit, LeaveUser

\* ReadBack and FinishEdit write no credential.
LEMMA CommandStepBurial ==
  ASSUME Structure, BurialInv, CommitLogin \/ DeleteCredential \/ StartEdit \/ UserStep
  PROVE  BurialInv'
<1>1. CASE ReadBack \/ FinishEdit
  <2>1. Leave(User) /\ UNCHANGED <<primary, rotation, use, bounds>>
    BY <1>1 DEF ReadBack, FinishEdit, LeaveUser, durable
  <2>2. buried' = buried /\ use' = use /\ rotation' \in {rotation, None}
    BY <2>1 DEF bounds
  <2>3. Clean(primary)'
    BY <2>1, <2>2 DEF BurialInv, CleanStore, Clean
  <2>4. QED
    BY <2>1, <2>2, <2>3, CommandEndsBurial
<1>2. QED
  BY <1>1, CommitLoginBurial, CommandGoesBurial, RegisterLoginBurial, DeleteAccountBurial,
     SaveEditBurial DEF UserStep

\* A failed command puts back what it found.
LEMMA UserFaultBurial ==
  ASSUME Structure, BurialInv, StorageFault(User)
  PROVE  BurialInv'
<1>1. UNCHANGED <<use, buried>>
  BY DEF StorageFault
<1>2. task[User].pc \notin {"exchange", "recovered", "decide", "answered", "rotated", "saved"}
  BY UserStarted DEF UserStages, DeleteStages, LoginStages
<1>3. Leave(User) /\ rotation' \in {rotation, None}
  BY <1>2 DEF StorageFault, At
<1>4. \/ primary' = primary
      \/ task[User].pc \in {"loginAccount", "deleteJournal", "deleteAccount"} /\ primary' = task[User].other
      \/ task[User].pc = "edited" /\ primary' = task[User].credential
  BY <1>2 DEF StorageFault, At
<1>5. Clean(primary)'
  BY <1>1, <1>4 DEF BurialInv, CleanStore, CleanUser, Clean, DeleteStages
<1>6. QED
  BY <1>1, <1>3, <1>5, CommandEndsBurial

\* A failed request brings what it has received, or nothing.
LEMMA RequestFaultBurial ==
  ASSUME Structure, BurialInv, NEW t \in Requests, StorageFault(t) \/ LockTimeout(t)
  PROVE  BurialInv'
<1>1. UNCHANGED <<use, buried>> /\ t \in Tasks /\ TypeOK
  BY DEF StorageFault, LockTimeout, bounds, Tasks, Structure
<1>2. task[t].pc \in RequestStages
  <2>1. StageOf(t) /\ t # User
    BY <1>1, TokenAssumption DEF Structure, StageInv
  <2>2. QED
    BY <2>1 DEF StageOf
<1>3. \/ Answer(t, "transient") /\ UNCHANGED <<primary, rotation, memory>>
      \/ BringsPair(t) /\ AnswerOk(t, task[t].other) /\ UNCHANGED <<primary, rotation, memory>>
      \/ Leave(t) /\ UNCHANGED <<primary, rotation>>
  <2>1. task[t].pc \notin {"loginAccount", "edited", "deleteJournal", "deleteAccount"}
    BY <1>2 DEF RequestStages, Inside
  <2>2. CASE StorageFault(t)
    BY <2>1, <2>2, SMT DEF StorageFault, At, BringsPair
  <2>3. CASE LockTimeout(t)
    BY <2>3 DEF LockTimeout, durable
  <2>4. QED
    BY <2>2, <2>3
<1>4. CASE Answer(t, "transient") /\ UNCHANGED <<primary, rotation, memory>>
  <2>1. "transient" \in Answers \ {"ok"}
    BY DEF Answers
  <2>2. QED
    BY <1>1, <1>4, <2>1, AnswerBurial
<1>5. CASE BringsPair(t) /\ AnswerOk(t, task[t].other) /\ UNCHANGED <<primary, rotation, memory>>
  <2>1. task[t].pc # "idle" /\ Clean(task[t].other)
    BY <1>5 DEF BringsPair, At, BurialInv, CleanTask
  <2>2. task[t].other \in Credentials
    BY <1>5, <2>1, Started DEF StageOf
  <2>3. QED
    BY <1>1, <1>5, <2>1, <2>2, AnswerOkBurial
<1>6. CASE Leave(t) /\ UNCHANGED <<primary, rotation>>
  <2>1. Monotone /\ buried' = buried
    BY <1>1 DEF Monotone
  <2>2. QED
    BY <1>1, <1>6, <2>1, LeaveOutside, OutsideBurial
<1>7. QED
  BY <1>3, <1>4, <1>5, <1>6

\* A stop brings nothing.
LEMMA CrashBurial ==
  ASSUME Structure, BurialInv, Crash
  PROVE  BurialInv'
<1>1. /\ UNCHANGED <<durable, buried>> /\ task' = [t \in Tasks |-> Idle] /\ registered' = 0
      /\ use' = [g \in Grants |-> IF use[g] = "flying" THEN "unknown" ELSE use[g]]
  BY DEF Crash
<1>2. \A t \in Tasks : task'[t].pc = "idle"
  BY <1>1 DEF Idle
<1>3. AllIssued'
  BY <1>1, UserTypes DEF BurialInv, AllIssued, TypeOK
<1>4. CleanStore'
  BY <1>1 DEF BurialInv, CleanStore, Clean, durable
<1>5. CleanUser' /\ \A t \in Requests : CleanTask(t)'
  BY <1>2 DEF CleanUser, CleanTask, Ok, BringsPair, At, DeleteStages, LoadStages, Tasks
<1>6. QED
  BY <1>3, <1>4, <1>5 DEF BurialInv

\* The runtime starts with the stored credential.
LEMMA AssembleBurial ==
  ASSUME Structure, BurialInv, Assemble
  PROVE  BurialInv'
<1>1. /\ registered = 0 /\ primary # None /\ account # None /\ InsertSlot(primary, account.auth)
      /\ UNCHANGED <<durable, task, use, bounds>>
  BY DEF Assemble
<1>2. primary \in Credentials /\ account.auth \in AuthStates
  BY <1>1, UserTypes DEF Stored, Accounts
<1>3. (\A t \in Tasks : task[t].slot # registered') /\ Kept'.tokens = TokenSet(primary)
  BY <1>1, <1>2, InsertSlotEffect DEF Structure
<1>4. \A u \in Requests : task'[u] = task[u] /\ task[u].slot # registered'
  BY <1>1, <1>3 DEF Tasks
<1>5. UNCHANGED <<primary, rotation, use, buried>>
  BY <1>1 DEF durable, bounds
<1>6. Clean(Kept.tokens)'
  BY <1>1, <1>2, <1>3, <1>5, TokenSetType DEF BurialInv, CleanStore, Clean
<1>7. CleanUser'
  BY <1>1, <1>5 DEF BurialInv, CleanUser, Clean, At
<1>8. QED
  BY <1>4, <1>5, <1>6, <1>7, NewSlotBurial

\* No step brings back what was issued before the deletion.
LEMMA NextBurial ==
  ASSUME Structure, BurialInv, [Next]_vars
  PROVE  BurialInv'
<1>1. ASSUME NEW t \in Tasks, StorageFault(t) \/ LockTimeout(t) PROVE BurialInv'
  <2>1. CASE t \in Requests
    BY <1>1, <2>1, RequestFaultBurial
  <2>2. CASE t = User
    <3>1. ~LockTimeout(User)
      BY UserStarted DEF LockTimeout, LockWaits, At, UserStages, DeleteStages, LoginStages
    <3>2. QED
      BY <1>1, <2>2, <3>1, UserFaultBurial
  <2>3. QED
    BY <2>1, <2>2 DEF Tasks
<1>2. CASE BreakLock \/ Tick \/ UNCHANGED vars
  <2>1. UNCHANGED <<durable, memory, task, use, buried>>
    BY <1>2 DEF BreakLock, Tick, vars, bounds
  <2>2. QED
    BY <2>1 DEF BurialInv, AllIssued, CleanStore, CleanUser, CleanTask, Clean, Ok, BringsPair, At,
                Current, Kept, durable, memory
<1>3. QED
  BY <1>1, <1>2, StepBurial, CommandStepBurial, CrashBurial, AssembleBurial DEF Next

\* None of the issued grants that a deletion buried is in the store, the
\* authority, or with a task, from where a step could bring it back.
THEOREM BurialHolds == Spec => []BurialInv
<1>1. Init => BurialInv
  <2>1. SUFFICES ASSUME Init PROVE BurialInv
    OBVIOUS
  <2>2. \A t \in Tasks : task[t].pc = "idle"
    BY <2>1, InitIdle DEF Tasks
  <2>3. buried = {} /\ rotation = None /\ registered = 0 /\ User \in Tasks
    BY <2>1 DEF Init, Tasks
  <2>4. QED
    BY <2>2, <2>3 DEF BurialInv, AllIssued, CleanStore, CleanUser, CleanTask, Clean, Ok, BringsPair, At,
                      DeleteStages, LoadStages, Tasks
<1>2. Structure /\ BurialInv /\ [Next]_vars => BurialInv'
  BY NextBurial
<1>3. QED
  BY <1>1, <1>2, StructureHolds, PTL DEF Spec

\* What was issued before a deletion never comes back: neither a renewal that
\* was under way, nor a failed command that restores what it had read, nor an
\* edit or a rejection brings it back to the store or the authority.
THEOREM BuriedStay == Spec => []BuriedStayBuried
<1>1. Structure /\ BurialInv => BuriedStayBuried
  <2>1. SUFFICES ASSUME Structure, BurialInv PROVE BuriedStayBuried
    OBVIOUS
  <2>2. registered # 0 => slot[registered].tokens # None
    BY <2>1, NoneAssumption DEF Structure, TypeOK
  <2>3. QED
    BY <2>1, <2>2 DEF BurialInv, CleanStore, Clean, Kept, BuriedStayBuried
<1>2. QED
  BY <1>1, StructureHolds, BurialHolds, PTL
=============================================================================
