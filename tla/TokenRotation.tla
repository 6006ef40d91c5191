--------------------------- MODULE TokenRotation ---------------------------
(***************************************************************************)
(* The rotating sign-in credential of one account: TokenAuthority in       *)
(* memory (crates/relay-core/src/accounts/token_authority), the credential *)
(* and the rotation journal on disk, the account record, and the lock file *)
(* taken by its writers (src-tauri/src/local_pool/accounts/authority,    *)
(* accounts/credentials).  Requests prepare a bearer, renew it and report  *)
(* its rejection, one user signs in again or deletes the account, and the  *)
(* process may stop between any two durable writes.                        *)
(*                                                                         *)
(* A task is separated where it awaits and at every durable write.  What   *)
(* runs in between under the slot's async mutex or the process lock is one *)
(* step.  A slot's revision number is only ever compared for equality with *)
(* a snapshot of it, so the model keeps which snapshots are superseded.    *)
(***************************************************************************)
EXTENDS Integers, FiniteSets

CONSTANTS
  Requests,    \* request tasks
  User,        \* the task of the commands that sign in and delete
  Nobody,      \* the lock file is absent
  Dead,        \* the lock file of a process that is gone
  None,        \* nothing stored
  Lifetime,    \* of an access token, in ticks
  Windows,     \* windows of the code that this instance leaves open, see KnownWindows
  MaxGrants,   \* bound on the refresh grants issued, for TLC
  MaxTime,     \* bound on the clock
  MaxMishaps   \* bound on storage faults, dropped requests, restarts and proxy edits together

VARIABLES
  primary,     \* the stored credential
  rotation,    \* the stored rotation checkpoint
  account,     \* the account record: token_generation and auth_state
  lock,        \* the owner named in the lock file
  registered,  \* TokenAuthority.slots: the slot of the account, 0 if none
  slot,        \* the slots some Arc still refers to
  superseded,  \* requests whose revision snapshot was overtaken by a bump
  task,        \* where each task is and what it carries
  use,         \* what became of each refresh grant, see GrantLedger
  now,         \* the clock
  buried,      \* history: grants issued before the account was last deleted, and their heirs
  edits, crashes, faults   \* so many; a dropped request counts as a fault

durable  == <<primary, rotation, account>>
memory   == <<registered, slot, superseded>>
bounds   == <<now, buried, edits, faults, crashes>>
vars     == <<durable, lock, memory, task, use, bounds>>

Tasks  == Requests \cup {User}
Grants == 1..MaxGrants
Slots  == 1..Cardinality(Requests) + 1

\* Interleavings in which the code forgets what it knows of a grant.  edit: a
\* proxy edit writes back a credential that was renewed after it was read.
\* rejection: a 401 is stored while the checkpoint of a dropped exchange
\* names the same grant.  rollback: a failed deletion puts the secret back,
\* not its checkpoint.
KnownWindows == {"edit", "rejection", "rollback"}

ASSUME TokenAssumption ==
  /\ IsFiniteSet(Requests) /\ User \notin Requests
  /\ Nobody \notin Tasks /\ Dead \notin Tasks /\ Nobody # Dead
  /\ MaxGrants \in Nat \ {0} /\ MaxTime \in Nat /\ MaxMishaps \in Nat
  /\ Lifetime \in Nat \ {0}
  /\ Windows \subseteq KnownWindows

-----------------------------------------------------------------------------
(* Types *)

\* cut: the access token was rejected (expires_at_ms is the rejection).
\* proxy: the local settings stored with the tokens.
Credentials ==
  [grant : Grants, generation : Nat, issued_at : 0..MaxTime, cut : BOOLEAN,
   proxy : BOOLEAN]
Stored == Credentials \cup {None}

Checkpoints == [before : Credentials, after : Stored]

\* Reused: RequiresReauth(ReusedRefreshToken), which older releases stored.
AuthStates == {"Active", "Refreshing", "Reused", "Reauth"}

Accounts == [generation : Nat, auth : AuthStates]

\* Nothing stored is not something stored.
ASSUME NoneAssumption ==
  None \notin Credentials /\ None \notin Checkpoints /\ None \notin Accounts

TokenSlots ==
  [tokens : Stored, auth_state : AuthStates, persistence_pending : BOOLEAN,
   auth_pending : BOOLEAN]

\* The slot mutex is held from `entered` until the request leaves or has its
\* prepared token.
Inside == {"entered", "exchange", "recovered", "decide", "send", "wait",
           "answered", "rotated", "saved", "returned", "save", "saveClear",
           "saveMeta", "auth"}
Stages == Inside \cup {"idle", "slotLock", "prepared", "sent"}
            \cup {"loginAccount", "register", "readBack"}
            \cup {"deleteJournal", "deleteAccount", "edit", "edited"}

Answers == {"none", "ok", "refused", "transient", "recovery"}

\* What follows a write of the pending tokens or state.
Sequels == {"none", "pending", "refreshed", "invalidated", "reauth"}

TaskStates ==
  [pc : Stages, slot : Slots \cup {0}, time : 0..MaxTime,
   previous : AuthStates, credential : Stored, other : Stored,
   answer : Answers, sequel : Sequels]

Idle == [pc |-> "idle", slot |-> 0, time |-> 0, previous |-> "Active",
         credential |-> None, other |-> None, answer |-> "none", sequel |-> "none"]

Fresh(tokens, auth) ==
  [tokens |-> tokens, auth_state |-> auth, persistence_pending |-> FALSE,
   auth_pending |-> FALSE]

EmptySlot == Fresh(None, "Active")

TypeOK ==
  /\ primary \in Stored
  /\ rotation \in Checkpoints \cup {None}
  /\ account \in Accounts \cup {None}
  /\ lock \in Tasks \cup {Nobody, Dead}
  /\ registered \in Slots \cup {0}
  /\ slot \in [Slots -> TokenSlots]
  /\ registered # 0 => slot[registered].tokens \in Credentials
  /\ superseded \subseteq Requests
  /\ task \in [Tasks -> TaskStates]
  /\ use \in [Grants -> {"none", "fresh", "flying", "spent", "refused", "lost", "unknown"}]
  /\ now \in 0..MaxTime
  /\ buried \subseteq Grants
  /\ edits \in Nat /\ faults \in Nat /\ crashes \in Nat
  /\ edits + faults + crashes <= MaxMishaps

\* A signed-in account, before the runtime is assembled.
Init ==
  /\ primary = [grant |-> 1, generation |-> 1, issued_at |-> 0, cut |-> FALSE, proxy |-> FALSE]
  /\ rotation = None
  /\ \E auth \in {"Active", "Reused"} : account = [generation |-> 1, auth |-> auth]
  /\ lock = Nobody
  /\ registered = 0 /\ slot = [s \in Slots |-> EmptySlot] /\ superseded = {}
  /\ task = [t \in Tasks |-> Idle]
  /\ use = [g \in Grants |-> IF g = 1 THEN "fresh" ELSE "none"]
  /\ now = 0 /\ buried = {}
  /\ edits = 0 /\ faults = 0 /\ crashes = 0

-----------------------------------------------------------------------------
(* Helpers *)

At(t, stage) == task[t].pc = stage
MySlot(t) == slot[task[t].slot]

\* is_access_usable, by the clock the task read when it started.
Usable(c, time) == time < c.issued_at + Lifetime /\ ~c.cut

\* token_set_is_newer
Newer(c, d) ==
  \/ c.generation > d.generation
  \/ c.generation = d.generation /\ c.issued_at > d.issued_at

\* matches_refresh_grant: expires_at_ms is not compared.
SameGrant(c, d) ==
  /\ c.grant = d.grant /\ c.generation = d.generation /\ c.issued_at = d.issued_at

SlotFree(s) == \A t \in Tasks : task[t].slot = s => task[t].pc \notin Inside
LockFree == lock = Nobody

\* ensure_current_slot.  It is also the revision guard of the task that holds
\* the slot's mutex: only a holder bumps, so retirement alone can fail it.
Current(t) == registered = task[t].slot

\* to_token_set: the settings stay in the store.
TokenSet(c) == [c EXCEPT !.proxy = FALSE]

\* Mutant: prepared tokens are not told of a change of their slot.
BumpNobody(s) == UNCHANGED superseded

\* A bump under the mutex of slot s.
Bump(s) == superseded' = superseded \cup
  {r \in Requests : task[r].slot = s /\ task[r].pc \in {"prepared", "sent"}}

MayFail == edits + faults + crashes < MaxMishaps

Go(t, stage) == task' = [task EXCEPT ![t].pc = stage]

\* ProcessAccountGuard::drop removes the lock file only if it names its owner.
Unlocked(t) == IF lock = t THEN Nobody ELSE lock

\* The slots s of content sl that survive when task t drops its Arc.
Dropped(t, sl) ==
  [s \in Slots |-> IF s = registered \/ \E u \in Tasks \ {t} : task[u].slot = s
                     THEN sl[s] ELSE EmptySlot]

\* The task ends: every guard and Arc it holds is dropped.
LeaveWith(t, sl) ==
  /\ task' = [task EXCEPT ![t] = Idle]
  /\ slot' = Dropped(t, sl)
  /\ superseded' = superseded \ {t}
  /\ lock' = Unlocked(t)
  /\ UNCHANGED registered
Leave(t) == LeaveWith(t, slot)

SetSlot(s, value) == slot' = [slot EXCEPT ![s] = value]

\* The refresh adapter returns, dropping the process lock.
Answer(t, answer) ==
  /\ task' = [task EXCEPT ![t].pc = "returned", ![t].answer = answer,
                          ![t].credential = None, ![t].other = None]
  /\ lock' = Unlocked(t)
AnswerOk(t, c) ==
  /\ task' = [task EXCEPT ![t].pc = "returned", ![t].answer = "ok",
                          ![t].credential = c, ![t].other = None]
  /\ lock' = Unlocked(t)

\* The request has its prepared token and lets go of the slot mutex.
HandOver(t, tokens) ==
  task' = [task EXCEPT ![t] = [Idle EXCEPT !.pc = "prepared", !.slot = task[t].slot,
                                           !.credential = tokens]]

-----------------------------------------------------------------------------
(* prepare_inner *)

PrepareStart(t) ==
  /\ At(t, "idle") /\ registered # 0
  /\ task' = [task EXCEPT ![t].pc = "slotLock", ![t].slot = registered, ![t].time = now]
  /\ UNCHANGED <<durable, lock, memory, use, bounds>>

EnterSlot(t) ==
  /\ At(t, "slotLock") /\ SlotFree(task[t].slot)
  /\ IF Current(t) THEN Go(t, "entered") /\ UNCHANGED <<lock, memory>> ELSE Leave(t)
  /\ UNCHANGED <<durable, use, bounds>>

Settled(sl) == ~sl.persistence_pending /\ ~sl.auth_pending

\* Tokens, then the state, that an earlier attempt could not write.
WritePending(t) ==
  /\ At(t, "entered") /\ ~Settled(MySlot(t))
  /\ task' = [task EXCEPT ![t].sequel = "pending",
                ![t].pc = IF MySlot(t).persistence_pending THEN "save" ELSE "auth"]
  /\ UNCHANGED <<durable, lock, memory, use, bounds>>

HealReused(t) ==
  /\ At(t, "entered") /\ Settled(MySlot(t)) /\ MySlot(t).auth_state = "Reused"
  /\ Bump(task[t].slot)
  /\ SetSlot(task[t].slot, [MySlot(t) EXCEPT !.auth_state = "Active", !.auth_pending = TRUE])
  /\ task' = [task EXCEPT ![t].sequel = "pending", ![t].pc = "auth"]
  /\ UNCHANGED <<durable, lock, registered, use, bounds>>

RefusePreparation(t) ==
  /\ At(t, "entered") /\ Settled(MySlot(t)) /\ MySlot(t).auth_state = "Reauth"
  /\ Leave(t)
  /\ UNCHANGED <<durable, use, bounds>>

PrepareReady(t) ==
  /\ At(t, "entered") /\ Settled(MySlot(t))
  /\ MySlot(t).auth_state \notin {"Reused", "Reauth"} /\ Usable(MySlot(t).tokens, task[t].time)
  /\ HandOver(t, MySlot(t).tokens)
  /\ UNCHANGED <<durable, lock, memory, use, bounds>>

StartRefresh(t) ==
  /\ At(t, "entered") /\ Settled(MySlot(t))
  /\ MySlot(t).auth_state \notin {"Reused", "Reauth"} /\ ~Usable(MySlot(t).tokens, task[t].time)
  /\ Bump(task[t].slot)
  /\ SetSlot(task[t].slot, [MySlot(t) EXCEPT !.auth_state = "Refreshing"])
  /\ task' = [task EXCEPT ![t].pc = "exchange", ![t].sequel = "none",
                          ![t].previous = MySlot(t).auth_state]
  /\ UNCHANGED <<durable, lock, registered, use, bounds>>

-----------------------------------------------------------------------------
(* refresh_inner: the process lock is held from Load to the answer *)

\* Mutant: a checkpoint without a received pair is taken for stale.
NoPairNoCheckpoint ==
  rotation # None =>
    \/ rotation.after = None
    \/ /\ ~SameGrant(primary, rotation.before)
       /\ primary.generation > rotation.before.generation

\* load_token_rotation: a checkpoint of another grant is dropped when the
\* stored credential is newer than it, and is invalid otherwise.
NoCheckpoint ==
  rotation # None =>
    /\ ~SameGrant(primary, rotation.before)
    /\ primary.generation > rotation.before.generation

Recoverable == SameGrant(primary, rotation.before) /\ rotation.after # None

LoadStored(t) ==
  /\ NoCheckpoint
  /\ rotation' = None
  /\ task' = [task EXCEPT ![t].pc = "decide", ![t].credential = primary]
  /\ lock' = t
  /\ UNCHANGED <<primary, account>>

\* recover_token_rotation: the rotation was received, its write was not seen to finish.
RecoverRotation(t) ==
  /\ ~NoCheckpoint /\ Recoverable
  /\ primary' = [rotation.after EXCEPT !.proxy = primary.proxy]
  /\ task' = [task EXCEPT ![t].pc = "recovered", ![t].credential = primary']
  /\ lock' = t
  /\ UNCHANGED <<rotation, account>>

\* RotationOutcomeUnknown and RotationCheckpointInvalid
RequireRecovery(t) ==
  /\ ~NoCheckpoint /\ ~Recoverable
  /\ Answer(t, "recovery") /\ UNCHANGED durable

Load(t) ==
  /\ At(t, "exchange") /\ LockFree
  /\ IF Current(t) /\ primary # None
       THEN LoadStored(t) \/ RecoverRotation(t) \/ RequireRecovery(t)
       ELSE Answer(t, "transient") /\ UNCHANGED durable
  /\ UNCHANGED <<memory, use, bounds>>

ForgetRecovered(t) ==
  /\ At(t, "recovered")
  /\ rotation' = None
  /\ Go(t, "decide")
  /\ UNCHANGED <<primary, account, lock, memory, use, bounds>>

\* Another process may have renewed the credential already; otherwise the
\* grant is sent only behind a durable checkpoint.
UseStored(t) ==
  /\ At(t, "decide") /\ Usable(task[t].credential, task[t].time)
  /\ AnswerOk(t, task[t].credential)
  /\ UNCHANGED <<durable, memory, use, bounds>>

CheckpointGrant(t) ==
  /\ At(t, "decide") /\ ~Usable(task[t].credential, task[t].time)
  /\ IF Current(t)
       THEN /\ rotation' = [before |-> task[t].credential, after |-> None]
            /\ Go(t, "send")
            /\ UNCHANGED lock
       ELSE Answer(t, "transient") /\ UNCHANGED rotation
  /\ UNCHANGED <<primary, account, memory, use, bounds>>

Send(t) ==
  /\ At(t, "send")
  /\ use' = [use EXCEPT ![task[t].credential.grant] = "flying"]
  /\ Go(t, "wait")
  /\ UNCHANGED <<durable, lock, memory, bounds>>

Unissued == {g \in Grants : use[g] = "none"}
NextGrant == CHOOSE g \in Unissued : \A h \in Unissued : g <= h

\* apply_refresh
ProviderRotates(t) ==
  /\ At(t, "wait") /\ Unissued # {}
  /\ use' = [use EXCEPT ![task[t].credential.grant] = "spent", ![NextGrant] = "fresh"]
  /\ buried' = IF task[t].credential.grant \in buried THEN buried \cup {NextGrant} ELSE buried
  /\ task' = [task EXCEPT ![t].pc = "answered", ![t].answer = "ok",
                ![t].other = [grant |-> NextGrant, issued_at |-> task[t].time,
                              generation |-> task[t].credential.generation + 1, cut |-> FALSE,
                              proxy |-> task[t].credential.proxy]]
  /\ UNCHANGED <<durable, lock, memory, now, edits, faults, crashes>>

\* exchange_refresh_token: refused (invalid_grant and its kin); fresh (the
\* provider was not reached, or failed without rotating); lost (a timeout, a
\* broken connection, an unreadable body after a success, an error that comes
\* too late, refresh_token_reused: it may have rotated).  The code reports the
\* last two alike, and sends the grant again after a backoff.
ProviderFails(t) ==
  /\ At(t, "wait")
  /\ \E outcome \in {"refused", "fresh", "lost"} :
       /\ use' = [use EXCEPT ![task[t].credential.grant] = outcome]
       /\ task' = [task EXCEPT ![t].pc = "answered",
                     ![t].answer = IF outcome = "refused" THEN "refused" ELSE "transient"]
  /\ UNCHANGED <<durable, lock, memory, bounds>>

\* A credential stored meanwhile wins over the answer, even over a failure.
\* matches_snapshot
Unchanged(t) == primary = task[t].credential

Overtaken(t) ==
  /\ At(t, "answered") /\ ~(Unchanged(t) /\ Current(t))
  /\ IF ~Unchanged(t) /\ primary # None /\ Usable(primary, task[t].time)
       THEN AnswerOk(t, primary) ELSE Answer(t, "transient")
  /\ UNCHANGED <<durable, memory, use, bounds>>

\* Mutant: the credential is renewed before the pair is checkpointed.
CheckpointNothing(t) ==
  /\ At(t, "answered") /\ Unchanged(t) /\ Current(t) /\ task[t].answer = "ok"
  /\ rotation' = None
  /\ Go(t, "rotated")
  /\ UNCHANGED <<primary, account, lock, memory, use, bounds>>

CheckpointRotation(t) ==
  /\ At(t, "answered") /\ Unchanged(t) /\ Current(t) /\ task[t].answer = "ok"
  /\ rotation' = [before |-> task[t].credential, after |-> task[t].other]
  /\ Go(t, "rotated")
  /\ UNCHANGED <<primary, account, lock, memory, use, bounds>>

FailRefresh(t) ==
  /\ At(t, "answered") /\ Unchanged(t) /\ Current(t) /\ task[t].answer # "ok"
  /\ rotation' = None
  /\ Answer(t, task[t].answer)
  /\ UNCHANGED <<primary, account, memory, use, bounds>>

SaveRotated(t) ==
  /\ At(t, "rotated")
  /\ primary' = task[t].other
  /\ Go(t, "saved")
  /\ UNCHANGED <<rotation, account, lock, memory, use, bounds>>

ForgetRotated(t) ==
  /\ At(t, "saved")
  /\ rotation' = None
  /\ AnswerOk(t, task[t].other)
  /\ UNCHANGED <<primary, account, memory, use, bounds>>

-----------------------------------------------------------------------------
(* prepare_inner, after the adapter *)

\* Mutant: the adapter is trusted to have stored what it returned.
InstallStored(t) ==
  /\ At(t, "returned") /\ Current(t) /\ task[t].answer = "ok"
  /\ Bump(task[t].slot)
  /\ SetSlot(task[t].slot,
       [MySlot(t) EXCEPT
          !.tokens = [grant |-> task[t].credential.grant, issued_at |-> task[t].time,
                      generation |-> MySlot(t).tokens.generation + 1, cut |-> FALSE,
                      proxy |-> FALSE],
          !.auth_state = "Active"])
  /\ task' = [task EXCEPT ![t] = [Idle EXCEPT !.pc = "save", !.sequel = "refreshed",
                                               !.slot = task[t].slot]]
  /\ UNCHANGED <<durable, lock, registered, use, bounds>>

InstallRefreshed(t) ==
  /\ At(t, "returned") /\ Current(t) /\ task[t].answer = "ok"
  /\ Bump(task[t].slot)
  /\ SetSlot(task[t].slot,
       [MySlot(t) EXCEPT
          !.tokens = [grant |-> task[t].credential.grant, issued_at |-> task[t].time,
                      generation |-> MySlot(t).tokens.generation + 1, cut |-> FALSE,
                      proxy |-> FALSE],
          !.auth_state = "Active", !.persistence_pending = TRUE])
  /\ task' = [task EXCEPT ![t] = [Idle EXCEPT !.pc = "save", !.sequel = "refreshed",
                                               !.slot = task[t].slot]]
  /\ UNCHANGED <<durable, lock, registered, use, bounds>>

InstallReauth(t) ==
  /\ At(t, "returned") /\ Current(t) /\ task[t].answer \in {"refused", "recovery"}
  /\ SetSlot(task[t].slot, [MySlot(t) EXCEPT !.auth_state = "Reauth", !.auth_pending = TRUE])
  /\ task' = [task EXCEPT ![t] = [Idle EXCEPT !.pc = "auth", !.sequel = "reauth",
                                               !.slot = task[t].slot]]
  /\ UNCHANGED <<durable, lock, registered, superseded, use, bounds>>

\* A transient failure keeps the state; a retired slot takes no result.
DropResult(t) ==
  /\ At(t, "returned")
  /\ \/ ~Current(t) /\ Leave(t)
     \/ /\ Current(t) /\ task[t].answer = "transient"
        /\ LeaveWith(t, [slot EXCEPT ![task[t].slot].auth_state = task[t].previous])
  /\ UNCHANGED <<durable, use, bounds>>

-----------------------------------------------------------------------------
(* persist_inner and persist_auth_state_inner *)

\* Mutant: a write is not fenced by the slot's registration.
SaveTokensUnfenced(t) ==
  /\ At(t, "save") /\ LockFree
  /\ IF primary # None
       THEN LET stored == IF Newer(MySlot(t).tokens, primary)
                            THEN [MySlot(t).tokens EXCEPT !.proxy = primary.proxy] ELSE primary
            IN /\ primary' = stored
               /\ lock' = t
               /\ task' = [task EXCEPT ![t].pc = "saveClear", ![t].credential = stored]
               /\ UNCHANGED memory
       ELSE Leave(t) /\ UNCHANGED primary
  /\ UNCHANGED <<rotation, account, use, bounds>>

\* The stored credential stays when it is at least as new.
SaveTokens(t) ==
  /\ At(t, "save") /\ LockFree
  /\ IF Current(t) /\ primary # None
       THEN LET stored == IF Newer(MySlot(t).tokens, primary)
                            THEN [MySlot(t).tokens EXCEPT !.proxy = primary.proxy] ELSE primary
            IN /\ primary' = stored
               /\ lock' = t
               /\ task' = [task EXCEPT ![t].pc = "saveClear", ![t].credential = stored]
               /\ UNCHANGED memory
       ELSE Leave(t) /\ UNCHANGED primary
  /\ UNCHANGED <<rotation, account, use, bounds>>

ClearCheckpoint(t) ==
  /\ At(t, "saveClear")
  /\ rotation' = None
  /\ Go(t, "saveMeta")
  /\ UNCHANGED <<primary, account, lock, memory, use, bounds>>

\* The caller of persist_fenced goes on: to the state, or to its end.
AfterSave(t) ==
  LET s == task[t].slot
      written == [slot EXCEPT ![s].persistence_pending = FALSE,
                              ![s].auth_pending = @ \/ task[t].sequel # "invalidated"]
  IN IF Current(t) /\ task[t].sequel # "invalidated"
       THEN /\ slot' = written
            /\ task' = [task EXCEPT ![t].credential = None,
                          ![t].pc = IF task[t].sequel = "pending" THEN "entered" ELSE "auth"]
            /\ lock' = Unlocked(t)
            /\ UNCHANGED <<registered, superseded>>
       ELSE LeaveWith(t, IF Current(t) THEN written ELSE slot)

\* persist_generation
SaveGeneration(t) ==
  /\ At(t, "saveMeta")
  /\ IF account # None
       THEN /\ account' = [account EXCEPT !.generation = task[t].credential.generation]
            /\ AfterSave(t)
       ELSE Leave(t) /\ UNCHANGED account
  /\ UNCHANGED <<primary, rotation, use, bounds>>

\* The caller of persist_auth_state_fenced goes on.
AfterAuth(t) ==
  LET s == task[t].slot
      written == [slot EXCEPT ![s].auth_pending = FALSE]
  IN CASE task[t].sequel = "pending" ->
            /\ slot' = written /\ Go(t, "entered") /\ UNCHANGED <<lock, registered, superseded>>
       [] task[t].sequel = "refreshed" ->
            /\ slot' = written /\ HandOver(t, MySlot(t).tokens)
            /\ UNCHANGED <<lock, registered, superseded>>
       [] OTHER -> LeaveWith(t, written)

\* The process lock is taken and dropped within the step: nobody reads the
\* record in between.
SaveAuth(t) ==
  /\ At(t, "auth") /\ LockFree
  /\ IF Current(t) /\ account # None
       THEN account' = [account EXCEPT !.auth = MySlot(t).auth_state] /\ AfterAuth(t)
       ELSE Leave(t) /\ UNCHANGED account
  /\ UNCHANGED <<primary, rotation, use, bounds>>

-----------------------------------------------------------------------------
(* The prepared token: dispatch fence and rejection *)

\* TokenDispatchRevision::guard of a prepared token
GuardHolds(t) == Current(t) /\ t \notin superseded

Dispatch(t) ==
  /\ At(t, "prepared")
  /\ IF GuardHolds(t) THEN Go(t, "sent") /\ UNCHANGED <<lock, memory>> ELSE Leave(t)
  /\ UNCHANGED <<durable, use, bounds>>

Accepted(t) ==
  /\ At(t, "sent")
  /\ Leave(t)
  /\ UNCHANGED <<durable, use, bounds>>

\* invalidate_access_revision_and_persist, after a 401
Invalidate(t) ==
  /\ At(t, "sent") /\ SlotFree(task[t].slot)
  /\ "rejection" \in Windows \/ rotation = None
  /\ IF GuardHolds(t)
       THEN /\ Bump(task[t].slot)
            /\ SetSlot(task[t].slot,
                 [MySlot(t) EXCEPT !.tokens.cut = TRUE, !.tokens.issued_at = now,
                                   !.tokens.generation = @ + 1,
                                   !.persistence_pending = TRUE])
            /\ task' = [task EXCEPT ![t].pc = "save", ![t].sequel = "invalidated",
                                    ![t].credential = None]
            /\ UNCHANGED <<lock, registered>>
       ELSE Leave(t)
  /\ UNCHANGED <<durable, use, bounds>>

-----------------------------------------------------------------------------
(* Sign-in of the account, and its deletion *)

LeaveUser == Leave(User)

\* next_completion_generation
LoginGeneration ==
  LET known == {0} \cup (IF account = None THEN {} ELSE {account.generation})
                   \cup (IF primary = None THEN {} ELSE {primary.generation})
  IN 1 + CHOOSE n \in known : \A m \in known : m <= n

\* commit_oauth_completion, with the grant just obtained
CommitLogin ==
  /\ At(User, "idle") /\ LockFree /\ Unissued # {}
  /\ LET login == [grant |-> NextGrant, generation |-> LoginGeneration, issued_at |-> now,
                   cut |-> FALSE, proxy |-> primary # None /\ primary.proxy]
     IN /\ use' = [use EXCEPT ![NextGrant] = "fresh"]
        /\ primary' = login
        /\ task' = [task EXCEPT ![User].pc = "loginAccount", ![User].credential = login,
                                ![User].other = primary]
  /\ lock' = User
  /\ UNCHANGED <<rotation, account, memory, bounds>>

RecordLogin ==
  /\ At(User, "loginAccount")
  /\ account' = [generation |-> task[User].credential.generation, auth |-> "Active"]
  /\ task' = [task EXCEPT ![User].pc = "register", ![User].other = None]
  /\ lock' = Unlocked(User)
  /\ UNCHANGED <<primary, rotation, memory, use, bounds>>

FreeSlot == CHOOSE s \in Slots :
  /\ s # registered /\ \A t \in Tasks : task[t].slot # s
  /\ \A r \in Slots : (r # registered /\ \A t \in Tasks : task[t].slot # r) => s <= r

InsertSlot(tokens, auth) ==
  /\ registered' = FreeSlot
  /\ SetSlot(FreeSlot, Fresh(TokenSet(tokens), auth))
  /\ UNCHANGED superseded

\* register_if_newer waits for the slot's mutex.
RegisterLogin ==
  /\ At(User, "register") /\ (registered # 0 => SlotFree(registered))
  /\ CASE registered = 0 -> InsertSlot(task[User].credential, "Active")
       [] registered # 0 /\ Newer(task[User].credential, slot[registered].tokens) ->
            /\ Bump(registered)
            /\ SetSlot(registered, Fresh(TokenSet(task[User].credential), "Active"))
            /\ UNCHANGED registered
       [] OTHER -> UNCHANGED memory
  /\ Go(User, "readBack")
  /\ UNCHANGED <<durable, lock, use, bounds>>

\* reconcile_completion_authority: the authority kept something else, and the
\* record is still the one this sign-in wrote.
ReadBack ==
  /\ At(User, "readBack") /\ (registered # 0 => SlotFree(registered))
  /\ LET login == task[User].credential
         kept  == slot[registered]
         mine  == [generation |-> login.generation, auth |-> "Active"]
     IN account' =
          IF registered # 0 /\ account = mine /\ (kept.tokens # TokenSet(login) \/ kept.auth_state # "Active")
            THEN [generation |-> kept.tokens.generation, auth |-> kept.auth_state]
            ELSE account
  /\ LeaveUser
  /\ UNCHANGED <<primary, rotation, use, bounds>>

\* delete_local_account_inner: the secret, its checkpoint, then the record.
DeleteCredential ==
  /\ At(User, "idle") /\ account # None /\ LockFree
  /\ primary' = None
  /\ task' = [task EXCEPT ![User].pc = "deleteJournal", ![User].other = primary]
  /\ lock' = User
  /\ UNCHANGED <<rotation, account, memory, use, bounds>>

DeleteCheckpoint ==
  /\ At(User, "deleteJournal")
  /\ rotation' = None
  /\ Go(User, "deleteAccount")
  /\ UNCHANGED <<primary, account, lock, memory, use, bounds>>

\* Mutant: the slot is emptied and stays registered.
DeleteAccountInPlace ==
  /\ At(User, "deleteAccount")
  /\ account' = None
  /\ slot' = [s \in Slots |-> IF \E t \in Requests : task[t].slot = s THEN slot[s] ELSE EmptySlot]
  /\ buried' = {g \in Grants : use[g] # "none"}
  /\ task' = [task EXCEPT ![User] = Idle]
  /\ lock' = Unlocked(User)
  /\ UNCHANGED <<primary, rotation, registered, superseded, use, now, edits, faults, crashes>>

DeleteAccount ==
  /\ At(User, "deleteAccount")
  /\ account' = None
  /\ registered' = 0
  /\ slot' = [s \in Slots |-> IF \E t \in Requests : task[t].slot = s THEN slot[s] ELSE EmptySlot]
  /\ buried' = {g \in Grants : use[g] # "none"}
  /\ task' = [task EXCEPT ![User] = Idle]
  /\ lock' = Unlocked(User)
  /\ UNCHANGED <<primary, rotation, superseded, use, now, edits, faults, crashes>>

\* apply_changes: the route of the account's proxy is stored with its
\* credential.  The setup lock keeps other commands away, not a refresh: the
\* process lock is not taken.
StartEdit ==
  /\ At(User, "idle") /\ account # None /\ primary # None
  /\ MayFail /\ edits' = edits + 1
  /\ task' = [task EXCEPT ![User].pc = "edit", ![User].credential = primary]
  /\ UNCHANGED <<durable, lock, memory, use, now, buried, faults, crashes>>

MayOverwrite(c) == "edit" \in Windows \/ primary = c

Rerouted(c) == [c EXCEPT !.proxy = ~@]

SaveEdit ==
  /\ At(User, "edit")
  /\ IF MayOverwrite(task[User].credential)
       THEN /\ primary' = Rerouted(task[User].credential)
            /\ Go(User, "edited")
            /\ UNCHANGED <<lock, memory>>
       ELSE LeaveUser /\ UNCHANGED primary
  /\ UNCHANGED <<rotation, account, use, bounds>>

FinishEdit ==
  /\ At(User, "edited")
  /\ LeaveUser
  /\ UNCHANGED <<durable, use, bounds>>

-----------------------------------------------------------------------------
(* Failures and time *)

\* Stages that wait for the process lock.
LockWaits == {"exchange", "save", "auth"}

\* One storage operation of task t fails, with what its caller does then.
StorageFault(t) ==
  /\ MayFail /\ faults' = faults + 1
  /\ task[t].pc \in LockWaits => LockFree
  /\ \/ /\ \/ task[t].pc \in {"exchange", "recovered", "decide"}
           \/ At(t, "answered") /\ task[t].answer # "ok"
        /\ Answer(t, "transient") /\ UNCHANGED <<primary, rotation, memory>>
     \* The received pair goes to the authority, which retains it.
     \/ /\ \/ task[t].pc \in {"rotated", "saved"}
           \/ At(t, "answered") /\ task[t].answer = "ok"
        /\ AnswerOk(t, task[t].other) /\ UNCHANGED <<primary, rotation, memory>>
     \* PersistenceFailed: what is pending stays so.  A command reports its error.
     \/ /\ task[t].pc \in {"save", "saveClear", "saveMeta", "auth", "edit"}
        /\ Leave(t) /\ UNCHANGED <<primary, rotation>>
     \* rollback_completion_before_authority
     \/ /\ At(t, "loginAccount")
        /\ primary' = task[t].other
        /\ rotation' = IF task[t].other = None THEN None ELSE rotation
        /\ Leave(t)
     \* restore_credentials
     \/ /\ At(t, "edited") /\ MayOverwrite(Rerouted(task[t].credential))
        /\ primary' = task[t].credential
        /\ Leave(t) /\ UNCHANGED rotation
     \* restore_credential_local
     \/ /\ task[t].pc \in {"deleteJournal", "deleteAccount"} /\ "rollback" \in Windows
        /\ primary' = task[t].other
        /\ Leave(t) /\ UNCHANGED rotation
  /\ UNCHANGED <<account, use, now, buried, edits, crashes>>

\* ProcessLockError::Timeout
LockTimeout(t) ==
  /\ ~LockFree
  /\ \/ At(t, "exchange") /\ Answer(t, "transient") /\ UNCHANGED memory
     \/ task[t].pc \in LockWaits \ {"exchange"} /\ Leave(t)
  /\ UNCHANGED <<durable, use, bounds>>

\* The client goes away: the request's future is dropped at an await.
Cancel(t) ==
  /\ MayFail /\ faults' = faults + 1
  /\ task[t].pc \in {"slotLock", "exchange", "wait", "save", "auth"}
  /\ use' = IF At(t, "wait") THEN [use EXCEPT ![task[t].credential.grant] = "unknown"] ELSE use
  /\ Leave(t)
  /\ UNCHANGED <<durable, now, buried, edits, crashes>>

\* The process stops: the disk, its lock file and the provider remain.
Crash ==
  /\ MayFail
  /\ crashes' = crashes + 1
  /\ task' = [t \in Tasks |-> Idle]
  /\ registered' = 0 /\ slot' = [s \in Slots |-> EmptySlot] /\ superseded' = {}
  /\ lock' = IF lock \in Tasks THEN Dead ELSE lock
  /\ use' = [g \in Grants |-> IF use[g] = "flying" THEN "unknown" ELSE use[g]]
  /\ UNCHANGED <<durable, now, buried, edits, faults>>

\* The runtime is assembled from the stored account (register_if_absent).
Assemble ==
  /\ registered = 0 /\ primary # None /\ account # None
  /\ InsertSlot(primary, account.auth)
  /\ UNCHANGED <<durable, lock, task, use, bounds>>

\* recover_stale_lock, 120 s after the owner took it.  An exchange that holds
\* the lock ends sooner: its HTTP timeout is 20 s.
BreakLock ==
  /\ lock = Dead /\ lock' = Nobody
  /\ UNCHANGED <<durable, memory, task, use, bounds>>

\* An access token outlives the sign-in that brings it (an hour, or days).
Tick ==
  /\ now < MaxTime /\ now' = now + 1
  /\ task[User].pc \notin {"loginAccount", "register", "readBack"}
  /\ UNCHANGED <<durable, lock, memory, task, use, buried, edits, faults, crashes>>

-----------------------------------------------------------------------------

\* What a request does once it has started, whatever its outcome.
Step(t) ==
  \/ EnterSlot(t) \/ WritePending(t) \/ HealReused(t) \/ RefusePreparation(t)
  \/ PrepareReady(t) \/ StartRefresh(t)
  \/ Load(t) \/ ForgetRecovered(t) \/ UseStored(t) \/ CheckpointGrant(t) \/ Send(t)
  \/ ProviderRotates(t) \/ ProviderFails(t)
  \/ Overtaken(t) \/ CheckpointRotation(t) \/ FailRefresh(t) \/ SaveRotated(t) \/ ForgetRotated(t)
  \/ InstallRefreshed(t) \/ InstallReauth(t) \/ DropResult(t)
  \/ SaveTokens(t) \/ ClearCheckpoint(t) \/ SaveGeneration(t) \/ SaveAuth(t)
  \/ Dispatch(t) \/ Accepted(t) \/ Invalidate(t)

UserStep ==
  \/ RecordLogin \/ RegisterLogin \/ ReadBack
  \/ DeleteCheckpoint \/ DeleteAccount \/ SaveEdit \/ FinishEdit

Next ==
  \/ \E t \in Requests : PrepareStart(t) \/ Step(t) \/ Cancel(t)
  \/ CommitLogin \/ DeleteCredential \/ StartEdit \/ UserStep
  \/ \E t \in Tasks : StorageFault(t) \/ LockTimeout(t)
  \/ Crash \/ Assemble \/ BreakLock \/ Tick

Spec == Init /\ [][Next]_vars

-----------------------------------------------------------------------------
(* Properties *)

\* A grant whose replacement was received, or whose exchange was dropped by a
\* cancelled request or a crash, is never sent again.  The code's policy
\* excepts the answer lost to a running exchange (refresh.rs:295-296): the
\* ledger keeps that grant apart, as lost.
Ledger == INSTANCE GrantLedger WITH Grants <- Grants, use <- use
ObeysLedger == Ledger!Spec

\* A prepared token that passes the dispatch fence is the authority's current one.
PreparedMatchesSlot ==
  \A t \in Requests : (At(t, "prepared") \/ At(t, "sent")) /\ GuardHolds(t) =>
    /\ MySlot(t).tokens = task[t].credential
    /\ MySlot(t).auth_state # "Reauth"

\* What was issued before a deletion never comes back.
BuriedStayBuried ==
  /\ primary # None => primary.grant \notin buried
  /\ registered # 0 => slot[registered].tokens.grant \notin buried

\* A stored grant whose replacement was received, or whose exchange was
\* dropped before its answer, is named by the checkpoint, so that no later
\* refresh sends it.  Of a lost answer the code makes no such claim.
SpentGrantIsFenced ==
  (primary # None /\ use[primary.grant] \in {"spent", "unknown"}) =>
    rotation # None /\ SameGrant(primary, rotation.before)

\* A received pair survives a failed write: while the store has only the spent
\* grant, its replacement is in the checkpoint, in the authority with its write
\* pending, or on its way there.  Only a restart or an edit can lose it, or
\* the removal of the account's slot.
ReceivedPairIsKept ==
  (crashes = 0 /\ edits = 0 /\ primary # None /\ use[primary.grant] = "spent") =>
    \/ rotation # None /\ rotation.after # None
    \/ \E t \in Requests : task[t].other # None \/ (At(t, "returned") /\ task[t].answer = "ok")
    \/ registered # 0 /\ slot[registered].persistence_pending

=============================================================================
