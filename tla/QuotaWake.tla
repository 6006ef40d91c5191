----------------------------- MODULE QuotaWake -----------------------------
(***************************************************************************)
(* The quota-wake automation: WakeCoordinator (crates/relay-core/src/      *)
(* automations/quota_wake), its stored copy (DesktopState, state/          *)
(* coordination.rs) and the worker that sends the wake requests            *)
(* (background/wake_worker.rs).  When the primary window of an account is  *)
(* full, one small request starts its countdown; a cycle is that request   *)
(* for one window, at most MaxAttempts times.                              *)
(*                                                                         *)
(* update_wake writes the store, then memory, under both locks: one step.  *)
(* What takes the locks more than once is separated where it releases      *)
(* them.  Commands, and the evaluation of a quota read, hold setup_guard.  *)
(* Instants are kept as the time left until them.  There is one task, in   *)
(* Automatic mode, the session is active, and the bound on cycles (1,024)  *)
(* is not reached.                                                         *)
(***************************************************************************)
EXTENDS Integers, FiniteSets, FiniteSetsExt

CONSTANTS
  QuotaWindows,      \* full windows, one per transition fingerprint
  AccountOfWindow,
  MaxAttempts,       \* max_attempts_per_cycle
  BatchSize,         \* WAKE_BATCH_SIZE
  Jitter,            \* deterministic_jitter_ms
  MaxMishaps,        \* bound on crashes and failed writes
  MaxCommands,       \* bound on commands of the user
  NotDue, NoCycle

VARIABLES
  memory, stored,    \* WakeCoordinator.state and AutomationRecords.state
  enabled,           \* the task is enabled in the store
  accounts,          \* accounts that exist
  worker,            \* where wake_loop is, the time on its timer, what it sends
  permits,           \* the batch run_wake_permits has still to execute
  wakeNotified,      \* the permit kept by wake_notify
  command,           \* the command that holds setup_guard and what it has read
  used,              \* windows used after they became full (last_used_at_ms)
  sent,              \* history: requests per window
  confirmed,         \* history: windows whose countdown was seen to advance
  reverted,          \* history: a write of older records forgot an attempt or an end
  mishaps, commands

wakeVars == <<memory, stored, enabled, accounts, worker, permits, wakeNotified, command,
              used, sent, confirmed, reverted, mishaps, commands>>

WakeAccounts == {AccountOfWindow[w] : w \in QuotaWindows}
Cycle   == [status : {"Pending", "InFlight", "Completed"}, attempts : 0..MaxAttempts,
            due : 0..Jitter]

ASSUME WakeAssumption ==
  /\ MaxAttempts \in Nat \ {0} /\ BatchSize \in Nat \ {0} /\ Jitter \in Nat
  /\ NotDue \notin Nat /\ NoCycle \notin Cycle
  /\ MaxMishaps \in Nat /\ MaxCommands \in Nat

Cycles  == [QuotaWindows -> Cycle \cup {NoCycle}]
Permits == [window : QuotaWindows, attempt : 1..MaxAttempts]

Idle == [kind |-> "none"]
Commands ==
  {Idle} \cup [kind : {"edit"}, at : {"read", "write"}, enable : BOOLEAN, records : Cycles]
         \cup [kind : {"delete"}, at : {"cancel", "commit"},
               account : WakeAccounts, snapshot : Cycles, records : Cycles]

WakeTypeOK ==
  /\ memory \in Cycles /\ stored \in Cycles
  /\ enabled \in BOOLEAN /\ accounts \subseteq WakeAccounts
  /\ worker \in [at : {"loop", "armed", "wait", "claim", "run", "send", "sent"},
                timer : 0..Jitter \cup {NotDue}, permit : Permits \cup {NoCycle}]
  /\ permits \subseteq Permits
  /\ wakeNotified \in BOOLEAN
  /\ command \in Commands
  /\ used \subseteq QuotaWindows /\ confirmed \subseteq QuotaWindows
  /\ sent \in [QuotaWindows -> Nat] /\ reverted \in BOOLEAN
  /\ mishaps \in 0..MaxMishaps /\ commands \in 0..MaxCommands

WakeInit ==
  /\ memory = [w \in QuotaWindows |-> NoCycle] /\ stored = memory
  /\ enabled = TRUE /\ accounts = WakeAccounts
  /\ worker = [at |-> "loop", timer |-> NotDue, permit |-> NoCycle] /\ permits = {}
  /\ wakeNotified = FALSE
  /\ command = Idle
  /\ used = {} /\ confirmed = {} /\ reverted = FALSE
  /\ sent = [w \in QuotaWindows |-> 0]
  /\ mishaps = 0 /\ commands = 0

-----------------------------------------------------------------------------
(* WakeCoordinator *)

HasStatus(cycle, status) == cycle # NoCycle /\ cycle.status = status
Unfinished(cycle) == cycle # NoCycle /\ cycle.status # "Completed"

\* WakeCycle::finish
Finish(cycle) == [status |-> "Completed", attempts |-> cycle.attempts, due |-> 0]

\* Mutant: a retry starts counting again.
RetryAfresh(cycle) == [status |-> "Pending", attempts |-> 0, due |-> Jitter]

Retry(cycle) == [status |-> "Pending", attempts |-> cycle.attempts, due |-> Jitter]

\* cancel_matching: a cycle never claimed gives up its identity.
Cancelled(cycle) == IF cycle.attempts = 0 THEN NoCycle ELSE Finish(cycle)

CancelMatching(state, windows) ==
  [w \in QuotaWindows |->
    IF w \in windows /\ Unfinished(state[w]) THEN Cancelled(state[w]) ELSE state[w]]

Claim(cycle) ==
  [status |-> "InFlight", attempts |-> cycle.attempts + 1, due |-> cycle.due]

\* from_state
FromState(state) ==
  [w \in QuotaWindows |->
    IF ~HasStatus(state[w], "InFlight") THEN state[w]
    ELSE IF state[w].attempts < MaxAttempts THEN Retry(state[w]) ELSE Finish(state[w])]

ClaimableWakes ==
  {w \in QuotaWindows : HasStatus(memory[w], "Pending") /\ memory[w].attempts < MaxAttempts}

\* next_automatic_due
NextDue == IF ClaimableWakes = {} THEN NotDue ELSE Min({memory[w].due : w \in ClaimableWakes})

\* Mutant: the permit is compared by its cycle and attempt alone.
IsActiveByKey(p) == memory[p.window] # NoCycle /\ memory[p.window].attempts = p.attempt

\* is_permit_active, and what complete compares
IsPermitActive(p) ==
  HasStatus(memory[p.window], "InFlight") /\ memory[p.window].attempts = p.attempt

-----------------------------------------------------------------------------
(* DesktopState *)

UpdateWake(new) == memory' = new /\ stored' = new

\* Mutant: notify_waiters, which leaves no permit.
NotifyWaiting == wakeNotified' = (wakeNotified \/ worker.at = "wait")

NotifyWake == wakeNotified' = TRUE

WindowsOf(a) == {w \in QuotaWindows : AccountOfWindow[w] = a}

\* Writing new in place of old forgets an attempt, or that a window is done with.
Forgets(old, new) ==
  \E w \in QuotaWindows :
    \/ old[w] # NoCycle /\ old[w].attempts > 0 /\ (new[w] = NoCycle \/ new[w].attempts < old[w].attempts)
    \/ w \in used \cup confirmed /\ Unfinished(new[w])

-----------------------------------------------------------------------------
(* Evaluation and natural use *)

\* evaluate, by the quota read of an account that reports the window as full.
EvaluateWake(w) ==
  /\ command = Idle /\ enabled /\ AccountOfWindow[w] \in accounts
  /\ IF w \in used
       THEN /\ memory[w] = NoCycle \/ Unfinished(memory[w])
            /\ UpdateWake([memory EXCEPT ![w] =
                 IF @ = NoCycle THEN [status |-> "Completed", attempts |-> 0, due |-> 0]
                 ELSE Finish(@)])
       ELSE /\ memory[w] = NoCycle
            /\ UpdateWake([memory EXCEPT ![w] =
                 [status |-> "Pending", attempts |-> 0, due |-> Jitter]])
  /\ NotifyWake
  /\ UNCHANGED <<enabled, accounts, worker, permits, command, used, sent, confirmed,
                 reverted, mishaps, commands>>

\* mark_natural_use_for_account, stored with the usage that shows it
NaturalUse(a) ==
  LET finished == {w \in WindowsOf(a) : Unfinished(memory[w])}
      marked == [w \in QuotaWindows |-> IF w \in finished THEN Finish(memory[w]) ELSE memory[w]]
  IN  /\ a \in accounts
      /\ used' = used \cup WindowsOf(a)
      /\ UpdateWake(marked)
      /\ wakeNotified' = (wakeNotified \/ finished # {})
      /\ UNCHANGED <<enabled, accounts, worker, permits, command, sent, confirmed, reverted,
                     mishaps, commands>>

-----------------------------------------------------------------------------
(* wake_loop *)

AtWorker(at) == worker' = [worker EXCEPT !.at = at]

\* The worker has executed p, and goes on with the batch or with the loop.
EndPermit(p) ==
  worker' = [at |-> IF permits \ {p} = {} THEN "loop" ELSE "run", timer |-> NotDue,
             permit |-> NoCycle]

\* next_automatic_wake_due and due_wait
ReadNextDue ==
  /\ worker.at = "loop"
  /\ worker' = [at |-> IF NextDue = 0 THEN "claim" ELSE "armed", timer |-> NextDue,
                permit |-> NoCycle]
  /\ UNCHANGED <<memory, stored, enabled, accounts, permits, wakeNotified, command, used, sent,
                 confirmed, reverted, mishaps, commands>>

\* The select is polled, and listens to wake_notify, after the lock was released.
BeginWait ==
  /\ worker.at = "armed"
  /\ AtWorker("wait")
  /\ UNCHANGED <<memory, stored, enabled, accounts, permits, wakeNotified, command, used, sent,
                 confirmed, reverted, mishaps, commands>>

EndWait ==
  /\ worker.at = "wait"
  /\ \/ wakeNotified /\ wakeNotified' = FALSE
     \/ worker.timer = 0 /\ UNCHANGED wakeNotified
  /\ AtWorker("claim")
  /\ UNCHANGED <<memory, stored, enabled, accounts, permits, command, used, sent, confirmed,
                 reverted, mishaps, commands>>

\* claim_due_automatic; the batch is taken in the order of the queue, here in any.
ClaimDueWakes ==
  LET due == {w \in ClaimableWakes : memory[w].due = 0}
      size == Min({BatchSize, Cardinality(due)})
  IN  /\ worker.at = "claim"
      /\ \E claimed \in kSubset(size, due) :
           /\ UpdateWake([w \in QuotaWindows |->
                IF w \in claimed THEN Claim(memory[w]) ELSE memory[w]])
           /\ permits' = {[window |-> w, attempt |-> memory[w].attempts + 1] : w \in claimed}
      /\ worker' = [at |-> IF due = {} THEN "loop" ELSE "run", timer |-> NotDue,
                    permit |-> NoCycle]
      /\ UNCHANGED <<enabled, accounts, wakeNotified, command, used, sent, confirmed, reverted,
                     mishaps, commands>>

\* execute_wake_permit: the checks before the request.
CheckPermit(p) ==
  /\ worker.at = "run" /\ p \in permits
  /\ IF IsPermitActive(p) THEN worker' = [at |-> "send", timer |-> NotDue, permit |-> p]
     ELSE EndPermit(p)
  /\ permits' = permits \ {p}
  /\ UNCHANGED <<memory, stored, enabled, accounts, wakeNotified, command, used, sent,
                 confirmed, reverted, mishaps, commands>>

SendWake ==
  /\ worker.at = "send"
  /\ sent' = [sent EXCEPT ![worker.permit.window] = @ + 1]
  /\ worker' = [worker EXCEPT !.at = "sent"]
  /\ UNCHANGED <<memory, stored, enabled, accounts, permits, wakeNotified, command, used,
                 confirmed, reverted, mishaps, commands>>

\* WakeCoordinator::complete
CompletedWake(cycle, advanced) ==
  IF advanced \/ cycle.attempts >= MaxAttempts THEN Finish(cycle) ELSE Retry(cycle)

\* The answer, its verification by a read of the quota, and complete_wake; the
\* checks in between only spare the read.
CompleteWake(advanced) ==
  LET p == worker.permit
  IN  /\ worker.at = "sent"
      /\ EndPermit(p)
      /\ IF IsPermitActive(p)
           THEN /\ UpdateWake([memory EXCEPT ![p.window] = CompletedWake(@, advanced)])
                /\ confirmed' = IF advanced THEN confirmed \cup {p.window} ELSE confirmed
                /\ NotifyWake
           ELSE UNCHANGED <<memory, stored, confirmed, wakeNotified>>
      /\ UNCHANGED <<enabled, accounts, permits, command, used, sent, reverted, mishaps, commands>>

\* The store cannot be written: the permit is gone, its cycle stays InFlight.
FailToComplete ==
  /\ worker.at = "sent" /\ IsPermitActive(worker.permit) /\ mishaps < MaxMishaps
  /\ EndPermit(worker.permit)
  /\ mishaps' = mishaps + 1
  /\ UNCHANGED <<memory, stored, enabled, accounts, permits, wakeNotified, command, used, sent,
                 confirmed, reverted, commands>>

-----------------------------------------------------------------------------
(* Commands: the task is edited, enabled or disabled; an account is deleted *)

\* update, set_enabled and delete of the automation, up to remove_pending_wakes;
\* enabling cancels nothing.
BeginEdit(enable, cancels) ==
  /\ command = Idle /\ commands < MaxCommands
  /\ IF cancels
       THEN /\ UpdateWake(CancelMatching(memory, QuotaWindows))
            /\ wakeNotified' = (wakeNotified \/ \E w \in QuotaWindows : Unfinished(memory[w]))
       ELSE enable /\ ~enabled /\ UNCHANGED <<memory, stored, wakeNotified>>
  /\ command' = [kind |-> "edit", at |-> "read", enable |-> enable, records |-> stored]
  /\ commands' = commands + 1
  /\ UNCHANGED <<enabled, accounts, worker, permits, used, sent, confirmed, reverted, mishaps>>

\* store()?.automations().clone()
ReadRecords ==
  /\ command.kind = "edit" /\ command.at = "read"
  /\ command' = [kind |-> "edit", at |-> "write", enable |-> command.enable,
                 records |-> stored]
  /\ UNCHANGED <<memory, stored, enabled, accounts, worker, permits, wakeNotified, used, sent,
                 confirmed, reverted, mishaps, commands>>

\* replace_automations, under another lock than the read
WriteRecords ==
  /\ command.kind = "edit" /\ command.at = "write"
  /\ stored' = command.records
  /\ reverted' = (reverted \/ Forgets(stored, command.records))
  /\ enabled' = command.enable
  /\ command' = Idle
  /\ UNCHANGED <<memory, accounts, worker, permits, wakeNotified, used, sent, confirmed, mishaps,
                 commands>>

\* delete_local_accounts: the snapshot and the records are taken first.
BeginDelete(a) ==
  /\ command = Idle /\ commands < MaxCommands /\ a \in accounts
  /\ command' = [kind |-> "delete", at |-> "cancel", account |-> a, snapshot |-> memory,
                 records |-> stored]
  /\ commands' = commands + 1
  /\ UNCHANGED <<memory, stored, enabled, accounts, worker, permits, wakeNotified, used, sent,
                 confirmed, reverted, mishaps>>

\* prepare_delete_local_account
CancelForDelete ==
  /\ command.kind = "delete" /\ command.at = "cancel"
  /\ UpdateWake(CancelMatching(memory, WindowsOf(command.account)))
  /\ wakeNotified' = (wakeNotified \/ \E w \in WindowsOf(command.account) : Unfinished(memory[w]))
  /\ command' = [command EXCEPT !.at = "commit"]
  /\ UNCHANGED <<enabled, accounts, worker, permits, used, sent, confirmed, reverted, mishaps,
                 commands>>

\* delete_accounts_state, with the records as they were
CommitDelete ==
  /\ command.kind = "delete" /\ command.at = "commit"
  /\ stored' = command.records
  /\ reverted' = (reverted \/ Forgets(stored, command.records))
  /\ accounts' = accounts \ {command.account}
  /\ command' = Idle
  /\ UNCHANGED <<memory, enabled, worker, permits, wakeNotified, used, sent, confirmed, mishaps,
                 commands>>

\* restore_wake
RestoreWake ==
  /\ UpdateWake(command.snapshot)
  /\ NotifyWake

\* A later step of the deletion fails.
RollbackDelete ==
  /\ command.kind = "delete" /\ command.at = "commit"
  /\ RestoreWake
  /\ reverted' = (reverted \/ Forgets(memory, command.snapshot) \/ Forgets(stored, command.snapshot))
  /\ command' = Idle
  /\ UNCHANGED <<enabled, accounts, worker, permits, used, sent, confirmed, mishaps, commands>>

-----------------------------------------------------------------------------

\* A crash, and DesktopState built from the store.
CrashWake ==
  /\ mishaps < MaxMishaps
  /\ mishaps' = mishaps + 1
  /\ memory' = FromState(stored)
  /\ worker' = [at |-> "loop", timer |-> NotDue, permit |-> NoCycle] /\ permits' = {}
  /\ wakeNotified' = FALSE /\ command' = Idle
  /\ UNCHANGED <<stored, enabled, accounts, used, sent, confirmed, reverted, commands>>

Shorter(t) == IF t = NotDue \/ t = 0 THEN t ELSE t - 1
Aged(state) ==
  [w \in QuotaWindows |-> IF state[w] = NoCycle THEN NoCycle ELSE [state[w] EXCEPT !.due = Shorter(@)]]

PassTime ==
  /\ memory' = Aged(memory) /\ stored' = Aged(stored)
  /\ worker' = [worker EXCEPT !.timer = Shorter(@)]
  /\ command' = CASE command.kind = "none" -> command
                  [] command.kind = "edit" -> [command EXCEPT !.records = Aged(@)]
                  [] command.kind = "delete" ->
                       [kind |-> "delete", at |-> command.at, account |-> command.account,
                        snapshot |-> Aged(command.snapshot), records |-> Aged(command.records)]
  /\ <<memory, stored, worker, command>>' # <<memory, stored, worker, command>>
  /\ UNCHANGED <<enabled, accounts, permits, wakeNotified, used, sent, confirmed, reverted,
                 mishaps, commands>>

WorkerMoves ==
  \/ ReadNextDue \/ BeginWait \/ EndWait \/ ClaimDueWakes
  \/ \E p \in permits : CheckPermit(p)
  \/ SendWake
  \/ \E advanced \in BOOLEAN : CompleteWake(advanced)
  \/ FailToComplete

WakeNext ==
  \/ \E w \in QuotaWindows : EvaluateWake(w)
  \/ \E a \in WakeAccounts : NaturalUse(a) \/ BeginDelete(a)
  \/ WorkerMoves
  \/ \E enable, cancels \in BOOLEAN : BeginEdit(enable, cancels)
  \/ ReadRecords \/ WriteRecords
  \/ CancelForDelete \/ CommitDelete \/ RollbackDelete
  \/ CrashWake \/ PassTime

WakeFairness == WF_wakeVars(WorkerMoves) /\ WF_wakeVars(PassTime)

WakeSpec == WakeInit /\ [][WakeNext]_wakeVars
WakeFairSpec == WakeSpec /\ WakeFairness

-----------------------------------------------------------------------------
(* Properties *)

\* A window costs MaxAttempts requests at most, whatever is cancelled, read
\* again, retried or restarted, unless older records were written over newer.
WakeBudget == \A w \in QuotaWindows : sent[w] > MaxAttempts => reverted

\* No request is begun for a window already used or seen to count down.
SettledIsFinal ==
  [][worker.at = "run" /\ worker'.at = "send" /\ ~reverted
       => worker'.permit.window \notin used \cup confirmed]_wakeVars

\* A worker that sleeps, not notified, wakes by the time a request is due.
WorkerSeesDue ==
  worker.at = "wait" /\ ~wakeNotified /\ NextDue # NotDue =>
    worker.timer # NotDue /\ worker.timer <= NextDue

\* A scheduled wake is claimed, finished or cancelled.
WakeClaimed ==
  \A w \in QuotaWindows :
    HasStatus(memory[w], "Pending") ~> ~HasStatus(memory[w], "Pending")
=============================================================================
