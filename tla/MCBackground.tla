---------------------------- MODULE MCBackground ----------------------------
(***************************************************************************)
(* Five services around the gateway that share no state in memory: the     *)
(* gate of management calls, the periodic reads, the quota wakes, the      *)
(* registrations of the pool, and the vault of secrets.  A behaviour is    *)
(* one of one of them, the others rest.                                    *)
(***************************************************************************)
EXTENDS HttpGate, RefreshService, QuotaWake, PoolMembers, SecretVault

VARIABLE focus

vars == <<focus, gateVars, refreshVars, wakeVars, poolVars, vaultVars>>

\* Two origins, on each a sign-in and an ordinary call.
MCOriginOf == [c \in Callers |-> IF c \in {"s1", "q1"} THEN "x" ELSE "y"]
MCClassOf  == [c \in Callers |-> IF c \in {"s1", "s2"} THEN "Auth" ELSE "Ordinary"]

\* The quota read of one account, under two revisions of its configuration.
MCMemberOf    == [k \in Keys |-> "m"]
MCKindOf      == [k \in Keys |-> "Quota"]
MCRevisionOf  == [k \in Keys |-> IF k = "q1" THEN 1 ELSE 2]
MCOriginOfKey == [k \in Keys |-> "x"]
MCClassOrder  == <<"Auth", "Quota">>

\* Two windows of one account.
MCAccountOfWindow == [w \in QuotaWindows |-> "a"]

\* Two routes of one member, which takes one request at a time.
MCPoolMemberOf == [c \in Candidates |-> "m"]
MCPoolLimit    == [m \in {"m"} |-> 1]

Init ==
  /\ GateInit /\ RefreshInit /\ WakeInit /\ PoolInit /\ VaultInit
  /\ focus \in {"gate", "refresh", "wake", "pool", "vault"}

Next ==
  \/ /\ focus = "gate" /\ GateNext
     /\ UNCHANGED <<focus, refreshVars, wakeVars, poolVars, vaultVars>>
  \/ /\ focus = "refresh" /\ RefreshNext
     /\ UNCHANGED <<focus, gateVars, wakeVars, poolVars, vaultVars>>
  \/ /\ focus = "wake" /\ WakeNext
     /\ UNCHANGED <<focus, gateVars, refreshVars, poolVars, vaultVars>>
  \/ /\ focus = "pool" /\ PoolNext
     /\ UNCHANGED <<focus, gateVars, refreshVars, wakeVars, vaultVars>>
  \/ /\ focus = "vault" /\ VaultNext
     /\ UNCHANGED <<focus, gateVars, refreshVars, wakeVars, poolVars>>

\* The fairness of each module, for the service that runs.
Fairness ==
  /\ \A c \in Callers : WF_gateVars(focus = "gate" /\ GateMoves(c))
  /\ WF_refreshVars(focus = "refresh" /\ SignalDriver)
  /\ WF_refreshVars(focus = "refresh" /\ Tick)
  /\ WF_refreshVars(focus = "refresh" /\ DriverMoves)
  /\ \A j \in Jobs : SF_refreshVars(focus = "refresh" /\ ReadEnds(j))
  /\ WF_wakeVars(focus = "wake" /\ WorkerMoves)
  /\ WF_wakeVars(focus = "wake" /\ PassTime)

Spec == Init /\ [][Next]_vars /\ Fairness

-----------------------------------------------------------------------------

\* Every variable has its type; the counters of the gate are those of its
\* permits (http.rs), a running read is known to the coordinator (run.rs), a
\* tombstone goes with its last request (registry.rs), and nobody writes the
\* vault of a program that ended (vault.rs).
BackgroundTypeOK ==
  CASE focus = "gate"    -> GateTypeOK
    [] focus = "refresh" -> RefreshTypeOK
    [] focus = "wake"    -> WakeTypeOK
    [] focus = "pool"    -> PoolTypeOK
    [] focus = "vault"   -> VaultTypeOK

\* One of each of AuthServed, RequestAnswered and WakeClaimed: the instance is
\* symmetric under the exchange of the origins with their callers, and of the
\* windows, so that s1 and w1 stand for s2 and w2.
Waits ==
  CASE focus = "gate"    -> "s1" \in Queued
    [] focus = "refresh" -> asking["u"] # NoEntry
    [] focus = "wake"    -> HasStatus(memory["w1"], "Pending")
    [] OTHER             -> FALSE

\* A sign-in that queues for a permit is admitted or gives up (http.rs), a
\* caller that asked for a read is answered or leaves (service.rs), and a wake
\* that was scheduled is claimed, cancelled or found needless (wake_worker.rs).
Served == Waits ~> ~Waits
=============================================================================
