-------------------------- MODULE QuotaWakeProofs --------------------------
(***************************************************************************)
(* QuotaWake for every number of windows, attempts, crashes and commands:  *)
(* the budget of a window, what is settled stays settled, and the worker   *)
(* wakes in time.                                                          *)
(***************************************************************************)
EXTENDS QuotaWake, FiniteSetTheorems, WellFoundedInduction, TLAPS

-----------------------------------------------------------------------------
(* Cycles *)

\* A non-empty set of naturals has a least element: the intervals 0..x are
\* finite and ordered like their bounds.
LEMMA LeastNatural ==
  ASSUME NEW S \in SUBSET Nat, S # {}
  PROVE  \E x \in S : \A y \in S : x <= y
<1> DEFINE Below == {0..x : x \in S}
<1>1. Below \subseteq FiniteSubsetsOf(Nat)
  <2>1. \A x \in S : IsFiniteSet(0..x)
    BY FS_Interval
  <2>2. QED
    BY <2>1 DEF FiniteSubsetsOf
<1>2. Below # {}
  OBVIOUS
<1>3. PICK least \in Below : \A other \in Below :
          ~(<<other, least>> \in StrictSubsetOrdering(Nat))
  BY <1>1, <1>2, FS_StrictSubsetOrderingWellFounded, WFMin
<1>4. PICK x \in S : least = 0..x
  OBVIOUS
<1>5. \A y \in S : x <= y
  <2>1. SUFFICES ASSUME NEW y \in S, y < x PROVE FALSE
    OBVIOUS
  <2>2. 0..y \subseteq 0..x /\ 0..y # 0..x
    BY <2>1
  <2>3. <<0..y, 0..x>> \in StrictSubsetOrdering(Nat)
    BY <2>2 DEF StrictSubsetOrdering
  <2>4. QED
    BY <1>3, <1>4, <2>3
<1>6. QED
  BY <1>5

\* The requests a cycle has been claimed for.
Attempts(cycle) == IF cycle = NoCycle THEN 0 ELSE cycle.attempts

\* What a step may do to the cycles: no attempt is forgotten, what is completed
\* stays so, and a window of done gets no new cycle.
Keeps(old, new, done) ==
  \A w \in QuotaWindows :
    /\ Attempts(old[w]) <= Attempts(new[w])
    /\ HasStatus(old[w], "Completed") => HasStatus(new[w], "Completed")
    /\ w \in done /\ ~Unfinished(old[w]) => ~Unfinished(new[w])

LEMMA CycleCases ==
  ASSUME NEW state \in Cycles, NEW w \in QuotaWindows
  PROVE  /\ state[w] = NoCycle \/ (state[w] \in Cycle /\ state[w] # NoCycle)
         /\ Attempts(state[w]) \in 0..MaxAttempts
BY WakeAssumption DEF Cycles, Cycle, Attempts

LEMMA CycleSteps ==
  ASSUME NEW cycle \in Cycle
  PROVE  /\ Finish(cycle) \in Cycle /\ Finish(cycle).status = "Completed"
         /\ Finish(cycle).attempts = cycle.attempts
         /\ Retry(cycle) \in Cycle /\ Retry(cycle).status = "Pending"
         /\ Retry(cycle).attempts = cycle.attempts
<1>1. cycle.attempts \in 0..MaxAttempts /\ 0 \in 0..Jitter /\ Jitter \in 0..Jitter
  BY WakeAssumption DEF Cycle
<1>2. QED
  BY <1>1 DEF Cycle, Finish, Retry

LEMMA FinishKeeps ==
  ASSUME NEW cycle \in Cycle
  PROVE  /\ Finish(cycle) # NoCycle /\ HasStatus(Finish(cycle), "Completed")
         /\ ~Unfinished(Finish(cycle)) /\ Attempts(Finish(cycle)) = Attempts(cycle)
BY CycleSteps, WakeAssumption DEF HasStatus, Unfinished, Attempts

LEMMA CancelKeeps ==
  ASSUME NEW state \in Cycles, NEW windows, NEW done
  PROVE  /\ CancelMatching(state, windows) \in Cycles
         /\ Keeps(state, CancelMatching(state, windows), done)
         /\ \A w \in windows \cap QuotaWindows : ~Unfinished(CancelMatching(state, windows)[w])
<1> DEFINE new == CancelMatching(state, windows)
<1>1. ASSUME NEW w \in QuotaWindows
      PROVE  /\ new[w] \in Cycle \cup {NoCycle}
             /\ Attempts(state[w]) <= Attempts(new[w])
             /\ HasStatus(state[w], "Completed") => HasStatus(new[w], "Completed")
             /\ ~Unfinished(state[w]) => ~Unfinished(new[w])
             /\ w \in windows => ~Unfinished(new[w])
  <2>1. CASE w \in windows /\ Unfinished(state[w])
    <3>1. new[w] = Cancelled(state[w]) /\ state[w] \in Cycle
      BY <2>1, CycleCases DEF CancelMatching, Unfinished
    <3>2. CASE state[w].attempts = 0
      BY <2>1, <3>1, <3>2, CycleCases DEF Cancelled, Attempts, HasStatus, Unfinished
    <3>3. CASE state[w].attempts # 0
      BY <2>1, <3>1, <3>3, CycleCases, FinishKeeps, CycleSteps
      DEF Cancelled, HasStatus, Unfinished
    <3>4. QED
      BY <3>2, <3>3
  <2>2. CASE ~(w \in windows /\ Unfinished(state[w]))
    BY <2>2, CycleCases DEF CancelMatching
  <2>3. QED
    BY <2>1, <2>2
<1>2. new = [w \in QuotaWindows |-> new[w]]
  BY DEF CancelMatching
<1> HIDE DEF new
<1>3. new \in [QuotaWindows -> Cycle \cup {NoCycle}]
  BY <1>1, <1>2
<1>4. QED
  BY <1>1, <1>3 DEF Keeps, Cycles, new

\* A restart retries or finishes what was in flight.
LEMMA FromStateKeeps ==
  ASSUME NEW state \in Cycles, NEW done
  PROVE  FromState(state) \in Cycles /\ Keeps(state, FromState(state), done)
<1> DEFINE new == FromState(state)
<1>1. ASSUME NEW w \in QuotaWindows
      PROVE  /\ new[w] \in Cycle \cup {NoCycle}
             /\ Attempts(state[w]) <= Attempts(new[w])
             /\ HasStatus(state[w], "Completed") => HasStatus(new[w], "Completed")
             /\ ~Unfinished(state[w]) => ~Unfinished(new[w])
  <2>1. CASE HasStatus(state[w], "InFlight")
    <3>1. state[w] \in Cycle /\ Unfinished(state[w]) /\ ~HasStatus(state[w], "Completed")
      BY <2>1, CycleCases DEF HasStatus, Unfinished
    <3>2. new[w] \in {Retry(state[w]), Finish(state[w])}
      BY <2>1 DEF FromState
    <3>3. QED
      BY <3>1, <3>2, CycleSteps, CycleCases, WakeAssumption DEF Attempts
  <2>2. CASE ~HasStatus(state[w], "InFlight")
    BY <2>2, CycleCases DEF FromState
  <2>3. QED
    BY <2>1, <2>2
<1>2. new = [w \in QuotaWindows |-> new[w]]
  BY DEF FromState
<1> HIDE DEF new
<1>3. new \in [QuotaWindows -> Cycle \cup {NoCycle}]
  BY <1>1, <1>2
<1>4. QED
  BY <1>1, <1>3 DEF Keeps, Cycles, new

LEMMA ShorterValues ==
  ASSUME NEW t \in 0..Jitter \cup {NotDue}
  PROVE  /\ Shorter(t) \in 0..Jitter \cup {NotDue}
         /\ t # NotDue => Shorter(t) \in 0..Jitter
         /\ t = NotDue => Shorter(t) = NotDue
         /\ \A u \in 0..Jitter : t # NotDue /\ t <= u => Shorter(t) <= Shorter(u)
BY WakeAssumption DEF Shorter

\* Time changes nothing but the instants.
LEMMA AgedKeeps ==
  ASSUME NEW state \in Cycles, NEW done
  PROVE  /\ Aged(state) \in Cycles /\ Keeps(state, Aged(state), done)
         /\ \A w \in QuotaWindows :
              /\ (Aged(state)[w] = NoCycle) <=> (state[w] = NoCycle)
              /\ state[w] # NoCycle => /\ Aged(state)[w].due = Shorter(state[w].due)
                                       /\ Aged(state)[w].status = state[w].status
                                       /\ Aged(state)[w].attempts = state[w].attempts
                                       /\ state[w].due \in 0..Jitter
<1> DEFINE new == Aged(state)
<1>1. ASSUME NEW w \in QuotaWindows
      PROVE  /\ new[w] \in Cycle \cup {NoCycle}
             /\ (new[w] = NoCycle) <=> (state[w] = NoCycle)
             /\ state[w] # NoCycle => /\ new[w].due = Shorter(state[w].due)
                                      /\ new[w].status = state[w].status
                                      /\ new[w].attempts = state[w].attempts
                                      /\ state[w].due \in 0..Jitter
  <2>1. CASE state[w] = NoCycle
    BY <2>1 DEF Aged
  <2>2. CASE state[w] # NoCycle
    <3>1. state[w] \in Cycle /\ state[w].due \in 0..Jitter
      BY <2>2, CycleCases DEF Cycle
    <3>2. new[w] = [state[w] EXCEPT !.due = Shorter(state[w].due)]
      BY <2>2 DEF Aged
    <3>3. Shorter(state[w].due) \in 0..Jitter
      BY <3>1, ShorterValues, WakeAssumption
    <3>4. new[w] \in Cycle
      BY <3>1, <3>2, <3>3 DEF Cycle
    <3>5. QED
      BY <2>2, <3>1, <3>2, <3>4, WakeAssumption DEF Cycle
  <2>3. QED
    BY <2>1, <2>2
<1>2. new = [w \in QuotaWindows |-> new[w]]
  BY DEF Aged
<1> HIDE DEF new
<1>3. new \in [QuotaWindows -> Cycle \cup {NoCycle}]
  BY <1>1, <1>2
<1>4. \A w \in QuotaWindows : Attempts(state[w]) \in Nat
  BY CycleCases
<1>5. Keeps(state, new, done)
  BY <1>1, <1>4 DEF Keeps, Attempts, HasStatus, Unfinished
<1>6. QED
  BY <1>1, <1>3, <1>5 DEF Cycles, new

-----------------------------------------------------------------------------
(* Types *)

Stages == {"loop", "armed", "wait", "claim", "run", "send", "sent"}
Timers == 0..Jitter \cup {NotDue}

LEMMA CommandCases ==
  ASSUME command \in Commands
  PROVE  /\ command.kind \in {"none", "edit", "delete"}
         /\ command.kind = "none" => command = Idle
         /\ command.kind = "edit" =>
              /\ command.at \in {"read", "write"} /\ command.enable \in BOOLEAN
              /\ command.records \in Cycles
              /\ command = [kind |-> "edit", at |-> command.at, enable |-> command.enable,
                            records |-> command.records]
         /\ command.kind = "delete" =>
              /\ command.at \in {"cancel", "commit"} /\ command.account \in WakeAccounts
              /\ command.snapshot \in Cycles /\ command.records \in Cycles
              /\ command = [kind |-> "delete", at |-> command.at, account |-> command.account,
                            snapshot |-> command.snapshot, records |-> command.records]
BY DEF Commands, Idle

LEMMA CommandValues ==
  /\ Idle \in Commands
  /\ \A at \in {"read", "write"}, enable \in BOOLEAN, records \in Cycles :
       [kind |-> "edit", at |-> at, enable |-> enable, records |-> records] \in Commands
  /\ \A at \in {"cancel", "commit"}, a \in WakeAccounts, snapshot \in Cycles, records \in Cycles :
       [kind |-> "delete", at |-> at, account |-> a, snapshot |-> snapshot, records |-> records]
         \in Commands
BY DEF Commands

\* The earliest instant of a wake that may be claimed.
LEMMA NextDueIsLeast ==
  ASSUME memory \in Cycles
  PROVE  /\ NextDue \in Timers
         /\ \A w \in ClaimableWakes :
              /\ memory[w].due \in 0..Jitter
              /\ NextDue # NotDue /\ NextDue <= memory[w].due
         /\ ClaimableWakes # {} => \E w \in ClaimableWakes : NextDue = memory[w].due
<1> DEFINE S == {memory[w].due : w \in ClaimableWakes}
<1>1. S \subseteq 0..Jitter
  BY CycleCases DEF ClaimableWakes, HasStatus, Cycle
<1>2. CASE ClaimableWakes = {}
  BY <1>2 DEF NextDue, Timers
<1>3. CASE ClaimableWakes # {}
  <2>1. S \in SUBSET Nat /\ S # {}
    BY <1>1, <1>3, WakeAssumption
  <2>2. \E x \in S : \A y \in S : x <= y
    BY <2>1, LeastNatural
  <2>3. NextDue = CHOOSE x \in S : \A y \in S : x <= y
    BY <1>3 DEF NextDue, Min
  <2> HIDE DEF S
  <2>4. NextDue \in S /\ \A y \in S : NextDue <= y
    BY <2>2, <2>3
  <2>5. NextDue \in 0..Jitter /\ NextDue # NotDue
    BY <1>1, <2>4, WakeAssumption
  <2>6. QED
    BY <1>1, <2>4, <2>5 DEF S, Timers
<1>4. QED
  BY <1>2, <1>3

\* What a claimed cycle becomes, and its permit.
LEMMA ClaimValues ==
  ASSUME memory \in Cycles, NEW w \in ClaimableWakes
  PROVE  /\ memory[w] \in Cycle /\ memory[w] # NoCycle /\ memory[w].status = "Pending"
         /\ Claim(memory[w]) \in Cycle /\ Claim(memory[w]).status = "InFlight"
         /\ Claim(memory[w]).attempts = memory[w].attempts + 1
         /\ Claim(memory[w]) # NoCycle
         /\ memory[w].attempts \in 0..MaxAttempts /\ memory[w].attempts + 1 \in 1..MaxAttempts
<1>1. /\ memory[w] \in Cycle /\ memory[w] # NoCycle /\ memory[w].status = "Pending"
      /\ memory[w].attempts < MaxAttempts
  BY CycleCases DEF ClaimableWakes, HasStatus
<1>2. memory[w].attempts \in 0..MaxAttempts /\ memory[w].due \in 0..Jitter
  BY <1>1 DEF Cycle
<1>3. memory[w].attempts + 1 \in 1..MaxAttempts
  BY <1>1, <1>2, WakeAssumption
<1>4. QED
  BY <1>1, <1>2, <1>3, WakeAssumption DEF Claim, Cycle

LEMMA ClaimedValues ==
  ASSUME memory \in Cycles, NEW claimed \in SUBSET ClaimableWakes,
         NEW new, new = [w \in QuotaWindows |->
                          IF w \in claimed THEN Claim(memory[w]) ELSE memory[w]],
         NEW done
  PROVE  /\ new \in Cycles /\ Keeps(memory, new, done \ claimed)
         /\ {[window |-> w, attempt |-> memory[w].attempts + 1] : w \in claimed} \subseteq Permits
<1>1. ASSUME NEW w \in QuotaWindows
      PROVE  /\ new[w] \in Cycle \cup {NoCycle}
             /\ Attempts(memory[w]) <= Attempts(new[w])
             /\ HasStatus(memory[w], "Completed") => HasStatus(new[w], "Completed")
             /\ w \in done \ claimed /\ ~Unfinished(memory[w]) => ~Unfinished(new[w])
  <2>1. CASE w \in claimed
    <3>1. new[w] = Claim(memory[w]) /\ w \in ClaimableWakes
      BY <2>1
    <3>2. QED
      BY <2>1, <3>1, ClaimValues DEF Attempts, HasStatus
  <2>2. CASE w \notin claimed
    BY <2>2, CycleCases
  <2>3. QED
    BY <2>1, <2>2
<1>2. new \in Cycles
  BY <1>1 DEF Cycles
<1>3. ASSUME NEW w \in claimed PROVE [window |-> w, attempt |-> memory[w].attempts + 1] \in Permits
  <2>1. w \in QuotaWindows /\ memory[w].attempts + 1 \in 1..MaxAttempts
    BY ClaimValues DEF ClaimableWakes
  <2>2. QED
    BY <2>1 DEF Permits
<1>4. QED
  BY <1>1, <1>2, <1>3 DEF Keeps

LEMMA WakeTypeInit ==
  WakeInit => WakeTypeOK
<1> SUFFICES ASSUME WakeInit PROVE WakeTypeOK
  OBVIOUS
<1>1. memory \in Cycles /\ stored \in Cycles
  BY DEF WakeInit, Cycles
<1>2. /\ worker \in [at : Stages, timer : Timers, permit : Permits \cup {NoCycle}]
      /\ sent \in [QuotaWindows -> Nat]
  BY DEF WakeInit, Stages, Timers
<1>3. mishaps \in 0..MaxMishaps /\ commands \in 0..MaxCommands
  BY WakeAssumption DEF WakeInit
<1>4. QED
  BY <1>1, <1>2, <1>3, CommandValues DEF WakeInit, WakeTypeOK, Stages, Timers

LEMMA EvaluateKeeps ==
  ASSUME WakeTypeOK, NEW w \in QuotaWindows, EvaluateWake(w)
  PROVE  memory' \in Cycles /\ stored' = memory' /\ Keeps(memory, memory', used)
<1>1. PICK new \in Cycle :
        /\ memory' = [memory EXCEPT ![w] = new] /\ stored' = memory'
        /\ Attempts(memory[w]) <= Attempts(new) /\ new # NoCycle
        /\ HasStatus(memory[w], "Completed") => HasStatus(new, "Completed")
        /\ w \in used => ~Unfinished(new)
  <2>1. CASE w \in used /\ memory[w] = NoCycle
    <3> DEFINE new == [status |-> "Completed", attempts |-> 0, due |-> 0]
    <3>1. new \in Cycle /\ new.status = "Completed" /\ new.attempts = 0
      BY WakeAssumption DEF Cycle
    <3>2. memory' = [memory EXCEPT ![w] = new] /\ stored' = memory'
      BY <2>1 DEF EvaluateWake, UpdateWake
    <3> HIDE DEF new
    <3>3. /\ Attempts(memory[w]) <= Attempts(new) /\ new # NoCycle
          /\ HasStatus(memory[w], "Completed") => HasStatus(new, "Completed")
          /\ w \in used => ~Unfinished(new)
      BY <2>1, <3>1, WakeAssumption DEF Attempts, HasStatus, Unfinished
    <3>4. QED
      BY <3>1, <3>2, <3>3, Zenon
  <2>2. CASE w \in used /\ memory[w] # NoCycle
    <3>1. memory[w] \in Cycle /\ memory' = [memory EXCEPT ![w] = Finish(memory[w])]
      BY <2>2, CycleCases DEF EvaluateWake, UpdateWake, WakeTypeOK
    <3>2. Finish(memory[w]) \in Cycle /\ Attempts(memory[w]) <= Attempts(Finish(memory[w]))
      BY <3>1, CycleSteps, FinishKeeps, CycleCases DEF WakeTypeOK
    <3>3. QED
      BY <3>1, <3>2, FinishKeeps DEF EvaluateWake, UpdateWake
  <2>3. CASE w \notin used
    <3> DEFINE new == [status |-> "Pending", attempts |-> 0, due |-> Jitter]
    <3>1. new \in Cycle /\ new.attempts = 0
      BY WakeAssumption DEF Cycle
    <3>2. memory' = [memory EXCEPT ![w] = new] /\ stored' = memory' /\ memory[w] = NoCycle
      BY <2>3 DEF EvaluateWake, UpdateWake
    <3> HIDE DEF new
    <3>3. /\ Attempts(memory[w]) <= Attempts(new) /\ new # NoCycle
          /\ HasStatus(memory[w], "Completed") => HasStatus(new, "Completed")
          /\ w \in used => ~Unfinished(new)
      BY <2>3, <3>1, <3>2, WakeAssumption DEF Attempts, HasStatus
    <3>4. QED
      BY <3>1, <3>2, <3>3, Zenon
  <2>4. QED
    BY <2>1, <2>2, <2>3
<1>2. memory' \in Cycles
  BY <1>1 DEF WakeTypeOK, Cycles
<1>3. Keeps(memory, memory', used)
  <2> SUFFICES ASSUME NEW v \in QuotaWindows
               PROVE  /\ Attempts(memory[v]) <= Attempts(memory'[v])
                      /\ HasStatus(memory[v], "Completed") => HasStatus(memory'[v], "Completed")
                      /\ v \in used /\ ~Unfinished(memory[v]) => ~Unfinished(memory'[v])
    BY DEF Keeps
  <2>1. CASE v = w
    BY <1>1, <2>1 DEF WakeTypeOK, Cycles
  <2>2. CASE v # w
    BY <1>1, <2>2, CycleCases DEF WakeTypeOK, Cycles
  <2>3. QED
    BY <2>1, <2>2
<1>4. QED
  BY <1>1, <1>2, <1>3

\* Natural use finishes the cycles of the account.
LEMMA NaturalUseKeeps ==
  ASSUME WakeTypeOK, NEW a, NaturalUse(a)
  PROVE  /\ memory' \in Cycles /\ stored' = memory'
         /\ \A done : Keeps(memory, memory', done)
         /\ \A w \in WindowsOf(a) : ~Unfinished(memory'[w])
<1> DEFINE finished == {w \in WindowsOf(a) : Unfinished(memory[w])}
<1>1. /\ memory' = [w \in QuotaWindows |->
                     IF w \in finished THEN Finish(memory[w]) ELSE memory[w]]
      /\ stored' = memory'
  BY DEF NaturalUse, UpdateWake
<1>2. ASSUME NEW w \in QuotaWindows
      PROVE  /\ memory'[w] \in Cycle \cup {NoCycle}
             /\ Attempts(memory[w]) <= Attempts(memory'[w])
             /\ HasStatus(memory[w], "Completed") => HasStatus(memory'[w], "Completed")
             /\ ~Unfinished(memory[w]) => ~Unfinished(memory'[w])
             /\ w \in WindowsOf(a) => ~Unfinished(memory'[w])
  <2>1. CASE w \in finished
    <3>1. memory'[w] = Finish(memory[w]) /\ memory[w] \in Cycle
      BY <1>1, <2>1, CycleCases DEF Unfinished, WakeTypeOK
    <3>2. Attempts(memory[w]) \in Nat
      BY CycleCases DEF WakeTypeOK
    <3>3. QED
      BY <3>1, <3>2, FinishKeeps, CycleSteps
  <2>2. CASE w \notin finished
    BY <1>1, <2>2, CycleCases DEF WakeTypeOK
  <2>3. QED
    BY <2>1, <2>2
<1>3. memory' \in Cycles
  BY <1>1, <1>2 DEF Cycles
<1>4. QED
  BY <1>1, <1>2, <1>3 DEF Keeps, WindowsOf

\* The end of a wake finishes its cycle or lets it be tried again.
LEMMA CompleteKeeps ==
  ASSUME WakeTypeOK, NEW p \in Permits, IsPermitActive(p), NEW advanced \in BOOLEAN, NEW new,
         new = [memory EXCEPT ![p.window] = CompletedWake(memory[p.window], advanced)]
  PROVE  /\ new \in Cycles /\ \A done : Keeps(memory, new, done \ {p.window})
         /\ new[p.window] # NoCycle
         /\ Attempts(new[p.window]) = p.attempt
         /\ advanced => HasStatus(new[p.window], "Completed")
<1> DEFINE w == p.window
           cycle == CompletedWake(memory[w], advanced)
<1>1. w \in QuotaWindows /\ memory[w] # NoCycle /\ memory[w].attempts = p.attempt
      /\ ~HasStatus(memory[w], "Completed")
  BY DEF Permits, IsPermitActive, HasStatus
<1>2. memory[w] \in Cycle /\ p.attempt \in 1..MaxAttempts
  BY <1>1, CycleCases DEF WakeTypeOK, Permits
<1>3. cycle = Finish(memory[w]) \/ (~advanced /\ cycle = Retry(memory[w]))
  BY DEF CompletedWake
<1>4. cycle \in Cycle /\ cycle.attempts = p.attempt /\ cycle # NoCycle
  BY <1>1, <1>2, <1>3, CycleSteps, WakeAssumption
<1>5. advanced => HasStatus(cycle, "Completed")
  BY <1>2, <1>3, FinishKeeps
<1> HIDE DEF cycle
<1>6. new = [memory EXCEPT ![w] = cycle]
  BY DEF cycle
<1> HIDE DEF w
<1>7. new \in Cycles /\ new[w] = cycle /\ \A v \in QuotaWindows \ {w} : new[v] = memory[v]
  BY <1>1, <1>4, <1>6 DEF WakeTypeOK, Cycles
<1>8. ASSUME NEW done PROVE Keeps(memory, new, done \ {w})
  <2> SUFFICES ASSUME NEW v \in QuotaWindows
               PROVE  /\ Attempts(memory[v]) <= Attempts(new[v])
                      /\ HasStatus(memory[v], "Completed") => HasStatus(new[v], "Completed")
                      /\ v \in done \ {w} /\ ~Unfinished(memory[v]) => ~Unfinished(new[v])
    BY DEF Keeps
  <2>1. CASE v = w
    BY <1>1, <1>2, <1>4, <1>7, <2>1 DEF Attempts
  <2>2. CASE v # w
    <3>1. new[v] = memory[v] /\ Attempts(memory[v]) \in Nat
      BY <1>7, <2>2, CycleCases DEF WakeTypeOK
    <3>2. QED
      BY <3>1
  <2>3. QED
    BY <2>1, <2>2
<1>9. QED
  BY <1>4, <1>5, <1>7, <1>8 DEF Attempts, w

Workers == [at : Stages, timer : Timers, permit : Permits \cup {NoCycle}]

WakeValues ==
  /\ memory \in Cycles /\ stored \in Cycles
  /\ enabled \in BOOLEAN /\ accounts \subseteq WakeAccounts
  /\ worker \in Workers /\ permits \subseteq Permits /\ wakeNotified \in BOOLEAN
  /\ command \in Commands
  /\ used \subseteq QuotaWindows /\ confirmed \subseteq QuotaWindows
  /\ sent \in [QuotaWindows -> Nat] /\ reverted \in BOOLEAN
  /\ mishaps \in 0..MaxMishaps /\ commands \in 0..MaxCommands

LEMMA WakeTypeNames ==
  WakeTypeOK <=> WakeValues
BY DEF WakeTypeOK, WakeValues, Workers, Stages, Timers

LEMMA WorkerValues ==
  /\ \A at \in Stages, timer \in Timers, permit \in Permits \cup {NoCycle} :
       [at |-> at, timer |-> timer, permit |-> permit] \in Workers
  /\ worker \in Workers =>
       /\ worker.at \in Stages /\ worker.timer \in Timers
       /\ worker.permit \in Permits \cup {NoCycle}
       /\ \A at \in Stages : [worker EXCEPT !.at = at] \in Workers
       /\ \A timer \in Timers : [worker EXCEPT !.timer = timer] \in Workers
  /\ NotDue \in Timers
BY DEF Workers, Stages, Timers

LEMMA EndPermitValues ==
  ASSUME NEW p, EndPermit(p)
  PROVE  /\ worker' \in Workers /\ worker'.at \in {"loop", "run"} /\ worker'.permit = NoCycle
         /\ worker'.at = "loop" => permits \ {p} = {}
<1>1. "loop" \in Stages /\ "run" \in Stages
  BY DEF Stages
<1>2. QED
  BY <1>1, WorkerValues DEF EndPermit

\* Everything a claim does.
LEMMA ClaimStep ==
  ASSUME WakeTypeOK, ClaimDueWakes
  PROVE  \E claimed \in SUBSET ClaimableWakes :
           /\ memory' = [w \in QuotaWindows |->
                           IF w \in claimed THEN Claim(memory[w]) ELSE memory[w]]
           /\ stored' = memory'
           /\ permits' = {[window |-> w, attempt |-> memory[w].attempts + 1] : w \in claimed}
           /\ worker' \in Workers /\ worker'.at \in {"loop", "run"}
           /\ worker'.at = "loop" => claimed = {}
           /\ UNCHANGED <<enabled, accounts, wakeNotified, command, used, sent, confirmed,
                          reverted, mishaps, commands>>
<1> DEFINE due == {w \in ClaimableWakes : memory[w].due = 0}
           size == Min({BatchSize, Cardinality(due)})
<1>1. PICK claimed \in kSubset(size, due) :
        /\ memory' = [w \in QuotaWindows |->
                        IF w \in claimed THEN Claim(memory[w]) ELSE memory[w]]
        /\ stored' = memory'
        /\ permits' = {[window |-> w, attempt |-> memory[w].attempts + 1] : w \in claimed}
  BY DEF ClaimDueWakes, UpdateWake
<1>2. claimed \in SUBSET due
  BY DEF kSubset
<1>3. worker' = [at |-> IF due = {} THEN "loop" ELSE "run", timer |-> NotDue, permit |-> NoCycle]
  BY DEF ClaimDueWakes
<1>4. worker' \in Workers /\ worker'.at \in {"loop", "run"} /\ (worker'.at = "loop" => due = {})
  <2>1. "loop" \in Stages /\ "run" \in Stages
    BY DEF Stages
  <2>2. QED
    BY <1>3, <2>1, WorkerValues
<1>5. claimed \in SUBSET ClaimableWakes
  BY <1>2
<1>6. QED
  BY <1>1, <1>2, <1>4, <1>5 DEF ClaimDueWakes

\* A permit is outstanding until its request is sent.  The batch of a worker is
\* empty until its next claim, and holds one permit per window.
WorkerShape ==
  /\ worker.at \in {"send", "sent"} => worker.permit \in Permits
  /\ worker.at \notin {"run", "send", "sent"} => permits = {}
  /\ \A p, q \in permits : p.window = q.window => p = q
  /\ worker.at \in {"send", "sent"} => \A p \in permits : p.window # worker.permit.window

LEMMA WakeTypeStep ==
  WakeTypeOK /\ WorkerShape /\ [WakeNext]_wakeVars => WakeTypeOK'
<1> SUFFICES ASSUME WakeTypeOK, WorkerShape, [WakeNext]_wakeVars PROVE WakeValues'
  BY DEF WakeTypeOK, WakeValues, Workers, Stages, Timers
<1> USE WakeAssumption
<1> HIDE DEF Workers, Stages, Timers
<1>a. WakeValues
  BY WakeTypeNames
<1>c. "loop" \in Stages /\ "armed" \in Stages /\ "wait" \in Stages /\ "claim" \in Stages
      /\ "run" \in Stages /\ "send" \in Stages /\ "sent" \in Stages
  BY DEF Stages
<1>1. ASSUME NEW w \in QuotaWindows, EvaluateWake(w) PROVE WakeValues'
  BY <1>a, <1>1, EvaluateKeeps DEF EvaluateWake, NotifyWake, WakeValues
<1>2. ASSUME NEW a \in WakeAccounts, NaturalUse(a) PROVE WakeValues'
  <2>1. memory' \in Cycles /\ stored' \in Cycles
    BY <1>2, NaturalUseKeeps
  <2>2. used' \subseteq QuotaWindows /\ wakeNotified' \in BOOLEAN
    BY <1>a, <1>2 DEF NaturalUse, WindowsOf, WakeValues
  <2>3. QED
    BY <1>a, <1>2, <2>1, <2>2 DEF NaturalUse, WakeValues
<1>3. ASSUME NEW a \in WakeAccounts, BeginDelete(a) PROVE WakeValues'
  BY <1>a, <1>3, CommandValues DEF BeginDelete, WakeValues
<1>4. CASE ReadNextDue
  <2>1. worker' \in Workers
    BY <1>a, <1>c, <1>4, NextDueIsLeast, WorkerValues DEF ReadNextDue, WakeValues
  <2>2. QED
    BY <1>a, <1>4, <2>1 DEF ReadNextDue, WakeValues
<1>5. CASE BeginWait
  BY <1>a, <1>c, <1>5, WorkerValues DEF BeginWait, AtWorker, WakeValues
<1>6. CASE EndWait
  BY <1>a, <1>c, <1>6, WorkerValues DEF EndWait, AtWorker, WakeValues
<1>7. CASE ClaimDueWakes
  <2>1. PICK claimed \in SUBSET ClaimableWakes :
           /\ memory' = [w \in QuotaWindows |->
                           IF w \in claimed THEN Claim(memory[w]) ELSE memory[w]]
           /\ stored' = memory'
           /\ permits' = {[window |-> w, attempt |-> memory[w].attempts + 1] : w \in claimed}
           /\ worker' \in Workers
           /\ UNCHANGED <<enabled, accounts, wakeNotified, command, used, sent, confirmed,
                          reverted, mishaps, commands>>
    BY <1>7, ClaimStep
  <2>2. memory' \in Cycles /\ permits' \subseteq Permits
    BY <1>a, <2>1, ClaimedValues DEF WakeValues
  <2>3. QED
    BY <1>a, <2>1, <2>2 DEF WakeValues
<1>8. ASSUME NEW p \in permits, CheckPermit(p) PROVE WakeValues'
  <2>1. p \in Permits
    BY <1>a DEF WakeValues
  <2>2. worker' \in Workers
    BY <1>c, <1>8, <2>1, WorkerValues, EndPermitValues DEF CheckPermit
  <2>3. QED
    BY <1>a, <1>8, <2>2 DEF CheckPermit, WakeValues
<1>9. CASE SendWake
  <2>1. sent' \in [QuotaWindows -> Nat]
    <3>1. worker.permit.window \in QuotaWindows
      BY <1>9 DEF SendWake, WorkerShape, Permits
    <3>2. QED
      BY <1>a, <1>9, <3>1 DEF SendWake, WakeValues
  <2>2. worker' \in Workers
    BY <1>a, <1>c, <1>9, WorkerValues DEF SendWake, WakeValues
  <2>3. QED
    BY <1>a, <1>9, <2>1, <2>2 DEF SendWake, WakeValues
<1>10. ASSUME NEW advanced \in BOOLEAN, CompleteWake(advanced) PROVE WakeValues'
  <2>1. worker' \in Workers
    BY <1>10, EndPermitValues DEF CompleteWake
  <2>2. worker.permit \in Permits
    BY <1>10 DEF CompleteWake, WorkerShape
  <2>3. CASE IsPermitActive(worker.permit)
    <3>1. /\ memory' = [memory EXCEPT ![worker.permit.window] =
                          CompletedWake(memory[worker.permit.window], advanced)]
          /\ stored' = memory'
          /\ confirmed' = IF advanced THEN confirmed \cup {worker.permit.window} ELSE confirmed
          /\ wakeNotified' = TRUE
      BY <1>10, <2>3 DEF CompleteWake, UpdateWake, NotifyWake
    <3>2. memory' \in Cycles
      BY <2>2, <2>3, <3>1, CompleteKeeps
    <3>3. confirmed' \subseteq QuotaWindows
      BY <1>a, <2>2, <3>1 DEF Permits, WakeValues
    <3>4. QED
      BY <1>a, <1>10, <2>1, <3>1, <3>2, <3>3 DEF CompleteWake, WakeValues
  <2>4. CASE ~IsPermitActive(worker.permit)
    BY <1>a, <1>10, <2>1, <2>4 DEF CompleteWake, WakeValues
  <2>5. QED
    BY <2>3, <2>4
<1>11. CASE FailToComplete
  <2>1. worker' \in Workers
    BY <1>11, EndPermitValues DEF FailToComplete
  <2>2. QED
    BY <1>a, <1>11, <2>1 DEF FailToComplete, WakeValues
<1>12. ASSUME NEW enable \in BOOLEAN, NEW cancels \in BOOLEAN, BeginEdit(enable, cancels)
       PROVE  WakeValues'
  <2>1. memory' \in Cycles /\ stored' \in Cycles /\ wakeNotified' \in BOOLEAN
    BY <1>a, <1>12, CancelKeeps DEF BeginEdit, UpdateWake, WakeValues
  <2>2. command' \in Commands /\ commands' \in 0..MaxCommands
    BY <1>a, <1>12, CommandValues DEF BeginEdit, WakeValues
  <2>3. QED
    BY <1>a, <1>12, <2>1, <2>2 DEF BeginEdit, WakeValues
<1>13. CASE ReadRecords
  BY <1>a, <1>13, CommandCases, CommandValues DEF ReadRecords, WakeValues
<1>14. CASE WriteRecords
  BY <1>a, <1>14, CommandCases, CommandValues DEF WriteRecords, Forgets, WakeValues
<1>15. CASE CancelForDelete
  <2>1. memory' \in Cycles /\ stored' \in Cycles /\ wakeNotified' \in BOOLEAN
    BY <1>a, <1>15, CancelKeeps DEF CancelForDelete, UpdateWake, WakeValues
  <2>2. command' = [kind |-> "delete", at |-> "commit", account |-> command.account,
                    snapshot |-> command.snapshot, records |-> command.records]
    BY <1>a, <1>15, CommandCases DEF CancelForDelete, WakeValues
  <2>3. command' \in Commands
    BY <1>a, <1>15, <2>2, CommandCases, CommandValues DEF CancelForDelete, WakeValues
  <2>4. QED
    BY <1>a, <1>15, <2>1, <2>3 DEF CancelForDelete, WakeValues
<1>16. CASE CommitDelete
  BY <1>a, <1>16, CommandCases, CommandValues DEF CommitDelete, Forgets, WakeValues
<1>17. CASE RollbackDelete
  BY <1>a, <1>17, CommandCases, CommandValues
  DEF RollbackDelete, RestoreWake, UpdateWake, NotifyWake, Forgets, WakeValues
<1>18. CASE CrashWake
  <2>1. memory' \in Cycles
    BY <1>a, <1>18, FromStateKeeps DEF CrashWake, WakeValues
  <2>2. worker' \in Workers
    BY <1>c, <1>18, WorkerValues DEF CrashWake
  <2>3. command' \in Commands /\ permits' \subseteq Permits /\ wakeNotified' \in BOOLEAN
    BY <1>18, CommandValues DEF CrashWake
  <2>4. mishaps' \in 0..MaxMishaps
    BY <1>a, <1>18 DEF CrashWake, WakeValues
  <2>5. QED
    BY <1>a, <1>18, <2>1, <2>2, <2>3, <2>4 DEF CrashWake, WakeValues
<1>19. CASE PassTime
  <2>1. memory' \in Cycles /\ stored' \in Cycles
    BY <1>a, <1>19, AgedKeeps DEF PassTime, WakeValues
  <2>2. worker' \in Workers
    <3>1. worker.timer \in 0..Jitter \cup {NotDue}
      BY <1>a, WorkerValues DEF Timers, WakeValues
    <3>2. Shorter(worker.timer) \in Timers
      BY <3>1, ShorterValues DEF Timers
    <3>3. QED
      BY <1>a, <1>19, <3>2, WorkerValues DEF PassTime, WakeValues
  <2>3. command' \in Commands
    <3>1. CASE command.kind = "none"
      BY <1>a, <1>19, <3>1 DEF PassTime, WakeValues
    <3>2. CASE command.kind = "edit"
      <4>1. command' = [kind |-> "edit", at |-> command.at, enable |-> command.enable,
                        records |-> Aged(command.records)]
        BY <1>a, <1>19, <3>2, CommandCases DEF PassTime, WakeValues
      <4>2. QED
        BY <1>a, <3>2, <4>1, CommandCases, CommandValues, AgedKeeps DEF WakeValues
    <3>3. CASE command.kind = "delete"
      BY <1>a, <1>19, <3>3, CommandCases, CommandValues, AgedKeeps DEF PassTime, WakeValues
    <3>4. QED
      BY <1>a, <3>1, <3>2, <3>3, CommandCases DEF WakeValues
  <2>4. QED
    BY <1>a, <1>19, <2>1, <2>2, <2>3 DEF PassTime, WakeValues
<1>20. CASE UNCHANGED wakeVars
  BY <1>a, <1>20 DEF wakeVars, WakeValues
<1>21. QED
  BY <1>1, <1>2, <1>3, <1>4, <1>5, <1>6, <1>7, <1>8, <1>9, <1>10, <1>11, <1>12, <1>13, <1>14,
     <1>15, <1>16, <1>17, <1>18, <1>19, <1>20
  DEF WakeNext, WorkerMoves

-----------------------------------------------------------------------------
(* The shape of the worker *)

LEMMA ShapeStep ==
  WakeTypeOK /\ WorkerShape /\ [WakeNext]_wakeVars => WorkerShape'
<1> SUFFICES ASSUME WakeTypeOK, WorkerShape, [WakeNext]_wakeVars PROVE WorkerShape'
  OBVIOUS
<1>a. worker \in Workers /\ permits \subseteq Permits
  BY WakeTypeNames DEF WakeValues
<1>b. ASSUME UNCHANGED <<worker, permits>> PROVE WorkerShape'
  BY <1>b DEF WorkerShape
<1>1. CASE ReadNextDue
  BY <1>1 DEF ReadNextDue, WorkerShape
<1>2. CASE BeginWait
  BY <1>a, <1>2 DEF BeginWait, AtWorker, WorkerShape, Workers
<1>3. CASE EndWait
  BY <1>a, <1>3 DEF EndWait, AtWorker, WorkerShape, Workers
<1>4. CASE ClaimDueWakes
  <2>1. PICK claimed \in SUBSET ClaimableWakes :
           /\ permits' = {[window |-> w, attempt |-> memory[w].attempts + 1] : w \in claimed}
           /\ worker'.at \in {"loop", "run"} /\ (worker'.at = "loop" => claimed = {})
    BY <1>4, ClaimStep
  <2>2. ASSUME NEW p \in permits', NEW q \in permits', p.window = q.window PROVE p = q
    BY <2>1, <2>2
  <2>3. QED
    BY <2>1, <2>2 DEF WorkerShape
<1>5. ASSUME NEW p \in permits, CheckPermit(p) PROVE WorkerShape'
  <2>1. permits' = permits \ {p} /\ worker.at = "run" /\ p \in Permits
    BY <1>a, <1>5 DEF CheckPermit
  <2>2. CASE IsPermitActive(p)
    <3>1. worker' = [at |-> "send", timer |-> NotDue, permit |-> p]
      BY <1>5, <2>2 DEF CheckPermit
    <3>2. QED
      BY <2>1, <3>1 DEF WorkerShape
  <2>3. CASE ~IsPermitActive(p)
    BY <1>5, <2>1, <2>3, EndPermitValues DEF CheckPermit, WorkerShape
  <2>4. QED
    BY <2>2, <2>3
<1>6. CASE SendWake
  BY <1>a, <1>6 DEF SendWake, WorkerShape, Workers
<1>7. ASSUME EndPermit(worker.permit), worker.at = "sent", UNCHANGED permits PROVE WorkerShape'
  <2>1. permits \ {worker.permit} = permits
    BY <1>7 DEF WorkerShape
  <2>2. QED
    BY <1>7, <2>1, EndPermitValues DEF WorkerShape
<1>8. CASE CrashWake
  BY <1>8 DEF CrashWake, WorkerShape
<1>9. CASE PassTime
  BY <1>a, <1>9 DEF PassTime, WorkerShape, Workers
<1>10. QED
  BY <1>b, <1>1, <1>2, <1>3, <1>4, <1>5, <1>6, <1>7, <1>8, <1>9
  DEF WakeNext, WorkerMoves, wakeVars, EvaluateWake, NaturalUse, BeginDelete, CompleteWake,
      FailToComplete, BeginEdit, ReadRecords, WriteRecords, CancelForDelete, CommitDelete,
      RollbackDelete

-----------------------------------------------------------------------------
(* The budget of a window, and what is settled *)

\* The permits whose request may still be sent.
Outstanding == permits \cup (IF worker.at = "send" THEN {worker.permit} ELSE {})

\* The cycles account for the requests made and for those of the permits out, and
\* are done with the windows gone or shown to count down.
CoversBy(state, requests, gone, shown, out) ==
  \A w \in QuotaWindows :
    /\ requests[w] <= Attempts(state[w])
    /\ w \in gone => ~Unfinished(state[w])
    /\ w \in shown => HasStatus(state[w], "Completed") /\ Attempts(state[w]) > 0
    /\ \A p \in out : p.window = w => requests[w] < p.attempt /\ p.attempt <= Attempts(state[w])

Ledger ==
  ~reverted => /\ CoversBy(memory, sent, used, confirmed, Outstanding)
               /\ CoversBy(stored, sent, used, confirmed, Outstanding)

LEMMA KeepsCovers ==
  ASSUME NEW old \in Cycles, NEW new \in Cycles, NEW gone, NEW more,
         \A w \in (more \ gone) \cap QuotaWindows : ~Unfinished(new[w]), Keeps(old, new, gone),
         NEW requests \in [QuotaWindows -> Nat], NEW shown, NEW out \in SUBSET Permits,
         NEW fewer \in SUBSET out, CoversBy(old, requests, gone, shown, out)
  PROVE  CoversBy(new, requests, more, shown, fewer)
<1> SUFFICES ASSUME NEW w \in QuotaWindows
             PROVE  /\ requests[w] <= Attempts(new[w])
                    /\ w \in more => ~Unfinished(new[w])
                    /\ w \in shown => HasStatus(new[w], "Completed") /\ Attempts(new[w]) > 0
                    /\ \A p \in fewer : p.window = w =>
                         requests[w] < p.attempt /\ p.attempt <= Attempts(new[w])
  BY DEF CoversBy
<1>1. /\ requests[w] <= Attempts(old[w])
      /\ w \in gone => ~Unfinished(old[w])
      /\ w \in shown => HasStatus(old[w], "Completed") /\ Attempts(old[w]) > 0
      /\ \A p \in out : p.window = w =>
           requests[w] < p.attempt /\ p.attempt <= Attempts(old[w])
  BY DEF CoversBy
<1>2. /\ Attempts(old[w]) <= Attempts(new[w])
      /\ HasStatus(old[w], "Completed") => HasStatus(new[w], "Completed")
      /\ w \in gone /\ ~Unfinished(old[w]) => ~Unfinished(new[w])
  BY DEF Keeps
<1>3. Attempts(old[w]) \in Nat /\ Attempts(new[w]) \in Nat /\ requests[w] \in Nat
  BY CycleCases, WakeAssumption
<1>4. requests[w] <= Attempts(new[w]) /\ (Attempts(old[w]) > 0 => Attempts(new[w]) > 0)
  BY <1>1, <1>2, <1>3
<1>5. w \in more => ~Unfinished(new[w])
  BY <1>1, <1>2
<1>6. ASSUME NEW p \in fewer, p.window = w
      PROVE  requests[w] < p.attempt /\ p.attempt <= Attempts(new[w])
  <2>1. p.attempt \in Nat
    BY WakeAssumption DEF Permits
  <2>2. QED
    BY <1>1, <1>2, <1>3, <1>6, <2>1
<1>7. w \in shown => HasStatus(new[w], "Completed") /\ Attempts(new[w]) > 0
  BY <1>1, <1>2, <1>4
<1>8. QED
  BY <1>4, <1>5, <1>6, <1>7

\* Older records that forget nothing cover the same.
LEMMA WrittenCovers ==
  ASSUME NEW old \in Cycles, NEW new \in Cycles, ~Forgets(old, new),
         sent \in [QuotaWindows -> Nat], NEW out \in SUBSET Permits,
         CoversBy(old, sent, used, confirmed, out)
  PROVE  CoversBy(new, sent, used, confirmed, out)
<1> SUFFICES ASSUME NEW w \in QuotaWindows
             PROVE  /\ sent[w] <= Attempts(new[w])
                    /\ w \in used => ~Unfinished(new[w])
                    /\ w \in confirmed => HasStatus(new[w], "Completed") /\ Attempts(new[w]) > 0
                    /\ \A p \in out : p.window = w =>
                         sent[w] < p.attempt /\ p.attempt <= Attempts(new[w])
  BY DEF CoversBy
<1>1. /\ sent[w] <= Attempts(old[w])
      /\ w \in confirmed => HasStatus(old[w], "Completed") /\ Attempts(old[w]) > 0
      /\ \A p \in out : p.window = w => sent[w] < p.attempt /\ p.attempt <= Attempts(old[w])
  BY DEF CoversBy
<1>2. Attempts(old[w]) \in Nat /\ Attempts(new[w]) \in Nat /\ sent[w] \in Nat
  BY CycleCases, WakeAssumption
<1>3. /\ old[w] # NoCycle /\ old[w].attempts > 0 =>
           new[w] # NoCycle /\ ~(new[w].attempts < old[w].attempts)
      /\ w \in used \cup confirmed => ~Unfinished(new[w])
  BY DEF Forgets
<1>4. Attempts(old[w]) <= Attempts(new[w])
  BY <1>2, <1>3 DEF Attempts
<1>5. w \in confirmed => HasStatus(new[w], "Completed") /\ Attempts(new[w]) > 0
  <2>1. SUFFICES ASSUME w \in confirmed
                 PROVE  HasStatus(new[w], "Completed") /\ Attempts(new[w]) > 0
    OBVIOUS
  <2>2. Attempts(new[w]) > 0 /\ ~Unfinished(new[w])
    BY <1>1, <1>2, <1>3, <1>4, <2>1
  <2>3. QED
    BY <2>2 DEF Attempts, HasStatus, Unfinished
<1>6. ASSUME NEW p \in out, p.window = w
      PROVE  sent[w] < p.attempt /\ p.attempt <= Attempts(new[w])
  <2>1. p.attempt \in Nat
    BY WakeAssumption DEF Permits
  <2>2. QED
    BY <1>1, <1>2, <1>4, <1>6, <2>1
<1>7. sent[w] <= Attempts(new[w])
  BY <1>1, <1>2, <1>4
<1>8. QED
  BY <1>3, <1>5, <1>6, <1>7

\* A step that leaves the records alone, and hands out no permit.
LEMMA QuietCovers ==
  ASSUME WakeTypeOK, WorkerShape, Ledger, Outstanding' \subseteq Outstanding,
         UNCHANGED <<memory, stored, sent, used, confirmed, reverted>>
  PROVE  Ledger'
<1>1. memory \in Cycles /\ stored \in Cycles /\ sent \in [QuotaWindows -> Nat]
  BY WakeTypeNames DEF WakeValues
<1>2. Outstanding \in SUBSET Permits
  BY WakeTypeNames DEF WakeValues, Outstanding, WorkerShape
<1>3. Keeps(memory, memory, used) /\ Keeps(stored, stored, used)
  BY <1>1, CycleCases, WakeAssumption DEF Keeps
<1>4. ASSUME ~reverted
      PROVE  /\ CoversBy(memory, sent, used, confirmed, Outstanding')
             /\ CoversBy(stored, sent, used, confirmed, Outstanding')
  <2>1. Outstanding' \in SUBSET Outstanding
    OBVIOUS
  <2>2. QED
    BY <1>1, <1>2, <1>3, <1>4, <2>1, KeepsCovers DEF Ledger
<1>5. QED
  BY <1>4 DEF Ledger

\* A write of new cycles, made from those in memory.
LEMMA UpdateCovers ==
  ASSUME WakeTypeOK, WorkerShape, Ledger, WakeTypeOK', Outstanding' \subseteq Outstanding,
         Keeps(memory, memory', used), stored' = memory',
         \A w \in (used' \ used) \cap QuotaWindows : ~Unfinished(memory'[w]),
         UNCHANGED <<sent, confirmed, reverted>>
  PROVE  Ledger'
<1>1. memory \in Cycles /\ sent \in [QuotaWindows -> Nat] /\ memory' \in Cycles
  BY DEF WakeTypeOK
<1>2. Outstanding \in SUBSET Permits /\ Outstanding' \in SUBSET Outstanding
  BY WakeTypeNames DEF WakeValues, Outstanding, WorkerShape
<1>3. ASSUME ~reverted PROVE CoversBy(memory', sent, used', confirmed, Outstanding')
  <2>1. CoversBy(memory, sent, used, confirmed, Outstanding)
    BY <1>3 DEF Ledger
  <2>2. QED
    BY <1>1, <1>2, <2>1, KeepsCovers
<1>4. QED
  BY <1>3 DEF Ledger

\* A claim hands out permits its cycles account for.
LEMMA ClaimCovers ==
  ASSUME WakeTypeOK, WorkerShape, Ledger, WakeTypeOK', ClaimDueWakes
  PROVE  Ledger'
<1>1. PICK claimed \in SUBSET ClaimableWakes :
        /\ memory' = [w \in QuotaWindows |->
                        IF w \in claimed THEN Claim(memory[w]) ELSE memory[w]]
        /\ stored' = memory'
        /\ permits' = {[window |-> w, attempt |-> memory[w].attempts + 1] : w \in claimed}
        /\ worker'.at \in {"loop", "run"}
        /\ UNCHANGED <<used, sent, confirmed, reverted>>
  BY ClaimStep
<1>2. SUFFICES ASSUME ~reverted
               PROVE  CoversBy(memory', sent, used, confirmed, permits')
  <2>1. Outstanding' = permits'
    BY <1>1 DEF Outstanding
  <2>2. QED
    BY <1>1, <2>1 DEF Ledger
<1>3. /\ memory \in Cycles /\ sent \in [QuotaWindows -> Nat] /\ memory' \in Cycles
      /\ CoversBy(memory, sent, used, confirmed, Outstanding)
  BY <1>2 DEF WakeTypeOK, Ledger
<1>4. ASSUME NEW w \in claimed
      PROVE  /\ w \in QuotaWindows /\ memory'[w] = Claim(memory[w])
             /\ w \notin used /\ w \notin confirmed
             /\ sent[w] \in Nat /\ memory[w].attempts \in Nat
             /\ Attempts(memory[w]) = memory[w].attempts
             /\ Attempts(memory'[w]) = memory[w].attempts + 1
  <2>1. w \in QuotaWindows /\ memory'[w] = Claim(memory[w])
    BY <1>1 DEF ClaimableWakes
  <2>2. Unfinished(memory[w]) /\ ~HasStatus(memory[w], "Completed")
    BY <1>3, ClaimValues DEF Unfinished, HasStatus
  <2>3. w \notin used /\ w \notin confirmed
    BY <1>3, <2>1, <2>2 DEF CoversBy
  <2>4. QED
    BY <1>3, <2>1, <2>3, ClaimValues, WakeAssumption DEF Attempts
<1>5. Keeps(memory, memory', used)
  <2>1. Keeps(memory, memory', used \ claimed)
    BY <1>1, <1>3, ClaimedValues
  <2>2. used \ claimed = used
    BY <1>4
  <2>3. QED
    BY <2>1, <2>2
<1>6. CoversBy(memory', sent, used, confirmed, {})
  <2>1. Outstanding \in SUBSET Permits /\ {} \in SUBSET Outstanding
    BY WakeTypeNames DEF WakeValues, Outstanding, WorkerShape
  <2>2. QED
    BY <1>3, <1>5, <2>1, KeepsCovers
<1>7. ASSUME NEW p \in permits'
      PROVE  sent[p.window] < p.attempt /\ p.attempt <= Attempts(memory'[p.window])
  <2>1. PICK w \in claimed : p = [window |-> w, attempt |-> memory[w].attempts + 1]
    BY <1>1
  <2>2. sent[w] <= Attempts(memory[w])
    BY <1>3, <1>4 DEF CoversBy
  <2>3. QED
    BY <1>4, <2>1, <2>2
<1>8. QED
  BY <1>6, <1>7 DEF CoversBy

\* A request uses up its permit.
LEMMA SendCovers ==
  ASSUME WakeTypeOK, WorkerShape, Ledger, SendWake
  PROVE  Ledger'
<1> DEFINE p == worker.permit
<1>1. /\ worker.at = "send" /\ p \in Permits /\ p.window \in QuotaWindows /\ p.attempt \in Nat
      /\ Outstanding = permits \cup {p} /\ permits \subseteq Permits
  BY WakeAssumption DEF SendWake, WorkerShape, Permits, Outstanding, WakeTypeOK
<1>2. Outstanding' = permits /\ \A q \in permits : q.window # p.window
  BY DEF SendWake, WorkerShape, Outstanding, WakeTypeOK
<1>3. sent' = [sent EXCEPT ![p.window] = sent[p.window] + 1] /\ sent \in [QuotaWindows -> Nat]
  BY DEF SendWake, WakeTypeOK
<1> HIDE DEF p
<1>4. ASSUME NEW state \in Cycles, CoversBy(state, sent, used, confirmed, Outstanding)
      PROVE  CoversBy(state, sent', used, confirmed, permits)
  <2> SUFFICES ASSUME NEW w \in QuotaWindows
               PROVE  /\ sent'[w] <= Attempts(state[w])
                      /\ w \in used => ~Unfinished(state[w])
                      /\ w \in confirmed =>
                           HasStatus(state[w], "Completed") /\ Attempts(state[w]) > 0
                      /\ \A q \in permits : q.window = w =>
                           sent'[w] < q.attempt /\ q.attempt <= Attempts(state[w])
    BY DEF CoversBy
  <2>1. /\ sent[w] <= Attempts(state[w])
        /\ w \in used => ~Unfinished(state[w])
        /\ w \in confirmed => HasStatus(state[w], "Completed") /\ Attempts(state[w]) > 0
        /\ \A q \in Outstanding : q.window = w =>
             sent[w] < q.attempt /\ q.attempt <= Attempts(state[w])
    BY <1>4 DEF CoversBy
  <2>2. CASE w = p.window
    <3>1. sent[w] < p.attempt /\ p.attempt <= Attempts(state[w]) /\ sent'[w] = sent[w] + 1
      BY <1>1, <1>3, <2>1, <2>2
    <3>2. Attempts(state[w]) \in Nat /\ sent[w] \in Nat
      BY <1>3, CycleCases, WakeAssumption
    <3>3. sent'[w] <= Attempts(state[w])
      BY <1>1, <3>1, <3>2
    <3>4. QED
      BY <1>2, <2>1, <2>2, <3>3
  <2>3. CASE w # p.window
    <3>1. sent'[w] = sent[w]
      BY <1>3, <2>3
    <3>2. QED
      BY <1>1, <2>1, <3>1
  <2>4. QED
    BY <2>2, <2>3
<1>5. QED
  BY <1>2, <1>4 DEF Ledger, SendWake, WakeTypeOK

\* A wake that ends finishes its window or leaves it to the next attempt.
LEMMA CompleteCovers ==
  ASSUME WakeTypeOK, WorkerShape, Ledger, WakeTypeOK', NEW advanced \in BOOLEAN,
         CompleteWake(advanced), IsPermitActive(worker.permit)
  PROVE  Ledger'
<1> DEFINE p == worker.permit
           w == p.window
<1>1. /\ p \in Permits /\ w \in QuotaWindows /\ p.attempt \in Nat \ {0} /\ p.attempt \in Nat
      /\ Outstanding \in SUBSET Permits
  BY WakeAssumption DEF CompleteWake, WorkerShape, Permits, Outstanding, WakeTypeOK
<1>2. Outstanding' \in SUBSET Outstanding
  BY EndPermitValues DEF CompleteWake, Outstanding
<1>3. /\ memory' = [memory EXCEPT ![w] = CompletedWake(memory[w], advanced)] /\ stored' = memory'
      /\ confirmed' = (IF advanced THEN confirmed \cup {w} ELSE confirmed)
      /\ UNCHANGED <<used, sent, reverted>>
  BY DEF CompleteWake, UpdateWake
<1>4. SUFFICES ASSUME ~reverted PROVE CoversBy(memory', sent, used, confirmed', Outstanding')
  BY <1>3 DEF Ledger
<1>5. /\ memory \in Cycles /\ sent \in [QuotaWindows -> Nat] /\ memory' \in Cycles
      /\ CoversBy(memory, sent, used, confirmed, Outstanding)
  BY <1>4 DEF WakeTypeOK, Ledger
<1>6. /\ Keeps(memory, memory', used \ {w}) /\ Attempts(memory'[w]) = p.attempt
      /\ advanced => HasStatus(memory'[w], "Completed")
  BY <1>1, <1>3, CompleteKeeps
<1>7. w \notin used
  <2>1. Unfinished(memory[w])
    BY DEF IsPermitActive, HasStatus, Unfinished
  <2>2. QED
    BY <1>1, <1>5, <2>1 DEF CoversBy
<1>8. CoversBy(memory', sent, used, confirmed, Outstanding')
  <2>1. used \ {w} = used
    BY <1>7
  <2>2. QED
    BY <1>1, <1>2, <1>5, <1>6, <2>1, KeepsCovers
<1>9. advanced => HasStatus(memory'[w], "Completed") /\ Attempts(memory'[w]) > 0
  BY <1>1, <1>6
<1> HIDE DEF w, p
<1>10. QED
  BY <1>3, <1>8, <1>9 DEF CoversBy

LEMMA LedgerStep ==
  WakeTypeOK /\ WorkerShape /\ Ledger /\ WakeTypeOK' /\ [WakeNext]_wakeVars => Ledger'
<1> SUFFICES ASSUME WakeTypeOK, WorkerShape, Ledger, WakeTypeOK', [WakeNext]_wakeVars
             PROVE  Ledger'
  OBVIOUS
<1>a. /\ memory \in Cycles /\ stored \in Cycles /\ sent \in [QuotaWindows -> Nat]
      /\ command \in Commands /\ worker \in Workers
  BY WakeTypeNames DEF WakeValues
<1>b. Outstanding \in SUBSET Permits
  BY DEF WakeTypeOK, Outstanding, WorkerShape
<1>c. UNCHANGED <<worker, permits>> => Outstanding' \subseteq Outstanding
  BY DEF Outstanding
<1>1. ASSUME NEW w \in QuotaWindows, EvaluateWake(w) PROVE Ledger'
  BY <1>c, <1>1, EvaluateKeeps, UpdateCovers DEF EvaluateWake
<1>2. ASSUME NEW a \in WakeAccounts, NaturalUse(a) PROVE Ledger'
  <2>1. /\ stored' = memory' /\ Keeps(memory, memory', used)
        /\ \A w \in WindowsOf(a) : ~Unfinished(memory'[w])
    BY <1>2, NaturalUseKeeps
  <2>2. used' \ used \subseteq WindowsOf(a)
    BY <1>2 DEF NaturalUse
  <2>3. QED
    BY <1>c, <1>2, <2>1, <2>2, UpdateCovers DEF NaturalUse
<1>3. ASSUME NEW a \in WakeAccounts, BeginDelete(a) PROVE Ledger'
  BY <1>c, <1>3, QuietCovers DEF BeginDelete
<1>4. CASE ReadNextDue
  BY <1>4, QuietCovers DEF ReadNextDue, Outstanding
<1>5. CASE BeginWait \/ EndWait
  <2>1. worker' = [worker EXCEPT !.at = worker'.at] /\ worker'.at # "send"
    BY <1>a, <1>5 DEF BeginWait, EndWait, AtWorker, Workers
  <2>2. Outstanding' \subseteq Outstanding
    BY <1>5, <2>1 DEF Outstanding, BeginWait, EndWait
  <2>3. QED
    BY <1>5, <2>2, QuietCovers DEF BeginWait, EndWait
<1>6. CASE ClaimDueWakes
  BY <1>6, ClaimCovers
<1>7. ASSUME NEW p \in permits, CheckPermit(p) PROVE Ledger'
  <2>1. Outstanding' \subseteq Outstanding
    BY <1>7, EndPermitValues DEF CheckPermit, Outstanding
  <2>2. QED
    BY <1>7, <2>1, QuietCovers DEF CheckPermit
<1>8. CASE SendWake
  BY <1>8, SendCovers
<1>9. ASSUME NEW advanced \in BOOLEAN, CompleteWake(advanced) PROVE Ledger'
  <2>1. CASE IsPermitActive(worker.permit)
    BY <1>9, <2>1, CompleteCovers
  <2>2. CASE ~IsPermitActive(worker.permit)
    <3>1. Outstanding' \subseteq Outstanding
      BY <1>9, EndPermitValues DEF CompleteWake, Outstanding
    <3>2. QED
      BY <1>9, <2>2, <3>1, QuietCovers DEF CompleteWake
  <2>3. QED
    BY <2>1, <2>2
<1>10. CASE FailToComplete
  <2>1. Outstanding' \subseteq Outstanding
    BY <1>10, EndPermitValues DEF FailToComplete, Outstanding
  <2>2. QED
    BY <1>10, <2>1, QuietCovers DEF FailToComplete
<1>11. ASSUME NEW enable \in BOOLEAN, NEW cancels \in BOOLEAN, BeginEdit(enable, cancels)
       PROVE  Ledger'
  <2>1. CASE cancels
    <3>1. memory' = CancelMatching(memory, QuotaWindows) /\ stored' = memory'
      BY <1>11, <2>1 DEF BeginEdit, UpdateWake
    <3>2. Keeps(memory, memory', used)
      BY <1>a, <3>1, CancelKeeps
    <3>3. QED
      BY <1>c, <1>11, <3>1, <3>2, UpdateCovers DEF BeginEdit
  <2>2. CASE ~cancels
    BY <1>c, <1>11, <2>2, QuietCovers DEF BeginEdit
  <2>3. QED
    BY <2>1, <2>2
<1>12. CASE ReadRecords
  BY <1>c, <1>12, QuietCovers DEF ReadRecords
<1>13. ASSUME stored' = command.records, reverted' = (reverted \/ Forgets(stored, command.records)),
              command.kind \in {"edit", "delete"},
              UNCHANGED <<memory, worker, permits, sent, used, confirmed>>
       PROVE  Ledger'
  <2>1. command.records \in Cycles
    BY <1>a, <1>13, CommandCases
  <2>2. ASSUME ~reverted' PROVE CoversBy(stored', sent, used, confirmed, Outstanding)
    <3>1. CoversBy(stored, sent, used, confirmed, Outstanding)
      BY <1>13, <2>2 DEF Ledger
    <3>2. QED
      BY <1>a, <1>b, <1>13, <2>1, <2>2, <3>1, WrittenCovers
  <2>3. QED
    BY <1>13, <2>2 DEF Ledger, Outstanding
<1>14. CASE WriteRecords
  BY <1>13, <1>14 DEF WriteRecords
<1>15. CASE CancelForDelete
  <2>1. memory' = CancelMatching(memory, WindowsOf(command.account)) /\ stored' = memory'
    BY <1>15 DEF CancelForDelete, UpdateWake
  <2>2. Keeps(memory, memory', used)
    BY <1>a, <2>1, CancelKeeps
  <2>3. QED
    BY <1>c, <1>15, <2>1, <2>2, UpdateCovers DEF CancelForDelete
<1>16. CASE CommitDelete
  BY <1>13, <1>16 DEF CommitDelete
<1>17. CASE RollbackDelete
  <2>1. command.snapshot \in Cycles /\ memory' = command.snapshot /\ stored' = memory'
    BY <1>a, <1>17, CommandCases DEF RollbackDelete, RestoreWake, UpdateWake
  <2>2. ASSUME ~reverted' PROVE CoversBy(memory', sent, used, confirmed, Outstanding)
    <3>1. CoversBy(memory, sent, used, confirmed, Outstanding) /\ ~Forgets(memory, command.snapshot)
      BY <1>17, <2>2 DEF Ledger, RollbackDelete
    <3>2. QED
      BY <1>a, <1>b, <2>1, <3>1, WrittenCovers
  <2>3. QED
    BY <1>17, <2>1, <2>2 DEF Ledger, Outstanding, RollbackDelete
<1>18. CASE CrashWake
  <2>1. Outstanding' = {} /\ {} \in SUBSET Outstanding
    BY <1>18 DEF CrashWake, Outstanding
  <2>2. Keeps(stored, memory', used) /\ memory' \in Cycles /\ Keeps(stored, stored, used)
    BY <1>a, <1>18, FromStateKeeps, CycleCases, WakeAssumption DEF CrashWake, Keeps
  <2>3. ASSUME ~reverted
        PROVE  /\ CoversBy(memory', sent, used, confirmed, {})
               /\ CoversBy(stored, sent, used, confirmed, {})
    <3>1. CoversBy(stored, sent, used, confirmed, Outstanding)
      BY <2>3 DEF Ledger
    <3>2. QED
      BY <1>a, <1>b, <2>1, <2>2, <3>1, KeepsCovers
  <2>4. QED
    BY <1>18, <2>1, <2>3 DEF Ledger, CrashWake
<1>19. CASE PassTime
  <2>1. Outstanding' \in SUBSET Outstanding
    BY <1>a, <1>19 DEF PassTime, Outstanding, Workers
  <2>2. /\ memory' \in Cycles /\ stored' \in Cycles
        /\ Keeps(memory, memory', used) /\ Keeps(stored, stored', used)
    BY <1>a, <1>19, AgedKeeps DEF PassTime
  <2>3. ASSUME ~reverted
        PROVE  /\ CoversBy(memory', sent, used, confirmed, Outstanding')
               /\ CoversBy(stored', sent, used, confirmed, Outstanding')
    <3>1. /\ CoversBy(memory, sent, used, confirmed, Outstanding)
          /\ CoversBy(stored, sent, used, confirmed, Outstanding)
      BY <2>3 DEF Ledger
    <3>2. QED
      BY <1>a, <1>b, <2>1, <2>2, <3>1, KeepsCovers
  <2>4. QED
    BY <1>19, <2>3 DEF Ledger, PassTime
<1>20. CASE UNCHANGED wakeVars
  BY <1>c, <1>20, QuietCovers DEF wakeVars
<1>21. QED
  BY <1>1, <1>2, <1>3, <1>4, <1>5, <1>6, <1>7, <1>8, <1>9, <1>10, <1>11, <1>12, <1>14, <1>15,
     <1>16, <1>17, <1>18, <1>19, <1>20
  DEF WakeNext, WorkerMoves

-----------------------------------------------------------------------------
(* The timer of the worker *)

\* No wake that may be claimed is due before the timer of a worker that goes to
\* sleep, unless the worker has been notified.
TimerCovers ==
  worker.at \in {"armed", "wait"} /\ ~wakeNotified =>
    \A w \in ClaimableWakes : worker.timer # NotDue /\ worker.timer <= memory[w].due

LEMMA TimerStep ==
  WakeTypeOK /\ WorkerShape /\ TimerCovers /\ [WakeNext]_wakeVars => TimerCovers'
<1> SUFFICES ASSUME WakeTypeOK, WorkerShape, TimerCovers, [WakeNext]_wakeVars
             PROVE  TimerCovers'
  OBVIOUS
<1>a. memory \in Cycles /\ worker \in Workers /\ command \in Commands
  BY WakeTypeNames DEF WakeValues
<1>b. ASSUME UNCHANGED <<memory, worker>>, wakeNotified => wakeNotified' PROVE TimerCovers'
  BY <1>b DEF TimerCovers, ClaimableWakes
<1>c. ASSUME wakeNotified' = TRUE PROVE TimerCovers'
  BY <1>c DEF TimerCovers
<1>d. ASSUME worker'.at \notin {"armed", "wait"} PROVE TimerCovers'
  BY <1>d DEF TimerCovers
\* A cancellation notifies, or cancels nothing.
<1>e. ASSUME NEW windows \in SUBSET QuotaWindows, memory' = CancelMatching(memory, windows),
             wakeNotified' = (wakeNotified \/ \E w \in windows : Unfinished(memory[w])),
             UNCHANGED worker
      PROVE  TimerCovers'
  <2>1. CASE \E w \in windows : Unfinished(memory[w])
    BY <1>c, <1>e, <2>1
  <2>2. CASE ~\E w \in windows : Unfinished(memory[w])
    <3>1. memory' = memory
      BY <1>a, <1>e, <2>2 DEF CancelMatching, Cycles
    <3>2. QED
      BY <1>b, <1>e, <3>1
  <2>3. QED
    BY <2>1, <2>2
<1>1. ASSUME NEW w \in QuotaWindows, EvaluateWake(w) PROVE TimerCovers'
  BY <1>c, <1>1 DEF EvaluateWake, NotifyWake
<1>2. ASSUME NEW a \in WakeAccounts, NaturalUse(a) PROVE TimerCovers'
  <2> DEFINE finished == {w \in WindowsOf(a) : Unfinished(memory[w])}
  <2>1. CASE finished = {}
    <3>1. memory' = memory
      BY <1>a, <1>2, <2>1 DEF NaturalUse, UpdateWake, Cycles
    <3>2. QED
      BY <1>b, <1>2, <3>1 DEF NaturalUse
  <2>2. CASE finished # {}
    BY <1>c, <1>2, <2>2 DEF NaturalUse
  <2>3. QED
    BY <2>1, <2>2
<1>3. CASE ReadNextDue
  <2>1. worker'.timer = NextDue /\ memory' = memory
    BY <1>3 DEF ReadNextDue
  <2>2. QED
    BY <1>a, <2>1, NextDueIsLeast DEF TimerCovers, ClaimableWakes
<1>4. CASE BeginWait
  <2>1. /\ worker.at = "armed" /\ worker'.timer = worker.timer
        /\ UNCHANGED <<memory, wakeNotified>>
    BY <1>a, <1>4 DEF BeginWait, AtWorker, Workers
  <2>2. QED
    BY <2>1 DEF TimerCovers, ClaimableWakes
<1>5. CASE EndWait
  BY <1>a, <1>d, <1>5 DEF EndWait, AtWorker, Workers
<1>6. CASE ClaimDueWakes
  BY <1>d, <1>6, ClaimStep
<1>7. ASSUME NEW p \in permits, CheckPermit(p) PROVE TimerCovers'
  BY <1>d, <1>7, EndPermitValues DEF CheckPermit
<1>8. CASE SendWake
  BY <1>a, <1>d, <1>8 DEF SendWake, Workers
<1>9. ASSUME NEW advanced \in BOOLEAN, CompleteWake(advanced) PROVE TimerCovers'
  BY <1>d, <1>9, EndPermitValues DEF CompleteWake
<1>10. CASE FailToComplete
  BY <1>d, <1>10, EndPermitValues DEF FailToComplete
<1>11. ASSUME NEW enable \in BOOLEAN, NEW cancels \in BOOLEAN, BeginEdit(enable, cancels)
       PROVE  TimerCovers'
  <2>1. CASE cancels
    BY <1>e, <1>11, <2>1 DEF BeginEdit, UpdateWake
  <2>2. CASE ~cancels
    BY <1>b, <1>11, <2>2 DEF BeginEdit
  <2>3. QED
    BY <2>1, <2>2
<1>12. CASE CancelForDelete
  BY <1>e, <1>12 DEF CancelForDelete, UpdateWake, WindowsOf
<1>13. CASE RollbackDelete
  BY <1>c, <1>13 DEF RollbackDelete, RestoreWake, NotifyWake
<1>14. CASE CrashWake
  BY <1>d, <1>14 DEF CrashWake
\* Time moves the timer and the instants together.
<1>15. CASE PassTime
  <2>1. SUFFICES ASSUME worker'.at \in {"armed", "wait"}, ~wakeNotified', NEW w \in ClaimableWakes'
                 PROVE  worker'.timer # NotDue /\ worker'.timer <= memory'[w].due
    BY DEF TimerCovers
  <2>2. /\ worker'.at = worker.at /\ worker'.timer = Shorter(worker.timer)
        /\ worker.timer \in 0..Jitter \cup {NotDue}
        /\ memory' = Aged(memory) /\ wakeNotified' = wakeNotified
    BY <1>a, <1>15 DEF PassTime, Workers, Timers
  <2>3. w \in QuotaWindows /\ HasStatus(Aged(memory)[w], "Pending")
        /\ Aged(memory)[w].attempts < MaxAttempts
    BY <2>1, <2>2 DEF ClaimableWakes
  <2>4. /\ memory[w] # NoCycle /\ Aged(memory)[w].due = Shorter(memory[w].due)
        /\ Aged(memory)[w].status = memory[w].status
        /\ Aged(memory)[w].attempts = memory[w].attempts /\ memory[w].due \in 0..Jitter
    BY <1>a, <2>3, AgedKeeps DEF HasStatus
  <2>5. w \in ClaimableWakes
    BY <2>3, <2>4 DEF ClaimableWakes, HasStatus
  <2>6. worker.timer # NotDue /\ worker.timer <= memory[w].due
    BY <2>1, <2>2, <2>5 DEF TimerCovers
  <2>7. Shorter(worker.timer) <= Shorter(memory[w].due) /\ Shorter(worker.timer) \in 0..Jitter
    BY <2>2, <2>4, <2>6, ShorterValues
  <2>8. QED
    BY <2>2, <2>4, <2>7, WakeAssumption
<1>16. QED
  BY <1>b, <1>1, <1>2, <1>3, <1>4, <1>5, <1>6, <1>7, <1>8, <1>9, <1>10, <1>11, <1>12, <1>13,
     <1>14, <1>15
  DEF WakeNext, WorkerMoves, wakeVars, BeginDelete, ReadRecords, WriteRecords, CommitDelete

-----------------------------------------------------------------------------
(* Theorems *)

\* The inductive invariant.
WakeIInv == WakeTypeOK /\ WorkerShape /\ Ledger /\ TimerCovers

LEMMA WakeIInvInit ==
  WakeInit => WakeIInv
<1> SUFFICES ASSUME WakeInit PROVE WakeIInv
  OBVIOUS
<1>1. WorkerShape /\ TimerCovers /\ Outstanding = {}
  BY DEF WakeInit, WorkerShape, TimerCovers, Outstanding
<1>2. \A w \in QuotaWindows : sent[w] = 0 /\ memory[w] = NoCycle /\ stored[w] = NoCycle
  BY DEF WakeInit
<1>3. Ledger
  BY <1>1, <1>2 DEF WakeInit, Ledger, CoversBy, Attempts, Unfinished
<1>4. QED
  BY <1>1, <1>3, WakeTypeInit DEF WakeIInv

LEMMA WakeIInvStep ==
  WakeIInv /\ [WakeNext]_wakeVars => WakeIInv'
BY WakeTypeStep, ShapeStep, LedgerStep, TimerStep DEF WakeIInv

LEMMA WakeIInvAlways ==
  WakeSpec => []WakeIInv
BY WakeIInvInit, WakeIInvStep, PTL DEF WakeSpec

\* The cycles, permits and commands keep their types under every order of quota
\* reads, commands, crashes and the steps of the worker (WakeCoordinator).
THEOREM WakeTypeCorrect ==
  WakeSpec => []WakeTypeOK
BY WakeIInvAlways, PTL DEF WakeIInv

\* max_attempts_per_cycle bounds the requests of a window, whatever is cancelled,
\* read again or restarted, as long as no older records are written over newer.
THEOREM WakeBudgetAlways ==
  WakeSpec => []WakeBudget
<1>1. WakeIInv => WakeBudget
  <2> SUFFICES ASSUME WakeIInv, NEW w \in QuotaWindows, sent[w] > MaxAttempts PROVE reverted
    BY DEF WakeBudget
  <2>1. sent[w] \in Nat /\ Attempts(memory[w]) \in 0..MaxAttempts
    BY CycleCases DEF WakeIInv, WakeTypeOK
  <2>2. ~reverted => sent[w] <= Attempts(memory[w])
    BY DEF WakeIInv, Ledger, CoversBy
  <2>3. QED
    BY <2>1, <2>2, WakeAssumption
<1>2. QED
  BY <1>1, WakeIInvAlways, PTL

\* execute_wake_permit begins no request for a window that was used, or whose
\* countdown was seen, since its permit was handed out.
THEOREM SettledIsFinalAlways ==
  WakeSpec => SettledIsFinal
<1>1. WakeIInv /\ [WakeNext]_wakeVars =>
        (worker.at = "run" /\ worker'.at = "send" /\ ~reverted
           => worker'.permit.window \notin used \cup confirmed)
  <2> SUFFICES ASSUME WakeIInv, [WakeNext]_wakeVars, worker.at = "run", worker'.at = "send",
                      ~reverted
               PROVE  worker'.permit.window \notin used \cup confirmed
    OBVIOUS
  <2>1. worker \in Workers /\ permits \subseteq Permits
    BY WakeTypeNames DEF WakeIInv, WakeValues
  <2>2. PICK p \in permits : CheckPermit(p)
    <3>1. worker'.at # worker.at
      OBVIOUS
    <3>2. UNCHANGED worker => FALSE
      BY <3>1
    <3>3. ~(\E advanced \in BOOLEAN : CompleteWake(advanced)) /\ ~FailToComplete
      BY DEF CompleteWake, FailToComplete
    <3>4. ~ReadNextDue /\ ~BeginWait /\ ~EndWait /\ ~ClaimDueWakes /\ ~SendWake /\ ~CrashWake
      BY DEF ReadNextDue, BeginWait, EndWait, ClaimDueWakes, SendWake, CrashWake
    <3>5. ~PassTime
      BY <2>1, <3>1 DEF PassTime, Workers
    <3>6. QED
      BY <3>2, <3>3, <3>4, <3>5
      DEF WakeNext, WorkerMoves, wakeVars, EvaluateWake, NaturalUse, BeginDelete, BeginEdit,
          ReadRecords, WriteRecords, CancelForDelete, CommitDelete, RollbackDelete
  <2>3. IsPermitActive(p) /\ worker'.permit = p
    BY <2>2, EndPermitValues DEF CheckPermit
  <2>4. p.window \in QuotaWindows
    BY <2>1 DEF Permits
  <2>5. Unfinished(memory[p.window]) /\ ~HasStatus(memory[p.window], "Completed")
    BY <2>3 DEF IsPermitActive, HasStatus, Unfinished
  <2>6. CoversBy(memory, sent, used, confirmed, Outstanding)
    BY DEF WakeIInv, Ledger
  <2>7. QED
    BY <2>3, <2>4, <2>5, <2>6 DEF CoversBy
<1>2. QED
  BY <1>1, WakeIInvAlways, PTL DEF WakeSpec, SettledIsFinal

\* wait_for_automatic_wake sleeps no longer than to the earliest wake that may be
\* claimed, or holds a notification, also when commands and reads change the
\* cycles between the read of the instant and the wait.
THEOREM WorkerSeesDueAlways ==
  WakeSpec => []WorkerSeesDue
<1>1. WakeIInv => WorkerSeesDue
  <2> SUFFICES ASSUME WakeIInv, worker.at = "wait", ~wakeNotified, NextDue # NotDue
               PROVE  worker.timer # NotDue /\ worker.timer <= NextDue
    BY DEF WorkerSeesDue
  <2>1. ClaimableWakes # {}
    BY DEF NextDue
  <2>2. PICK w \in ClaimableWakes : NextDue = memory[w].due
    BY <2>1, NextDueIsLeast DEF WakeIInv, WakeTypeOK
  <2>3. QED
    BY <2>2 DEF WakeIInv, TimerCovers
<1>2. QED
  BY <1>1, WakeIInvAlways, PTL
=============================================================================
