------------------------- MODULE TokenLedgerProofs -------------------------
(***************************************************************************)
(* What TokenRotation keeps of the grants, with every window closed: one   *)
(* whose replacement was received, or whose exchange was dropped by a      *)
(* cancelled request or a crash, is not sent again, and a received pair    *)
(* outlives the write that fails to store it.  A grant whose answer was    *)
(* lost to a running exchange may be sent again, see GrantLedger.  The     *)
(* store, its checkpoint, the authority's slot and the requests under way  *)
(* each know a part of what became of a grant; the invariant says how what *)
(* they know fits together.                                                *)
(***************************************************************************)
EXTENDS TokenRotationProofs

-----------------------------------------------------------------------------
(* What is known of a grant *)

\* The code may send it: an answer that was lost counts, see GrantLedger.
Alive(g) == use[g] \in {"fresh", "refused", "lost"}

\* Equal but for the settings, which an edit may change in the store alone.
SameTokens(c, d) == SameGrant(c, d) /\ c.cut = d.cut

\* What the renewal of t will put into the slot is newer than c.
Ahead(t, c) ==
  \/ Kept.tokens.generation + 1 > c.generation
  \/ Kept.tokens.generation + 1 = c.generation /\ task[t].time > c.issued_at

\* Nobody else is in the slot of a request that renews it, so one at most
\* carries a pair past the checkpoint, or has any to bring.
Carries(t) == Current(t) /\ (task[t].pc \in {"rotated", "saved"} \/ Ok(t))
Carried == \E t \in Requests : Carries(t)
Brings(t) == Current(t) /\ (BringsPair(t) \/ Ok(t))
Brought == \E t \in Requests : Brings(t)

\* Nobody can send the slot's token: it has expired for those who wait, and
\* those who have it were told.
Calm(t) == Current(t) =>
  /\ Waits(t) => ~Usable(Kept.tokens, task[t].time)
  /\ task[t].pc \in {"prepared", "sent"} => t \in superseded
Quiet == ~Usable(Kept.tokens, now) /\ \A t \in Requests : Calm(t)

-----------------------------------------------------------------------------
(* The requests, the checkpoint, the sign-in *)

\* What the exchange of t has established at each stage.
ExchangeOf(t) ==
  LET c == task[t].credential
      o == task[t].other
  IN
  /\ task[t].pc \in LoadStages \ {"saved"} =>
       primary # None /\ SameTokens(primary, c) /\ (edits = 0 => primary = c)
  /\ task[t].pc \in {"recovered", "decide", "send"} => Alive(c.grant)
  /\ At(t, "recovered") => rotation # None
  /\ At(t, "decide") => rotation = None
  /\ task[t].pc \in {"send", "wait", "answered", "rotated"} =>
       /\ rotation # None /\ SameTokens(rotation.before, c)
       /\ ~Usable(c, task[t].time) /\ Ahead(t, c)
  /\ task[t].pc \in {"send", "wait", "answered"} => rotation.after = None
  /\ At(t, "wait") => use[c.grant] = "flying"
  /\ At(t, "answered") => \/ task[t].answer = "ok" /\ use[c.grant] = "spent"
                          \/ task[t].answer \in {"refused", "transient"} /\ Alive(c.grant)
  /\ At(t, "rotated") => use[c.grant] = "spent" /\ rotation.after = o
  /\ (At(t, "answered") /\ task[t].answer = "ok") \/ At(t, "rotated") =>
       /\ o.generation = c.generation + 1 /\ ~o.cut
       /\ o.grant # Kept.tokens.grant
  /\ BringsPair(t) => use[o.grant] = "fresh"
  /\ At(t, "saved") => primary # None /\ SameTokens(primary, o)
  /\ Ok(t) /\ Current(t) => Alive(c.grant)

\* What the write of t relies on.
WriteOf(t) ==
  /\ task[t].pc \in SaveStages =>
       /\ primary # None /\ SameTokens(primary, task[t].credential)
       /\ Alive(primary.grant) /\ ~Newer(Kept.tokens, primary)
  /\ At(t, "saveMeta") => rotation = None
  /\ task[t].pc \in SaveStages \cup {"save"} /\ Current(t) => Kept.persistence_pending
  /\ task[t].pc \in WriteStages /\ task[t].sequel = "refreshed" /\ Current(t) => Alive(Kept.tokens.grant)

\* A checkpoint with a received pair names the grant it replaced.
CheckpointInv ==
  rotation # None /\ rotation.after # None =>
    /\ use[rotation.after.grant] = "fresh" /\ use[rotation.before.grant] = "spent"
    /\ ~rotation.after.cut
    /\ rotation.after.generation = rotation.before.generation + 1

FlyingInv == \A g \in Grants : use[g] = "flying" =>
  \E t \in Requests : At(t, "wait") /\ task[t].credential.grant = g

IssuedInv ==
  /\ primary # None => use[primary.grant] # "none"
  /\ registered # 0 => use[Kept.tokens.grant] # "none"
  /\ rotation # None => use[rotation.before.grant] # "none"

\* Without a stored credential the slot has one that can be renewed.
NoCredentialInv ==
  primary = None /\ registered # 0 /\ task[User].pc \notin DeleteStages => Alive(Kept.tokens.grant)

Login == task[User].credential

\* A sign-in under way is usable: no time passes until it is registered.
LoginInv ==
  /\ task[User].pc \in {"loginAccount", "register"} =>
       /\ primary # None /\ ~Login.cut /\ Login.issued_at = now
       /\ use[Login.grant] # "none"
       /\ rotation # None /\ rotation.after # None => rotation.after.grant # Login.grant
       /\ \A t \in Requests : BringsPair(t) => task[t].other.grant # Login.grant
       /\ primary = Login => Alive(Login.grant) /\ (rotation # None => rotation.before.grant # Login.grant)
       /\ primary # Login => /\ At(User, "register") /\ registered # 0
                             /\ Newer(Kept.tokens, Login)
  /\ At(User, "loginAccount") /\ task[User].other # None =>
       /\ task[User].other.grant # Login.grant
       /\ task[User].other.generation < Login.generation
       /\ use[task[User].other.grant] \notin {"none", "flying"}
  /\ At(User, "loginAccount") /\ task[User].other = None /\ registered # 0 => Alive(Kept.tokens.grant)
  /\ edits = 0 => task[User].pc \notin {"edit", "edited"}

-----------------------------------------------------------------------------
(* The store *)

\* The checkpoint has the pair that replaced the grant of p.
Recovers(p) == rotation # None /\ SameGrant(p, rotation.before) /\ rotation.after # None

SigningIn(p) == task[User].pc \in {"loginAccount", "register"} /\ p = Login

\* SpentGrantIsFenced, of p.
Fenced(p) == use[p.grant] \in {"spent", "unknown"} => rotation # None /\ SameGrant(p, rotation.before)

\* A grant was sent because its token had expired.
Expired(p) == Recovers(p) => ~Usable(p, now)

\* Whatever SaveTokens leaves in the store can be renewed.
Mergeable(p) == registered # 0 /\ Kept.persistence_pending =>
  IF Newer(Kept.tokens, p) THEN Alive(Kept.tokens.grant) ELSE Alive(p.grant)

\* A rejection writes the slot's tokens anew.  If their grant is gone, nobody
\* has the token, the new pair is on its way, the store has the same grant
\* behind its checkpoint, or a newer sign-in.
Superseded(p) == registered # 0 /\ ~Alive(Kept.tokens.grant) =>
  \/ Quiet
  \/ Carried
  \/ p.grant = Kept.tokens.grant /\ ~Recovers(p)
  \/ SigningIn(p) /\ Kept.tokens.generation < p.generation

\* What a renewal brings will be stored, if p is to be replaced.
Replaces(p) == \A t \in Requests : Ok(t) /\ Current(t) => Alive(p.grant) \/ Ahead(t, p)

\* The slot is one renewal behind the store at most.
Lags(p) == registered # 0 =>
  \/ SigningIn(p)
  \/ Kept.tokens.generation + 1 >= p.generation /\ (p.cut => Kept.tokens.generation >= p.generation)
  \/ Carried /\ Kept.tokens.generation + 2 >= p.generation /\ ~p.cut

Written(p) == registered # 0 /\ ~Kept.persistence_pending /\ Kept.tokens.grant = p.grant =>
  Kept.tokens.generation <= p.generation

\* What the slot has when a later load recovers the pair.
Recovered(p) == registered # 0 /\ Recovers(p) =>
  \/ Carried
  \/ Kept.persistence_pending
  \/ /\ Kept.tokens.generation >= p.generation
     /\ Kept.tokens.grant # rotation.after.grant
     /\ Alive(Kept.tokens.grant) \/ Quiet

\* ReceivedPairIsKept, of p.
Retained(p) == crashes = 0 /\ edits = 0 /\ use[p.grant] = "spent" =>
  Brought \/ (registered # 0 /\ Kept.persistence_pending)

StoreOf(p) ==
  /\ Fenced(p) /\ Expired(p) /\ Mergeable(p) /\ Superseded(p) /\ Replaces(p) /\ Lags(p)
  /\ Written(p) /\ Recovered(p) /\ Retained(p)

\* Stored now, or put back when the sign-in fails.
Held(p) == primary = p \/ (At(User, "loginAccount") /\ task[User].other = p)

StoreInv    == \A p \in Credentials : Held(p) => StoreOf(p)
ExchangeInv == \A t \in Requests : ExchangeOf(t)
WriteInv    == \A t \in Requests : WriteOf(t)

Apart == CheckpointInv /\ FlyingInv /\ IssuedInv /\ NoCredentialInv /\ LoginInv
LedgerInv == Apart /\ ExchangeInv /\ WriteInv /\ StoreInv

-----------------------------------------------------------------------------
(* Who is where *)

Sound == Structure /\ BurialInv /\ LedgerInv

\* A credential's fields.
LEMMA Fields ==
  ASSUME NEW c \in Credentials
  PROVE  /\ c.grant \in Grants /\ c.generation \in Nat /\ c.issued_at \in Nat /\ c.cut \in BOOLEAN
         /\ c # None
  BY NoneAssumption DEF Credentials

\* The numbers the invariant compares.
LEMMA Numbers ==
  ASSUME Structure
  PROVE  /\ now \in Nat /\ edits \in Nat /\ crashes \in Nat /\ Lifetime \in Nat /\ Lifetime > 0
         /\ \A t \in Tasks : task[t] \in TaskStates /\ task[t].time \in Nat /\ task[t].time <= now
         /\ registered # 0 => Kept.tokens \in Credentials
         /\ primary # None => primary \in Credentials
         /\ rotation # None => /\ rotation.before \in Credentials
                               /\ rotation.after # None => rotation.after \in Credentials
  BY TokenAssumption DEF Structure, TypeOK, TaskStates, StageInv, StageOf, Kept, Stored, Checkpoints

\* The mutex of the registered slot is held once.
LEMMA Lone ==
  ASSUME Structure, NEW t \in Requests, Current(t), task[t].pc \in Inside
  PROVE  /\ registered # 0 /\ Kept.tokens \in Credentials
         /\ \A u \in Requests \ {t} : Current(u) => task[u].pc \notin Inside
<1>1. task[t].pc # "idle" /\ t \in Tasks
  BY DEF Inside, Tasks
<1>2. registered # 0 /\ Kept.tokens \in Credentials
  BY <1>1, Started
<1>3. QED
  BY <1>2 DEF Structure, MutexInv, Current

\* The process lock is held once.
LEMMA Holder ==
  ASSUME Structure, NEW t \in Tasks, lock = t \/ LockFree
  PROVE  \A u \in Tasks \ {t} : task[u].pc \notin LockStages
  BY TokenAssumption DEF Structure, LockInv, LockFree

\* When nobody is in the registered slot.
LEMMA FreeOfRequests ==
  ASSUME Structure, registered = 0 \/ SlotFree(registered), NEW u \in Requests
  PROVE  /\ Current(u) => task[u].pc \notin Inside
         /\ task[u].pc \notin LoadStages \cup SaveStages
<1>1. u \in Tasks /\ u # User
  BY TokenAssumption DEF Tasks
<1>2. LoadStages \cup SaveStages \subseteq Inside /\ "idle" \notin Inside
  BY DEF LoadStages, SaveStages, Inside
<1>3. Current(u) => task[u].pc \notin Inside
  BY <1>1, <1>2 DEF Structure, StageInv, StageOf, Current, SlotFree
<1>4. task[u].pc \in LoadStages \cup SaveStages => Current(u)
  BY DEF Structure, CurrentInv
<1>5. QED
  BY <1>2, <1>3, <1>4

-----------------------------------------------------------------------------
(* What a step leaves to the requests that do not take it *)

\* The store has the same tokens; other settings are an edit's.
Resettled ==
  \/ primary' = primary
  \/ edits' # 0 /\ primary # None /\ primary' # None /\ SameTokens(primary', primary)

Issues == \A g \in Grants : use[g] # "none" => use'[g] = use[g]

\* The checkpoint and the store stay while u has the process lock, the slot
\* while it has its mutex.
Spares(u) ==
  /\ task'[u] = task[u] /\ registered' = registered
  /\ edits' = 0 => edits = 0
  /\ task[u].pc \in LoadStages \cup SaveStages => rotation' = rotation /\ Resettled
  /\ task[u].pc \in Inside /\ Current(u) =>
       /\ Kept.tokens' = Kept.tokens /\ Kept.persistence_pending' = Kept.persistence_pending
       /\ Issues

\* What a request established, it keeps.
LEMMA SparesExchange ==
  ASSUME Structure, NEW u \in Requests, ExchangeOf(u), Spares(u)
  PROVE  ExchangeOf(u)'
<1> DEFINE c == task[u].credential
           o == task[u].other
<1>1. u \in Tasks /\ StageOf(u)
  BY DEF Structure, StageInv, Tasks
<1>2. task'[u] = task[u] /\ (edits' = 0 => edits = 0)
  BY DEF Spares
<1>3. CASE task[u].pc \in LoadStages
  <2>1. Current(u) /\ task[u].pc \in Inside
    BY <1>3 DEF Structure, CurrentInv, LoadStages, Inside
  <2>2. rotation' = rotation /\ Resettled /\ Kept.tokens' = Kept.tokens /\ Issues
    BY <1>3, <2>1 DEF Spares
  <2>3. c \in Credentials /\ (BringsPair(u) => o \in Credentials)
    BY <1>1, <1>3 DEF StageOf
  <2>4. c.grant \in Grants /\ (BringsPair(u) => o.grant \in Grants)
    BY <2>3, Fields
  <2>5. \A g \in Grants : (Alive(g) => Alive(g)') /\ \A w \in {"flying", "fresh", "spent"} : use[g] = w => use'[g] = w
    BY <2>2 DEF Issues, Alive
  <2>6. \A d : primary # None /\ SameTokens(primary, d) => primary' # None /\ SameTokens(primary', d)
    BY <2>2 DEF Resettled, SameTokens, SameGrant
  <2>7. edits' = 0 => primary' = primary
    BY <2>2 DEF Resettled
  <2>8. ~Ok(u)
    BY <1>3 DEF Ok, At, LoadStages
  <2> HIDE DEF c, o
  <2>9. /\ task[u].pc \in LoadStages \ {"saved"} =>
             primary' # None /\ SameTokens(primary', c) /\ (edits' = 0 => primary' = c)
        /\ At(u, "saved") => primary' # None /\ SameTokens(primary', o)
    BY <1>2, <2>6, <2>7 DEF ExchangeOf, c, o
  <2>10. Ahead(u, c)' = Ahead(u, c)
    BY <1>2, <2>2 DEF Ahead, c
  <2>11. \A d : SameTokens(rotation.before, d)' = SameTokens(rotation.before, d)'
    OBVIOUS
  <2>12. c' = c /\ o' = o
    BY <1>2 DEF c, o
  <2>13. BringsPair(u)' = BringsPair(u) /\ Ok(u)' = Ok(u)
    BY <1>2 DEF BringsPair, Ok, At
  <2>14. QED
    BY <1>2, <2>2, <2>4, <2>5, <2>8, <2>9, <2>10, <2>12, <2>13
       DEF ExchangeOf, At, c, o, Usable, SameTokens, SameGrant
<1>4. CASE task[u].pc \notin LoadStages
  <2>1. task'[u].pc \notin LoadStages /\ Ok(u)' = Ok(u) /\ Current(u)' = Current(u)
    BY <1>2, <1>4 DEF Ok, At, Current, Spares
  <2>2. ~BringsPair(u)'
    BY <2>1 DEF BringsPair, At, LoadStages
  <2>3. Ok(u)' /\ Current(u)' => Alive(task[u].credential.grant)'
    <3>1. SUFFICES ASSUME Ok(u), Current(u) PROVE Alive(task[u].credential.grant)'
      BY <2>1
    <3>2. task[u].pc \in Inside
      BY <3>1 DEF Ok, At, Inside
    <3>3. Issues /\ Alive(c.grant) /\ c \in Credentials
      BY <1>1, <3>1, <3>2 DEF Spares, ExchangeOf, StageOf
    <3>4. c.grant \in Grants
      BY <3>3, Fields
    <3> HIDE DEF c
    <3>5. Alive(c.grant)'
      BY <1>2, <3>3, <3>4 DEF Issues, Alive, c
    <3>6. QED
      BY <3>5 DEF c
  <2>4. QED
    BY <1>2, <2>1, <2>2, <2>3 DEF ExchangeOf, At, LoadStages
<1>5. QED
  BY <1>3, <1>4

\* Nor does its write lose what it relies on.
LEMMA SparesWrite ==
  ASSUME Structure, NEW u \in Requests, WriteOf(u), Spares(u)
  PROVE  WriteOf(u)'
<1> DEFINE c == task[u].credential
<1>1. u \in Tasks /\ StageOf(u)
  BY DEF Structure, StageInv, Tasks
<1>2. task'[u] = task[u] /\ registered' = registered
  BY DEF Spares
<1>3. ASSUME task[u].pc \in SaveStages
      PROVE  /\ primary' # None /\ SameTokens(primary', c) /\ Alive(primary.grant)' /\ ~Newer(Kept.tokens, primary)'
             /\ rotation' = rotation
  <2>1. Current(u) /\ task[u].pc \in Inside
    BY <1>3 DEF Structure, CurrentInv, SaveStages, Inside
  <2>2. rotation' = rotation /\ Resettled /\ Kept.tokens' = Kept.tokens /\ Issues
    BY <1>3, <2>1 DEF Spares
  <2>3. primary # None /\ SameTokens(primary, c) /\ Alive(primary.grant) /\ ~Newer(Kept.tokens, primary)
    BY <1>3 DEF WriteOf
  <2>4. primary' # None /\ SameTokens(primary', primary)
    BY <2>2, <2>3 DEF Resettled, SameTokens, SameGrant
  <2>5. primary.grant \in Grants
    BY <2>3, Numbers, Fields
  <2> HIDE DEF c
  <2>6. Alive(primary.grant)'
    BY <2>2, <2>3, <2>4, <2>5 DEF Issues, Alive, SameTokens, SameGrant
  <2>7. ~Newer(Kept.tokens, primary)'
    BY <2>2, <2>3, <2>4 DEF Newer, SameTokens, SameGrant
  <2>8. QED
    BY <2>2, <2>3, <2>4, <2>6, <2>7 DEF SameTokens, SameGrant
<1>4. ASSUME task[u].pc \in SaveStages \cup WriteStages, Current(u)
      PROVE  Kept.persistence_pending' = Kept.persistence_pending /\ (Alive(Kept.tokens.grant) => Alive(Kept.tokens.grant)')
  <2>1. task[u].pc \in Inside
    BY <1>4 DEF WriteStages, SaveStages, Inside
  <2>2. /\ Kept.tokens' = Kept.tokens /\ Kept.persistence_pending' = Kept.persistence_pending /\ Issues
        /\ Kept.tokens.grant \in Grants
    BY <1>4, <2>1, Lone, Fields DEF Spares
  <2>3. QED
    BY <2>2 DEF Issues, Alive
<1>5. Current(u)' = Current(u) /\ At(u, "saveMeta")' = At(u, "saveMeta")
  BY <1>2 DEF Current, At
<1>6. At(u, "saveMeta") => task[u].pc \in SaveStages
  BY DEF At, SaveStages
<1> HIDE DEF c
<1>7. /\ task'[u].pc \in SaveStages => primary' # None /\ SameTokens(primary, task[u].credential)' /\ Alive(primary.grant)' /\ ~Newer(Kept.tokens, primary)'
      /\ At(u, "saveMeta")' => rotation' = None
  BY <1>2, <1>3, <1>5, <1>6 DEF WriteOf, SameTokens, SameGrant, c
<1>8. /\ (task[u].pc \in SaveStages \cup {"save"} /\ Current(u) => Kept.persistence_pending')
      /\ (task[u].pc \in WriteStages /\ task[u].sequel = "refreshed" /\ Current(u) => Alive(Kept.tokens.grant)')
  BY <1>4 DEF WriteOf, WriteStages
<1>9. QED
  BY <1>2, <1>5, <1>7, <1>8 DEF WriteOf

\* A step of one task leaves the others alone.
LEMMA OthersSpared ==
  ASSUME Structure, ExchangeInv, WriteInv, NEW t \in Tasks, \A u \in Requests \ {t} : Spares(u),
         t \in Requests => ExchangeOf(t)' /\ WriteOf(t)'
  PROVE  ExchangeInv' /\ WriteInv'
<1>1. ASSUME NEW u \in Requests \ {t} PROVE ExchangeOf(u)' /\ WriteOf(u)'
  BY <1>1, SparesExchange, SparesWrite DEF ExchangeInv, WriteInv
<1>2. QED
  BY <1>1 DEF ExchangeInv, WriteInv

\* It does when it writes nothing, or holds what it takes to write.
LEMMA StoreSpared ==
  ASSUME Structure, NEW t \in Tasks, Others(t), registered' = registered, edits' = 0 => edits = 0,
         NEW u \in Requests \ {t},
         \/ rotation' = rotation /\ Resettled
         \/ lock = t \/ LockFree,
         \/ registered # 0 => /\ Kept.tokens' = Kept.tokens
                              /\ Kept.persistence_pending' = Kept.persistence_pending
         \/ SlotFree(registered)
         \/ t \in Requests /\ Current(t) /\ task[t].pc \in Inside,
         \/ Issues
         \/ t \in Requests /\ Current(t) /\ task[t].pc \in Inside
  PROVE  Spares(u)
<1>1. task'[u] = task[u] /\ u \in Tasks
  BY DEF Others, Tasks
<1>2. ASSUME task[u].pc \in LoadStages \cup SaveStages PROVE rotation' = rotation /\ Resettled
  <2>1. task[u].pc \in LockStages
    BY <1>2 DEF LockStages
  <2>2. ~(lock = t \/ LockFree)
    BY <1>1, <2>1, Holder
  <2>3. QED
    BY <2>2
<1>3. ASSUME task[u].pc \in Inside, Current(u)
      PROVE  /\ Kept.tokens' = Kept.tokens /\ Kept.persistence_pending' = Kept.persistence_pending
             /\ Issues
  <2>1. registered # 0
    BY <1>3, Lone
  <2>2. ~SlotFree(registered)
    BY <1>1, <1>3 DEF SlotFree, Current
  <2>3. ~(t \in Requests /\ Current(t) /\ task[t].pc \in Inside)
    BY <1>3, Lone
  <2>4. QED
    BY <2>1, <2>2, <2>3
<1>4. QED
  BY <1>1, <1>2, <1>3 DEF Spares

-----------------------------------------------------------------------------
(* What a step leaves of the facts about the slot *)

\* A pair on its way stays so while its request does.
LEMMA CarriedStays ==
  ASSUME NEW t \in Tasks, Others(t), registered' = registered, Carries(t) => Carries(t)', User \notin Requests
  PROVE  Carried => Carried'
<1>1. \A u \in Requests \ {t} : Carries(u)' = Carries(u)
  BY DEF Others, Tasks, Carries, Ok, At, Current
<1>2. QED
  BY <1>1 DEF Carried

LEMMA BroughtStays ==
  ASSUME NEW t \in Tasks, Others(t), registered' = registered, Brings(t) => Brings(t)', User \notin Requests
  PROVE  Brought => Brought'
<1>1. \A u \in Requests \ {t} : Brings(u)' = Brings(u)
  BY DEF Others, Tasks, Brings, BringsPair, Ok, At, Current
<1>2. QED
  BY <1>1 DEF Brought

\* Nobody else gets the token of a slot that stays.
LEMMA QuietStays ==
  ASSUME Structure, NEW t \in Tasks, Others(t), registered' = registered,
         Kept.tokens' = Kept.tokens, registered # 0,
         superseded \ {t} \subseteq superseded', now' \in Nat, now' >= now,
         t \in Requests => Calm(t)', Quiet
  PROVE  Quiet'
<1>1. Kept.tokens \in Credentials /\ now \in Nat /\ Lifetime \in Nat
  BY Numbers
<1>2. Kept.tokens.issued_at \in Nat
  BY <1>1, Fields
<1>3. ~Usable(Kept.tokens, now)'
  BY <1>1, <1>2 DEF Usable, Quiet
<1>4. \A u \in Requests \ {t} : Calm(u) => Calm(u)'
  BY DEF Others, Tasks, Calm, Current, Waits, Usable
<1>5. QED
  BY <1>3, <1>4 DEF Quiet

-----------------------------------------------------------------------------
(* What a step leaves of the facts about the store *)

\* The slot is as it was, for the store.
SlotStays ==
  /\ registered' = registered
  /\ registered # 0 => /\ Kept.tokens' = Kept.tokens
                       /\ Kept.persistence_pending' = Kept.persistence_pending
                       /\ (Alive(Kept.tokens.grant) => Alive(Kept.tokens.grant)')
                       /\ (Quiet /\ ~Alive(Kept.tokens.grant) => Quiet')

\* The store and its checkpoint stay, and so does what became of their grants.
LEMMA StoreFrame ==
  ASSUME Structure, NEW p \in Credentials, StoreOf(p), SlotStays,
         use'[p.grant] = use[p.grant], registered # 0 => (Alive(Kept.tokens.grant)' => Alive(Kept.tokens.grant)),
         rotation' = rotation, now' \in Nat, now' >= now,
         crashes' = crashes, edits' = 0 => edits = 0, Carried => Carried',
         edits' # 0 \/ (Brought => Brought'), Replaces(p)', SigningIn(p) => SigningIn(p)'
  PROVE  StoreOf(p)'
<1>1. Recovers(p)' = Recovers(p) /\ Alive(p.grant)' = Alive(p.grant)
  BY DEF Recovers, SameGrant, Alive
<1>2. Fenced(p)'
  BY DEF StoreOf, Fenced, SameGrant
<1>3. Expired(p)'
  <2>1. p.issued_at \in Nat /\ now \in Nat /\ Lifetime \in Nat
    BY Fields, Numbers
  <2>2. Usable(p, now)' => Usable(p, now)
    BY <2>1 DEF Usable
  <2>3. QED
    BY <1>1, <2>2 DEF StoreOf, Expired
<1>4. Mergeable(p)'
  BY <1>1 DEF StoreOf, Mergeable, SlotStays, Newer
<1>5. Superseded(p)'
  BY <1>1 DEF StoreOf, Superseded, SlotStays
<1>6. Lags(p)'
  BY DEF StoreOf, Lags, SlotStays
<1>7. Written(p)'
  BY DEF StoreOf, Written, SlotStays
<1>8. Recovered(p)'
  BY <1>1 DEF StoreOf, Recovered, SlotStays
<1>9. Retained(p)'
  BY DEF StoreOf, Retained, SlotStays
<1>10. QED
  BY <1>2, <1>3, <1>4, <1>5, <1>6, <1>7, <1>8, <1>9 DEF StoreOf

\* The settings do not matter to it.
LEMMA StoreOfTokens ==
  ASSUME NEW p \in Credentials, NEW q \in Credentials, SameTokens(q, p), StoreOf(p), ~SigningIn(p)
  PROVE  StoreOf(q)
<1>1. /\ q.grant = p.grant /\ q.generation = p.generation /\ q.issued_at = p.issued_at /\ q.cut = p.cut
  BY DEF SameTokens, SameGrant
<1>2. Recovers(q) = Recovers(p) /\ Usable(q, now) = Usable(p, now)
  BY <1>1 DEF Recovers, SameGrant, Usable
<1>3. Fenced(q) /\ Expired(q) /\ Retained(q)
  BY <1>1, <1>2 DEF StoreOf, Fenced, Expired, Retained, SameGrant
<1>4. Mergeable(q) /\ Superseded(q)
  BY <1>1, <1>2 DEF StoreOf, Mergeable, Superseded, Newer
<1>5. \A u \in Requests : Ahead(u, p) => Ahead(u, q)
  BY <1>1 DEF Ahead
<1>6. Replaces(q)
  BY <1>1, <1>5 DEF StoreOf, Replaces
<1>7. Lags(q) /\ Written(q) /\ Recovered(q)
  BY <1>1, <1>2 DEF StoreOf, Lags, Written, Recovered
<1>8. QED
  BY <1>3, <1>4, <1>6, <1>7 DEF StoreOf

\* Neither an edit of the store.
LEMMA StoreResettled ==
  ASSUME Structure, NEW p \in Credentials, NEW q \in Credentials, SameTokens(q, p), StoreOf(p), ~SigningIn(p),
         ~SigningIn(q), SlotStays, use' = use, rotation' = rotation, now' = now,
         crashes' = crashes, edits' = 0 => edits = 0, Carried => Carried', Brought => Brought', Replaces(q)'
  PROVE  StoreOf(q)'
<1>1. StoreOf(q)
  BY StoreOfTokens
<1>2. registered # 0 => (Alive(Kept.tokens.grant)' => Alive(Kept.tokens.grant))
  BY DEF SlotStays, Alive
<1>3. now \in Nat
  BY Numbers
<1>4. QED
  BY <1>1, <1>2, <1>3, StoreFrame

\* A checkpoint without a pair may come and go while the grant can be sent.
LEMMA StoreForgets ==
  ASSUME NEW p \in Credentials, StoreOf(p), SlotStays, use' = use, now' = now,
         rotation' # None => rotation'.after = None,
         Alive(p.grant), Carried => Carried', Replaces(p)', SigningIn(p) => SigningIn(p)'
  PROVE  StoreOf(p)'
<1>1. ~Recovers(p)' /\ Alive(p.grant)' /\ use[p.grant] \notin {"spent", "unknown"}
  BY DEF Recovers, Alive
<1>2. Fenced(p)' /\ Expired(p)' /\ Recovered(p)' /\ Retained(p)'
  BY <1>1 DEF Fenced, Expired, Recovered, Retained
<1>3. Mergeable(p)'
  BY <1>1 DEF StoreOf, Mergeable, SlotStays, Newer
<1>4. Superseded(p)'
  BY <1>1 DEF StoreOf, Superseded, SlotStays
<1>5. Lags(p)' /\ Written(p)'
  BY DEF StoreOf, Lags, Written, SlotStays
<1>6. QED
  BY <1>2, <1>3, <1>4, <1>5 DEF StoreOf

-----------------------------------------------------------------------------
(* The steps of a request that write neither the store nor the slot *)

\* The slot keeps its tokens.
SameSlot ==
  /\ registered' = registered
  /\ registered # 0 => /\ Kept.tokens' = Kept.tokens
                       /\ Kept.persistence_pending' = Kept.persistence_pending

SameStore == UNCHANGED <<primary, rotation, use, now, edits, crashes>>

\* No grant is in flight but that of a waiting request.
LEMMA FlyingStays ==
  ASSUME Structure, FlyingInv, NEW t \in Tasks, Others(t), t \in Requests => ~At(t, "wait"),
         \A g \in Grants : use'[g] = "flying" => use[g] = "flying"
  PROVE  FlyingInv'
<1>1. SUFFICES ASSUME NEW g \in Grants, use'[g] = "flying"
               PROVE  \E u \in Requests : At(u, "wait")' /\ task'[u].credential.grant = g
  BY DEF FlyingInv
<1>2. PICK u \in Requests : At(u, "wait") /\ task[u].credential.grant = g
  BY <1>1 DEF FlyingInv
<1>3. u # t /\ u \in Tasks
  BY <1>2 DEF Tasks
<1>4. QED
  BY <1>2, <1>3 DEF Others, At

\* What is known apart from the requests does not depend on such a step.
LEMMA ApartStays ==
  ASSUME Structure, Apart, NEW t \in Requests, Others(t), SameSlot, SameStore, ~At(t, "wait"),
         BringsPair(t)' => BringsPair(t) /\ task'[t].other = task[t].other
  PROVE  Apart'
<1>1. UNCHANGED <<primary, rotation, use, now, edits>> /\ registered' = registered
      /\ (registered # 0 => Kept.tokens' = Kept.tokens)
  BY DEF SameStore, SameSlot
<1>2. task'[User] = task[User] /\ t \in Tasks
  BY TokenAssumption DEF Others, Tasks
<1>3. CheckpointInv'
  BY <1>1 DEF Apart, CheckpointInv
<1>4. FlyingInv'
  BY <1>1, <1>2, FlyingStays DEF Apart
<1>5. IssuedInv' /\ NoCredentialInv'
  BY <1>1, <1>2 DEF Apart, IssuedInv, NoCredentialInv, Alive
<1>6. LoginInv'
  <2>1. \A u \in Requests : BringsPair(u)' => BringsPair(u) /\ task'[u].other = task[u].other
    BY DEF Others, Tasks, BringsPair, At
  <2>2. Login' = Login /\ (registered # 0 => Newer(Kept.tokens, Login)' = Newer(Kept.tokens, Login))
    BY <1>1, <1>2 DEF Login, Newer
  <2>3. Alive(Login.grant)' = Alive(Login.grant) /\ (registered # 0 => Alive(Kept.tokens.grant)' = Alive(Kept.tokens.grant))
    BY <1>1, <2>2 DEF Alive
  <2>4. \A s : At(User, s)' = At(User, s)
    BY <1>2 DEF At
  <2> HIDE DEF Login
  <2>5. QED
    BY <1>1, <1>2, <2>1, <2>2, <2>3, <2>4 DEF Apart, LoginInv
<1>7. QED
  BY <1>3, <1>4, <1>5, <1>6 DEF Apart

\* The invariant outlives such a step if what its request carries does.
LEMMA UntouchedLedger ==
  ASSUME Sound, NEW t \in Requests, Others(t), SameSlot, SameStore,
         superseded \ {t} \subseteq superseded', ~At(t, "wait"),
         BringsPair(t)' => BringsPair(t) /\ task'[t].other = task[t].other,
         Carries(t) => Carries(t)', edits # 0 \/ (Brings(t) => Brings(t)'),
         Quiet /\ registered # 0 /\ ~Alive(Kept.tokens.grant) => Calm(t)',
         \A p \in Credentials : Held(p) /\ Ok(t)' /\ Current(t)' => Alive(p.grant) \/ Ahead(t, p)',
         ExchangeOf(t)', WriteOf(t)'
  PROVE  LedgerInv'
<1>1. Structure /\ Apart /\ ExchangeInv /\ WriteInv /\ StoreInv /\ t \in Tasks /\ User \notin Requests
  BY TokenAssumption DEF Sound, LedgerInv, Tasks
<1>2. UNCHANGED <<primary, rotation, use, now, edits, crashes>> /\ registered' = registered
      /\ (registered # 0 => Kept.tokens' = Kept.tokens
                            /\ Kept.persistence_pending' = Kept.persistence_pending)
  BY DEF SameStore, SameSlot
<1>3. Apart'
  BY <1>1, ApartStays
<1>4. ExchangeInv' /\ WriteInv'
  <2>1. Issues /\ Resettled
    BY <1>2 DEF Issues, Resettled
  <2>2. \A u \in Requests \ {t} : Spares(u)
    BY <1>1, <1>2, <2>1, StoreSpared
  <2>3. QED
    BY <1>1, <2>2, OthersSpared
<1>5. StoreInv'
  <2>1. SUFFICES ASSUME NEW p \in Credentials, Held(p)' PROVE StoreOf(p)'
    BY DEF StoreInv
  <2>2. task'[User] = task[User]
    BY <1>1 DEF Others, Tasks
  <2>3. Held(p) /\ StoreOf(p)
    BY <1>1, <1>2, <2>1, <2>2 DEF Held, At, StoreInv
  <2>4. SlotStays /\ (registered # 0 => (Alive(Kept.tokens.grant)' => Alive(Kept.tokens.grant)))
    <3>1. registered # 0 => Alive(Kept.tokens.grant)' = Alive(Kept.tokens.grant)
      BY <1>2 DEF Alive
    <3>2. now \in Nat
      BY <1>1, Numbers
    <3>3. now' \in Nat /\ now' >= now
      BY <1>2, <3>2
    <3>4. registered # 0 /\ Quiet /\ ~Alive(Kept.tokens.grant) => Quiet'
      BY <1>1, <1>2, <3>3, QuietStays
    <3>5. QED
      BY <1>2, <3>1, <3>4 DEF SlotStays
  <2>5. (Carried => Carried') /\ (edits' # 0 \/ (Brought => Brought'))
    BY <1>1, <1>2, CarriedStays, BroughtStays
  <2>6. SigningIn(p) => SigningIn(p)'
    BY <2>2 DEF SigningIn, Login
  <2>7. Replaces(p)'
    <3>1. SUFFICES ASSUME NEW u \in Requests, Ok(u)', Current(u)' PROVE Alive(p.grant)' \/ Ahead(u, p)'
      BY DEF Replaces
    <3>2. Alive(p.grant)' = Alive(p.grant)
      BY <1>2 DEF Alive
    <3>3. CASE u = t
      BY <2>3, <3>1, <3>2, <3>3
    <3>4. CASE u # t
      <4>1. task'[u] = task[u]
        BY <3>4 DEF Others, Tasks
      <4>2. Ok(u) /\ Current(u)
        BY <1>2, <3>1, <4>1 DEF Ok, At, Current
      <4>3. registered # 0
        BY <1>1, <4>2, Lone DEF Ok, At, Inside
      <4>4. Alive(p.grant) \/ Ahead(u, p)
        BY <2>3, <4>2 DEF StoreOf, Replaces
      <4>5. Ahead(u, p)' = Ahead(u, p)
        BY <1>2, <4>1, <4>3 DEF Ahead
      <4>6. QED
        BY <3>2, <4>4, <4>5
    <3>5. QED
      BY <3>3, <3>4
  <2>8. now' \in Nat /\ now' >= now /\ use'[p.grant] = use[p.grant]
    BY <1>1, <1>2, Numbers
  <2>9. QED
    BY <1>1, <1>2, <2>3, <2>4, <2>5, <2>6, <2>7, <2>8, StoreFrame
<1>6. QED
  BY <1>3, <1>4, <1>5 DEF LedgerInv

\* Nobody becomes able to send a token that the quiet slot has.
LEMMA OutsideCalm ==
  ASSUME Sound, NEW t \in Requests, Outside(t), Quiet, registered # 0, ~Alive(Kept.tokens.grant)
  PROVE  Calm(t)'
<1>1. Kept.tokens' = Kept.tokens /\ registered' = registered /\ HoldsToken(t) /\ Calm(t) /\ WriteOf(t)
  BY DEF Outside, Quiet, Sound, LedgerInv, WriteInv
<1>2. SUFFICES ASSUME Current(t)'
               PROVE  /\ Waits(t)' => ~Usable(Kept.tokens, task'[t].time)
                      /\ task'[t].pc \in {"prepared", "sent"} => t \in superseded'
  BY <1>1 DEF Calm, Usable
<1>3. ASSUME Waits(t)' PROVE ~Usable(Kept.tokens, task'[t].time)
  <2>1. CASE task'[t].time = now
    BY <2>1 DEF Quiet
  <2>2. CASE Waits(t) /\ task'[t].time = task[t].time /\ task'[t].slot = task[t].slot
    <3>1. Current(t)
      BY <1>1, <1>2, <2>2 DEF Current
    <3>2. QED
      BY <1>1, <2>2, <3>1 DEF Calm
  <2>3. QED
    BY <1>3, <2>1, <2>2 DEF Outside
<1>4. ASSUME task'[t].pc \in {"prepared", "sent"} PROVE t \in superseded'
  <2>1. Current(t)
    BY <1>1, <1>2, <1>4 DEF Current, HoldsToken
  <2>2. MySlot(t) = Kept
    BY <2>1 DEF MySlot, Current, Kept
  <2>3. ~(Waits(t) /\ Usable(MySlot(t).tokens, task[t].time))
    BY <1>1, <2>1, <2>2 DEF Calm
  <2>4. ~(task[t].pc \in WriteStages /\ task[t].sequel = "refreshed" /\ Current(t))
    BY <1>1 DEF WriteOf
  <2>5. task[t].pc \in {"prepared", "sent"} /\ superseded' = superseded
    BY <1>1, <1>4, <2>3, <2>4 DEF HoldsToken
  <2>6. QED
    BY <1>1, <2>1, <2>5 DEF Calm
<1>5. QED
  BY <1>3, <1>4

\* A step outside the adapter and the writes.
LEMMA OutsideLedger ==
  ASSUME Sound, NEW t \in Requests, Outside(t), SameStore,
         task[t].pc \notin LoadStages, ~(Ok(t) /\ Current(t)),
         task'[t].pc = "save" /\ Current(t)' => registered # 0 /\ Kept.persistence_pending
  PROVE  LedgerInv'
<1>1. /\ Others(t) /\ SameSlot /\ superseded \ {t} \subseteq superseded'
      /\ task'[t].pc \notin LoadStages \cup SaveStages \cup {"returned"}
      /\ (task'[t].pc \in WriteStages => task'[t].sequel # "refreshed")
  BY DEF Outside, SameSlot
<1>2. ~At(t, "wait") /\ ~BringsPair(t) /\ ~Carries(t) /\ ~Brings(t)
  BY DEF At, LoadStages, BringsPair, Carries, Brings
<1>3. ~BringsPair(t)' /\ ~Ok(t)'
  BY <1>1 DEF BringsPair, Ok, At, LoadStages
<1>4. Quiet /\ registered # 0 /\ ~Alive(Kept.tokens.grant) => Calm(t)'
  BY OutsideCalm
<1>5. ExchangeOf(t)'
  BY <1>1, <1>3 DEF ExchangeOf, LoadStages, At
<1>6. WriteOf(t)'
  BY <1>1 DEF WriteOf, SaveStages, At, SameSlot
<1>7. QED
  BY <1>1, <1>2, <1>3, <1>4, <1>5, <1>6, UntouchedLedger

\* A request leaves without anything.
LEMMA LeaveLedger ==
  ASSUME Sound, NEW t \in Requests, Leave(t), SameStore, task[t].pc \notin LoadStages, ~(Ok(t) /\ Current(t))
  PROVE  LedgerInv'
<1>1. TypeOK /\ t \in Tasks
  BY DEF Sound, Structure, Tasks
<1>2. Outside(t) /\ task'[t].pc = "idle"
  BY <1>1, LeaveKeeps, LeaveOutside DEF TaskIs
<1>3. QED
  BY <1>2, OutsideLedger

\* The steps before the adapter; of these only WritePending goes to a write of tokens.
LEMMA PreparingLedger ==
  ASSUME Sound, NEW t \in Requests,
         \/ PrepareStart(t) \/ EnterSlot(t) \/ WritePending(t) \/ HealReused(t)
         \/ RefusePreparation(t) \/ PrepareReady(t) \/ StartRefresh(t)
  PROVE  LedgerInv'
<1>1. Structure /\ TypeOK /\ t \in Tasks
  BY DEF Sound, Structure, Tasks
<1>2. Outside(t) /\ SameStore
  BY <1>1, PreparingOutside DEF Unwritten, SameStore, bounds
<1>3. task[t].pc \in {"idle", "slotLock", "entered"}
  BY DEF PrepareStart, EnterSlot, WritePending, HealReused, RefusePreparation, PrepareReady, StartRefresh, At
<1>4. task[t].pc \notin LoadStages /\ ~Ok(t)
  BY <1>3 DEF LoadStages, Ok, At
<1>5. ASSUME task'[t].pc = "save", Current(t)' PROVE registered # 0 /\ Kept.persistence_pending
  <2>1. task \in [Tasks -> TaskStates]
    BY <1>1 DEF TypeOK
  <2>2. task[t] \in TaskStates
    BY <1>1, <2>1
  <2>3. WritePending(t)
    <3>1. ~PrepareStart(t)
      <4>1. SUFFICES ASSUME PrepareStart(t) PROVE task'[t].pc = "slotLock"
        BY <1>5
      <4>2. QED
        BY <1>1, <2>1, <2>2, <4>1 DEF PrepareStart, TaskStates
    <3>2. ~Leave(t)
      BY <1>1, <1>5, LeaveKeeps DEF TaskIs
    <3>3. ~EnterSlot(t) /\ ~RefusePreparation(t)
      <4>1. Go(t, "entered") => task'[t].pc = "entered"
        BY <1>1, <2>1, <2>2 DEF Go, TaskStates
      <4>2. EnterSlot(t) => Go(t, "entered") \/ Leave(t)
        BY DEF EnterSlot
      <4>3. RefusePreparation(t) => Leave(t)
        BY DEF RefusePreparation
      <4>4. QED
        BY <1>5, <3>2, <4>1, <4>2, <4>3
    <3>4. ~HealReused(t) /\ ~StartRefresh(t)
      <4>1. HealReused(t) => task'[t].pc = "auth"
        BY <1>1, <2>1, <2>2 DEF HealReused, TaskStates
      <4>2. StartRefresh(t) => task'[t].pc = "exchange"
        BY <1>1, <2>1, <2>2 DEF StartRefresh, TaskStates
      <4>3. QED
        BY <1>5, <4>1, <4>2
    <3>5. ~PrepareReady(t)
      BY <1>1, <1>5, <2>1, <2>2 DEF PrepareReady, HandOver, Idle
    <3>6. QED
      BY <3>1, <3>3, <3>4, <3>5
  <2>4. MySlot(t).persistence_pending /\ task'[t].slot = task[t].slot /\ UNCHANGED memory
    BY <1>1, <1>5, <2>1, <2>2, <2>3 DEF WritePending, TaskStates
  <2>5. Current(t) /\ task[t].pc # "idle"
    BY <1>5, <2>3, <2>4 DEF Current, memory, WritePending, At
  <2>6. QED
    BY <1>1, <2>4, <2>5, Started
<1>6. QED
  BY <1>2, <1>4, <1>5, OutsideLedger

\* The steps after it.
LEMMA EndingLedger ==
  ASSUME Sound, NEW t \in Requests,
         InstallReauth(t) \/ DropResult(t) \/ SaveAuth(t) \/ Dispatch(t) \/ Accepted(t)
  PROVE  LedgerInv'
<1>1. Structure /\ TypeOK /\ t \in Tasks
  BY DEF Sound, Structure, Tasks
<1>2. Outside(t) /\ SameStore
  BY <1>1, EndingOutside DEF Unwritten, SameStore, bounds
<1>3. task[t].pc \notin LoadStages /\ ~(Ok(t) /\ Current(t))
  BY DEF InstallReauth, DropResult, SaveAuth, Dispatch, Accepted, At, Ok, LoadStages
<1>4. task'[t].pc # "save"
  <2>1. CASE InstallReauth(t)
    <3>1. task[t].slot \in Slots
      BY <1>1, <2>1, Started DEF InstallReauth, At
    <3>2. QED
      BY <1>1, <2>1, <3>1, InstallReauthEffect DEF TaskIs
  <2>2. CASE DropResult(t)
    <3>1. task[t].slot \in Slots
      BY <1>1, <2>2, Started DEF DropResult, At
    <3>2. QED
      BY <1>1, <2>2, <3>1, DropResultEffect DEF TaskIs
  <2>3. CASE SaveAuth(t)
    <3>1. CASE Leave(t)
      BY <1>1, <3>1, LeaveKeeps DEF TaskIs
    <3>2. CASE Current(t) /\ AfterAuth(t)
      <4>1. task[t].slot \in Slots /\ lock # t
        BY <1>1, <2>3, Started DEF SaveAuth, At, Structure, LockInv, LockStages, LoadStages, SaveStages, DeleteStages
      <4>2. QED
        BY <1>1, <3>2, <4>1, AfterAuthEffect DEF TaskIs
    <3>3. QED
      BY <2>3, <3>1, <3>2 DEF SaveAuth
  <2>4. CASE Dispatch(t) \/ Accepted(t)
    <3>1. CASE Leave(t)
      BY <1>1, <3>1, LeaveKeeps DEF TaskIs
    <3>2. CASE Go(t, "sent")
      BY <1>1, <3>2, GoEffect, Names DEF TaskIs
    <3>3. QED
      BY <2>4, <3>1, <3>2 DEF Dispatch, Accepted
  <2>5. QED
    BY <2>1, <2>2, <2>3, <2>4
<1>5. QED
  BY <1>2, <1>3, <1>4, OutsideLedger

-----------------------------------------------------------------------------
(* The adapter returns and has written nothing *)

\* While a request has the process lock, the store has one credential and no
\* sign-in is to be rolled back.
LEMMA HeldOnce ==
  ASSUME Structure, NEW t \in Requests, lock = t \/ LockFree, NEW p \in Credentials, Held(p)
  PROVE  primary = p
<1>1. task[User].pc \notin LockStages
  BY Holder, TokenAssumption DEF Tasks
<1>2. QED
  BY <1>1 DEF Held, At, LockStages

\* Where the request is that has the process lock.
LEMMA Loading ==
  ASSUME Structure, NEW t \in Requests, task[t].pc \in LoadStages
  PROVE  /\ lock = t /\ Current(t) /\ t \in Tasks /\ TypeOK
         /\ registered # 0 /\ Kept.tokens \in Credentials /\ ~Kept.persistence_pending
         /\ task[t].credential \in Credentials
         /\ (BringsPair(t) => task[t].other \in Credentials)
         /\ task[t].time \in Nat /\ now \in Nat /\ task[t].time <= now
         /\ \A u \in Requests \ {t} : (Current(u) => task[u].pc \notin Inside) /\ task[u].pc \notin LoadStages \cup SaveStages
         /\ task[User].pc \notin DeleteStages \cup {"loginAccount"}
         /\ \A p \in Credentials : Held(p) => primary = p
<1>1. t \in Tasks /\ TypeOK /\ task[t].pc \in Inside /\ task[t].pc \in LockStages /\ task[t].pc \in ExchangeStages
  BY DEF Tasks, Structure, LoadStages, Inside, LockStages, ExchangeStages
<1>2. lock = t /\ Current(t)
  BY <1>1 DEF Structure, LockInv, CurrentInv
<1>3. registered # 0 /\ Kept.tokens \in Credentials /\ \A u \in Requests \ {t} : Current(u) => task[u].pc \notin Inside
  BY <1>1, <1>2, Lone
<1>4. ~Kept.persistence_pending
  BY <1>1, <1>2 DEF Structure, SettledInv
<1>5. /\ task[t].credential \in Credentials /\ (BringsPair(t) => task[t].other \in Credentials)
      /\ task[t].time \in Nat /\ now \in Nat /\ task[t].time <= now
  BY <1>1, Numbers DEF Structure, StageInv, StageOf
<1>6. \A u \in Tasks \ {t} : task[u].pc \notin LockStages
  BY <1>1, <1>2, Holder
<1>7. \A u \in Requests \ {t} : task[u].pc \notin LoadStages \cup SaveStages
  BY <1>6 DEF Tasks, LockStages
<1>8. task[User].pc \notin DeleteStages \cup {"loginAccount"}
  BY <1>6, TokenAssumption DEF Tasks, LockStages
<1>9. \A p \in Credentials : Held(p) => primary = p
  BY <1>2, HeldOnce
<1>10. QED
  BY <1>1, <1>2, <1>3, <1>4, <1>5, <1>7, <1>8, <1>9

\* The slot is untouched when the memory is.
LEMMA MemorySlot ==
  ASSUME TypeOK, UNCHANGED memory
  PROVE  SameSlot /\ superseded' = superseded
  BY DEF memory, SameSlot, Kept

\* A request that returns from the adapter cannot send a token.
LEMMA ReturnedCalm ==
  ASSUME NEW t, task'[t].pc \in ExchangeStages
  PROVE  Calm(t)'
  BY DEF Calm, Waits, WriteStages, SaveStages, ExchangeStages, LoadStages

\* The adapter returns with nothing.
LEMMA AnswerLedger ==
  ASSUME Sound, NEW t \in Requests, NEW answer \in Answers \ {"ok"}, Answer(t, answer), SameStore, UNCHANGED memory,
         ~At(t, "wait"), ~Carries(t), edits # 0 \/ ~Brings(t)
  PROVE  LedgerInv'
<1>1. Structure /\ TypeOK /\ t \in Tasks
  BY DEF Sound, Structure, Tasks
<1>2. TaskIs(t, "returned", task[t].slot, task[t].time, None, None, answer, task[t].sequel)
  BY <1>1, AnswerEffect
<1>3. Others(t) /\ task'[t].pc = "returned" /\ task'[t].answer # "ok"
  BY <1>2 DEF TaskIs
<1>4. ~BringsPair(t)' /\ ~Ok(t)' /\ ExchangeOf(t)' /\ WriteOf(t)'
  BY <1>3 DEF BringsPair, Ok, At, ExchangeOf, WriteOf, LoadStages, SaveStages, WriteStages
<1>5. Calm(t)'
  BY <1>3, ReturnedCalm DEF ExchangeStages
<1>6. QED
  BY <1>1, <1>3, <1>4, <1>5, MemorySlot, UntouchedLedger

\* The adapter returns with a pair that can be sent.
LEMMA AnswerOkLedger ==
  ASSUME Sound, NEW t \in Requests, NEW c \in Credentials, AnswerOk(t, c), SameStore, UNCHANGED memory,
         task[t].pc \in LoadStages, ~At(t, "wait"), Alive(c.grant), primary # None,
         Alive(primary.grant) \/ Ahead(t, primary)
  PROVE  LedgerInv'
<1>1. Structure /\ TypeOK /\ t \in Tasks
  BY DEF Sound, Structure, Tasks
<1>2. TaskIs(t, "returned", task[t].slot, task[t].time, c, None, "ok", task[t].sequel)
  BY <1>1, Names, AnswerOkEffect
<1>3. /\ Others(t) /\ task'[t].pc = "returned" /\ task'[t].answer = "ok" /\ task'[t].credential = c
      /\ task'[t].slot = task[t].slot /\ task'[t].time = task[t].time
  BY <1>2 DEF TaskIs
<1>4. SameSlot /\ superseded' = superseded
  BY <1>1, MemorySlot
<1>5. Current(t) /\ registered # 0 /\ \A p \in Credentials : Held(p) => primary = p
  BY <1>1, Loading
<1>6. ~BringsPair(t)' /\ Ok(t)' /\ Current(t)'
  BY <1>3, <1>4, <1>5 DEF BringsPair, Ok, At, Current, SameSlot
<1>7. Carries(t)' /\ Brings(t)'
  BY <1>6 DEF Carries, Brings
<1>8. Alive(c.grant)'
  BY DEF Alive, SameStore
<1>9. ExchangeOf(t)'
  BY <1>3, <1>6, <1>8 DEF ExchangeOf, At, LoadStages
<1>10. WriteOf(t)'
  BY <1>3 DEF WriteOf, At, SaveStages, WriteStages
<1>11. \A p \in Credentials : Held(p) => Alive(p.grant) \/ Ahead(t, p)'
  <2>1. \A p : Ahead(t, p)' = Ahead(t, p)
    BY <1>3, <1>4, <1>5 DEF Ahead, SameSlot
  <2>2. QED
    BY <1>5, <2>1
<1>12. Calm(t)'
  BY <1>3, ReturnedCalm DEF ExchangeStages
<1>13. QED
  BY <1>3, <1>4, <1>6, <1>7, <1>9, <1>10, <1>11, <1>12, UntouchedLedger

\* The stored credential is usable, or the request goes on to renew it.
LEMMA UseStoredLedger ==
  ASSUME Sound, NEW t \in Requests, UseStored(t)
  PROVE  LedgerInv'
<1>1. task[t].pc \in LoadStages /\ ~At(t, "wait") /\ Structure /\ ExchangeOf(t)
  BY DEF UseStored, At, LoadStages, Sound, LedgerInv, ExchangeInv
<1>2. task[t].credential \in Credentials
  BY <1>1, Loading
<1>3. /\ primary # None /\ SameTokens(primary, task[t].credential) /\ Alive(task[t].credential.grant)
  BY <1>1 DEF ExchangeOf, UseStored, At, LoadStages
<1>4. Alive(primary.grant)
  BY <1>3 DEF SameTokens, SameGrant
<1>5. SameStore /\ UNCHANGED memory
  BY DEF UseStored, SameStore, durable, bounds
<1>6. AnswerOk(t, task[t].credential)
  BY DEF UseStored
<1>7. QED
  BY <1>1, <1>2, <1>3, <1>4, <1>5, <1>6, AnswerOkLedger

\* Only an edit changes the store while the answer is awaited, and the token
\* it leaves there has expired all the same.
LEMMA OvertakenLedger ==
  ASSUME Sound, NEW t \in Requests, Overtaken(t)
  PROVE  LedgerInv'
<1>1. /\ task[t].pc \in LoadStages /\ ~At(t, "wait") /\ Structure /\ ExchangeOf(t) /\ At(t, "answered")
      /\ ~Ok(t) /\ task[t].pc \notin {"rotated", "saved"}
  BY DEF Overtaken, At, LoadStages, Sound, LedgerInv, ExchangeInv, Ok
<1>2. Current(t)
  BY <1>1, Loading
<1>3. /\ primary # None /\ SameTokens(primary, task[t].credential) /\ ~Usable(task[t].credential, task[t].time)
      /\ (edits = 0 => primary = task[t].credential)
  BY <1>1 DEF ExchangeOf, At, LoadStages
<1>4. ~Unchanged(t) /\ edits # 0
  BY <1>2, <1>3 DEF Overtaken, Unchanged
<1>5. ~Usable(primary, task[t].time)
  BY <1>3 DEF Usable, SameTokens, SameGrant
<1>6. Answer(t, "transient") /\ SameStore /\ UNCHANGED memory
  BY <1>4, <1>5 DEF Overtaken, SameStore, durable, bounds
<1>7. ~Carries(t) /\ "transient" \in Answers \ {"ok"}
  BY <1>1 DEF Carries, Answers
<1>8. QED
  BY <1>1, <1>4, <1>6, <1>7, AnswerLedger

\* The adapter fails before it asks, or cannot store the answer: a received
\* pair goes to the authority.
LEMMA AdapterFaultLedger ==
  ASSUME Sound, NEW t \in Requests, SameStore, UNCHANGED memory,
         \/ /\ \/ task[t].pc \in {"exchange", "recovered", "decide"}
               \/ At(t, "answered") /\ task[t].answer # "ok"
            /\ \E answer \in Answers \ {"ok"} : Answer(t, answer)
         \/ BringsPair(t) /\ AnswerOk(t, task[t].other)
  PROVE  LedgerInv'
<1>1. Structure /\ ExchangeOf(t)
  BY DEF Sound, LedgerInv, ExchangeInv
<1>2. CASE /\ \/ task[t].pc \in {"exchange", "recovered", "decide"}
              \/ At(t, "answered") /\ task[t].answer # "ok"
           /\ \E answer \in Answers \ {"ok"} : Answer(t, answer)
  <2>1. ~At(t, "wait") /\ ~Carries(t) /\ ~Brings(t)
    BY <1>2 DEF At, Carries, Brings, BringsPair, Ok
  <2>2. QED
    BY <1>2, <2>1, AnswerLedger
<1>3. CASE BringsPair(t) /\ AnswerOk(t, task[t].other)
  <2>1. task[t].pc \in LoadStages /\ ~At(t, "wait")
    BY <1>3 DEF BringsPair, At, LoadStages
  <2>2. task[t].other \in Credentials /\ task[t].credential \in Credentials
    BY <1>1, <1>3, <2>1, Loading
  <2>3. Alive(task[t].other.grant)
    BY <1>1, <1>3 DEF ExchangeOf, Alive
  <2>4. primary # None /\ (Alive(primary.grant) \/ Ahead(t, primary))
    <3>1. CASE At(t, "saved")
      <4>1. primary # None /\ SameTokens(primary, task[t].other)
        BY <1>1, <3>1 DEF ExchangeOf
      <4>2. QED
        BY <2>3, <4>1 DEF SameTokens, SameGrant
    <3>2. CASE ~At(t, "saved")
      <4>1. task[t].pc \in {"answered", "rotated"}
        BY <1>3, <3>2 DEF BringsPair, At
      <4>2. primary # None /\ SameTokens(primary, task[t].credential) /\ Ahead(t, task[t].credential)
        BY <1>1, <4>1 DEF ExchangeOf, LoadStages
      <4>3. QED
        BY <4>2 DEF SameTokens, SameGrant, Ahead
    <3>3. QED
      BY <3>1, <3>2
  <2>5. QED
    BY <1>3, <2>1, <2>2, <2>3, <2>4, AnswerOkLedger
<1>4. QED
  BY <1>2, <1>3

\* A storage fault of a request.
LEMMA RequestFaultLedger ==
  ASSUME Sound, NEW t \in Requests, StorageFault(t)
  PROVE  LedgerInv'
<1>1. Structure /\ t \in Tasks /\ t # User /\ task[t].pc \in RequestStages
  BY TokenAssumption DEF Sound, Structure, StageInv, StageOf, Tasks
<1>2. UNCHANGED <<use, now, edits, crashes>>
  BY DEF StorageFault
<1>3. task[t].pc \notin {"loginAccount", "edited", "edit", "deleteJournal", "deleteAccount"}
  BY <1>1 DEF RequestStages, Inside
<1>4. \/ /\ \/ task[t].pc \in {"exchange", "recovered", "decide"}
            \/ At(t, "answered") /\ task[t].answer # "ok"
         /\ Answer(t, "transient") /\ UNCHANGED <<primary, rotation, memory>>
      \/ BringsPair(t) /\ AnswerOk(t, task[t].other) /\ UNCHANGED <<primary, rotation, memory>>
      \/ task[t].pc \in {"save", "saveClear", "saveMeta", "auth"} /\ Leave(t) /\ UNCHANGED <<primary, rotation>>
  <2>1. ~At(t, "loginAccount") /\ ~At(t, "edited") /\ task[t].pc \notin {"edit", "deleteJournal", "deleteAccount"}
    BY <1>3 DEF At
  <2>2. task[t].pc \in {"rotated", "saved"} => BringsPair(t)
    BY DEF BringsPair, At
  <2>3. At(t, "answered") /\ task[t].answer = "ok" => BringsPair(t)
    BY DEF BringsPair
  <2>4. QED
    BY <2>1, <2>2, <2>3 DEF StorageFault
<1>5. CASE task[t].pc \in {"save", "saveClear", "saveMeta", "auth"} /\ Leave(t) /\ UNCHANGED <<primary, rotation>>
  <2>1. task[t].pc \notin LoadStages /\ ~Ok(t)
    BY <1>5 DEF LoadStages, Ok, At
  <2>2. QED
    BY <1>2, <1>5, <2>1, LeaveLedger DEF SameStore
<1>6. "transient" \in Answers \ {"ok"}
  BY DEF Answers
<1>7. QED
  BY <1>2, <1>4, <1>5, <1>6, AdapterFaultLedger DEF SameStore

\* The process lock is not had in time.
LEMMA LockTimeoutLedger ==
  ASSUME Sound, NEW t \in Requests, LockTimeout(t)
  PROVE  LedgerInv'
<1>1. SameStore
  BY DEF LockTimeout, SameStore, durable, bounds
<1>2. CASE At(t, "exchange") /\ Answer(t, "transient") /\ UNCHANGED memory
  <2>1. "transient" \in Answers \ {"ok"} /\ task[t].pc = "exchange"
    BY <1>2 DEF Answers, At
  <2>2. QED
    BY <1>1, <1>2, <2>1, AdapterFaultLedger
<1>3. CASE task[t].pc \in LockWaits \ {"exchange"} /\ Leave(t)
  <2>1. task[t].pc \notin LoadStages /\ ~Ok(t)
    BY <1>3 DEF LockWaits, LoadStages, Ok, At
  <2>2. QED
    BY <1>1, <1>3, <2>1, LeaveLedger
<1>4. QED
  BY <1>2, <1>3 DEF LockTimeout

-----------------------------------------------------------------------------
(* The adapter's writes *)

\* What a sign-in that is to be registered asks of a step of the adapter.
Registering(t) == At(User, "register") =>
  /\ rotation' # None /\ rotation'.after # None => rotation'.after.grant # Login.grant
  /\ BringsPair(t)' => task'[t].other.grant # Login.grant
  /\ primary' = Login => /\ use'[Login.grant] \in {"fresh", "refused", "lost"}
                         /\ rotation' # None => rotation'.before.grant # Login.grant
  /\ primary' # Login => Newer(Kept.tokens, Login)

\* The request has the mutex, and has or takes the process lock.
Adapts(t) ==
  /\ Others(t) /\ UNCHANGED <<memory, now, edits, crashes>>
  /\ lock = t \/ LockFree
  /\ Current(t) /\ task[t].pc \in ExchangeStages \ {"returned"} /\ task'[t].pc \in ExchangeStages

\* What every step of the adapter relies on.
LEMMA Adapting ==
  ASSUME Structure, NEW t \in Requests, Adapts(t)
  PROVE  /\ t \in Tasks /\ t # User /\ TypeOK /\ task'[User] = task[User]
         /\ registered # 0 /\ Kept.tokens \in Credentials /\ ~Kept.persistence_pending
         /\ registered' = registered /\ Kept.tokens' = Kept.tokens /\ ~Kept.persistence_pending' /\ superseded' = superseded
         /\ \A u \in Requests \ {t} : /\ task'[u] = task[u]
                                      /\ Current(u) => task[u].pc \notin Inside
                                      /\ task[u].pc \notin LoadStages \cup SaveStages
         /\ task[User].pc \notin DeleteStages \cup {"loginAccount"}
         /\ \A p \in Credentials : Held(p) => primary = p
         /\ Calm(t)' /\ now \in Nat
<1>1. t \in Tasks /\ t # User /\ TypeOK /\ now \in Nat /\ Others(t)
  BY TokenAssumption, Numbers DEF Tasks, Structure, Adapts
<1>2. task'[User] = task[User]
  BY <1>1 DEF Others, Tasks
<1>3. task[t].pc \in Inside /\ Current(t) /\ task[t].pc \in ExchangeStages
  BY DEF Adapts, ExchangeStages, LoadStages, Inside
<1>4. registered # 0 /\ Kept.tokens \in Credentials /\ \A u \in Requests \ {t} : Current(u) => task[u].pc \notin Inside
  BY <1>3, Lone
<1>5. ~Kept.persistence_pending
  BY <1>3 DEF Structure, SettledInv
<1>6. registered' = registered /\ Kept.tokens' = Kept.tokens /\ Kept.persistence_pending' = Kept.persistence_pending /\ superseded' = superseded
  BY DEF Adapts, memory, Kept
<1>7. \A u \in Tasks \ {t} : task[u].pc \notin LockStages
  BY <1>1, Holder DEF Adapts
<1>8. \A u \in Requests \ {t} : task'[u] = task[u] /\ task[u].pc \notin LoadStages \cup SaveStages
  BY <1>1, <1>7 DEF Tasks, LockStages, Others
<1>9. task[User].pc \notin DeleteStages \cup {"loginAccount"}
  BY <1>1, <1>7 DEF Tasks, LockStages
<1>10. \A p \in Credentials : Held(p) => primary = p
  BY HeldOnce DEF Adapts
<1>11. Calm(t)'
  BY ReturnedCalm DEF Adapts
<1>12. QED
  BY <1>1, <1>2, <1>4, <1>5, <1>6, <1>8, <1>9, <1>10, <1>11

\* What is known of the sign-in outlives a step under the process lock.
LEMMA RegisteringLogin ==
  ASSUME Structure, LoginInv, NEW t \in Requests, Others(t), now' = now, edits' = edits,
         registered' = registered, registered # 0, Kept.tokens' = Kept.tokens, Monotone, primary' # None,
         task[User].pc \notin DeleteStages \cup {"loginAccount"}, Registering(t)
  PROVE  LoginInv'
<1>1. User \notin Requests /\ task'[User] = task[User]
  BY TokenAssumption DEF Others, Tasks
<1>2. Login' = Login /\ (\A s : At(User, s)' = At(User, s)) /\ ~At(User, "loginAccount")
  BY <1>1 DEF Login, At
<1>3. CASE At(User, "register")
  <2>1. /\ ~Login.cut /\ Login.issued_at = now /\ use[Login.grant] # "none"
        /\ \A u \in Requests : BringsPair(u) => task[u].other.grant # Login.grant
    BY <1>3 DEF LoginInv, At
  <2>2. Login \in Credentials
    BY <1>3 DEF Structure, StageInv, StageOf, Tasks, At, LoginStages, Login
  <2>3. use'[Login.grant] # "none"
    BY <2>1, <2>2, Fields DEF Monotone
  <2>4. \A u \in Requests : BringsPair(u)' => task'[u].other.grant # Login.grant
    <3>1. \A u \in Requests \ {t} : task'[u] = task[u] /\ BringsPair(u)' = BringsPair(u)
      BY DEF BringsPair, At, Others, Tasks
    <3>2. BringsPair(t)' => task'[t].other.grant # Login.grant
      BY <1>3 DEF Registering
    <3>3. QED
      BY <2>1, <3>1, <3>2
  <2>5. /\ rotation' # None /\ rotation'.after # None => rotation'.after.grant # Login.grant
        /\ primary' = Login => /\ Alive(Login.grant)'
                               /\ rotation' # None => rotation'.before.grant # Login.grant
        /\ primary' # Login => Newer(Kept.tokens, Login)'
    <3>1. Newer(Kept.tokens, Login)' = Newer(Kept.tokens, Login)
      BY <1>2 DEF Newer
    <3>2. Alive(Login.grant)' = (use'[Login.grant] \in {"fresh", "refused", "lost"})
      BY <1>2 DEF Alive
    <3>3. QED
      BY <1>3, <3>1, <3>2 DEF Registering
  <2>6. task'[User].pc = "register" /\ registered' # 0
    BY <1>1, <1>3 DEF At
  <2> HIDE DEF Login
  <2>7. QED
    BY <1>2, <2>1, <2>3, <2>4, <2>5, <2>6 DEF LoginInv, At
<1>4. CASE ~At(User, "register")
  BY <1>1, <1>2, <1>4 DEF LoginInv, At
<1>5. QED
  BY <1>3, <1>4

\* The invariant after a step of the adapter, from what the step itself must see to.
LEMMA AdapterLedger ==
  ASSUME Sound, NEW t \in Requests, Adapts(t), NEW q \in Credentials, primary' = q,
         CheckpointInv', FlyingInv', Monotone, use'[q.grant] # "none",
         rotation' # None => use'[rotation'.before.grant] # "none",
         Registering(t), ExchangeOf(t)', StoreOf(q)'
  PROVE  LedgerInv'
<1>1. Structure /\ Apart /\ ExchangeInv /\ WriteInv /\ User \notin Requests
  BY TokenAssumption DEF Sound, LedgerInv
<1> USE Adapting
<1>2. q # None
  BY Fields
<1>3. IssuedInv'
  <2>1. Kept.tokens.grant \in Grants /\ use[Kept.tokens.grant] # "none"
    BY <1>1, Fields DEF Apart, IssuedInv
  <2>2. use'[Kept.tokens.grant] # "none"
    BY <2>1 DEF Monotone
  <2>3. use'[Kept.tokens'.grant] # "none"
    BY <1>1, <2>2
  <2>4. QED
    BY <2>3 DEF IssuedInv
<1>4. NoCredentialInv'
  BY <1>2 DEF NoCredentialInv
<1>5. LoginInv'
  BY <1>1, <1>2, RegisteringLogin DEF Apart, Adapts
<1>6. ExchangeInv' /\ WriteInv'
  <2>1. \A u \in Requests \ {t} : Spares(u)
    BY <1>1 DEF Spares, Adapts
  <2>2. WriteOf(t)'
    BY DEF Adapts, WriteOf, ExchangeStages, LoadStages, SaveStages, WriteStages, At
  <2>3. QED
    BY <1>1, <2>1, <2>2, OthersSpared
<1>7. StoreInv'
  BY <1>1 DEF StoreInv, Held, At
<1>8. QED
  BY <1>3, <1>4, <1>5, <1>6, <1>7 DEF LedgerInv, Apart

\* Nobody can send the token of the slot, still.
LEMMA AdapterQuiet ==
  ASSUME Structure, NEW t \in Requests, Adapts(t), Quiet
  PROVE  Quiet'
<1>1. now' = now /\ Others(t)
  BY DEF Adapts
<1>2. /\ t \in Tasks /\ registered # 0 /\ registered' = registered /\ Kept.tokens' = Kept.tokens
      /\ superseded' = superseded /\ Calm(t)' /\ now \in Nat
  BY Adapting
<1>3. QED
  BY <1>1, <1>2, QuietStays

\* A pair that the request carries, it carries on.
LEMMA AdapterCarries ==
  ASSUME Structure, NEW t \in Requests, Adapts(t), Carries(t) => Carries(t)'
  PROVE  Carried => Carried'
<1>1. Others(t) /\ t \in Tasks /\ registered' = registered
  BY Adapting DEF Adapts
<1>2. QED
  BY <1>1, CarriedStays, TokenAssumption

\* The checkpoint goes, or comes without a pair, while the stored grant can be sent.
LEMMA ForgettingLedger ==
  ASSUME Sound, NEW t \in Requests, Adapts(t), UNCHANGED <<primary, use>>,
         primary # None, Alive(primary.grant), ~At(t, "wait"),
         Carries(t) => Carries(t)', ~BringsPair(t)', ExchangeOf(t)',
         rotation' # None => /\ rotation'.after = None /\ use[rotation'.before.grant] # "none"
                             /\ At(User, "register") /\ primary = Login => rotation'.before.grant # Login.grant
  PROVE  LedgerInv'
<1>1. Structure /\ Apart /\ StoreInv /\ ExchangeInv
  BY DEF Sound, LedgerInv
<1> USE Adapting
<1>2. PICK q \in Credentials : primary = q
  BY <1>1, Numbers
<1>3. StoreOf(q) /\ Alive(q.grant) /\ primary' = q
  BY <1>1, <1>2 DEF StoreInv, Held
<1>4. CheckpointInv'
  BY DEF CheckpointInv
<1>5. FlyingInv'
  BY <1>1, FlyingStays DEF Apart, Adapts
<1>6. Monotone /\ use'[q.grant] # "none" /\ (rotation' # None => use'[rotation'.before.grant] # "none")
  BY <1>3 DEF Monotone, Alive
<1>7. Registering(t)
  <2>1. SUFFICES ASSUME At(User, "register") PROVE Registering(t)
    BY DEF Registering
  <2>2. /\ primary = Login => Alive(Login.grant)
        /\ primary # Login => Newer(Kept.tokens, Login)
    BY <1>1, <2>1 DEF Apart, LoginInv, At
  <2> HIDE DEF Login
  <2>3. primary' = Login => use'[Login.grant] \in {"fresh", "refused", "lost"}
    BY <2>2 DEF Alive
  <2>4. rotation' # None /\ rotation'.after # None => rotation'.after.grant # Login.grant
    OBVIOUS
  <2>5. primary' = Login => (rotation' # None => rotation'.before.grant # Login.grant)
    BY <2>1
  <2>6. BringsPair(t)' => task'[t].other.grant # Login.grant
    OBVIOUS
  <2>7. primary' # Login => Newer(Kept.tokens, Login)
    BY <2>2
  <2>8. primary' = Login => /\ use'[Login.grant] \in {"fresh", "refused", "lost"}
                            /\ rotation' # None => rotation'.before.grant # Login.grant
    BY <2>3, <2>5
  <2>9. QED
    BY <2>4, <2>6, <2>7, <2>8 DEF Registering
<1>8. StoreOf(q)'
  <2>1. SlotStays
    <3>1. Quiet => Quiet'
      BY <1>1, AdapterQuiet
    <3>2. registered' = registered /\ Kept.tokens' = Kept.tokens
          /\ Kept.persistence_pending' = Kept.persistence_pending /\ use' = use
      BY DEF Adapts, memory, Kept
    <3>3. QED
      BY <3>1, <3>2 DEF SlotStays, Alive
  <2>2. Carried => Carried'
    BY <1>1, AdapterCarries
  <2>3. Replaces(q)'
    BY <1>3 DEF Replaces, Alive
  <2>4. SigningIn(q) => SigningIn(q)'
    BY <1>1 DEF SigningIn, Login
  <2>5. now' = now /\ use' = use
    BY DEF Adapts
  <2>6. QED
    BY <1>3, <2>1, <2>2, <2>3, <2>4, <2>5, StoreForgets
<1>9. QED
  BY <1>3, <1>4, <1>5, <1>6, <1>7, <1>8, AdapterLedger

\* A stored credential without a checkpoint of its grant can be sent: what was
\* dropped is fenced, and nobody waits for it while the process lock is free.
LEMMA LoadStoredLedger ==
  ASSUME Sound, NEW t \in Requests, At(t, "exchange"), LockFree, Current(t), primary # None,
         LoadStored(t), UNCHANGED <<memory, use, bounds>>
  PROVE  LedgerInv'
<1>1. Structure /\ Apart /\ StoreInv /\ TypeOK /\ t \in Tasks
  BY DEF Sound, Structure, LedgerInv, Tasks
<1>2. PICK q \in Credentials : primary = q
  BY <1>1, Numbers
<1>3. TaskIs(t, "decide", task[t].slot, task[t].time, q, task[t].other, task[t].answer, task[t].sequel)
  BY <1>1, <1>2, Names, CarryEffect DEF LoadStored, Inside
<1>4. Others(t) /\ task'[t].pc = "decide" /\ task'[t].credential = q
  BY <1>3 DEF TaskIs
<1>5. Adapts(t)
  BY <1>4 DEF Adapts, LoadStored, bounds, ExchangeStages, LoadStages, At
<1>6. Alive(q.grant)
  <2>1. use[q.grant] \notin {"spent", "unknown"}
    BY <1>1, <1>2 DEF StoreInv, Held, StoreOf, Fenced, LoadStored, NoCheckpoint
  <2>2. use[q.grant] # "none" /\ q.grant \in Grants
    BY <1>1, <1>2, Fields DEF Apart, IssuedInv
  <2>3. use[q.grant] # "flying"
    <3>1. \A u \in Requests : ~At(u, "wait")
      BY <1>1, TokenAssumption DEF Structure, LockInv, LockFree, LockStages, LoadStages, At, Tasks
    <3>2. QED
      BY <1>1, <2>2, <3>1 DEF Apart, FlyingInv
  <2>4. use[q.grant] \in {"none", "fresh", "flying", "spent", "refused", "lost", "unknown"}
    BY <1>1, <2>2 DEF TypeOK
  <2>5. QED
    BY <2>1, <2>2, <2>3, <2>4 DEF Alive
<1>7. primary' = q /\ use' = use /\ rotation' = None
  BY <1>2 DEF LoadStored
<1>8. ~BringsPair(t)' /\ ~Ok(t)' /\ ~Carries(t) /\ ~At(t, "wait")
  BY <1>4 DEF BringsPair, Ok, Carries, At
<1>9. ExchangeOf(t)'
  <2>1. Alive(task[t].credential.grant)'
    BY <1>4, <1>6, <1>7 DEF Alive
  <2>2. q # None /\ SameTokens(primary, task[t].credential)'
    BY <1>4, <1>7, Fields DEF SameTokens, SameGrant
  <2>3. QED
    BY <1>4, <1>7, <1>8, <2>1, <2>2 DEF ExchangeOf, At, SameTokens, SameGrant
<1>10. QED
  BY <1>2, <1>5, <1>6, <1>7, <1>8, <1>9, ForgettingLedger

\* After a recovery the checkpoint goes.
LEMMA ForgetRecoveredLedger ==
  ASSUME Sound, NEW t \in Requests, ForgetRecovered(t)
  PROVE  LedgerInv'
<1>1. Structure /\ TypeOK /\ t \in Tasks /\ ExchangeOf(t) /\ task[t].pc \in LoadStages /\ task[t].pc # "saved"
  BY DEF Sound, Structure, LedgerInv, Tasks, ExchangeInv, ForgetRecovered, At, LoadStages
<1>2. TaskIs(t, "decide", task[t].slot, task[t].time, task[t].credential, task[t].other, task[t].answer, task[t].sequel)
  BY <1>1, Names, GoEffect DEF ForgetRecovered, Inside
<1>3. Others(t) /\ task'[t].pc = "decide" /\ task'[t].credential = task[t].credential
  BY <1>2 DEF TaskIs
<1>4. Adapts(t)
  BY <1>1, <1>3, Loading DEF Adapts, ForgetRecovered, bounds, ExchangeStages, LoadStages, At
<1>5. /\ primary # None /\ SameTokens(primary, task[t].credential) /\ (edits = 0 => primary = task[t].credential)
      /\ Alive(task[t].credential.grant)
  BY <1>1 DEF ExchangeOf, ForgetRecovered, At
<1>6. UNCHANGED <<primary, use, edits>> /\ rotation' = None
  BY DEF ForgetRecovered, bounds
<1>7. ~BringsPair(t)' /\ ~Ok(t)' /\ ~Carries(t) /\ ~At(t, "wait")
  BY <1>3 DEF BringsPair, Ok, Carries, At, ForgetRecovered
<1>8. ExchangeOf(t)'
  <2>1. Alive(task[t].credential.grant)' /\ SameTokens(primary, task[t].credential)' /\ primary' # None
        /\ (edits' = 0 => primary' = task'[t].credential)
    BY <1>3, <1>5, <1>6 DEF Alive, SameTokens, SameGrant
  <2>2. QED
    BY <1>3, <1>6, <1>7, <2>1 DEF ExchangeOf, At
<1>9. Alive(primary.grant)
  BY <1>5 DEF SameTokens, SameGrant
<1>10. QED
  BY <1>4, <1>5, <1>6, <1>7, <1>8, <1>9, ForgettingLedger

\* A grant is sent behind a checkpoint.  The credential has expired for the
\* request, so it is not that of a sign-in under way; then the slot is one
\* renewal behind it at most, and what this one brings is newer.
LEMMA CheckpointGrantLedger ==
  ASSUME Sound, NEW t \in Requests, CheckpointGrant(t)
  PROVE  LedgerInv'
<1> DEFINE c == task[t].credential
<1>1. /\ Structure /\ Apart /\ StoreInv /\ TypeOK /\ t \in Tasks /\ ExchangeOf(t)
      /\ task[t].pc \in LoadStages /\ task[t].pc = "decide"
  BY DEF Sound, Structure, LedgerInv, Tasks, ExchangeInv, CheckpointGrant, At, LoadStages
<1>2. Current(t) /\ c \in Credentials /\ task[t].time \in Nat /\ task[t].time <= now /\ lock = t /\ ~Carried
  <2>1. \A u \in Requests \ {t} : Current(u) => task[u].pc \notin Inside
    BY <1>1, Loading
  <2>2. ~Carries(t)
    BY <1>1 DEF Carries, Ok, At
  <2>3. ~Carried
    BY <2>1, <2>2 DEF Carried, Carries, Inside, Ok, At
  <2>4. QED
    BY <1>1, <2>3, Loading
<1>3. rotation' = [before |-> c, after |-> None] /\ Go(t, "send") /\ ~Usable(c, task[t].time)
      /\ UNCHANGED <<primary, use, now, edits, crashes, memory>>
  BY <1>2 DEF CheckpointGrant, bounds
<1>4. TaskIs(t, "send", task[t].slot, task[t].time, c, task[t].other, task[t].answer, task[t].sequel)
  BY <1>1, <1>3, Names, GoEffect DEF Inside
<1>5. Others(t) /\ task'[t].pc = "send" /\ task'[t].credential = c /\ task'[t].time = task[t].time
  BY <1>4 DEF TaskIs
<1>6. Adapts(t)
  BY <1>1, <1>2, <1>3, <1>5 DEF Adapts, ExchangeStages, LoadStages
<1>7. /\ primary # None /\ SameTokens(primary, c) /\ (edits = 0 => primary = c) /\ Alive(c.grant)
  BY <1>1 DEF ExchangeOf, LoadStages
<1>8. PICK q \in Credentials : primary = q
  BY <1>1, <1>7, Numbers
<1>9. /\ q.grant = c.grant /\ q.generation = c.generation /\ q.issued_at = c.issued_at /\ q.cut = c.cut
      /\ StoreOf(q)
  BY <1>1, <1>7, <1>8 DEF SameTokens, SameGrant, StoreInv, Held
<1>10. /\ c.generation \in Nat /\ c.issued_at \in Nat /\ c.cut \in BOOLEAN /\ Lifetime \in Nat /\ Lifetime > 0 /\ now \in Nat
       /\ registered # 0 /\ Kept.tokens.generation \in Nat /\ Kept.tokens \in Credentials
  BY <1>1, <1>2, Numbers, Fields, Loading
<1> HIDE DEF c
<1>11. ~SigningIn(q)
  <2>1. SUFFICES ASSUME SigningIn(q) PROVE FALSE
    OBVIOUS
  <2>2. ~q.cut /\ q.issued_at = now
    BY <1>1, <2>1 DEF SigningIn, Apart, LoginInv
  <2>3. Usable(c, task[t].time)
    BY <1>2, <1>9, <1>10, <2>2 DEF Usable
  <2>4. QED
    BY <1>3, <2>3
<1>12. Ahead(t, c)
  <2>1. Kept.tokens.generation + 1 >= c.generation /\ (c.cut => Kept.tokens.generation >= c.generation)
    BY <1>2, <1>9, <1>10, <1>11 DEF StoreOf, Lags
  <2>2. ~c.cut => task[t].time > c.issued_at
    BY <1>2, <1>3, <1>10 DEF Usable
  <2>3. QED
    BY <1>2, <1>10, <2>1, <2>2 DEF Ahead
<1>13. ~BringsPair(t)' /\ ~Ok(t)' /\ ~Carries(t) /\ ~At(t, "wait")
  BY <1>1, <1>5 DEF BringsPair, Ok, Carries, At
<1>14. rotation'.before = c /\ rotation'.after = None /\ rotation' # None
  <2>1. rotation' \in Checkpoints
    BY <1>2, <1>3, Names DEF Checkpoints, c
  <2>2. rotation' # None
    BY <2>1, NoneAssumption
  <2>3. QED
    BY <1>3, <2>2
<1>15. ExchangeOf(t)'
  <2>1. Ahead(t, c)'
    <3>1. c' = c
      BY <1>5 DEF c
    <3>2. Kept.tokens' = Kept.tokens
      BY <1>1, <1>6, Adapting
    <3>3. QED
      BY <1>5, <1>12, <3>1, <3>2 DEF Ahead
  <2>2. SameTokens(primary', c) /\ primary' # None /\ (edits' = 0 => primary' = c) /\ Alive(c.grant)'
    <3>1. c' = c
      BY <1>5 DEF c
    <3>2. QED
      BY <1>3, <1>7, <3>1 DEF Alive
  <2>3. SameTokens(rotation'.before, c) /\ ~Usable(c, task'[t].time)
    BY <1>3, <1>5, <1>14 DEF SameTokens, SameGrant
  <2>4. c' = c
    BY <1>5 DEF c
  <2>5. QED
    BY <1>5, <1>13, <1>14, <2>1, <2>2, <2>3, <2>4 DEF ExchangeOf, At, c, SameTokens, SameGrant, Usable, Alive
<1>16. use[rotation'.before.grant] # "none" /\ (At(User, "register") /\ primary = Login => rotation'.before.grant # Login.grant)
  <2>1. use[c.grant] # "none"
    BY <1>7 DEF Alive
  <2>2. ~(At(User, "register") /\ primary = Login)
    BY <1>8, <1>11 DEF SigningIn, At
  <2>3. QED
    BY <1>14, <2>1, <2>2
<1>17. Alive(primary.grant)
  BY <1>7 DEF SameTokens, SameGrant
<1>18. QED
  BY <1>3, <1>6, <1>7, <1>13, <1>14, <1>15, <1>16, <1>17, ForgettingLedger

\* A failure the provider reports leaves the grant to be used again.
LEMMA FailRefreshLedger ==
  ASSUME Sound, NEW t \in Requests, FailRefresh(t)
  PROVE  LedgerInv'
<1>1. /\ Structure /\ TypeOK /\ t \in Tasks /\ ExchangeOf(t) /\ StageOf(t)
      /\ task[t].pc \in LoadStages /\ task[t].pc = "answered" /\ task[t].answer # "ok"
  BY DEF Sound, Structure, StageInv, LedgerInv, Tasks, ExchangeInv, FailRefresh, At, LoadStages
<1>2. primary # None /\ SameTokens(primary, task[t].credential) /\ task[t].answer \in Answers \ {"ok"}
      /\ Alive(task[t].credential.grant)
  BY <1>1 DEF ExchangeOf, At, LoadStages, Answers
<1>3. Alive(primary.grant)
  BY <1>2 DEF SameTokens, SameGrant
<1>4. TaskIs(t, "returned", task[t].slot, task[t].time, None, None, task[t].answer, task[t].sequel)
  BY <1>1, <1>2, AnswerEffect DEF FailRefresh
<1>5. Others(t) /\ task'[t].pc = "returned" /\ task'[t].answer # "ok"
  BY <1>1, <1>4 DEF TaskIs
<1>6. Adapts(t)
  BY <1>1, <1>5, Loading DEF Adapts, FailRefresh, bounds, ExchangeStages, LoadStages
<1>7. ~BringsPair(t)' /\ ~Ok(t)' /\ ~Carries(t) /\ ~At(t, "wait") /\ ExchangeOf(t)'
  BY <1>1, <1>5 DEF BringsPair, Ok, Carries, At, ExchangeOf, LoadStages
<1>8. UNCHANGED <<primary, use>> /\ rotation' = None
  BY DEF FailRefresh
<1>9. QED
  BY <1>2, <1>3, <1>6, <1>7, <1>8, ForgettingLedger

\* The stored pair needs no checkpoint any more.
LEMMA ForgetRotatedLedger ==
  ASSUME Sound, NEW t \in Requests, ForgetRotated(t)
  PROVE  LedgerInv'
<1>1. /\ Structure /\ TypeOK /\ t \in Tasks /\ ExchangeOf(t) /\ BringsPair(t)
      /\ task[t].pc \in LoadStages /\ At(t, "saved")
  BY DEF Sound, Structure, LedgerInv, Tasks, ExchangeInv, ForgetRotated, At, LoadStages, BringsPair
<1>2. Current(t) /\ task[t].other \in Credentials
  BY <1>1, Loading
<1>3. primary # None /\ SameTokens(primary, task[t].other) /\ Alive(task[t].other.grant)
  BY <1>1 DEF ExchangeOf, Alive
<1>4. Alive(primary.grant)
  BY <1>3 DEF SameTokens, SameGrant
<1>5. TaskIs(t, "returned", task[t].slot, task[t].time, task[t].other, None, "ok", task[t].sequel)
  BY <1>1, <1>2, Names, AnswerOkEffect DEF ForgetRotated
<1>6. Others(t) /\ task'[t].pc = "returned" /\ task'[t].answer = "ok" /\ task'[t].credential = task[t].other
      /\ task'[t].slot = task[t].slot
  BY <1>5 DEF TaskIs
<1>7. Adapts(t)
  BY <1>1, <1>2, <1>6, Loading DEF Adapts, ForgetRotated, bounds, ExchangeStages, LoadStages, At
<1>8. UNCHANGED <<primary, use>> /\ rotation' = None /\ registered' = registered
  BY DEF ForgetRotated, memory
<1>9. ~BringsPair(t)' /\ Carries(t)' /\ ~At(t, "wait")
  BY <1>1, <1>2, <1>6, <1>8 DEF BringsPair, Ok, Carries, At, Current
<1>10. ExchangeOf(t)'
  <2>1. Alive(task[t].credential.grant)'
    BY <1>3, <1>6, <1>8 DEF Alive
  <2>2. QED
    BY <1>6, <1>9, <2>1 DEF ExchangeOf, LoadStages, At
<1>11. QED
  BY <1>3, <1>4, <1>7, <1>8, <1>9, <1>10, ForgettingLedger

\* A received pair whose write was not seen to finish takes the place of the
\* grant it replaced.  What the slot has is the old token then, sent by
\* nobody, or a newer one.
LEMMA RecoverRotationLedger ==
  ASSUME Sound, NEW t \in Requests, At(t, "exchange"), LockFree, Current(t), primary # None,
         RecoverRotation(t), UNCHANGED <<memory, use, bounds>>
  PROVE  LedgerInv'
<1> DEFINE q == primary'
<1>1. Structure /\ Apart /\ StoreInv /\ TypeOK /\ t \in Tasks
  BY DEF Sound, Structure, LedgerInv, Tasks
<1>2. /\ rotation # None /\ rotation.after # None /\ SameGrant(primary, rotation.before)
      /\ q = [rotation.after EXCEPT !.proxy = primary.proxy]
      /\ task' = [task EXCEPT ![t].pc = "recovered", ![t].credential = q]
      /\ UNCHANGED <<rotation, use, now, edits, crashes>>
  BY DEF RecoverRotation, NoCheckpoint, Recoverable, bounds
<1>3. primary \in Credentials /\ rotation.after \in Credentials /\ rotation.before \in Credentials
  BY <1>1, <1>2, Numbers
<1>4. /\ q \in Credentials /\ q.grant = rotation.after.grant /\ q.generation = rotation.after.generation
      /\ q.issued_at = rotation.after.issued_at /\ q.cut = rotation.after.cut
  BY <1>2, <1>3 DEF Credentials
<1> HIDE DEF q
<1>5. TaskIs(t, "recovered", task[t].slot, task[t].time, q, task[t].other, task[t].answer, task[t].sequel)
  BY <1>1, <1>2, <1>4, Names, CarryEffect DEF Inside
<1>6. Others(t) /\ task'[t].pc = "recovered" /\ task'[t].credential = q
  BY <1>5 DEF TaskIs
<1>7. Adapts(t)
  BY <1>6, <1>2 DEF Adapts, ExchangeStages, LoadStages, At
<1>8. /\ use[q.grant] = "fresh" /\ use[rotation.before.grant] = "spent" /\ ~q.cut
      /\ q.generation = primary.generation + 1 /\ rotation.before.generation = primary.generation
      /\ rotation.before.grant = primary.grant
  BY <1>1, <1>2, <1>4 DEF Apart, CheckpointInv, SameGrant
<1>9. StoreOf(primary) /\ Recovers(primary)
  BY <1>1, <1>2, <1>3 DEF StoreInv, Held, Recovers
<1>10. primary.generation \in Nat /\ Kept.tokens \in Credentials /\ Kept.tokens.generation \in Nat /\ registered # 0
       /\ ~Kept.persistence_pending /\ ~Carried
  <2>1. \A u \in Requests \ {t} : Current(u) => task[u].pc \notin Inside
    BY <1>1, <1>7, Adapting
  <2>2. ~Carried
    BY <2>1 DEF Carried, Carries, Inside, Ok, At
  <2>3. QED
    BY <1>1, <1>3, <1>7, <2>2, Adapting, Fields
<1>11. /\ Kept.tokens.generation >= primary.generation /\ Kept.tokens.grant # q.grant
       /\ Alive(Kept.tokens.grant) \/ Quiet
  BY <1>4, <1>9, <1>10 DEF StoreOf, Recovered
<1>12. registered' = registered /\ Kept.tokens' = Kept.tokens /\ ~Kept.persistence_pending'
  BY <1>1, <1>7, Adapting
<1>13. ~BringsPair(t)' /\ ~Ok(t)' /\ ~At(t, "wait")
  BY <1>6 DEF BringsPair, Ok, At
<1>14. CheckpointInv' /\ FlyingInv' /\ Monotone
  BY <1>1, <1>2, <1>6, <1>13, FlyingStays DEF Apart, CheckpointInv, Monotone
<1>15. Registering(t)
  <2>1. SUFFICES ASSUME At(User, "register") PROVE Registering(t)
    BY DEF Registering
  <2>2. /\ rotation.after.grant # Login.grant
        /\ primary = Login => rotation.before.grant # Login.grant
        /\ primary # Login => Newer(Kept.tokens, Login)
    BY <1>1, <1>2, <2>1 DEF Apart, LoginInv, At
  <2>3. primary # Login
    BY <1>8, <2>2
  <2>4. q # Login
    BY <1>4, <2>2
  <2>5. QED
    BY <1>2, <1>13, <2>2, <2>3, <2>4 DEF Registering, q
<1>16. ExchangeOf(t)'
  <2>1. Alive(q.grant)
    BY <1>8 DEF Alive
  <2>2. /\ primary' # None /\ SameTokens(primary', task'[t].credential) /\ primary' = task'[t].credential
        /\ rotation' # None
    BY <1>2, <1>4, <1>6, Fields DEF q, SameTokens, SameGrant
  <2>3. Alive(task[t].credential.grant)'
    BY <1>2, <1>6, <2>1 DEF Alive
  <2>4. QED
    BY <1>6, <1>13, <2>2, <2>3 DEF ExchangeOf, At, SameTokens, SameGrant
<1>17. \A p \in Credentials : p = q => StoreOf(p)'
  <2>1. SUFFICES ASSUME NEW p \in Credentials, p = q PROVE StoreOf(p)'
    OBVIOUS
  <2>2. ~Recovers(p)' /\ Alive(p.grant)' /\ use'[p.grant] \notin {"spent", "unknown"}
    BY <1>2, <1>8, <1>10, <2>1 DEF Recovers, SameGrant, Alive
  <2>3. Fenced(p)' /\ Expired(p)' /\ Recovered(p)' /\ Retained(p)'
    BY <2>2 DEF Fenced, Expired, Recovered, Retained
  <2>4. Mergeable(p)' /\ Replaces(p)'
    BY <1>12, <2>2 DEF Mergeable, Replaces
  <2>5. Superseded(p)'
    <3>1. Quiet => Quiet'
      BY <1>1, <1>7, AdapterQuiet
    <3>2. Alive(Kept.tokens.grant)' = Alive(Kept.tokens.grant)
      BY <1>2, <1>12 DEF Alive
    <3>3. QED
      BY <1>11, <3>1, <3>2 DEF Superseded
  <2>6. Lags(p)'
    BY <1>8, <1>10, <1>11, <1>12, <2>1 DEF Lags
  <2>7. Written(p)'
    BY <1>11, <1>12, <2>1 DEF Written
  <2>8. QED
    BY <2>3, <2>4, <2>5, <2>6, <2>7 DEF StoreOf
<1>18. \E p \in Credentials : p = q /\ primary' = p /\ StoreOf(p)'
  BY <1>4, <1>17 DEF q
<1>19. PICK p \in Credentials : p = q /\ primary' = p /\ StoreOf(p)'
  BY <1>18
<1>20. use'[p.grant] # "none" /\ (rotation' # None => use'[rotation'.before.grant] # "none")
  BY <1>2, <1>8, <1>19
<1>21. QED
  BY <1>7, <1>14, <1>15, <1>16, <1>19, <1>20, AdapterLedger

\* Load, whatever it finds.
LEMMA LoadLedger ==
  ASSUME Sound, NEW t \in Requests, Load(t)
  PROVE  LedgerInv'
<1>1. At(t, "exchange") /\ LockFree /\ UNCHANGED <<memory, use, bounds>>
  BY DEF Load
<1>2. ASSUME NEW answer \in Answers \ {"ok"}, Answer(t, answer), UNCHANGED durable PROVE LedgerInv'
  <2>1. SameStore /\ UNCHANGED memory /\ task[t].pc = "exchange"
    BY <1>1, <1>2 DEF SameStore, durable, bounds, At
  <2>2. QED
    BY <1>2, <2>1, AdapterFaultLedger
<1>3. "transient" \in Answers \ {"ok"} /\ "recovery" \in Answers \ {"ok"}
  BY DEF Answers
<1>4. CASE Current(t) /\ primary # None
  BY <1>1, <1>2, <1>3, <1>4, LoadStoredLedger, RecoverRotationLedger DEF Load, RequireRecovery
<1>5. CASE ~(Current(t) /\ primary # None)
  BY <1>1, <1>2, <1>3, <1>5 DEF Load
<1>6. QED
  BY <1>4, <1>5

\* What is known of the store by a request that renews the stored credential.
LEMMA Renewing ==
  ASSUME Sound, NEW t \in Requests, task[t].pc \in {"send", "wait", "answered", "rotated"}
  PROVE  /\ primary \in Credentials /\ StoreOf(primary) /\ SameTokens(primary, task[t].credential)
         /\ (edits = 0 => primary = task[t].credential)
         /\ rotation # None /\ SameTokens(rotation.before, task[t].credential)
         /\ ~Usable(task[t].credential, task[t].time) /\ Ahead(t, task[t].credential)
         /\ rotation.before \in Credentials /\ task[t].pc \in LoadStages
         /\ At(User, "register") /\ primary = Login => task[t].credential.grant # Login.grant
<1>1. Structure /\ ExchangeOf(t) /\ LoginInv /\ StoreInv /\ task[t].pc \in LoadStages /\ task[t].pc # "saved"
  BY DEF Sound, LedgerInv, Apart, ExchangeInv, LoadStages
<1>2. /\ primary # None /\ SameTokens(primary, task[t].credential) /\ (edits = 0 => primary = task[t].credential)
      /\ rotation # None /\ SameTokens(rotation.before, task[t].credential)
      /\ ~Usable(task[t].credential, task[t].time) /\ Ahead(t, task[t].credential)
  BY <1>1 DEF ExchangeOf
<1>3. primary \in Credentials /\ rotation.before \in Credentials
  BY <1>1, <1>2, Numbers
<1>4. StoreOf(primary)
  BY <1>1, <1>3 DEF StoreInv, Held
<1>5. At(User, "register") /\ primary = Login => task[t].credential.grant # Login.grant
  BY <1>1, <1>2 DEF LoginInv, At, SameTokens, SameGrant
<1>6. QED
  BY <1>1, <1>2, <1>3, <1>4, <1>5

\* The received pair is written down before it is used.
LEMMA CheckpointRotationLedger ==
  ASSUME Sound, NEW t \in Requests, CheckpointRotation(t)
  PROVE  LedgerInv'
<1> DEFINE c == task[t].credential
           o == task[t].other
<1>1. /\ Structure /\ Apart /\ StoreInv /\ TypeOK /\ t \in Tasks /\ ExchangeOf(t)
      /\ task[t].pc \in LoadStages /\ At(t, "answered") /\ task[t].pc = "answered" /\ BringsPair(t)
  BY DEF Sound, Structure, LedgerInv, Tasks, ExchangeInv, CheckpointRotation, At, LoadStages, BringsPair
<1>2. c \in Credentials /\ o \in Credentials /\ lock = t /\ Current(t) /\ task[t].time \in Nat /\ task[t].time <= now
      /\ now \in Nat /\ registered # 0 /\ Kept.tokens \in Credentials
  BY <1>1, Loading
<1>3. /\ rotation' = [before |-> c, after |-> o] /\ Go(t, "rotated") /\ primary = c
      /\ UNCHANGED <<primary, use, now, edits, crashes, memory>>
  BY DEF CheckpointRotation, Unchanged, bounds
<1>4. TaskIs(t, "rotated", task[t].slot, task[t].time, c, o, task[t].answer, task[t].sequel)
  BY <1>1, <1>3, Names, GoEffect DEF Inside
<1>5. /\ Others(t) /\ task'[t].pc = "rotated" /\ task'[t].credential = c /\ task'[t].other = o
      /\ task'[t].time = task[t].time /\ task'[t].slot = task[t].slot
  BY <1>4 DEF TaskIs
<1>6. Adapts(t)
  BY <1>1, <1>2, <1>3, <1>5 DEF Adapts, ExchangeStages, LoadStages
<1>7. /\ StoreOf(c) /\ ~Usable(c, task[t].time) /\ Ahead(t, c)
      /\ At(User, "register") /\ primary = Login => c.grant # Login.grant
  BY <1>1, <1>3, Renewing
<1>8. /\ use[c.grant] = "spent" /\ use[o.grant] = "fresh"
      /\ o.generation = c.generation + 1 /\ ~o.cut /\ o.grant # Kept.tokens.grant
  BY <1>1 DEF ExchangeOf, At, BringsPair, Alive
<1> HIDE DEF c, o
<1>9. rotation' # None /\ rotation'.before = c /\ rotation'.after = o /\ o # None
  <2>1. rotation' \in Checkpoints
    BY <1>2, <1>3, Names DEF Checkpoints
  <2>2. QED
    BY <1>2, <1>3, <2>1, NoneAssumption
<1>10. /\ registered' = registered /\ Kept.tokens' = Kept.tokens /\ ~Kept.persistence_pending'
       /\ ~Kept.persistence_pending
  BY <1>1, <1>6, Adapting
<1>11. c' = c /\ o' = o /\ BringsPair(t)' /\ ~Ok(t)' /\ ~At(t, "wait") /\ Current(t)'
  BY <1>1, <1>2, <1>5, <1>10 DEF c, o, BringsPair, Ok, At, Current
<1>12. Carries(t)' /\ Brings(t)' /\ (Carried')  /\ (Brought')
  BY <1>5, <1>11 DEF Carries, Brings, Carried, Brought
<1>13. CheckpointInv' /\ FlyingInv' /\ Monotone
  BY <1>1, <1>3, <1>5, <1>8, <1>9, <1>11, FlyingStays DEF Apart, CheckpointInv, Monotone
<1>14. Registering(t)
  <2>1. \A u \in Requests : At(User, "register") /\ BringsPair(u) => task[u].other.grant # Login.grant
    BY <1>1 DEF Apart, LoginInv, At
  <2>2. At(User, "register") /\ primary # Login => Newer(Kept.tokens, Login)
    BY <1>1 DEF Apart, LoginInv, At
  <2>3. At(User, "register") => o.grant # Login.grant
    BY <1>1, <2>1 DEF o
  <2>4. At(User, "register") => primary # Login
    <3>1. SUFFICES ASSUME At(User, "register"), primary = Login PROVE FALSE
      OBVIOUS
    <3>2. Alive(Login.grant)
      BY <1>1, <3>1 DEF Apart, LoginInv, At
    <3>3. QED
      BY <1>3, <1>8, <3>1, <3>2 DEF Alive
  <2>5. QED
    BY <1>3, <1>5, <1>9, <2>2, <2>3, <2>4 DEF Registering
<1>15. ExchangeOf(t)'
  <2>1. Ahead(t, c)'
    BY <1>5, <1>7, <1>10, <1>11 DEF Ahead
  <2>2. /\ primary' # None /\ primary' = c /\ SameTokens(primary', c) /\ SameTokens(rotation'.before, c)
        /\ ~Usable(c, task'[t].time)
    BY <1>2, <1>3, <1>5, <1>7, <1>9, Fields DEF SameTokens, SameGrant
  <2>3. use'[c.grant] = "spent" /\ use'[o.grant] = "fresh" /\ o.grant # Kept.tokens'.grant
    BY <1>3, <1>8, <1>10
  <2>4. QED
    BY <1>5, <1>8, <1>9, <1>11, <2>1, <2>2, <2>3 DEF ExchangeOf, At, c, o, SameTokens, SameGrant, Usable, Alive
<1>16. PICK q \in Credentials : q = c
  BY <1>2
<1>17. StoreOf(q)'
  <2>1. Recovers(q)' /\ ~Alive(q.grant)' /\ StoreOf(q) /\ now' = now
    BY <1>3, <1>7, <1>8, <1>9, <1>16 DEF Recovers, SameGrant, Alive
  <2>2. Fenced(q)'
    BY <1>9, <1>16 DEF Fenced, SameGrant
  <2>3. Expired(q)'
    <3>1. c.issued_at \in Nat /\ Lifetime \in Nat
      BY <1>1, <1>2, Fields, Numbers
    <3>2. ~Usable(c, now)
      BY <1>2, <1>7, <3>1 DEF Usable
    <3>3. QED
      BY <1>16, <2>1, <3>2 DEF Expired, Usable
  <2>4. Mergeable(q)' /\ Superseded(q)' /\ Recovered(q)' /\ Retained(q)'
    BY <1>10, <1>12 DEF Mergeable, Superseded, Recovered, Retained
  <2>5. Replaces(q)'
    <3>1. \A u \in Requests : ~(Ok(u)' /\ Current(u)')
      <4>1. \A u \in Requests \ {t} : task'[u] = task[u] /\ (Current(u) => task[u].pc \notin Inside)
        BY <1>1, <1>6, Adapting
      <4>2. QED
        BY <1>10, <1>11, <4>1 DEF Ok, At, Current, Inside
    <3>2. QED
      BY <3>1 DEF Replaces
  <2>6. SigningIn(q) => SigningIn(q)'
    BY <1>1, <1>6, Adapting DEF SigningIn, Login
  <2>7. Lags(q)'
    BY <1>10, <1>12, <2>1, <2>6 DEF StoreOf, Lags
  <2>8. Written(q)'
    BY <1>10, <2>1 DEF StoreOf, Written
  <2>9. QED
    BY <2>2, <2>3, <2>4, <2>5, <2>7, <2>8 DEF StoreOf
<1>18. primary' = q /\ use'[q.grant] # "none" /\ (rotation' # None => use'[rotation'.before.grant] # "none")
  BY <1>3, <1>8, <1>9, <1>16
<1>19. QED
  BY <1>6, <1>13, <1>14, <1>15, <1>17, <1>18, AdapterLedger

\* The stored pair takes the place of the spent grant; the slot has yet to get it.
LEMMA SaveRotatedLedger ==
  ASSUME Sound, NEW t \in Requests, SaveRotated(t)
  PROVE  LedgerInv'
<1> DEFINE c == task[t].credential
           o == task[t].other
<1>1. /\ Structure /\ Apart /\ StoreInv /\ TypeOK /\ t \in Tasks /\ ExchangeOf(t)
      /\ task[t].pc \in LoadStages /\ task[t].pc = "rotated" /\ BringsPair(t)
  BY DEF Sound, Structure, LedgerInv, Tasks, ExchangeInv, SaveRotated, At, LoadStages, BringsPair
<1>2. c \in Credentials /\ o \in Credentials /\ lock = t /\ Current(t)
      /\ registered # 0 /\ Kept.tokens \in Credentials
  BY <1>1, Loading
<1>3. /\ primary' = o /\ Go(t, "saved")
      /\ UNCHANGED <<rotation, use, now, edits, crashes, memory>>
  BY DEF SaveRotated, bounds
<1>4. TaskIs(t, "saved", task[t].slot, task[t].time, c, o, task[t].answer, task[t].sequel)
  BY <1>1, <1>3, Names, GoEffect DEF Inside
<1>5. /\ Others(t) /\ task'[t].pc = "saved" /\ task'[t].credential = c /\ task'[t].other = o
      /\ task'[t].slot = task[t].slot
  BY <1>4 DEF TaskIs
<1>6. Adapts(t)
  BY <1>1, <1>2, <1>3, <1>5 DEF Adapts, ExchangeStages, LoadStages
<1>7. /\ SameTokens(primary, c) /\ rotation # None /\ SameTokens(rotation.before, c) /\ Ahead(t, c)
      /\ rotation.before \in Credentials
  BY <1>1, Renewing
<1>8. /\ use[c.grant] = "spent" /\ use[o.grant] = "fresh" /\ rotation.after = o
      /\ o.generation = c.generation + 1 /\ ~o.cut /\ o.grant # Kept.tokens.grant
  BY <1>1 DEF ExchangeOf, At, BringsPair
<1>9. /\ c.generation \in Nat /\ Kept.tokens.generation \in Nat /\ o # None
      /\ c.generation <= Kept.tokens.generation + 1
  <2>1. c.generation \in Nat /\ Kept.tokens.generation \in Nat /\ o # None
    BY <1>2, Fields
  <2>2. QED
    BY <1>7, <2>1 DEF Ahead
<1> HIDE DEF c, o
<1>10. registered' = registered /\ Kept.tokens' = Kept.tokens /\ ~Kept.persistence_pending'
  BY <1>1, <1>6, Adapting
<1>11. c' = c /\ o' = o /\ BringsPair(t)' /\ ~Ok(t)' /\ ~At(t, "wait") /\ Current(t)'
  BY <1>1, <1>2, <1>5, <1>10 DEF c, o, BringsPair, Ok, At, Current
<1>12. (Carried')
  BY <1>5, <1>11 DEF Carries, Carried
<1>13. CheckpointInv' /\ FlyingInv' /\ Monotone
  BY <1>1, <1>3, <1>5, <1>11, FlyingStays DEF Apart, CheckpointInv, Monotone
<1>14. Registering(t)
  <2>1. SUFFICES ASSUME At(User, "register") PROVE Registering(t)
    BY DEF Registering
  <2>2. /\ primary # Login => Newer(Kept.tokens, Login)
        /\ primary = Login => Alive(Login.grant)
        /\ o.grant # Login.grant
    BY <1>1, <2>1 DEF Apart, LoginInv, At, o
  <2>3. primary # Login
    BY <1>7, <1>8, <2>2 DEF Alive, SameTokens, SameGrant
  <2>4. QED
    BY <1>3, <1>5, <1>8, <2>2, <2>3 DEF Registering
<1>15. ExchangeOf(t)'
  <2>1. primary' # None /\ SameTokens(primary', o) /\ use'[o.grant] = "fresh"
    BY <1>2, <1>3, <1>8, Fields DEF SameTokens, SameGrant
  <2>2. QED
    BY <1>5, <1>11, <2>1 DEF ExchangeOf, At, c, o, SameTokens, SameGrant
<1>16. PICK q \in Credentials : q = o
  BY <1>2
<1>17. StoreOf(q)'
  <2>1. ~Recovers(q)' /\ Alive(q.grant)' /\ use'[q.grant] \notin {"spent", "unknown"}
    BY <1>3, <1>7, <1>8, <1>9, <1>16 DEF Recovers, SameTokens, SameGrant, Alive
  <2>2. Fenced(q)' /\ Expired(q)' /\ Recovered(q)' /\ Retained(q)' /\ Replaces(q)'
    BY <2>1 DEF Fenced, Expired, Recovered, Retained, Replaces
  <2>3. Mergeable(q)' /\ Superseded(q)' 
    BY <1>10, <1>12 DEF Mergeable, Superseded
  <2>4. Lags(q)'
    BY <1>8, <1>9, <1>10, <1>12, <1>16 DEF Lags
  <2>5. Written(q)'
    BY <1>8, <1>10, <1>16 DEF Written
  <2>6. QED
    BY <2>2, <2>3, <2>4, <2>5 DEF StoreOf
<1>18. primary' = q /\ use'[q.grant] # "none" /\ (rotation' # None => use'[rotation'.before.grant] # "none")
  BY <1>3, <1>7, <1>8, <1>16 DEF SameTokens, SameGrant
<1>19. QED
  BY <1>6, <1>13, <1>14, <1>15, <1>17, <1>18, AdapterLedger

\* While the grant is in flight the checkpoint names it and the store keeps it:
\* nothing else changes but what becomes of it.
LEMMA InFlightLedger ==
  ASSUME Sound, NEW t \in Requests, Adapts(t), UNCHANGED <<primary, rotation>>,
         task[t].pc \in {"send", "wait"}, task'[t].pc \in {"wait", "answered"}, task'[t].slot = task[t].slot,
         \A g \in Grants : g # task[t].credential.grant /\ use[g] # "none" => use'[g] = use[g],
         use'[task[t].credential.grant] # "none", FlyingInv', ExchangeOf(t)',
         BringsPair(t)' => use[task'[t].other.grant] = "none",
         use'[task[t].credential.grant] = "spent" => BringsPair(t)'
  PROVE  LedgerInv'
<1> DEFINE c == task[t].credential
<1>1. /\ Structure /\ Apart /\ ExchangeOf(t)
      /\ rotation.after = None /\ task[t].pc \in LoadStages
  BY DEF Sound, LedgerInv, ExchangeInv, ExchangeOf, LoadStages
<1>2. /\ SameTokens(primary, c) /\ rotation # None /\ SameTokens(rotation.before, c)
      /\ primary \in Credentials /\ StoreOf(primary) /\ rotation.before \in Credentials
      /\ At(User, "register") /\ primary = Login => c.grant # Login.grant
  BY Renewing
<1>3. PICK q \in Credentials : q = primary
  BY <1>2
<1>4. q.grant = c.grant /\ SameGrant(q, rotation.before) /\ rotation.before.grant = c.grant
  BY <1>2, <1>3 DEF SameTokens, SameGrant
<1>5. /\ registered # 0 /\ registered' = registered /\ Kept.tokens' = Kept.tokens /\ ~Kept.persistence_pending'
      /\ ~Kept.persistence_pending /\ Kept.tokens \in Credentials /\ t \in Tasks /\ Current(t)
  BY <1>1, Adapting DEF Adapts
<1>6. Kept.tokens.grant \in Grants /\ use[Kept.tokens.grant] # "none"
  BY <1>1, <1>5, Fields DEF Apart, IssuedInv
<1> HIDE DEF c
<1>7. ~Carries(t) /\ ~Ok(t)'
  BY DEF Carries, Ok, At
<1>8. CheckpointInv'
  BY <1>1 DEF CheckpointInv
<1>9. Monotone
  <2>1. SUFFICES ASSUME NEW g \in Grants, use[g] # "none" PROVE use'[g] # "none"
    BY DEF Monotone
  <2>2. g = c.grant \/ use'[g] = use[g]
    BY <2>1 DEF c
  <2>3. QED
    BY <2>1, <2>2 DEF c
<1>10. Registering(t)
  <2>1. SUFFICES ASSUME At(User, "register") PROVE Registering(t)
    BY DEF Registering
  <2>2. /\ rotation # None /\ rotation.after # None => rotation.after.grant # Login.grant
        /\ primary # Login => Newer(Kept.tokens, Login)
        /\ use[Login.grant] # "none"
    BY <1>1, <2>1 DEF Apart, LoginInv, At
  <2>3. primary # Login
    BY <1>2, <1>3, <1>4, <2>1
  <2>4. QED
    BY <2>2, <2>3 DEF Registering
<1>11. StoreOf(q) /\ (Carried => Carried') /\ (Quiet => Quiet')
  BY <1>1, <1>2, <1>3, <1>7, AdapterCarries, AdapterQuiet
<1>12. StoreOf(q)'
  <2>1. ~Recovers(q)'
    BY <1>1 DEF Recovers
  <2>2. Fenced(q)' /\ Expired(q)' /\ Recovered(q)' /\ Mergeable(q)'
    BY <1>2, <1>4, <1>5, <2>1 DEF Fenced, Expired, Recovered, Mergeable, SameGrant
  <2>3. SigningIn(q) => SigningIn(q)'
    BY <1>1, Adapting DEF SigningIn, Login
  <2>4. Superseded(q)'
    <3>1. SUFFICES ASSUME ~Alive(Kept.tokens.grant)', Kept.tokens.grant # q.grant PROVE Superseded(q)'
      BY <1>5, <2>1 DEF Superseded
    <3>2. use'[Kept.tokens.grant] = use[Kept.tokens.grant]
      BY <1>4, <1>6, <3>1 DEF c
    <3>3. ~Alive(Kept.tokens.grant)
      BY <1>5, <3>1, <3>2 DEF Alive
    <3>4. \/ Quiet
          \/ Carried
          \/ SigningIn(q) /\ Kept.tokens.generation < q.generation
      BY <1>5, <1>11, <3>1, <3>3 DEF StoreOf, Superseded
    <3>5. QED
      BY <1>5, <1>11, <2>3, <3>4 DEF Superseded
  <2>5. Replaces(q)'
    <3>1. \A u \in Requests \ {t} : task'[u] = task[u] /\ (Current(u) => task[u].pc \notin Inside)
      BY <1>1, Adapting
    <3>2. \A u \in Requests : ~(Ok(u)' /\ Current(u)')
      BY <1>5, <1>7, <3>1 DEF Ok, At, Current, Inside
    <3>3. QED
      BY <3>2 DEF Replaces
  <2>6. Lags(q)' /\ Written(q)'
    BY <1>5, <1>11, <2>3 DEF StoreOf, Lags, Written
  <2>7. Retained(q)'
    <3>1. SUFFICES ASSUME use'[q.grant] = "spent" PROVE Brought'
      BY DEF Retained
    <3>2. BringsPair(t)'
      BY <1>4, <3>1 DEF c
    <3>3. QED
      BY <1>5, <3>2 DEF Brought, Brings, Current
  <2>8. QED
    BY <2>2, <2>4, <2>5, <2>6, <2>7 DEF StoreOf
<1>13. use'[q.grant] # "none" /\ (rotation' # None => use'[rotation'.before.grant] # "none") /\ primary' = q
  BY <1>3, <1>4 DEF c
<1>14. QED
  BY <1>3, <1>8, <1>9, <1>10, <1>12, <1>13, AdapterLedger

\* The grant is sent.
LEMMA SendLedger ==
  ASSUME Sound, NEW t \in Requests, Send(t)
  PROVE  LedgerInv'
<1> DEFINE c == task[t].credential
<1>1. /\ Structure /\ Apart /\ TypeOK /\ t \in Tasks /\ ExchangeOf(t)
      /\ task[t].pc \in LoadStages /\ task[t].pc = "send"
  BY DEF Sound, Structure, LedgerInv, Tasks, ExchangeInv, Send, At, LoadStages
<1>2. c \in Credentials /\ Current(t) /\ lock = t
  BY <1>1, Loading
<1>3. /\ use' = [use EXCEPT ![c.grant] = "flying"] /\ Go(t, "wait")
      /\ UNCHANGED <<primary, rotation, now, edits, crashes, memory>>
  BY DEF Send, durable, bounds
<1>4. TaskIs(t, "wait", task[t].slot, task[t].time, c, task[t].other, task[t].answer, task[t].sequel)
  BY <1>1, <1>3, Names, GoEffect DEF Inside
<1>5. /\ Others(t) /\ task'[t].pc = "wait" /\ task'[t].credential = c
      /\ task'[t].time = task[t].time /\ task'[t].slot = task[t].slot
  BY <1>4 DEF TaskIs
<1>6. Adapts(t)
  BY <1>1, <1>2, <1>3, <1>5 DEF Adapts, ExchangeStages, LoadStages
<1>7. /\ primary # None /\ SameTokens(primary, c) /\ (edits = 0 => primary = c)
      /\ rotation # None /\ SameTokens(rotation.before, c) /\ ~Usable(c, task[t].time) /\ Ahead(t, c)
      /\ rotation.after = None
  BY <1>1 DEF ExchangeOf, LoadStages
<1>8. c.grant \in Grants /\ use \in [Grants -> {"none", "fresh", "flying", "spent", "refused", "lost", "unknown"}]
  BY <1>1, <1>2, Fields DEF TypeOK
<1> HIDE DEF c
<1>9. use'[c.grant] = "flying" /\ \A g \in Grants : g # c.grant => use'[g] = use[g]
  BY <1>3, <1>8
<1>10. c' = c /\ ~BringsPair(t)' /\ ~Ok(t)'
  BY <1>5 DEF c, BringsPair, Ok, At
<1>11. FlyingInv'
  <2>1. SUFFICES ASSUME NEW g \in Grants, use'[g] = "flying"
                 PROVE  \E u \in Requests : At(u, "wait")' /\ task'[u].credential.grant = g
    BY DEF FlyingInv
  <2>2. CASE g = c.grant
    BY <1>5, <2>2 DEF At
  <2>3. CASE g # c.grant
    <3>1. PICK u \in Requests : At(u, "wait") /\ task[u].credential.grant = g
      BY <1>1, <1>9, <2>1, <2>3 DEF Apart, FlyingInv
    <3>2. u # t /\ u \in Tasks
      BY <1>1, <3>1 DEF At, Tasks
    <3>3. QED
      BY <1>5, <3>1, <3>2 DEF Others, At
  <2>4. QED
    BY <2>2, <2>3
<1>12. ExchangeOf(t)'
  <2>1. Kept.tokens' = Kept.tokens
    BY <1>1, <1>6, Adapting
  <2>2. Ahead(t, c)' /\ ~Usable(c, task'[t].time)
    BY <1>5, <1>7, <1>10, <2>1 DEF Ahead
  <2>3. QED
    BY <1>3, <1>5, <1>7, <1>9, <1>10, <2>2 DEF ExchangeOf, At, c, SameTokens, SameGrant, Usable
<1>13. QED
  BY <1>1, <1>3, <1>5, <1>6, <1>9, <1>10, <1>11, <1>12, InFlightLedger DEF c

\* What an answer finds, and that nothing else is in flight.
LEMMA Waiting ==
  ASSUME Sound, NEW t \in Requests, At(t, "wait")
  PROVE  /\ Structure /\ Apart /\ TypeOK /\ t \in Tasks /\ ExchangeOf(t)
         /\ task[t].pc \in LoadStages /\ task[t].pc = "wait"
         /\ task[t].credential \in Credentials /\ task[t].credential.grant \in Grants
         /\ Current(t) /\ lock = t
         /\ use[task[t].credential.grant] = "flying"
         /\ use \in [Grants -> {"none", "fresh", "flying", "spent", "refused", "lost", "unknown"}]
         /\ \A g \in Grants : use[g] = "flying" => g = task[t].credential.grant
         /\ rotation.after = None
<1>1. /\ Structure /\ Apart /\ TypeOK /\ t \in Tasks /\ ExchangeOf(t)
      /\ task[t].pc \in LoadStages /\ task[t].pc = "wait"
  BY DEF Sound, Structure, LedgerInv, Tasks, ExchangeInv, At, LoadStages
<1>2. task[t].credential \in Credentials /\ Current(t) /\ lock = t
      /\ \A u \in Requests \ {t} : task[u].pc \notin LoadStages
  BY <1>1, Loading
<1>3. \A u \in Requests : At(u, "wait") => u = t
  BY <1>2 DEF At, LoadStages
<1>4. \A g \in Grants : use[g] = "flying" => g = task[t].credential.grant
  BY <1>1, <1>3 DEF Apart, FlyingInv
<1>5. use[task[t].credential.grant] = "flying" /\ rotation.after = None
  BY <1>1 DEF ExchangeOf, At
<1>6. QED
  BY <1>1, <1>2, <1>4, <1>5, Fields DEF TypeOK

\* The provider rotates the grant.
LEMMA ProviderRotatesLedger ==
  ASSUME Sound, NEW t \in Requests, ProviderRotates(t)
  PROVE  LedgerInv'
<1> DEFINE c == task[t].credential
           o == Pair(t)
<1>1. /\ Structure /\ Apart /\ TypeOK /\ t \in Tasks /\ ExchangeOf(t)
      /\ task[t].pc \in LoadStages /\ task[t].pc = "wait"
      /\ c \in Credentials /\ c.grant \in Grants /\ Current(t) /\ lock = t
      /\ use[c.grant] = "flying"
      /\ use \in [Grants -> {"none", "fresh", "flying", "spent", "refused", "lost", "unknown"}]
      /\ \A g \in Grants : use[g] = "flying" => g = c.grant
      /\ rotation.after = None
  BY Waiting DEF ProviderRotates
<1>2. NextGrant \in Grants /\ use[NextGrant] = "none"
  BY NextGrantIsNew DEF ProviderRotates
<1>3. /\ use' = [use EXCEPT ![c.grant] = "spent", ![NextGrant] = "fresh"]
      /\ UNCHANGED <<primary, rotation, now, edits, crashes, memory>>
  BY DEF ProviderRotates, durable
<1>4. o \in Credentials /\ TaskIs(t, "answered", task[t].slot, task[t].time, c, o, "ok", task[t].sequel)
  BY <1>1, ProviderRotatesEffect
<1>5. /\ Others(t) /\ task'[t].pc = "answered" /\ task'[t].answer = "ok" /\ task'[t].credential = c
      /\ task'[t].other = o /\ task'[t].time = task[t].time /\ task'[t].slot = task[t].slot
  BY <1>4 DEF TaskIs
<1>6. Adapts(t)
  BY <1>1, <1>3, <1>5 DEF Adapts, ExchangeStages, LoadStages
<1>7. /\ primary # None /\ SameTokens(primary, c) /\ (edits = 0 => primary = c)
      /\ rotation # None /\ SameTokens(rotation.before, c) /\ ~Usable(c, task[t].time) /\ Ahead(t, c)
  BY <1>1 DEF ExchangeOf, LoadStages
<1>8. o.grant = NextGrant /\ o.generation = c.generation + 1 /\ ~o.cut
  BY DEF Pair
<1> HIDE DEF c, o
<1>9. /\ use'[c.grant] = "spent" /\ use'[o.grant] = "fresh" /\ o.grant # c.grant
      /\ \A g \in Grants : g # c.grant /\ use[g] # "none" => use'[g] = use[g]
      /\ \A g \in Grants : use'[g] # "flying"
  BY <1>1, <1>2, <1>3, <1>8
<1>10. c' = c /\ BringsPair(t)' /\ ~Ok(t)'
  BY <1>5 DEF c, BringsPair, Ok, At
<1>11. FlyingInv'
  BY <1>9 DEF FlyingInv
<1>12. ExchangeOf(t)'
  <2>1. Kept.tokens' = Kept.tokens /\ registered # 0 /\ Kept.tokens \in Credentials
    BY <1>1, <1>6, Adapting
  <2>2. Ahead(t, c)' /\ ~Usable(c, task'[t].time)
    BY <1>5, <1>7, <1>10, <2>1 DEF Ahead
  <2>3. o.grant # Kept.tokens'.grant
    BY <1>1, <1>2, <1>8, <2>1 DEF Apart, IssuedInv
  <2>4. (At(t, "answered"))' /\ ~(At(t, "rotated")') /\ ~(At(t, "wait")') /\ ~(At(t, "saved")') /\ ~(At(t, "recovered")') /\ ~(At(t, "decide")')
    BY <1>5 DEF At
  <2>5. /\ primary' # None /\ SameTokens(primary', c) /\ (edits' = 0 => primary' = c)
        /\ rotation' # None /\ SameTokens(rotation'.before, c) /\ rotation'.after = None
    BY <1>1, <1>3, <1>7
  <2>6. QED
    BY <1>5, <1>8, <1>9, <1>10, <2>2, <2>3, <2>4, <2>5 DEF ExchangeOf, c, SameTokens, SameGrant, Usable
<1>13. use[task'[t].other.grant] = "none"
  BY <1>2, <1>5, <1>8
<1>14. QED
  BY <1>1, <1>3, <1>5, <1>6, <1>9, <1>10, <1>11, <1>12, <1>13, InFlightLedger DEF c

\* The exchange fails, and the code may send the grant again.
LEMMA ProviderFailsLedger ==
  ASSUME Sound, NEW t \in Requests, ProviderFails(t)
  PROVE  LedgerInv'
<1> DEFINE c == task[t].credential
<1>1. /\ Structure /\ Apart /\ TypeOK /\ t \in Tasks /\ ExchangeOf(t)
      /\ task[t].pc \in LoadStages /\ task[t].pc = "wait"
      /\ c \in Credentials /\ c.grant \in Grants /\ Current(t) /\ lock = t
      /\ use[c.grant] = "flying"
      /\ use \in [Grants -> {"none", "fresh", "flying", "spent", "refused", "lost", "unknown"}]
      /\ \A g \in Grants : use[g] = "flying" => g = c.grant
      /\ rotation.after = None
  BY Waiting DEF ProviderFails
<1>2. PICK outcome \in {"refused", "fresh", "lost"}, answer \in {"refused", "transient"} :
        /\ use' = [use EXCEPT ![c.grant] = outcome]
        /\ task' = [task EXCEPT ![t].pc = "answered", ![t].answer = answer]
  BY ProviderFailsOutcome
<1>3. UNCHANGED <<primary, rotation, now, edits, crashes, memory>>
  BY DEF ProviderFails, durable, bounds
<1>4. TaskIs(t, "answered", task[t].slot, task[t].time, c, task[t].other, answer, task[t].sequel)
  BY <1>1, <1>2, ProviderFailsEffect
<1>5. /\ Others(t) /\ task'[t].pc = "answered" /\ task'[t].answer = answer /\ task'[t].credential = c
      /\ task'[t].time = task[t].time /\ task'[t].slot = task[t].slot
  BY <1>4 DEF TaskIs
<1>6. Adapts(t)
  BY <1>1, <1>3, <1>5 DEF Adapts, ExchangeStages, LoadStages
<1>7. /\ primary # None /\ SameTokens(primary, c) /\ (edits = 0 => primary = c)
      /\ rotation # None /\ SameTokens(rotation.before, c) /\ ~Usable(c, task[t].time) /\ Ahead(t, c)
  BY <1>1 DEF ExchangeOf, LoadStages
<1> HIDE DEF c
<1>8. /\ use'[c.grant] \in {"refused", "fresh", "lost"}
      /\ \A g \in Grants : g # c.grant => use'[g] = use[g]
  BY <1>1, <1>2
<1>9. \A g \in Grants : use'[g] # "flying"
  BY <1>1, <1>8
<1>10. c' = c /\ ~BringsPair(t)' /\ ~Ok(t)'
  BY <1>5 DEF c, BringsPair, Ok, At
<1>11. FlyingInv'
  BY <1>9 DEF FlyingInv
<1>12. ExchangeOf(t)'
  <2>1. Kept.tokens' = Kept.tokens
    BY <1>1, <1>6, Adapting
  <2>2. Ahead(t, c)' /\ ~Usable(c, task'[t].time)
    BY <1>5, <1>7, <1>10, <2>1 DEF Ahead
  <2>3. Alive(c.grant)' /\ task'[t].answer \in {"refused", "transient"}
    BY <1>5, <1>8, <1>10 DEF Alive
  <2>4. QED
    BY <1>1, <1>3, <1>5, <1>7, <1>10, <2>2, <2>3 DEF ExchangeOf, At, c, SameTokens, SameGrant, Usable, Alive
<1>13. QED
  BY <1>1, <1>3, <1>5, <1>6, <1>8, <1>10, <1>11, <1>12, InFlightLedger DEF c

-----------------------------------------------------------------------------
(* The request is dropped *)

\* Dropped while the grant is in flight, it leaves the checkpoint behind: the
\* grant is not sent again before the user signs in.
LEMMA CancelWaitLedger ==
  ASSUME Sound, NEW t \in Requests, Cancel(t), At(t, "wait")
  PROVE  LedgerInv'
<1> DEFINE c == task[t].credential
<1>1. /\ Structure /\ Apart /\ TypeOK /\ t \in Tasks /\ ExchangeOf(t)
      /\ task[t].pc \in LoadStages /\ task[t].pc = "wait"
      /\ c \in Credentials /\ c.grant \in Grants /\ Current(t) /\ lock = t
      /\ use[c.grant] = "flying"
      /\ use \in [Grants -> {"none", "fresh", "flying", "spent", "refused", "lost", "unknown"}]
      /\ \A g \in Grants : use[g] = "flying" => g = c.grant
      /\ rotation.after = None
  BY Waiting
<1>2. /\ use' = [use EXCEPT ![c.grant] = "unknown"] /\ Leave(t)
      /\ UNCHANGED <<primary, rotation, now, edits, crashes>>
  BY DEF Cancel, durable
<1>3. /\ TaskIs(t, "idle", 0, 0, None, None, "none", "none") /\ KeptStays
      /\ superseded' = superseded \ {t}
  BY <1>1, <1>2, LeaveKeeps
<1>4. Others(t) /\ task'[t].pc = "idle"
  BY <1>3 DEF TaskIs
<1>5. /\ registered # 0 /\ Kept.tokens \in Credentials /\ ~Kept.persistence_pending
      /\ now \in Nat
      /\ task[User].pc \notin DeleteStages \cup {"loginAccount"}
      /\ \A u \in Requests \ {t} : (Current(u) => task[u].pc \notin Inside) /\ task[u].pc \notin LoadStages \cup SaveStages
      /\ \A p \in Credentials : Held(p) => primary = p
  BY <1>1, Loading
<1>6. registered' = registered /\ Kept.tokens' = Kept.tokens /\ ~Kept.persistence_pending'
  BY <1>3, <1>5 DEF KeptStays, KeptIs, Kept
<1>7. /\ SameTokens(primary, c) /\ rotation # None /\ SameTokens(rotation.before, c)
      /\ primary \in Credentials /\ StoreOf(primary) /\ rotation.before \in Credentials
      /\ At(User, "register") /\ primary = Login => c.grant # Login.grant
  BY <1>1, Renewing
<1>8. PICK q \in Credentials : q = primary
  BY <1>7
<1>9. q.grant = c.grant /\ SameGrant(q, rotation.before) /\ rotation.before.grant = c.grant
  BY <1>7, <1>8 DEF SameTokens, SameGrant
<1>10. Kept.tokens.grant \in Grants /\ use[Kept.tokens.grant] # "none"
  BY <1>1, <1>5, Fields DEF Apart, IssuedInv
<1> HIDE DEF c
<1>11. /\ use'[c.grant] = "unknown" /\ \A g \in Grants : g # c.grant => use'[g] = use[g]
       /\ \A g \in Grants : use'[g] # "flying"
  BY <1>1, <1>2
<1>12. Monotone /\ CheckpointInv' /\ FlyingInv'
  BY <1>1, <1>2, <1>11 DEF Monotone, CheckpointInv, FlyingInv
<1>13. IssuedInv' /\ NoCredentialInv'
  <2>1. use'[primary'.grant] # "none" /\ use'[Kept.tokens'.grant] # "none" /\ use'[rotation'.before.grant] # "none" /\ primary' # None
    BY <1>2, <1>6, <1>7, <1>8, <1>9, <1>10, <1>11, Fields DEF Monotone
  <2>2. QED
    BY <2>1 DEF IssuedInv, NoCredentialInv
<1>14. LoginInv'
  <2>1. Registering(t)
    <3>1. SUFFICES ASSUME At(User, "register") PROVE Registering(t)
      BY DEF Registering
    <3>2. primary # Login => Newer(Kept.tokens, Login)
      BY <1>1, <3>1 DEF Apart, LoginInv, At
    <3>3. primary # Login
      BY <1>7, <1>8, <1>9, <3>1
    <3>4. ~BringsPair(t)'
      BY <1>4 DEF BringsPair, At
    <3>5. QED
      BY <1>1, <1>2, <3>2, <3>3, <3>4 DEF Registering
  <2>2. primary' # None
    BY <1>2, <1>7, Fields
  <2>3. QED
    BY <1>1, <1>2, <1>4, <1>5, <1>6, <1>12, <2>1, <2>2, RegisteringLogin DEF Apart
<1>15. ExchangeInv' /\ WriteInv'
  <2>1. \A u \in Requests \ {t} : Spares(u)
    BY <1>2, <1>4, <1>5, <1>6 DEF Spares, Others, Tasks
  <2>2. ExchangeOf(t)' /\ WriteOf(t)'
    BY <1>4 DEF ExchangeOf, WriteOf, BringsPair, Ok, At, LoadStages, SaveStages, WriteStages
  <2>3. ExchangeInv /\ WriteInv
    BY DEF Sound, LedgerInv
  <2>4. QED
    BY <1>1, <2>1, <2>2, <2>3, OthersSpared
<1>16. StoreOf(q)'
  <2>1. ~Recovers(q)' /\ use'[q.grant] = "unknown" /\ StoreOf(q)
    BY <1>1, <1>2, <1>7, <1>8, <1>9, <1>11 DEF Recovers
  <2>2. Fenced(q)' /\ Expired(q)' /\ Recovered(q)' /\ Mergeable(q)' /\ Retained(q)'
    BY <1>2, <1>6, <1>7, <1>9, <2>1 DEF Fenced, Expired, Recovered, Mergeable, SameGrant, Retained
  <2>3. task'[User] = task[User]
    BY <1>4, TokenAssumption DEF Others, Tasks
  <2>4. SigningIn(q) => SigningIn(q)'
    BY <2>3 DEF SigningIn, Login
  <2>5. ~Carried
    BY <1>1, <1>5 DEF Carried, Carries, Ok, At, Inside
  <2>6. Quiet => Quiet'
    <3>1. Calm(t)'
      BY <1>4 DEF Calm, Waits, WriteStages, SaveStages
    <3>2. QED
      BY <1>1, <1>2, <1>3, <1>4, <1>5, <1>6, <3>1, QuietStays
  <2>7. Superseded(q)'
    <3>1. SUFFICES ASSUME ~Alive(Kept.tokens.grant)', Kept.tokens.grant # q.grant PROVE Superseded(q)'
      BY <1>6, <2>1 DEF Superseded
    <3>2. ~Alive(Kept.tokens.grant)
      BY <1>6, <1>9, <1>10, <1>11, <3>1 DEF Alive
    <3>3. Quiet \/ (SigningIn(q) /\ Kept.tokens.generation < q.generation)
      BY <1>5, <2>1, <2>5, <3>1, <3>2 DEF StoreOf, Superseded
    <3>4. QED
      BY <1>6, <2>4, <2>6, <3>3 DEF Superseded
  <2>8. Replaces(q)'
    <3>1. \A u \in Requests : ~(Ok(u)' /\ Current(u)')
      BY <1>4, <1>5, <1>6 DEF Ok, At, Current, Inside, Others, Tasks
    <3>2. QED
      BY <3>1 DEF Replaces
  <2>9. Lags(q)' /\ Written(q)'
    BY <1>5, <1>6, <2>1, <2>4, <2>5 DEF StoreOf, Lags, Written
  <2>10. QED
    BY <2>2, <2>7, <2>8, <2>9 DEF StoreOf
<1>17. StoreInv'
  <2>1. task'[User] = task[User]
    BY <1>4, TokenAssumption DEF Others, Tasks
  <2>2. \A p \in Credentials : Held(p)' => p = q
    BY <1>2, <1>5, <1>8, <2>1 DEF Held, At
  <2>3. QED
    BY <1>16, <2>2 DEF StoreInv
<1>18. QED
  BY <1>12, <1>13, <1>14, <1>15, <1>17 DEF LedgerInv, Apart

\* A request is dropped where it awaits.
LEMMA CancelLedger ==
  ASSUME Sound, NEW t \in Requests, Cancel(t)
  PROVE  LedgerInv'
<1>1. CASE At(t, "wait")
  BY <1>1, CancelWaitLedger
<1>2. CASE ~At(t, "wait")
  <2>1. Leave(t) /\ SameStore /\ task[t].pc \in {"slotLock", "exchange", "save", "auth"}
    BY <1>2 DEF Cancel, SameStore, durable, At
  <2>2. task[t].pc \notin LoadStages /\ ~Ok(t)
    BY <2>1 DEF LoadStages, Ok, At
  <2>3. QED
    BY <2>1, <2>2, LeaveLedger
<1>3. QED
  BY <1>1, <1>2

-----------------------------------------------------------------------------
(* The slot takes what the adapter brought *)

\* What is renewed is newer than what it replaces, and than all that was older.
LEMMA RenewedIsNewer ==
  ASSUME NEW t, Kept.tokens \in Credentials, task[t].time \in Nat, NEW p \in Credentials,
         NEW n, n.generation = Kept.tokens.generation + 1, n.issued_at = task[t].time
  PROVE  /\ Ahead(t, p) = Newer(n, p)
         /\ Newer(Kept.tokens, p) => Newer(n, p)
<1>1. Kept.tokens.generation \in Nat /\ p.generation \in Nat /\ p.issued_at \in Nat
  BY Fields
<1>2. QED
  BY <1>1 DEF Ahead, Newer

\* With its next tokens the slot lags less.
LEMMA LagsLess ==
  ASSUME registered # 0, Kept.tokens \in Credentials, NEW p \in Credentials, Lags(p),
         Kept'.tokens.generation = Kept.tokens.generation + 1, SigningIn(p) => SigningIn(p)'
  PROVE  Lags(p)'
<1>1. Kept.tokens.generation \in Nat /\ p.generation \in Nat
  BY Fields
<1>2. CASE SigningIn(p)
  BY <1>2 DEF Lags
<1>3. CASE ~SigningIn(p)
  <2>1. /\ Kept.tokens.generation + 2 >= p.generation
        /\ p.cut => Kept.tokens.generation >= p.generation
    BY <1>1, <1>3 DEF Lags
  <2>2. Kept'.tokens.generation + 1 >= p.generation /\ (p.cut => Kept'.tokens.generation >= p.generation)
    BY <1>1, <2>1
  <2>3. QED
    BY <2>2 DEF Lags
<1>4. QED
  BY <1>2, <1>3

\* The renewed tokens are in the slot, and still to be stored.
LEMMA InstallRefreshedLedger ==
  ASSUME Sound, NEW t \in Requests, InstallRefreshed(t)
  PROVE  LedgerInv'
<1> DEFINE n == Renewed(t)
<1>1. /\ Structure /\ Apart /\ ExchangeInv /\ WriteInv /\ StoreInv /\ TypeOK /\ t \in Tasks /\ User \notin Requests
      /\ ExchangeOf(t) /\ task[t].pc = "returned" /\ Ok(t) /\ Current(t)
  BY TokenAssumption DEF Sound, Structure, LedgerInv, Tasks, ExchangeInv, InstallRefreshed, At, Ok
<1>2. /\ task[t].slot \in Slots /\ task[t].time \in Nat /\ task[t].credential \in Credentials
      /\ registered # 0 /\ Kept.tokens \in Credentials /\ now \in Nat
      /\ \A u \in Requests \ {t} : Current(u) => task[u].pc \notin Inside
  BY <1>1, Started, Lone, Numbers DEF StageOf, Inside
<1>3. n \in Credentials /\ TaskIs(t, "save", task[t].slot, 0, None, None, "none", "refreshed") /\ KeptIs(n, "Active", TRUE)
  BY <1>1, <1>2, InstallRefreshedEffect
<1>4. /\ Others(t) /\ task'[t].pc = "save" /\ task'[t].sequel = "refreshed"
      /\ UNCHANGED <<primary, rotation, use, now, edits, crashes>>
  BY <1>3 DEF TaskIs, InstallRefreshed, durable, bounds
<1>5. n.grant = task[t].credential.grant /\ n.generation = Kept.tokens.generation + 1 /\ n.issued_at = task[t].time
  BY DEF Renewed
<1> HIDE DEF n
<1>6. registered' = registered /\ Kept.tokens' = n /\ Kept.persistence_pending'
  BY <1>2, <1>3 DEF KeptIs, Kept
<1>7. Alive(n.grant) /\ Alive(Kept.tokens.grant)'
  BY <1>1, <1>4, <1>5, <1>6 DEF ExchangeOf, Alive
<1>8. ~BringsPair(t)' /\ ~Ok(t)' /\ ~At(t, "wait") /\ task'[User] = task[User] /\ (\A u \in Requests \ {t} : task'[u] = task[u])
  BY <1>1, <1>4 DEF BringsPair, Ok, At, Others, Tasks
<1>9. CheckpointInv' /\ FlyingInv'
  BY <1>1, <1>4, <1>8, FlyingStays DEF Apart, CheckpointInv
<1>10. IssuedInv' /\ NoCredentialInv'
  BY <1>1, <1>4, <1>6, <1>7 DEF Apart, IssuedInv, NoCredentialInv, Alive
<1>11. LoginInv'
  <2>1. Login' = Login /\ \A s : At(User, s)' = At(User, s)
    BY <1>8 DEF Login, At
  <2>2. \A u \in Requests : BringsPair(u)' => BringsPair(u) /\ task'[u].other = task[u].other
    BY <1>8 DEF BringsPair, At
  <2>3. task[User].pc \in {"loginAccount", "register"} /\ Newer(Kept.tokens, Login) => Newer(Kept.tokens, Login)'
    <3>1. SUFFICES ASSUME task[User].pc \in {"loginAccount", "register"}, Newer(Kept.tokens, Login)
                   PROVE  Newer(Kept.tokens, Login)'
      OBVIOUS
    <3>2. Login \in Credentials
      BY <1>1, <3>1, UserStarted DEF LoginStages, Login
    <3>3. Newer(n, Login)
      BY <1>2, <1>5, <3>1, <3>2, RenewedIsNewer
    <3>4. QED
      BY <1>6, <2>1, <3>3 DEF Newer
  <2>4. \A g : Alive(g)' = Alive(g)
    BY <1>4 DEF Alive
  <2>5. Alive(Login.grant)' = Alive(Login.grant)
    BY <1>4, <2>1 DEF Alive
  <2> HIDE DEF Login
  <2>6. QED
    BY <1>1, <1>4, <1>6, <1>7, <1>8, <2>1, <2>2, <2>3, <2>5 DEF Apart, LoginInv
<1>12. ExchangeInv' /\ WriteInv'
  <2>1. Issues /\ Resettled /\ task[t].pc \in Inside
    BY <1>1, <1>4 DEF Issues, Resettled, Inside
  <2>2. \A u \in Requests \ {t} : Spares(u)
    BY <1>1, <1>4, <1>6, <2>1, StoreSpared
  <2>3. ExchangeOf(t)'
    BY <1>4, <1>8 DEF ExchangeOf, LoadStages, At
  <2>4. WriteOf(t)'
    BY <1>4, <1>6, <1>7 DEF WriteOf, SaveStages, At
  <2>5. QED
    BY <1>1, <2>2, <2>3, <2>4, OthersSpared
<1>13. StoreInv'
  <2>1. SUFFICES ASSUME NEW p \in Credentials, Held(p)' PROVE StoreOf(p)'
    BY DEF StoreInv
  <2>2. Held(p) /\ StoreOf(p)
    BY <1>1, <1>4, <1>8, <2>1 DEF Held, At, StoreInv
  <2>3. Recovers(p)' = Recovers(p) /\ Alive(p.grant)' = Alive(p.grant)
    BY <1>4 DEF Recovers, SameGrant, Alive
  <2>4. Fenced(p)' /\ Expired(p)'
    BY <1>4, <2>2, <2>3 DEF StoreOf, Fenced, Expired, SameGrant, Usable
  <2>5. Mergeable(p)'
    <3>1. Alive(p.grant) \/ Newer(n, p)
      BY <1>1, <1>2, <1>5, <2>2, RenewedIsNewer DEF StoreOf, Replaces
    <3>2. Newer(Kept.tokens, p)' = Newer(n, p)
      BY <1>6 DEF Newer
    <3>3. QED
      BY <1>7, <2>3, <3>1, <3>2 DEF Mergeable
  <2>6. Superseded(p)' /\ Written(p)' /\ Recovered(p)' /\ Retained(p)'
    BY <1>2, <1>6, <1>7 DEF Superseded, Written, Recovered, Retained
  <2>7. Replaces(p)'
    <3>1. \A u \in Requests : ~(Ok(u)' /\ Current(u)')
      BY <1>2, <1>6, <1>8 DEF Ok, At, Current, Inside
    <3>2. QED
      BY <3>1 DEF Replaces
  <2>8. Lags(p)'
    <3>1. SigningIn(p) => SigningIn(p)'
      BY <1>8 DEF SigningIn, Login
    <3>2. QED
      BY <1>2, <1>5, <1>6, <2>2, <3>1, LagsLess DEF StoreOf
  <2>9. QED
    BY <2>4, <2>5, <2>6, <2>7, <2>8 DEF StoreOf
<1>14. QED
  BY <1>9, <1>10, <1>11, <1>12, <1>13 DEF LedgerInv, Apart

-----------------------------------------------------------------------------
(* The write of the slot's tokens *)

\* The merge keeps the slot's tokens or the stored ones, the newer.
LEMMA MergedIsNewer ==
  ASSUME Kept.tokens \in Credentials, primary \in Credentials
  PROVE  /\ Merged \in Credentials
         /\ \/ Newer(Kept.tokens, primary) /\ SameTokens(Merged, Kept.tokens)
            \/ ~Newer(Kept.tokens, primary) /\ Merged = primary
         /\ ~Newer(Kept.tokens, Merged)
<1>1. CASE Newer(Kept.tokens, primary)
  <2> DEFINE m == [Kept.tokens EXCEPT !.proxy = primary.proxy]
  <2>1. m \in Credentials /\ SameTokens(m, Kept.tokens)
    BY DEF Credentials, SameTokens, SameGrant
  <2>2. Merged = m
    BY <1>1 DEF Merged
  <2> HIDE DEF m
  <2>3. ~Newer(Kept.tokens, m)
    BY <2>1, Fields DEF Newer, SameTokens, SameGrant
  <2>4. QED
    BY <1>1, <2>1, <2>2, <2>3
<1>2. CASE ~Newer(Kept.tokens, primary)
  BY <1>2 DEF Merged
<1>3. QED
  BY <1>1, <1>2

\* What is left in the store can be renewed: the checkpoint may be forgotten.
LEMMA SaveTokensLedger ==
  ASSUME Sound, NEW t \in Requests, SaveTokens(t)
  PROVE  LedgerInv'
<1>1. /\ Structure /\ Apart /\ ExchangeInv /\ WriteInv /\ StoreInv /\ TypeOK /\ t \in Tasks /\ User \notin Requests
      /\ WriteOf(t) /\ task[t].pc = "save" /\ LockFree
      /\ UNCHANGED <<rotation, use, now, edits, crashes>>
  BY TokenAssumption DEF Sound, Structure, LedgerInv, Tasks, WriteInv, SaveTokens, At, bounds
<1>2. task[t].slot \in Slots
  BY <1>1, Started
<1>3. CASE ~(Current(t) /\ primary # None) /\ Leave(t) /\ UNCHANGED primary
  <2>1. task[t].pc \notin LoadStages /\ ~Ok(t) /\ SameStore
    BY <1>1, <1>3 DEF LoadStages, Ok, At, SameStore
  <2>2. QED
    BY <1>3, <2>1, LeaveLedger
<1>4. ASSUME Current(t), primary # None, registered # 0, Merged \in Credentials, primary' = Merged, UNCHANGED memory,
             TaskIs(t, "saveClear", task[t].slot, task[t].time, Merged, task[t].other, task[t].answer, task[t].sequel)
      PROVE  LedgerInv'
  <2> DEFINE K == Kept.tokens
  <2>1. K \in Credentials /\ primary \in Credentials /\ Kept.persistence_pending
    BY <1>1, <1>4, Numbers DEF WriteOf
  <2>2. PICK m \in Credentials : m = Merged
    BY <1>4
  <2>3. /\ \/ Newer(K, primary) /\ SameTokens(m, K)
           \/ ~Newer(K, primary) /\ m = primary
        /\ ~Newer(K, m) /\ primary' = m
    BY <1>4, <2>1, <2>2, MergedIsNewer
  <2>4. PICK p \in Credentials : p = primary
    BY <2>1
  <2>5. StoreOf(p) /\ p # None /\ m # None
    BY <1>1, <2>4, Fields DEF StoreInv, Held
  <2>6. /\ Others(t) /\ task'[t].pc = "saveClear" /\ task'[t].credential = m
        /\ task'[t].slot = task[t].slot /\ task'[t].time = task[t].time /\ task'[t].sequel = task[t].sequel
    BY <1>4, <2>2 DEF TaskIs
  <2>7. /\ registered' = registered /\ Kept.tokens' = K /\ Kept.persistence_pending' = Kept.persistence_pending
        /\ superseded' = superseded
    BY <1>4 DEF memory, Kept
  <2>8. /\ ~BringsPair(t)' /\ ~Ok(t)' /\ ~At(t, "wait") /\ ~Carries(t) /\ task'[User] = task[User]
        /\ task[User].pc \notin DeleteStages \cup {"loginAccount"}
    <3>1. task[User].pc \notin LockStages
      BY <1>1, Holder DEF Tasks
    <3>2. QED
      BY <1>1, <2>6, <3>1 DEF BringsPair, Ok, At, Others, Tasks, Carries, LockStages
  <2> HIDE DEF K
  <2>9. Alive(m.grant)
    <3>1. IF Newer(K, p) THEN Alive(K.grant) ELSE Alive(p.grant)
      BY <1>4, <2>1, <2>5 DEF StoreOf, Mergeable, K
    <3>2. CASE Newer(K, p)
      BY <2>3, <2>4, <3>1, <3>2 DEF SameTokens, SameGrant
    <3>3. CASE ~Newer(K, p)
      BY <2>3, <2>4, <3>1, <3>3
    <3>4. QED
      BY <3>2, <3>3
  <2>10. Alive(m.grant)' /\ ~Recovers(m)' /\ use'[m.grant] \notin {"none", "spent", "unknown"}
    <3>1. rotation # None /\ rotation.after # None => use[rotation.before.grant] = "spent"
      BY <1>1 DEF Apart, CheckpointInv
    <3>2. QED
      BY <1>1, <2>9, <3>1 DEF Alive, Recovers, SameGrant
  <2>11. CheckpointInv' /\ FlyingInv'
    BY <1>1, <2>6, <2>8, FlyingStays DEF Apart, CheckpointInv
  <2>12. IssuedInv' /\ NoCredentialInv'
    BY <1>1, <2>3, <2>5, <2>7, <2>10 DEF Apart, IssuedInv, NoCredentialInv, K
  <2>13. LoginInv'
    <3>1. Registering(t)
      <4>1. SUFFICES ASSUME At(User, "register") PROVE Registering(t)
        BY DEF Registering
      <4>2. /\ rotation # None /\ rotation.after # None => rotation.after.grant # Login.grant
            /\ primary = Login => /\ Alive(Login.grant)
                                  /\ rotation # None => rotation.before.grant # Login.grant
            /\ primary # Login => Newer(K, Login)
        BY <1>1, <4>1 DEF Apart, LoginInv, At, K
      <4>3. CASE ~Newer(K, primary) /\ m = primary
        BY <1>1, <2>3, <2>8, <4>2, <4>3 DEF Registering, Alive, K
      <4>4. CASE Newer(K, primary) /\ SameTokens(m, K)
        <5>1. Newer(K, Login)
          BY <4>2, <4>4
        <5>2. m # Login
          BY <2>3, <5>1
        <5>3. QED
          BY <1>1, <2>3, <2>8, <4>2, <5>1, <5>2 DEF Registering, K
      <4>5. QED
        BY <2>3, <4>3, <4>4
    <3>2. Monotone /\ primary' # None /\ Kept.tokens' = Kept.tokens
      BY <1>1, <2>3, <2>5, <2>7 DEF Monotone, K
    <3>3. QED
      BY <1>1, <1>4, <2>6, <2>7, <2>8, <3>1, <3>2, RegisteringLogin DEF Apart
  <2>14. ExchangeInv' /\ WriteInv'
    <3>1. Issues
      BY <1>1 DEF Issues
    <3>2. \A u \in Requests \ {t} : Spares(u)
      BY <1>1, <2>6, <2>7, <3>1, StoreSpared DEF K
    <3>3. ExchangeOf(t)'
      BY <2>6, <2>8 DEF ExchangeOf, LoadStages, At
    <3>4. ~Newer(Kept.tokens, primary)' /\ Alive(primary.grant)' /\ SameTokens(primary', m)
      BY <2>3, <2>7, <2>10 DEF Newer, Alive, SameTokens, SameGrant
    <3>5. task[t].sequel = "refreshed" => Alive(Kept.tokens.grant)'
      BY <1>1, <1>4, <2>7 DEF WriteOf, WriteStages, Alive, K
    <3>6. WriteOf(t)'
      BY <2>1, <2>3, <2>5, <2>6, <2>7, <3>4, <3>5 DEF WriteOf, At, SaveStages, WriteStages, SameTokens, SameGrant
    <3>7. QED
      BY <1>1, <3>2, <3>3, <3>6, OthersSpared
  <2>15. StoreOf(m)'
    <3>1. Fenced(m)' /\ Expired(m)' /\ Recovered(m)' /\ Retained(m)' /\ Replaces(m)'
      BY <2>10 DEF Fenced, Expired, Recovered, Retained, Replaces
    <3>2. Mergeable(m)' /\ Written(m)'
      BY <2>1, <2>3, <2>7, <2>10 DEF Mergeable, Written, Newer, K
    <3>3. Carried => Carried'
      BY <1>1, <2>6, <2>7, <2>8, CarriedStays
    <3>4. m = p /\ SigningIn(p) => SigningIn(m)'
      BY <2>8 DEF SigningIn, Login
    <3>5. Quiet => Quiet'
      <4>1. SUFFICES ASSUME Quiet PROVE Quiet'
        OBVIOUS
      <4>2. Calm(t)'
        BY <1>1, <1>4, <2>6, <2>7, <4>1 DEF Quiet, Calm, Waits, WriteStages, SaveStages, Usable, Current, K
      <4>3. now' \in Nat /\ now' >= now
        BY <1>1, Numbers
      <4>4. QED
        BY <1>1, <1>4, <2>6, <2>7, <4>1, <4>2, <4>3, QuietStays DEF K
    <3>6. Superseded(m)'
      <4>1. SUFFICES ASSUME ~Alive(K.grant) PROVE Superseded(m)'
        BY <1>1, <2>7 DEF Superseded, Alive
      <4>2. m = p /\ Alive(p.grant)
        BY <2>3, <2>4, <2>9, <4>1 DEF SameTokens, SameGrant
      <4>3. Quiet \/ Carried \/ (SigningIn(p) /\ K.generation < p.generation)
        BY <1>4, <2>5, <4>1, <4>2 DEF StoreOf, Superseded, K
      <4>4. QED
        BY <2>7, <3>3, <3>4, <3>5, <4>2, <4>3 DEF Superseded
    <3>7. Lags(m)'
      <4>1. CASE m = p
        BY <1>4, <2>5, <2>7, <3>3, <3>4, <4>1 DEF StoreOf, Lags, K
      <4>2. CASE SameTokens(m, K)
        BY <2>1, <2>7, <4>2, Fields DEF Lags, SameTokens, SameGrant
      <4>3. QED
        BY <2>3, <2>4, <4>1, <4>2
    <3>8. QED
      BY <3>1, <3>2, <3>6, <3>7 DEF StoreOf
  <2>16. StoreInv'
    <3>1. \A q \in Credentials : Held(q)' => q = m
      BY <2>3, <2>8 DEF Held, At
    <3>2. QED
      BY <2>15, <3>1 DEF StoreInv
  <2>17. QED
    BY <2>11, <2>12, <2>13, <2>14, <2>16 DEF LedgerInv, Apart
<1>5. QED
  BY <1>1, <1>2, <1>3, <1>4, SaveTokensEffect

\* Where the request is that has stored its tokens.
LEMMA Saving ==
  ASSUME Sound, NEW t \in Requests, task[t].pc \in SaveStages
  PROVE  /\ Structure /\ Apart /\ ExchangeInv /\ WriteInv /\ TypeOK /\ t \in Tasks /\ User \notin Requests /\ WriteOf(t)
         /\ lock = t /\ Current(t) /\ task[t].pc \in Inside /\ task[t].slot \in Slots
         /\ registered # 0 /\ Kept.tokens \in Credentials /\ Kept.persistence_pending /\ now \in Nat
         /\ primary \in Credentials /\ primary # None /\ Alive(primary.grant) /\ StoreOf(primary)
         /\ SameTokens(primary, task[t].credential) /\ ~Newer(Kept.tokens, primary)
         /\ task[User].pc \notin DeleteStages \cup {"loginAccount"}
         /\ \A p \in Credentials : Held(p) => primary = p
         /\ ~Carries(t) /\ ~At(t, "wait")
<1>1. /\ Structure /\ Apart /\ ExchangeInv /\ WriteInv /\ StoreInv /\ TypeOK /\ t \in Tasks /\ User \notin Requests
      /\ WriteOf(t) /\ task[t].pc \in Inside \cap LockStages /\ task[t].pc # "idle" /\ now \in Nat
  BY TokenAssumption, Numbers DEF Sound, Structure, LedgerInv, Tasks, WriteInv, SaveStages, Inside, LockStages
<1>2. lock = t /\ Current(t)
  BY <1>1 DEF Structure, LockInv, CurrentInv
<1>3. task[t].slot \in Slots /\ registered # 0 /\ Kept.tokens \in Credentials
  BY <1>1, <1>2, Started, Lone
<1>4. /\ primary # None /\ SameTokens(primary, task[t].credential) /\ Alive(primary.grant)
      /\ ~Newer(Kept.tokens, primary) /\ Kept.persistence_pending
  BY <1>1, <1>2 DEF WriteOf
<1>5. primary \in Credentials
  BY <1>1, <1>4, Numbers
<1>6. StoreOf(primary)
  BY <1>1, <1>5 DEF StoreInv, Held
<1>7. task[User].pc \notin LockStages
  BY <1>1, <1>2, Holder DEF Tasks
<1>8. task[User].pc \notin DeleteStages \cup {"loginAccount"}
  BY <1>7 DEF LockStages
<1>9. \A p \in Credentials : Held(p) => primary = p
  BY <1>1, <1>2, HeldOnce
<1>10. ~Carries(t) /\ ~At(t, "wait")
  BY DEF Carries, Ok, At, SaveStages
<1>11. QED
  BY <1>1, <1>2, <1>3, <1>4, <1>5, <1>6, <1>8, <1>9, <1>10

\* What is left to show of its further steps.
LEMMA SavingLedger ==
  ASSUME Sound, NEW t \in Requests, task[t].pc \in SaveStages, Others(t),
         UNCHANGED <<primary, use, now, edits, crashes>>, rotation' = rotation \/ rotation' = None,
         registered' = registered, Kept.tokens' = Kept.tokens,
         task'[t].pc \notin LoadStages \cup {"returned"}, WriteOf(t)',
         NEW p \in Credentials, p = primary, StoreOf(p)'
  PROVE  LedgerInv'
<1> USE Saving
<1>1. /\ ~BringsPair(t)' /\ ~Ok(t)' /\ ExchangeOf(t)' /\ task'[User] = task[User]
  BY DEF BringsPair, Ok, ExchangeOf, At, LoadStages, Others, Tasks
<1>2. CheckpointInv' /\ FlyingInv'
  BY FlyingStays DEF Apart, CheckpointInv
<1>3. IssuedInv' /\ NoCredentialInv'
  BY DEF Apart, IssuedInv, NoCredentialInv
<1>4. LoginInv'
  <2>1. Registering(t)
    <3>1. SUFFICES ASSUME At(User, "register") PROVE Registering(t)
      BY DEF Registering
    <3>2. /\ rotation # None /\ rotation.after # None => rotation.after.grant # Login.grant
          /\ primary = Login => /\ Alive(Login.grant)
                                /\ rotation # None => rotation.before.grant # Login.grant
          /\ primary # Login => Newer(Kept.tokens, Login)
      BY <3>1 DEF Apart, LoginInv, At
    <3>3. QED
      BY <1>1, <3>2 DEF Registering, Alive
  <2>2. Monotone
    BY DEF Monotone
  <2>3. primary' # None
    OBVIOUS
  <2>4. QED
    BY <2>1, <2>2, <2>3, RegisteringLogin DEF Apart
<1>5. ExchangeInv' /\ WriteInv'
  <2>1. Issues /\ Resettled
    BY DEF Issues, Resettled
  <2>2. \A u \in Requests \ {t} : Spares(u)
    BY <2>1, StoreSpared
  <2>3. QED
    BY <1>1, <2>2, OthersSpared
<1>6. StoreInv'
  BY <1>1 DEF StoreInv, Held, At
<1>7. QED
  BY <1>2, <1>3, <1>4, <1>5, <1>6 DEF LedgerInv, Apart

\* The slot is as quiet after them.
LEMMA SavingQuiet ==
  ASSUME Sound, NEW t \in Requests, task[t].pc \in SaveStages, Others(t), now' = now,
         registered' = registered, Kept.tokens' = Kept.tokens, superseded \ {t} \subseteq superseded',
         task'[t].pc \notin {"prepared", "sent"},
         Waits(t)' => Waits(t) /\ task'[t].time = task[t].time,
         Quiet
  PROVE  Quiet'
<1> USE Saving
<1>1. Calm(t)'
  BY DEF Quiet, Calm, Usable
<1>2. now' \in Nat /\ now' >= now
  OBVIOUS
<1>3. QED
  BY <1>1, <1>2, QuietStays

\* The checkpoint goes when the store has what can be renewed.
LEMMA ClearCheckpointLedger ==
  ASSUME Sound, NEW t \in Requests, ClearCheckpoint(t)
  PROVE  LedgerInv'
<1>1. task[t].pc = "saveClear" /\ task[t].pc \in SaveStages
  BY DEF ClearCheckpoint, At, SaveStages
<1>2. /\ Structure /\ TypeOK /\ t \in Tasks /\ User \notin Requests /\ WriteOf(t)
      /\ registered # 0 /\ primary \in Credentials /\ primary # None /\ Alive(primary.grant) /\ StoreOf(primary)
      /\ ~Carries(t)
  BY <1>1, Saving
<1>3. /\ rotation' = None /\ Go(t, "saveMeta") /\ UNCHANGED <<primary, use, now, edits, crashes, memory>>
  BY DEF ClearCheckpoint, bounds
<1>4. TaskIs(t, "saveMeta", task[t].slot, task[t].time, task[t].credential, task[t].other, task[t].answer, task[t].sequel)
  BY <1>2, <1>3, Names, GoEffect DEF Inside
<1>5. /\ Others(t) /\ task'[t].pc = "saveMeta" /\ task'[t].credential = task[t].credential
      /\ task'[t].slot = task[t].slot /\ task'[t].time = task[t].time /\ task'[t].sequel = task[t].sequel
  BY <1>4 DEF TaskIs
<1>6. /\ registered' = registered /\ Kept.tokens' = Kept.tokens /\ Kept.persistence_pending' = Kept.persistence_pending
      /\ superseded' = superseded
  BY <1>3 DEF memory, Kept
<1>7. \A g : Alive(g)' = Alive(g)
  BY <1>3 DEF Alive
<1>8. WriteOf(t)'
  <2>1. Newer(Kept.tokens, primary)' = Newer(Kept.tokens, primary) /\ Alive(primary.grant)' /\ Current(t)' = Current(t)
    BY <1>2, <1>3, <1>5, <1>6 DEF Newer, Alive, Current
  <2>2. Alive(Kept.tokens.grant)' = Alive(Kept.tokens.grant)
    BY <1>3, <1>6 DEF Alive
  <2>3. QED
    BY <1>1, <1>2, <1>3, <1>5, <1>6, <2>1, <2>2 DEF WriteOf, At, SaveStages, WriteStages, SameTokens, SameGrant
<1>9. PICK p \in Credentials : p = primary
  BY <1>2
<1>10. StoreOf(p)'
  <2>1. Waits(t)' = Waits(t)
    BY <1>1, <1>5 DEF Waits, WriteStages, SaveStages
  <2>2. Quiet => Quiet'
    BY <1>1, <1>3, <1>5, <1>6, <2>1, SavingQuiet
  <2>3. SlotStays
    BY <1>3, <1>6, <2>2 DEF SlotStays, Alive
  <2>4. Carried => Carried'
    BY <1>2, <1>5, <1>6, CarriedStays
  <2>5. Replaces(p)'
    BY <1>2, <1>3, <1>9 DEF Replaces, Alive
  <2>6. SigningIn(p) => SigningIn(p)'
    BY <1>2, <1>5 DEF SigningIn, Login, Others, Tasks
  <2>7. QED
    BY <1>2, <1>3, <1>9, <2>3, <2>4, <2>5, <2>6, StoreForgets
<1>11. task'[t].pc \notin LoadStages \cup {"returned"}
  BY <1>5 DEF LoadStages
<1>12. QED
  BY <1>1, <1>3, <1>5, <1>6, <1>8, <1>9, <1>10, <1>11, SavingLedger

\* The tokens are stored: what is pending is no longer.
LEMMA SaveGenerationLedger ==
  ASSUME Sound, NEW t \in Requests, SaveGeneration(t)
  PROVE  LedgerInv'
<1>1. task[t].pc = "saveMeta" /\ task[t].pc \in SaveStages
  BY DEF SaveGeneration, At, SaveStages
<1>2. /\ Structure /\ TypeOK /\ t \in Tasks /\ User \notin Requests /\ WriteOf(t)
      /\ Current(t) /\ task[t].slot \in Slots /\ registered # 0 /\ Kept.tokens \in Credentials
      /\ primary \in Credentials /\ primary # None /\ Alive(primary.grant) /\ StoreOf(primary)
      /\ ~Newer(Kept.tokens, primary) /\ ~Carries(t)
  BY <1>1, Saving
<1>3. UNCHANGED <<primary, rotation, use, now, edits, crashes>> /\ rotation = None
  BY <1>1, <1>2 DEF SaveGeneration, bounds, WriteOf, At
<1>4. CASE Leave(t)
  <2>1. SameStore /\ task[t].pc \notin LoadStages /\ ~Ok(t)
    BY <1>1, <1>3 DEF SameStore, LoadStages, Ok, At
  <2>2. QED
    BY <1>4, <2>1, LeaveLedger
<1>5. CASE AfterSave(t)
  <2>1. /\ KeptIs(Kept.tokens, Kept.auth_state, FALSE)
        /\ \/ /\ task[t].sequel # "invalidated"
              /\ superseded' = superseded
              /\ TaskIs(t, IF task[t].sequel = "pending" THEN "entered" ELSE "auth", task[t].slot,
                        task[t].time, None, task[t].other, task[t].answer, task[t].sequel)
           \/ /\ superseded' = superseded \ {t}
              /\ TaskIs(t, "idle", 0, 0, None, None, "none", "none")
    BY <1>2, <1>5, AfterSaveEffect
  <2>2. registered' = registered /\ Kept.tokens' = Kept.tokens /\ ~Kept.persistence_pending'
    BY <1>2, <2>1 DEF KeptIs, Kept
  <2>3. /\ Others(t) /\ superseded \ {t} \subseteq superseded'
        /\ \/ task'[t].pc = "idle"
           \/ /\ task'[t].time = task[t].time /\ task'[t].sequel = task[t].sequel
              /\ \/ task'[t].pc = "entered" /\ task[t].sequel = "pending"
                 \/ task'[t].pc = "auth" /\ task[t].sequel # "pending"
    BY <2>1 DEF TaskIs
  <2>4. WriteOf(t)'
    <3>1. task'[t].pc \in WriteStages /\ task'[t].sequel = "refreshed" => Alive(Kept.tokens.grant)
      BY <1>1, <1>2, <2>3 DEF WriteOf, WriteStages, SaveStages
    <3>2. Alive(Kept.tokens.grant)' = Alive(Kept.tokens.grant)
      BY <1>3, <2>2 DEF Alive
    <3>3. task'[t].pc \notin SaveStages \cup {"save"}
      BY <2>3 DEF SaveStages
    <3>4. QED
      BY <3>1, <3>2, <3>3 DEF WriteOf, At, SaveStages
  <2>5. PICK p \in Credentials : p = primary
    BY <1>2
  <2>6. StoreOf(p)'
    <3>1. Alive(p.grant)' /\ ~Recovers(p)' /\ use'[p.grant] \notin {"spent", "unknown"}
      BY <1>2, <1>3, <2>5 DEF Alive, Recovers
    <3>2. Fenced(p)' /\ Expired(p)' /\ Recovered(p)' /\ Retained(p)' /\ Replaces(p)'
      BY <3>1 DEF Fenced, Expired, Recovered, Retained, Replaces
    <3>3. Mergeable(p)'
      BY <2>2 DEF Mergeable
    <3>4. Carried => Carried'
      BY <1>2, <2>2, <2>3, CarriedStays
    <3>5. SigningIn(p) => SigningIn(p)'
      BY <1>2, <2>3 DEF SigningIn, Login, Others, Tasks
    <3>6. Quiet => Quiet'
      <4>1. (Waits(t)' => Waits(t) /\ task'[t].time = task[t].time) /\ task'[t].pc \notin {"prepared", "sent"}
        BY <1>1, <2>3 DEF Waits, WriteStages, SaveStages
      <4>2. QED
        BY <1>1, <1>3, <2>2, <2>3, <4>1, SavingQuiet
    <3>7. Superseded(p)'
      <4>1. SUFFICES ASSUME ~Alive(Kept.tokens.grant) PROVE Superseded(p)'
        BY <1>3, <2>2 DEF Superseded, Alive
      <4>2. Kept.tokens.grant # p.grant
        BY <1>2, <2>5, <4>1 DEF Alive
      <4>3. Quiet \/ Carried \/ (SigningIn(p) /\ Kept.tokens.generation < p.generation)
        BY <1>2, <2>5, <4>1, <4>2 DEF StoreOf, Superseded
      <4>4. QED
        BY <2>2, <3>4, <3>5, <3>6, <4>3 DEF Superseded
    <3>8. Lags(p)'
      BY <1>2, <2>2, <2>5, <3>4, <3>5 DEF StoreOf, Lags
    <3>9. Written(p)'
      <4>1. Kept.tokens.generation \in Nat /\ p.generation \in Nat
        BY <1>2, Fields
      <4>2. Kept.tokens.generation <= p.generation
        BY <1>2, <2>5, <4>1 DEF Newer
      <4>3. QED
        BY <2>2, <4>2 DEF Written
    <3>10. QED
      BY <3>2, <3>3, <3>7, <3>8, <3>9 DEF StoreOf
  <2>7. task'[t].pc \notin LoadStages \cup {"returned"}
    BY <2>3 DEF LoadStages
  <2>8. QED
    BY <1>1, <1>3, <2>2, <2>3, <2>4, <2>5, <2>6, <2>7, SavingLedger
<1>6. QED
  BY <1>4, <1>5 DEF SaveGeneration

-----------------------------------------------------------------------------
(* A rejection *)

\* While nobody is in the slot, no pair is on its way and no grant in flight.
LEMMA Undisturbed ==
  ASSUME Sound, registered = 0 \/ SlotFree(registered)
  PROVE  /\ ~Carried /\ ~Brought
         /\ \A g \in Grants : use[g] # "flying"
         /\ \A u \in Requests : /\ ~(Ok(u) /\ Current(u)) /\ ~BringsPair(u)
                                /\ task[u].pc \notin LoadStages \cup SaveStages
                                /\ Current(u) => task[u].pc \notin Inside
<1>1. Structure /\ FlyingInv
  BY DEF Sound, LedgerInv, Apart
<1>2. \A u \in Requests : task[u].pc \notin LoadStages \cup SaveStages /\ (Current(u) => task[u].pc \notin Inside)
  BY <1>1, FreeOfRequests
<1>3. \A u \in Requests : ~(Ok(u) /\ Current(u)) /\ ~BringsPair(u) /\ ~At(u, "wait") /\ ~Carries(u) /\ ~Brings(u)
  BY <1>2 DEF Ok, BringsPair, At, LoadStages, Inside, Carries, Brings
<1>4. \A g \in Grants : use[g] # "flying"
  BY <1>1, <1>3 DEF FlyingInv
<1>5. QED
  BY <1>2, <1>3, <1>4 DEF Carried, Brought

\* The store has what can be renewed when there is no checkpoint and nothing
\* is in flight.
LEMMA HeldAlive ==
  ASSUME Sound, rotation = None, \A g \in Grants : use[g] # "flying", NEW p \in Credentials, Held(p)
  PROVE  Alive(p.grant)
<1>1. /\ use \in [Grants -> {"none", "fresh", "flying", "spent", "refused", "lost", "unknown"}]
      /\ IssuedInv /\ LoginInv /\ StoreOf(p) /\ p.grant \in Grants /\ p # None
  BY Fields DEF Sound, Structure, TypeOK, LedgerInv, Apart, StoreInv
<1>2. use[p.grant] \notin {"spent", "unknown"}
  BY <1>1 DEF StoreOf, Fenced
<1>3. use[p.grant] # "none"
  BY <1>1 DEF Held, IssuedInv, LoginInv
<1>4. use[p.grant] \in {"none", "fresh", "flying", "spent", "refused", "lost", "unknown"}
  BY <1>1
<1>5. QED
  BY <1>1, <1>2, <1>3, <1>4 DEF Alive

\* The slot's tokens are cut.  With the checkpoint of a dropped exchange in
\* the store they could be written over it: the rejection window.
LEMMA InvalidateLedger ==
  ASSUME Sound, Windows = {}, NEW t \in Requests, Invalidate(t)
  PROVE  LedgerInv'
<1> DEFINE n == Rejected
<1>1. /\ Structure /\ Apart /\ ExchangeInv /\ WriteInv /\ StoreInv /\ TypeOK /\ t \in Tasks /\ User \notin Requests
      /\ task[t].pc = "sent" /\ rotation = None
      /\ UNCHANGED <<primary, rotation, use, now, edits, crashes>>
  BY TokenAssumption DEF Sound, Structure, LedgerInv, Tasks, Invalidate, At, durable, bounds
<1>2. task[t].slot \in Slots /\ now \in Nat
  BY <1>1, Started, Numbers
<1>3. CASE ~GuardHolds(t)
  <2>1. Leave(t) /\ SameStore /\ task[t].pc \notin LoadStages /\ ~Ok(t)
    BY <1>1, <1>3 DEF Invalidate, LoadStages, Ok, At, SameStore
  <2>2. QED
    BY <2>1, LeaveLedger
<1>4. CASE GuardHolds(t)
  <2>1. /\ n \in Credentials
        /\ TaskIs(t, "save", task[t].slot, task[t].time, None, task[t].other, task[t].answer, "invalidated")
        /\ KeptIs(n, Kept.auth_state, TRUE) /\ Bump(task[t].slot)
    BY <1>1, <1>2, <1>4, InvalidateEffect
  <2>2. Current(t) /\ t \notin superseded /\ registered # 0 /\ Kept.tokens \in Credentials /\ SlotFree(registered)
        /\ registered = task[t].slot
    BY <1>1, <1>4, Started DEF GuardHolds, Invalidate, Current
  <2>3. n.grant = Kept.tokens.grant /\ n.generation = Kept.tokens.generation + 1 /\ n.issued_at = now /\ n.cut
    BY <2>2 DEF Rejected, Credentials
  <2> HIDE DEF n
  <2>4. /\ Others(t) /\ task'[t].pc = "save" /\ task'[t].sequel = "invalidated"
        /\ registered' = registered /\ Kept.tokens' = n /\ Kept.persistence_pending'
    BY <2>1, <2>2 DEF TaskIs, KeptIs, Kept
  <2>5. /\ ~Carried /\ \A g \in Grants : use[g] # "flying"
        /\ \A u \in Requests : ~(Ok(u) /\ Current(u)) /\ (Current(u) => task[u].pc \notin Inside)
    BY <2>2, Undisturbed
  <2>6. /\ ~BringsPair(t)' /\ ~Ok(t)' /\ ~At(t, "wait") /\ task'[User] = task[User]
        /\ (\A u \in Requests \ {t} : task'[u] = task[u])
    BY <1>1, <2>4 DEF BringsPair, Ok, At, Others, Tasks
  <2>7. Alive(Kept.tokens.grant)' = Alive(Kept.tokens.grant)
    BY <1>1, <2>3, <2>4 DEF Alive
  <2>8. CheckpointInv' /\ FlyingInv'
    BY <1>1, <2>4, <2>6, FlyingStays DEF CheckpointInv, Apart
  <2>9. IssuedInv' /\ NoCredentialInv'
    BY <1>1, <2>2, <2>3, <2>4, <2>6, <2>7 DEF Apart, IssuedInv, NoCredentialInv
  <2>10. task[User].pc \in {"loginAccount", "register"} => Login \in Credentials /\ Login.issued_at = now
    BY <1>1, UserStarted DEF LoginStages, Login, Apart, LoginInv
  <2>11. LoginInv'
    <3>1. Login' = Login /\ \A s : At(User, s)' = At(User, s)
      BY <2>6 DEF Login, At
    <3>2. \A u \in Requests : BringsPair(u)' => BringsPair(u) /\ task'[u].other = task[u].other
      BY <2>6 DEF BringsPair, At
    <3>3. task[User].pc \in {"loginAccount", "register"} /\ Newer(Kept.tokens, Login) => Newer(Kept.tokens, Login)'
      <4>1. SUFFICES ASSUME task[User].pc \in {"loginAccount", "register"}, Newer(Kept.tokens, Login)
                     PROVE  Newer(Kept.tokens, Login)'
        OBVIOUS
      <4>2. Login \in Credentials
        BY <2>10, <4>1
      <4>3. Newer(n, Login)
        BY <2>2, <2>3, <4>1, <4>2, Fields DEF Newer
      <4>4. QED
        BY <2>4, <3>1, <4>3 DEF Newer
    <3>4. Alive(Login.grant)' = Alive(Login.grant)
      BY <1>1, <3>1 DEF Alive
    <3> HIDE DEF Login
    <3>5. QED
      BY <1>1, <2>4, <2>6, <2>7, <3>1, <3>2, <3>3, <3>4 DEF Apart, LoginInv
  <2>12. ExchangeInv' /\ WriteInv'
    <3>1. Issues /\ Resettled
      BY <1>1 DEF Issues, Resettled
    <3>2. \A u \in Requests \ {t} : Spares(u)
      BY <1>1, <2>2, <2>4, <3>1, StoreSpared
    <3>3. ExchangeOf(t)'
      BY <2>4, <2>6 DEF ExchangeOf, LoadStages, At
    <3>4. WriteOf(t)'
      BY <2>4 DEF WriteOf, SaveStages, At
    <3>5. QED
      BY <1>1, <3>2, <3>3, <3>4, OthersSpared
  <2>13. Quiet'
    <3>1. ~Usable(Kept.tokens, now)' /\ \A time : ~Usable(n, time)
      BY <2>3, <2>4 DEF Usable
    <3>2. \A u \in Requests : task[u].slot = registered /\ task[u].pc \in {"prepared", "sent"} => u \in superseded'
      BY <2>1, <2>2 DEF Bump
    <3>3. \A u \in Requests : Calm(u)'
      BY <2>4, <2>6, <3>1, <3>2 DEF Calm, Current
    <3>4. QED
      BY <3>1, <3>3 DEF Quiet
  <2>14. StoreInv'
    <3>1. SUFFICES ASSUME NEW p \in Credentials, Held(p)' PROVE StoreOf(p)'
      BY DEF StoreInv
    <3>2. Held(p) /\ StoreOf(p)
      BY <1>1, <2>6, <3>1 DEF Held, At, StoreInv
    <3>3. Alive(p.grant) /\ Alive(p.grant)' /\ ~Recovers(p)' /\ use'[p.grant] \notin {"spent", "unknown"}
      BY <1>1, <2>5, <3>2, HeldAlive DEF Alive, Recovers
    <3>4. Fenced(p)' /\ Expired(p)' /\ Recovered(p)' /\ Retained(p)' /\ Replaces(p)'
      BY <3>3 DEF Fenced, Expired, Recovered, Retained, Replaces
    <3>5. Mergeable(p)'
      <4>1. SUFFICES ASSUME Newer(n, p), ~Alive(Kept.tokens.grant) PROVE FALSE
        BY <2>4, <2>7, <3>3 DEF Mergeable, Newer
      <4>2. ~Quiet
        BY <1>1, <2>2 DEF Quiet, Calm
      <4>3. SigningIn(p) /\ Kept.tokens.generation < p.generation
        BY <2>2, <2>5, <3>2, <3>3, <4>1, <4>2 DEF StoreOf, Superseded
      <4>4. p.issued_at = now
        BY <2>10, <4>3 DEF SigningIn
      <4>5. QED
        BY <1>2, <2>2, <2>3, <4>1, <4>3, <4>4, Fields DEF Newer
    <3>6. Superseded(p)' /\ Written(p)'
      BY <2>4, <2>13 DEF Superseded, Written
    <3>7. Lags(p)'
      <4>1. SigningIn(p) => SigningIn(p)'
        BY <2>6 DEF SigningIn, Login
      <4>2. QED
        BY <2>2, <2>3, <2>4, <3>2, <4>1, LagsLess DEF StoreOf
    <3>8. QED
      BY <3>4, <3>5, <3>6, <3>7 DEF StoreOf
  <2>15. QED
    BY <2>8, <2>9, <2>11, <2>12, <2>14 DEF LedgerInv, Apart
<1>5. QED
  BY <1>3, <1>4

-----------------------------------------------------------------------------
(* The user's commands *)

\* A command that leaves the slot leaves the requests, and what they bring.
LEMMA CommandKeeps ==
  ASSUME Sound, Others(User), SameSlot, superseded \ {User} \subseteq superseded', Issues, now' = now
  PROVE  /\ SlotStays /\ (Carried => Carried') /\ (Brought => Brought')
         /\ registered # 0 => Alive(Kept.tokens.grant)' = Alive(Kept.tokens.grant)
         /\ \A u \in Requests : task'[u] = task[u]
         /\ \A p \in Credentials : StoreOf(p) /\ (Alive(p.grant) => Alive(p.grant)') => Replaces(p)'
<1>1. /\ Structure /\ User \in Tasks /\ User \notin Requests /\ IssuedInv /\ task[User].pc \in UserStages
      /\ registered' = registered /\ now \in Nat
      /\ registered # 0 => /\ Kept.tokens' = Kept.tokens /\ Kept.tokens \in Credentials
                           /\ Kept.persistence_pending' = Kept.persistence_pending
  BY UserStarted, Numbers DEF Sound, LedgerInv, Apart, SameSlot
<1>2. \A u \in Requests : task'[u] = task[u] /\ Ok(u)' = Ok(u) /\ Current(u)' = Current(u)
  BY <1>1 DEF Others, Tasks, Ok, At, Current
<1>3. registered # 0 => Alive(Kept.tokens.grant)' = Alive(Kept.tokens.grant)
  <2>1. registered # 0 => Kept.tokens.grant \in Grants /\ use[Kept.tokens.grant] # "none"
    BY <1>1, Fields DEF IssuedInv
  <2>2. QED
    BY <1>1, <2>1 DEF Issues, Alive
<1>4. ~Carries(User) /\ ~Brings(User)
  BY <1>1 DEF Carries, Brings, BringsPair, Ok, At, UserStages, DeleteStages, LoginStages
<1>5. (Carried => Carried') /\ (Brought => Brought')
  BY <1>1, <1>4, CarriedStays, BroughtStays
<1>6. now' \in Nat /\ now' >= now
  BY <1>1
<1>7. registered # 0 /\ Quiet => Quiet'
  BY <1>1, <1>6, QuietStays
<1>8. SlotStays
  BY <1>1, <1>3, <1>7 DEF SlotStays
<1>9. ASSUME NEW p \in Credentials, StoreOf(p), Alive(p.grant) => Alive(p.grant)' PROVE Replaces(p)'
  <2>1. SUFFICES ASSUME NEW u \in Requests, Ok(u)', Current(u)' PROVE Alive(p.grant)' \/ Ahead(u, p)'
    BY DEF Replaces
  <2>2. Ok(u) /\ Current(u) /\ task'[u] = task[u]
    BY <1>2, <2>1
  <2>3. registered # 0
    BY <1>1, <2>2, Lone DEF Ok, At, Inside
  <2>4. Ahead(u, p)' = Ahead(u, p)
    BY <1>1, <2>2, <2>3 DEF Ahead
  <2>5. QED
    BY <1>9, <2>2, <2>4 DEF StoreOf, Replaces
<1>10. QED
  BY <1>2, <1>3, <1>5, <1>8, <1>9

\* It leaves what is known of a credential it keeps.
LEMMA CommandStore ==
  ASSUME Sound, Others(User), SameSlot, superseded \ {User} \subseteq superseded', Issues, now' = now,
         NEW p \in Credentials, StoreOf(p), rotation' = rotation, crashes' = crashes, edits' = 0 => edits = 0,
         SigningIn(p) => SigningIn(p)', use'[p.grant] = use[p.grant]
  PROVE  StoreOf(p)'
<1>1. Structure /\ now' \in Nat /\ now' >= now
  BY Numbers DEF Sound
<1>2. Replaces(p)'
  BY CommandKeeps DEF Alive
<1>3. SlotStays /\ (Carried => Carried') /\ (Brought => Brought')
      /\ (registered # 0 => (Alive(Kept.tokens.grant)' => Alive(Kept.tokens.grant)))
  BY CommandKeeps
<1>4. QED
  BY <1>1, <1>2, <1>3, StoreFrame

\* What is left to show of a command that leaves the slot.
LEMMA CommandLedger ==
  ASSUME Sound, Others(User), SameSlot, Issues, edits' = 0 => edits = 0,
         (rotation' = rotation /\ Resettled) \/ lock = User \/ LockFree,
         \A g \in Grants : use'[g] = "flying" => use[g] = "flying",
         CheckpointInv', IssuedInv', NoCredentialInv', LoginInv', StoreInv'
  PROVE  LedgerInv'
<1>1. Structure /\ FlyingInv /\ ExchangeInv /\ WriteInv /\ User \in Tasks /\ User \notin Requests
  BY UserStarted DEF Sound, LedgerInv, Apart
<1>2. use \in [Grants -> {"none", "fresh", "flying", "spent", "refused", "lost", "unknown"}]
  BY <1>1 DEF Structure, TypeOK
<1>3. \A u \in Requests \ {User} : Spares(u)
  BY <1>1, StoreSpared DEF SameSlot
<1>4. ExchangeInv' /\ WriteInv'
  BY <1>1, <1>3, OthersSpared
<1>5. FlyingInv'
  BY <1>1, FlyingStays
<1>6. QED
  BY <1>4, <1>5 DEF LedgerInv, Apart

\* A sign-in cuts in: what was stored may be put back.
LEMMA CommitLoginLedger ==
  ASSUME Sound, CommitLogin
  PROVE  LedgerInv'
<1> DEFINE g == NextGrant
<1>1. /\ Structure /\ Apart /\ ExchangeInv /\ StoreInv /\ TypeOK /\ User \in Tasks /\ User \notin Requests
      /\ task[User].pc = "idle" /\ LockFree /\ use \in [Grants -> {"none", "fresh", "flying", "spent", "refused", "lost", "unknown"}]
  BY UserStarted DEF Sound, Structure, TypeOK, LedgerInv, CommitLogin, At
<1>2. g \in Grants /\ use[g] = "none"
  BY NextGrantIsNew DEF CommitLogin
<1>3. /\ NewLogin \in Credentials /\ primary' = NewLogin
      /\ TaskIs(User, "loginAccount", task[User].slot, task[User].time, NewLogin, primary,
                task[User].answer, task[User].sequel)
  BY <1>1, CommitLoginEffect
<1>4. PICK n \in Credentials : n = NewLogin
  BY <1>3
<1>5. n.grant = g /\ n.issued_at = now /\ ~n.cut /\ n.generation = LoginGeneration
  BY <1>4 DEF NewLogin
<1>6. /\ Others(User) /\ task'[User].pc = "loginAccount" /\ task'[User].credential = n
      /\ task'[User].other = primary /\ primary' = n /\ n # None
      /\ UNCHANGED <<rotation, memory, now, edits, crashes>>
  BY <1>3, <1>4, Fields DEF TaskIs, CommitLogin, bounds
<1>7. use' = [use EXCEPT ![g] = "fresh"]
  BY DEF CommitLogin
<1> HIDE DEF g
<1>8. /\ use'[g] = "fresh" /\ \A h \in Grants : h # g => use'[h] = use[h]
  BY <1>1, <1>2, <1>7
<1>9. Issues /\ SameSlot /\ superseded' = superseded
  BY <1>1, <1>2, <1>6, <1>8, MemorySlot DEF Issues
<1>10. \A u \in Requests : task[u].pc \notin LoadStages \cup SaveStages
  BY <1>1, Holder DEF Tasks, LockStages
<1>11. \A h \in Grants : use[h] # "flying" /\ use'[h] # "flying"
  <2>1. \A u \in Requests : ~At(u, "wait")
    BY <1>10 DEF At, LoadStages
  <2>2. \A h \in Grants : use[h] # "flying"
    BY <1>1, <2>1 DEF Apart, FlyingInv
  <2>3. QED
    BY <1>8, <2>2
<1>12. /\ primary # None => primary \in Credentials /\ primary.grant # g /\ use[primary.grant] # "none"
                            /\ primary.generation < n.generation /\ StoreOf(primary)
       /\ registered # 0 => Kept.tokens \in Credentials /\ Kept.tokens.grant # g
       /\ rotation # None => rotation.before \in Credentials /\ rotation.before.grant # g
       /\ rotation # None /\ rotation.after # None => rotation.after \in Credentials /\ rotation.after.grant # g
       /\ primary = None /\ registered # 0 => Alive(Kept.tokens.grant)
  <2>1. primary # None => primary \in Credentials
    BY <1>1, Numbers
  <2>2. primary # None => StoreOf(primary)
    BY <1>1, <2>1 DEF StoreInv, Held
  <2>3. primary # None => primary.generation < n.generation
    BY <1>1, <1>5, LoginGenerationType
  <2>4. primary = None /\ registered # 0 => Alive(Kept.tokens.grant)
    BY <1>1 DEF Apart, NoCredentialInv, DeleteStages
  <2>5. primary # None => primary.grant # g /\ use[primary.grant] # "none"
    BY <1>1, <1>2 DEF Apart, IssuedInv
  <2>6. registered # 0 => Kept.tokens \in Credentials /\ Kept.tokens.grant # g
    BY <1>1, <1>2, Numbers DEF Apart, IssuedInv
  <2>7. rotation # None => rotation.before \in Credentials /\ rotation.before.grant # g
    BY <1>1, <1>2, Numbers DEF Apart, IssuedInv
  <2>8. rotation # None /\ rotation.after # None => rotation.after \in Credentials /\ rotation.after.grant # g
    BY <1>1, <1>2, Numbers DEF Apart, CheckpointInv
  <2>9. QED
    BY <2>1, <2>2, <2>3, <2>4, <2>5, <2>6, <2>7, <2>8
<1>13. CheckpointInv' /\ IssuedInv' /\ NoCredentialInv'
  <2>1. CheckpointInv'
    <3>1. SUFFICES ASSUME rotation # None, rotation.after # None
                   PROVE  use'[rotation.after.grant] = "fresh" /\ use'[rotation.before.grant] = "spent"
      BY <1>1, <1>6 DEF Apart, CheckpointInv
    <3>2. rotation.after.grant \in Grants /\ rotation.before.grant \in Grants
      BY <1>12, <3>1, Fields
    <3>3. use[rotation.after.grant] = "fresh" /\ use[rotation.before.grant] = "spent"
      BY <1>1, <3>1 DEF Apart, CheckpointInv
    <3>4. QED
      BY <1>8, <1>12, <3>1, <3>2, <3>3
  <2>2. IssuedInv'
    <3>1. use'[n.grant] # "none"
      BY <1>5, <1>8
    <3>2. registered # 0 => use'[Kept.tokens.grant] # "none"
      BY <1>1, <1>8, <1>12, Fields DEF Apart, IssuedInv
    <3>3. rotation # None => use'[rotation.before.grant] # "none"
      BY <1>1, <1>8, <1>12, Fields DEF Apart, IssuedInv
    <3>4. QED
      BY <1>6, <1>9, <3>1, <3>2, <3>3 DEF IssuedInv, SameSlot
  <2>3. NoCredentialInv'
    BY <1>6 DEF NoCredentialInv
  <2>4. QED
    BY <2>1, <2>2, <2>3
<1>14. \A u \in Requests : ~BringsPair(u) /\ task'[u] = task[u]
  BY <1>1, <1>6, <1>10 DEF BringsPair, At, LoadStages, Others, Tasks
<1>15. (registered # 0 => Alive(Kept.tokens.grant)' = Alive(Kept.tokens.grant)) /\ SlotStays /\ (Carried => Carried')
  BY <1>6, <1>9, CommandKeeps
<1>16. LoginInv'
  <2>1. Login' = n /\ At(User, "loginAccount")' /\ Alive(n.grant)' /\ ~At(User, "edit")'
    BY <1>5, <1>6, <1>8 DEF Login, At, Alive
  <2>2. rotation' # None => rotation'.before.grant # n.grant
    BY <1>5, <1>6, <1>12
  <2>3. rotation' # None /\ rotation'.after # None => rotation'.after.grant # n.grant
    BY <1>5, <1>6, <1>12
  <2>4. \A u \in Requests : ~BringsPair(u)'
    BY <1>14 DEF BringsPair, At
  <2>5. primary # None => use'[primary.grant] \notin {"none", "flying"}
    BY <1>8, <1>11, <1>12, Fields
  <2>6. primary = None /\ registered' # 0 => Alive(Kept.tokens.grant)'
    BY <1>9, <1>12, <1>15 DEF SameSlot
  <2> HIDE DEF Login
  <2>7. QED
    BY <1>5, <1>6, <1>8, <1>12, <2>1, <2>2, <2>3, <2>4, <2>5, <2>6 DEF LoginInv
<1>17. StoreOf(n)'
  <2>1. Alive(n.grant)' /\ ~Recovers(n)' /\ use'[n.grant] \notin {"spent", "unknown"}
    BY <1>5, <1>6, <1>8, <1>12 DEF Alive, Recovers, SameGrant
  <2>2. Fenced(n)' /\ Expired(n)' /\ Recovered(n)' /\ Retained(n)' /\ Replaces(n)'
    BY <2>1 DEF Fenced, Expired, Recovered, Retained, Replaces
  <2>3. SigningIn(n)'
    BY <1>6 DEF SigningIn, Login
  <2>4. Lags(n)'
    BY <2>3 DEF Lags
  <2>5. Written(n)'
    BY <1>5, <1>9, <1>12 DEF Written, SameSlot
  <2>6. ASSUME registered # 0, primary # None, ~(Kept.tokens.generation < n.generation)
        PROVE  /\ Kept.tokens.generation > primary.generation
               /\ Newer(Kept.tokens, primary)
    <3>1. Kept.tokens.generation \in Nat /\ primary.generation \in Nat /\ n.generation \in Nat
      BY <1>12, <2>6, Fields
    <3>2. QED
      BY <1>12, <2>6, <3>1 DEF Newer
  <2>7. Mergeable(n)'
    <3>1. SUFFICES ASSUME registered # 0, Kept.persistence_pending, Newer(Kept.tokens, n) PROVE Alive(Kept.tokens.grant)
      BY <1>9, <1>15, <2>1 DEF Mergeable, SameSlot, Newer
    <3>2. ~(Kept.tokens.generation < n.generation)
      BY <1>12, <3>1, Fields DEF Newer
    <3>3. CASE primary # None
      BY <1>12, <2>6, <3>1, <3>2, <3>3 DEF StoreOf, Mergeable
    <3>4. QED
      BY <1>12, <3>1, <3>3
  <2>8. Superseded(n)'
    <3>1. SUFFICES ASSUME registered # 0, ~Alive(Kept.tokens.grant) PROVE Superseded(n)'
      BY <1>9, <1>15 DEF Superseded, SameSlot
    <3>2. primary # None
      BY <1>12, <3>1
    <3>3. CASE Kept.tokens.generation < n.generation
      BY <1>9, <2>3, <3>1, <3>3 DEF Superseded, SameSlot
    <3>4. CASE ~(Kept.tokens.generation < n.generation)
      <4>1. Kept.tokens.generation > primary.generation /\ Newer(Kept.tokens, primary)
        BY <2>6, <3>1, <3>2, <3>4
      <4>2. ~Kept.persistence_pending
        BY <1>12, <3>1, <3>2, <4>1 DEF StoreOf, Mergeable
      <4>3. Kept.tokens.grant # primary.grant
        BY <1>12, <3>1, <3>2, <4>1, <4>2, Fields DEF StoreOf, Written
      <4>4. ~SigningIn(primary)
        BY <1>1 DEF SigningIn
      <4>5. Quiet \/ Carried
        BY <1>12, <3>1, <3>2, <4>3, <4>4 DEF StoreOf, Superseded
      <4>6. QED
        BY <1>15, <3>1, <4>5 DEF Superseded, SlotStays
    <3>5. QED
      BY <3>3, <3>4
  <2>9. QED
    BY <2>2, <2>4, <2>5, <2>7, <2>8 DEF StoreOf
<1>18. StoreInv'
  <2>1. SUFFICES ASSUME NEW p \in Credentials, Held(p)' PROVE StoreOf(p)'
    BY DEF StoreInv
  <2>2. CASE p = n
    BY <1>17, <2>2
  <2>3. CASE p = primary
    <3>1. p # None
      BY Fields
    <3>2. StoreOf(p) /\ p.grant # g /\ p.grant \in Grants
      BY <1>12, <2>3, <3>1, Fields
    <3>3. use'[p.grant] = use[p.grant] /\ ~SigningIn(p)
      BY <1>1, <1>8, <3>2 DEF SigningIn
    <3>4. QED
      BY <1>6, <1>9, <3>2, <3>3, CommandStore
  <2>4. QED
    BY <1>6, <2>1, <2>2, <2>3 DEF Held
<1>19. QED
  BY <1>1, <1>6, <1>9, <1>11, <1>13, <1>16, <1>18, CommandLedger

\* A command that leaves the store, the checkpoint and the slot.
LEMMA PlainCommandLedger ==
  ASSUME Sound, Others(User), SameSlot, superseded \ {User} \subseteq superseded',
         UNCHANGED <<primary, rotation, use, now, crashes>>, edits' = 0 => edits = 0,
         task[User].pc \notin DeleteStages, task'[User].pc # "loginAccount",
         task'[User].pc = "register" <=> task[User].pc \in {"loginAccount", "register"},
         task'[User].pc = "register" => Login' = Login,
         edits' = 0 => task'[User].pc \notin {"edit", "edited"}
  PROVE  LedgerInv'
<1>1. /\ Structure /\ Apart /\ StoreInv /\ User \in Tasks /\ User \notin Requests
  BY UserStarted DEF Sound, LedgerInv
<1>2. Issues /\ Resettled /\ registered' = registered /\ (registered # 0 => Kept.tokens' = Kept.tokens)
  BY DEF Issues, Resettled, SameSlot
<1>3. \A u \in Requests : task'[u] = task[u]
  BY <1>1 DEF Others, Tasks
<1>4. \A g : Alive(g)' = Alive(g)
  BY DEF Alive
<1>5. CheckpointInv' /\ IssuedInv' /\ NoCredentialInv'
  BY <1>1, <1>2 DEF Apart, CheckpointInv, IssuedInv, NoCredentialInv, Alive
<1>6. LoginInv'
  <2>1. CASE task'[User].pc # "register"
    BY <2>1 DEF LoginInv, At
  <2>2. CASE task'[User].pc = "register"
    <3>1. task[User].pc \in {"loginAccount", "register"} /\ Login' = Login
      BY <2>2
    <3>2. /\ primary # None /\ ~Login.cut /\ Login.issued_at = now /\ use[Login.grant] # "none"
          /\ rotation # None /\ rotation.after # None => rotation.after.grant # Login.grant
          /\ \A u \in Requests : BringsPair(u) => task[u].other.grant # Login.grant
          /\ primary = Login => Alive(Login.grant) /\ (rotation # None => rotation.before.grant # Login.grant)
          /\ primary # Login => registered # 0 /\ Newer(Kept.tokens, Login)
      BY <1>1, <3>1 DEF Apart, LoginInv
    <3>3. \A u \in Requests : BringsPair(u)' = BringsPair(u)
      BY <1>3 DEF BringsPair, At
    <3>4. registered # 0 => Newer(Kept.tokens, Login)' = Newer(Kept.tokens, Login)
      BY <1>2, <3>1 DEF Newer
    <3>5. Alive(Login.grant)' = Alive(Login.grant)
      BY <3>1 DEF Alive
    <3> HIDE DEF Login
    <3>6. QED
      BY <1>2, <1>3, <2>2, <3>1, <3>2, <3>3, <3>4, <3>5 DEF LoginInv, At
  <2>3. QED
    BY <2>1, <2>2
<1>7. StoreInv'
  <2>1. SUFFICES ASSUME NEW p \in Credentials, Held(p)' PROVE StoreOf(p)'
    BY DEF StoreInv
  <2>2. StoreOf(p)
    BY <1>1, <2>1 DEF Held, At, StoreInv
  <2>3. SigningIn(p) => SigningIn(p)'
    BY DEF SigningIn
  <2>4. use'[p.grant] = use[p.grant]
    OBVIOUS
  <2>5. QED
    BY <1>2, <2>2, <2>3, <2>4, CommandStore
<1>8. QED
  BY <1>2, <1>5, <1>6, <1>7, CommandLedger

\* A command that ends without a write.
LEMMA CommandEndsLedger ==
  ASSUME Sound, Leave(User), UNCHANGED <<primary, rotation, use, now, edits, crashes>>,
         task[User].pc \notin DeleteStages \cup {"loginAccount", "register"}
  PROVE  LedgerInv'
<1>1. Structure /\ TypeOK /\ User \in Tasks
  BY UserStarted DEF Sound, Structure
<1>2. /\ TaskIs(User, "idle", 0, 0, None, None, "none", "none") /\ KeptStays /\ superseded' = superseded \ {User}
  BY <1>1, LeaveKeeps
<1>3. Others(User) /\ task'[User].pc = "idle" /\ SameSlot
  BY <1>2 DEF TaskIs, KeptStays, KeptIs, SameSlot, Kept
<1>4. QED
  BY <1>2, <1>3, PlainCommandLedger

\* The record is written, and the lock let go.
LEMMA RecordLoginLedger ==
  ASSUME Sound, RecordLogin
  PROVE  LedgerInv'
<1>1. Structure /\ TypeOK /\ User \in Tasks
  BY UserStarted DEF Sound, Structure
<1>2. /\ UNCHANGED <<primary, rotation, memory, use, now, edits, crashes>>
      /\ task' = [task EXCEPT ![User].pc = "register", ![User].other = None]
      /\ task[User].pc = "loginAccount"
  BY DEF RecordLogin, At, bounds
<1>3. TaskIs(User, "register", task[User].slot, task[User].time, task[User].credential, None,
             task[User].answer, task[User].sequel)
  BY <1>1, <1>2, Names, RememberEffect
<1>4. Others(User) /\ task'[User].pc = "register" /\ Login' = Login
  BY <1>3 DEF TaskIs, Login
<1>5. SameSlot /\ superseded' = superseded
  BY <1>1, <1>2, MemorySlot
<1>6. QED
  BY <1>2, <1>4, <1>5, PlainCommandLedger DEF DeleteStages

\* The end of a sign-in, the start and the end of an edit.
LEMMA CommandGoesLedger ==
  ASSUME Sound, ReadBack \/ StartEdit \/ FinishEdit
  PROVE  LedgerInv'
<1>1. Structure /\ TypeOK /\ User \in Tasks
  BY UserStarted DEF Sound, Structure
<1>2. CASE ReadBack
  BY <1>2, CommandEndsLedger DEF ReadBack, LeaveUser, At, DeleteStages, bounds
<1>3. CASE FinishEdit
  BY <1>3, CommandEndsLedger DEF FinishEdit, LeaveUser, At, DeleteStages, durable, bounds
<1>4. CASE StartEdit
  <2>1. /\ task' = [task EXCEPT ![User].pc = "edit", ![User].credential = primary]
        /\ UNCHANGED <<primary, rotation, memory, use, now, crashes>> /\ edits' = edits + 1 /\ edits \in Nat
        /\ task[User].pc = "idle" /\ primary \in Stored
    BY <1>1, <1>4, Numbers DEF StartEdit, durable, At, TypeOK
  <2>2. TaskIs(User, "edit", task[User].slot, task[User].time, primary, task[User].other,
               task[User].answer, task[User].sequel)
    BY <1>1, <2>1, Names, CarryEffect
  <2>3. Others(User) /\ task'[User].pc = "edit" /\ edits' # 0
    BY <2>1, <2>2 DEF TaskIs
  <2>4. SameSlot /\ superseded' = superseded
    BY <1>1, <2>1, MemorySlot
  <2>5. QED
    BY <2>1, <2>3, <2>4, PlainCommandLedger DEF DeleteStages
<1>5. QED
  BY <1>2, <1>3, <1>4

\* A deletion under the process lock has emptied the store.
LEMMA DeletingLedger ==
  ASSUME Sound, DeleteCredential \/ DeleteCheckpoint
  PROVE  LedgerInv'
<1>1. Structure /\ Apart /\ TypeOK /\ BurialInv /\ User \in Tasks /\ User \notin Requests
  BY UserStarted DEF Sound, Structure, LedgerInv
<1>2. /\ UNCHANGED <<memory, use, now, edits, crashes>> /\ primary' = None /\ Others(User)
      /\ task'[User].pc \in DeleteStages /\ (rotation' = rotation \/ rotation' = None)
      /\ (lock = User \/ LockFree)
  <2>1. CASE DeleteCredential
    <3>1. /\ UNCHANGED <<rotation, memory, use, now, edits, crashes>> /\ LockFree /\ primary' = None
          /\ task' = [task EXCEPT ![User].pc = "deleteJournal", ![User].other = primary] /\ primary \in Stored
      BY <1>1, <2>1 DEF DeleteCredential, bounds, TypeOK
    <3>2. TaskIs(User, "deleteJournal", task[User].slot, task[User].time, task[User].credential, primary,
                 task[User].answer, task[User].sequel)
      BY <1>1, <3>1, Names, RememberEffect
    <3>3. QED
      BY <3>1, <3>2 DEF TaskIs, DeleteStages
  <2>2. CASE DeleteCheckpoint
    <3>1. /\ UNCHANGED <<primary, memory, use, now, edits, crashes>> /\ rotation' = None
          /\ Go(User, "deleteAccount") /\ task[User].pc = "deleteJournal"
      BY <2>2 DEF DeleteCheckpoint, At, bounds
    <3>2. TaskIs(User, "deleteAccount", task[User].slot, task[User].time, task[User].credential,
                 task[User].other, task[User].answer, task[User].sequel)
      BY <1>1, <3>1, Names, GoEffect
    <3>3. lock = User /\ primary = None
      BY <1>1, <3>1 DEF Structure, LockInv, LockStages, DeleteStages, BurialInv, CleanUser
    <3>4. QED
      BY <3>1, <3>2, <3>3 DEF TaskIs, DeleteStages
  <2>3. QED
    BY <2>1, <2>2
<1>3. SameSlot /\ Issues
  BY <1>1, <1>2, MemorySlot DEF Issues
<1>4. CheckpointInv' /\ IssuedInv' /\ NoCredentialInv'
  BY <1>1, <1>2, <1>3 DEF Apart, CheckpointInv, IssuedInv, NoCredentialInv, SameSlot
<1>5. LoginInv'
  BY <1>2 DEF LoginInv, At, DeleteStages
<1>6. StoreInv'
  BY <1>2, Fields DEF StoreInv, Held, At, DeleteStages
<1>7. QED
  BY <1>2, <1>3, <1>4, <1>5, <1>6, CommandLedger

\* With the slot retired, no request has anything to write.
LEMMA DeleteAccountLedger ==
  ASSUME Sound, DeleteAccount
  PROVE  LedgerInv'
<1>1. Structure /\ Apart /\ TypeOK /\ BurialInv /\ User \in Tasks /\ User \notin Requests
  BY UserStarted DEF Sound, Structure, LedgerInv
<1>2. /\ UNCHANGED <<primary, rotation, use, now, edits, crashes>> /\ registered' = 0
      /\ task' = [task EXCEPT ![User] = Idle] /\ task[User].pc = "deleteAccount"
  BY DEF DeleteAccount, At
<1>3. TaskIs(User, "idle", 0, 0, None, None, "none", "none")
  BY <1>1, <1>2, ForgetEffect
<1>4. Others(User) /\ task'[User].pc = "idle" /\ primary' = None /\ rotation' = None
  BY <1>1, <1>2, <1>3 DEF TaskIs, BurialInv, CleanUser, At, DeleteStages
<1>5. lock = User
  BY <1>1, <1>2 DEF Structure, LockInv, LockStages, DeleteStages
<1>6. ASSUME NEW u \in Requests PROVE ExchangeOf(u)' /\ WriteOf(u)'
  <2>1. u \in Tasks /\ u # User /\ task'[u] = task[u] /\ (task[u].slot = 0 => task[u].pc = "idle")
    BY <1>1, <1>4 DEF Tasks, Others, Structure, StageInv, StageOf
  <2>2. task[u].pc \notin LoadStages \cup SaveStages
    BY <1>1, <1>5, <2>1, Holder DEF LockStages
  <2>3. Current(u)' => task'[u].pc = "idle"
    BY <1>2, <2>1 DEF Current
  <2>4. ~BringsPair(u)' /\ ~(Ok(u) /\ Current(u))'
    BY <2>1, <2>2, <2>3 DEF BringsPair, Ok, At, LoadStages
  <2>5. ExchangeOf(u)'
    BY <2>1, <2>2, <2>4 DEF ExchangeOf, At, LoadStages
  <2>6. WriteOf(u)'
    BY <2>1, <2>2, <2>3 DEF WriteOf, At, SaveStages, WriteStages
  <2>7. QED
    BY <2>5, <2>6
<1>7. FlyingInv'
  BY <1>1, <1>2, <1>4, FlyingStays DEF Apart
<1>8. CheckpointInv' /\ IssuedInv' /\ NoCredentialInv' /\ LoginInv'
  BY <1>2, <1>4 DEF CheckpointInv, IssuedInv, NoCredentialInv, LoginInv, At
<1>9. StoreInv'
  BY <1>4, Fields DEF StoreInv, Held, At
<1>10. QED
  BY <1>6, <1>7, <1>8, <1>9 DEF LedgerInv, Apart, ExchangeInv, WriteInv

\* An edit that finds what it read writes other settings.
LEMMA EditLedger ==
  ASSUME Sound, task[User].pc \in {"edit", "edited"}, Others(User), task'[User].pc \in {"edited", "idle"},
         SameSlot, superseded \ {User} \subseteq superseded', UNCHANGED <<rotation, use, now, edits, crashes>>,
         NEW p \in Credentials, primary = p, NEW q \in Credentials, primary' = q, SameTokens(q, p)
  PROVE  LedgerInv'
<1>1. /\ Structure /\ Apart /\ StoreOf(p) /\ p # None /\ q # None /\ User \in Tasks /\ User \notin Requests
  BY UserStarted, Fields DEF Sound, LedgerInv, StoreInv, Held
<1>2. edits # 0 /\ edits' # 0
  BY <1>1 DEF Apart, LoginInv
<1>3. Issues /\ Resettled /\ q.grant = p.grant
  BY <1>1, <1>2 DEF Issues, Resettled, SameTokens, SameGrant
<1>4. CheckpointInv' /\ IssuedInv' /\ NoCredentialInv' /\ LoginInv'
  BY <1>1, <1>2, <1>3 DEF Apart, CheckpointInv, IssuedInv, NoCredentialInv, LoginInv, At, SameSlot
<1>5. StoreOf(q)'
  <2>1. ~SigningIn(p) /\ ~SigningIn(q) /\ (Alive(q.grant) => Alive(q.grant)')
    BY DEF SigningIn, Alive
  <2>2. StoreOf(q)
    BY <1>1, <2>1, StoreOfTokens
  <2>3. SlotStays /\ (Carried => Carried') /\ (Brought => Brought') /\ Replaces(q)'
    BY <1>3, <2>1, <2>2, CommandKeeps
  <2>4. QED
    BY <1>1, <1>2, <2>1, <2>3, StoreResettled
<1>6. StoreInv'
  BY <1>5 DEF StoreInv, Held, At
<1>7. QED
  BY <1>2, <1>3, <1>4, <1>6, CommandLedger

\* It does when no renewal can come between: the edit window is closed.
LEMMA SaveEditLedger ==
  ASSUME Sound, Windows = {}, SaveEdit
  PROVE  LedgerInv'
<1>1. Structure /\ TypeOK /\ User \in Tasks /\ task[User].pc = "edit" /\ task[User].credential \in Credentials
  BY UserStarted DEF Sound, Structure, SaveEdit, At
<1>2. UNCHANGED <<rotation, use, now, edits, crashes>>
  BY DEF SaveEdit, bounds
<1>3. CASE LeaveUser /\ UNCHANGED primary
  BY <1>1, <1>2, <1>3, CommandEndsLedger DEF LeaveUser, DeleteStages
<1>4. CASE /\ MayOverwrite(task[User].credential) /\ primary' = Rerouted(task[User].credential)
           /\ Go(User, "edited") /\ UNCHANGED <<lock, memory>>
  <2>1. PICK p \in Credentials : p = task[User].credential
    BY <1>1
  <2>2. primary = p /\ primary' = Rerouted(p)
    BY <1>4, <2>1 DEF MayOverwrite
  <2>3. Rerouted(p) \in Credentials /\ SameTokens(Rerouted(p), p)
    BY DEF Rerouted, Credentials, SameTokens, SameGrant
  <2>4. PICK q \in Credentials : q = Rerouted(p)
    BY <2>3
  <2>5. TaskIs(User, "edited", task[User].slot, task[User].time, task[User].credential, task[User].other,
               task[User].answer, task[User].sequel)
    BY <1>1, <1>4, Names, GoEffect
  <2>6. Others(User) /\ task'[User].pc = "edited" /\ SameSlot /\ superseded' = superseded
    BY <1>1, <1>4, <2>5, MemorySlot DEF TaskIs
  <2>7. QED
    BY <1>1, <1>2, <2>2, <2>3, <2>4, <2>6, EditLedger
<1>5. QED
  BY <1>3, <1>4 DEF SaveEdit

\* A failed sign-in puts back what it replaced.
LEMMA RollbackLedger ==
  ASSUME Sound, task[User].pc = "loginAccount", Leave(User), primary' = task[User].other,
         rotation' = IF task[User].other = None THEN None ELSE rotation,
         UNCHANGED <<use, now, edits, crashes>>
  PROVE  LedgerInv'
<1>1. /\ Structure /\ Apart /\ StoreInv /\ TypeOK /\ User \in Tasks /\ User \notin Requests
      /\ task[User].other \in Stored
  BY UserStarted DEF Sound, Structure, LedgerInv
<1>2. lock = User
  BY <1>1 DEF Structure, LockInv, LockStages
<1>3. /\ TaskIs(User, "idle", 0, 0, None, None, "none", "none") /\ KeptStays /\ superseded' = superseded \ {User}
  BY <1>1, LeaveKeeps
<1>4. Others(User) /\ task'[User].pc = "idle" /\ SameSlot /\ Issues
  BY <1>3 DEF TaskIs, KeptStays, KeptIs, SameSlot, Kept, Issues
<1>5. /\ task[User].other # None => /\ task[User].other.grant # Login.grant /\ use[task[User].other.grant] # "none"
                                    /\ rotation' = rotation
      /\ task[User].other = None => rotation' = None /\ (registered # 0 => Alive(Kept.tokens.grant))
  BY <1>1 DEF Apart, LoginInv, At
<1>6. CheckpointInv' /\ IssuedInv' /\ NoCredentialInv' /\ LoginInv'
  <2>1. CheckpointInv'
    BY <1>1, <1>5 DEF Apart, CheckpointInv
  <2>2. IssuedInv'
    BY <1>1, <1>4, <1>5 DEF Apart, IssuedInv, SameSlot
  <2>3. NoCredentialInv'
    BY <1>1, <1>4, <1>5 DEF NoCredentialInv, SameSlot, Alive
  <2>4. LoginInv'
    BY <1>1, <1>4 DEF Apart, LoginInv, At
  <2>5. QED
    BY <2>1, <2>2, <2>3, <2>4
<1>7. StoreInv'
  <2>1. SUFFICES ASSUME NEW p \in Credentials, Held(p)' PROVE StoreOf(p)'
    BY DEF StoreInv
  <2>2. task[User].other = p /\ p # None
    BY <1>4, <2>1, Fields DEF Held, At
  <2>3. StoreOf(p) /\ ~SigningIn(p) /\ rotation' = rotation
    BY <1>1, <1>5, <2>2 DEF StoreInv, Held, At, SigningIn
  <2>4. QED
    BY <1>3, <1>4, <2>3, CommandStore
<1>8. QED
  BY <1>2, <1>4, <1>6, <1>7, CommandLedger

\* A failed command of the user.  A deletion does not put the secret back
\* while the rollback window is closed.
LEMMA UserFaultLedger ==
  ASSUME Sound, Windows = {}, StorageFault(User)
  PROVE  LedgerInv'
<1>1. Structure /\ TypeOK /\ User \in Tasks /\ task[User].pc \in UserStages
      /\ UNCHANGED <<use, now, edits, crashes>>
  BY UserStarted DEF Sound, Structure, StorageFault
<1>2. CASE task[User].pc = "edit"
  BY <1>1, <1>2, CommandEndsLedger DEF StorageFault, At, DeleteStages
<1>3. CASE task[User].pc = "loginAccount"
  BY <1>1, <1>3, RollbackLedger DEF StorageFault, At
<1>4. CASE task[User].pc = "edited"
  <2>1. task[User].credential \in Credentials
    BY <1>1, <1>4, UserStarted
  <2>2. PICK q \in Credentials : q = task[User].credential
    BY <2>1
  <2>3. /\ primary = Rerouted(q) /\ primary' = q /\ Leave(User) /\ UNCHANGED rotation
    BY <1>4, <2>2 DEF StorageFault, At, MayOverwrite
  <2>4. Rerouted(q) \in Credentials /\ SameTokens(q, Rerouted(q))
    BY DEF Rerouted, Credentials, SameTokens, SameGrant
  <2>5. PICK p \in Credentials : p = Rerouted(q)
    BY <2>4
  <2>6. /\ TaskIs(User, "idle", 0, 0, None, None, "none", "none") /\ KeptStays /\ superseded' = superseded \ {User}
    BY <1>1, <2>3, LeaveKeeps
  <2>7. Others(User) /\ task'[User].pc = "idle" /\ SameSlot
    BY <2>6 DEF TaskIs, KeptStays, KeptIs, SameSlot, Kept
  <2>8. QED
    BY <1>1, <1>4, <2>3, <2>4, <2>5, <2>6, <2>7, EditLedger
<1>5. CASE task[User].pc \notin {"edit", "loginAccount", "edited"}
  BY <1>1, <1>5 DEF StorageFault, At, UserStages, DeleteStages, LoginStages
<1>6. QED
  BY <1>2, <1>3, <1>4, <1>5

\* The slot has the tokens of the sign-in: what is stored is what it has.
LEMMA RegisteredLedger ==
  ASSUME Sound, Others(User), task'[User].pc = "readBack", At(User, "register"), primary = Login,
         registered = 0 \/ SlotFree(registered), UNCHANGED <<primary, rotation, use, now, edits, crashes>>,
         \/ registered' = registered
         \/ registered = 0 /\ \A t \in Tasks : task[t].slot # registered',
         registered' # 0, Kept.tokens' = TokenSet(Login), ~Kept.persistence_pending'
  PROVE  LedgerInv'
<1>1. /\ Structure /\ Apart /\ ExchangeInv /\ WriteInv /\ User \in Tasks /\ User \notin Requests
      /\ primary # None /\ Alive(primary.grant) /\ (rotation # None => rotation.before.grant # primary.grant)
      /\ ~primary.cut
  BY UserStarted DEF Sound, LedgerInv, Apart, LoginInv, At
<1>2. PICK p \in Credentials : p = primary
  BY <1>1, Numbers
<1>3. Kept.tokens'.grant = p.grant /\ Kept.tokens'.generation = p.generation /\ p.generation \in Nat
  BY <1>2, TokenSetType, Fields
<1>4. Alive(p.grant)' /\ Alive(Kept.tokens.grant)' /\ use[p.grant] \in {"fresh", "refused", "lost"}
  BY <1>1, <1>2, <1>3 DEF Alive
<1>5. CheckpointInv' /\ FlyingInv' /\ IssuedInv' /\ NoCredentialInv' /\ LoginInv'
  <2>1. FlyingInv'
    BY <1>1, FlyingStays DEF Apart
  <2>2. CheckpointInv' /\ IssuedInv' /\ NoCredentialInv' /\ LoginInv'
    BY <1>1, <1>2, <1>3, <1>4 DEF Apart, CheckpointInv, IssuedInv, NoCredentialInv, LoginInv, At
  <2>3. QED
    BY <2>1, <2>2
<1>6. ExchangeInv' /\ WriteInv'
  <2>1. ASSUME NEW u \in Requests PROVE ExchangeOf(u)' /\ WriteOf(u)'
    <3>1. u \in Tasks /\ task'[u] = task[u] /\ task[u].pc \notin LoadStages \cup SaveStages
          /\ (Current(u) => task[u].pc \notin Inside)
      BY <1>1, FreeOfRequests DEF Tasks, Others
    <3>2. Current(u)' => task'[u].pc \notin Inside
      BY <3>1 DEF Current
    <3>3. ~BringsPair(u)' /\ ~(Ok(u)' /\ Current(u)')
      BY <3>1, <3>2 DEF BringsPair, Ok, At, LoadStages, Inside
    <3>4. ExchangeOf(u)'
      BY <3>1, <3>3 DEF ExchangeOf, At, LoadStages
    <3>5. WriteOf(u)'
      BY <3>1, <3>2 DEF WriteOf, At, SaveStages, WriteStages, Inside
    <3>6. QED
      BY <3>4, <3>5
  <2>2. QED
    BY <2>1 DEF ExchangeInv, WriteInv
<1>7. StoreOf(p)'
  <2>1. ~Recovers(p)' /\ use'[p.grant] \notin {"spent", "unknown"}
    BY <1>1, <1>2, <1>4 DEF Recovers, SameGrant
  <2>2. Fenced(p)' /\ Expired(p)' /\ Recovered(p)' /\ Retained(p)' /\ Replaces(p)'
    BY <1>4, <2>1 DEF Fenced, Expired, Recovered, Retained, Replaces
  <2>3. Mergeable(p)' /\ Superseded(p)' /\ Written(p)'
    BY <1>3, <1>4 DEF Mergeable, Superseded, Written
  <2>4. Lags(p)'
    BY <1>1, <1>2, <1>3 DEF Lags
  <2>5. QED
    BY <2>2, <2>3, <2>4 DEF StoreOf
<1>8. StoreInv'
  BY <1>2, <1>7 DEF StoreInv, Held, At
<1>9. QED
  BY <1>5, <1>6, <1>8 DEF LedgerInv, Apart

\* The slot kept something newer.
LEMMA UnregisteredLedger ==
  ASSUME Sound, Others(User), task'[User].pc = "readBack", At(User, "register"),
         registered # 0, SlotFree(registered), UNCHANGED <<primary, rotation, use, now, edits, crashes, memory>>,
         ~Newer(Login, Kept.tokens)
  PROVE  LedgerInv'
<1>1. /\ Structure /\ Apart /\ TypeOK /\ StoreInv /\ User \in Tasks /\ User \notin Requests
      /\ primary # None /\ primary \in Credentials /\ Kept.tokens \in Credentials
  <2>1. Structure /\ Apart /\ StoreInv /\ User \in Tasks /\ User \notin Requests
    BY UserStarted DEF Sound, LedgerInv
  <2>2. primary # None
    BY <2>1 DEF Apart, LoginInv, At
  <2>3. QED
    BY <2>1, <2>2, Numbers DEF Structure
<1>2. SameSlot /\ superseded' = superseded /\ Issues /\ Resettled
  BY <1>1, MemorySlot DEF Issues, Resettled
<1>3. CheckpointInv' /\ IssuedInv' /\ NoCredentialInv' /\ LoginInv'
  BY <1>1, <1>2 DEF Apart, CheckpointInv, IssuedInv, NoCredentialInv, LoginInv, At, SameSlot
<1>4. PICK p \in Credentials : p = primary
  BY <1>1
<1>5. StoreOf(p)
  BY <1>1, <1>4 DEF StoreInv, Held
<1>6. StoreOf(p)'
  <2>1. CASE ~SigningIn(p)
    BY <1>2, <1>5, <2>1, CommandStore
  <2>2. CASE SigningIn(p)
    <3>1. p = Login /\ Alive(p.grant) /\ (rotation # None => rotation.before.grant # p.grant) /\ ~p.cut
      BY <1>1, <1>4, <2>2 DEF SigningIn, Apart, LoginInv, At
    <3>2. Kept.tokens.generation >= p.generation /\ Kept.tokens.generation \in Nat /\ p.generation \in Nat
      BY <1>1, <3>1, Fields DEF Newer
    <3>3. registered' = registered /\ Kept.tokens' = Kept.tokens /\ Kept.persistence_pending' = Kept.persistence_pending
      BY <1>2 DEF SameSlot
    <3>4. Alive(p.grant)' /\ ~Recovers(p)' /\ use'[p.grant] \notin {"spent", "unknown"}
      BY <3>1 DEF Alive, Recovers, SameGrant
    <3>5. Fenced(p)' /\ Expired(p)' /\ Recovered(p)' /\ Retained(p)' /\ Replaces(p)'
      BY <3>4 DEF Fenced, Expired, Recovered, Retained, Replaces
    <3>6. SlotStays /\ (Carried => Carried')
      BY <1>2, CommandKeeps
    <3>7. Mergeable(p)' /\ Written(p)'
      BY <1>5, <3>1, <3>3, <3>4, <3>6 DEF StoreOf, Mergeable, Written, Newer, SlotStays
    <3>8. Superseded(p)'
      <4>1. SUFFICES ASSUME ~Alive(Kept.tokens.grant) PROVE Superseded(p)'
        BY <3>3, <3>6 DEF Superseded, SlotStays
      <4>2. p.grant # Kept.tokens.grant
        BY <3>1, <4>1
      <4>3. Quiet \/ Carried
        BY <1>5, <3>2, <4>1, <4>2 DEF StoreOf, Superseded
      <4>4. QED
        BY <3>6, <4>1, <4>3 DEF Superseded, SlotStays
    <3>9. Lags(p)'
      BY <3>1, <3>2, <3>3 DEF Lags
    <3>10. QED
      BY <3>5, <3>7, <3>8, <3>9 DEF StoreOf
  <2>3. QED
    BY <2>1, <2>2
<1>7. StoreInv'
  BY <1>4, <1>6 DEF StoreInv, Held, At
<1>8. QED
  BY <1>2, <1>3, <1>7, CommandLedger

\* register_if_newer
LEMMA RegisterLoginLedger ==
  ASSUME Sound, RegisterLogin
  PROVE  LedgerInv'
<1>1. /\ Structure /\ Apart /\ TypeOK /\ StageInv /\ User \in Tasks /\ User \notin Requests
      /\ At(User, "register") /\ task[User].pc = "register" /\ task[User].pc \in LoginStages
      /\ UNCHANGED <<primary, rotation, use, now, edits, crashes>> /\ Go(User, "readBack")
      /\ (registered = 0 \/ SlotFree(registered))
  BY UserStarted DEF Sound, Structure, LedgerInv, RegisterLogin, At, durable, bounds, LoginStages
<1>2. TaskIs(User, "readBack", task[User].slot, task[User].time, task[User].credential, task[User].other,
             task[User].answer, task[User].sequel)
  BY <1>1, Names, GoEffect
<1>3. Others(User) /\ task'[User].pc = "readBack" /\ "Active" \in AuthStates
  BY <1>2 DEF TaskIs, AuthStates
<1>4. /\ Login \in Credentials
      /\ primary # Login => registered # 0 /\ Newer(Kept.tokens, Login)
  BY <1>1, UserStarted DEF Login, Apart, LoginInv
<1>5. CASE registered = 0 /\ InsertSlot(Login, "Active")
  <2>1. /\ registered' # 0 /\ \A t \in Tasks : task[t].slot # registered'
        /\ Kept'.tokens = TokenSet(Login) /\ Kept'.persistence_pending = FALSE
    BY <1>1, <1>3, <1>4, <1>5, InsertSlotEffect
  <2>2. primary = Login
    BY <1>4, <1>5
  <2>3. Kept.tokens' = TokenSet(Login) /\ ~Kept.persistence_pending'
    BY <2>1
  <2>4. QED
    BY <1>1, <1>3, <1>5, <2>1, <2>2, <2>3, RegisteredLedger
<1>6. CASE registered # 0 /\ Newer(Login, Kept.tokens) /\ SetSlot(registered, Fresh(TokenSet(Login), "Active")) /\ registered' = registered
  <2> DEFINE q == Fresh(TokenSet(Login), "Active")
  <2>1. q \in TokenSlots /\ q.tokens = TokenSet(Login) /\ q.persistence_pending = FALSE
    BY <1>3, <1>4, FreshType
  <2> HIDE DEF q
  <2>2. SetSlot(registered, q) /\ registered \in Slots
    BY <1>1, <1>6 DEF q, TypeOK
  <2>3. slot'[registered'] = q
    BY <1>1, <1>6, <2>2 DEF SetSlot, TypeOK
  <2>4. Kept.tokens' = TokenSet(Login) /\ ~Kept.persistence_pending'
    BY <2>1, <2>3 DEF Kept
  <2>5. primary = Login
    <3>1. Kept.tokens \in Credentials
      BY <1>1, <1>6, Numbers
    <3>2. ~Newer(Kept.tokens, Login)
      BY <1>4, <1>6, <3>1, Fields DEF Newer
    <3>3. QED
      BY <1>4, <3>2
  <2>6. QED
    BY <1>1, <1>3, <1>6, <2>4, <2>5, RegisteredLedger
<1>7. CASE registered # 0 /\ ~Newer(Login, Kept.tokens) /\ UNCHANGED memory
  BY <1>1, <1>3, <1>7, UnregisteredLedger
<1>8. QED
  BY <1>5, <1>6, <1>7 DEF RegisterLogin, Login, Kept

-----------------------------------------------------------------------------
(* Stops, starts, and time *)

\* A stop forgets the slot and every exchange under way: those of unknown
\* outcome are behind the checkpoint.
LEMMA CrashLedger ==
  ASSUME Sound, Crash
  PROVE  LedgerInv'
<1>1. /\ Structure /\ Apart /\ StoreInv /\ crashes \in Nat
      /\ use \in [Grants -> {"none", "fresh", "flying", "spent", "refused", "lost", "unknown"}]
  BY Numbers DEF Sound, Structure, TypeOK, LedgerInv
<1>2. /\ UNCHANGED <<primary, rotation, now, edits>> /\ registered' = 0 /\ crashes' = crashes + 1
      /\ task' = [t \in Tasks |-> Idle]
      /\ use' = [g \in Grants |-> IF use[g] = "flying" THEN "unknown" ELSE use[g]]
  BY DEF Crash, durable
<1>3. \A t \in Tasks : task'[t].pc = "idle"
  BY <1>2 DEF Idle
<1>4. \A g \in Grants : /\ use[g] = "flying" => use'[g] = "unknown"
                        /\ use[g] # "flying" => use'[g] = use[g]
                        /\ use'[g] # "none" <=> use[g] # "none"
                        /\ use'[g] # "flying"
  BY <1>1, <1>2
<1>5. \A t \in Requests : task'[t].pc = "idle"
  BY <1>3 DEF Tasks
<1>6. task'[User].pc = "idle"
  BY <1>3 DEF Tasks
<1>7. CheckpointInv'
  <2>1. SUFFICES ASSUME rotation # None, rotation.after # None
        PROVE  /\ use'[rotation.after.grant] = "fresh" /\ use'[rotation.before.grant] = "spent"
               /\ ~rotation.after.cut /\ rotation.after.generation = rotation.before.generation + 1
    BY <1>2 DEF CheckpointInv
  <2>2. rotation.after.grant \in Grants /\ rotation.before.grant \in Grants
    BY <1>1, <2>1, Numbers, Fields
  <2>3. QED
    BY <1>1, <1>4, <2>1, <2>2 DEF Apart, CheckpointInv
<1>8. FlyingInv'
  BY <1>4 DEF FlyingInv
<1>9. IssuedInv'
  <2>1. /\ primary # None => primary.grant \in Grants
        /\ rotation # None => rotation.before.grant \in Grants
    BY <1>1, Numbers, Fields
  <2>2. QED
    BY <1>1, <1>2, <1>4, <2>1 DEF Apart, IssuedInv
<1>10. NoCredentialInv' /\ LoginInv'
  BY <1>2, <1>6 DEF NoCredentialInv, LoginInv, At
<1>11. ExchangeInv' /\ WriteInv'
  BY <1>5 DEF ExchangeInv, WriteInv, ExchangeOf, WriteOf, BringsPair, Ok, At,
              LoadStages, SaveStages, WriteStages
<1>12. StoreInv'
  <2>1. SUFFICES ASSUME NEW p \in Credentials, Held(p)' PROVE StoreOf(p)'
    BY DEF StoreInv
  <2>2. primary = p /\ StoreOf(p) /\ p.grant \in Grants
    BY <1>1, <1>2, <1>6, <2>1, Fields DEF Held, At, StoreInv
  <2>3. Fenced(p)'
    <3>1. CASE use[p.grant] = "flying"
      <4>1. PICK u \in Requests : At(u, "wait") /\ task[u].credential.grant = p.grant
        BY <1>1, <2>2, <3>1 DEF Apart, FlyingInv
      <4>2. /\ rotation # None /\ SameTokens(primary, task[u].credential)
            /\ SameTokens(rotation.before, task[u].credential)
        BY <4>1, Renewing DEF At
      <4>3. SameGrant(p, rotation.before)
        BY <2>2, <4>2 DEF SameTokens, SameGrant
      <4>4. QED
        BY <1>2, <4>2, <4>3 DEF Fenced, SameGrant
    <3>2. CASE use[p.grant] # "flying"
      BY <1>2, <1>4, <2>2, <3>2 DEF StoreOf, Fenced, SameGrant
    <3>3. QED
      BY <3>1, <3>2
  <2>4. Expired(p)'
    BY <1>2, <2>2 DEF StoreOf, Expired, Recovers, SameGrant, Usable
  <2>5. Mergeable(p)' /\ Superseded(p)' /\ Lags(p)' /\ Written(p)' /\ Recovered(p)'
    BY <1>2 DEF Mergeable, Superseded, Lags, Written, Recovered
  <2>6. Replaces(p)'
    BY <1>5 DEF Replaces, Ok, At
  <2>7. Retained(p)'
    BY <1>1, <1>2 DEF Retained
  <2>8. QED
    BY <2>3, <2>4, <2>5, <2>6, <2>7 DEF StoreOf
<1>13. QED
  BY <1>7, <1>8, <1>9, <1>10, <1>11, <1>12 DEF LedgerInv, Apart

\* While the slot stays, time only ends the use of its token.
LEMMA TimeLedger ==
  ASSUME Sound, UNCHANGED <<primary, rotation, use, edits, crashes, memory, task>>, now' \in Nat, now' >= now,
         now' = now \/ task[User].pc \notin {"loginAccount", "register"}
  PROVE  LedgerInv'
<1>1. /\ Structure /\ TypeOK /\ Apart /\ ExchangeInv /\ WriteInv /\ StoreInv /\ User \in Tasks /\ User \notin Requests
      /\ Others(User)
  BY UserStarted DEF Sound, Structure, LedgerInv, Others
<1>2. SameSlot /\ superseded' = superseded
  BY <1>1, MemorySlot
<1>3. /\ registered' = registered
      /\ registered # 0 => /\ Kept.tokens' = Kept.tokens
                           /\ Kept.persistence_pending' = Kept.persistence_pending
  BY <1>2 DEF SameSlot
<1>4. /\ \A g : Alive(g)' = Alive(g)
      /\ \A u : Carries(u)' = Carries(u) /\ Brings(u)' = Brings(u) /\ Ok(u)' = Ok(u) /\ Current(u)' = Current(u)
      /\ \A u : BringsPair(u)' = BringsPair(u)
  BY <1>3 DEF Alive, Carries, Brings, BringsPair, Ok, At, Current
<1>5. ASSUME NEW u \in Requests PROVE Spares(u)
  <2>1. task[u].pc \in Inside /\ Current(u) => registered # 0
    BY <1>1, Lone
  <2>2. Resettled /\ Issues
    BY DEF Resettled, Issues
  <2>3. QED
    BY <1>3, <2>1, <2>2 DEF Spares
<1>6. ExchangeInv' /\ WriteInv'
  BY <1>1, <1>5, SparesExchange, SparesWrite DEF ExchangeInv, WriteInv
<1>7. CheckpointInv' /\ FlyingInv' /\ IssuedInv' /\ NoCredentialInv'
  BY <1>1, <1>3 DEF Apart, CheckpointInv, FlyingInv, IssuedInv, NoCredentialInv, Alive, At
<1>8. LoginInv'
  <2>1. CASE now' = now
    <3>1. Login' = Login
      BY DEF Login
    <3>2. registered # 0 => Newer(Kept.tokens, Login)' = Newer(Kept.tokens, Login)
      BY <1>3, <3>1 DEF Newer
    <3> HIDE DEF Login
    <3>3. QED
      BY <1>1, <1>3, <1>4, <2>1, <3>1, <3>2 DEF Apart, LoginInv, At
  <2>2. CASE task[User].pc \notin {"loginAccount", "register"}
    BY <1>1, <2>2 DEF Apart, LoginInv, At
  <2>3. QED
    BY <2>1, <2>2
<1>9. Carried' = Carried /\ Brought' = Brought
  BY <1>4 DEF Carried, Brought
<1>10. registered # 0 /\ Quiet => Quiet'
  BY <1>1, <1>2, <1>3, QuietStays
<1>11. SlotStays
  BY <1>3, <1>4, <1>10 DEF SlotStays, Alive
<1>12. StoreInv'
  <2>1. SUFFICES ASSUME NEW p \in Credentials, Held(p)' PROVE StoreOf(p)'
    BY DEF StoreInv
  <2>2. StoreOf(p)
    BY <1>1, <2>1 DEF StoreInv, Held, At
  <2>3. Replaces(p)'
    <3>1. SUFFICES ASSUME NEW u \in Requests, Ok(u)', Current(u)' PROVE Alive(p.grant)' \/ Ahead(u, p)'
      BY DEF Replaces
    <3>2. Ok(u) /\ Current(u)
      BY <1>4, <3>1
    <3>3. registered # 0
      BY <1>1, <3>2, Lone DEF Ok, At, Inside
    <3>4. Ahead(u, p)' = Ahead(u, p)
      BY <1>3, <3>3 DEF Ahead
    <3>5. QED
      BY <1>4, <2>2, <3>2, <3>4 DEF StoreOf, Replaces
  <2>4. SigningIn(p)' = SigningIn(p) /\ (registered # 0 => (Alive(Kept.tokens.grant)' => Alive(Kept.tokens.grant)))
    BY <1>3 DEF SigningIn, Login, Alive
  <2>5. QED
    BY <1>1, <1>9, <1>11, <2>2, <2>3, <2>4, StoreFrame
<1>13. QED
  BY <1>6, <1>7, <1>8, <1>12 DEF LedgerInv, Apart

\* The slot is assembled from the store: it knows what the store knows.
LEMMA AssembleLedger ==
  ASSUME Sound, Assemble
  PROVE  LedgerInv'
<1>1. /\ Structure /\ TypeOK /\ StageInv /\ Apart /\ ExchangeInv /\ WriteInv /\ StoreInv
      /\ registered = 0 /\ primary # None /\ account # None /\ InsertSlot(primary, account.auth)
      /\ UNCHANGED <<primary, rotation, task, use, now, edits, crashes>>
  BY DEF Sound, Structure, LedgerInv, Assemble, durable, bounds
<1>2. PICK q \in Credentials : q = primary
  BY <1>1, Numbers
<1>3. account.auth \in AuthStates
  BY <1>1 DEF TypeOK, Accounts
<1>4. /\ registered' # 0 /\ \A t \in Tasks : task[t].slot # registered'
      /\ Kept'.tokens = TokenSet(q) /\ Kept'.persistence_pending = FALSE
  BY <1>1, <1>2, <1>3, InsertSlotEffect
<1>5. PICK k \in Credentials : k = Kept'.tokens
  BY <1>4, TokenSetType
<1>6. /\ Kept.tokens' = k /\ ~Kept.persistence_pending'
      /\ k.grant = q.grant /\ k.generation = q.generation /\ k.issued_at = q.issued_at /\ k.cut = q.cut
  <2>1. Kept.tokens' = k /\ ~Kept.persistence_pending'
    BY <1>4, <1>5
  <2>2. k = TokenSet(q)
    BY <1>4, <1>5
  <2>3. QED
    BY <2>1, <2>2, TokenSetType
<1>7. \A u \in Requests : ~Current(u)'
  BY <1>1, <1>4 DEF Current, Tasks
<1>8. /\ ~Carried /\ ~Brought
      /\ \A u \in Requests : task[u].pc \notin LoadStages \cup SaveStages /\ ~BringsPair(u)
  BY <1>1, Undisturbed
<1>9. \A g : Alive(g)' = Alive(g)
  BY <1>1 DEF Alive
<1>10. task[User].pc \in {"loginAccount", "register"} =>
         /\ primary = Login /\ Alive(q.grant)
         /\ rotation # None /\ rotation.after # None => rotation.after.grant # q.grant
  BY <1>1, <1>2 DEF Apart, LoginInv
<1>11. CheckpointInv' /\ FlyingInv' /\ IssuedInv' /\ NoCredentialInv'
  BY <1>1, <1>2, <1>6 DEF Apart, CheckpointInv, FlyingInv, IssuedInv, NoCredentialInv, At
<1>12. LoginInv'
  <2>1. Login' = Login /\ \A u \in Requests : BringsPair(u)' = BringsPair(u)
    BY <1>1 DEF Login, BringsPair, At
  <2>2. Alive(Login.grant)' = Alive(Login.grant) /\ Alive(Kept.tokens.grant)' = Alive(q.grant)
    BY <1>6, <1>9, <2>1 DEF Alive
  <2> HIDE DEF Login
  <2>3. QED
    BY <1>1, <1>10, <2>1, <2>2 DEF Apart, LoginInv, At
<1>13. ExchangeInv' /\ WriteInv'
  <2>1. ASSUME NEW u \in Requests PROVE ExchangeOf(u)' /\ WriteOf(u)'
    <3>1. task'[u].pc \notin LoadStages \cup SaveStages /\ ~BringsPair(u)' /\ ~Current(u)'
      BY <1>1, <1>7, <1>8 DEF BringsPair, At
    <3>2. ExchangeOf(u)'
      BY <3>1 DEF ExchangeOf, At, LoadStages
    <3>3. WriteOf(u)'
      BY <3>1 DEF WriteOf, At, SaveStages
    <3>4. QED
      BY <3>2, <3>3
  <2>2. QED
    BY <2>1 DEF ExchangeInv, WriteInv
<1>14. StoreInv'
  <2>1. SUFFICES ASSUME NEW p \in Credentials, Held(p)' PROVE StoreOf(p)'
    BY DEF StoreInv
  <2>2. /\ StoreOf(p) /\ p.generation \in Nat /\ k.generation \in Nat
        /\ \/ p = q
           \/ /\ task[User].pc = "loginAccount" /\ Alive(q.grant)
              /\ p.grant # q.grant /\ p.generation < q.generation
              /\ rotation # None /\ rotation.after # None => rotation.after.grant # q.grant
    <3>1. Held(p)
      BY <1>1, <2>1 DEF Held, At
    <3>2. CASE primary = p
      BY <1>1, <1>2, <3>1, <3>2, Fields DEF StoreInv
    <3>3. CASE At(User, "loginAccount") /\ task[User].other = p
      <4>1. task[User].other # None /\ Login = q
        BY <1>2, <1>10, <3>3, Fields DEF At
      <4>2. p.grant # q.grant /\ p.generation < q.generation
        BY <1>1, <3>3, <4>1 DEF Apart, LoginInv
      <4>3. QED
        BY <1>1, <1>10, <3>1, <3>3, <4>2, Fields DEF StoreInv, At
    <3>4. QED
      BY <3>1, <3>2, <3>3 DEF Held
  <2>3. Recovers(p)' = Recovers(p)
    BY <1>1 DEF Recovers, SameGrant
  <2>4. Fenced(p)' /\ Expired(p)'
    BY <1>1, <2>2, <2>3 DEF StoreOf, Fenced, Expired, SameGrant, Usable
  <2>5. p = q /\ Recovers(p) => Quiet'
    BY <1>1, <1>6, <1>7, <2>2 DEF StoreOf, Expired, Quiet, Calm, Usable
  <2>6. Alive(Kept.tokens.grant)' = Alive(q.grant)
    BY <1>6, <1>9 DEF Alive
  <2>7. Mergeable(p)'
    BY <1>6 DEF Mergeable
  <2>8. Superseded(p)'
    BY <1>6, <2>2, <2>3, <2>5, <2>6 DEF Superseded
  <2>9. Replaces(p)'
    BY <1>7 DEF Replaces
  <2>10. Lags(p)' /\ Written(p)'
    BY <1>6, <2>2 DEF Lags, Written
  <2>11. Recovered(p)'
    <3>1. SUFFICES ASSUME Recovers(p) PROVE Recovered(p)'
      BY <2>3 DEF Recovered
    <3>2. rotation # None /\ rotation.after # None /\ p.grant = rotation.before.grant
      BY <3>1 DEF Recovers, SameGrant
    <3>3. rotation.after.grant # rotation.before.grant
      BY <1>1, <3>2 DEF Apart, CheckpointInv
    <3>4. k.generation >= p.generation /\ k.grant # rotation.after.grant /\ (Alive(q.grant) \/ Quiet')
      BY <1>6, <2>2, <2>5, <3>1, <3>2, <3>3
    <3>5. QED
      BY <1>1, <1>6, <2>6, <3>4 DEF Recovered
  <2>12. Retained(p)'
    BY <1>1, <1>8, <2>2 DEF StoreOf, Retained
  <2>13. QED
    BY <2>4, <2>7, <2>8, <2>9, <2>10, <2>11, <2>12 DEF StoreOf
<1>15. QED
  BY <1>11, <1>12, <1>13, <1>14 DEF LedgerInv, Apart

-----------------------------------------------------------------------------
(* The steps together *)

\* With every window closed, no step forgets what became of a grant.
LEMMA NextLedger ==
  ASSUME Sound, Windows = {}, [Next]_vars
  PROVE  LedgerInv'
<1>1. Structure /\ now \in Nat
  BY Numbers DEF Sound
<1>2. ASSUME NEW t \in Requests, PrepareStart(t) \/ Step(t) \/ Cancel(t) PROVE LedgerInv'
  BY <1>2, PreparingLedger, EndingLedger, LoadLedger, ForgetRecoveredLedger, UseStoredLedger,
     CheckpointGrantLedger, SendLedger, ProviderRotatesLedger, ProviderFailsLedger, OvertakenLedger,
     CheckpointRotationLedger, FailRefreshLedger, SaveRotatedLedger, ForgetRotatedLedger,
     InstallRefreshedLedger, SaveTokensLedger, ClearCheckpointLedger, SaveGenerationLedger,
     InvalidateLedger, CancelLedger DEF Step
<1>3. CASE CommitLogin \/ DeleteCredential \/ StartEdit \/ UserStep
  BY <1>3, CommitLoginLedger, RecordLoginLedger, RegisterLoginLedger, CommandGoesLedger,
     DeletingLedger, DeleteAccountLedger, SaveEditLedger DEF UserStep
<1>4. ASSUME NEW t \in Tasks, StorageFault(t) \/ LockTimeout(t) PROVE LedgerInv'
  <2>1. CASE t \in Requests
    BY <1>4, <2>1, RequestFaultLedger, LockTimeoutLedger
  <2>2. CASE t = User
    <3>1. ~LockTimeout(User)
      BY <1>1, UserStarted DEF LockTimeout, LockWaits, At, UserStages, DeleteStages, LoginStages
    <3>2. QED
      BY <1>4, <2>2, <3>1, UserFaultLedger
  <2>3. QED
    BY <2>1, <2>2 DEF Tasks
<1>5. CASE BreakLock \/ Tick \/ UNCHANGED vars
  <2>1. /\ UNCHANGED <<primary, rotation, use, edits, crashes, memory, task>>
        /\ now' = now \/ (now' = now + 1 /\ task[User].pc \notin {"loginAccount", "register"})
    BY <1>5 DEF BreakLock, Tick, vars, durable, bounds
  <2>2. now' \in Nat /\ now' >= now
    BY <1>1, <2>1
  <2>3. QED
    BY <2>1, <2>2, TimeLedger
<1>6. QED
  BY <1>2, <1>3, <1>4, <1>5, CrashLedger, AssembleLedger DEF Next

\* A new account has one grant, which nobody has sent.
LEMMA InitLedger ==
  ASSUME Init
  PROVE  LedgerInv
<1>1. /\ primary \in Credentials /\ use[primary.grant] = "fresh" /\ \A g \in Grants : use[g] # "flying"
      /\ rotation = None /\ registered = 0 /\ \A t \in Tasks : task[t].pc = "idle"
  BY InitTypes, InitIdle DEF Init
<1>2. PICK q \in Credentials : q = primary
  BY <1>1
<1>3. task[User].pc = "idle" /\ \A t \in Requests : task[t].pc = "idle"
  BY <1>1 DEF Tasks
<1>4. Apart
  BY <1>1, <1>3 DEF Apart, CheckpointInv, FlyingInv, IssuedInv, NoCredentialInv, LoginInv, At
<1>5. ExchangeInv /\ WriteInv
  BY <1>3 DEF ExchangeInv, WriteInv, ExchangeOf, WriteOf, BringsPair, Ok, At, LoadStages, SaveStages,
              WriteStages
<1>6. StoreInv
  <2>1. SUFFICES ASSUME NEW p \in Credentials, Held(p) PROVE StoreOf(p)
    BY DEF StoreInv
  <2>2. use[p.grant] = "fresh"
    BY <1>1, <1>3, <2>1 DEF Held, At
  <2>3. Fenced(p) /\ Expired(p) /\ Replaces(p) /\ Retained(p)
    BY <1>1, <1>3, <2>2 DEF Fenced, Expired, Recovers, Replaces, Retained, Ok, At
  <2>4. Mergeable(p) /\ Superseded(p) /\ Lags(p) /\ Written(p) /\ Recovered(p)
    BY <1>1 DEF Mergeable, Superseded, Lags, Written, Recovered
  <2>5. QED
    BY <2>3, <2>4 DEF StoreOf
<1>7. QED
  BY <1>4, <1>5, <1>6 DEF LedgerInv

\* With the windows closed, what the store, the checkpoint, the authority and
\* the requests know of a grant fits together in every state: together they
\* say whether the code may send it, and where its replacement is.
THEOREM LedgerHolds ==
  ASSUME Windows = {}
  PROVE  Spec => []LedgerInv
<1>1. Init => LedgerInv
  BY InitLedger
<1>2. Structure /\ BurialInv /\ LedgerInv /\ [Next]_vars => LedgerInv'
  BY NextLedger DEF Sound
<1>3. QED
  BY <1>1, <1>2, StructureHolds, BurialHolds, PTL DEF Spec

\* A stored grant whose replacement was received, or whose exchange was
\* dropped before its answer, is named by the checkpoint: no renewal sends it
\* again, in this process or the next.
THEOREM SpentGrantFenced ==
  ASSUME Windows = {}
  PROVE  Spec => []SpentGrantIsFenced
<1>1. Structure /\ LedgerInv => SpentGrantIsFenced
  <2>1. SUFFICES ASSUME Structure, LedgerInv, primary # None, use[primary.grant] \in {"spent", "unknown"}
        PROVE  rotation # None /\ SameGrant(primary, rotation.before)
    BY DEF SpentGrantIsFenced
  <2>2. PICK p \in Credentials : p = primary
    BY <2>1, Numbers
  <2>3. Fenced(p)
    BY <2>1, <2>2 DEF LedgerInv, StoreInv, Held, StoreOf
  <2>4. QED
    BY <2>1, <2>2, <2>3 DEF Fenced
<1>2. QED
  BY <1>1, LedgerHolds, StructureHolds, PTL

\* Until a restart, an edit or the removal of the slot, and while the store has
\* a spent grant, the pair that replaced it is in the checkpoint, with a request
\* on its way to the slot, or in the slot with its write pending, whatever write
\* failed.
THEOREM ReceivedPairKept ==
  ASSUME Windows = {}
  PROVE  Spec => []ReceivedPairIsKept
<1>1. Structure /\ LedgerInv => ReceivedPairIsKept
  <2>1. SUFFICES ASSUME Structure, LedgerInv, crashes = 0, edits = 0, primary # None, use[primary.grant] = "spent"
        PROVE  \/ \E t \in Requests : task[t].other # None \/ (At(t, "returned") /\ task[t].answer = "ok")
               \/ registered # 0 /\ slot[registered].persistence_pending
    BY DEF ReceivedPairIsKept
  <2>2. PICK p \in Credentials : p = primary
    BY <2>1, Numbers
  <2>3. Brought \/ (registered # 0 /\ Kept.persistence_pending)
    BY <2>1, <2>2 DEF LedgerInv, StoreInv, Held, StoreOf, Retained
  <2>4. CASE Brought
    <3>1. PICK t \in Requests : BringsPair(t) \/ Ok(t)
      BY <2>4 DEF Brought, Brings
    <3>2. BringsPair(t) => task[t].other \in Credentials
      BY <2>1 DEF Structure, StageInv, StageOf, Tasks
    <3>3. BringsPair(t) => task[t].other # None
      BY <3>2, NoneAssumption
    <3>4. QED
      BY <3>1, <3>3 DEF Ok
  <2>5. QED
    BY <2>3, <2>4 DEF Kept
<1>2. QED
  BY <1>1, LedgerHolds, StructureHolds, PTL

-----------------------------------------------------------------------------
(* The ledger *)

\* What the requests do to a grant.
LEMMA RequestEntry ==
  ASSUME Sound, NEW t \in Requests, PrepareStart(t) \/ Step(t) \/ Cancel(t)
  PROVE  Ledger!Next \/ use' = use
<1> DEFINE g == task[t].credential.grant
<1>1. use \in [Grants -> {"none", "fresh", "flying", "spent", "refused", "lost", "unknown"}]
  BY DEF Sound, Structure, TypeOK
<1>2. CASE Send(t)
  <2>1. task[t].pc = "send" /\ use' = [use EXCEPT ![g] = "flying"]
    BY <1>2 DEF Send, At
  <2>2. t \in Tasks /\ StageOf(t) /\ ExchangeOf(t)
    BY DEF Sound, Structure, StageInv, LedgerInv, ExchangeInv, Tasks
  <2>3. task[t].credential \in Credentials /\ Alive(g)
    BY <2>1, <2>2 DEF StageOf, LoadStages, ExchangeOf
  <2>4. g \in Grants
    BY <2>3, Fields
  <2>5. Ledger!Send(g)
    BY <2>1, <2>3 DEF Ledger!Send, Ledger!Move, Alive
  <2> HIDE DEF g
  <2>6. QED
    BY <2>4, <2>5 DEF Ledger!Next
<1>3. CASE ProviderRotates(t)
  <2>1. At(t, "wait") /\ use' = [use EXCEPT ![g] = "spent", ![NextGrant] = "fresh"]
        /\ NextGrant \in Grants /\ use[NextGrant] = "none"
    BY <1>3, NextGrantIsNew DEF ProviderRotates
  <2>2. g \in Grants /\ use[g] = "flying"
    BY <2>1, Waiting
  <2>3. Ledger!Rotate(g, NextGrant)
    BY <2>1, <2>2 DEF Ledger!Rotate
  <2> HIDE DEF g
  <2>4. QED
    BY <2>1, <2>2, <2>3 DEF Ledger!Next
<1>4. CASE ProviderFails(t)
  <2>1. At(t, "wait") /\ \E outcome \in {"refused", "fresh", "lost"} : use' = [use EXCEPT ![g] = outcome]
    BY <1>4 DEF ProviderFails
  <2>2. g \in Grants /\ use[g] = "flying"
    BY <2>1, Waiting
  <2>3. Ledger!Refuse(g) \/ Ledger!Fail(g) \/ Ledger!LoseAnswer(g)
    BY <2>1, <2>2 DEF Ledger!Refuse, Ledger!Fail, Ledger!LoseAnswer, Ledger!Move
  <2> HIDE DEF g
  <2>4. QED
    BY <2>2, <2>3 DEF Ledger!Next
<1>5. CASE Cancel(t)
  <2>1. CASE At(t, "wait")
    <3>1. use' = [use EXCEPT ![g] = "unknown"]
      BY <1>5, <2>1 DEF Cancel
    <3>2. g \in Grants /\ use[g] = "flying"
      BY <2>1, Waiting
    <3> HIDE DEF g
    <3>3. use' = [h \in Grants |-> IF h \in {g} THEN "unknown" ELSE use[h]]
      BY <1>1, <3>1, <3>2
    <3>4. {g} \in SUBSET {h \in Grants : use[h] = "flying"}
      BY <3>2
    <3>5. Ledger!Drop
      BY <3>3, <3>4 DEF Ledger!Drop
    <3>6. QED
      BY <3>5 DEF Ledger!Next
  <2>2. CASE ~At(t, "wait")
    BY <1>5, <2>2 DEF Cancel
  <2>3. QED
    BY <2>1, <2>2
<1>6. CASE PrepareStart(t) \/ EnterSlot(t) \/ WritePending(t) \/ HealReused(t) \/ RefusePreparation(t)
           \/ PrepareReady(t) \/ StartRefresh(t) \/ Load(t) \/ ForgetRecovered(t) \/ UseStored(t)
           \/ CheckpointGrant(t) \/ Overtaken(t) \/ CheckpointRotation(t) \/ FailRefresh(t)
  BY <1>6 DEF PrepareStart, EnterSlot, WritePending, HealReused, RefusePreparation, PrepareReady,
     StartRefresh, Load, ForgetRecovered, UseStored, CheckpointGrant, Overtaken, CheckpointRotation, FailRefresh
<1>7. CASE SaveRotated(t) \/ ForgetRotated(t) \/ InstallRefreshed(t) \/ InstallReauth(t) \/ DropResult(t)
           \/ SaveTokens(t) \/ ClearCheckpoint(t) \/ SaveGeneration(t) \/ SaveAuth(t)
           \/ Dispatch(t) \/ Accepted(t) \/ Invalidate(t)
  BY <1>7 DEF SaveRotated, ForgetRotated, InstallRefreshed, InstallReauth, DropResult, SaveTokens,
     ClearCheckpoint, SaveGeneration, SaveAuth, Dispatch, Accepted, Invalidate
<1>8. QED
  BY <1>2, <1>3, <1>4, <1>5, <1>6, <1>7 DEF Step

\* What any step does to the grants is a step of the ledger.
LEMMA LedgerEntry ==
  ASSUME Sound, [Next]_vars
  PROVE  [Ledger!Next]_use
<1>1. use \in [Grants -> {"none", "fresh", "flying", "spent", "refused", "lost", "unknown"}]
  BY DEF Sound, Structure, TypeOK
<1>2. CASE CommitLogin
  <2>1. use' = [use EXCEPT ![NextGrant] = "fresh"] /\ NextGrant \in Grants /\ use[NextGrant] = "none"
    BY <1>2, NextGrantIsNew DEF CommitLogin
  <2>2. Ledger!Obtain(NextGrant)
    BY <2>1 DEF Ledger!Obtain, Ledger!Move
  <2>3. QED
    BY <2>1, <2>2 DEF Ledger!Next
<1>3. CASE Crash
  <2> DEFINE dropped == {g \in Grants : use[g] = "flying"}
  <2>1. use' = [g \in Grants |-> IF g \in dropped THEN "unknown" ELSE use[g]]
    BY <1>3 DEF Crash
  <2>2. Ledger!Drop
    BY <2>1 DEF Ledger!Drop
  <2>3. QED
    BY <2>2 DEF Ledger!Next
<1>4. CASE DeleteCredential \/ StartEdit \/ UserStep
  BY <1>4 DEF DeleteCredential, StartEdit, UserStep, RecordLogin, RegisterLogin, ReadBack, DeleteCheckpoint,
     DeleteAccount, SaveEdit, FinishEdit
<1>5. CASE (\E t \in Tasks : StorageFault(t) \/ LockTimeout(t)) \/ Assemble \/ BreakLock \/ Tick \/ UNCHANGED vars
  BY <1>5 DEF StorageFault, LockTimeout, Assemble, BreakLock, Tick, vars
<1>6. QED
  BY <1>2, <1>3, <1>4, <1>5, RequestEntry DEF Next

\* TokenRotation keeps the ledger: whatever write failed and however often it
\* restarted, it sends no grant whose replacement it received or whose exchange
\* was dropped.  Of the grants that may be rotated it sends only those the
\* ledger calls lost.
THEOREM LedgerObeyed ==
  ASSUME Windows = {}
  PROVE  Spec => ObeysLedger
<1>1. Init => Ledger!Init
  BY DEF Init, Ledger!Init
<1>2. Structure /\ BurialInv /\ LedgerInv /\ [Next]_vars => [Ledger!Next]_use
  BY LedgerEntry DEF Sound
<1>3. QED
  BY <1>1, <1>2, StructureHolds, BurialHolds, LedgerHolds, PTL DEF Spec, ObeysLedger, Ledger!Spec
=============================================================================
