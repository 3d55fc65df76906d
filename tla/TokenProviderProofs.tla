------------------------- MODULE TokenProviderProofs -------------------------
(* What TokenProvider guarantees for every set of callers, grants and        *)
(* locks, every margin and every sweep interval.                             *)
EXTENDS TokenProvider, TLAPS

\* A lock object taken for a grant is the filed one or one nobody refers to.
LEMMA LockForIsFree ==
    ASSUME NEW g \in Grants, NEW filed \in [Grants -> Locks \cup {NoLock}],
           FreeLocks # {}
    PROVE  /\ LockFor(g, filed) \in Locks
           /\ filed[g] # NoLock => LockFor(g, filed) = filed[g]
           /\ filed[g] = NoLock => LockFor(g, filed) \in FreeLocks
<1>1. (CHOOSE l \in FreeLocks : TRUE) \in FreeLocks
  OBVIOUS
<1> QED
  BY <1>1 DEF LockFor, FreeLocks

\* Between two counted calls the counter stays below the sweep interval.
LEMMA CountInRange ==
    ASSUME TypeOK PROVE (calls + 1) % SweepEvery \in 0 .. (SweepEvery - 1)
BY ProviderAssumption DEF TypeOK

\* The sweep only removes entries.
LEMMA SweepType ==
    ASSUME TypeOK
    PROVE  /\ TokensAfterSweep \subseteq tokens
           /\ LocksAfterSweep \in [Grants -> Locks \cup {NoLock}]
           /\ \A g \in Grants : LocksAfterSweep[g] \in {locks[g], NoLock}
BY DEF TypeOK, TokensAfterSweep, LocksAfterSweep

\* A token built from an answer is a token, and its believed expiry is the
\* real one plus the delay of the answer.
LEMMA NewTokenType ==
    ASSUME NEW g \in Grants, NEW issued \in Nat, NEW life \in Lifetimes, now \in Nat
    PROVE  /\ EffectiveLife(life) \in Nat
           /\ NewToken(g, issued, life) \in Token
           /\ NewToken(g, issued, life).grant = g
           /\ NewToken(g, issued, life).expires_at = now + EffectiveLife(life)
           /\ NewToken(g, issued, life).dies_at = issued + EffectiveLife(life)
<1>1. life \in Nat /\ Margin \in Nat
  BY ProviderAssumption
<1>2. EffectiveLife(life) \in Nat
  BY <1>1 DEF EffectiveLife
<1> QED
  BY <1>1, <1>2 DEF NewToken, Token

-----------------------------------------------------------------------------
(* Type correctness. *)

\* When a waiter leaves its queue, every queue still names only waiters.
LEMMA QueueAfterDequeue ==
    ASSUME TypeOK, NEW c \in Callers, Dequeue(c),
           \A d \in Callers \ {c} : pc'[d] = pc[d] /\ lockOf'[d] = lockOf[d]
    PROVE  /\ ahead' \in [Callers -> SUBSET Callers]
           /\ QueueOK'
BY DEF TypeOK, Dequeue, QueueOK, Waiters

\* What a return leaves alone.
LEMMA ReturnType ==
    ASSUME TypeOK, NEW c \in Callers, Return(c)
    PROVE  /\ pc' \in [Callers -> {"idle", "waiting", "exchanging", "issued"}]
           /\ lockOf' \in [Callers -> Locks \cup {NoLock}]
           /\ issuedAt' \in [Callers -> Nat]
           /\ \A d \in Callers \ {c} : pc'[d] = pc[d] /\ lockOf'[d] = lockOf[d]
           /\ pc'[c] = "idle"
BY DEF TypeOK, Return

\* A caller that holds the lock is in no queue, so its return disturbs none.
LEMMA UnlockType ==
    ASSUME TypeOK, NEW c \in Callers, Unlock(c), Return(c), InFlight(c), ahead' = ahead
    PROVE  /\ held' \in [Locks -> BOOLEAN]
           /\ QueueOK'
<1>1. held' \in [Locks -> BOOLEAN]
  BY DEF TypeOK, Unlock
<1>2. \A d \in Callers : c \notin ahead[d]
  BY DEF InFlight, TypeOK, QueueOK, Waiters
<1>3. ahead[c] = {}
  BY DEF InFlight, TypeOK, QueueOK, Waiters
<1>4. \A d \in Callers \ {c} : pc'[d] = pc[d] /\ lockOf'[d] = lockOf[d]
  BY ReturnType
<1> QED
  BY <1>1, <1>2, <1>3, <1>4 DEF TypeOK, QueueOK, Waiters

LEMMA TypeStep == TypeOK /\ [Next]_vars => TypeOK'
<1> SUFFICES ASSUME TypeOK, [Next]_vars PROVE TypeOK'
  OBVIOUS
<1> USE ProviderAssumption
<1>1. ASSUME NEW c \in Callers, Call(c) PROVE TypeOK'
  <2>1. GrantOf[c] \in Grants
    OBVIOUS
  <2>2. calls' \in 0 .. (SweepEvery - 1) /\ now' \in Nat /\ torn' \subseteq Grants
    BY <1>1, CountInRange DEF Call, TornBySweep, TypeOK
  <2>3. CASE CallHit(c)
    <3>1. tokens' \in SUBSET Token /\ locks' \in [Grants -> Locks \cup {NoLock}]
      BY <2>3, SweepType DEF CallHit, TypeOK
    <3>2. served' \in SUBSET Serving
      BY <2>3, SweepType DEF CallHit, Serve, CachedFor, Serving, TypeOK
    <3> QED
      BY <2>2, <2>3, <3>1, <3>2 DEF CallHit, TypeOK, QueueOK, Waiters
  <2>4. CASE CallMiss(c)
    <3> DEFINE l == LockFor(GrantOf[c], LocksAfterSweep)
    <3>1. l \in Locks
      BY <2>1, <2>4, SweepType, LockForIsFree DEF CallMiss
    <3>2. locks' \in [Grants -> Locks \cup {NoLock}]
      BY <2>1, <2>4, <3>1, SweepType DEF CallMiss
    <3>3. tokens' \in SUBSET Token
      BY <2>4, SweepType DEF CallMiss, Pop, TypeOK
    <3>4. /\ held' \in [Locks -> BOOLEAN]
          /\ pc' \in [Callers -> {"idle", "waiting", "exchanging", "issued"}]
          /\ lockOf' \in [Callers -> Locks \cup {NoLock}]
          /\ ahead' \in [Callers -> SUBSET Callers]
      <4>1. Waiters(l) \in SUBSET Callers
        BY DEF Waiters
      <4>2. /\ lockOf' = [lockOf EXCEPT ![c] = l]
            /\ held' = held \/ held' = [held EXCEPT ![l] = TRUE]
            /\ \E stage \in {"waiting", "exchanging"} : pc' = [pc EXCEPT ![c] = stage]
            /\ ahead' = ahead \/ ahead' = [ahead EXCEPT ![c] = Waiters(l)]
        BY <2>4 DEF CallMiss
      <4>3. held' \in [Locks -> BOOLEAN]
        BY <3>1, <4>2 DEF TypeOK
      <4>4. pc' \in [Callers -> {"idle", "waiting", "exchanging", "issued"}]
        BY <4>2 DEF TypeOK
      <4>5. lockOf' \in [Callers -> Locks \cup {NoLock}]
        BY <3>1, <4>2 DEF TypeOK
      <4>6. ahead' \in [Callers -> SUBSET Callers]
        BY <4>1, <4>2 DEF TypeOK
      <4> QED
        BY <4>3, <4>4, <4>5, <4>6
    <3>5. QueueOK'
      <4>1. pc[c] = "idle"
        BY <1>1 DEF Call
      <4>2. \A d \in Callers \ {c} : pc'[d] = pc[d] /\ lockOf'[d] = lockOf[d]
        BY <2>4 DEF CallMiss, TypeOK
      <4>3. \A d \in Callers \ {c} : ahead'[d] = ahead[d]
        BY <2>4 DEF CallMiss, TypeOK
      <4>4. \/ ahead'[c] = ahead[c]
            \/ ahead'[c] = Waiters(l) /\ pc'[c] = "waiting" /\ lockOf'[c] = l
        BY <2>4 DEF CallMiss, TypeOK
      <4>5. ahead[c] = {} /\ c \notin Waiters(l) /\ \A d \in Callers : c \notin ahead[d]
        BY <4>1 DEF Waiters, QueueOK, TypeOK
      <4> QED
        BY <4>2, <4>3, <4>4, <4>5 DEF Waiters, QueueOK, TypeOK
    <3>6. issuedAt' \in [Callers -> Nat] /\ served' \in SUBSET Serving
      BY <2>4 DEF CallMiss, ServeNone, TypeOK
    <3> QED
      BY <2>2, <3>2, <3>3, <3>4, <3>5, <3>6 DEF TypeOK
  <2> QED
    BY <1>1, <2>3, <2>4 DEF Call
<1>2. ASSUME NEW c \in Callers, Wake(c) PROVE TypeOK'
  <2>1. UNCHANGED <<locks, calls, now, torn>> /\ Dequeue(c)
    BY <1>2 DEF Wake
  <2>2. CASE RefreshedByOther(c)
    <3>1. UNCHANGED <<tokens, held>> /\ Return(c)
      BY <1>2, <2>2 DEF Wake
    <3>2. PICK t \in CachedFor(GrantOf[c], tokens) : Serve(c, t, TRUE)
      BY <1>2, <2>2 DEF Wake
    <3>3. served' \in SUBSET Serving
      BY <3>2 DEF Serve, CachedFor, Serving, TypeOK
    <3> QED
      BY <2>1, <3>1, <3>3, ReturnType, QueueAfterDequeue DEF TypeOK
  <2>3. CASE ~RefreshedByOther(c)
    <3>1. /\ tokens' = Pop(GrantOf[c], tokens)
          /\ held' = [held EXCEPT ![lockOf[c]] = TRUE]
          /\ pc' = [pc EXCEPT ![c] = "exchanging"]
          /\ UNCHANGED <<lockOf, issuedAt>>
          /\ served' = {}
      BY <1>2, <2>3 DEF Wake, ServeNone
    <3>2. tokens' \in SUBSET Token /\ held' \in [Locks -> BOOLEAN]
      BY <3>1 DEF Pop, TypeOK
    <3>3. pc' \in [Callers -> {"idle", "waiting", "exchanging", "issued"}]
      BY <3>1 DEF TypeOK
    <3>4. \A d \in Callers \ {c} : pc'[d] = pc[d] /\ lockOf'[d] = lockOf[d]
      BY <3>1 DEF TypeOK
    <3> QED
      BY <2>1, <3>1, <3>2, <3>3, <3>4, QueueAfterDequeue DEF TypeOK
  <2> QED
    BY <2>2, <2>3
<1>3. ASSUME NEW c \in Callers, Issue(c) PROVE TypeOK'
  <2>1. pc' = [pc EXCEPT ![c] = "issued"] /\ pc[c] = "exchanging"
    BY <1>3 DEF Issue
  <2>2. ahead[c] = {} /\ \A d \in Callers : c \notin ahead[d]
    BY <2>1 DEF TypeOK, QueueOK, Waiters
  <2>3. QueueOK'
    BY <1>3, <2>1, <2>2 DEF Issue, TypeOK, QueueOK, Waiters
  <2> QED
    BY <1>3, <2>1, <2>3 DEF Issue, TypeOK, ServeNone
<1>4. ASSUME NEW c \in Callers, ExchangeSucceeds(c) PROVE TypeOK'
  <2>1. /\ tokens' \in SUBSET Token
        /\ served' \in SUBSET Serving
    <3>1. PICK life \in Lifetimes :
            LET t == NewToken(GrantOf[c], issuedAt[c], life) IN
            /\ tokens' = Pop(GrantOf[c], tokens) \cup {t}
            /\ Serve(c, t, FALSE)
      BY <1>4 DEF ExchangeSucceeds
    <3>2. NewToken(GrantOf[c], issuedAt[c], life) \in Token
      BY NewTokenType DEF TypeOK
    <3> QED
      BY <3>1, <3>2 DEF Pop, Serve, Serving, TypeOK
  <2>2. Unlock(c) /\ Return(c) /\ InFlight(c) /\ UNCHANGED <<locks, calls, ahead, now, torn>>
    BY <1>4 DEF ExchangeSucceeds, InFlight
  <2> QED
    BY <2>1, <2>2, ReturnType, UnlockType DEF TypeOK
<1>5. ASSUME NEW c \in Callers, ExchangeFails(c) PROVE TypeOK'
  BY <1>5, ReturnType, UnlockType DEF ExchangeFails, ServeNone, TypeOK
<1>6. ASSUME NEW c \in Callers, CancelWaiting(c) PROVE TypeOK'
  <2>1. \A d \in Callers \ {c} : pc'[d] = pc[d] /\ lockOf'[d] = lockOf[d]
    BY <1>6 DEF CancelWaiting, Return, TypeOK
  <2>2. Dequeue(c)
    BY <1>6 DEF CancelWaiting
  <2> QED
    BY <1>6, <2>1, <2>2, QueueAfterDequeue DEF CancelWaiting, Return, ServeNone, TypeOK
<1>7. ASSUME NEW g \in Grants, Invalidate(g) PROVE TypeOK'
  BY <1>7 DEF Invalidate, Pop, ServeNone, TypeOK, QueueOK, Waiters
<1>8. CASE Tick
  BY <1>8 DEF Tick, ServeNone, TypeOK, QueueOK, Waiters
<1>9. CASE UNCHANGED vars
  BY <1>9 DEF vars, TypeOK, QueueOK, Waiters
<1> QED
  BY <1>1, <1>2, <1>3, <1>4, <1>5, <1>6, <1>7, <1>8, <1>9 DEF Next

LEMMA TypeInit == Init => TypeOK
BY ProviderAssumption DEF Init, TypeOK, QueueOK, Waiters

\* Every state of the provider is well typed, and every queue of a lock
\* names only tasks that still wait on that lock.
THEOREM TypeCorrect == Spec => []TypeOK
BY TypeInit, TypeStep, PTL DEF Spec
-----------------------------------------------------------------------------
(* Tokens served from the cache are alive. *)

\* The provider's idea of an expiry is late by no more than the time-out,
\* since no answer travels longer.
AliveInv ==
    /\ \A t \in tokens : t.expires_at <= t.dies_at + Timeout
    /\ \A c \in Callers : pc[c] = "issued" => now <= issuedAt[c] + Timeout
    /\ ServedTokenIsAlive

LEMMA AliveStep == TypeOK /\ AliveInv /\ [Next]_vars => AliveInv'
<1> SUFFICES ASSUME TypeOK, AliveInv, [Next]_vars PROVE AliveInv'
  OBVIOUS
<1>0. Margin \in Nat /\ Timeout \in Nat /\ Timeout <= Margin /\ now \in Nat
  BY ProviderAssumption DEF TypeOK
<1>1. ASSUME NEW c \in Callers, NEW t \in tokens, Usable(t), Serve(c, t, TRUE)
      PROVE  \A s \in served' : s.at < s.token.dies_at
  <2>1. t.expires_at \in Nat /\ t.dies_at \in Nat
    BY <1>1 DEF TypeOK, Token
  <2>2. now < t.dies_at
    BY <1>0, <1>1, <2>1 DEF AliveInv, Usable
  <2> QED
    BY <1>1, <2>2 DEF Serve
<1>2. ASSUME NEW c \in Callers, Call(c) PROVE AliveInv'
  <2>1. tokens' \subseteq tokens /\ now' = now
    BY <1>2, SweepType DEF Call, CallHit, CallMiss, Pop
  <2>2. \A d \in Callers : pc'[d] = "issued" => pc[d] = "issued" /\ issuedAt'[d] = issuedAt[d]
    BY <1>2 DEF Call, CallHit, CallMiss, TypeOK
  <2>3. ServedTokenIsAlive'
    <3>1. CASE CallHit(c)
      <4>1. \E t \in tokens : Usable(t) /\ Serve(c, t, TRUE)
        BY <3>1, SweepType DEF CallHit, CachedFor
      <4> QED
        BY <1>1, <4>1 DEF ServedTokenIsAlive
    <3>2. CASE CallMiss(c)
      BY <3>2 DEF CallMiss, ServeNone, ServedTokenIsAlive
    <3> QED
      BY <1>2, <3>1, <3>2 DEF Call
  <2> QED
    BY <2>1, <2>2, <2>3 DEF AliveInv
<1>3. ASSUME NEW c \in Callers, Wake(c) PROVE AliveInv'
  <2>1. tokens' \subseteq tokens /\ now' = now
    BY <1>3 DEF Wake, Pop
  <2>2. \A d \in Callers : pc'[d] = "issued" => pc[d] = "issued" /\ issuedAt'[d] = issuedAt[d]
    BY <1>3 DEF Wake, Return, TypeOK
  <2>3. ServedTokenIsAlive'
    <3>1. CASE RefreshedByOther(c)
      <4>1. \E t \in tokens : Usable(t) /\ Serve(c, t, TRUE)
        BY <1>3, <3>1 DEF Wake, CachedFor
      <4> QED
        BY <1>1, <4>1 DEF ServedTokenIsAlive
    <3>2. CASE ~RefreshedByOther(c)
      BY <1>3, <3>2 DEF Wake, ServeNone, ServedTokenIsAlive
    <3> QED
      BY <3>1, <3>2
  <2> QED
    BY <2>1, <2>2, <2>3 DEF AliveInv
<1>4. ASSUME NEW c \in Callers, Issue(c) PROVE AliveInv'
  <2>1. \A d \in Callers : pc'[d] = "issued" =>
            \/ pc[d] = "issued" /\ issuedAt'[d] = issuedAt[d]
            \/ issuedAt'[d] = now
    BY <1>4 DEF Issue, TypeOK
  <2> QED
    BY <1>0, <1>4, <2>1 DEF Issue, ServeNone, AliveInv, ServedTokenIsAlive
<1>5. ASSUME NEW c \in Callers, ExchangeSucceeds(c) PROVE AliveInv'
  <2>1. PICK life \in Lifetimes :
          LET t == NewToken(GrantOf[c], issuedAt[c], life) IN
          /\ tokens' = Pop(GrantOf[c], tokens) \cup {t}
          /\ Serve(c, t, FALSE)
    BY <1>5 DEF ExchangeSucceeds
  <2> DEFINE t == NewToken(GrantOf[c], issuedAt[c], life)
  <2>2. /\ EffectiveLife(life) \in Nat
        /\ t.expires_at = now + EffectiveLife(life)
        /\ t.dies_at = issuedAt[c] + EffectiveLife(life)
    BY NewTokenType, ProviderAssumption DEF TypeOK
  <2>3. issuedAt[c] \in Nat /\ now <= issuedAt[c] + Timeout
    BY <1>5 DEF ExchangeSucceeds, AliveInv, TypeOK
  <2>4. t.expires_at <= t.dies_at + Timeout
    BY <1>0, <2>2, <2>3
  <2>5. tokens' \subseteq tokens \cup {t}
    BY <2>1 DEF Pop
  <2>6. \A d \in Callers : pc'[d] = "issued" => pc[d] = "issued" /\ issuedAt'[d] = issuedAt[d]
    BY <1>5 DEF ExchangeSucceeds, Return, TypeOK
  <2>7. ServedTokenIsAlive'
    BY <2>1 DEF Serve, ServedTokenIsAlive
  <2> QED
    BY <1>5, <2>4, <2>5, <2>6, <2>7 DEF ExchangeSucceeds, AliveInv
<1>6. ASSUME NEW c \in Callers, ExchangeFails(c) \/ CancelWaiting(c) PROVE AliveInv'
  <2>1. \A d \in Callers : pc'[d] = "issued" => pc[d] = "issued" /\ issuedAt'[d] = issuedAt[d]
    BY <1>6 DEF ExchangeFails, CancelWaiting, Return, TypeOK
  <2> QED
    BY <1>6, <2>1 DEF ExchangeFails, CancelWaiting, ServeNone, AliveInv, ServedTokenIsAlive
<1>7. ASSUME NEW g \in Grants, Invalidate(g) PROVE AliveInv'
  BY <1>7 DEF Invalidate, Pop, ServeNone, AliveInv, ServedTokenIsAlive
<1>8. CASE Tick
  <2>1. \A c \in Callers : pc[c] = "issued" => issuedAt[c] \in Nat /\ now < issuedAt[c] + Timeout
    BY <1>8 DEF Tick, TimeoutFires, TypeOK
  <2>2. \A c \in Callers : pc[c] = "issued" => now + 1 <= issuedAt[c] + Timeout
    BY <1>0, <2>1
  <2> QED
    BY <1>8, <2>2 DEF Tick, ServeNone, AliveInv, ServedTokenIsAlive
<1>9. CASE UNCHANGED vars
  BY <1>9 DEF vars, AliveInv, ServedTokenIsAlive
<1> QED
  BY <1>2, <1>3, <1>4, <1>5, <1>6, <1>7, <1>8, <1>9 DEF Next

\* Whatever releases, sweeps, cancellations and failures do, a token that is
\* handed out of the cache is one IAM still honours.
THEOREM ServedAlive == Spec => []ServedTokenIsAlive
<1>1. Init => AliveInv
  BY DEF Init, AliveInv, ServedTokenIsAlive
<1>2. AliveInv => ServedTokenIsAlive
  BY DEF AliveInv
<1> QED
  BY <1>1, <1>2, AliveStep, TypeCorrect, PTL DEF Spec
-----------------------------------------------------------------------------
(* Where no lock is dropped under a running call. *)

\* No release under a running call, and no token so short-lived that it is
\* stale on arrival.
Undisturbed ==
    /\ ~ReleaseInFlight
    /\ \A life \in Lifetimes : life = 0 \/ life > Margin

\* Every running call uses the lock filed under its grant.
FiledInv == \A c \in Callers : pc[c] # "idle" =>
                lockOf[c] \in Locks /\ lockOf[c] = locks[GrantOf[c]]

\* A lock object is filed under one grant only.
DistinctInv == \A g, h \in Grants : locks[g] = locks[h] /\ locks[g] # NoLock => g = h

\* An exchange holds its lock, and no other exchange holds the same.
MutexInv ==
    /\ \A c \in Callers : InFlight(c) => held[lockOf[c]]
    /\ \A c, d \in Callers : InFlight(c) /\ InFlight(d) /\ lockOf[c] = lockOf[d] => c = d

\* The cache holds nothing for a grant being exchanged, and only a usable
\* token for one whose released lock has a waiter that is about to run: that
\* is why a sweep in between does not take the lock away.
CacheInv ==
    /\ \A c \in Callers : InFlight(c) => CachedFor(GrantOf[c], tokens) = {}
    /\ \A c \in Callers : pc[c] = "waiting" /\ ~held[lockOf[c]] =>
            \A t \in CachedFor(GrantOf[c], tokens) : Usable(t)

FlightInv == FiledInv /\ DistinctInv /\ MutexInv /\ CacheInv

\* The sweep leaves the lock of every running call filed.
LEMMA SweepKeepsUsedLocks ==
    ASSUME TypeOK, FlightInv, NEW c \in Callers, pc[c] # "idle"
    PROVE  LocksAfterSweep[GrantOf[c]] = locks[GrantOf[c]]
<1>1. GrantOf[c] \in Grants /\ lockOf[c] = locks[GrantOf[c]]
  BY ProviderAssumption DEF FlightInv, FiledInv
<1>2. CASE InFlight(c)
  <2>1. held[locks[GrantOf[c]]]
    BY <1>1, <1>2 DEF FlightInv, MutexInv
  <2> QED
    BY <1>1, <2>1 DEF LocksAfterSweep
<1>3. CASE pc[c] = "waiting"
  <2>1. ~held[locks[GrantOf[c]]] => GrantOf[c] \notin StaleGrants
    BY <1>1, <1>3 DEF FlightInv, CacheInv, StaleGrants, CachedFor
  <2> QED
    BY <1>1, <2>1 DEF LocksAfterSweep
<1> QED
  BY <1>2, <1>3 DEF TypeOK, InFlight

\* Filed locks stay distinct when entries are only removed.
LEMMA SweepKeepsDistinct ==
    ASSUME TypeOK, FlightInv,
           NEW g \in Grants, NEW h \in Grants,
           LocksAfterSweep[g] = LocksAfterSweep[h], LocksAfterSweep[g] # NoLock
    PROVE  g = h
BY SweepType DEF FlightInv, DistinctInv

LEMMA HitKeepsFlight ==
    ASSUME TypeOK, FlightInv, NEW c \in Callers, Call(c), CallHit(c)
    PROVE  FlightInv'
<1>1. UNCHANGED <<held, pc, lockOf, now>> /\ tokens' \subseteq tokens /\ locks' = LocksAfterSweep
  BY SweepType DEF Call, CallHit
<1>2. FiledInv'
  BY <1>1, SweepKeepsUsedLocks DEF FlightInv, FiledInv
<1>3. DistinctInv'
  BY <1>1, SweepKeepsDistinct DEF DistinctInv
<1>4. MutexInv'
  BY <1>1 DEF FlightInv, MutexInv, InFlight
<1>5. CacheInv'
  BY <1>1 DEF FlightInv, CacheInv, InFlight, CachedFor, Usable
<1> QED
  BY <1>2, <1>3, <1>4, <1>5 DEF FlightInv

\* The lock a missing call takes is in use only by callers of its own grant.
LEMMA LockForIsOwn ==
    ASSUME TypeOK, FlightInv, NEW c \in Callers, FreeLocks # {},
           NEW d \in Callers, pc[d] # "idle"
    PROVE  lockOf[d] = LockFor(GrantOf[c], LocksAfterSweep) <=> GrantOf[d] = GrantOf[c]
<1> DEFINE g == GrantOf[c]
           l == LockFor(g, LocksAfterSweep)
<1>1. /\ g \in Grants /\ GrantOf[d] \in Grants
      /\ lockOf[d] \in Locks /\ lockOf[d] = locks[GrantOf[d]]
      /\ LocksAfterSweep[GrantOf[d]] = locks[GrantOf[d]]
      /\ LocksAfterSweep \in [Grants -> Locks \cup {NoLock}]
      /\ NoLock \notin Locks
  BY ProviderAssumption, SweepKeepsUsedLocks, SweepType DEF FlightInv, FiledInv
<1>2. CASE GrantOf[d] = g
  BY <1>1, <1>2, LockForIsFree
<1>3. CASE GrantOf[d] # g
  <2>1. CASE LocksAfterSweep[g] # NoLock
    <3>1. l = LocksAfterSweep[g]
      BY <1>1, <2>1, LockForIsFree
    <3> QED
      BY <1>1, <1>3, <2>1, <3>1, SweepKeepsDistinct
  <2>2. CASE LocksAfterSweep[g] = NoLock
    <3>1. l \in FreeLocks
      BY <1>1, <2>2, LockForIsFree
    <3> QED
      BY <1>3, <3>1 DEF FreeLocks, Referenced
  <2> QED
    BY <2>1, <2>2
<1> QED
  BY <1>2, <1>3

LEMMA MissKeepsFlight ==
    ASSUME TypeOK, FlightInv, NEW c \in Callers, Call(c), CallMiss(c)
    PROVE  FlightInv'
<1> DEFINE g == GrantOf[c]
           l == LockFor(g, LocksAfterSweep)
           acquired == ~held[l] /\ Waiters(l) = {}
<1>1. /\ FreeLocks # {} /\ g \in Grants /\ pc[c] = "idle"
      /\ LocksAfterSweep \in [Grants -> Locks \cup {NoLock}]
      /\ locks' = [LocksAfterSweep EXCEPT ![g] = l]
      /\ lockOf' = [lockOf EXCEPT ![c] = l]
      /\ now' = now
      /\ \A t \in CachedFor(g, TokensAfterSweep) : ~Usable(t)
  BY ProviderAssumption, SweepType DEF Call, CallMiss
<1>2. l \in Locks /\ NoLock \notin Locks
  BY <1>1, LockForIsFree, ProviderAssumption
<1>3. \A d \in Callers : pc[d] # "idle" => (lockOf[d] = l <=> GrantOf[d] = g)
  BY <1>1, LockForIsOwn
<1>4. /\ lockOf'[c] = l
      /\ \A d \in Callers \ {c} : lockOf'[d] = lockOf[d] /\ pc'[d] = pc[d]
      /\ pc'[c] \in {"exchanging", "waiting"}
  BY <1>1 DEF CallMiss, TypeOK
<1>5. tokens' \subseteq tokens
  BY SweepType DEF CallMiss, Pop
<1>6. FiledInv'
  <2>1. ASSUME NEW d \in Callers, pc'[d] # "idle"
        PROVE  lockOf'[d] \in Locks /\ lockOf'[d] = locks'[GrantOf[d]]
    <3>1. CASE d = c
      BY <1>1, <1>2, <1>4, <3>1
    <3>2. CASE d # c
      <4>1. pc[d] # "idle" /\ lockOf'[d] = lockOf[d] /\ GrantOf[d] \in Grants
        BY <1>4, <2>1, <3>2, ProviderAssumption
      <4>2. LocksAfterSweep[GrantOf[d]] = lockOf[d] /\ lockOf[d] \in Locks
        BY <4>1, SweepKeepsUsedLocks DEF FlightInv, FiledInv
      <4> QED
        BY <1>1, <1>3, <4>1, <4>2
    <3> QED
      BY <3>1, <3>2
  <2> QED
    BY <2>1 DEF FiledInv
<1>7. DistinctInv'
  <2>1. ASSUME NEW h \in Grants, h # g, LocksAfterSweep[h] # NoLock
        PROVE  LocksAfterSweep[h] # l
    <3>1. CASE LocksAfterSweep[g] = NoLock
      <4>1. l \in FreeLocks
        BY <1>1, <3>1, LockForIsFree
      <4>2. locks[h] = LocksAfterSweep[h]
        BY <2>1, SweepType
      <4> QED
        BY <4>1, <4>2 DEF FreeLocks, Referenced
    <3>2. CASE LocksAfterSweep[g] # NoLock
      <4>1. l = LocksAfterSweep[g]
        BY <1>1, <3>2, LockForIsFree
      <4> QED
        BY <1>1, <2>1, <4>1, SweepKeepsDistinct
    <3> QED
      BY <3>1, <3>2
  <2>2. ASSUME NEW h \in Grants, NEW k \in Grants, locks'[h] = locks'[k], locks'[h] # NoLock
        PROVE  h = k
    <3>1. CASE h # g /\ k # g
      BY <1>1, <2>2, <3>1, SweepKeepsDistinct
    <3>2. CASE h = g \/ k = g
      BY <1>1, <1>2, <2>1, <2>2, <3>2
    <3> QED
      BY <3>1, <3>2
  <2> QED
    BY <2>2 DEF DistinctInv
<1>8. CASE acquired
  <2>1. /\ tokens' = Pop(g, TokensAfterSweep)
        /\ held' = [held EXCEPT ![l] = TRUE]
        /\ pc'[c] = "exchanging"
    BY <1>8 DEF CallMiss, TypeOK
  <2>2. \A d \in Callers : InFlight(d) => lockOf[d] # l /\ GrantOf[d] # g
    BY <1>3, <1>8 DEF FlightInv, MutexInv, InFlight
  <2>3. MutexInv'
    <3>1. \A d \in Callers : InFlight(d)' => held'[lockOf'[d]]
      BY <1>2, <1>4, <2>1 DEF FlightInv, MutexInv, InFlight, TypeOK
    <3>2. \A d \in Callers \ {c} : InFlight(d)' => InFlight(d) /\ lockOf'[d] = lockOf[d]
      BY <1>4 DEF InFlight
    <3>3. \A d \in Callers \ {c} : InFlight(d)' => lockOf'[d] # lockOf'[c]
      BY <1>4, <2>2, <3>2
    <3> QED
      BY <3>1, <3>2, <3>3 DEF FlightInv, MutexInv
  <2>4. CacheInv'
    <3>1. \A d \in Callers : InFlight(d)' => CachedFor(GrantOf[d], tokens)' = {}
      BY <1>4, <1>5, <2>1 DEF FlightInv, CacheInv, InFlight, CachedFor, Pop
    <3>2. \A d \in Callers : pc'[d] = "waiting" /\ ~held'[lockOf'[d]] =>
              pc[d] = "waiting" /\ ~held[lockOf[d]]
      BY <1>2, <1>4, <2>1 DEF TypeOK
    <3> QED
      BY <1>1, <1>5, <3>1, <3>2 DEF FlightInv, CacheInv, CachedFor, Usable
  <2> QED
    BY <1>6, <1>7, <2>3, <2>4 DEF FlightInv
<1>9. CASE ~acquired
  <2>1. tokens' = TokensAfterSweep /\ held' = held /\ pc'[c] = "waiting"
    BY <1>9 DEF CallMiss, TypeOK
  <2>2. \A d \in Callers : InFlight(d)' => InFlight(d) /\ lockOf'[d] = lockOf[d] /\ d # c
    BY <1>4, <2>1 DEF InFlight
  <2>3. MutexInv'
    BY <2>1, <2>2 DEF FlightInv, MutexInv
  <2>4. CacheInv'
    <3>1. \A d \in Callers : InFlight(d)' => CachedFor(GrantOf[d], tokens)' = {}
      BY <1>5, <2>2 DEF FlightInv, CacheInv, CachedFor
    <3>2. ASSUME ~held[l] PROVE \A t \in CachedFor(g, tokens') : Usable(t)
      <4>1. PICK d \in Callers : pc[d] = "waiting" /\ lockOf[d] = l
        BY <1>9, <3>2 DEF Waiters
      <4>2. GrantOf[d] = g
        BY <1>3, <4>1
      <4> QED
        BY <1>5, <3>2, <4>1, <4>2 DEF FlightInv, CacheInv, CachedFor
    <3>3. ASSUME NEW d \in Callers, pc'[d] = "waiting", ~held'[lockOf'[d]]
          PROVE  \A t \in CachedFor(GrantOf[d], tokens') : Usable(t)
      <4>1. CASE d = c
        BY <1>4, <2>1, <3>2, <3>3, <4>1
      <4>2. CASE d # c
        BY <1>4, <1>5, <2>1, <3>3, <4>2 DEF FlightInv, CacheInv, CachedFor
      <4> QED
        BY <4>1, <4>2
    <3> QED
      BY <1>1, <3>1, <3>3 DEF CacheInv, CachedFor, Usable
  <2> QED
    BY <1>6, <1>7, <2>3, <2>4 DEF FlightInv
<1> QED
  BY <1>8, <1>9

LEMMA WakeKeepsFlight ==
    ASSUME TypeOK, FlightInv, NEW c \in Callers, Wake(c)
    PROVE  FlightInv'
<1>1. pc[c] = "waiting" /\ ~held[lockOf[c]] /\ UNCHANGED <<locks, now>>
  BY DEF Wake, Runnable
<1>2. lockOf[c] \in Locks /\ tokens' \subseteq tokens
  BY <1>1 DEF Wake, Pop, FlightInv, FiledInv
<1>3. \A d \in Callers : InFlight(d) => lockOf[d] # lockOf[c]
  BY <1>1 DEF FlightInv, MutexInv
<1>4. \A d \in Callers \ {c} : pc'[d] = pc[d] /\ lockOf'[d] = lockOf[d]
  BY DEF Wake, Return, TypeOK
<1>5. DistinctInv'
  BY <1>1 DEF FlightInv, DistinctInv
<1>6. CASE RefreshedByOther(c)
  <2>1. held' = held /\ pc'[c] = "idle"
    BY <1>6 DEF Wake, Return, TypeOK
  <2> QED
    BY <1>1, <1>2, <1>4, <1>5, <2>1
    DEF FlightInv, FiledInv, MutexInv, CacheInv, InFlight, CachedFor, Usable
<1>7. CASE ~RefreshedByOther(c)
  <2>1. /\ held' = [held EXCEPT ![lockOf[c]] = TRUE]
        /\ pc'[c] = "exchanging" /\ lockOf' = lockOf
        /\ tokens' = Pop(GrantOf[c], tokens)
    BY <1>7 DEF Wake, TypeOK
  <2>2. FiledInv'
    BY <1>1, <1>4, <2>1 DEF FlightInv, FiledInv
  <2>3. MutexInv'
    BY <1>2, <1>3, <1>4, <2>1 DEF FlightInv, MutexInv, InFlight, TypeOK
  <2>4. \A d \in Callers : pc'[d] = "waiting" /\ ~held'[lockOf'[d]] =>
            pc[d] = "waiting" /\ ~held[lockOf[d]]
    BY <1>2, <1>4, <2>1 DEF TypeOK
  <2>5. \A d \in Callers : InFlight(d)' => InFlight(d) \/ d = c
    BY <1>4 DEF InFlight
  <2>6. CacheInv'
    BY <1>1, <1>2, <2>1, <2>4, <2>5 DEF FlightInv, CacheInv, CachedFor, Pop, Usable
  <2> QED
    BY <1>5, <2>2, <2>3, <2>6 DEF FlightInv
<1> QED
  BY <1>6, <1>7

\* An exchange that ends leaves at most one usable token behind, and the
\* waiters of its lock are the only callers it can wake.
LEMMA EndKeepsFlight ==
    ASSUME TypeOK, FlightInv, Undisturbed, NEW c \in Callers,
           ExchangeSucceeds(c) \/ ExchangeFails(c)
    PROVE  FlightInv'
<1> DEFINE g == GrantOf[c]
<1>1. /\ InFlight(c) /\ held' = [held EXCEPT ![lockOf[c]] = FALSE]
      /\ UNCHANGED <<locks, now>> /\ Return(c)
  BY DEF ExchangeSucceeds, ExchangeFails, InFlight, Unlock
<1>2. /\ pc'[c] = "idle"
      /\ \A d \in Callers \ {c} : pc'[d] = pc[d] /\ lockOf'[d] = lockOf[d]
  BY <1>1, ReturnType
<1>3. \A d \in Callers : InFlight(d)' => InFlight(d) /\ d # c /\ lockOf[d] # lockOf[c]
  BY <1>1, <1>2 DEF FlightInv, MutexInv, InFlight
<1>4. \A d \in Callers : pc[d] # "idle" => (GrantOf[d] = g <=> lockOf[d] = lockOf[c])
  <2>1. pc[c] # "idle" /\ g \in Grants /\ NoLock \notin Locks
    BY <1>1, ProviderAssumption DEF InFlight
  <2> QED
    BY <2>1, ProviderAssumption DEF FlightInv, FiledInv, DistinctInv
<1>5. \E new \in SUBSET Token :
        /\ tokens' = Pop(g, tokens) \cup new
        /\ \A t \in new : t.grant = g /\ Usable(t)
  <2>1. CASE ExchangeFails(c)
    <3>1. CachedFor(g, tokens) = {}
      BY <1>1 DEF FlightInv, CacheInv
    <3>2. tokens' = Pop(g, tokens) \cup {}
      BY <2>1, <3>1 DEF ExchangeFails, Pop
    <3> WITNESS {} \in SUBSET Token
    <3> QED
      BY <3>2
  <2>2. CASE ExchangeSucceeds(c)
    <3>1. PICK life \in Lifetimes :
            tokens' = Pop(g, tokens) \cup {NewToken(g, issuedAt[c], life)}
      BY <2>2 DEF ExchangeSucceeds
    <3> DEFINE t == NewToken(g, issuedAt[c], life)
    <3>2. /\ EffectiveLife(life) \in Nat /\ now \in Nat
          /\ t \in Token /\ t.grant = g /\ t.expires_at = now + EffectiveLife(life)
      BY NewTokenType, ProviderAssumption DEF TypeOK
    <3>3. EffectiveLife(life) > Margin /\ Margin \in Nat
      BY ProviderAssumption DEF EffectiveLife, Undisturbed
    <3>4. Usable(t)
      <4> HIDE DEF t
      <4> QED
        BY <3>2, <3>3 DEF Usable
    <3>5. {t} \in SUBSET Token
      BY <3>2
    <3> HIDE DEF t
    <3> WITNESS {t} \in SUBSET Token
    <3> QED
      BY <3>1, <3>2, <3>4 DEF t
  <2> QED
    BY <2>1, <2>2
<1>6. FiledInv'
  BY <1>1, <1>2 DEF FlightInv, FiledInv
<1>7. DistinctInv'
  BY <1>1 DEF FlightInv, DistinctInv
<1>8. MutexInv'
  <2>1. \A d \in Callers : InFlight(d)' => held'[lockOf'[d]]
    BY <1>1, <1>2, <1>3 DEF FlightInv, FiledInv, MutexInv, InFlight, TypeOK
  <2> QED
    BY <1>2, <1>3, <2>1 DEF FlightInv, MutexInv
<1>9. CacheInv'
  <2>1. PICK new \in SUBSET Token :
          /\ tokens' = Pop(g, tokens) \cup new
          /\ \A t \in new : t.grant = g /\ Usable(t)
    BY <1>5
  <2>2. ASSUME NEW d \in Callers, InFlight(d)' PROVE CachedFor(GrantOf[d], tokens') = {}
    <3>1. GrantOf[d] # g /\ InFlight(d)
      BY <1>3, <1>4, <2>2 DEF InFlight
    <3> QED
      BY <2>1, <3>1 DEF FlightInv, CacheInv, CachedFor, Pop
  <2>3. ASSUME NEW d \in Callers, pc'[d] = "waiting", ~held'[lockOf'[d]]
        PROVE  \A t \in CachedFor(GrantOf[d], tokens') : Usable(t)
    <3>1. d # c /\ pc[d] = "waiting" /\ lockOf'[d] = lockOf[d] /\ lockOf[d] \in Locks
      BY <1>2, <2>3 DEF FlightInv, FiledInv
    <3>2. CASE GrantOf[d] = g
      BY <2>1, <3>2 DEF CachedFor, Pop
    <3>3. CASE GrantOf[d] # g
      <4>1. ~held[lockOf[d]]
        BY <1>1, <1>4, <2>3, <3>1, <3>3 DEF TypeOK
      <4> QED
        BY <2>1, <3>1, <3>3, <4>1 DEF FlightInv, CacheInv, CachedFor, Pop
    <3> QED
      BY <3>2, <3>3
  <2> QED
    BY <1>1, <2>2, <2>3 DEF CacheInv, CachedFor, Usable
<1> QED
  BY <1>6, <1>7, <1>8, <1>9 DEF FlightInv

LEMMA FlightStep == Undisturbed /\ TypeOK /\ FlightInv /\ [Next]_vars => FlightInv'
<1> SUFFICES ASSUME Undisturbed, TypeOK, FlightInv, [Next]_vars PROVE FlightInv'
  OBVIOUS
<1>1. ASSUME NEW c \in Callers, Call(c) PROVE FlightInv'
  BY <1>1, HitKeepsFlight, MissKeepsFlight DEF Call
<1>2. ASSUME NEW c \in Callers, Wake(c) PROVE FlightInv'
  BY <1>2, WakeKeepsFlight
<1>3. ASSUME NEW c \in Callers, Issue(c) PROVE FlightInv'
  <2>1. /\ UNCHANGED <<tokens, locks, held, lockOf, now>>
        /\ \A d \in Callers : InFlight(d)' <=> InFlight(d)
        /\ \A d \in Callers : pc'[d] = "waiting" <=> pc[d] = "waiting"
        /\ \A d \in Callers : pc'[d] = "idle" <=> pc[d] = "idle"
    BY <1>3 DEF Issue, InFlight, TypeOK
  <2> QED
    BY <2>1 DEF FlightInv, FiledInv, DistinctInv, MutexInv, CacheInv, CachedFor, Usable
<1>4. ASSUME NEW c \in Callers, ExchangeSucceeds(c) \/ ExchangeFails(c) PROVE FlightInv'
  BY <1>4, EndKeepsFlight
<1>5. ASSUME NEW c \in Callers, CancelWaiting(c) PROVE FlightInv'
  <2>1. /\ UNCHANGED <<tokens, locks, held, now>> /\ Return(c) /\ ~InFlight(c)
    BY <1>5 DEF CancelWaiting, InFlight
  <2>2. /\ pc'[c] = "idle"
        /\ \A d \in Callers \ {c} : pc'[d] = pc[d] /\ lockOf'[d] = lockOf[d]
    BY <2>1, ReturnType
  <2> QED
    BY <2>1, <2>2 DEF FlightInv, FiledInv, DistinctInv, MutexInv, CacheInv, InFlight, CachedFor, Usable
<1>6. ASSUME NEW g \in Grants, Invalidate(g) PROVE FlightInv'
  <2>1. /\ tokens' \subseteq tokens /\ UNCHANGED <<held, pc, lockOf, now>>
        /\ locks' = [locks EXCEPT ![g] = NoLock]
        /\ \A c \in Callers : pc[c] # "idle" => GrantOf[c] # g /\ GrantOf[c] \in Grants
    BY <1>6, ProviderAssumption DEF Invalidate, Quiet, Undisturbed, Pop
  <2>2. FiledInv' /\ DistinctInv'
    BY <2>1 DEF FlightInv, FiledInv, DistinctInv, TypeOK
  <2>3. MutexInv' /\ CacheInv'
    BY <2>1 DEF FlightInv, MutexInv, CacheInv, InFlight, CachedFor, Usable
  <2> QED
    BY <2>2, <2>3 DEF FlightInv
<1>7. CASE Tick
  <2>1. UNCHANGED <<tokens, locks, held, pc, lockOf>> /\ LoopIsPrompt
    BY <1>7 DEF Tick
  <2> QED
    BY <2>1 DEF FlightInv, FiledInv, DistinctInv, MutexInv, CacheInv, InFlight, CachedFor, LoopIsPrompt
<1>8. CASE UNCHANGED vars
  BY <1>8 DEF vars, FlightInv, FiledInv, DistinctInv, MutexInv, CacheInv, InFlight, CachedFor, Usable
<1> QED
  BY <1>1, <1>2, <1>3, <1>4, <1>5, <1>6, <1>7, <1>8 DEF Next

LEMMA FlightInit == Init => FlightInv
BY DEF Init, FlightInv, FiledInv, DistinctInv, MutexInv, CacheInv, InFlight, CachedFor

Untorn == torn = {}

\* When no grant is released under a running call and every token outlives
\* the renewal margin, no lock is dropped under a running call: the sweep
\* takes away none a caller waits for, and SingleFlight has no exception.
THEOREM NothingTorn ==
    ASSUME Undisturbed
    PROVE  Spec => []Untorn
<1>1. TypeOK /\ FlightInv /\ [Next]_vars => FlightInv'
  BY FlightStep
<1>2. Init => Untorn
  BY DEF Init, Untorn
<1>3. TypeOK /\ FlightInv /\ Untorn /\ [Next]_vars => Untorn'
  <2> SUFFICES ASSUME TypeOK, FlightInv, torn = {}, [Next]_vars PROVE torn' = {}
    BY DEF Untorn
  <2>1. ASSUME NEW c \in Callers, Call(c) PROVE torn' = {}
    <3>1. ASSUME NEW g \in TornBySweep PROVE FALSE
      <4>1. PICK d \in Callers : pc[d] = "waiting" /\ lockOf[d] = locks[g]
        BY <3>1 DEF TornBySweep, Waiters
      <4>2. GrantOf[d] = g
        BY <3>1, <4>1, ProviderAssumption DEF TornBySweep, FlightInv, FiledInv, DistinctInv
      <4>3. LocksAfterSweep[g] = locks[g]
        BY <4>1, <4>2, SweepKeepsUsedLocks
      <4> QED
        BY <3>1, <4>3 DEF TornBySweep
    <3> QED
      BY <2>1, <3>1 DEF Call
  <2>2. ASSUME NEW g \in Grants, Invalidate(g) PROVE torn' = {}
    BY <2>2 DEF Invalidate, Undisturbed
  <2>3. ASSUME NEW c \in Callers,
               Wake(c) \/ Issue(c) \/ ExchangeSucceeds(c) \/ ExchangeFails(c) \/ CancelWaiting(c)
        PROVE  torn' = {}
    BY <2>3 DEF Wake, Issue, ExchangeSucceeds, ExchangeFails, CancelWaiting
  <2>4. CASE Tick \/ UNCHANGED vars
    BY <2>4 DEF Tick, vars
  <2> QED
    BY <2>1, <2>2, <2>3, <2>4 DEF Next
<1> QED
  BY <1>1, <1>2, <1>3, FlightInit, TypeCorrect, PTL DEF Spec

-----------------------------------------------------------------------------
(* Single-flight, whatever is released or swept. *)

\* A running call has a lock, and the one filed under its grant unless that
\* was dropped.
UntornInv ==
    \A c \in Callers : pc[c] # "idle" =>
        /\ lockOf[c] \in Locks
        /\ GrantOf[c] \notin torn => lockOf[c] = locks[GrantOf[c]]

LockInv == MutexInv /\ UntornInv

\* A sweep that leaves a grant untorn leaves its lock to the running calls.
LEMMA SweepKeepsUntorn ==
    ASSUME TypeOK, LockInv, NEW c \in Callers, NEW d \in Callers, Call(c),
           pc[d] # "idle", GrantOf[d] \notin torn'
    PROVE  lockOf[d] = locks[GrantOf[d]] /\ LocksAfterSweep[GrantOf[d]] = locks[GrantOf[d]]
<1>1. GrantOf[d] \in Grants /\ GrantOf[d] \notin torn /\ GrantOf[d] \notin TornBySweep
  BY ProviderAssumption DEF Call, Quiet
<1>2. lockOf[d] = locks[GrantOf[d]] /\ lockOf[d] \in Locks /\ lockOf[d] # NoLock
  BY <1>1, ProviderAssumption DEF LockInv, UntornInv
<1>3. CASE InFlight(d)
  BY <1>1, <1>2, <1>3 DEF LockInv, MutexInv, LocksAfterSweep
<1>4. CASE pc[d] = "waiting"
  <2>1. d \in Waiters(locks[GrantOf[d]])
    BY <1>2, <1>4 DEF Waiters
  <2> QED
    BY <1>1, <1>2, <2>1, SweepType DEF TornBySweep
<1> QED
  BY <1>2, <1>3, <1>4 DEF TypeOK, InFlight

LEMMA LockStep == TypeOK /\ LockInv /\ [Next]_vars => LockInv'
<1> SUFFICES ASSUME TypeOK, LockInv, [Next]_vars PROVE LockInv'
  OBVIOUS
<1> USE ProviderAssumption
<1>1. ASSUME NEW c \in Callers, Call(c), CallHit(c) PROVE LockInv'
  <2>1. UNCHANGED <<held, pc, lockOf>> /\ locks' = LocksAfterSweep
    BY <1>1 DEF CallHit
  <2>2. MutexInv'
    BY <2>1 DEF LockInv, MutexInv, InFlight
  <2>3. UntornInv'
    BY <1>1, <2>1, SweepKeepsUntorn DEF LockInv, UntornInv
  <2> QED
    BY <2>2, <2>3 DEF LockInv
<1>2. ASSUME NEW c \in Callers, Call(c), CallMiss(c) PROVE LockInv'
  <2> DEFINE l == LockFor(GrantOf[c], LocksAfterSweep)
  <2>1. /\ GrantOf[c] \in Grants /\ l \in Locks
        /\ LocksAfterSweep \in [Grants -> Locks \cup {NoLock}]
        /\ LocksAfterSweep[GrantOf[c]] # NoLock => l = LocksAfterSweep[GrantOf[c]]
    BY <1>2, SweepType, LockForIsFree DEF CallMiss
  <2>2. /\ locks' = [LocksAfterSweep EXCEPT ![GrantOf[c]] = l]
        /\ lockOf' = [lockOf EXCEPT ![c] = l]
        /\ \/ ~held[l] /\ held' = [held EXCEPT ![l] = TRUE] /\ pc' = [pc EXCEPT ![c] = "exchanging"]
           \/ held' = held /\ pc' = [pc EXCEPT ![c] = "waiting"]
    BY <1>2 DEF CallMiss
  <2>3. pc[c] = "idle"
    BY <1>2 DEF Call
  <2> HIDE DEF l
  <2>4. MutexInv'
    BY <2>1, <2>2, <2>3 DEF LockInv, MutexInv, UntornInv, InFlight, TypeOK
  <2>5. ASSUME NEW d \in Callers, pc'[d] # "idle"
        PROVE  lockOf'[d] \in Locks /\ (GrantOf[d] \notin torn' => lockOf'[d] = locks'[GrantOf[d]])
    <3>1. CASE d = c
      BY <2>1, <2>2, <3>1 DEF TypeOK
    <3>2. CASE d # c
      <4>1. pc[d] # "idle" /\ lockOf'[d] = lockOf[d] /\ lockOf[d] \in Locks
        BY <2>2, <2>5, <3>2 DEF LockInv, UntornInv, TypeOK
      <4>2. ASSUME GrantOf[d] \notin torn' PROVE lockOf[d] = locks'[GrantOf[d]]
        <5>1. lockOf[d] = LocksAfterSweep[GrantOf[d]]
          BY <1>2, <4>1, <4>2, SweepKeepsUntorn
        <5> QED
          BY <2>1, <2>2, <4>1, <5>1
      <4> QED
        BY <4>1, <4>2
    <3> QED
      BY <3>1, <3>2
  <2> QED
    BY <2>4, <2>5 DEF LockInv, UntornInv
<1>3. ASSUME NEW c \in Callers, Wake(c) PROVE LockInv'
  <2>1. pc[c] = "waiting" /\ ~held[lockOf[c]] /\ UNCHANGED <<locks, torn>>
    BY <1>3 DEF Wake, Runnable
  <2>2. \/ Return(c) /\ held' = held
        \/ /\ held' = [held EXCEPT ![lockOf[c]] = TRUE]
           /\ pc' = [pc EXCEPT ![c] = "exchanging"] /\ lockOf' = lockOf
    BY <1>3 DEF Wake
  <2> QED
    BY <2>1, <2>2 DEF LockInv, MutexInv, UntornInv, InFlight, Return, TypeOK
<1>4. ASSUME NEW c \in Callers, Issue(c) PROVE LockInv'
  BY <1>4 DEF Issue, LockInv, MutexInv, UntornInv, InFlight, TypeOK
<1>5. ASSUME NEW c \in Callers, ExchangeSucceeds(c) \/ ExchangeFails(c) PROVE LockInv'
  <2>1. /\ InFlight(c) /\ held' = [held EXCEPT ![lockOf[c]] = FALSE]
        /\ UNCHANGED <<locks, torn>> /\ Return(c)
    BY <1>5 DEF ExchangeSucceeds, ExchangeFails, InFlight, Unlock
  <2>2. /\ pc'[c] = "idle"
        /\ \A d \in Callers \ {c} : pc'[d] = pc[d] /\ lockOf'[d] = lockOf[d]
    BY <2>1, ReturnType
  <2>3. \A d \in Callers : InFlight(d)' => InFlight(d) /\ d # c /\ lockOf[d] # lockOf[c]
    BY <2>1, <2>2 DEF LockInv, MutexInv, InFlight
  <2> QED
    BY <2>1, <2>2, <2>3 DEF LockInv, MutexInv, UntornInv, InFlight, TypeOK
<1>6. ASSUME NEW c \in Callers, CancelWaiting(c) PROVE LockInv'
  <2>1. UNCHANGED <<locks, held, torn>> /\ Return(c)
    BY <1>6 DEF CancelWaiting
  <2>2. /\ pc'[c] = "idle"
        /\ \A d \in Callers \ {c} : pc'[d] = pc[d] /\ lockOf'[d] = lockOf[d]
    BY <2>1, ReturnType
  <2> QED
    BY <2>1, <2>2 DEF LockInv, MutexInv, UntornInv, InFlight
<1>7. ASSUME NEW g \in Grants, Invalidate(g) PROVE LockInv'
  <2>1. /\ UNCHANGED <<held, pc, lockOf>> /\ locks' = [locks EXCEPT ![g] = NoLock]
        /\ torn' = IF Quiet(g) THEN torn \ {g} ELSE torn \cup {g}
    BY <1>7 DEF Invalidate
  <2>2. MutexInv'
    BY <2>1 DEF LockInv, MutexInv, InFlight
  <2>3. \A d \in Callers : pc[d] # "idle" /\ GrantOf[d] \notin torn' =>
            GrantOf[d] # g /\ GrantOf[d] \notin torn
    BY <2>1 DEF Quiet
  <2>4. UntornInv'
    BY <2>1, <2>3 DEF LockInv, UntornInv, TypeOK
  <2> QED
    BY <2>2, <2>4 DEF LockInv
<1>8. CASE Tick \/ UNCHANGED vars
  BY <1>8 DEF Tick, vars, LockInv, MutexInv, UntornInv, InFlight
<1> QED
  BY <1>1, <1>2, <1>3, <1>4, <1>5, <1>6, <1>7, <1>8 DEF Next, Call

\* Two exchanges of one grant are never in flight, for any number of callers,
\* grants and locks, any lifetimes and any releases, unless the grant's lock
\* was dropped under running calls.
THEOREM SingleFlightHolds == Spec => []SingleFlight
<1>1. Init => LockInv
  BY DEF Init, LockInv, MutexInv, UntornInv, InFlight
<1>2. LockInv => SingleFlight
  BY DEF LockInv, MutexInv, UntornInv, InFlight, SingleFlight
<1> QED
  BY <1>1, <1>2, LockStep, TypeCorrect, PTL DEF Spec

\* No exchange starts while a usable token is cached, under every sweep,
\* failure, cancellation and release.
THEOREM NoneRedundant == Spec => NoRedundantExchange
<1>1. TypeOK /\ [Next]_vars =>
        [\A c \in Callers : pc[c] # "exchanging" /\ pc'[c] = "exchanging" =>
            \A t \in CachedFor(GrantOf[c], tokens) : ~Usable(t)]_vars
  <2> SUFFICES ASSUME TypeOK, Next,
                      NEW c \in Callers, pc[c] # "exchanging", pc'[c] = "exchanging",
                      NEW t \in CachedFor(GrantOf[c], tokens)
               PROVE  ~Usable(t)
    OBVIOUS
  <2>1. ASSUME NEW d \in Callers, Call(d) PROVE ~Usable(t)
    <3>1. d = c /\ CallMiss(c)
      BY <2>1 DEF Call, CallHit, CallMiss, TypeOK
    <3>2. CASE t \in TokensAfterSweep
      BY <3>1, <3>2 DEF CallMiss, CachedFor
    <3>3. CASE t \notin TokensAfterSweep
      BY <3>3 DEF TokensAfterSweep, CachedFor
    <3> QED
      BY <3>2, <3>3
  <2>2. ASSUME NEW d \in Callers, Wake(d) PROVE ~Usable(t)
    <3>1. CASE RefreshedByOther(d)
      BY <2>2, <3>1 DEF Wake, Return, TypeOK
    <3>2. CASE ~RefreshedByOther(d)
      <4>1. d = c
        BY <2>2, <3>2 DEF Wake, TypeOK
      <4> QED
        BY <3>2, <4>1 DEF RefreshedByOther
    <3> QED
      BY <3>1, <3>2
  <2>3. ASSUME NEW d \in Callers,
               Issue(d) \/ ExchangeSucceeds(d) \/ ExchangeFails(d) \/ CancelWaiting(d)
        PROVE  FALSE
    BY <2>3 DEF Issue, ExchangeSucceeds, ExchangeFails, CancelWaiting, Return, TypeOK
  <2>4. ASSUME (\E g \in Grants : Invalidate(g)) \/ Tick PROVE FALSE
    BY <2>4 DEF Invalidate, Tick
  <2> QED
    BY <2>1, <2>2, <2>3, <2>4 DEF Next
<1> QED
  BY <1>1, TypeCorrect, PTL DEF Spec, NoRedundantExchange
=============================================================================
