---------------------------- MODULE TokenProvider ----------------------------
(***************************************************************************)
(* DelegatedTokenProvider (_delegation/token_provider.py): redeems a       *)
(* delegation grant for a short-lived access token, caches the token per   *)
(* grant, and uses one asyncio.Lock per grant so that concurrent callers   *)
(* share one exchange with IAM.                                            *)
(*                                                                         *)
(* A caller is an asyncio task that calls get_token_async() again and      *)
(* again; its ambient grant (DelegatedTokenContext) never changes.  What   *)
(* runs between two awaits is one action.  A call with no grant, or with   *)
(* no tenant in BlocksContext, returns None and changes nothing, so it is  *)
(* a stutter here.                                                         *)
(*                                                                         *)
(* The definitions named Faulty... are variants of the one below them with *)
(* a plausible mistake; they show which property notices it.               *)
(***************************************************************************)
EXTENDS Integers, FiniteSets

CONSTANTS
    Callers,            \* the tasks that ask for tokens
    Grants,             \* delegation grant ids
    GrantOf,            \* GrantOf[c]: the ambient grant of caller c
    Locks,              \* asyncio.Lock objects; those unreferenced are reused
    NoLock,             \* the absence of an entry in _locks
    Margin,             \* TOKEN_RENEWAL_MARGIN_SECONDS
    Timeout,            \* EXCHANGE_TIMEOUT_SECONDS
    Lifetimes,          \* the expires_in values IAM answers; 0: none given
    SweepEvery,         \* SWEEP_INTERVAL_CALLS
    ReleaseInFlight,    \* may a grant be released while calls for it run?
    MaxTime             \* bound of the clock

ASSUME ProviderAssumption ==
    /\ NoLock \notin Locks
    /\ GrantOf \in [Callers -> Grants]
    /\ Margin \in Nat \ {0}
    /\ Timeout \in Nat
    /\ Timeout <= Margin
    /\ Lifetimes \subseteq Nat
    /\ SweepEvery \in Nat \ {0}
    /\ ReleaseInFlight \in BOOLEAN
    /\ MaxTime \in Nat

VARIABLES
    tokens,     \* _tokens: the cached tokens, at most one for each grant
    locks,      \* _locks: the lock object filed under each grant
    held,       \* Lock._locked of each lock object
    calls,      \* _call_count, modulo SweepEvery
    pc,         \* where each caller's get_token_async() stands
    lockOf,     \* the lock object the caller waits for or holds
    ahead,      \* the waiters queued before the caller on its lock
    issuedAt,   \* when IAM issued the token now on its way to the caller
    now,        \* time.time()
    served,     \* the token handed to a caller by the last step, if any
    torn        \* history: grants whose lock was dropped under running calls

vars == <<tokens, locks, held, calls, pc, lockOf, ahead, issuedAt, now, served, torn>>

\* dies_at is when IAM stops honouring the token, expires_at what the
\* provider believes.
Token == [grant : Grants, expires_at : Nat, dies_at : Nat]
Serving == [caller : Callers, token : Token, at : Nat, cached : BOOLEAN]

Waiters(l) == {d \in Callers : pc[d] = "waiting" /\ lockOf[d] = l}

\* Only a waiting task is behind others, and these wait on the same lock.
QueueOK ==
    \A c \in Callers : \A d \in ahead[c] :
        c \in Waiters(lockOf[d]) /\ d \in Waiters(lockOf[c])

\* The state is well formed; in particular a queue names only tasks that
\* still wait on its lock: a cancelled or served task leaves it.
TypeOK ==
    /\ tokens \in SUBSET Token
    /\ locks \in [Grants -> Locks \cup {NoLock}]
    /\ held \in [Locks -> BOOLEAN]
    /\ calls \in 0 .. (SweepEvery - 1)
    /\ pc \in [Callers -> {"idle", "waiting", "exchanging", "issued"}]
    /\ lockOf \in [Callers -> Locks \cup {NoLock}]
    /\ ahead \in [Callers -> SUBSET Callers]
    /\ issuedAt \in [Callers -> Nat]
    /\ now \in Nat
    /\ served \in SUBSET Serving
    /\ torn \subseteq Grants
    /\ QueueOK

Init ==
    /\ tokens = {}
    /\ locks = [g \in Grants |-> NoLock]
    /\ held = [l \in Locks |-> FALSE]
    /\ calls = 0
    /\ pc = [c \in Callers |-> "idle"]
    /\ lockOf = [c \in Callers |-> NoLock]
    /\ ahead = [c \in Callers |-> {}]
    /\ issuedAt = [c \in Callers |-> 0]
    /\ now = 0
    /\ served = {}
    /\ torn = {}

-----------------------------------------------------------------------------
(* The cache. *)

FaultyUsable(t) == now < t.expires_at

\* _CachedToken.is_usable
Usable(t) == now < t.expires_at - Margin

CachedFor(g, cache) == {t \in cache : t.grant = g}

\* _tokens.pop(g, None)
Pop(g, cache) == cache \ CachedFor(g, cache)

\* expires_in as _read_token takes it: none given means twice the margin
EffectiveLife(life) == IF life = 0 THEN 2 * Margin ELSE life

\* The token _read_token builds now from a response IAM issued at `issued`.
\* An undeclared lifetime is assumed to be at least twice the margin.
NewToken(g, issued, life) ==
    [grant |-> g,
     expires_at |-> now + EffectiveLife(life),
     dies_at |-> issued + EffectiveLife(life)]

Serve(c, t, fromCache) ==
    served' = {[caller |-> c, token |-> t, at |-> now, cached |-> fromCache]}

ServeNone == served' = {}

-----------------------------------------------------------------------------
(* The sweep: the part of get_token_async before the cache is read. *)

Sweeping == calls + 1 = SweepEvery

StaleGrants == {t.grant : t \in {u \in tokens : ~Usable(u)}}

TokensAfterSweep ==
    IF Sweeping THEN {t \in tokens : Usable(t)} ELSE tokens

\* A lock in use stays; so does the lock of a grant that has no stale token.
LocksAfterSweep ==
    [g \in Grants |->
        IF /\ Sweeping
           /\ g \in StaleGrants
           /\ locks[g] # NoLock
           /\ ~held[locks[g]]
        THEN NoLock ELSE locks[g]]

\* No call for g runs.
Quiet(g) == \A c \in Callers : GrantOf[c] = g => pc[c] = "idle"

TornBySweep ==
    {g \in Grants : locks[g] # NoLock /\ LocksAfterSweep[g] = NoLock /\ Waiters(locks[g]) # {}}

-----------------------------------------------------------------------------
(* asyncio.Lock: release() wakes the first waiter, which holds the lock    *)
(* only when its task runs; a newcomer queues behind every waiter.         *)

Referenced(l) == (\E g \in Grants : locks[g] = l) \/ (\E c \in Callers : lockOf[c] = l)

FreeLocks == {l \in Locks : ~Referenced(l)}

FaultyLockFor(g, filed) == CHOOSE l \in FreeLocks : TRUE

\* _locks.setdefault(g, asyncio.Lock())
LockFor(g, filed) ==
    IF filed[g] # NoLock THEN filed[g] ELSE CHOOSE l \in FreeLocks : TRUE

\* Leaving `async with lock`
Unlock(c) == held' = [held EXCEPT ![lockOf[c]] = FALSE]

FaultyDequeue(c) == ahead' = [ahead EXCEPT ![c] = {}]

Dequeue(c) == ahead' = [d \in Callers |-> IF d = c THEN {} ELSE ahead[d] \ {c}]

Return(c) ==
    /\ pc' = [pc EXCEPT ![c] = "idle"]
    /\ lockOf' = [lockOf EXCEPT ![c] = NoLock]
    /\ issuedAt' = [issuedAt EXCEPT ![c] = 0]

-----------------------------------------------------------------------------
(* get_token_async *)

\* A usable token is returned without the lock.
CallHit(c) ==
    LET g == GrantOf[c] IN
    /\ \E t \in CachedFor(g, TokensAfterSweep) : Usable(t) /\ Serve(c, t, TRUE)
    /\ tokens' = TokensAfterSweep
    /\ locks' = LocksAfterSweep
    /\ UNCHANGED <<held, pc, lockOf, ahead, issuedAt>>

\* No usable token: take the lock if nobody has it or waits for it, and go
\* on to the exchange without suspending; otherwise queue.
CallMiss(c) ==
    LET g == GrantOf[c]
        l == LockFor(g, LocksAfterSweep)
        acquired == ~held[l] /\ Waiters(l) = {} IN
    /\ \A t \in CachedFor(g, TokensAfterSweep) : ~Usable(t)
    /\ FreeLocks # {}
    /\ locks' = [LocksAfterSweep EXCEPT ![g] = l]
    /\ lockOf' = [lockOf EXCEPT ![c] = l]
    /\ IF acquired
       THEN /\ tokens' = Pop(g, TokensAfterSweep)
            /\ held' = [held EXCEPT ![l] = TRUE]
            /\ pc' = [pc EXCEPT ![c] = "exchanging"]
            /\ ahead' = ahead
       ELSE /\ tokens' = TokensAfterSweep
            /\ held' = held
            /\ pc' = [pc EXCEPT ![c] = "waiting"]
            /\ ahead' = [ahead EXCEPT ![c] = Waiters(l)]
    /\ issuedAt' = issuedAt
    /\ ServeNone

Call(c) ==
    /\ pc[c] = "idle"
    /\ calls' = (calls + 1) % SweepEvery
    /\ now' = now
    /\ torn' = TornBySweep \cup {g \in torn : ~Quiet(g)}
    /\ CallHit(c) \/ CallMiss(c)

Runnable(c) == pc[c] = "waiting" /\ ahead[c] = {} /\ ~held[lockOf[c]]

FaultyRefreshedByOther(c) == FALSE

\* The re-check under the lock: did its last holder leave a usable token?
RefreshedByOther(c) == \E t \in CachedFor(GrantOf[c], tokens) : Usable(t)

\* The first waiter of a released lock gets it: it returns the token another
\* caller fetched, or starts an exchange of its own.
Wake(c) ==
    /\ Runnable(c)
    /\ Dequeue(c)
    /\ UNCHANGED <<locks, calls, now, torn>>
    /\ IF RefreshedByOther(c)
       THEN /\ \E t \in CachedFor(GrantOf[c], tokens) : Usable(t) /\ Serve(c, t, TRUE)
            /\ Return(c)
            /\ UNCHANGED <<tokens, held>>
       ELSE /\ tokens' = Pop(GrantOf[c], tokens)
            /\ held' = [held EXCEPT ![lockOf[c]] = TRUE]
            /\ pc' = [pc EXCEPT ![c] = "exchanging"]
            /\ UNCHANGED <<lockOf, issuedAt>>
            /\ ServeNone

InFlight(c) == pc[c] \in {"exchanging", "issued"}

\* IAM accepts the exchange; its answer is on the way.
Issue(c) ==
    /\ pc[c] = "exchanging"
    /\ pc' = [pc EXCEPT ![c] = "issued"]
    /\ issuedAt' = [issuedAt EXCEPT ![c] = now]
    /\ ServeNone
    /\ UNCHANGED <<tokens, locks, held, calls, lockOf, ahead, now, torn>>

\* The answer arrives, is cached and returned.
ExchangeSucceeds(c) ==
    /\ pc[c] = "issued"
    /\ \E life \in Lifetimes :
         LET t == NewToken(GrantOf[c], issuedAt[c], life) IN
         /\ tokens' = Pop(GrantOf[c], tokens) \cup {t}
         /\ Serve(c, t, FALSE)
    /\ Unlock(c)
    /\ Return(c)
    /\ UNCHANGED <<locks, calls, ahead, now, torn>>

\* No salt, no endpoint, a rejection, a time-out, an unreadable answer, or
\* the task is cancelled: the lock is released and nothing is cached.
ExchangeFails(c) ==
    /\ InFlight(c)
    /\ Unlock(c)
    /\ Return(c)
    /\ ServeNone
    /\ UNCHANGED <<tokens, locks, calls, ahead, now, torn>>

\* A task is cancelled while it waits for the lock.
CancelWaiting(c) ==
    /\ pc[c] = "waiting"
    /\ Dequeue(c)
    /\ Return(c)
    /\ ServeNone
    /\ UNCHANGED <<tokens, locks, held, calls, now, torn>>

-----------------------------------------------------------------------------
(* invalidate: a message settled.  The worker calls it after the handler   *)
(* returned, but another copy of the message, or a task the handler left   *)
(* behind, may still be redeeming the grant.                               *)

Invalidate(g) ==
    /\ ReleaseInFlight \/ Quiet(g)
    /\ tokens' = Pop(g, tokens)
    /\ locks' = [locks EXCEPT ![g] = NoLock]
    /\ torn' = IF Quiet(g) THEN torn \ {g} ELSE torn \cup {g}
    /\ ServeNone
    /\ UNCHANGED <<held, calls, pc, lockOf, ahead, issuedAt, now>>

\* The loop runs a woken task before a unit of time passes.
LoopIsPrompt == \A c \in Callers : pc[c] = "waiting" => held[lockOf[c]]

\* No answer is waited for longer than the client's time-out.
TimeoutFires == \A c \in Callers : pc[c] = "issued" => now < issuedAt[c] + Timeout

Tick ==
    /\ now < MaxTime
    /\ LoopIsPrompt
    /\ TimeoutFires
    /\ now' = now + 1
    /\ ServeNone
    /\ UNCHANGED <<tokens, locks, held, calls, pc, lockOf, ahead, issuedAt, torn>>

Next ==
    \/ \E c \in Callers :
          \/ Call(c)
          \/ Wake(c)
          \/ Issue(c)
          \/ ExchangeSucceeds(c)
          \/ ExchangeFails(c)
          \/ CancelWaiting(c)
    \/ \E g \in Grants : Invalidate(g)
    \/ Tick

Spec == Init /\ [][Next]_vars

\* A woken task runs, and an exchange ends: it has an answer or times out.
Fairness ==
    \A c \in Callers :
        /\ WF_vars(Wake(c))
        /\ WF_vars(ExchangeSucceeds(c) \/ ExchangeFails(c))

FairSpec == Spec /\ Fairness

-----------------------------------------------------------------------------
(* Properties. *)

\* A token handed out of the cache is still honoured by IAM at that moment,
\* although its expiry was computed when the answer arrived, not when IAM
\* issued the token: the renewal margin has to absorb the exchange's delay.
ServedTokenIsAlive ==
    \A s \in served : s.cached => s.at < s.token.dies_at

\* Single-flight (README: "fifty concurrent callers cost one exchange"): no
\* two exchanges of one grant are in flight, unless the grant's lock was
\* dropped from _locks under running calls, by a release of the grant or by
\* a sweep between the release of the lock and the wake-up of its waiter.
SingleFlight ==
    \A c, d \in Callers :
        InFlight(c) /\ InFlight(d) /\ GrantOf[c] = GrantOf[d] /\ GrantOf[c] \notin torn
            => c = d

\* "fifty concurrent callers on one grant perform exactly one exchange": an
\* exchange never starts while a usable token is cached, so the callers that
\* queued behind a successful one are served by it, through sweeps, failures
\* and cancellations.
NoRedundantExchange ==
    [][\A c \in Callers : pc[c] # "exchanging" /\ pc'[c] = "exchanging" =>
          \A t \in CachedFor(GrantOf[c], tokens) : ~Usable(t)]_vars

\* Every call returns: no wake-up is lost when waiters are cancelled, when
\* an exchange fails, or when the lock they queue on is dropped from _locks.
EveryCallReturns ==
    \A c \in Callers : (pc[c] # "idle") ~> (pc[c] = "idle")
=============================================================================
