---------------------------- MODULE ProviderStore ----------------------------
(***************************************************************************)
(* The store of a tenant's external identity providers                     *)
(* (_auth/third_party_provider_store.py): a cache of a bounded age, one    *)
(* shared read per tenant, joined by every request that misses meanwhile.  *)
(*                                                                         *)
(* The sections under _load_lock contain no await, so the lock is never    *)
(* waited for.  The JwtThirdPartyProviders collection and who changes it   *)
(* are external.  The code sets a read no time limit; ReadTime is the time *)
(* the database driver and the event loop take, from the start of a read   *)
(* until the requests that awaited it have resumed.                        *)
(***************************************************************************)
EXTENDS Integers, FiniteSets

CONSTANTS
    Requests,
    Tenants,
    Providers,      \* rows of the collection, active or not
    Switched,       \* those an operator switches on or off
    None,
    Lifetime,       \* CACHE_LIFETIME_SECONDS
    ReadTime,       \* the longest a read takes
    MaxTime,        \* bound of the clock
    MaxChanges      \* bound of the changes of the collection

ASSUME StoreAssumption ==
    /\ Lifetime \in Nat /\ ReadTime \in Nat
    /\ MaxTime \in Nat /\ MaxChanges \in Nat
    /\ \A p \in Providers : p.tenant \in Tenants
    /\ IsFiniteSet(Providers) /\ Switched \subseteq Providers
    /\ None \notin Requests \cup Tenants \cup Providers

VARIABLES
    now,
    rows,       \* the active rows of the collection
    cache,      \* _cache: a tenant's providers and when they were filed
    loads,      \* _loads: the request that started the registered read
    read,       \* the read each request started
    awaits,     \* the read each request awaits
    served,     \* history: the providers get_active gave each request
    changedAt,  \* history: when each row became active or inactive
    failedAt,   \* history: when a read of a tenant's rows last failed
    changes     \* how often the collection changed

store == <<now, rows, cache, loads, read, awaits, served, changedAt, failedAt, changes>>

\* Nothing of what is remembered is older.
LongAgo == 0 - Lifetime - ReadTime - 1

Times == LongAgo .. MaxTime

NoRead == [pc |-> "none", tenant |-> None, providers |-> {}, began |-> 0]

Entries == [providers : SUBSET Providers, at : Times]

Reads == [pc : {"none", "running", "done", "cancelled"}, tenant : Tenants \cup {None},
          providers : SUBSET Providers, began : Times]

StoreTypeOK ==
    /\ now \in 0 .. MaxTime
    /\ rows \subseteq Providers
    /\ cache \in [Tenants -> Entries \cup {None}]
    /\ loads \in [Tenants -> Requests \cup {None}]
    /\ read \in [Requests -> Reads]
    /\ awaits \in [Requests -> Requests \cup {None}]
    /\ served \in [Requests -> (SUBSET Providers) \cup {None}]
    /\ changedAt \in [Providers -> Times]
    /\ failedAt \in [Tenants -> Times]
    /\ changes \in 0 .. MaxChanges
    /\ \A t \in Tenants : loads[t] # None => read[loads[t]].tenant = t

StoreInit ==
    /\ now = 0
    /\ rows = Providers
    /\ cache = [t \in Tenants |-> None]
    /\ loads = [t \in Tenants |-> None]
    /\ read = [r \in Requests |-> NoRead]
    /\ awaits = [r \in Requests |-> None]
    /\ served = [r \in Requests |-> None]
    /\ changedAt = [p \in Providers |-> LongAgo]
    /\ failedAt = [t \in Tenants |-> LongAgo]
    /\ changes = 0

-----------------------------------------------------------------------------
(* Outside the process. *)

\* A provider is switched on or off.
Change(p) ==
    /\ changes < MaxChanges
    /\ changes' = changes + 1
    /\ rows' = IF p \in rows THEN rows \ {p} ELSE rows \cup {p}
    /\ changedAt' = [changedAt EXCEPT ![p] = now]
    /\ UNCHANGED <<now, cache, loads, read, awaits, served, failedAt>>

Overdue(r) == awaits[r] # None /\ now >= read[awaits[r]].began + ReadTime

Tick ==
    /\ now < MaxTime
    /\ \A r \in Requests : ~Overdue(r)
    /\ now' = now + 1
    /\ UNCHANGED <<rows, cache, loads, read, awaits, served, changedAt, failedAt, changes>>

\* The database answers the read; one that fails is an empty list.
Load(r) ==
    /\ read[r].pc = "running"
    /\ LET t == read[r].tenant IN
       \/ /\ read' = [read EXCEPT ![r].pc = "done", ![r].providers = {p \in rows : p.tenant = t}]
          /\ UNCHANGED failedAt
       \/ /\ read' = [read EXCEPT ![r].pc = "done", ![r].providers = {}]
          /\ failedAt' = [failedAt EXCEPT ![t] = now]
    /\ UNCHANGED <<now, rows, cache, loads, awaits, served, changedAt, changes>>

-----------------------------------------------------------------------------
(* get_active and invalidate. *)

FaultyFresh(t) == cache[t] # None

Fresh(t) == cache[t] # None /\ now - cache[t].at <= Lifetime

\* get_active answers from the cache.
GetActiveHit(r, t) ==
    /\ Fresh(t)
    /\ served' = [served EXCEPT ![r] = cache[t].providers]
    /\ UNCHANGED <<now, rows, cache, loads, read, awaits, changedAt, failedAt, changes>>

FaultyJoined(t) == None

\* The read in progress, if there is one.
Joined(t) == loads[t]

\* get_active joins the read in progress, or starts one.
GetActiveMiss(r, t) ==
    /\ ~Fresh(t)
    /\ IF Joined(t) # None
       THEN /\ awaits' = [awaits EXCEPT ![r] = Joined(t)]
            /\ UNCHANGED <<loads, read>>
       ELSE /\ awaits' = [awaits EXCEPT ![r] = r]
            /\ loads' = [loads EXCEPT ![t] = r]
            /\ read' = [read EXCEPT ![r] = [pc |-> "running", tenant |-> t, providers |-> {}, began |-> now]]
    /\ UNCHANGED <<now, rows, cache, served, changedAt, failedAt, changes>>

\* The finally block: drop the read this request awaited, and no other.  A
\* read nobody awaits any more is gone.
StopAwaiting(r) ==
    LET on == awaits[r]
        t == read[on].tenant IN
    /\ loads' = IF loads[t] = on THEN [loads EXCEPT ![t] = None] ELSE loads
    /\ awaits' = [awaits EXCEPT ![r] = None]
    /\ read' = IF on \in {awaits[q] : q \in Requests \ {r}} THEN read ELSE [read EXCEPT ![on] = NoRead]

\* get_active resumes after the read and files what it read as of now.
GetActiveReturns(r) ==
    /\ awaits[r] # None
    /\ read[awaits[r]].pc = "done"
    /\ LET got == read[awaits[r]].providers IN
       /\ served' = [served EXCEPT ![r] = got]
       /\ cache' = [cache EXCEPT ![read[awaits[r]].tenant] = [providers |-> got, at |-> now]]
    /\ StopAwaiting(r)
    /\ UNCHANGED <<now, rows, changedAt, failedAt, changes>>

\* get_active raises the CancelledError of the read.
GetActiveRaises(r) ==
    /\ awaits[r] # None
    /\ read[awaits[r]].pc = "cancelled"
    /\ StopAwaiting(r)
    /\ UNCHANGED <<now, rows, cache, served, changedAt, failedAt, changes>>

\* A request is cancelled in get_active: asyncio cancels the read it awaits,
\* and so every request that awaits the same read.
CancelRead(r) ==
    /\ awaits[r] # None
    /\ read[awaits[r]].pc = "running"
    /\ read' = [read EXCEPT ![awaits[r]].pc = "cancelled"]
    /\ UNCHANGED <<now, rows, cache, loads, awaits, served, changedAt, failedAt, changes>>

\* The read has ended, and only the request is cancelled.
CancelReturn(r) ==
    /\ awaits[r] # None
    /\ read[awaits[r]].pc = "done"
    /\ StopAwaiting(r)
    /\ UNCHANGED <<now, rows, cache, served, changedAt, failedAt, changes>>

\* The request is over.
Forget(r) ==
    /\ served' = [served EXCEPT ![r] = None]
    /\ UNCHANGED <<now, rows, cache, loads, read, awaits, changedAt, failedAt, changes>>

\* invalidate.
Invalidate(t) ==
    /\ cache[t] # None
    /\ cache' = [cache EXCEPT ![t] = None]
    /\ UNCHANGED <<now, rows, loads, read, awaits, served, changedAt, failedAt, changes>>

-----------------------------------------------------------------------------
(* Properties. *)

Recent(time) == now - time <= Lifetime + ReadTime

\* "The same bounded staleness the tenant cache already accepts", and "a
\* configuration change should take effect without a deploy": whatever
\* changes, is invalidated, joined or fails meanwhile, the providers a
\* request is given differ from those that are active now by recent changes
\* only, or because a recent read failed.
ServedRecently ==
    [][\A r \in Requests, t \in Tenants :
          GetActiveHit(r, t) \/ (GetActiveReturns(r) /\ read[awaits[r]].tenant = t) =>
              LET active == {p \in rows : p.tenant = t} IN
              /\ \A p \in served'[r] \ active : p.tenant = t /\ Recent(changedAt[p])
              /\ \A p \in active \ served'[r] : Recent(changedAt[p]) \/ Recent(failedAt[t])]_store

\* "A burst against a cold cache produces one query rather than one per
\* request": no tenant's rows are read twice at the same time.
SingleLoad ==
    \A r, q \in Requests :
        read[r].pc = "running" /\ read[q].pc = "running" /\ read[r].tenant = read[q].tenant => r = q
=============================================================================
