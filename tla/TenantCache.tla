----------------------------- MODULE TenantCache -----------------------------
(***************************************************************************)
(* The tenant cache of one process (_tenant/tenant_service.py): calls that *)
(* miss the cache share one database read per tenant id, calls by domain   *)
(* read for themselves, and update notifications from Redis pub/sub change *)
(* the cache meanwhile.                                                    *)
(*                                                                         *)
(* Everything runs on one event loop.  The sections under                  *)
(* _tenant_load_lock contain no await, so the lock is never waited for and *)
(* a section is part of the step it stands in.  The tenants' collection    *)
(* and who changes it are external; a change is published after it was     *)
(* written, and the notifications arrive in order while the process is     *)
(* subscribed and are lost while it is not.                                *)
(***************************************************************************)
EXTENDS Integers, Sequences, FiniteSets

CONSTANTS
    Tenants,
    Calls,          \* calls of get_tenant and get_tenant_by_domain
    None,           \* no record, no read, no tenant
    MaxVersion,     \* bound of the changes of a tenant
    SubscriptionFails   \* may the subscription end, or a publish fail?

ASSUME TenantAssumption ==
    /\ None \notin Calls \cup Tenants
    /\ MaxVersion \in Nat
    /\ SubscriptionFails \in BOOLEAN

Records == [version : 0 .. MaxVersion, disabled : BOOLEAN]
Notifications == [tenant : Tenants, record : Records \cup {None}]
CallStates == [pc : {"idle", "awaiting", "returned", "cancelled"},
               tenant : Tenants \cup {None}, on : Calls \cup {None}]
ReadStates == [pc : {"none", "running", "done", "cancelled"},
               shared : BOOLEAN, record : Records \cup {None}]

VARIABLES
    db,         \* the record of each tenant in the database
    version,    \* how often it was changed
    unpublished,\* the tenant whose change is still to be published
    subscribed, \* does the process receive notifications?
    updates,    \* scheduled _handle_update tasks, in order
    cache,      \* _tenant_cache
    loads,      \* _tenant_load_in_progress: the call that started the read
    call,       \* each call: where it stands, its tenant, the read it awaits
    read,       \* the database read each call started
    missed,     \* history: tenants whose last change was not received
    overtaken   \* history: tenants whose last update met a read in hand

store == <<db, version, unpublished, subscribed>>
vars == <<db, version, unpublished, subscribed, updates, cache, loads, call, read, missed, overtaken>>

TypeOK ==
    /\ db \in [Tenants -> Records \cup {None}]
    /\ version \in [Tenants -> 0 .. MaxVersion]
    /\ unpublished \in Tenants \cup {None}
    /\ subscribed \in BOOLEAN
    /\ updates \in Seq(Notifications)
    /\ cache \in [Tenants -> Records \cup {None}]
    /\ loads \in [Tenants -> Calls \cup {None}]
    /\ call \in [Calls -> CallStates]
    /\ read \in [Calls -> ReadStates]
    /\ missed \subseteq Tenants
    /\ overtaken \subseteq Tenants
    /\ \A t \in Tenants : loads[t] # None =>
          call[loads[t]].tenant = t /\ read[loads[t]].shared

Init ==
    /\ db = [t \in Tenants |-> [version |-> 0, disabled |-> FALSE]]
    /\ version = [t \in Tenants |-> 0]
    /\ unpublished = None
    /\ subscribed = FALSE
    /\ updates = <<>>
    /\ cache = [t \in Tenants |-> None]
    /\ loads = [t \in Tenants |-> None]
    /\ call = [c \in Calls |-> [pc |-> "idle", tenant |-> None, on |-> None]]
    /\ read = [c \in Calls |-> [pc |-> "none", shared |-> FALSE, record |-> None]]
    /\ missed = {}
    /\ overtaken = {}

-----------------------------------------------------------------------------
(* The database and the channel. *)

\* Some process changes, disables or deletes a tenant.
Change(t) ==
    /\ unpublished = None
    /\ version[t] < MaxVersion
    /\ version' = [version EXCEPT ![t] = @ + 1]
    /\ \E record \in {None} \cup [version : {version'[t]}, disabled : BOOLEAN] :
          db' = [db EXCEPT ![t] = record]
    /\ unpublished' = t
    /\ UNCHANGED <<subscribed, updates, cache, loads, call, read, missed, overtaken>>

\* update_tenant_version_async; it only logs that a publish failed.
\* _handle_update_wrapper schedules a task for what is received.
Publish ==
    /\ unpublished # None
    /\ unpublished' = None
    /\ \/ /\ subscribed
          /\ updates' = Append(updates, [tenant |-> unpublished, record |-> db[unpublished]])
          /\ missed' = missed \ {unpublished}
       \/ /\ ~subscribed \/ SubscriptionFails
          /\ missed' = missed \cup {unpublished}
          /\ UNCHANGED updates
    /\ UNCHANGED <<db, version, subscribed, cache, loads, call, read, overtaken>>

\* _subscribe_to_updates, a task of initialize, or the Redis client has
\* connected again.
Subscribe ==
    /\ ~subscribed
    /\ subscribed' = TRUE
    /\ UNCHANGED <<db, version, unpublished, updates, cache, loads, call, read, missed, overtaken>>

\* dispose_async, or the listener of the Redis client ends.
SubscriptionEnds ==
    /\ SubscriptionFails
    /\ subscribed
    /\ subscribed' = FALSE
    /\ UNCHANGED <<db, version, unpublished, updates, cache, loads, call, read, missed, overtaken>>

-----------------------------------------------------------------------------
(* Update notifications. *)

\* Does some call hold what the database said of t some time ago?
ReadHeld(t) ==
    \E c \in Calls : /\ call[c].pc = "awaiting" /\ call[c].tenant = t
                     /\ read[call[c].on].pc = "done"

FaultyApplied(t, record) == IF record = None THEN cache[t] ELSE record

\* _apply_update_message: what the cache holds after the update.
Applied(t, record) == IF record \in Records /\ record.disabled THEN None ELSE record

\* _handle_update.
Handle ==
    /\ updates # <<>>
    /\ LET t == Head(updates).tenant IN
       /\ cache' = [cache EXCEPT ![t] = Applied(t, Head(updates).record)]
       /\ overtaken' = IF ReadHeld(t) THEN overtaken \cup {t} ELSE overtaken \ {t}
    /\ updates' = Tail(updates)
    /\ UNCHANGED <<store, loads, call, read, missed>>

-----------------------------------------------------------------------------
(* Calls. *)

Await(c, t, on) == call' = [call EXCEPT ![c] = [pc |-> "awaiting", tenant |-> t, on |-> on]]

StartRead(c, shared) ==
    read' = [read EXCEPT ![c] = [pc |-> "running", shared |-> shared, record |-> None]]

CallHit(c, t) ==
    /\ call[c].pc = "idle"
    /\ cache[t] # None
    /\ call' = [call EXCEPT ![c].pc = "returned"]
    /\ UNCHANGED <<store, updates, cache, loads, read, missed, overtaken>>

FaultyRegistered(c, t) == [loads EXCEPT ![t] = c]

Registered(c, t) == IF loads[t] = None THEN [loads EXCEPT ![t] = c] ELSE loads

\* get_tenant misses and joins the read in progress, or starts one.
GetTenant(c, t) ==
    /\ call[c].pc = "idle"
    /\ cache[t] = None
    /\ IF loads[t] = None THEN StartRead(c, TRUE) ELSE UNCHANGED read
    /\ loads' = Registered(c, t)
    /\ Await(c, t, loads'[t])
    /\ UNCHANGED <<store, updates, cache, missed, overtaken>>

\* get_tenant_by_domain misses and reads for itself.
GetTenantByDomain(c, t) ==
    /\ call[c].pc = "idle"
    /\ cache[t] = None
    /\ Await(c, t, c)
    /\ StartRead(c, FALSE)
    /\ UNCHANGED <<store, updates, cache, loads, missed, overtaken>>

\* The database answers; a failed read counts as a tenant that is not there.
Read(c) ==
    /\ read[c].pc = "running"
    /\ \E record \in {db[call[c].tenant], None} :
          read' = [read EXCEPT ![c].pc = "done", ![c].record = record]
    /\ UNCHANGED <<store, updates, cache, loads, call, missed, overtaken>>

FaultyUnregistered(c) == [loads EXCEPT ![call[c].tenant] = None]

\* The finally block: drop the read this call awaited, and no other.
Unregistered(c) ==
    IF loads[call[c].tenant] = call[c].on THEN [loads EXCEPT ![call[c].tenant] = None] ELSE loads

FaultyEnd(c, pc) ==
    /\ call' = [call EXCEPT ![c].pc = pc]
    /\ loads' = IF pc = "returned" THEN Unregistered(c) ELSE loads

End(c, pc) ==
    /\ call' = [call EXCEPT ![c].pc = pc]
    /\ loads' = Unregistered(c)

\* A call resumes after its read: it caches what was read, whatever happened
\* to the tenant meanwhile.
Return(c) ==
    /\ call[c].pc = "awaiting"
    /\ LET t == call[c].tenant
           record == read[call[c].on].record IN
       \/ /\ read[call[c].on].pc = "done"
          /\ End(c, "returned")
          /\ cache' = IF record = None THEN cache ELSE [cache EXCEPT ![t] = record]
       \/ /\ read[call[c].on].pc = "cancelled"
          /\ End(c, "cancelled")
          /\ UNCHANGED cache
    /\ UNCHANGED <<store, updates, read, missed, overtaken>>

\* A call is cancelled: asyncio cancels the read it awaits, and so every call
\* that awaits the same read.
Cancel(c) ==
    /\ call[c].pc = "awaiting"
    /\ \/ /\ read[call[c].on].pc = "running"
          /\ read' = [read EXCEPT ![call[c].on].pc = "cancelled"]
          /\ UNCHANGED <<call, loads>>
       \/ /\ read[call[c].on].pc = "done"
          /\ End(c, "cancelled")
          /\ UNCHANGED read
    /\ UNCHANGED <<store, updates, cache, missed, overtaken>>

Next ==
    \/ \E t \in Tenants : Change(t)
    \/ Publish
    \/ Subscribe
    \/ SubscriptionEnds
    \/ Handle
    \/ \E c \in Calls :
          \/ \E t \in Tenants : CallHit(c, t) \/ GetTenant(c, t) \/ GetTenantByDomain(c, t)
          \/ Read(c)
          \/ Return(c)
          \/ Cancel(c)

Spec == Init /\ [][Next]_vars

\* The database answers, the event loop resumes a call whose read ended, and
\* runs the tasks it was given.
Fairness ==
    /\ \A c \in Calls : WF_vars(Read(c)) /\ WF_vars(Return(c))
    /\ WF_vars(Handle)

FairSpec == Spec /\ Fairness

-----------------------------------------------------------------------------
(* Properties. *)

\* "Deduplicate concurrent DB lookups for the same tenant id": get_tenant
\* never has two reads of one tenant under way.
SingleLoad ==
    \A c, d \in Calls :
        /\ read[c].pc = "running" /\ read[c].shared
        /\ read[d].pc = "running" /\ read[d].shared
        /\ call[c].tenant = call[d].tenant
        => c = d

\* A read that ended, also by an error or a cancellation, stays registered
\* only until the calls that awaited it have resumed: no later call gets its
\* outcome.
NoDeadLoad ==
    \A t \in Tenants : loads[t] # None =>
        \E c \in Calls : call[c].pc = "awaiting" /\ call[c].on = loads[t]

\* Nothing is on its way that could still change what the cache says of t.
Quiet(t) ==
    /\ unpublished # t
    /\ \A i \in DOMAIN updates : updates[i].tenant # t
    /\ \A c \in Calls : call[c].pc = "awaiting" => call[c].tenant # t

\* The cache ends with the tenant as the database has it, or without it: a
\* removed or disabled tenant is gone, a changed one is the changed one;
\* provided the last change was received, while no call had read the tenant
\* and not yet resumed.
InSyncUnlessOvertaken ==
    \A t \in Tenants : Quiet(t) /\ t \notin missed \cup overtaken =>
        cache[t] \in {None, db[t]}

\* _handle_update: "Process tenant update notifications and keep cache in
\* sync."  Every change was received.
NotificationsKeepInSync ==
    \A t \in Tenants : Quiet(t) /\ t \notin missed => cache[t] \in {None, db[t]}

\* Every call ends, though it may await the read of another call.
EveryCallReturns ==
    \A c \in Calls : (call[c].pc = "awaiting") ~> (call[c].pc \in {"returned", "cancelled"})
=============================================================================
