--------------------------- MODULE CertificateCache ---------------------------
(***************************************************************************)
(* How certificates are kept (_auth/auth.py): get_tenant_cert caches the   *)
(* bytes of a tenant's certificate until the day before it ends, counted   *)
(* from the issue date in the tenant's parameters; _resolve_certificate_   *)
(* key caches a provider's for a fixed time.  The key of an entry holds no *)
(* version: after a rotation the entry goes on to answer, and a reader     *)
(* that fetched before it may write the old bytes after it.                *)
(*                                                                         *)
(* Redis (external) drops an entry when its time is over, or earlier.      *)
(***************************************************************************)
EXTENDS Integers

CONSTANTS
    Readers,
    MaxTime,        \* bound of the clock
    Day,            \* 86400 seconds
    ValidDays,      \* certificate_valid_for_number_of_days
    Least,          \* the 60 seconds an entry is kept at least
    Window,         \* PROVIDER_CERTIFICATE_CACHE_TTL_SECONDS
    MaxFetch        \* how long a fetch and the write to the cache take at most

CertificateAssumption ==
    /\ {MaxTime, ValidDays, MaxFetch} \subseteq Nat
    /\ {Day, Least, Window} \subseteq Nat \ {0}

Nothing == 0
Versions == {1, 2}      \* before and after the rotation
Never == MaxTime + 1

VARIABLES
    kind,       \* whose certificate it is
    now,
    rotated,    \* when the second certificate was published
    cached,     \* the version Redis holds
    until,      \* when it drops it
    at,         \* where each reader stands
    bytes,      \* the version it has
    issued,     \* the issue date in the tenant it was called with
    began,      \* when its fetch began
    ttl         \* the time to live it computed, counted from the write

vars == <<kind, now, rotated, cached, until, at, bytes, issued, began, ttl>>
cache == <<cached, until>>

Limit(a, b) == IF a > b THEN a ELSE b

Longest == Limit(Window, Limit(Least, ValidDays * Day))
Latest == MaxTime + Longest

TypeOK ==
    /\ kind \in {"tenant", "provider"}
    /\ now \in 0 .. MaxTime
    /\ rotated \in 0 .. Never
    /\ cached \in Versions \cup {Nothing}
    /\ until \in 0 .. Latest
    /\ cached # Nothing => now < until
    /\ at \in [Readers -> {"idle", "fetching", "adding", "verifying"}]
    /\ bytes \in [Readers -> Versions \cup {Nothing}]
    /\ issued \in [Readers -> 0 .. MaxTime]
    /\ began \in [Readers -> 0 .. MaxTime]
    /\ ttl \in [Readers -> 0 .. Longest]

Init ==
    /\ kind \in {"tenant", "provider"}
    /\ now = 0
    /\ rotated = Never
    /\ cached = Nothing
    /\ until = 0
    /\ at = [r \in Readers |-> "idle"]
    /\ bytes = [r \in Readers |-> Nothing]
    /\ issued = [r \in Readers |-> 0]
    /\ began = [r \in Readers |-> 0]
    /\ ttl = [r \in Readers |-> 0]

Published == IF rotated = Never THEN 1 ELSE 2
Goto(r, place) == at' = [at EXCEPT ![r] = place]

-----------------------------------------------------------------------------
(* The reader.  The tenant it was called with may be older than the          *)
(* rotation.                                                                 *)

IssueDates == {0} \cup (IF rotated = Never THEN {} ELSE {rotated})

Hit(r) ==
    /\ at[r] = "idle" /\ cached # Nothing
    /\ bytes' = [bytes EXCEPT ![r] = cached]
    /\ Goto(r, "verifying")
    /\ UNCHANGED <<kind, now, rotated, cache, issued, began, ttl>>

\* The cache is empty, or cannot be read.
Miss(r) ==
    /\ at[r] = "idle"
    /\ \E date \in IssueDates : issued' = [issued EXCEPT ![r] = date]
    /\ began' = [began EXCEPT ![r] = now]
    /\ Goto(r, "fetching")
    /\ UNCHANGED <<kind, now, rotated, cache, bytes, ttl>>

Forget(r) ==
    /\ bytes' = [bytes EXCEPT ![r] = Nothing]
    /\ issued' = [issued EXCEPT ![r] = 0]
    /\ began' = [began EXCEPT ![r] = 0]
    /\ ttl' = [ttl EXCEPT ![r] = 0]

FaultyDaysRemaining(r) == ValidDays - ((now - issued[r]) \div Day)

DaysRemaining(r) == ValidDays - ((now - issued[r]) \div Day) - 1

FaultyTimeToLive(r) == IF kind = "provider" THEN Window ELSE DaysRemaining(r) * Day

TimeToLive(r) ==
    IF kind = "provider" THEN Window ELSE Limit(Least, DaysRemaining(r) * Day)

\* fetch_cert_bytes answers, and the time to live is computed at once: what
\* the write takes is not part of it.
Fetched(r) ==
    /\ at[r] = "fetching"
    /\ bytes' = [bytes EXCEPT ![r] = Published]
    /\ ttl' = [ttl EXCEPT ![r] = TimeToLive(r)]
    /\ Goto(r, "adding")
    /\ UNCHANGED <<kind, now, rotated, cache, issued, began>>

FetchFails(r) ==
    /\ at[r] = "fetching"
    /\ Goto(r, "idle")
    /\ Forget(r)
    /\ UNCHANGED <<kind, now, rotated, cache>>

\* Redis counts the time to live from the write.  What cannot be cached is
\* used all the same.
Add(r) ==
    /\ at[r] = "adding"
    /\ \/ cached' = bytes[r] /\ until' = now + ttl[r]
       \/ UNCHANGED cache
    /\ Goto(r, "verifying")
    /\ UNCHANGED <<kind, now, rotated, bytes, issued, began, ttl>>

\* The token is checked against the certificate.
Verify(r) ==
    /\ at[r] = "verifying"
    /\ Goto(r, "idle")
    /\ Forget(r)
    /\ UNCHANGED <<kind, now, rotated, cache>>

-----------------------------------------------------------------------------
(* Redis, the provider and the clock. *)

Drop ==
    /\ cached # Nothing
    /\ cached' = Nothing
    /\ until' = 0
    /\ UNCHANGED <<kind, now, rotated, at, bytes, issued, began, ttl>>

Rotate ==
    /\ rotated = Never
    /\ rotated' = now
    /\ UNCHANGED <<kind, now, cache, at, bytes, issued, began, ttl>>

\* No time passes between the answer of the cache and its use, and an entry
\* is gone at its end.
Tick ==
    /\ now < MaxTime
    /\ \A r \in Readers :
          /\ at[r] # "verifying"
          /\ at[r] \in {"fetching", "adding"} => now - began[r] < MaxFetch
    /\ cached # Nothing => now + 1 < until
    /\ now' = now + 1
    /\ UNCHANGED <<kind, rotated, cache, at, bytes, issued, began, ttl>>

Next ==
    \/ \E r \in Readers :
          Hit(r) \/ Miss(r) \/ Fetched(r) \/ FetchFails(r) \/ Add(r) \/ Verify(r)
    \/ Drop \/ Rotate \/ Tick

Spec == Init /\ [][Next]_vars

-----------------------------------------------------------------------------
(* Properties. *)

\* The last moment at which the first certificate may still be used: a
\* provider's until its time in the cache is over, "how long a rotation the
\* provider has already performed keeps being rejected"; a tenant's until it
\* ends itself, or the least time of an entry is over.  A fetch that began
\* before the rotation, and a write that began after the time to live was
\* computed, add what they take.
LastUse ==
    MaxFetch + (IF kind = "provider" THEN rotated + Window
                                     ELSE Limit(ValidDays * Day, rotated + Least))

\* A rotation is noticed in time, however many readers race with it.
CertificateLag ==
    \A r \in Readers :
        at[r] = "verifying" /\ bytes[r] = 1 /\ rotated # Never => now < LastUse
=============================================================================
