--------------------------- MODULE EndpointResolver ---------------------------
(***************************************************************************)
(* DelegationTokenEndpointResolver (_delegation/endpoint_resolver.py):     *)
(* finds the token endpoint of a tenant by OIDC discovery and keeps it.    *)
(* One asyncio.Lock serves all tenants: its waiters form a line, the head  *)
(* of which holds it.  A call may be cancelled wherever it waits.          *)
(***************************************************************************)
EXTENDS Naturals, Sequences, SequencesExt

CONSTANTS
    Calls,
    TenantOf,       \* function: the tenant each call asks for
    MaxCancels      \* bound of the cancellations

ResolverAssumption == MaxCancels \in Nat

Tenants == {TenantOf[c] : c \in Calls}

VARIABLES
    discovered,     \* the tenants in _discovered
    line,           \* who holds _lock, and who waits for it
    at,             \* where each call stands
    fallback,       \* BLOCKS_IAM_TOKEN_ENDPOINT is configured
    cancels

vars == <<discovered, line, at, fallback, cancels>>

TypeOK ==
    /\ discovered \subseteq Tenants
    /\ line \in Seq(Calls) /\ IsInjective(line)
    /\ at \in [Calls -> {"called", "queueing", "discovering", "found", "configured",
                         "raised", "cancelled"}]
    /\ fallback \in BOOLEAN
    /\ cancels \in 0 .. MaxCancels

Init ==
    /\ discovered = {}
    /\ line = <<>>
    /\ at = [c \in Calls |-> "called"]
    /\ fallback \in BOOLEAN
    /\ cancels = 0

Goto(c, place) == at' = [at EXCEPT ![c] = place]
Known(c) == TenantOf[c] \in discovered
Holds(c) == line # <<>> /\ Head(line) = c

\* The check without the lock; a miss asks for the lock.
Look(c) ==
    /\ at[c] = "called"
    /\ \/ Known(c) /\ Goto(c, "found") /\ UNCHANGED line
       \/ ~Known(c) /\ Goto(c, "queueing") /\ line' = Append(line, c)
    /\ UNCHANGED <<discovered, fallback, cancels>>

FaultyFoundByOther(c) == FALSE

\* The check under the lock.
FoundByOther(c) == Known(c)

Enter(c) ==
    /\ at[c] = "queueing" /\ Holds(c)
    /\ \/ FoundByOther(c) /\ Goto(c, "found") /\ line' = Tail(line)
       \/ ~FoundByOther(c) /\ Goto(c, "discovering") /\ UNCHANGED line
    /\ UNCHANGED <<discovered, fallback, cancels>>

Discovered(c) ==
    /\ at[c] = "discovering"
    /\ discovered' = discovered \cup {TenantOf[c]}
    /\ Goto(c, "found")
    /\ line' = Tail(line)
    /\ UNCHANGED <<fallback, cancels>>

FaultyReleased == line

\* The end of the async with block.
Released == Tail(line)

\* No base address, a status other than 200, a timeout, no JSON, no endpoint in
\* it or none that is an absolute URL: the lock is released and the configured endpoint
\* answers, which is not kept.
NotDiscovered(c) ==
    /\ at[c] = "discovering"
    /\ line' = Released
    /\ Goto(c, IF fallback THEN "configured" ELSE "raised")
    /\ UNCHANGED <<discovered, fallback, cancels>>

\* The document is JSON but no object, or its endpoint no URL that urlparse
\* accepts: outside the try block of _try_discover_async, so that it raises out
\* of the call and past the configured endpoint.
DiscoveryRaises(c) ==
    /\ at[c] = "discovering"
    /\ line' = Released
    /\ Goto(c, "raised")
    /\ UNCHANGED <<discovered, fallback, cancels>>

Cancel(c) ==
    /\ at[c] \in {"queueing", "discovering"}
    /\ cancels < MaxCancels
    /\ cancels' = cancels + 1
    /\ line' = RemoveFirst(line, c)
    /\ Goto(c, "cancelled")
    /\ UNCHANGED <<discovered, fallback>>

Step(c) ==
    Look(c) \/ Enter(c) \/ Discovered(c) \/ NotDiscovered(c) \/ DiscoveryRaises(c)

Next == \E c \in Calls : Step(c) \/ Cancel(c)

Spec == Init /\ [][Next]_vars

-----------------------------------------------------------------------------
(* Properties. *)

Discovering == {c \in Calls : at[c] = "discovering"}

\* Discoveries run one at a time, over all tenants, and none runs for a
\* tenant whose endpoint is known.
NoRediscovery ==
    /\ \A c, d \in Discovering : c = d
    /\ \A c \in Discovering : Holds(c) /\ ~Known(c)

\* Every call ends, as each discovery is bounded by its timeout.
Waits(c) == at[c] \in {"called", "queueing", "discovering"}
EveryCallEnds == \A c \in Calls : Waits(c) ~> ~Waits(c)
=============================================================================
