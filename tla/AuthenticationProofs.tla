------------------------ MODULE AuthenticationProofs ------------------------
(***************************************************************************)
(* What is proved of Authentication and of the ProviderStore it extends:   *)
(* its type invariant, its three safety invariants, the one of the store,  *)
(* and the bounded staleness of what the store serves.                     *)
(***************************************************************************)
EXTENDS Authentication, FiniteSetTheorems, TLAPS

-----------------------------------------------------------------------------
(* The store.  A running read is the registered one of its tenant, and a     *)
(* registered read is awaited, so the clock cannot pass its end.             *)

\* What ps has and the rows of t have not, or the other way round, changed
\* since that time, or the tenant's rows could not be read.
Explained(ps, t, since) ==
    /\ \A p \in ps : p \in Providers /\ p.tenant = t
    /\ \A p \in ps : p \notin rows => changedAt[p] >= since
    /\ \A p \in rows : p \notin ps /\ p.tenant = t => changedAt[p] >= since \/ failedAt[t] >= since

RunningIsRegistered ==
    \A r \in Requests : read[r].pc = "running" => loads[read[r].tenant] = r
RegisteredIsAwaited ==
    \A t \in Tenants : loads[t] # None => \E q \in Requests : awaits[q] = loads[t]
AwaitedInTime ==
    \A r \in Requests :
        awaits[r] # None => read[awaits[r]].pc # "none" /\ now <= read[awaits[r]].began + ReadTime
ReadsOfTenants ==
    \A r \in Requests : read[r].pc # "none" => read[r].tenant \in Tenants /\ read[r].began <= now
ReadExplained ==
    \A r \in Requests :
        read[r].pc = "done" => Explained(read[r].providers, read[r].tenant, read[r].began)
CacheExplained ==
    \A t \in Tenants :
        cache[t] # None =>
            cache[t].at <= now /\ Explained(cache[t].providers, t, cache[t].at - ReadTime)

FailedBefore == \A t \in Tenants : failedAt[t] <= now

StoreInv ==
    /\ StoreTypeOK
    /\ RunningIsRegistered /\ RegisteredIsAwaited /\ AwaitedInTime /\ ReadsOfTenants
    /\ ReadExplained /\ CacheExplained /\ FailedBefore

\* The types, as the proofs use them.
LEMMA StoreTypes ==
    ASSUME StoreInv
    PROVE  /\ Lifetime \in Nat /\ ReadTime \in Nat /\ MaxTime \in Nat /\ now \in Nat
           /\ now \in Times /\ rows \subseteq Providers
           /\ \A time \in Times : time \in Int
           /\ cache \in [Tenants -> Entries \cup {None}]
           /\ loads \in [Tenants -> Requests \cup {None}]
           /\ read \in [Requests -> Reads]
           /\ awaits \in [Requests -> Requests \cup {None}]
           /\ served \in [Requests -> (SUBSET Providers) \cup {None}]
           /\ changedAt \in [Providers -> Times] /\ failedAt \in [Tenants -> Times]
           /\ None \notin Requests /\ None \notin Tenants /\ None \notin Providers
BY StoreAssumption DEF StoreInv, StoreTypeOK, Times, LongAgo

LEMMA ReadFields ==
    ASSUME NEW x \in Reads
    PROVE  /\ x.pc \in {"none", "running", "done", "cancelled"}
           /\ x.tenant \in Tenants \cup {None}
           /\ x.providers \subseteq Providers /\ x.began \in Times
BY DEF Reads

LEMMA EntryFields ==
    ASSUME NEW x \in Entries PROVE x.providers \subseteq Providers /\ x.at \in Times
BY DEF Entries

LEMMA StoreStart == StoreInit => StoreInv
<1> SUFFICES ASSUME StoreInit PROVE StoreInv OBVIOUS
<1> USE DEF StoreInit
<1>1. Lifetime \in Nat /\ ReadTime \in Nat /\ MaxTime \in Nat /\ MaxChanges \in Nat
  BY StoreAssumption
<1>2. LongAgo \in Times /\ 0 \in Times BY <1>1 DEF Times, LongAgo
<1>3. NoRead \in Reads BY <1>2 DEF NoRead, Reads
<1>4. StoreTypeOK
  <2>1. now = 0 /\ rows = Providers /\ changes = 0 OBVIOUS
  <2>a. cache \in [Tenants -> Entries \cup {None}] OBVIOUS
  <2>b. loads \in [Tenants -> Requests \cup {None}] OBVIOUS
  <2>c. awaits \in [Requests -> Requests \cup {None}] OBVIOUS
  <2>d. served \in [Requests -> (SUBSET Providers) \cup {None}]
    <3> DEFINE S == (SUBSET Providers) \cup {None}
    <3>1. None \in S OBVIOUS
    <3> HIDE DEF S
    <3>2. served \in [Requests -> S] BY <3>1
    <3> QED BY <3>2 DEF S
  <2>3. read \in [Requests -> Reads] BY <1>3
  <2>4. changedAt \in [Providers -> Times] /\ failedAt \in [Tenants -> Times] BY <1>2
  <2>5. \A t \in Tenants : loads[t] = None OBVIOUS
  <2>6. 0 \in 0 .. MaxTime /\ 0 \in 0 .. MaxChanges BY <1>1
  <2> HIDE DEF StoreInit
  <2> QED BY <2>1, <2>a, <2>b, <2>c, <2>d, <2>3, <2>4, <2>5, <2>6 DEF StoreTypeOK
<1>5. \A r \in Requests : read[r].pc = "none" BY DEF NoRead
<1>6. FailedBefore BY <1>1 DEF FailedBefore, LongAgo
<1> QED BY <1>4, <1>5, <1>6
  DEF StoreInv, RunningIsRegistered, RegisteredIsAwaited, AwaitedInTime, ReadsOfTenants,
      ReadExplained, CacheExplained

\* Where the rows and what is remembered of them stay, so do the reasons.
LEMMA ExplainedKept ==
    ASSUME UNCHANGED <<rows, changedAt, failedAt>>, NEW ps, NEW t, NEW since, Explained(ps, t, since)
    PROVE  Explained(ps, t, since)'
BY DEF Explained

LEMMA ChangePreserves ==
    ASSUME StoreInv, NEW p \in Providers, Change(p) PROVE StoreInv'
<1> USE DEF Change
<1>1. StoreTypeOK'
  <2>1. now \in Times /\ MaxChanges \in Nat BY StoreTypes, StoreAssumption
  <2> QED BY <2>1 DEF StoreInv, StoreTypeOK
<1>2. ASSUME NEW ps, NEW t \in Tenants, NEW since \in Int, since <= now, Explained(ps, t, since)
      PROVE  Explained(ps, t, since)'
  <2>1. /\ changedAt'[p] = now /\ now \in Int
        /\ \A q \in Providers \ {p} : changedAt'[q] = changedAt[q] /\ (q \in rows' <=> q \in rows)
        /\ rows \subseteq Providers /\ rows' \subseteq Providers
    BY StoreTypes
  <2> QED BY <1>2, <2>1 DEF Explained
<1>3. ReadExplained'
  <2> SUFFICES ASSUME NEW r \in Requests, read[r].pc = "done"
               PROVE  Explained(read[r].providers, read[r].tenant, read[r].began)'
    BY DEF ReadExplained
  <2>1. read[r].tenant \in Tenants /\ read[r].began \in Int /\ read[r].began <= now
    BY StoreTypes, ReadFields DEF StoreInv, ReadsOfTenants
  <2>2. Explained(read[r].providers, read[r].tenant, read[r].began) BY DEF StoreInv, ReadExplained
  <2> QED BY <2>1, <2>2, <1>2
<1>4. CacheExplained'
  <2> SUFFICES ASSUME NEW t \in Tenants, cache[t] # None
               PROVE  cache[t].at <= now /\ Explained(cache[t].providers, t, cache[t].at - ReadTime)'
    BY DEF CacheExplained
  <2>1. cache[t].at \in Int /\ cache[t].at <= now /\ ReadTime \in Nat /\ now \in Nat
    BY StoreTypes, EntryFields DEF StoreInv, CacheExplained
  <2>2. cache[t].at - ReadTime \in Int /\ cache[t].at - ReadTime <= now BY <2>1
  <2>3. Explained(cache[t].providers, t, cache[t].at - ReadTime)
    BY DEF StoreInv, CacheExplained
  <2> QED BY <2>1, <2>2, <2>3, <1>2
<1>5. /\ RunningIsRegistered' /\ RegisteredIsAwaited' /\ AwaitedInTime' /\ ReadsOfTenants'
      /\ FailedBefore'
  BY DEF StoreInv, RunningIsRegistered, RegisteredIsAwaited, AwaitedInTime, ReadsOfTenants,
         FailedBefore
<1> QED BY <1>1, <1>3, <1>4, <1>5 DEF StoreInv

LEMMA TickPreserves ==
    ASSUME StoreInv, Tick PROVE StoreInv'
<1> USE DEF Tick
<1>0. MaxTime \in Nat /\ now \in Nat /\ ReadTime \in Nat BY StoreTypes
<1>1. StoreTypeOK' BY <1>0 DEF StoreInv, StoreTypeOK
<1>2. AwaitedInTime'
  <2> SUFFICES ASSUME NEW r \in Requests, awaits[r] # None
               PROVE  read[awaits[r]].pc # "none" /\ now + 1 <= read[awaits[r]].began + ReadTime
    BY DEF AwaitedInTime
  <2>1. awaits[r] \in Requests /\ read[awaits[r]] \in Reads BY StoreTypes
  <2>2. read[awaits[r]].began \in Int BY <2>1, StoreTypes, ReadFields
  <2>3. read[awaits[r]].pc # "none" BY DEF StoreInv, AwaitedInTime
  <2>4. ~(now >= read[awaits[r]].began + ReadTime) BY DEF Overdue
  <2> QED BY <2>2, <2>3, <2>4, <1>0
<1>3. ReadsOfTenants'
  <2> SUFFICES ASSUME NEW r \in Requests, read[r].pc # "none"
               PROVE  read[r].tenant \in Tenants /\ read[r].began <= now + 1
    BY DEF ReadsOfTenants
  <2>1. read[r].began \in Int BY StoreTypes, ReadFields
  <2>2. read[r].tenant \in Tenants /\ read[r].began <= now BY DEF StoreInv, ReadsOfTenants
  <2> QED BY <2>1, <2>2, <1>0
<1>4. ReadExplained' BY ExplainedKept DEF StoreInv, ReadExplained, Explained
<1>5. CacheExplained'
  <2> SUFFICES ASSUME NEW t \in Tenants, cache[t] # None
               PROVE  /\ cache[t].at <= now + 1
                      /\ Explained(cache[t].providers, t, cache[t].at - ReadTime)'
    BY DEF CacheExplained
  <2>1. cache[t].at \in Int BY StoreTypes, EntryFields
  <2>2. cache[t].at <= now /\ Explained(cache[t].providers, t, cache[t].at - ReadTime)
    BY DEF StoreInv, CacheExplained
  <2>3. Explained(cache[t].providers, t, cache[t].at - ReadTime)' BY <2>2 DEF Explained
  <2> QED BY <2>1, <2>2, <2>3, <1>0
<1>6. RunningIsRegistered' /\ RegisteredIsAwaited'
  BY DEF StoreInv, RunningIsRegistered, RegisteredIsAwaited
<1>7. FailedBefore'
  <2> SUFFICES ASSUME NEW t \in Tenants PROVE failedAt[t] <= now + 1 BY DEF FailedBefore
  <2>1. failedAt[t] \in Int /\ failedAt[t] <= now BY StoreTypes DEF StoreInv, FailedBefore
  <2> QED BY <2>1, <1>0
<1> QED BY <1>1, <1>2, <1>3, <1>4, <1>5, <1>6, <1>7 DEF StoreInv

\* A read that goes on to end: done with these providers, or cancelled.
LEMMA ReadEnds ==
    ASSUME StoreInv, NEW r \in Requests, NEW x \in Reads,
           read[r].pc = "running", x.pc \in {"done", "cancelled"},
           x.tenant = read[r].tenant, x.began = read[r].began,
           read' = [read EXCEPT ![r] = x],
           UNCHANGED <<now, rows, cache, loads, awaits, served, changedAt, changes>>,
           failedAt' \in [Tenants -> Times],
           \A t \in Tenants : failedAt'[t] >= failedAt[t] /\ failedAt'[t] <= now,
           x.pc = "done" => Explained(x.providers, x.tenant, x.began)'
    PROVE  StoreInv'
<1>1. /\ read \in [Requests -> Reads] /\ read'[r] = x /\ read' \in [Requests -> Reads]
      /\ \A q \in Requests \ {r} : read'[q] = read[q]
  BY StoreTypes
<1>2. StoreTypeOK' BY <1>1 DEF StoreInv, StoreTypeOK
<1>3. RunningIsRegistered' BY <1>1 DEF StoreInv, RunningIsRegistered
<1>4. RegisteredIsAwaited' BY DEF StoreInv, RegisteredIsAwaited
<1>5. AwaitedInTime'
  <2> SUFFICES ASSUME NEW q \in Requests, awaits[q] # None
               PROVE  read'[awaits[q]].pc # "none" /\ now <= read'[awaits[q]].began + ReadTime
    BY DEF AwaitedInTime
  <2>1. awaits[q] \in Requests BY StoreTypes
  <2>2. read[awaits[q]].pc # "none" /\ now <= read[awaits[q]].began + ReadTime
    BY DEF StoreInv, AwaitedInTime
  <2> QED BY <1>1, <2>1, <2>2
<1>6. ReadsOfTenants' BY <1>1 DEF StoreInv, ReadsOfTenants
<1>7. ASSUME NEW ps, NEW t \in Tenants, NEW since \in Int, Explained(ps, t, since)
      PROVE  Explained(ps, t, since)'
  <2>1. /\ failedAt[t] \in Int /\ failedAt'[t] \in Int
        /\ failedAt'[t] >= failedAt[t]
    BY StoreTypes
  <2> QED BY <1>7, <2>1 DEF Explained
<1>8. ReadExplained'
  <2> SUFFICES ASSUME NEW q \in Requests, read'[q].pc = "done"
               PROVE  Explained(read[q].providers, read[q].tenant, read[q].began)'
    BY DEF ReadExplained
  <2>1. CASE q = r
    <3>1. Explained(x.providers, x.tenant, x.began)' BY <2>1, <1>1
    <3> QED BY <2>1, <3>1, <1>1 DEF Explained
  <2>2. CASE q # r
    <3>1. read'[q] = read[q] /\ read[q].tenant \in Tenants /\ read[q].began \in Int
      BY <2>2, <1>1, StoreTypes, ReadFields DEF StoreInv, ReadsOfTenants
    <3>2. Explained(read[q].providers, read[q].tenant, read[q].began)
      BY <3>1 DEF StoreInv, ReadExplained
    <3>3. Explained(read[q].providers, read[q].tenant, read[q].began)' BY <3>1, <3>2, <1>7
    <3>4. read'[q] = read[q] BY <3>1
    <3> QED BY <3>3, <3>4 DEF Explained
  <2> QED BY <2>1, <2>2
<1>9. CacheExplained'
  <2> SUFFICES ASSUME NEW t \in Tenants, cache[t] # None
               PROVE  cache[t].at <= now /\ Explained(cache[t].providers, t, cache[t].at - ReadTime)'
    BY DEF CacheExplained
  <2>1. cache[t].at - ReadTime \in Int
    <3>1. cache[t].at \in Int /\ ReadTime \in Nat BY StoreTypes, EntryFields
    <3> QED BY <3>1
  <2>2. cache[t].at <= now /\ Explained(cache[t].providers, t, cache[t].at - ReadTime)
    BY DEF StoreInv, CacheExplained
  <2> QED BY <2>1, <2>2, <1>7
<1>10. FailedBefore' BY DEF FailedBefore
<1> QED BY <1>2, <1>3, <1>4, <1>5, <1>6, <1>8, <1>9, <1>10 DEF StoreInv

LEMMA LoadPreserves ==
    ASSUME StoreInv, NEW r \in Requests, Load(r) PROVE StoreInv'
<1> USE DEF Load
<1> DEFINE t == read[r].tenant
           mine == {p \in rows : p.tenant = t}
           x(ps) == [read[r] EXCEPT !.pc = "done", !.providers = ps]
<1>1. /\ read \in [Requests -> Reads] /\ read[r] \in Reads /\ read[r].pc = "running"
      /\ rows \subseteq Providers /\ now \in Times /\ failedAt \in [Tenants -> Times]
  BY StoreTypes
<1>2. t \in Tenants /\ read[r].began <= now /\ read[r].began \in Int /\ now \in Int
  BY <1>1, StoreTypes, ReadFields DEF StoreInv, ReadsOfTenants
<1>3. ASSUME NEW ps \in SUBSET Providers
      PROVE  /\ x(ps) \in Reads /\ x(ps).pc = "done" /\ x(ps).tenant = t
             /\ x(ps).began = read[r].began /\ x(ps).providers = ps
  BY <1>1 DEF Reads
<1>4. mine \subseteq Providers /\ {} \subseteq Providers BY <1>1
<1>5. \/ read' = [read EXCEPT ![r] = x(mine)] /\ failedAt' = failedAt
      \/ read' = [read EXCEPT ![r] = x({})] /\ failedAt' = [failedAt EXCEPT ![t] = now]
  BY <1>1
<1>6. \A q \in Tenants : failedAt[q] <= now /\ failedAt[q] \in Int
  BY <1>1, StoreTypes DEF StoreInv, FailedBefore
<1>7. UNCHANGED <<now, rows, cache, loads, awaits, served, changedAt, changes>> OBVIOUS
<1>8. CASE read' = [read EXCEPT ![r] = x(mine)] /\ failedAt' = failedAt
  <2>1. PICK y \in Reads : y = x(mine) BY <1>3, <1>4
  <2>2. /\ y.pc = "done" /\ y.tenant = t /\ y.began = read[r].began /\ y.providers = mine
    BY <2>1, <1>3, <1>4
  <2>3. read' = [read EXCEPT ![r] = y] BY <2>1, <1>8
  <2> HIDE DEF x
  <2>4. Explained(y.providers, y.tenant, y.began)'
    <3>1. \A p : p \in y.providers <=> p \in rows /\ p.tenant = y.tenant BY <2>2
    <3>2. rows' = rows /\ rows \subseteq Providers BY <1>1, <1>7
    <3> HIDE DEF mine
    <3> QED BY <3>1, <3>2 DEF Explained
  <2>5. /\ failedAt' \in [Tenants -> Times]
        /\ \A q \in Tenants : failedAt'[q] >= failedAt[q] /\ failedAt'[q] <= now
    BY <1>1, <1>6, <1>8
  <2> HIDE DEF mine
  <2> QED BY <2>2, <2>3, <2>4, <2>5, <1>1, <1>7, ReadEnds
<1>9. CASE read' = [read EXCEPT ![r] = x({})] /\ failedAt' = [failedAt EXCEPT ![t] = now]
  <2>1. PICK y \in Reads : y = x({}) BY <1>3, <1>4
  <2>2. /\ y.pc = "done" /\ y.tenant = t /\ y.began = read[r].began /\ y.providers = {}
    BY <2>1, <1>3, <1>4
  <2>3. read' = [read EXCEPT ![r] = y] BY <2>1, <1>9
  <2> HIDE DEF x, mine
  <2>4. Explained(y.providers, y.tenant, y.began)'
    <3>1. failedAt'[y.tenant] = now /\ now >= y.began BY <2>2, <1>1, <1>2, <1>9
    <3> QED BY <3>1, <2>2 DEF Explained
  <2>5. /\ failedAt' \in [Tenants -> Times]
        /\ \A q \in Tenants : failedAt'[q] >= failedAt[q] /\ failedAt'[q] <= now
    BY <1>1, <1>2, <1>6, <1>9
  <2> QED BY <2>2, <2>3, <2>4, <2>5, <1>1, <1>7, ReadEnds
<1> HIDE DEF x, mine
<1> QED BY <1>5, <1>8, <1>9

\* A registered read is under way or has ended, in its tenant.
LEMMA Registered ==
    ASSUME StoreInv, NEW t \in Tenants, loads[t] # None
    PROVE  /\ loads[t] \in Requests /\ read[loads[t]].tenant = t
           /\ read[loads[t]].pc # "none" /\ now <= read[loads[t]].began + ReadTime
<1>1. loads[t] \in Requests /\ read[loads[t]].tenant = t
  BY StoreTypes DEF StoreInv, StoreTypeOK
<1>2. PICK q \in Requests : awaits[q] = loads[t] BY DEF StoreInv, RegisteredIsAwaited
<1>3. read[loads[t]].pc # "none" /\ now <= read[loads[t]].began + ReadTime
  BY <1>1, <1>2, StoreTypes DEF StoreInv, AwaitedInTime
<1> QED BY <1>1, <1>3

LEMMA MissPreserves ==
    ASSUME StoreInv, NEW r \in Requests, NEW t \in Tenants, GetActiveMiss(r, t),
           awaits[r] = None, read[r].pc = "none"
    PROVE  StoreInv'
<1> USE DEF GetActiveMiss, Joined
<1>1. /\ loads \in [Tenants -> Requests \cup {None}] /\ awaits \in [Requests -> Requests \cup {None}]
      /\ read \in [Requests -> Reads] /\ None \notin Requests /\ now \in Times /\ now \in Int
      /\ ReadTime \in Nat
  BY StoreTypes
<1>2. UNCHANGED <<now, rows, cache, served, changedAt, failedAt, changes>> OBVIOUS
<1>3. CacheExplained' /\ FailedBefore'
  BY <1>2 DEF StoreInv, CacheExplained, Explained, FailedBefore
<1>4. CASE loads[t] # None
  <2>1. awaits' = [awaits EXCEPT ![r] = loads[t]] /\ loads' = loads /\ read' = read
    BY <1>4
  <2>2. /\ loads[t] \in Requests /\ read[loads[t]].pc # "none"
        /\ now <= read[loads[t]].began + ReadTime
    BY <1>4, Registered
  <2>3. StoreTypeOK'
    <3>1. awaits' \in [Requests -> Requests \cup {None}] BY <2>1, <2>2, <1>1
    <3> QED BY <3>1, <2>1, <1>2 DEF StoreInv, StoreTypeOK
  <2>4. RunningIsRegistered' BY <2>1 DEF StoreInv, RunningIsRegistered
  <2>5. RegisteredIsAwaited'
    <3> SUFFICES ASSUME NEW u \in Tenants, loads[u] # None
                 PROVE  \E q \in Requests : awaits'[q] = loads[u]
      BY <2>1 DEF RegisteredIsAwaited
    <3>1. PICK q \in Requests : awaits[q] = loads[u] BY DEF StoreInv, RegisteredIsAwaited
    <3>2. awaits'[q] = loads[u] BY <3>1, <2>1, <1>1
    <3> QED BY <3>2
  <2>6. AwaitedInTime' BY <2>1, <2>2, <1>1, <1>2 DEF StoreInv, AwaitedInTime
  <2>7. ReadsOfTenants' BY <2>1, <1>2 DEF StoreInv, ReadsOfTenants
  <2>8. ReadExplained' BY <2>1, <1>2 DEF StoreInv, ReadExplained, Explained
  <2> QED BY <2>3, <2>4, <2>5, <2>6, <2>7, <2>8, <1>3 DEF StoreInv
<1>5. CASE loads[t] = None
  <2> DEFINE x == [pc |-> "running", tenant |-> t, providers |-> {}, began |-> now]
  <2>1. /\ awaits' = [awaits EXCEPT ![r] = r] /\ loads' = [loads EXCEPT ![t] = r]
        /\ read' = [read EXCEPT ![r] = x]
    BY <1>5
  <2>2. x \in Reads /\ x.pc = "running" /\ x.tenant = t /\ x.began = now BY <1>1 DEF Reads
  <2> HIDE DEF x
  <2>3. read'[r] = x /\ \A q \in Requests \ {r} : read'[q] = read[q] BY <2>1, <1>1
  <2>4. \A u \in Tenants : loads[u] # r
    <3> SUFFICES ASSUME NEW u \in Tenants, loads[u] = r PROVE FALSE OBVIOUS
    <3>1. loads[u] # None BY <1>1
    <3> QED BY <3>1, Registered
  <2>5. StoreTypeOK'
    <3>1. /\ read' \in [Requests -> Reads] /\ awaits' \in [Requests -> Requests \cup {None}]
          /\ loads' \in [Tenants -> Requests \cup {None}]
      BY <2>1, <2>2, <1>1
    <3>2. ASSUME NEW u \in Tenants, loads'[u] # None PROVE read'[loads'[u]].tenant = u
      <4>1. CASE u = t BY <4>1, <2>1, <2>2, <2>3, <1>1
      <4>2. CASE u # t
        <5>1. loads'[u] = loads[u] /\ loads[u] \in Requests \ {r} /\ read[loads[u]].tenant = u
          BY <4>2, <3>2, <2>1, <2>4, <1>1, Registered
        <5> QED BY <5>1, <2>3
      <4> QED BY <4>1, <4>2
    <3> QED BY <3>1, <3>2, <1>2 DEF StoreInv, StoreTypeOK
  <2>6. RunningIsRegistered'
    <3> SUFFICES ASSUME NEW q \in Requests, read'[q].pc = "running"
                 PROVE  loads'[read'[q].tenant] = q
      BY DEF RunningIsRegistered
    <3>1. CASE q = r BY <3>1, <2>1, <2>2, <2>3, <1>1
    <3>2. CASE q # r
      <4>1. read'[q] = read[q] /\ read[q].tenant \in Tenants /\ loads[read[q].tenant] = q
        BY <3>2, <2>3 DEF StoreInv, RunningIsRegistered, ReadsOfTenants
      <4>2. read[q].tenant # t BY <4>1, <1>1, <1>5
      <4> QED BY <4>1, <4>2, <2>1, <1>1
    <3> QED BY <3>1, <3>2
  <2>7. RegisteredIsAwaited'
    <3> SUFFICES ASSUME NEW u \in Tenants, loads'[u] # None
                 PROVE  \E q \in Requests : awaits'[q] = loads'[u]
      BY DEF RegisteredIsAwaited
    <3>1. CASE u = t BY <3>1, <2>1, <1>1
    <3>2. CASE u # t
      <4>1. loads'[u] = loads[u] /\ loads[u] # None BY <3>2, <2>1, <1>1
      <4>2. PICK q \in Requests : awaits[q] = loads[u] BY <4>1 DEF StoreInv, RegisteredIsAwaited
      <4>3. awaits'[q] = loads'[u] BY <4>1, <4>2, <2>1, <1>1
      <4> QED BY <4>3
    <3> QED BY <3>1, <3>2
  <2>8. AwaitedInTime'
    <3> SUFFICES ASSUME NEW q \in Requests, awaits'[q] # None
                 PROVE  read'[awaits'[q]].pc # "none" /\ now <= read'[awaits'[q]].began + ReadTime
      BY <1>2 DEF AwaitedInTime
    <3>1. CASE q = r BY <3>1, <2>1, <2>2, <2>3, <1>1
    <3>2. CASE q # r
      <4>1. awaits'[q] = awaits[q] /\ awaits[q] \in Requests BY <3>2, <2>1, <1>1
      <4>2. read[awaits[q]].pc # "none" /\ now <= read[awaits[q]].began + ReadTime
        BY <4>1, <1>1 DEF StoreInv, AwaitedInTime
      <4>3. awaits[q] # r BY <4>2
      <4> QED BY <4>1, <4>2, <4>3, <2>3
    <3> QED BY <3>1, <3>2
  <2>9. ReadsOfTenants' BY <2>2, <2>3, <1>1, <1>2 DEF StoreInv, ReadsOfTenants
  <2>10. ReadExplained'
    <3> SUFFICES ASSUME NEW q \in Requests, read'[q].pc = "done"
                 PROVE  Explained(read[q].providers, read[q].tenant, read[q].began)'
      BY DEF ReadExplained
    <3>1. q # r /\ read'[q] = read[q] BY <2>2, <2>3
    <3>2. Explained(read[q].providers, read[q].tenant, read[q].began)
      BY <3>1 DEF StoreInv, ReadExplained
    <3> QED BY <3>1, <3>2, <1>2 DEF Explained
  <2> QED BY <2>5, <2>6, <2>7, <2>8, <2>9, <2>10, <1>3 DEF StoreInv
<1> QED BY <1>4, <1>5

\* A request that stops awaiting a read that has ended.
LEMMA StopPreserves ==
    ASSUME StoreInv, NEW r \in Requests, StopAwaiting(r),
           awaits[r] # None, read[awaits[r]].pc # "running",
           UNCHANGED <<now, rows, changedAt, failedAt, changes>>,
           served' \in [Requests -> (SUBSET Providers) \cup {None}],
           cache' \in [Tenants -> Entries \cup {None}],
           CacheExplained'
    PROVE  StoreInv'
<1> DEFINE on == awaits[r]
           t == read[on].tenant
<1>1. /\ loads \in [Tenants -> Requests \cup {None}] /\ awaits \in [Requests -> Requests \cup {None}]
      /\ read \in [Requests -> Reads] /\ None \notin Requests
  BY StoreTypes
<1>2. on \in Requests /\ read[on].pc # "none" /\ t \in Tenants
  BY <1>1 DEF StoreInv, AwaitedInTime, ReadsOfTenants
<1>3. /\ loads' = IF loads[t] = on THEN [loads EXCEPT ![t] = None] ELSE loads
      /\ awaits' = [awaits EXCEPT ![r] = None]
      /\ read' = IF on \in {awaits[q] : q \in Requests \ {r}} THEN read ELSE [read EXCEPT ![on] = NoRead]
  BY DEF StopAwaiting
<1>4. NoRead.pc = "none" /\ NoRead \in Reads
  <2>1. 0 \in Times BY StoreAssumption DEF Times, LongAgo
  <2> QED BY <2>1 DEF NoRead, Reads
<1>5. read[on].pc # "running" OBVIOUS
<1> HIDE DEF on
<1>6. \A q \in Requests : q # on => read'[q] = read[q] BY <1>1, <1>2, <1>3
<1>7. \A q \in Requests : read'[q].pc # "none" => read'[q] = read[q] BY <1>1, <1>2, <1>3, <1>4
<1>8. \A u \in Tenants : loads'[u] # None => loads'[u] = loads[u] /\ loads[u] # on
  <2> SUFFICES ASSUME NEW u \in Tenants, loads'[u] # None
               PROVE  loads'[u] = loads[u] /\ loads[u] # on
    OBVIOUS
  <2>1. loads'[u] = loads[u] BY <1>1, <1>2, <1>3
  <2>2. loads[u] = on => u = t BY <2>1, Registered
  <2>3. loads[t] = on => loads'[t] = None BY <1>1, <1>2, <1>3
  <2> QED BY <2>1, <2>2, <2>3
<1>9. StoreTypeOK'
  <2>1. /\ loads' \in [Tenants -> Requests \cup {None}] /\ awaits' \in [Requests -> Requests \cup {None}]
    BY <1>1, <1>2, <1>3
  <2>2. read' \in [Requests -> Reads] BY <1>1, <1>2, <1>3, <1>4
  <2>3. ASSUME NEW u \in Tenants, loads'[u] # None PROVE read'[loads'[u]].tenant = u
    <3>1. loads'[u] = loads[u] /\ loads[u] # on BY <2>3, <1>8
    <3>2. loads[u] \in Requests /\ read[loads[u]].tenant = u BY <2>3, <3>1, Registered
    <3> QED BY <3>1, <3>2, <1>6
  <2> QED BY <2>1, <2>2, <2>3 DEF StoreInv, StoreTypeOK
<1>10. RunningIsRegistered'
  <2> SUFFICES ASSUME NEW q \in Requests, read'[q].pc = "running"
               PROVE  loads'[read'[q].tenant] = q
    BY DEF RunningIsRegistered
  <2>1. /\ read'[q] = read[q] /\ q # on /\ read[q].tenant \in Tenants
        /\ loads[read[q].tenant] = q
    BY <1>5, <1>7 DEF StoreInv, RunningIsRegistered, ReadsOfTenants
  <2> QED BY <2>1, <1>1, <1>2, <1>3
<1>11. RegisteredIsAwaited'
  <2> SUFFICES ASSUME NEW u \in Tenants, loads'[u] # None
               PROVE  \E q \in Requests : awaits'[q] = loads'[u]
    BY DEF RegisteredIsAwaited
  <2>1. loads'[u] = loads[u] /\ loads[u] # on BY <1>8
  <2>2. PICK q \in Requests : awaits[q] = loads[u] BY <2>1 DEF StoreInv, RegisteredIsAwaited
  <2>3. awaits'[q] = loads'[u] BY <2>1, <2>2, <1>1, <1>3 DEF on
  <2> QED BY <2>3
<1>12. AwaitedInTime'
  <2> SUFFICES ASSUME NEW q \in Requests, awaits'[q] # None
               PROVE  read'[awaits'[q]].pc # "none" /\ now <= read'[awaits'[q]].began + ReadTime
    BY DEF AwaitedInTime
  <2>1. q # r /\ awaits'[q] = awaits[q] /\ awaits[q] \in Requests BY <1>1, <1>3
  <2>2. read[awaits[q]].pc # "none" /\ now <= read[awaits[q]].began + ReadTime
    BY <2>1, <1>1 DEF StoreInv, AwaitedInTime
  <2>3. read'[awaits[q]] = read[awaits[q]]
    <3>1. CASE awaits[q] = on BY <3>1, <2>1, <1>3
    <3>2. CASE awaits[q] # on BY <3>2, <2>1, <1>6
    <3> QED BY <3>1, <3>2
  <2> QED BY <2>1, <2>2, <2>3
<1>13. ReadsOfTenants' BY <1>7 DEF StoreInv, ReadsOfTenants
<1>14. ReadExplained'
  <2> SUFFICES ASSUME NEW q \in Requests, read'[q].pc = "done"
               PROVE  Explained(read[q].providers, read[q].tenant, read[q].began)'
    BY DEF ReadExplained
  <2>1. read'[q] = read[q] BY <1>7
  <2>2. Explained(read[q].providers, read[q].tenant, read[q].began)
    BY <2>1 DEF StoreInv, ReadExplained
  <2> QED BY <2>1, <2>2 DEF Explained
<1>15. FailedBefore' BY DEF StoreInv, FailedBefore
<1> QED BY <1>9, <1>10, <1>11, <1>12, <1>13, <1>14, <1>15 DEF StoreInv

\* A done read that is awaited explains what is filed of it as of now.
LEMMA Filed ==
    ASSUME StoreInv, NEW r \in Requests, awaits[r] # None, read[awaits[r]].pc = "done"
    PROVE  /\ awaits[r] \in Requests /\ read[awaits[r]].tenant \in Tenants
           /\ read[awaits[r]].providers \subseteq Providers
           /\ Explained(read[awaits[r]].providers, read[awaits[r]].tenant, now - ReadTime)
<1> DEFINE on == awaits[r]
<1>1. on \in Requests /\ read[on] \in Reads BY StoreTypes
<1>2. /\ read[on].tenant \in Tenants /\ read[on].providers \subseteq Providers
      /\ read[on].began \in Int /\ now \in Int /\ ReadTime \in Nat
      /\ now <= read[on].began + ReadTime
  BY <1>1, StoreTypes, ReadFields DEF StoreInv, ReadsOfTenants, AwaitedInTime
<1>3. Explained(read[on].providers, read[on].tenant, read[on].began)
  BY <1>1 DEF StoreInv, ReadExplained
<1>4. /\ \A p \in Providers : changedAt[p] \in Int
      /\ failedAt[read[on].tenant] \in Int /\ rows \subseteq Providers
  BY <1>2, StoreTypes
<1> HIDE DEF on
<1>5. Explained(read[on].providers, read[on].tenant, now - ReadTime)
  BY <1>2, <1>3, <1>4 DEF Explained
<1> QED BY <1>1, <1>2, <1>5 DEF on

LEMMA ReturnPreserves ==
    ASSUME StoreInv, NEW r \in Requests, GetActiveReturns(r) PROVE StoreInv'
<1> USE DEF GetActiveReturns
<1> DEFINE on == awaits[r]
           t == read[on].tenant
           got == read[on].providers
           x == [providers |-> got, at |-> now]
<1>1. /\ on \in Requests /\ t \in Tenants /\ got \subseteq Providers
      /\ Explained(got, t, now - ReadTime)
  BY Filed
<1>2. x \in Entries /\ x.at = now /\ x.providers = got
  BY <1>1, StoreTypes DEF Entries
<1>3. served' = [served EXCEPT ![r] = got] /\ cache' = [cache EXCEPT ![t] = x] OBVIOUS
<1>4. UNCHANGED <<now, rows, changedAt, failedAt, changes>> OBVIOUS
<1> HIDE DEF x, got, t, on
<1>5. served' \in [Requests -> (SUBSET Providers) \cup {None}]
  <2> DEFINE S == (SUBSET Providers) \cup {None}
  <2>1. got \in S /\ served \in [Requests -> S] BY <1>1, StoreTypes
  <2> HIDE DEF S
  <2>2. served' \in [Requests -> S] BY <2>1, <1>3
  <2> QED BY <2>2 DEF S
<1>6. cache' \in [Tenants -> Entries \cup {None}] BY <1>2, <1>3, StoreTypes
<1>7. CacheExplained'
  <2> SUFFICES ASSUME NEW u \in Tenants, cache'[u] # None
               PROVE  /\ cache'[u].at <= now
                      /\ Explained(cache'[u].providers, u, cache'[u].at - ReadTime)
    BY <1>4 DEF CacheExplained, Explained
  <2>1. CASE u = t
    <3>1. cache'[u] = x BY <2>1, <1>1, <1>3, StoreTypes
    <3>2. now <= now BY StoreTypes
    <3> QED BY <2>1, <3>1, <3>2, <1>1, <1>2
  <2>2. CASE u # t
    <3>1. cache'[u] = cache[u] BY <2>2, <1>3, StoreTypes
    <3> QED BY <3>1 DEF StoreInv, CacheExplained
  <2> QED BY <2>1, <2>2
<1> QED BY <1>4, <1>5, <1>6, <1>7, StopPreserves

\* What leaves the cache leaves its reasons.
LEMMA CacheKept ==
    ASSUME StoreInv, UNCHANGED <<now, rows, cache, changedAt, failedAt>> PROVE CacheExplained'
BY DEF StoreInv, CacheExplained, Explained

LEMMA RaisePreserves ==
    ASSUME StoreInv, NEW r \in Requests, GetActiveRaises(r) PROVE StoreInv'
<1>1. CacheExplained' BY CacheKept DEF GetActiveRaises
<1>2. /\ cache' \in [Tenants -> Entries \cup {None}]
      /\ served' \in [Requests -> (SUBSET Providers) \cup {None}]
  BY StoreTypes DEF GetActiveRaises
<1> QED BY <1>1, <1>2, StopPreserves DEF GetActiveRaises

LEMMA CancelReturnPreserves ==
    ASSUME StoreInv, NEW r \in Requests, CancelReturn(r) PROVE StoreInv'
<1>1. CacheExplained' BY CacheKept DEF CancelReturn
<1>2. /\ cache' \in [Tenants -> Entries \cup {None}]
      /\ served' \in [Requests -> (SUBSET Providers) \cup {None}]
  BY StoreTypes DEF CancelReturn
<1> QED BY <1>1, <1>2, StopPreserves DEF CancelReturn

LEMMA CancelReadPreserves ==
    ASSUME StoreInv, NEW r \in Requests, CancelRead(r) PROVE StoreInv'
<1> USE DEF CancelRead
<1>1. awaits[r] \in Requests /\ read[awaits[r]] \in Reads /\ read \in [Requests -> Reads]
  BY StoreTypes
<1>2. PICK x \in Reads : x = [read[awaits[r]] EXCEPT !.pc = "cancelled"] BY <1>1 DEF Reads
<1>3. /\ x.pc = "cancelled" /\ x.tenant = read[awaits[r]].tenant
      /\ x.began = read[awaits[r]].began
  BY <1>1, <1>2 DEF Reads
<1>4. read' = [read EXCEPT ![awaits[r]] = x] BY <1>1, <1>2
<1>5. /\ failedAt' \in [Tenants -> Times]
      /\ \A t \in Tenants : failedAt'[t] >= failedAt[t] /\ failedAt'[t] <= now
  <2>1. failedAt' = failedAt /\ \A t \in Tenants : failedAt[t] \in Int BY StoreTypes
  <2> QED BY <2>1, StoreTypes DEF StoreInv, FailedBefore
<1>6. UNCHANGED <<now, rows, cache, loads, awaits, served, changedAt, changes>> OBVIOUS
<1>7. read[awaits[r]].pc = "running" OBVIOUS
<1> HIDE DEF CancelRead
<1> QED BY <1>1, <1>3, <1>4, <1>5, <1>6, <1>7, ReadEnds

\* What a request is given, or gives back, is its own.
LEMMA ServedPreserves ==
    ASSUME StoreInv, UNCHANGED <<now, rows, cache, loads, read, awaits, changedAt, failedAt, changes>>,
           served' \in [Requests -> (SUBSET Providers) \cup {None}]
    PROVE  StoreInv'
<1>1. StoreTypeOK' BY DEF StoreInv, StoreTypeOK
<1>2. CacheExplained' BY CacheKept
<1>3. ReadExplained' BY DEF StoreInv, ReadExplained, Explained
<1> QED BY <1>1, <1>2, <1>3
  DEF StoreInv, RunningIsRegistered, RegisteredIsAwaited, AwaitedInTime, ReadsOfTenants,
      FailedBefore

LEMMA HitPreserves ==
    ASSUME StoreInv, NEW r \in Requests, NEW t \in Tenants, GetActiveHit(r, t) PROVE StoreInv'
<1> DEFINE S == (SUBSET Providers) \cup {None}
<1>1. cache[t].providers \in S BY StoreTypes, EntryFields DEF GetActiveHit, Fresh
<1>2. served \in [Requests -> S] BY StoreTypes
<1> HIDE DEF S
<1>3. served' \in [Requests -> S] BY <1>1, <1>2 DEF GetActiveHit
<1> QED BY <1>3, ServedPreserves DEF S, GetActiveHit

LEMMA ForgetPreserves ==
    ASSUME StoreInv, NEW r \in Requests, Forget(r) PROVE StoreInv'
<1> DEFINE S == (SUBSET Providers) \cup {None}
<1>1. None \in S OBVIOUS
<1>2. served \in [Requests -> S] BY StoreTypes
<1> HIDE DEF S
<1>3. served' \in [Requests -> S] BY <1>1, <1>2 DEF Forget
<1> QED BY <1>3, ServedPreserves DEF S, Forget

LEMMA InvalidatePreserves ==
    ASSUME StoreInv, NEW t \in Tenants, Invalidate(t) PROVE StoreInv'
<1> USE DEF Invalidate
<1>1. cache' = [cache EXCEPT ![t] = None] /\ cache \in [Tenants -> Entries \cup {None}]
  BY StoreTypes
<1>2. StoreTypeOK' BY <1>1 DEF StoreInv, StoreTypeOK
<1>3. CacheExplained'
  BY <1>1 DEF StoreInv, CacheExplained, Explained
<1>4. ReadExplained' BY DEF StoreInv, ReadExplained, Explained
<1> QED BY <1>2, <1>3, <1>4
  DEF StoreInv, RunningIsRegistered, RegisteredIsAwaited, AwaitedInTime, ReadsOfTenants,
      FailedBefore

-----------------------------------------------------------------------------
(* A request.  What is known of it depends on its own part of the state and  *)
(* on the read it awaits.                                                    *)

Stages == {"new", "over"} \cup Running \cup Answers

Functions ==
    /\ stage \in [Requests -> Stages]
    /\ via \in [Requests -> Providers \cup {None}]
    /\ lost \in [Requests -> BOOLEAN]
    /\ kind = [r \in Requests |-> kind[r]]
    /\ ctx = [r \in Requests |-> ctx[r]]

\* It awaits a read of its tenant's providers, in one stage only.
Awaiting(r) ==
    /\ awaits[r] # None <=> stage[r] = "providers"
    /\ awaits[r] # None => read[awaits[r]].tenant = kind[r].tenant
    /\ stage[r] \in {"new", "dispatched"} => read[r].pc = "none"

\* What has been dispatched has a kind, and goes on in a tenant only.
Known(r) ==
    /\ kind[r] \in Kinds[r] \cup {None}
    /\ stage[r] \in Running \cup {"admitted", "forbidden"} =>
          kind[r] \in Kinds[r] /\ kind[r].tenant \in Tenants

Selectable(p, ps, k) ==
    /\ p \in ps /\ k.token.issuer = p.issuer
    /\ \A q \in ps \ {p} : q.issuer = k.token.issuer /\ AudienceMatches(q, k.token) => p.name = k.idp

\* A provider is there once it was selected, and its key before its context.
Chosen(r) ==
    /\ stage[r] \in {"new", "dispatched", "providers", "primary"} => via[r] = None
    /\ stage[r] = "keying" => via[r] \in Providers /\ Selectable(via[r], served[r], kind[r])
    /\ stage[r] \in {"accessing", "admitted", "forbidden"} /\ via[r] # None =>
          Selectable(via[r], served[r], kind[r]) /\ kind[r].token.key = via[r].key

\* An external context is the one its provider maps, and what was admitted
\* with it was allowed to it.
Contexts(r) ==
    /\ stage[r] \in {"new", "over"} => ctx[r] = None
    /\ stage[r] \in {"accessing", "admitted"} => ctx[r] # None
    /\ stage[r] \in {"accessing", "admitted"} /\ via[r] # None =>
          ctx[r] = ThirdPartyContext(kind[r].tenant, via[r], kind[r].token)
    /\ stage[r] = "admitted" =>
          kind[r].resource = Open \/ Allowed(ctx[r], kind[r].resource)

\* What was refused though nothing failed is no token of the tenant's own.
NotOwn(r) ==
    stage[r] = "refused" /\ kind[r].tenant # None /\ ~lost[r]
        /\ kind[r].source \in {"bearer", "cookie"} =>
            ~IsOwnToken(Signer(kind[r]), kind[r].token)

RequestInv(r) == Awaiting(r) /\ Known(r) /\ Chosen(r) /\ Contexts(r) /\ NotOwn(r)

AuthInv == StoreInv /\ Functions /\ \A r \in Requests : RequestInv(r)

\* The store does not disturb a request that is not its caller.
StoreKeeps(q) ==
    /\ awaits'[q] = awaits[q]
    /\ awaits[q] # None => read'[awaits[q]].tenant = read[awaits[q]].tenant
    /\ read[q].pc = "none" => read'[q].pc = "none"

Undisturbed(q) == stage'[q] = stage[q] /\ StoreKeeps(q) /\ UNCHANGED <<kind[q], via[q], ctx[q], lost[q], served[q]>>

LEMMA UndisturbedKeeps ==
    ASSUME NEW q \in Requests, RequestInv(q), Undisturbed(q) PROVE RequestInv(q)'
<1> USE DEF Undisturbed, StoreKeeps
<1>1. Awaiting(q)' BY DEF RequestInv, Awaiting
<1>2. Known(q)' BY DEF RequestInv, Known
<1>3. Chosen(q)' BY DEF RequestInv, Chosen, Selectable
<1>4. Contexts(q)' BY DEF RequestInv, Contexts
<1>5. NotOwn(q)' BY DEF RequestInv, NotOwn
<1> QED BY <1>1, <1>2, <1>3, <1>4, <1>5 DEF RequestInv

\* A step of one request.
LEMMA OneRequest ==
    ASSUME AuthInv, NEW r \in Requests, StoreInv', Functions', RequestInv(r)',
           \A q \in Requests \ {r} : Undisturbed(q)
    PROVE  AuthInv'
<1>1. ASSUME NEW q \in Requests PROVE RequestInv(q)'
  <2>1. CASE q = r BY <2>1
  <2>2. CASE q # r BY <2>2, UndisturbedKeeps DEF AuthInv
  <2> QED BY <2>1, <2>2
<1> QED BY <1>1 DEF AuthInv

LEMMA StoreRests ==
    ASSUME StoreInv, UNCHANGED store
    PROVE  StoreInv' /\ \A q \in Requests : StoreKeeps(q) /\ served'[q] = served[q]
<1>1. UNCHANGED <<now, rows, cache, loads, read, awaits, served, changedAt, failedAt, changes>>
  BY DEF store
<1>2. StoreInv'
  <2>1. served' \in [Requests -> (SUBSET Providers) \cup {None}] BY <1>1, StoreTypes
  <2> QED BY <1>1, <2>1, ServedPreserves
<1> QED BY <1>1, <1>2 DEF StoreKeeps

\* The read that ends is not lost to those that await it.
LEMMA LoadKeeps ==
    ASSUME StoreInv, NEW r \in Requests, Load(r) \/ CancelRead(r)
    PROVE  \A q \in Requests : StoreKeeps(q) /\ served'[q] = served[q]
<1>1. /\ read \in [Requests -> Reads] /\ awaits \in [Requests -> Requests \cup {None}]
      /\ None \notin Requests
  BY StoreTypes
<1>2. PICK on \in Requests :
        /\ read[on].pc = "running" /\ UNCHANGED <<awaits, served>>
        /\ \A q \in Requests : q # on => read'[q] = read[q]
        /\ read'[on].tenant = read[on].tenant
  <2>1. CASE Load(r)
    <3>1. \A q \in Requests : q # r => read'[q] = read[q] BY <2>1, <1>1 DEF Load
    <3>2. read[r] \in Reads BY <1>1
    <3>3. read'[r].tenant = read[r].tenant BY <2>1, <1>1, <3>2 DEF Load, Reads
    <3> QED BY <2>1, <3>1, <3>3 DEF Load
  <2>2. CASE CancelRead(r)
    <3>1. awaits[r] \in Requests BY <2>2, <1>1 DEF CancelRead
    <3>2. PICK on \in Requests : on = awaits[r] BY <3>1
    <3>3. read' = [read EXCEPT ![on].pc = "cancelled"] BY <2>2, <3>2 DEF CancelRead
    <3>4. \A q \in Requests : q # on => read'[q] = read[q] BY <3>3, <1>1
    <3>5. read[on] \in Reads BY <1>1
    <3>6. read'[on].tenant = read[on].tenant BY <3>3, <3>5, <1>1 DEF Reads
    <3> QED BY <2>2, <3>2, <3>4, <3>6 DEF CancelRead
  <2> QED BY <2>1, <2>2
<1> QED BY <1>1, <1>2 DEF StoreKeeps

LEMMA MissKeeps ==
    ASSUME StoreInv, NEW r \in Requests, NEW t \in Tenants, GetActiveMiss(r, t), read[r].pc = "none"
    PROVE  /\ awaits'[r] # None /\ read'[awaits'[r]].tenant = t
           /\ \A q \in Requests \ {r} : StoreKeeps(q) /\ served'[q] = served[q]
<1> USE DEF GetActiveMiss, Joined
<1>1. /\ loads \in [Tenants -> Requests \cup {None}] /\ awaits \in [Requests -> Requests \cup {None}]
      /\ read \in [Requests -> Reads] /\ None \notin Requests
  BY StoreTypes
<1>2. CASE loads[t] # None
  <2>1. awaits' = [awaits EXCEPT ![r] = loads[t]] /\ read' = read BY <1>2
  <2>2. loads[t] \in Requests /\ read[loads[t]].tenant = t BY <1>2, Registered
  <2> QED BY <1>1, <2>1, <2>2 DEF StoreKeeps
<1>3. CASE loads[t] = None
  <2> DEFINE x == [pc |-> "running", tenant |-> t, providers |-> {}, began |-> now]
  <2>1. awaits' = [awaits EXCEPT ![r] = r] /\ read' = [read EXCEPT ![r] = x] BY <1>3
  <2>2. x.tenant = t OBVIOUS
  <2> HIDE DEF x
  <2>3. \A q \in Requests : awaits[q] # None => awaits[q] # r BY DEF StoreInv, AwaitedInTime
  <2> QED BY <1>1, <2>1, <2>2, <2>3 DEF StoreKeeps
<1> QED BY <1>2, <1>3

LEMMA StopKeeps ==
    ASSUME StoreInv, NEW r \in Requests, StopAwaiting(r), awaits[r] # None
    PROVE  awaits'[r] = None /\ \A q \in Requests \ {r} : StoreKeeps(q)
<1>1. /\ awaits \in [Requests -> Requests \cup {None}] /\ read \in [Requests -> Reads]
      /\ None \notin Requests
  BY StoreTypes
<1>2. PICK on \in Requests : on = awaits[r] BY <1>1
<1>3. /\ awaits' = [awaits EXCEPT ![r] = None]
      /\ read' = IF on \in {awaits[q] : q \in Requests \ {r}} THEN read ELSE [read EXCEPT ![on] = NoRead]
  BY <1>2 DEF StopAwaiting
<1>4. NoRead.pc = "none" BY DEF NoRead
<1>5. ASSUME NEW q \in Requests \ {r} PROVE StoreKeeps(q)
  <2>1. awaits'[q] = awaits[q] BY <1>1, <1>3
  <2>2. read[q].pc = "none" => read'[q].pc = "none" BY <1>1, <1>3, <1>4
  <2>3. awaits[q] # None => read'[awaits[q]] = read[awaits[q]]
    <3>1. CASE awaits[q] = on BY <3>1, <1>3
    <3>2. CASE awaits[q] # on BY <3>2, <1>1, <1>3
    <3> QED BY <3>1, <3>2
  <2> QED BY <2>1, <2>2, <2>3 DEF StoreKeeps
<1> QED BY <1>1, <1>3, <1>5

\* The request's part of the state becomes this.
Becomes(r, to, k, v, c, l) ==
    /\ stage' = [stage EXCEPT ![r] = to]
    /\ kind' = [kind EXCEPT ![r] = k]
    /\ via' = [via EXCEPT ![r] = v]
    /\ ctx' = [ctx EXCEPT ![r] = c]
    /\ lost' = [lost EXCEPT ![r] = l]

LEMMA Same ==
    ASSUME Functions, NEW r \in Requests
    PROVE  /\ stage = [stage EXCEPT ![r] = stage[r]] /\ kind = [kind EXCEPT ![r] = kind[r]]
           /\ via = [via EXCEPT ![r] = via[r]]
           /\ ctx = [ctx EXCEPT ![r] = ctx[r]] /\ lost = [lost EXCEPT ![r] = lost[r]]
<1>1. kind = [q \in Requests |-> kind[q]] /\ ctx = [q \in Requests |-> ctx[q]] BY DEF Functions
<1>2. kind = [kind EXCEPT ![r] = kind[r]] BY <1>1
<1>3. ctx = [ctx EXCEPT ![r] = ctx[r]] BY <1>1
<1>4. stage = [stage EXCEPT ![r] = stage[r]] BY DEF Functions
<1>5. via = [via EXCEPT ![r] = via[r]] BY DEF Functions
<1>6. lost = [lost EXCEPT ![r] = lost[r]] BY DEF Functions
<1> QED BY <1>2, <1>3, <1>4, <1>5, <1>6

LEMMA Became ==
    ASSUME Functions, NEW r \in Requests, NEW to \in Stages, NEW k, NEW v \in Providers \cup {None},
           NEW c, NEW l \in BOOLEAN, Becomes(r, to, k, v, c, l)
    PROVE  /\ Functions'
           /\ stage'[r] = to /\ kind'[r] = k /\ via'[r] = v /\ ctx'[r] = c /\ lost'[r] = l
           /\ \A q \in Requests \ {r} :
                 stage'[q] = stage[q] /\ UNCHANGED <<kind[q], via[q], ctx[q], lost[q]>>
<1> USE DEF Becomes
<1>1. kind = [q \in Requests |-> kind[q]] /\ ctx = [q \in Requests |-> ctx[q]] BY DEF Functions
<1>2. /\ kind' = [q \in Requests |-> kind'[q]] /\ kind'[r] = k
      /\ \A q \in Requests \ {r} : kind'[q] = kind[q]
  BY <1>1
<1>3. /\ ctx' = [q \in Requests |-> ctx'[q]] /\ ctx'[r] = c
      /\ \A q \in Requests \ {r} : ctx'[q] = ctx[q]
  BY <1>1
<1>4. /\ stage' \in [Requests -> Stages] /\ stage'[r] = to
      /\ \A q \in Requests \ {r} : stage'[q] = stage[q]
  BY DEF Functions
<1>5. /\ via' \in [Requests -> Providers \cup {None}] /\ via'[r] = v
      /\ \A q \in Requests \ {r} : via'[q] = via[q]
  BY DEF Functions
<1>6. /\ lost' \in [Requests -> BOOLEAN] /\ lost'[r] = l
      /\ \A q \in Requests \ {r} : lost'[q] = lost[q]
  BY DEF Functions
<1> QED BY <1>2, <1>3, <1>4, <1>5, <1>6 DEF Functions

\* What AuthInv says of the values of a request.
LEMMA Values ==
    ASSUME AuthInv, NEW r \in Requests
    PROVE  /\ stage[r] \in Stages /\ via[r] \in Providers \cup {None} /\ lost[r] \in BOOLEAN
           /\ None \notin Providers /\ None \notin Tenants
           /\ Awaiting(r) /\ Known(r) /\ Chosen(r) /\ Contexts(r) /\ NotOwn(r)
BY StoreTypes DEF AuthInv, Functions, RequestInv

\* A step of a request that leaves the store alone.
LEMMA RequestMoves ==
    ASSUME AuthInv, NEW r \in Requests, NEW to \in Stages, NEW k, NEW v \in Providers \cup {None},
           NEW c, NEW l \in BOOLEAN, UNCHANGED store,
           Becomes(r, to, k, v, c, l), RequestInv(r)'
    PROVE  AuthInv'
<1>1. StoreInv' /\ \A q \in Requests : StoreKeeps(q) /\ served'[q] = served[q]
  BY StoreRests DEF AuthInv
<1>2. /\ Functions'
      /\ \A q \in Requests \ {r} :
            stage'[q] = stage[q] /\ UNCHANGED <<kind[q], via[q], ctx[q], lost[q]>>
  BY Became DEF AuthInv
<1> QED BY <1>1, <1>2, OneRequest DEF Undisturbed

\* A step that refuses, admits or ends a request, and changes nothing else of it
\* but what was lost.
LEMMA EndPreserves ==
    ASSUME AuthInv, NEW r \in Requests, NEW to \in {"refused", "failed", "cancelled", "forbidden"},
           NEW l \in BOOLEAN,
           stage[r] \in Running \ {"providers"}, Goes(r, to), lost' = [lost EXCEPT ![r] = l],
           to = "refused" /\ kind[r].source \in {"bearer", "cookie"} /\ ~l =>
               ~IsOwnToken(Signer(kind[r]), kind[r].token),
           to = "forbidden" => stage[r] = "accessing",
           UNCHANGED <<store, kind, via, ctx>>
    PROVE  AuthInv'
<1>1. Becomes(r, to, kind[r], via[r], ctx[r], l) BY Same DEF AuthInv, Becomes, Goes
<1>2. to \in Stages BY DEF Stages, Answers
<1>3. /\ stage'[r] = to /\ kind'[r] = kind[r] /\ via'[r] = via[r] /\ ctx'[r] = ctx[r] /\ lost'[r] = l
  BY <1>1, <1>2, Values, Became DEF AuthInv
<1>4. read' = read /\ awaits' = awaits /\ served' = served BY DEF store
<1> USE <1>3, <1>4, Values
<1>5. Awaiting(r)' BY DEF Awaiting, Running
<1>6. Known(r)' BY DEF Known, Running
<1>7. Chosen(r)' BY DEF Chosen, Selectable, Running
<1>8. Contexts(r)' BY DEF Contexts
<1>9. NotOwn(r)' BY DEF NotOwn
<1>10. RequestInv(r)' BY <1>5, <1>6, <1>7, <1>8, <1>9 DEF RequestInv
<1> QED BY <1>1, <1>2, <1>10, RequestMoves

LEMMA DispatchPreserves ==
    ASSUME AuthInv, NEW r \in Requests, NEW k \in Kinds[r], Dispatch(r, k) PROVE AuthInv'
<1> USE DEF Dispatch
<1>1. k.tenant \in Tenants \cup {None} BY KindAssumption
<1>2. read' = read /\ awaits' = awaits /\ served' = served BY DEF store
<1>3. CASE k.tenant = None
  <2>1. Becomes(r, "refused", k, via[r], ctx[r], lost[r]) BY <1>3, Same DEF AuthInv, Becomes, Goes
  <2>2. "refused" \in Stages BY DEF Stages, Answers
  <2>3. /\ stage'[r] = "refused" /\ kind'[r] = k /\ via'[r] = via[r] /\ ctx'[r] = ctx[r]
        /\ lost'[r] = lost[r]
    BY <2>1, <2>2, Values, Became DEF AuthInv
  <2>4. Awaiting(r)' BY <1>2, <2>3, Values DEF Awaiting
  <2>5. Known(r)' BY <2>3 DEF Known, Running
  <2>6. Chosen(r)' BY <2>3 DEF Chosen
  <2>7. Contexts(r)' BY <2>3 DEF Contexts
  <2>8. NotOwn(r)' BY <1>3, <2>3 DEF NotOwn
  <2>9. RequestInv(r)' BY <2>4, <2>5, <2>6, <2>7, <2>8 DEF RequestInv
  <2> QED BY <2>1, <2>2, <2>9, Values, RequestMoves
<1>4. CASE k.tenant # None
  <2>1. Becomes(r, "dispatched", k, via[r], Anonymous(k.tenant), lost[r])
    BY <1>4, Same DEF AuthInv, Becomes, Goes
  <2>2. "dispatched" \in Stages BY DEF Stages, Running
  <2>3. /\ stage'[r] = "dispatched" /\ kind'[r] = k /\ via'[r] = via[r]
        /\ lost'[r] = lost[r]
    BY <2>1, <2>2, Values, Became DEF AuthInv
  <2>4. Awaiting(r)' BY <1>2, <2>3, Values DEF Awaiting
  <2>5. Known(r)' BY <1>1, <1>4, <2>3 DEF Known, Running
  <2>6. Chosen(r)' BY <2>3, Values DEF Chosen
  <2>7. Contexts(r)' BY <2>3 DEF Contexts
  <2>8. NotOwn(r)' BY <2>3 DEF NotOwn
  <2>9. RequestInv(r)' BY <2>4, <2>5, <2>6, <2>7, <2>8 DEF RequestInv
  <2> QED BY <2>1, <2>2, <2>9, Values, RequestMoves
<1> QED BY <1>3, <1>4

\* What holds where a request has its turn with primary validation.
LEMMA PrimaryPreserves ==
    ASSUME AuthInv, NEW r \in Requests, stage[r] \in {"dispatched", "keying"},
           Goes(r, "primary"), via' = [via EXCEPT ![r] = None],
           UNCHANGED <<store, kind, ctx, lost>>
    PROVE  AuthInv'
<1>1. Becomes(r, "primary", kind[r], None, ctx[r], lost[r]) BY Same DEF AuthInv, Becomes, Goes
<1>2. "primary" \in Stages BY DEF Stages, Running
<1>3. stage'[r] = "primary" /\ kind'[r] = kind[r] /\ via'[r] = None
  BY <1>1, <1>2, Values, Became DEF AuthInv
<1>4. read' = read /\ awaits' = awaits BY DEF store
<1>5. Awaiting(r)' BY <1>3, <1>4, Values DEF Awaiting
<1>6. Known(r)' BY <1>3, Values DEF Known, Running
<1>7. Chosen(r)' BY <1>3 DEF Chosen
<1>8. Contexts(r)' BY <1>3 DEF Contexts
<1>9. NotOwn(r)' BY <1>3 DEF NotOwn
<1>10. RequestInv(r)' BY <1>5, <1>6, <1>7, <1>8, <1>9 DEF RequestInv
<1> QED BY <1>1, <1>2, <1>10, Values, RequestMoves

LEMMA SkipPreserves ==
    ASSUME AuthInv, NEW r \in Requests, SkipProviders(r) PROVE AuthInv'
<1> USE DEF SkipProviders
<1>1. stage[r] \in Running \ {"providers"} /\ lost = [lost EXCEPT ![r] = lost[r]] BY Same DEF AuthInv, Running
<1>2. CASE kind[r].source \in {"none", "provider cookie"}
  <2>1. Goes(r, "refused") BY <1>2 DEF AfterProviders
  <2> QED BY <1>1, <1>2, <2>1, Values, EndPreserves
<1>3. CASE kind[r].source \notin {"none", "provider cookie"}
  <2>1. Goes(r, "primary") BY <1>3 DEF AfterProviders
  <2>2. via' = [via EXCEPT ![r] = None] BY Values, Same DEF AuthInv, Chosen
  <2> QED BY <2>1, <2>2, PrimaryPreserves
<1> QED BY <1>2, <1>3

LEMMA TenantFailsPreserves ==
    ASSUME AuthInv, NEW r \in Requests, TenantFails(r) PROVE AuthInv'
<1>1. stage[r] \in Running \ {"providers"} BY DEF TenantFails, Running
<1> QED BY <1>1, EndPreserves DEF TenantFails

\* A token that the provider's key verifies is not one the tenant signed.
LEMMA NotOwnKey ==
    ASSUME AuthInv, NEW r \in Requests, stage[r] = "keying", Verifies(via[r], kind[r].token)
    PROVE  ~IsOwnToken(Signer(kind[r]), kind[r].token)
<1>1. via[r] \in Providers BY Values DEF Chosen
<1>2. kind[r] \in Kinds[r] /\ kind[r].tenant \in Tenants BY Values DEF Known, Running
<1>3. kind[r].token.home \in Tenants \cup {None} BY <1>2, KindAssumption
<1>4. Signer(kind[r]) \in Tenants BY <1>2, <1>3 DEF Signer
<1>5. via[r].key # OwnKey[Signer(kind[r])] BY <1>1, <1>4, KindAssumption
<1> QED BY <1>5 DEF Verifies, IsOwnToken

LEMMA AcceptPreserves ==
    ASSUME AuthInv, NEW r \in Requests, Accept(r) PROVE AuthInv'
<1> USE DEF Accept
<1>1. CASE ~Identifies(via[r], kind[r].token)
  <2>1. stage[r] \in Running \ {"providers"} /\ lost = [lost EXCEPT ![r] = lost[r]]
    BY Same DEF AuthInv, Running
  <2>2. Goes(r, "refused") /\ ~IsOwnToken(Signer(kind[r]), kind[r].token) BY <1>1, NotOwnKey
  <2> QED BY <1>1, <2>1, <2>2, Values, EndPreserves
<1>2. CASE Identifies(via[r], kind[r].token)
  <2> DEFINE c == ThirdPartyContext(kind[r].tenant, via[r], kind[r].token)
  <2>1. Becomes(r, "accessing", kind[r], via[r], c, lost[r]) BY <1>2, Same DEF AuthInv, Becomes, Goes
  <2>2. "accessing" \in Stages BY DEF Stages, Running
  <2>3. /\ stage'[r] = "accessing" /\ kind'[r] = kind[r] /\ via'[r] = via[r]
        /\ ctx'[r] = c
    BY <2>1, <2>2, Values, Became DEF AuthInv
  <2>4. via[r] \in Providers /\ kind[r] \in Kinds[r] /\ kind[r].tenant \in Tenants
    BY Values DEF Chosen, Known, Running
  <2>5. c # None BY <2>4, ContextAssumption
  <2>6. read' = read /\ awaits' = awaits /\ served' = served BY DEF store
  <2>7. Awaiting(r)' BY <2>3, <2>6, Values DEF Awaiting
  <2>8. Known(r)' BY <2>3, <2>4 DEF Known
  <2>9. Chosen(r)' BY <2>3, <2>6, Values DEF Chosen, Selectable, Verifies
  <2>10. Contexts(r)'
    <3> HIDE DEF c
    <3>1. ctx'[r] = ThirdPartyContext(kind'[r].tenant, via'[r], kind'[r].token) BY <2>3 DEF c
    <3> QED BY <2>3, <2>5, <3>1 DEF Contexts
  <2>11. NotOwn(r)' BY <2>3 DEF NotOwn
  <2>12. RequestInv(r)' BY <2>7, <2>8, <2>9, <2>10, <2>11 DEF RequestInv
  <2> QED BY <2>1, <2>2, <2>12, Values, RequestMoves
<1> QED BY <1>1, <1>2

LEMMA DeclinePreserves ==
    ASSUME AuthInv, NEW r \in Requests, Decline(r) PROVE AuthInv'
<1> USE DEF Decline
<1>1. CASE kind[r].source # "provider cookie"
  <2>1. Goes(r, "primary") BY <1>1 DEF AfterProviders
  <2> QED BY <2>1, PrimaryPreserves
<1>2. CASE kind[r].source = "provider cookie"
  <2>1. Becomes(r, "refused", kind[r], None, ctx[r], lost[r])
    BY <1>2, Same DEF AuthInv, Becomes, Goes, AfterProviders
  <2>2. "refused" \in Stages BY DEF Stages, Answers
  <2>3. stage'[r] = "refused" /\ kind'[r] = kind[r] /\ via'[r] = None
    BY <2>1, <2>2, Values, Became DEF AuthInv
  <2>4. read' = read /\ awaits' = awaits BY DEF store
  <2>5. Awaiting(r)' BY <2>3, <2>4, Values DEF Awaiting
  <2>6. Known(r)' BY <2>3, Values DEF Known, Running
  <2>7. Chosen(r)' BY <2>3 DEF Chosen
  <2>8. Contexts(r)' BY <2>3 DEF Contexts
  <2>9. NotOwn(r)' BY <1>2, <2>3 DEF NotOwn
  <2>10. RequestInv(r)' BY <2>5, <2>6, <2>7, <2>8, <2>9 DEF RequestInv
  <2> QED BY <2>1, <2>2, <2>10, Values, RequestMoves
<1> QED BY <1>1, <1>2

LEMMA CertificateFailsPreserves ==
    ASSUME AuthInv, NEW r \in Requests, CertificateFails(r) PROVE AuthInv'
<1>1. stage[r] \in Running \ {"providers"} BY DEF CertificateFails, Running
<1> QED BY <1>1, EndPreserves DEF CertificateFails

\* Primary validation admits no token to a context of an external provider.
LEMMA ValidateWithPreserves ==
    ASSUME AuthInv, NEW r \in Requests, NEW t, NEW l \in BOOLEAN,
           stage[r] = "primary", ValidateWith(r, t), lost' = [lost EXCEPT ![r] = l],
           ~l => t = Signer(kind[r]),
           UNCHANGED <<store, kind, via>>
    PROVE  AuthInv'
<1> USE DEF ValidateWith
<1>1. CASE ~IsOwnToken(t, kind[r].token)
  <2>1. stage[r] \in Running \ {"providers"} BY DEF Running
  <2>2. Goes(r, "refused") /\ UNCHANGED ctx BY <1>1
  <2> QED BY <1>1, <2>1, <2>2, EndPreserves
<1>2. CASE IsOwnToken(t, kind[r].token)
  <2> DEFINE c == ContextFromClaims(kind[r].tenant, kind[r].token)
  <2>1. Becomes(r, "accessing", kind[r], via[r], c, l) BY <1>2, Same DEF AuthInv, Becomes, Goes
  <2>2. "accessing" \in Stages BY DEF Stages, Running
  <2>3. /\ stage'[r] = "accessing" /\ kind'[r] = kind[r] /\ via'[r] = None
        /\ ctx'[r] = c
    BY <2>1, <2>2, Values, Became DEF AuthInv, Chosen
  <2>4. kind[r] \in Kinds[r] /\ kind[r].tenant \in Tenants BY Values DEF Known, Running
  <2>5. c # None BY <2>4, ContextAssumption
  <2>6. read' = read /\ awaits' = awaits /\ served' = served BY DEF store
  <2>7. Awaiting(r)' BY <2>3, <2>6, Values DEF Awaiting
  <2>8. Known(r)' BY <2>3, <2>4 DEF Known
  <2>9. Chosen(r)' BY <2>3 DEF Chosen
  <2>10. Contexts(r)'
    <3> HIDE DEF c
    <3> QED BY <2>3, <2>5 DEF Contexts
  <2>11. NotOwn(r)' BY <2>3 DEF NotOwn
  <2>12. RequestInv(r)' BY <2>7, <2>8, <2>9, <2>10, <2>11 DEF RequestInv
  <2> QED BY <2>1, <2>2, <2>12, Values, RequestMoves
<1> QED BY <1>1, <1>2

LEMMA ValidatePreserves ==
    ASSUME AuthInv, NEW r \in Requests, Validate(r) \/ ValidateInstead(r) PROVE AuthInv'
<1>1. CASE Validate(r)
  <2>1. lost' = [lost EXCEPT ![r] = lost[r]] BY <1>1, Same DEF AuthInv, Validate
  <2> QED BY <1>1, <2>1, Values, ValidateWithPreserves DEF Validate
<1>2. CASE ValidateInstead(r) BY <1>2, ValidateWithPreserves DEF ValidateInstead
<1> QED BY <1>1, <1>2

LEMMA AdmitPreserves ==
    ASSUME AuthInv, NEW r \in Requests, Admit(r) PROVE AuthInv'
<1> USE DEF Admit
<1>1. Becomes(r, "admitted", kind[r], via[r], ctx[r], lost[r]) BY Same DEF AuthInv, Becomes, Goes
<1>2. "admitted" \in Stages BY DEF Stages, Answers
<1>3. /\ stage'[r] = "admitted" /\ kind'[r] = kind[r] /\ via'[r] = via[r] /\ ctx'[r] = ctx[r]
  BY <1>1, <1>2, Values, Became DEF AuthInv
<1>4. read' = read /\ awaits' = awaits /\ served' = served BY DEF store
<1>5. Awaiting(r)' BY <1>3, <1>4, Values DEF Awaiting
<1>6. Known(r)' BY <1>3, Values DEF Known, Running
<1>7. Chosen(r)' BY <1>3, <1>4, Values DEF Chosen, Selectable
<1>8. Contexts(r)'
  <2>1. kind[r].resource = Open \/ Allowed(ctx[r], kind[r].resource) OBVIOUS
  <2>2. (kind[r].resource = Open \/ Allowed(ctx[r], kind[r].resource))'
    BY <2>1, <1>3 DEF Allowed
  <2> QED BY <1>3, <2>2, Values DEF Contexts
<1>9. NotOwn(r)' BY <1>3 DEF NotOwn
<1>10. RequestInv(r)' BY <1>5, <1>6, <1>7, <1>8, <1>9 DEF RequestInv
<1> QED BY <1>1, <1>2, <1>10, Values, RequestMoves

LEMMA ForbidPreserves ==
    ASSUME AuthInv, NEW r \in Requests, Forbid(r) PROVE AuthInv'
<1>1. stage[r] \in Running \ {"providers"} /\ lost = [lost EXCEPT ![r] = lost[r]]
  BY Same DEF AuthInv, Forbid, Running
<1> QED BY <1>1, Values, EndPreserves DEF Forbid

\* Respond ends a request, and with it what the store gave it.
LEMMA RespondPreserves ==
    ASSUME AuthInv, NEW r \in Requests, Respond(r) PROVE AuthInv'
<1> USE DEF Respond
<1>0. PICK l \in BOOLEAN : l = FALSE OBVIOUS
<1>1. Becomes(r, "over", None, None, None, l) BY <1>0 DEF Becomes, Goes
<1>2. "over" \in Stages /\ None \in Providers \cup {None} /\ Functions
  BY DEF Stages, AuthInv
<1> HIDE DEF Respond
<1>3. /\ stage'[r] = "over" /\ kind'[r] = None /\ via'[r] = None /\ ctx'[r] = None
      /\ Functions'
      /\ \A q \in Requests \ {r} :
            stage'[q] = stage[q] /\ UNCHANGED <<kind[q], via[q], ctx[q], lost[q]>>
  BY <1>1, <1>2, Became
<1>4. read' = read /\ awaits' = awaits /\ served' = [served EXCEPT ![r] = None] BY DEF Respond, Forget
<1>5. StoreInv' BY ForgetPreserves DEF Respond, AuthInv
<1>6. Awaiting(r)' BY <1>3, <1>4, Values DEF Awaiting, Answers, Respond
<1>7. Known(r)' BY <1>3 DEF Known, Running
<1>8. Chosen(r)' BY <1>3 DEF Chosen
<1>9. Contexts(r)' BY <1>3 DEF Contexts
<1>10. NotOwn(r)' BY <1>3 DEF NotOwn
<1>11. \A q \in Requests \ {r} : Undisturbed(q)
  <2>1. served \in [Requests -> (SUBSET Providers) \cup {None}] BY StoreTypes DEF AuthInv
  <2>2. \A q \in Requests \ {r} : served'[q] = served[q] BY <2>1, <1>4
  <2> QED BY <2>2, <1>3, <1>4 DEF Undisturbed, StoreKeeps
<1>12. RequestInv(r)' BY <1>6, <1>7, <1>8, <1>9, <1>10 DEF RequestInv
<1> QED BY <1>3, <1>5, <1>11, <1>12, OneRequest

\* What Select chooses, nothing else it chose from takes the place of.
LEMMA SelectChooses ==
    ASSUME NEW ps \in SUBSET Providers, NEW k, Select(ps, k.token, k.idp) # None
    PROVE  /\ Select(ps, k.token, k.idp) \in Providers
           /\ Selectable(Select(ps, k.token, k.idp), ps, k)
<1> DEFINE found == Candidates(ps, k.token)
           named == IF Cardinality(found) = 1 THEN found ELSE {p \in found : p.name = k.idp}
           p == Select(ps, k.token, k.idp)
<1>1. named # {} /\ p = CHOOSE q \in named : TRUE BY DEF Select
<1>2. p \in named BY <1>1
<1>3. found \subseteq ps /\ \A q : q \in found <=> q \in ps /\ q.issuer = k.token.issuer /\ AudienceMatches(q, k.token)
  BY DEF Candidates
<1>4. IsFiniteSet(found)
  <2>1. IsFiniteSet(Providers) BY StoreAssumption
  <2>2. found \in SUBSET Providers BY <1>3
  <2> HIDE DEF found
  <2> QED BY <2>1, <2>2, FS_Subset
<1> HIDE DEF found, p
<1>5. p \in found BY <1>2
<1>6. ASSUME NEW q \in ps \ {p}, q.issuer = k.token.issuer, AudienceMatches(q, k.token)
      PROVE  p.name = k.idp
  <2>1. q \in found /\ q # p BY <1>3, <1>6
  <2>2. Cardinality(found) # 1
    <3> SUFFICES ASSUME Cardinality(found) = 1 PROVE FALSE OBVIOUS
    <3>1. PICK x : found = {x} BY <1>4, FS_Singleton
    <3> QED BY <3>1, <2>1, <1>5
  <2> QED BY <2>2, <1>2
<1>7. p \in ps /\ p \in Providers /\ k.token.issuer = p.issuer BY <1>3, <1>5
<1> QED BY <1>6, <1>7 DEF Selectable, p

\* A request goes on with the providers it was given.
LEMMA SelectedPreserves ==
    ASSUME AuthInv, NEW r \in Requests, stage[r] \in {"dispatched", "providers"},
           Selected(r), UNCHANGED <<kind, ctx, lost>>,
           StoreInv', awaits'[r] = None, served'[r] \in SUBSET Providers,
           \A q \in Requests \ {r} : StoreKeeps(q) /\ served'[q] = served[q]
    PROVE  AuthInv'
<1> DEFINE p == Select(served'[r], kind[r].token, kind[r].idp)
<1>1. /\ via' = [via EXCEPT ![r] = p]
      /\ Goes(r, IF p = None THEN AfterProviders(kind[r]) ELSE "keying")
  BY DEF Selected
<1>2. p # None => p \in Providers /\ Selectable(p, served'[r], kind[r])
  <2>1. PICK ps \in SUBSET Providers : ps = served'[r] OBVIOUS
  <2>2. PICK k : k = kind[r] OBVIOUS
  <2>3. p = Select(ps, k.token, k.idp) BY <2>1, <2>2
  <2> HIDE DEF p
  <2> QED BY <2>1, <2>2, <2>3, SelectChooses
<1> HIDE DEF p
<1>3. PICK to \in {"refused", "primary", "keying"} :
           /\ Goes(r, to)
           /\ to = "refused" => kind[r].source = "provider cookie" /\ p = None
           /\ to = "primary" => p = None
           /\ to = "keying" => p # None
  BY <1>1 DEF AfterProviders
<1>4. Becomes(r, to, kind[r], p, ctx[r], lost[r]) BY <1>1, <1>3, Same DEF AuthInv, Becomes, Goes
<1>5. to \in Stages /\ p \in Providers \cup {None} BY <1>2 DEF Stages, Running, Answers
<1>6. /\ stage'[r] = to /\ kind'[r] = kind[r] /\ via'[r] = p /\ Functions'
      /\ \A q \in Requests \ {r} :
            stage'[q] = stage[q] /\ UNCHANGED <<kind[q], via[q], ctx[q], lost[q]>>
  BY <1>4, <1>5, Values, Became DEF AuthInv
<1>7. Awaiting(r)' BY <1>3, <1>6 DEF Awaiting
<1>8. Known(r)' BY <1>3, <1>6, Values DEF Known, Running
<1>9. Chosen(r)' BY <1>2, <1>3, <1>6 DEF Chosen, Selectable
<1>10. Contexts(r)' BY <1>3, <1>6 DEF Contexts
<1>11. NotOwn(r)' BY <1>3, <1>6 DEF NotOwn
<1>12. RequestInv(r)' BY <1>7, <1>8, <1>9, <1>10, <1>11 DEF RequestInv
<1> QED BY <1>6, <1>12, OneRequest DEF Undisturbed

LEMMA AskCachePreserves ==
    ASSUME AuthInv, NEW r \in Requests, AskCache(r) PROVE AuthInv'
<1> DEFINE t == kind[r].tenant
<1>1. stage[r] = "dispatched" /\ GetActiveHit(r, t) /\ Selected(r) /\ UNCHANGED <<kind, ctx, lost>>
  BY DEF AskCache, Asks
<1>2. t \in Tenants BY <1>1, Values DEF Known, Running
<1> HIDE DEF t
<1>3. StoreInv' BY <1>1, <1>2, HitPreserves DEF AuthInv
<1>4. served' = [served EXCEPT ![r] = cache[t].providers] /\ awaits' = awaits /\ read' = read
  BY <1>1 DEF GetActiveHit
<1>5. cache[t].providers \in SUBSET Providers
  BY <1>1, <1>2, StoreTypes, EntryFields DEF AuthInv, GetActiveHit, Fresh
<1>6. served \in [Requests -> (SUBSET Providers) \cup {None}] BY StoreTypes DEF AuthInv
<1>7. served'[r] \in SUBSET Providers BY <1>4, <1>5, <1>6
<1>8. awaits'[r] = None BY <1>1, <1>4, Values DEF Awaiting
<1>9. \A q \in Requests \ {r} : StoreKeeps(q) /\ served'[q] = served[q]
  BY <1>4, <1>6 DEF StoreKeeps
<1> QED BY <1>1, <1>3, <1>7, <1>8, <1>9, SelectedPreserves

LEMMA StoreAnswersPreserves ==
    ASSUME AuthInv, NEW r \in Requests, StoreAnswers(r) PROVE AuthInv'
<1>1. /\ GetActiveReturns(r) /\ Selected(r) /\ UNCHANGED <<kind, ctx, lost>>
      /\ awaits[r] # None
  BY DEF StoreAnswers, GetActiveReturns
<1>2. stage[r] = "providers" BY <1>1, Values DEF Awaiting
<1>3. StoreInv' BY <1>1, ReturnPreserves DEF AuthInv
<1>4. awaits'[r] = None /\ \A q \in Requests \ {r} : StoreKeeps(q)
  BY <1>1, StopKeeps DEF AuthInv, GetActiveReturns
<1>5. read[awaits[r]].providers \in SUBSET Providers BY <1>1, Filed DEF AuthInv, GetActiveReturns
<1>6. served' = [served EXCEPT ![r] = read[awaits[r]].providers] BY <1>1 DEF GetActiveReturns
<1>7. served \in [Requests -> (SUBSET Providers) \cup {None}] BY StoreTypes DEF AuthInv
<1>8. served'[r] \in SUBSET Providers /\ \A q \in Requests \ {r} : served'[q] = served[q]
  BY <1>5, <1>6, <1>7
<1> QED BY <1>1, <1>2, <1>3, <1>4, <1>8, SelectedPreserves

LEMMA AskStorePreserves ==
    ASSUME AuthInv, NEW r \in Requests, AskStore(r) PROVE AuthInv'
<1> DEFINE t == kind[r].tenant
<1>1. /\ stage[r] = "dispatched" /\ GetActiveMiss(r, t) /\ Goes(r, "providers")
      /\ UNCHANGED <<kind, via, ctx, lost>>
  BY DEF AskStore, Asks
<1>2. t \in Tenants BY <1>1, Values DEF Known, Running
<1>3. read[r].pc = "none" /\ awaits[r] = None BY <1>1, Values DEF Awaiting
<1> HIDE DEF t
<1>4. StoreInv' BY <1>1, <1>2, <1>3, MissPreserves DEF AuthInv
<1>5. /\ awaits'[r] # None /\ read'[awaits'[r]].tenant = t
      /\ \A q \in Requests \ {r} : StoreKeeps(q) /\ served'[q] = served[q]
  BY <1>1, <1>2, <1>3, MissKeeps DEF AuthInv
<1>6. Becomes(r, "providers", kind[r], via[r], ctx[r], lost[r])
  BY <1>1, Same DEF AuthInv, Becomes, Goes
<1>7. "providers" \in Stages BY DEF Stages, Running
<1>8. /\ stage'[r] = "providers" /\ kind'[r] = kind[r] /\ via'[r] = via[r] /\ Functions'
      /\ \A q \in Requests \ {r} :
            stage'[q] = stage[q] /\ UNCHANGED <<kind[q], via[q], ctx[q], lost[q]>>
  BY <1>6, <1>7, Values, Became DEF AuthInv
<1>9. Awaiting(r)' BY <1>5, <1>8 DEF Awaiting, t
<1>10. Known(r)' BY <1>1, <1>8, Values DEF Known, Running
<1>11. Chosen(r)' BY <1>1, <1>8, Values DEF Chosen
<1>12. Contexts(r)' BY <1>8 DEF Contexts
<1>13. NotOwn(r)' BY <1>8 DEF NotOwn
<1>14. RequestInv(r)' BY <1>9, <1>10, <1>11, <1>12, <1>13 DEF RequestInv
<1> QED BY <1>4, <1>5, <1>8, <1>14, OneRequest DEF Undisturbed

\* A request that is cancelled where it awaits a read.
LEMMA CancelledPreserves ==
    ASSUME AuthInv, NEW r \in Requests, GetActiveRaises(r) \/ CancelReturn(r),
           Goes(r, "cancelled"), UNCHANGED <<kind, via, ctx, lost>>
    PROVE  AuthInv'
<1>1. StoreInv' BY RaisePreserves, CancelReturnPreserves DEF AuthInv
<1>2. awaits[r] # None /\ StopAwaiting(r) /\ served' = served BY DEF GetActiveRaises, CancelReturn
<1>3. awaits'[r] = None /\ \A q \in Requests \ {r} : StoreKeeps(q)
  BY <1>2, StopKeeps DEF AuthInv
<1>4. Becomes(r, "cancelled", kind[r], via[r], ctx[r], lost[r]) BY Same DEF AuthInv, Becomes, Goes
<1>5. "cancelled" \in Stages BY DEF Stages, Answers
<1>6. /\ stage'[r] = "cancelled" /\ kind'[r] = kind[r] /\ Functions'
      /\ \A q \in Requests \ {r} :
            stage'[q] = stage[q] /\ UNCHANGED <<kind[q], via[q], ctx[q], lost[q]>>
  BY <1>4, <1>5, Values, Became DEF AuthInv
<1>7. Awaiting(r)' BY <1>3, <1>6 DEF Awaiting
<1>8. Known(r)' BY <1>6, Values DEF Known, Running
<1>9. Chosen(r)' BY <1>6 DEF Chosen
<1>10. Contexts(r)' BY <1>6 DEF Contexts
<1>11. NotOwn(r)' BY <1>6 DEF NotOwn
<1>12. RequestInv(r)' BY <1>7, <1>8, <1>9, <1>10, <1>11 DEF RequestInv
<1> QED BY <1>1, <1>2, <1>3, <1>6, <1>12, OneRequest DEF Undisturbed

\* A step of the store that no request takes part in.
LEMMA StoreSteps ==
    ASSUME AuthInv, StoreInv', UNCHANGED <<stage, kind, via, ctx, lost>>,
           \A q \in Requests : StoreKeeps(q) /\ served'[q] = served[q]
    PROVE  AuthInv'
<1>1. Functions' BY DEF AuthInv, Functions
<1>2. \A q \in Requests : RequestInv(q)' BY UndisturbedKeeps DEF AuthInv, Undisturbed
<1> QED BY <1>1, <1>2 DEF AuthInv

LEMMA CancelPreserves ==
    ASSUME AuthInv, NEW r \in Requests, Cancel(r) PROVE AuthInv'
<1>1. UNCHANGED <<kind, via, ctx, lost>> BY DEF Cancel
<1>2. CASE CancelRead(r) /\ UNCHANGED stage
  <2>1. StoreInv' BY <1>2, CancelReadPreserves DEF AuthInv
  <2> QED BY <1>1, <1>2, <2>1, LoadKeeps, StoreSteps DEF AuthInv
<1>3. CASE CancelReturn(r) /\ Goes(r, "cancelled") BY <1>1, <1>3, CancelledPreserves
<1>4. CASE stage[r] \in Running \ {"providers"} /\ Goes(r, "cancelled") /\ UNCHANGED store
  <2>1. lost' = [lost EXCEPT ![r] = lost[r]] BY <1>1, Same DEF AuthInv
  <2> QED BY <1>1, <1>4, <2>1, Values, EndPreserves
<1> QED BY <1>2, <1>3, <1>4 DEF Cancel

LEMMA AroundPreserves ==
    ASSUME AuthInv, Around PROVE AuthInv'
<1>1. UNCHANGED <<stage, kind, via, ctx, lost>> BY DEF Around
<1>2. CASE \E p \in Switched : Change(p)
  <2>1. PICK p \in Providers : Change(p) BY <1>2, StoreAssumption
  <2>2. StoreInv' BY <2>1, ChangePreserves DEF AuthInv
  <2> QED BY <1>1, <2>1, <2>2, StoreSteps DEF Change, StoreKeeps
<1>3. CASE \E r \in Requests : Load(r)
  <2>1. PICK r \in Requests : Load(r) BY <1>3
  <2>2. StoreInv' BY <2>1, LoadPreserves DEF AuthInv
  <2> QED BY <1>1, <2>1, <2>2, LoadKeeps, StoreSteps DEF AuthInv
<1>4. CASE \E t \in Tenants : Invalidate(t)
  <2>1. PICK t \in Tenants : Invalidate(t) BY <1>4
  <2>2. StoreInv' BY <2>1, InvalidatePreserves DEF AuthInv
  <2> QED BY <1>1, <2>1, <2>2, StoreSteps DEF Invalidate, StoreKeeps
<1>5. CASE Tick
  <2>1. StoreInv' BY <1>5, TickPreserves DEF AuthInv
  <2> QED BY <1>1, <1>5, <2>1, StoreSteps DEF Tick, StoreKeeps
<1> QED BY <1>2, <1>3, <1>4, <1>5 DEF Around

LEMMA StutterPreserves ==
    ASSUME AuthInv, UNCHANGED vars PROVE AuthInv'
<1>1. UNCHANGED store /\ UNCHANGED <<stage, kind, via, ctx, lost>> BY DEF vars
<1>2. StoreInv' /\ \A q \in Requests : StoreKeeps(q) /\ served'[q] = served[q]
  BY <1>1, StoreRests DEF AuthInv
<1> QED BY <1>1, <1>2, StoreSteps

LEMMA Starts == Init => AuthInv
<1> SUFFICES ASSUME Init PROVE AuthInv OBVIOUS
<1> USE DEF Init
<1>1. StoreInv BY StoreStart
<1>2. \A r \in Requests : read[r].pc = "none" /\ awaits[r] = None BY DEF StoreInit, NoRead
<1>3. "new" \in Stages BY DEF Stages
<1>4. Functions
  <2>1. stage \in [Requests -> Stages] BY <1>3
  <2>2. via \in [Requests -> Providers \cup {None}] /\ lost \in [Requests -> BOOLEAN] OBVIOUS
  <2>3. kind = [r \in Requests |-> kind[r]] OBVIOUS
  <2>4. ctx = [r \in Requests |-> ctx[r]] OBVIOUS
  <2> QED BY <2>1, <2>2, <2>3, <2>4 DEF Functions
<1>5. ASSUME NEW r \in Requests PROVE RequestInv(r)
  <2>1. stage[r] = "new" /\ kind[r] = None /\ via[r] = None /\ ctx[r] = None OBVIOUS
  <2> HIDE DEF Init
  <2>2. Awaiting(r) BY <1>2, <2>1 DEF Awaiting
  <2>3. Known(r) BY <2>1 DEF Known, Running
  <2>4. Chosen(r) BY <2>1 DEF Chosen
  <2>5. Contexts(r) BY <2>1 DEF Contexts
  <2>6. NotOwn(r) BY <2>1 DEF NotOwn
  <2> QED BY <2>2, <2>3, <2>4, <2>5, <2>6 DEF RequestInv
<1> QED BY <1>1, <1>4, <1>5 DEF AuthInv

LEMMA Invariant == Spec => []AuthInv
<1>1. AuthInv /\ [Next]_vars => AuthInv'
  <2> SUFFICES ASSUME AuthInv, [Next]_vars PROVE AuthInv' OBVIOUS
  <2>1. ASSUME NEW r \in Requests, Step(r) PROVE AuthInv'
    BY <2>1, SkipPreserves, TenantFailsPreserves, AskCachePreserves, AskStorePreserves,
       StoreAnswersPreserves, CancelledPreserves, AcceptPreserves, DeclinePreserves,
       ValidatePreserves, CertificateFailsPreserves, AdmitPreserves, ForbidPreserves,
       RespondPreserves
    DEF Step, StoreRaises
  <2>2. ASSUME NEW r \in Requests, Cancel(r) PROVE AuthInv' BY <2>2, CancelPreserves
  <2>3. ASSUME NEW r \in Requests, NEW k \in Kinds[r], Dispatch(r, k) PROVE AuthInv'
    BY <2>3, DispatchPreserves
  <2> QED BY <2>1, <2>2, <2>3, AroundPreserves, StutterPreserves DEF Next
<1> QED BY Starts, <1>1, PTL DEF Spec

-----------------------------------------------------------------------------
(* The theorems. *)

\* Every variable keeps its type, and a request's stage says what of the
\* store and of the context goes with it.
THEOREM TypeCorrect == Spec => []TypeOK
<1>1. AuthInv => TypeOK
  <2> SUFFICES ASSUME AuthInv PROVE TypeOK OBVIOUS
  <2>1. StoreTypeOK BY DEF AuthInv, StoreInv
  <2>2. /\ stage \in [Requests -> {"new", "over"} \cup Running \cup Answers]
        /\ via \in [Requests -> Providers \cup {None}] /\ lost \in [Requests -> BOOLEAN]
    BY DEF AuthInv, Functions, Stages
  <2>3. \A r \in Requests : kind[r] \in Kinds[r] \cup {None} BY Values DEF Known
  <2>4. ASSUME NEW r \in Requests
        PROVE  /\ (awaits[r] # None) <=> stage[r] = "providers"
               /\ awaits[r] # None => read[awaits[r]].tenant = kind[r].tenant
               /\ stage[r] = "keying" => via[r] \in served[r]
               /\ stage[r] \in {"new", "over"} => ctx[r] = None
               /\ stage[r] \in {"accessing", "admitted"} => ctx[r] # None
    <3>1. stage[r] = "keying" => via[r] \in served[r] BY Values DEF Chosen, Selectable
    <3> QED BY <3>1, Values DEF Awaiting, Contexts
  <2> QED BY <2>1, <2>2, <2>3, <2>4 DEF TypeOK
<1> QED BY <1>1, Invariant, PTL

\* No tenant's providers are read twice at the same time, whoever joins,
\* leaves, is cancelled or invalidates meanwhile.
THEOREM OneLoad == Spec => []SingleLoad
<1>1. AuthInv => SingleLoad BY DEF AuthInv, StoreInv, RunningIsRegistered, SingleLoad
<1> QED BY <1>1, Invariant, PTL

\* A token the request's tenant, or the home tenant of an impersonation,
\* signed is never refused where no read failed: no provider's key verifies
\* it, and whatever else the providers do ends in primary validation.
THEOREM OwnTokensAccepted == Spec => []OwnTokensGetIn
<1>1. AuthInv => OwnTokensGetIn BY Values DEF OwnTokensGetIn, NotOwn
<1> QED BY <1>1, Invariant, PTL

\* Who is let in by a provider carries a token that this provider signed for
\* its issuer, and no other provider the request was given takes it, unless
\* the header names this one.
THEOREM ExternalTokensAccepted == Spec => []AcceptedByItsIssuer
<1>1. AuthInv => AcceptedByItsIssuer
  BY Values DEF AcceptedByItsIssuer, Chosen, Selectable
<1> QED BY <1>1, Invariant, PTL

\* An external token acts in the tenant of the request, and on the roles of
\* its provider's organization.
THEOREM ExternalTokensInScope == Spec => []ExternalStaysInScope
<1>1. AuthInv => ExternalStaysInScope
  <2> SUFFICES ASSUME AuthInv, NEW r \in Requests, stage[r] = "admitted", via[r] # None
               PROVE  /\ ctx[r].tenant = kind[r].tenant
                      /\ \/ kind[r].resource = Open
                         \/ \E row \in Permissions :
                               /\ row.tenant = kind[r].tenant
                               /\ row.org = (IF via[r].org = None THEN DefaultOrg ELSE via[r].org)
                               /\ row.resource = kind[r].resource
                               /\ row.roles \cap kind[r].token.groups # {}
    BY DEF ExternalStaysInScope
  <2>1. /\ ctx[r].tenant = kind[r].tenant /\ ctx[r].impersonated = FALSE
        /\ ctx[r].org = (IF via[r].org = None THEN DefaultOrg ELSE via[r].org)
        /\ ctx[r].roles = kind[r].token.groups /\ ctx[r].permissions = {}
    <3>1. ctx[r] = ThirdPartyContext(kind[r].tenant, via[r], kind[r].token) BY Values DEF Contexts
    <3> QED BY <3>1 DEF ThirdPartyContext
  <2>2. CASE Allowed(ctx[r], kind[r].resource)
    <3>1. PICK row \in Permissions :
            /\ row.tenant = EffectiveTenant(ctx[r])
            /\ row.org = (IF ctx[r].org = None THEN DefaultOrg ELSE ctx[r].org)
            /\ \/ row.resource \in ctx[r].permissions
               \/ row.resource = kind[r].resource /\ row.roles \cap ctx[r].roles # {}
      BY <2>2 DEF Allowed
    <3>2. row.tenant = kind[r].tenant BY <2>1, <3>1 DEF EffectiveTenant
    <3>3. row.org = (IF via[r].org = None THEN DefaultOrg ELSE via[r].org) BY <2>1, <3>1
    <3>4. row.resource = kind[r].resource /\ row.roles \cap kind[r].token.groups # {}
      BY <2>1, <3>1
    <3> QED BY <2>1, <3>2, <3>3, <3>4
  <2>3. kind[r].resource = Open \/ Allowed(ctx[r], kind[r].resource) BY Values DEF Contexts
  <2> QED BY <2>1, <2>2, <2>3
<1> QED BY <1>1, Invariant, PTL

\* What is explained since this time differs from the rows by recent changes
\* only, or because a recent read failed.
LEMMA RecentlyExplained ==
    ASSUME StoreInv, NEW ps, NEW t \in Tenants, NEW since \in Int, Explained(ps, t, since),
           now - since <= Lifetime + ReadTime
    PROVE  LET active == {p \in rows : p.tenant = t} IN
           /\ \A p \in ps \ active : p.tenant = t /\ Recent(changedAt[p])
           /\ \A p \in active \ ps : Recent(changedAt[p]) \/ Recent(failedAt[t])
<1>1. /\ Lifetime \in Nat /\ ReadTime \in Nat /\ now \in Int /\ rows \subseteq Providers
      /\ failedAt[t] \in Int
      /\ \A p \in Providers : changedAt[p] \in Int
  BY StoreTypes
<1>2. \A time \in Int : time >= since => Recent(time) BY <1>1 DEF Recent
<1>3. ASSUME NEW p \in ps, p \notin rows \/ p.tenant # t
      PROVE  p.tenant = t /\ Recent(changedAt[p])
  <2>1. p \in Providers /\ p.tenant = t BY DEF Explained
  <2>2. changedAt[p] >= since BY <2>1, <1>3 DEF Explained
  <2> QED BY <2>1, <2>2, <1>1, <1>2
<1>4. ASSUME NEW p \in rows, p.tenant = t, p \notin ps
      PROVE  Recent(changedAt[p]) \/ Recent(failedAt[t])
  <2>1. changedAt[p] >= since \/ failedAt[t] >= since BY <1>4 DEF Explained
  <2>2. changedAt[p] \in Int BY <1>1
  <2> QED BY <2>1, <2>2, <1>1, <1>2
<1> QED BY <1>3, <1>4

\* The providers a request is given differ from the active ones by what
\* changed, or failed to be read, within a lifetime and the time of a read.
THEOREM BoundedStaleness == Spec => ServedRecently
<1> DEFINE Near(r, t) == LET active == {p \in rows : p.tenant = t} IN
                         /\ \A p \in served'[r] \ active : p.tenant = t /\ Recent(changedAt[p])
                         /\ \A p \in active \ served'[r] : Recent(changedAt[p]) \/ Recent(failedAt[t])
           Q == \A r \in Requests, t \in Tenants :
                   GetActiveHit(r, t) \/ (GetActiveReturns(r) /\ read[awaits[r]].tenant = t) => Near(r, t)
<1>1. ASSUME AuthInv, NEW r \in Requests, NEW t \in Tenants, GetActiveHit(r, t) PROVE Near(r, t)
  <2>1. /\ cache[t] \in Entries /\ now - cache[t].at <= Lifetime
        /\ served'[r] = cache[t].providers
    BY <1>1, StoreTypes DEF AuthInv, GetActiveHit, Fresh
  <2>2. PICK ps, since : ps = cache[t].providers /\ since = cache[t].at - ReadTime OBVIOUS
  <2>3. cache[t].at \in Int /\ ReadTime \in Nat /\ now \in Int /\ Lifetime \in Nat
    <3>1. cache[t].at \in Times BY <2>1, EntryFields
    <3> QED BY <1>1, <3>1, StoreTypes DEF AuthInv
  <2>4. since \in Int /\ now - since <= Lifetime + ReadTime BY <2>1, <2>2, <2>3
  <2>5. Explained(ps, t, since)
    BY <1>1, <2>2 DEF AuthInv, StoreInv, CacheExplained, GetActiveHit, Fresh
  <2> QED BY <2>1, <2>2, <2>4, <2>5, <1>1, RecentlyExplained DEF AuthInv
<1>2. ASSUME AuthInv, NEW r \in Requests, NEW t \in Tenants,
             GetActiveReturns(r), read[awaits[r]].tenant = t
      PROVE  Near(r, t)
  <2>1. served'[r] = read[awaits[r]].providers
    BY <1>2, StoreTypes DEF AuthInv, GetActiveReturns
  <2>2. PICK ps, since : ps = read[awaits[r]].providers /\ since = now - ReadTime OBVIOUS
  <2>3. Lifetime \in Nat /\ ReadTime \in Nat /\ now \in Int BY <1>2, StoreTypes DEF AuthInv
  <2>4. since \in Int /\ now - since <= Lifetime + ReadTime BY <2>2, <2>3
  <2>5. Explained(ps, t, since) BY <1>2, <2>2, Filed DEF AuthInv, GetActiveReturns
  <2> QED BY <2>1, <2>2, <2>4, <2>5, <1>2, RecentlyExplained DEF AuthInv
<1>3. AuthInv => Q BY <1>1, <1>2
<1>4. Spec => [][Q]_store BY <1>3, Invariant, PTL
<1> QED BY <1>4 DEF ServedRecently
=============================================================================
