-------------------------- MODULE TenantCacheProofs --------------------------
(* What TenantCache guarantees for every set of tenants and calls, however   *)
(* often the tenants change and whether or not notifications are lost.       *)
EXTENDS TenantCache, TLAPS

\* What is left of a record of which some fields change.
LEMMA CallMoves ==
    ASSUME NEW k \in CallStates, NEW pc \in {"idle", "awaiting", "returned", "cancelled"}
    PROVE  /\ [k EXCEPT !.pc = pc] \in CallStates
           /\ [k EXCEPT !.pc = pc].pc = pc
           /\ [k EXCEPT !.pc = pc].tenant = k.tenant
           /\ [k EXCEPT !.pc = pc].on = k.on
BY DEF CallStates

LEMMA ReadMoves ==
    ASSUME NEW k \in ReadStates, NEW pc \in {"none", "running", "done", "cancelled"}
    PROVE  /\ [k EXCEPT !.pc = pc] \in ReadStates
           /\ [k EXCEPT !.pc = pc].pc = pc
           /\ [k EXCEPT !.pc = pc].shared = k.shared
           /\ [k EXCEPT !.pc = pc].record = k.record
BY DEF ReadStates

-----------------------------------------------------------------------------
(* The inductive invariant: which calls, reads and registrations belong      *)
(* together.                                                                 *)

\* A call awaits a read that was started, of its own tenant.
AwaitsARead ==
    \A c \in Calls : call[c].pc = "awaiting" =>
        /\ call[c].on \in Calls
        /\ call[c].tenant \in Tenants
        /\ call[call[c].on].tenant = call[c].tenant
        /\ read[call[c].on].pc # "none"

\* A read was started by a call that knew its tenant.
ReadHasCall ==
    \A c \in Calls : read[c].pc # "none" =>
        call[c].pc # "idle" /\ call[c].tenant \in Tenants

\* What is registered was started; a shared read stays registered while it
\* runs.
Registrations ==
    /\ \A t \in Tenants : loads[t] # None => read[loads[t]].pc # "none"
    /\ \A c \in Calls : read[c].pc = "running" /\ read[c].shared => loads[call[c].tenant] = c

LoadInv == TypeOK /\ AwaitsARead /\ ReadHasCall /\ Registrations /\ NoDeadLoad

LEMMA LoadInit == Init => LoadInv
<1> SUFFICES ASSUME Init PROVE LoadInv
  OBVIOUS
<1> USE TenantAssumption
<1>1. [version |-> 0, disabled |-> FALSE] \in Records
  BY DEF Records
<1>2. [pc |-> "idle", tenant |-> None, on |-> None] \in CallStates
  BY DEF CallStates
<1>3. [pc |-> "none", shared |-> FALSE, record |-> None] \in ReadStates
  BY DEF ReadStates
<1>4. TypeOK
  <2>1. updates \in Seq(Notifications) /\ overtaken \subseteq Tenants /\ missed \subseteq Tenants
    BY DEF Init
  <2>2. db \in [Tenants -> Records \cup {None}] /\ version \in [Tenants -> 0 .. MaxVersion]
    BY <1>1 DEF Init
  <2>3. call \in [Calls -> CallStates] /\ read \in [Calls -> ReadStates]
    BY <1>2, <1>3 DEF Init
  <2> QED
    BY <2>1, <2>2, <2>3 DEF Init, TypeOK
<1>5. AwaitsARead /\ ReadHasCall /\ Registrations /\ NoDeadLoad
  BY DEF Init, AwaitsARead, ReadHasCall, Registrations, NoDeadLoad
<1> QED
  BY <1>4, <1>5 DEF LoadInv

\* What a call that ends does to the table of reads.
LEMMA EndOfCall ==
    ASSUME LoadInv, NEW c \in Calls, NEW pc \in {"returned", "cancelled"}, End(c, pc),
           call[c].pc = "awaiting", read' = read, read[call[c].on].pc # "running"
    PROVE  AwaitsARead' /\ ReadHasCall' /\ Registrations' /\ NoDeadLoad'
           /\ call' \in [Calls -> CallStates]
           /\ loads' \in [Tenants -> Calls \cup {None}]
           /\ \A t \in Tenants : loads'[t] \in {loads[t], None}
           /\ \A d \in Calls : call'[d].tenant = call[d].tenant
<1> DEFINE t == call[c].tenant
<1>1. t \in Tenants
  BY DEF LoadInv, AwaitsARead
<1>2. /\ loads' \in [Tenants -> Calls \cup {None}]
      /\ \A u \in Tenants : loads'[u] \in {loads[u], None}
      /\ \A u \in Tenants \ {t} : loads'[u] = loads[u]
      /\ loads'[t] = IF loads[t] = call[c].on THEN None ELSE loads[t]
  BY <1>1 DEF LoadInv, TypeOK, End, Unregistered
<1>3. /\ call' \in [Calls -> CallStates]
      /\ \A d \in Calls : call'[d].tenant = call[d].tenant /\ call'[d].on = call[d].on
      /\ \A d \in Calls \ {c} : call'[d] = call[d]
      /\ call'[c].pc = pc
  <2>1. call[c] \in CallStates /\ call' = [call EXCEPT ![c] = [call[c] EXCEPT !.pc = pc]]
    BY DEF LoadInv, TypeOK, End
  <2>2. /\ [call[c] EXCEPT !.pc = pc] \in CallStates
        /\ [call[c] EXCEPT !.pc = pc].pc = pc
        /\ [call[c] EXCEPT !.pc = pc].tenant = call[c].tenant
        /\ [call[c] EXCEPT !.pc = pc].on = call[c].on
    BY <2>1, CallMoves, pc \in {"idle", "awaiting", "returned", "cancelled"}
  <2> QED
    BY <2>1, <2>2 DEF LoadInv, TypeOK
<1>4. AwaitsARead'
  BY <1>3 DEF LoadInv, AwaitsARead
<1>5. ReadHasCall'
  BY <1>3 DEF LoadInv, ReadHasCall
<1>6. Registrations'
  BY <1>1, <1>2, <1>3, TenantAssumption DEF LoadInv, TypeOK, ReadHasCall, Registrations
<1>7. NoDeadLoad'
  <2> SUFFICES ASSUME NEW u \in Tenants, loads'[u] # None
               PROVE  \E d \in Calls : call'[d].pc = "awaiting" /\ call'[d].on = loads'[u]
    BY DEF NoDeadLoad
  <2>1. loads'[u] = loads[u] /\ loads[u] \in Calls /\ call[loads[u]].tenant = u
    BY <1>2 DEF LoadInv, TypeOK
  <2>2. PICK d \in Calls : call[d].pc = "awaiting" /\ call[d].on = loads[u]
    BY <2>1 DEF LoadInv, NoDeadLoad
  <2>3. call[d].tenant = u
    BY <2>1, <2>2 DEF LoadInv, AwaitsARead
  <2>4. d # c
    BY <1>2, <2>1, <2>2, <2>3
  <2> QED
    BY <1>3, <2>1, <2>2, <2>4
<1> QED
  BY <1>2, <1>3, <1>4, <1>5, <1>6, <1>7

LEMMA LoadStep == LoadInv /\ [Next]_vars => LoadInv'
<1> SUFFICES ASSUME LoadInv, [Next]_vars PROVE LoadInv'
  OBVIOUS
<1> USE TenantAssumption
<1>1. ASSUME NEW t \in Tenants, Change(t) PROVE LoadInv'
  <2>1. db' \in [Tenants -> Records \cup {None}] /\ version' \in [Tenants -> 0 .. MaxVersion]
    BY <1>1 DEF LoadInv, TypeOK, Change, Records
  <2> QED
    BY <1>1, <2>1 DEF LoadInv, TypeOK, Change, AwaitsARead, ReadHasCall, Registrations, NoDeadLoad
<1>2. ASSUME Publish \/ Subscribe \/ SubscriptionEnds PROVE LoadInv'
  <2>1. TypeOK'
    <3>1. CASE Publish
      <4> DEFINE notification == [tenant |-> unpublished, record |-> db[unpublished]]
      <4>1. notification \in Notifications
        BY <3>1 DEF LoadInv, TypeOK, Publish, Notifications
      <4>2. updates' \in Seq(Notifications)
        <5>1. \/ updates' = updates
              \/ updates' = Append(updates, notification)
          BY <3>1 DEF Publish
        <5> HIDE DEF notification
        <5>2. updates \in Seq(Notifications)
          BY DEF LoadInv, TypeOK
        <5> QED
          BY <4>1, <5>1, <5>2
      <4>3. unpublished' \in Tenants \cup {None} /\ missed' \subseteq Tenants
        BY <3>1 DEF LoadInv, TypeOK, Publish
      <4> QED
        BY <3>1, <4>2, <4>3 DEF LoadInv, TypeOK, Publish
    <3> QED
      BY <1>2, <3>1 DEF LoadInv, TypeOK, Subscribe, SubscriptionEnds
  <2> QED
    BY <1>2, <2>1 DEF LoadInv, Publish, Subscribe, SubscriptionEnds, AwaitsARead, ReadHasCall,
                      Registrations, NoDeadLoad
<1>3. ASSUME Handle PROVE LoadInv'
  <2>1. Head(updates) \in Notifications
        /\ updates' \in Seq(Notifications)
    BY <1>3 DEF LoadInv, TypeOK, Handle
  <2>2. /\ Head(updates).tenant \in Tenants
        /\ Applied(Head(updates).tenant, Head(updates).record) \in Records \cup {None}
    BY <2>1 DEF Applied, Notifications
  <2>3. cache' \in [Tenants -> Records \cup {None}] /\ overtaken' \subseteq Tenants
    BY <1>3, <2>2 DEF LoadInv, TypeOK, Handle
  <2>4. TypeOK'
    BY <1>3, <2>1, <2>3 DEF LoadInv, TypeOK, Handle, store
  <2> QED
    BY <1>3, <2>4 DEF LoadInv, Handle, store, AwaitsARead, ReadHasCall, Registrations, NoDeadLoad
<1>4. ASSUME NEW c \in Calls, NEW t \in Tenants, CallHit(c, t) PROVE LoadInv'
  <2>1. call[c] \in CallStates /\ call' = [call EXCEPT ![c] = [call[c] EXCEPT !.pc = "returned"]]
    BY <1>4 DEF LoadInv, TypeOK, CallHit
  <2>2. /\ [call[c] EXCEPT !.pc = "returned"] \in CallStates
        /\ [call[c] EXCEPT !.pc = "returned"].pc = "returned"
        /\ [call[c] EXCEPT !.pc = "returned"].tenant = call[c].tenant
        /\ [call[c] EXCEPT !.pc = "returned"].on = call[c].on
    BY <2>1, CallMoves
  <2>3. call' \in [Calls -> CallStates]
    BY <2>1, <2>2 DEF LoadInv, TypeOK
  <2>4. /\ \A d \in Calls : call'[d].tenant = call[d].tenant /\ call'[d].on = call[d].on
                            /\ (d # c => call'[d].pc = call[d].pc)
        /\ call[c].pc = "idle" /\ call'[c].pc = "returned"
    BY <1>4, <2>1, <2>2 DEF LoadInv, TypeOK, CallHit
  <2>5. TypeOK'
    BY <1>4, <2>3, <2>4 DEF LoadInv, TypeOK, CallHit, store
  <2> QED
    BY <1>4, <2>4, <2>5 DEF LoadInv, CallHit, store, AwaitsARead, ReadHasCall, Registrations, NoDeadLoad
<1>5. ASSUME NEW c \in Calls, NEW t \in Tenants, GetTenant(c, t) PROVE LoadInv'
  <2> DEFINE on == IF loads[t] = None THEN c ELSE loads[t]
  <2>1. /\ on \in Calls
        /\ loads' = [loads EXCEPT ![t] = on]
        /\ call' = [call EXCEPT ![c] = [pc |-> "awaiting", tenant |-> t, on |-> on]]
    BY <1>5 DEF LoadInv, TypeOK, GetTenant, Registered, Await
  <2>2. IF loads[t] = None THEN read' = [read EXCEPT ![c] = [pc |-> "running", shared |-> TRUE, record |-> None]]
                           ELSE read' = read
    BY <1>5 DEF GetTenant, StartRead
  <2>3. call[c].pc = "idle" /\ read[c].pc = "none"
    BY <1>5 DEF LoadInv, TypeOK, GetTenant, ReadHasCall
  <2>4. \A u \in Tenants : loads[u] # c
    BY <2>3 DEF LoadInv, TypeOK, Registrations
  <2>5. \A d \in Calls : call[d].pc = "awaiting" => call[d].on # c /\ d # c
    BY <2>3 DEF LoadInv, TypeOK, AwaitsARead
  <2>6. /\ call' \in [Calls -> CallStates]
        /\ read' \in [Calls -> ReadStates]
        /\ loads' \in [Tenants -> Calls \cup {None}]
    <3>1. [pc |-> "awaiting", tenant |-> t, on |-> on] \in CallStates
      BY <2>1 DEF CallStates
    <3>2. [pc |-> "running", shared |-> TRUE, record |-> None] \in ReadStates
      BY DEF ReadStates
    <3>3. call' \in [Calls -> CallStates] /\ loads' \in [Tenants -> Calls \cup {None}]
      BY <2>1, <3>1 DEF LoadInv, TypeOK
    <3>4. read' \in [Calls -> ReadStates]
      BY <2>2, <3>2 DEF LoadInv, TypeOK
    <3> QED
      BY <3>3, <3>4
  <2>7. TypeOK'
    BY <1>5, <2>1, <2>2, <2>4, <2>6 DEF LoadInv, TypeOK, GetTenant, store
  <2>8. AwaitsARead'
    BY <2>1, <2>2, <2>3, <2>5, <2>6 DEF LoadInv, TypeOK, AwaitsARead, Registrations
  <2>9. ReadHasCall'
    BY <2>1, <2>2, <2>3 DEF LoadInv, TypeOK, ReadHasCall
  <2>10. Registrations'
    BY <2>1, <2>2, <2>3, <2>4 DEF LoadInv, TypeOK, ReadHasCall, Registrations
  <2>11. NoDeadLoad'
    BY <2>1, <2>5 DEF LoadInv, TypeOK, NoDeadLoad
  <2> QED
    BY <2>7, <2>8, <2>9, <2>10, <2>11 DEF LoadInv
<1>6. ASSUME NEW c \in Calls, NEW t \in Tenants, GetTenantByDomain(c, t) PROVE LoadInv'
  <2>1. /\ call' = [call EXCEPT ![c] = [pc |-> "awaiting", tenant |-> t, on |-> c]]
        /\ read' = [read EXCEPT ![c] = [pc |-> "running", shared |-> FALSE, record |-> None]]
        /\ loads' = loads
    BY <1>6 DEF GetTenantByDomain, Await, StartRead
  <2>2. call[c].pc = "idle" /\ read[c].pc = "none"
    BY <1>6 DEF LoadInv, TypeOK, GetTenantByDomain, ReadHasCall
  <2>3. \A u \in Tenants : loads[u] # c
    BY <2>2 DEF LoadInv, TypeOK, Registrations
  <2>4. \A d \in Calls : call[d].pc = "awaiting" => call[d].on # c /\ d # c
    BY <2>2 DEF LoadInv, TypeOK, AwaitsARead
  <2>5. TypeOK'
    <3>1. [pc |-> "awaiting", tenant |-> t, on |-> c] \in CallStates
      BY DEF CallStates
    <3>2. [pc |-> "running", shared |-> FALSE, record |-> None] \in ReadStates
      BY DEF ReadStates
    <3>3. call' \in [Calls -> CallStates] /\ read' \in [Calls -> ReadStates]
      BY <2>1, <3>1, <3>2 DEF LoadInv, TypeOK
    <3> QED
      BY <1>6, <2>1, <2>3, <3>3 DEF LoadInv, TypeOK, GetTenantByDomain, store
  <2>6. AwaitsARead' /\ ReadHasCall'
    BY <2>1, <2>2, <2>4 DEF LoadInv, TypeOK, AwaitsARead, ReadHasCall
  <2>7. Registrations'
    BY <2>1, <2>3 DEF LoadInv, TypeOK, ReadHasCall, Registrations
  <2>8. NoDeadLoad'
    BY <2>1, <2>4 DEF LoadInv, TypeOK, NoDeadLoad
  <2> QED
    BY <2>5, <2>6, <2>7, <2>8 DEF LoadInv
<1>7. ASSUME NEW c \in Calls, Read(c) PROVE LoadInv'
  <2>1. PICK record \in {db[call[c].tenant], None} :
            read' = [read EXCEPT ![c].pc = "done", ![c].record = record]
    BY <1>7 DEF Read
  <2>2. record \in Records \cup {None}
    BY <1>7 DEF LoadInv, TypeOK, Read, ReadHasCall
  <2> DEFINE ended == [read[c] EXCEPT !.pc = "done", !.record = record]
  <2>3. ended \in ReadStates /\ ended.pc = "done" /\ ended.shared = read[c].shared
    <3>1. read[c] \in ReadStates
      BY DEF LoadInv, TypeOK
    <3> QED
      BY <2>2, <3>1 DEF ReadStates
  <2>4. read' = [read EXCEPT ![c] = ended]
    BY <2>1
  <2> HIDE DEF ended
  <2>5. /\ read' \in [Calls -> ReadStates]
        /\ \A d \in Calls : read'[d].shared = read[d].shared /\ (d # c => read'[d] = read[d])
        /\ read'[c].pc = "done" /\ read[c].pc = "running"
    BY <1>7, <2>3, <2>4 DEF LoadInv, TypeOK, Read
  <2>6. TypeOK'
    BY <1>7, <2>5 DEF LoadInv, TypeOK, Read, store
  <2> QED
    BY <1>7, <2>5, <2>6 DEF LoadInv, TypeOK, Read, store, AwaitsARead, ReadHasCall, Registrations, NoDeadLoad
<1>8. ASSUME NEW c \in Calls, Return(c) PROVE LoadInv'
  <2>1. PICK pc \in {"returned", "cancelled"} : End(c, pc)
    BY <1>8 DEF Return
  <2>2. call[c].pc = "awaiting" /\ read' = read /\ read[call[c].on].pc # "running"
    BY <1>8 DEF Return
  <2>3. cache' \in [Tenants -> Records \cup {None}]
    <3>1. read[call[c].on] \in ReadStates /\ call[c].tenant \in Tenants
      BY <2>2 DEF LoadInv, TypeOK, AwaitsARead
    <3>2. read[call[c].on].record \in Records \cup {None}
      BY <3>1 DEF ReadStates
    <3> QED
      BY <1>8, <3>1, <3>2 DEF LoadInv, TypeOK, Return
  <2>4. TypeOK'
    BY <1>8, <2>1, <2>2, <2>3, EndOfCall DEF LoadInv, TypeOK, Return, store
  <2> QED
    BY <2>1, <2>2, <2>4, EndOfCall DEF LoadInv
<1>9. ASSUME NEW c \in Calls, Cancel(c) PROVE LoadInv'
  <2>1. CASE read[call[c].on].pc = "done"
    <3>1. End(c, "cancelled") /\ read' = read /\ call[c].pc = "awaiting"
      BY <1>9, <2>1 DEF Cancel
    <3>2. TypeOK'
      BY <1>9, <2>1, <3>1, EndOfCall DEF LoadInv, TypeOK, Cancel, store
    <3> QED
      BY <2>1, <3>1, <3>2, EndOfCall DEF LoadInv
  <2>2. CASE read[call[c].on].pc = "running"
    <3> DEFINE on == call[c].on
    <3>1. on \in Calls /\ read' = [read EXCEPT ![on].pc = "cancelled"] /\ call' = call /\ loads' = loads
      BY <1>9, <2>2 DEF LoadInv, Cancel, AwaitsARead
    <3> DEFINE ended == [read[on] EXCEPT !.pc = "cancelled"]
    <3>2. ended \in ReadStates /\ ended.pc = "cancelled" /\ ended.shared = read[on].shared
      BY <3>1, ReadMoves DEF LoadInv, TypeOK
    <3>3. read' = [read EXCEPT ![on] = ended]
      BY <3>1
    <3> HIDE DEF ended
    <3>4. /\ read' \in [Calls -> ReadStates]
          /\ \A d \in Calls : read'[d].shared = read[d].shared /\ (d # on => read'[d] = read[d])
          /\ read'[on].pc = "cancelled"
      BY <3>1, <3>2, <3>3 DEF LoadInv, TypeOK
    <3>5. TypeOK'
      BY <1>9, <3>1, <3>4 DEF LoadInv, TypeOK, Cancel, store
    <3> QED
      BY <2>2, <3>1, <3>4, <3>5 DEF LoadInv, TypeOK, AwaitsARead, ReadHasCall, Registrations, NoDeadLoad
  <2> QED
    BY <1>9, <2>1, <2>2 DEF Cancel
<1>10. CASE UNCHANGED vars
  BY <1>10 DEF vars, LoadInv, TypeOK, AwaitsARead, ReadHasCall, Registrations, NoDeadLoad
<1> QED
  BY <1>1, <1>2, <1>3, <1>4, <1>5, <1>6, <1>7, <1>8, <1>9, <1>10 DEF Next

\* The state stays well formed, and the tables of calls, reads and registered
\* reads agree.
THEOREM TypeCorrect == Spec => []TypeOK
<1>1. LoadInv => TypeOK
  BY DEF LoadInv
<1> QED
  BY <1>1, LoadInit, LoadStep, PTL DEF Spec

\* Two reads of get_tenant for one tenant never run at the same time, however
\* the calls that started and joined them end.
THEOREM OneLoad == Spec => []SingleLoad
<1>1. LoadInv => SingleLoad
  BY DEF LoadInv, Registrations, SingleLoad
<1> QED
  BY <1>1, LoadInit, LoadStep, PTL DEF Spec

\* A registered read always has a call that awaits it, and so one that will
\* drop it: no later call joins a read whose callers are all gone.
THEOREM NoLoadOutlivesItsCalls == Spec => []NoDeadLoad
<1>1. LoadInv => NoDeadLoad
  BY DEF LoadInv
<1> QED
  BY <1>1, LoadInit, LoadStep, PTL DEF Spec

-----------------------------------------------------------------------------
(* The cache and the database.                                               *)

\* No update of t waits to be handled.
NoUpdate(t) == \A i \in DOMAIN updates : updates[i].tenant # t

\* The last update of a tenant that waits carries its present record.
LastUpdateIsCurrent ==
    \A t \in Tenants \ missed : unpublished # t =>
        \A i \in DOMAIN updates :
            /\ updates[i].tenant = t
            /\ \A j \in DOMAIN updates : j > i => updates[j].tenant # t
            => updates[i].record = db[t]

\* Nothing of t is under way but reads, and the last update found none ended.
Undisturbed(t) == unpublished # t /\ NoUpdate(t) /\ t \notin missed \cup overtaken

\* Neither the cache nor a read that ended holds an old record then.
NothingStale ==
    \A t \in Tenants : Undisturbed(t) =>
        /\ cache[t] \in {None, db[t]}
        /\ \A c \in Calls :
              /\ call[c].pc = "awaiting"
              /\ call[c].tenant = t
              /\ read[call[c].on].pc = "done"
              => read[call[c].on].record \in {None, db[t]}

SyncInv == LastUpdateIsCurrent /\ NothingStale

LEMMA SyncInit == Init => SyncInv
BY DEF Init, SyncInv, LastUpdateIsCurrent, NothingStale

LEMMA SyncStep == LoadInv /\ SyncInv /\ [Next]_vars => SyncInv'
<1> SUFFICES ASSUME LoadInv, SyncInv, [Next]_vars PROVE SyncInv'
  OBVIOUS
<1> USE TenantAssumption
<1>0. updates \in Seq(Notifications)
  BY DEF LoadInv, TypeOK
<1>1. ASSUME NEW t \in Tenants, Change(t) PROVE SyncInv'
  <2>1. \A u \in Tenants \ {t} : db'[u] = db[u]
    BY <1>1 DEF LoadInv, TypeOK, Change
  <2>2. unpublished = None /\ unpublished' = t
    BY <1>1 DEF Change
  <2>3. UNCHANGED <<updates, cache, call, read, missed, overtaken>>
    BY <1>1 DEF Change
  <2>4. LastUpdateIsCurrent'
    BY <2>1, <2>2, <2>3 DEF SyncInv, LastUpdateIsCurrent
  <2>5. NothingStale'
    BY <2>1, <2>2, <2>3 DEF SyncInv, NothingStale, Undisturbed, NoUpdate
  <2> QED
    BY <2>4, <2>5 DEF SyncInv
<1>2. ASSUME Publish PROVE SyncInv'
  <2> DEFINE t == unpublished
  <2>1. t \in Tenants /\ unpublished' = None
    BY <1>2 DEF LoadInv, TypeOK, Publish
  <2>2. UNCHANGED <<db, cache, call, read, overtaken>>
    BY <1>2 DEF Publish
  <2>3. CASE updates' = updates /\ missed' = missed \cup {t}
    <3>1. LastUpdateIsCurrent'
      BY <2>1, <2>2, <2>3 DEF SyncInv, LastUpdateIsCurrent
    <3>2. NothingStale'
      BY <2>1, <2>2, <2>3 DEF SyncInv, NothingStale, Undisturbed, NoUpdate
    <3> QED
      BY <3>1, <3>2 DEF SyncInv
  <2>4. CASE updates' = Append(updates, [tenant |-> t, record |-> db[t]]) /\ missed' = missed \ {t}
    <3> DEFINE n == [tenant |-> t, record |-> db[t]]
    <3>1. n \in Notifications /\ n.tenant = t /\ n.record = db[t]
      BY <2>1 DEF LoadInv, TypeOK, Notifications
    <3> HIDE DEF n
    <3>2. /\ DOMAIN updates = 1 .. Len(updates) /\ Len(updates) \in Nat
          /\ DOMAIN updates' = 1 .. Len(updates) + 1
          /\ updates'[Len(updates) + 1] = n
          /\ \A i \in 1 .. Len(updates) : updates'[i] = updates[i]
      BY <1>0, <2>4, <3>1 DEF n
    <3>3. LastUpdateIsCurrent'
      <4> SUFFICES ASSUME NEW u \in Tenants \ missed', NEW i \in DOMAIN updates',
                          updates'[i].tenant = u,
                          \A j \in DOMAIN updates' : j > i => updates'[j].tenant # u
                   PROVE  updates'[i].record = db[u]
        BY <2>2 DEF LastUpdateIsCurrent
      <4>1. CASE u = t
        BY <2>1, <3>1, <3>2, <4>1
      <4>2. CASE u # t
        <5>1. i \in 1 .. Len(updates) /\ u \notin missed
          BY <2>4, <3>1, <3>2, <4>2
        <5>2. \A j \in DOMAIN updates : j > i => updates[j].tenant # u
          BY <3>2, <5>1
        <5> QED
          BY <3>2, <4>2, <5>1, <5>2 DEF SyncInv, LastUpdateIsCurrent
      <4> QED
        BY <4>1, <4>2
    <3>4. NothingStale'
      <4> SUFFICES ASSUME NEW u \in Tenants, Undisturbed(u)'
                   PROVE  /\ cache[u] \in {None, db[u]}
                          /\ \A c \in Calls :
                                /\ call[c].pc = "awaiting"
                                /\ call[c].tenant = u
                                /\ read[call[c].on].pc = "done"
                                => read[call[c].on].record \in {None, db[u]}
        BY <2>2 DEF NothingStale
      <4>1. u # t
        BY <3>1, <3>2 DEF Undisturbed, NoUpdate
      <4>2. Undisturbed(u)
        BY <2>2, <2>4, <3>2, <4>1 DEF Undisturbed, NoUpdate
      <4> QED
        BY <4>2 DEF SyncInv, NothingStale
    <3> QED
      BY <3>3, <3>4 DEF SyncInv
  <2> QED
    BY <1>2, <2>3, <2>4 DEF Publish
<1>3. ASSUME Subscribe \/ SubscriptionEnds PROVE SyncInv'
  BY <1>3 DEF Subscribe, SubscriptionEnds, SyncInv, LastUpdateIsCurrent, NothingStale, Undisturbed, NoUpdate
<1>4. ASSUME Handle PROVE SyncInv'
  <2> DEFINE t == Head(updates).tenant
             record == Head(updates).record
  <2>1. /\ updates # <<>>
        /\ updates' = Tail(updates)
        /\ UNCHANGED <<db, unpublished, call, read, missed>>
    BY <1>4 DEF Handle, store
  <2>2. /\ DOMAIN updates = 1 .. Len(updates) /\ Len(updates) \in Nat /\ Len(updates) > 0
        /\ DOMAIN updates' = 1 .. Len(updates) - 1
        /\ \A i \in 1 .. Len(updates) - 1 : updates'[i] = updates[i + 1]
        /\ Head(updates) = updates[1]
    BY <1>0, <2>1
  <2>3. t \in Tenants
    <3>1. updates[1] \in Notifications
      BY <1>0, <2>2
    <3> QED
      BY <2>2, <3>1 DEF Notifications
  <2>4. /\ cache' = [cache EXCEPT ![t] = Applied(t, record)]
        /\ overtaken' = IF ReadHeld(t) THEN overtaken \cup {t} ELSE overtaken \ {t}
    BY <1>4 DEF Handle
  <2>5. LastUpdateIsCurrent'
    <3> SUFFICES ASSUME NEW u \in Tenants \ missed, unpublished # u, NEW i \in DOMAIN updates',
                        updates'[i].tenant = u,
                        \A j \in DOMAIN updates' : j > i => updates'[j].tenant # u
                 PROVE  updates'[i].record = db[u]
      BY <2>1 DEF LastUpdateIsCurrent
    <3>1. i + 1 \in DOMAIN updates /\ updates'[i] = updates[i + 1]
      BY <2>2
    <3>2. ASSUME NEW j \in DOMAIN updates, j > i + 1 PROVE updates[j].tenant # u
      <4>1. j - 1 \in DOMAIN updates' /\ j - 1 > i /\ updates'[j - 1] = updates[j]
        BY <2>2, <3>2
      <4> QED
        BY <4>1
    <3> QED
      BY <3>1, <3>2 DEF SyncInv, LastUpdateIsCurrent
  <2>6. NothingStale'
    <3> SUFFICES ASSUME NEW u \in Tenants, Undisturbed(u)'
                 PROVE  /\ cache'[u] \in {None, db[u]}
                        /\ \A c \in Calls :
                              /\ call[c].pc = "awaiting"
                              /\ call[c].tenant = u
                              /\ read[call[c].on].pc = "done"
                              => read[call[c].on].record \in {None, db[u]}
      BY <2>1 DEF NothingStale
    <3>1. \A j \in DOMAIN updates : j > 1 => updates[j].tenant # u
      <4> SUFFICES ASSUME NEW j \in DOMAIN updates, j > 1 PROVE updates[j].tenant # u
        OBVIOUS
      <4>1. j - 1 \in DOMAIN updates' /\ updates'[j - 1] = updates[j]
        BY <2>2
      <4> QED
        BY <4>1 DEF Undisturbed, NoUpdate
    <3>2. u \notin missed /\ u \notin overtaken' /\ unpublished # u
      BY <2>1 DEF Undisturbed
    <3>3. CASE u = t
      <4>1. record = db[u]
        BY <2>2, <3>1, <3>2, <3>3 DEF SyncInv, LastUpdateIsCurrent
      <4>2. Applied(t, record) \in {None, db[u]}
        BY <4>1 DEF Applied
      <4>3. cache'[u] \in {None, db[u]}
        BY <2>3, <2>4, <3>3, <4>2 DEF LoadInv, TypeOK
      <4>4. ~ReadHeld(u)
        BY <2>4, <3>2, <3>3
      <4> QED
        BY <4>3, <4>4 DEF ReadHeld
    <3>4. CASE u # t
      <4>1. Undisturbed(u)
        BY <2>2, <2>4, <3>1, <3>2, <3>4 DEF Undisturbed, NoUpdate
      <4>2. cache'[u] = cache[u]
        BY <2>3, <2>4, <3>4 DEF LoadInv, TypeOK
      <4> QED
        BY <4>1, <4>2 DEF SyncInv, NothingStale
    <3> QED
      BY <3>3, <3>4
  <2> QED
    BY <2>5, <2>6 DEF SyncInv
<1> DEFINE Told(u) ==
             /\ cache'[u] \in {None, db[u]}
             /\ \A d \in Calls :
                   /\ call'[d].pc = "awaiting"
                   /\ call'[d].tenant = u
                   /\ read'[call'[d].on].pc = "done"
                   => read'[call'[d].on].record \in {None, db[u]}
\* The calls leave alone what the first part speaks of, and the second part
\* is to be shown of an undisturbed tenant only.
<1>5. ASSUME UNCHANGED <<db, unpublished, updates, missed, overtaken>>,
             \A u \in Tenants : Undisturbed(u) => Told(u)
      PROVE  SyncInv'
  <2>1. LastUpdateIsCurrent'
    BY <1>5 DEF SyncInv, LastUpdateIsCurrent
  <2>2. \A u \in Tenants : Undisturbed(u)' => Undisturbed(u)
    BY <1>5 DEF Undisturbed, NoUpdate
  <2>3. NothingStale'
    BY <1>5, <2>2 DEF NothingStale
  <2> QED
    BY <2>1, <2>3 DEF SyncInv
<1>6. ASSUME NEW u \in Tenants, Undisturbed(u)
      PROVE  /\ cache[u] \in {None, db[u]}
             /\ \A d \in Calls :
                   /\ call[d].pc = "awaiting"
                   /\ call[d].tenant = u
                   /\ read[call[d].on].pc = "done"
                   => read[call[d].on].record \in {None, db[u]}
  BY <1>6 DEF SyncInv, NothingStale
<1>7. ASSUME NEW c \in Calls, NEW t \in Tenants, CallHit(c, t) PROVE SyncInv'
  <2>1. \A d \in Calls : call'[d].pc = "awaiting" => call'[d] = call[d]
    BY <1>7 DEF LoadInv, TypeOK, CallStates, CallHit
  <2>2. cache' = cache /\ read' = read
    BY <1>7 DEF CallHit
  <2>3. \A u \in Tenants : Undisturbed(u) => Told(u)
    BY <1>6, <2>1, <2>2
  <2> QED
    BY <1>5, <1>7, <2>3 DEF CallHit, store
<1>8. ASSUME NEW c \in Calls, NEW t \in Tenants, GetTenant(c, t) PROVE SyncInv'
  <2> DEFINE on == IF loads[t] = None THEN c ELSE loads[t]
  <2>1. /\ on \in Calls
        /\ call' = [call EXCEPT ![c] = [pc |-> "awaiting", tenant |-> t, on |-> on]]
    BY <1>8 DEF LoadInv, TypeOK, GetTenant, Registered, Await
  <2>2. IF loads[t] = None THEN read' = [read EXCEPT ![c] = [pc |-> "running", shared |-> TRUE, record |-> None]]
                           ELSE read' = read
    BY <1>8 DEF GetTenant, StartRead
  <2>3. cache' = cache
    BY <1>8 DEF GetTenant
  <2>4. \A x \in Calls : read'[x].pc = "done" => read'[x] = read[x]
    BY <2>2 DEF LoadInv, TypeOK
  <2>5. /\ call'[c].tenant = t /\ call'[c].on = on
        /\ \A d \in Calls \ {c} : call'[d] = call[d]
    BY <2>1 DEF LoadInv, TypeOK
  <2>6. ASSUME NEW u \in Tenants, Undisturbed(u) PROVE Told(u)
    <3> SUFFICES ASSUME NEW d \in Calls, call'[d].pc = "awaiting", call'[d].tenant = u,
                        read'[call'[d].on].pc = "done"
                 PROVE  read'[call'[d].on].record \in {None, db[u]}
      BY <1>6, <2>3, <2>6
    <3>1. CASE d = c
      <4>1. u = t /\ call'[d].on = on
        BY <2>5, <3>1
      <4>2. read'[on].pc = "done" /\ read'[on] = read[on]
        BY <2>1, <2>4, <4>1
      <4>3. loads[t] # None /\ on = loads[t]
        BY <2>1, <2>2, <4>2 DEF LoadInv, TypeOK
      <4>4. PICK e \in Calls : call[e].pc = "awaiting" /\ call[e].on = on
        BY <4>3 DEF LoadInv, NoDeadLoad
      <4>5. call[e].tenant = t
        BY <4>3, <4>4 DEF LoadInv, TypeOK, AwaitsARead
      <4> QED
        BY <1>6, <2>6, <4>1, <4>2, <4>4, <4>5
    <3>2. CASE d # c
      <4>1. call'[d] = call[d] /\ call[d].on \in Calls
        BY <2>5, <3>2 DEF LoadInv, AwaitsARead
      <4>2. read'[call[d].on] = read[call[d].on]
        BY <2>4, <4>1
      <4> QED
        BY <1>6, <2>6, <4>1, <4>2
    <3> QED
      BY <3>1, <3>2
  <2> QED
    BY <1>5, <1>8, <2>6 DEF GetTenant, store
<1>9. ASSUME NEW c \in Calls, NEW t \in Tenants, GetTenantByDomain(c, t) PROVE SyncInv'
  <2>1. /\ call' = [call EXCEPT ![c] = [pc |-> "awaiting", tenant |-> t, on |-> c]]
        /\ read' = [read EXCEPT ![c] = [pc |-> "running", shared |-> FALSE, record |-> None]]
        /\ cache' = cache
    BY <1>9 DEF GetTenantByDomain, Await, StartRead
  <2>2. /\ call'[c].on = c /\ read'[c].pc = "running"
        /\ \A d \in Calls \ {c} : call'[d] = call[d] /\ read'[d] = read[d]
    BY <2>1 DEF LoadInv, TypeOK
  <2>3. ASSUME NEW u \in Tenants, Undisturbed(u) PROVE Told(u)
    <3> SUFFICES ASSUME NEW d \in Calls, call'[d].pc = "awaiting", call'[d].tenant = u,
                        read'[call'[d].on].pc = "done"
                 PROVE  read'[call'[d].on].record \in {None, db[u]}
      BY <1>6, <2>1, <2>3
    <3>1. d # c
      BY <2>2
    <3>2. call'[d] = call[d] /\ call[d].on \in Calls
      BY <2>2, <3>1 DEF LoadInv, AwaitsARead
    <3>3. call[d].on # c
      BY <2>2, <3>2
    <3> QED
      BY <1>6, <2>2, <2>3, <3>2, <3>3
  <2> QED
    BY <1>5, <1>9, <2>3 DEF GetTenantByDomain, store
<1>10. ASSUME NEW c \in Calls, Read(c) PROVE SyncInv'
  <2>1. PICK record \in {db[call[c].tenant], None} :
            read' = [read EXCEPT ![c].pc = "done", ![c].record = record]
    BY <1>10 DEF Read
  <2>2. call' = call /\ cache' = cache
    BY <1>10 DEF Read
  <2>3. read'[c].record = record /\ \A d \in Calls \ {c} : read'[d] = read[d]
    BY <2>1 DEF LoadInv, TypeOK, ReadStates
  <2>4. ASSUME NEW u \in Tenants, Undisturbed(u) PROVE Told(u)
    <3> SUFFICES ASSUME NEW d \in Calls, call[d].pc = "awaiting", call[d].tenant = u,
                        read'[call[d].on].pc = "done"
                 PROVE  read'[call[d].on].record \in {None, db[u]}
      BY <1>6, <2>2, <2>4
    <3>1. call[d].on \in Calls /\ call[call[d].on].tenant = u
      BY DEF LoadInv, AwaitsARead
    <3> QED
      BY <1>6, <2>1, <2>3, <2>4, <3>1
  <2> QED
    BY <1>5, <1>10, <2>4 DEF Read, store
<1>11. ASSUME NEW c \in Calls, Return(c) PROVE SyncInv'
  <2> DEFINE t == call[c].tenant
             record == read[call[c].on].record
  <2>1. PICK pc \in {"returned", "cancelled"} : call' = [call EXCEPT ![c].pc = pc]
    BY <1>11 DEF Return, End
  <2>2. \A d \in Calls : call'[d].pc = "awaiting" => call'[d] = call[d]
    BY <2>1 DEF LoadInv, TypeOK, CallStates
  <2>3. t \in Tenants /\ call[c].pc = "awaiting" /\ read' = read
    BY <1>11 DEF LoadInv, AwaitsARead, Return
  <2>4. \/ cache' = cache
        \/ cache' = [cache EXCEPT ![t] = record] /\ read[call[c].on].pc = "done"
    BY <1>11 DEF Return
  <2>5. ASSUME NEW u \in Tenants, Undisturbed(u) PROVE Told(u)
    <3>1. cache'[u] \in {None, db[u]}
      BY <1>6, <2>3, <2>4, <2>5 DEF LoadInv, TypeOK
    <3> QED
      BY <1>6, <2>2, <2>3, <2>5, <3>1
  <2> QED
    BY <1>5, <1>11, <2>5 DEF Return, store
<1>12. ASSUME NEW c \in Calls, Cancel(c) PROVE SyncInv'
  <2>1. \A d \in Calls : call'[d].pc = "awaiting" => call'[d] = call[d]
    BY <1>12 DEF LoadInv, TypeOK, CallStates, Cancel, End
  <2>2. \A x \in Calls : read'[x].pc = "done" => read'[x] = read[x]
    <3>1. call[c].on \in Calls
      BY <1>12 DEF LoadInv, AwaitsARead, Cancel
    <3> QED
      BY <1>12, <3>1 DEF LoadInv, TypeOK, ReadStates, Cancel
  <2>3. cache' = cache
    BY <1>12 DEF Cancel
  <2>4. ASSUME NEW u \in Tenants, Undisturbed(u) PROVE Told(u)
    <3> SUFFICES ASSUME NEW d \in Calls, call'[d].pc = "awaiting", call'[d].tenant = u,
                        read'[call'[d].on].pc = "done"
                 PROVE  read'[call'[d].on].record \in {None, db[u]}
      BY <1>6, <2>3, <2>4
    <3>1. call'[d] = call[d] /\ call[d].on \in Calls
      BY <2>1 DEF LoadInv, AwaitsARead
    <3> QED
      BY <1>6, <2>2, <2>4, <3>1
  <2> QED
    BY <1>5, <1>12, <2>4 DEF Cancel, store
<1>13. CASE UNCHANGED vars
  BY <1>13 DEF vars, SyncInv, LastUpdateIsCurrent, NothingStale, Undisturbed, NoUpdate
<1> QED
  BY <1>1, <1>2, <1>3, <1>4, <1>7, <1>8, <1>9, <1>10, <1>11, <1>12, <1>13 DEF Next

\* The cache ends with the tenant as the database has it, or without it, for
\* whatever changes, lost notifications and cancellations: only a change that
\* was not received, or an update that met a read in hand, leaves an old
\* record behind.
THEOREM CacheInSync == Spec => []InSyncUnlessOvertaken
<1>1. SyncInv => InSyncUnlessOvertaken
  BY DEF SyncInv, NothingStale, Undisturbed, NoUpdate, InSyncUnlessOvertaken, Quiet
<1> QED
  BY <1>1, LoadInit, LoadStep, SyncInit, SyncStep, PTL DEF Spec
=============================================================================
