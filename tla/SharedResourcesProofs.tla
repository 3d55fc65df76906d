------------------------- MODULE SharedResourcesProofs -------------------------
(***************************************************************************)
(* What is proved of SharedResources: one theorem for each of its five     *)
(* components, from an inductive invariant of that component alone, and    *)
(* the type invariant of all five.                                         *)
(***************************************************************************)
EXTENDS SharedResources, SequenceTheorems, TLAPS

-----------------------------------------------------------------------------
(* A line: the sequence in which the calls wait for an asyncio.Lock, the     *)
(* head of which holds it.  Nobody stands in it twice.                       *)

IsLine(s, Waiting) ==
    /\ s \in Seq(Calls)
    /\ IsInjective(s)
    /\ \A c \in Calls : c \in Waiting <=> \E i \in DOMAIN s : s[i] = c

\* A call that asks for the lock joins the line at its end.
LEMMA LineJoined ==
    ASSUME NEW s, NEW W, NEW V, NEW c \in Calls, IsLine(s, W), c \notin W,
           \A d \in Calls : d \in V <=> d \in W \/ d = c
    PROVE  /\ IsLine(Append(s, c), V)
           /\ s # <<>> => Head(Append(s, c)) = Head(s)
           /\ Append(s, c) # <<>>
<1> DEFINE t == Append(s, c)
<1>1. s \in Seq(Calls) /\ IsInjective(s) BY DEF IsLine
<1>2. /\ t \in Seq(Calls) /\ Len(t) = Len(s) + 1 /\ Len(s) \in Nat
      /\ \A i \in 1 .. Len(s) : t[i] = s[i]
      /\ t[Len(s) + 1] = c
      /\ DOMAIN s = 1 .. Len(s) /\ DOMAIN t = 1 .. (Len(s) + 1)
  BY <1>1
<1>3. \A i \in DOMAIN s : s[i] # c BY DEF IsLine
<1> HIDE DEF t
<1>4. IsInjective(t)
  <2> SUFFICES ASSUME NEW i \in DOMAIN t, NEW j \in DOMAIN t, t[i] = t[j] PROVE i = j
    BY DEF IsInjective
  <2>1. CASE i \in DOMAIN s /\ j \in DOMAIN s BY <2>1, <1>1, <1>2 DEF IsInjective
  <2>2. CASE i \in DOMAIN s /\ j = Len(s) + 1 BY <2>2, <1>2, <1>3
  <2>3. CASE j \in DOMAIN s /\ i = Len(s) + 1 BY <2>3, <1>2, <1>3
  <2> QED BY <2>1, <2>2, <2>3, <1>2
<1>5. \A d \in Calls : d \in V <=> \E i \in DOMAIN t : t[i] = d
  <2> TAKE d \in Calls
  <2>1. (\E i \in DOMAIN t : t[i] = d) <=> (\E i \in DOMAIN s : s[i] = d) \/ d = c
    BY <1>2
  <2> QED BY <2>1 DEF IsLine
<1>6. (s # <<>> => Head(t) = Head(s)) /\ t # <<>> BY <1>1, <1>2 DEF t
<1> QED BY <1>2, <1>4, <1>5, <1>6 DEF IsLine, t

\* The holder leaves at its head.
LEMMA LineServed ==
    ASSUME NEW s, NEW W, NEW V, IsLine(s, W), s # <<>>,
           \A d \in Calls : d \in V <=> d \in W /\ d # Head(s)
    PROVE  IsLine(Tail(s), V)
<1> DEFINE t == Tail(s)
<1>1. s \in Seq(Calls) /\ IsInjective(s) BY DEF IsLine
<1>2. /\ t \in Seq(Calls) /\ Len(t) = Len(s) - 1 /\ Len(s) \in Nat \ {0}
      /\ \A i \in 1 .. Len(t) : t[i] = s[i + 1]
      /\ Head(s) = s[1]
      /\ DOMAIN s = 1 .. Len(s) /\ DOMAIN t = 1 .. (Len(s) - 1)
  BY <1>1
<1> HIDE DEF t
<1>4. IsInjective(t)
  BY <1>1, <1>2 DEF IsInjective
<1>5. \A d \in Calls : d \in V <=> \E i \in DOMAIN t : t[i] = d
  <2> TAKE d \in Calls
  <2>1. ASSUME d \in V PROVE \E i \in DOMAIN t : t[i] = d
    <3>1. PICK i \in DOMAIN s : s[i] = d BY <2>1 DEF IsLine
    <3>2. i # 1 BY <2>1, <3>1, <1>2
    <3>3. i - 1 \in DOMAIN t /\ t[i - 1] = d BY <3>1, <3>2, <1>2
    <3> QED BY <3>3
  <2>2. ASSUME NEW i \in DOMAIN t, t[i] = d PROVE d \in V
    <3>1. i + 1 \in DOMAIN s /\ s[i + 1] = d /\ 1 \in DOMAIN s /\ i + 1 # 1 BY <2>2, <1>2
    <3>2. d # Head(s) BY <3>1, <1>1, <1>2 DEF IsInjective
    <3> QED BY <3>1, <3>2 DEF IsLine
  <2> QED BY <2>1, <2>2
<1> QED BY <1>2, <1>4, <1>5 DEF IsLine, t

\* One that is cancelled, or done, leaves wherever it stands.
LEMMA LineLeft ==
    ASSUME NEW s, NEW W, NEW V, NEW c \in Calls, IsLine(s, W), c \in W,
           \A d \in Calls : d \in V <=> d \in W /\ d # c
    PROVE  /\ IsLine(RemoveFirst(s, c), V)
           /\ Head(s) # c => RemoveFirst(s, c) # <<>> /\ Head(RemoveFirst(s, c)) = Head(s)
<1>1. s \in Seq(Calls) /\ IsInjective(s) /\ Len(s) \in Nat /\ DOMAIN s = 1 .. Len(s)
  BY DEF IsLine
<1>2. PICK k \in 1 .. Len(s) : s[k] = c BY <1>1 DEF IsLine
<1>3. SelectInSeq(s, LAMBDA v : v = c) = k
  <2>1. {i \in 1 .. Len(s) : s[i] = c} = {k} BY <1>1, <1>2 DEF IsInjective
  <2>2. Min({k}) = k BY <1>1, <1>2 DEF Min
  <2> QED BY <2>1, <2>2 DEF SelectInSeq
<1> DEFINE t == RemoveFirst(s, c)
           u == SubSeq(s, 1, k - 1)
           v == SubSeq(s, k + 1, Len(s))
<1>4. t = u \o v BY <1>2, <1>3 DEF RemoveFirst, RemoveAt
<1>5. /\ u \in Seq(Calls) /\ Len(u) = k - 1 /\ \A i \in 1 .. (k - 1) : u[i] = s[i]
      /\ v \in Seq(Calls) /\ Len(v) = Len(s) - k
      /\ \A i \in 1 .. (Len(s) - k) : v[i] = s[k + i]
  <2>1. k \in Nat /\ 1 <= k /\ k <= Len(s) BY <1>1, <1>2
  <2>2. u \in Seq(Calls) /\ v \in Seq(Calls) BY <1>1, <2>1
  <2>3. Len(u) = k - 1 /\ \A i \in 1 .. (k - 1) : u[i] = s[i] BY <1>1, <2>1
  <2>4. Len(v) = Len(s) - k
    <3>1. \A i \in (k + 1) .. Len(s) : s[i] \in Calls BY <1>1, <2>1
    <3>2. k + 1 \in Int /\ Len(s) \in Int BY <1>1, <2>1
    <3>3. Len(v) = IF k + 1 <= Len(s) THEN Len(s) - (k + 1) + 1 ELSE 0
      BY <3>1, <3>2, SubSeqProperties
    <3> DEFINE l == Len(v)
               n == Len(s)
    <3> HIDE DEF l, n
    <3>4. k \in Int /\ n \in Int /\ k <= n BY <3>2, <2>1 DEF n
    <3>5. l = IF k + 1 <= n THEN n - (k + 1) + 1 ELSE 0 BY <3>3 DEF l, n
    <3>6. l = n - k BY <3>4, <3>5
    <3> QED BY <3>6 DEF l, n
  <2>5. \A i \in 1 .. (Len(s) - k) : v[i] = s[k + i] BY <1>1, <2>1
  <2> QED BY <2>2, <2>3, <2>4, <2>5
<1> HIDE DEF t, u, v
<1>6. /\ t \in Seq(Calls) /\ Len(t) = Len(s) - 1 /\ DOMAIN t = 1 .. (Len(s) - 1)
      /\ \A i \in 1 .. (Len(s) - 1) : t[i] = IF i < k THEN s[i] ELSE s[i + 1]
  <2>1. k \in Nat /\ 1 <= k /\ k <= Len(s) BY <1>1, <1>2
  <2>2. t \in Seq(Calls) /\ Len(t) = Len(s) - 1 /\ DOMAIN t = 1 .. (Len(s) - 1)
    <3>1. t \in Seq(Calls) /\ Len(t) = Len(u) + Len(v) BY <1>4, <1>5, ConcatProperties
    <3> QED BY <3>1, <2>1, <1>1, <1>5
  <2>3. ASSUME NEW i \in 1 .. (Len(s) - 1) PROVE t[i] = IF i < k THEN s[i] ELSE s[i + 1]
    <3>1. CASE i < k BY <3>1, <2>1, <1>1, <1>4, <1>5
    <3>2. CASE ~(i < k)
      <4>1. t[i] = v[i - (k - 1)]
        <5>1. i \in 1 .. (Len(u) + Len(v)) /\ ~(i <= Len(u)) BY <3>2, <2>1, <1>1, <1>5
        <5>2. t[i] = v[i - Len(u)] BY <5>1, <1>4, <1>5, ConcatProperties
        <5> QED BY <5>2, <1>5
      <4>2. i - (k - 1) \in 1 .. (Len(s) - k) /\ k + (i - (k - 1)) = i + 1
        BY <3>2, <2>1, <1>1
      <4> QED BY <4>1, <4>2, <3>2, <1>5
    <3> QED BY <3>1, <3>2
  <2> QED BY <2>2, <2>3
<1>7. IsInjective(t)
  <2> SUFFICES ASSUME NEW i \in DOMAIN t, NEW j \in DOMAIN t, t[i] = t[j] PROVE i = j
    BY DEF IsInjective
  <2> DEFINE Place(m) == IF m < k THEN m ELSE m + 1
  <2>1. Place(i) \in DOMAIN s /\ Place(j) \in DOMAIN s BY <1>1, <1>2, <1>6
  <2>2. s[Place(i)] = s[Place(j)] BY <1>1, <1>2, <1>6
  <2>3. Place(i) = Place(j) BY <2>1, <2>2, <1>1 DEF IsInjective
  <2> QED BY <2>3, <1>1, <1>2, <1>6
<1>8. \A d \in Calls : d \in V <=> \E i \in DOMAIN t : t[i] = d
  <2> TAKE d \in Calls
  <2>1. ASSUME d \in V PROVE \E i \in DOMAIN t : t[i] = d
    <3>1. PICK i \in DOMAIN s : s[i] = d BY <2>1 DEF IsLine
    <3>2. i # k BY <2>1, <3>1, <1>2
    <3>3. CASE i < k BY <3>1, <3>3, <1>1, <1>2, <1>6
    <3>4. CASE i > k
      <4>1. i - 1 \in DOMAIN t /\ t[i - 1] = d BY <3>1, <3>4, <1>1, <1>2, <1>6
      <4> QED BY <4>1
    <3> QED BY <3>1, <3>2, <3>3, <3>4, <1>1, <1>2
  <2>2. ASSUME NEW i \in DOMAIN t, t[i] = d PROVE d \in V
    <3>1. PICK j \in DOMAIN s : s[j] = d /\ j # k BY <2>2, <1>1, <1>2, <1>6
    <3>2. d # c BY <3>1, <1>1, <1>2 DEF IsInjective
    <3> QED BY <3>1, <3>2 DEF IsLine
  <2> QED BY <2>1, <2>2
<1>9. Head(s) # c => t # <<>> /\ Head(t) = Head(s)
  <2> SUFFICES ASSUME Head(s) # c PROVE t # <<>> /\ Head(t) = Head(s) OBVIOUS
  <2>1. Head(s) = s[1] /\ 1 < k BY <1>1, <1>2
  <2>2. Len(t) >= 1 /\ t[1] = s[1] BY <2>1, <1>1, <1>2, <1>6
  <2> QED BY <2>1, <2>2, <1>6
<1> QED BY <1>6, <1>7, <1>8, <1>9 DEF IsLine, t

\* The components' own names for these operators.
LEMMA SameOperators ==
    /\ \A s : Resolver!IsInjective(s) <=> IsInjective(s)
    /\ \A s, c : Resolver!RemoveFirst(s, c) = RemoveFirst(s, c)
    /\ \A s, c : Senders!RemoveFirst(s, c) = RemoveFirst(s, c)
    /\ \A s, c : Rabbit!RemoveFirst(s, c) = RemoveFirst(s, c)
BY DEF IsInjective, RemoveFirst, RemoveAt, SelectInSeq, Min,
       Resolver!IsInjective,
       Resolver!RemoveFirst, Resolver!RemoveAt, Resolver!SelectInSeq, Resolver!Min,
       Senders!RemoveFirst, Senders!RemoveAt, Senders!SelectInSeq, Senders!Min,
       Rabbit!RemoveFirst, Rabbit!RemoveAt, Rabbit!SelectInSeq, Rabbit!Min

-----------------------------------------------------------------------------
(* MongoDB clients.  The lock has one holder at most, which alone creates;   *)
(* a connection is known from its first client on, and a handle is of the    *)
(* connection it is stored under.                                            *)

Inside == {"locked", "creating", "storing"}
OfItsPlace(h, k) == h # Mongo!NoHandle => h.connection = k[1]

OneHolder == \A t \in Calls : threadAt[t] \in Inside <=> holder = t
ClientsCounted == \A n \in Connections : clients[n] = IF n \in known THEN 1 ELSE 0
HandlesInPlace == \A k \in Mongo!Keys : OfItsPlace(databases[k], k)
PlaceChosen == \A t \in Calls : threadAt[t] # "idle" => place[t] \in Mongo!Places
CreatesUnknown == \A t \in Calls : threadAt[t] = "creating" => place[t][1] \notin known
GotInPlace == \A t \in Calls : OfItsPlace(got[t], place[t])

MongoInv ==
    /\ Mongo!TypeOK
    /\ OneHolder /\ ClientsCounted /\ HandlesInPlace
    /\ PlaceChosen /\ CreatesUnknown /\ GotInPlace

LEMMA MongoInit ==
    ASSUME SharedAssumption, Mongo!Init PROVE MongoInv
<1> USE DEF Mongo!Init
<1>1. MaxCalls \in Nat /\ Mongo!NoOne \notin Calls
  BY DEF SharedAssumption, Mongo!MongoAssumption
<1>2. Mongo!TypeOK BY <1>1 DEF Mongo!TypeOK, Mongo!Handles
<1>3. OneHolder BY <1>1 DEF OneHolder, Inside
<1>4. ClientsCounted BY DEF ClientsCounted
<1>5. HandlesInPlace /\ GotInPlace BY DEF HandlesInPlace, GotInPlace, OfItsPlace
<1>6. PlaceChosen /\ CreatesUnknown BY DEF PlaceChosen, CreatesUnknown
<1> QED BY <1>2, <1>3, <1>4, <1>5, <1>6 DEF MongoInv

LEMMA MongoStep ==
    ASSUME SharedAssumption, MongoInv, Mongo!Next PROVE MongoInv'
<1>1. MaxCalls \in Nat /\ Mongo!NoOne \notin Calls
  BY DEF SharedAssumption, Mongo!MongoAssumption
<1> USE DEF MongoInv, Mongo!TypeOK, Mongo!Goto, Mongo!Key, Mongo!Keys, Mongo!Wanted
<1>2. ASSUME NEW t \in Calls, Mongo!Call(t) PROVE MongoInv'
  <2> USE <1>2 DEF Mongo!Call
  <2>1. Mongo!TypeOK' BY <1>1
  <2>2. OneHolder' BY DEF OneHolder, Inside
  <2>3. ClientsCounted' BY DEF ClientsCounted
  <2>4. HandlesInPlace' BY DEF HandlesInPlace, OfItsPlace
  <2>5. PlaceChosen' BY DEF PlaceChosen
  <2>6. CreatesUnknown' BY DEF CreatesUnknown
  <2>7. GotInPlace' BY DEF GotInPlace, OfItsPlace
  <2> QED BY <2>1, <2>2, <2>3, <2>4, <2>5, <2>6, <2>7
<1>3. ASSUME NEW t \in Calls, Mongo!Look(t) PROVE MongoInv'
  <2> USE <1>3 DEF Mongo!Look
  <2>0. place[t] \in Mongo!Places BY DEF PlaceChosen
  <2>1. Mongo!TypeOK' BY <2>0
  <2>2. OneHolder' BY DEF OneHolder, Inside
  <2>3. ClientsCounted' BY DEF ClientsCounted
  <2>4. HandlesInPlace' BY DEF HandlesInPlace, OfItsPlace
  <2>5. PlaceChosen' BY DEF PlaceChosen
  <2>6. CreatesUnknown' BY DEF CreatesUnknown
  <2>7. GotInPlace' BY <2>0 DEF GotInPlace, HandlesInPlace, OfItsPlace
  <2> QED BY <2>1, <2>2, <2>3, <2>4, <2>5, <2>6, <2>7
<1>4. ASSUME NEW t \in Calls, Mongo!Lock(t) PROVE MongoInv'
  <2> USE <1>4 DEF Mongo!Lock, Mongo!Free
  <2>1. Mongo!TypeOK' OBVIOUS
  <2>2. OneHolder' BY <1>1 DEF OneHolder, Inside
  <2>3. ClientsCounted' BY DEF ClientsCounted
  <2>4. HandlesInPlace' BY DEF HandlesInPlace, OfItsPlace
  <2>5. PlaceChosen' BY DEF PlaceChosen
  <2>6. CreatesUnknown' BY DEF CreatesUnknown
  <2>7. GotInPlace' BY DEF GotInPlace, OfItsPlace
  <2> QED BY <2>1, <2>2, <2>3, <2>4, <2>5, <2>6, <2>7
<1>5. ASSUME NEW t \in Calls, Mongo!Found(t) PROVE MongoInv'
  <2> USE <1>5 DEF Mongo!Found, Mongo!Unlock
  <2>0. place[t] \in Mongo!Places BY DEF PlaceChosen
  <2>1. Mongo!TypeOK' BY <2>0
  <2>2. OneHolder' BY <1>1 DEF OneHolder, Inside
  <2>3. ClientsCounted' BY DEF ClientsCounted
  <2>4. HandlesInPlace' BY DEF HandlesInPlace, OfItsPlace
  <2>5. PlaceChosen' BY DEF PlaceChosen
  <2>6. CreatesUnknown' BY DEF CreatesUnknown
  <2>7. GotInPlace' BY <2>0 DEF GotInPlace, HandlesInPlace, OfItsPlace
  <2> QED BY <2>1, <2>2, <2>3, <2>4, <2>5, <2>6, <2>7
<1>6. ASSUME NEW t \in Calls, Mongo!Missed(t) PROVE MongoInv'
  <2> USE <1>6 DEF Mongo!Missed
  <2>1. Mongo!TypeOK' OBVIOUS
  <2>2. OneHolder' BY DEF OneHolder, Inside
  <2>3. ClientsCounted' BY DEF ClientsCounted
  <2>4. HandlesInPlace' BY DEF HandlesInPlace, OfItsPlace
  <2>5. PlaceChosen' BY DEF PlaceChosen
  <2>6. CreatesUnknown' BY DEF CreatesUnknown
  <2>7. GotInPlace' BY DEF GotInPlace, OfItsPlace
  <2> QED BY <2>1, <2>2, <2>3, <2>4, <2>5, <2>6, <2>7
<1>7. ASSUME NEW t \in Calls, Mongo!Create(t) PROVE MongoInv'
  <2> USE <1>7 DEF Mongo!Create
  <2>0. place[t] \in Mongo!Places /\ place[t][1] \in Connections
    BY DEF PlaceChosen, Mongo!Places
  <2>1. Mongo!TypeOK' BY <2>0
  <2>2. OneHolder' BY DEF OneHolder, Inside
  <2>3. ClientsCounted' BY <2>0 DEF ClientsCounted, CreatesUnknown
  <2>4. HandlesInPlace' BY DEF HandlesInPlace, OfItsPlace
  <2>5. PlaceChosen' BY DEF PlaceChosen
  <2>6. CreatesUnknown' BY DEF CreatesUnknown, OneHolder, Inside
  <2>7. GotInPlace' BY DEF GotInPlace, OfItsPlace
  <2> QED BY <2>1, <2>2, <2>3, <2>4, <2>5, <2>6, <2>7
<1>8. ASSUME NEW t \in Calls, Mongo!CreateFails(t) PROVE MongoInv'
  <2> USE <1>8 DEF Mongo!CreateFails, Mongo!Unlock
  <2>1. Mongo!TypeOK' OBVIOUS
  <2>2. OneHolder' BY <1>1 DEF OneHolder, Inside
  <2>3. ClientsCounted' BY DEF ClientsCounted
  <2>4. HandlesInPlace' BY DEF HandlesInPlace, OfItsPlace
  <2>5. PlaceChosen' BY DEF PlaceChosen
  <2>6. CreatesUnknown' BY DEF CreatesUnknown
  <2>7. GotInPlace' BY DEF GotInPlace, OfItsPlace
  <2> QED BY <2>1, <2>2, <2>3, <2>4, <2>5, <2>6, <2>7
<1>9. ASSUME NEW t \in Calls, Mongo!Store(t) PROVE MongoInv'
  <2> USE <1>9 DEF Mongo!Store, Mongo!Unlock
  <2>0. place[t] \in Mongo!Places /\ place[t][1] \in Connections
    BY DEF PlaceChosen, Mongo!Places
  <2> DEFINE made == [connection |-> place[t][1], client |-> clients[place[t][1]]]
  <2>a. made \in Mongo!Handles BY <2>0 DEF Mongo!Handles
  <2>b. OfItsPlace(made, place[t]) BY DEF OfItsPlace
  <2>c. /\ databases' = [databases EXCEPT ![place[t]] = made]
        /\ got' = [got EXCEPT ![t] = made]
    OBVIOUS
  <2> HIDE DEF made
  <2>1. Mongo!TypeOK' BY <2>0, <2>a, <2>c
  <2>2. OneHolder' BY <1>1 DEF OneHolder, Inside
  <2>3. ClientsCounted' BY DEF ClientsCounted
  <2>4. HandlesInPlace' BY <2>0, <2>b, <2>c DEF HandlesInPlace
  <2>5. PlaceChosen' BY DEF PlaceChosen
  <2>6. CreatesUnknown' BY DEF CreatesUnknown
  <2>7. GotInPlace' BY <2>b, <2>c DEF GotInPlace
  <2> QED BY <2>1, <2>2, <2>3, <2>4, <2>5, <2>6, <2>7
<1> QED BY <1>2, <1>3, <1>4, <1>5, <1>6, <1>7, <1>8, <1>9 DEF Mongo!Next, Mongo!Step

LEMMA MongoStutter ==
    ASSUME MongoInv, UNCHANGED mongoVars PROVE MongoInv'
BY DEF MongoInv, mongoVars, Mongo!TypeOK, OneHolder, ClientsCounted, HandlesInPlace,
       PlaceChosen, CreatesUnknown, GotInPlace

-----------------------------------------------------------------------------
(* Token endpoints.  Exactly the calls that queue or discover stand in the   *)
(* line; one that discovers holds it and has found its tenant unknown, which *)
(* nobody else can change.                                                   *)

InResolverLine == {c \in Calls : resolverAt[c] \in {"queueing", "discovering"}}
DiscoversAsHolder ==
    \A c \in Calls : resolverAt[c] = "discovering" => Resolver!Holds(c) /\ ~Resolver!Known(c)

ResolverInv ==
    /\ Resolver!TypeOK
    /\ IsLine(resolverLine, InResolverLine)
    /\ DiscoversAsHolder

LEMMA ResolverInit ==
    ASSUME SharedAssumption, Resolver!Init PROVE ResolverInv
<1> USE DEF Resolver!Init
<1>1. MaxCancels \in Nat BY DEF SharedAssumption, Resolver!ResolverAssumption
<1>2. Resolver!TypeOK BY <1>1 DEF Resolver!TypeOK, Resolver!IsInjective
<1>3. IsLine(resolverLine, InResolverLine) BY DEF IsLine, IsInjective, InResolverLine
<1>4. DiscoversAsHolder BY DEF DiscoversAsHolder
<1> QED BY <1>2, <1>3, <1>4 DEF ResolverInv

LEMMA ResolverStep ==
    ASSUME SharedAssumption, ResolverInv, Resolver!Next PROVE ResolverInv'
<1>1. MaxCancels \in Nat BY DEF SharedAssumption, Resolver!ResolverAssumption
<1> USE DEF ResolverInv, Resolver!Goto
<1>2. ASSUME NEW c \in Calls, Resolver!Look(c) PROVE ResolverInv'
  <2> USE <1>2 DEF Resolver!Look
  <2>1. CASE Resolver!Known(c)
    <3>1. resolverLine' = resolverLine /\ resolverAt' = [resolverAt EXCEPT ![c] = "found"]
      BY <2>1
    <3>2. IsLine(resolverLine', InResolverLine')
      BY <3>1 DEF IsLine, InResolverLine, Resolver!TypeOK
    <3>3. Resolver!TypeOK' BY <3>1 DEF Resolver!TypeOK
    <3>4. DiscoversAsHolder'
      BY <3>1 DEF DiscoversAsHolder, Resolver!TypeOK, Resolver!Holds, Resolver!Known
    <3> QED BY <3>2, <3>3, <3>4
  <2>2. CASE ~Resolver!Known(c)
    <3>1. /\ resolverLine' = Append(resolverLine, c)
          /\ resolverAt' = [resolverAt EXCEPT ![c] = "queueing"]
      BY <2>2
    <3>2. /\ c \notin InResolverLine
          /\ \A d \in Calls : d \in InResolverLine' <=> d \in InResolverLine \/ d = c
      BY <3>1 DEF InResolverLine, Resolver!TypeOK
    <3>3. /\ IsLine(resolverLine', InResolverLine')
          /\ resolverLine # <<>> => Head(resolverLine') = Head(resolverLine)
          /\ resolverLine' # <<>>
      <4> HIDE DEF InResolverLine
      <4> QED BY <3>1, <3>2, LineJoined
    <3>4. Resolver!TypeOK' BY <3>1, <3>3, SameOperators DEF Resolver!TypeOK, IsLine
    <3>5. DiscoversAsHolder'
      BY <3>1, <3>3 DEF DiscoversAsHolder, Resolver!TypeOK, Resolver!Holds, Resolver!Known
    <3> QED BY <3>3, <3>4, <3>5
  <2> QED BY <2>1, <2>2
<1>3. ASSUME NEW c \in Calls, resolverAt[c] \in {"queueing", "discovering"},
             Resolver!Holds(c), resolverLine' = Tail(resolverLine),
             NEW p, p \notin {"queueing", "discovering"},
             resolverAt' = [resolverAt EXCEPT ![c] = p]
      PROVE  /\ IsLine(resolverLine', InResolverLine')
             /\ \A d \in Calls : resolverAt'[d] # "discovering"
  <2>1. resolverLine # <<>> /\ Head(resolverLine) = c BY <1>3 DEF Resolver!Holds
  <2>2. \A d \in Calls : d \in InResolverLine' <=> d \in InResolverLine /\ d # Head(resolverLine)
    BY <1>3, <2>1 DEF InResolverLine, Resolver!TypeOK
  <2>3. IsLine(resolverLine', InResolverLine') BY <1>3, <2>1, <2>2, LineServed
  <2>4. \A d \in Calls : resolverAt'[d] # "discovering"
    BY <1>3, <2>1 DEF DiscoversAsHolder, Resolver!Holds, Resolver!TypeOK
  <2> QED BY <2>3, <2>4
<1>4. ASSUME NEW c \in Calls, Resolver!Enter(c) PROVE ResolverInv'
  <2> USE <1>4 DEF Resolver!Enter
  <2>1. CASE Resolver!FoundByOther(c)
    <3>1. /\ resolverLine' = Tail(resolverLine)
          /\ resolverAt' = [resolverAt EXCEPT ![c] = "found"]
      BY <2>1
    <3>2. /\ IsLine(resolverLine', InResolverLine')
          /\ \A d \in Calls : resolverAt'[d] # "discovering"
      BY <3>1, <1>3
    <3>3. Resolver!TypeOK' BY <3>1, <3>2, SameOperators DEF Resolver!TypeOK, IsLine
    <3>4. DiscoversAsHolder' BY <3>2 DEF DiscoversAsHolder
    <3> QED BY <3>2, <3>3, <3>4
  <2>2. CASE ~Resolver!FoundByOther(c)
    <3>1. /\ resolverLine' = resolverLine
          /\ resolverAt' = [resolverAt EXCEPT ![c] = "discovering"]
      BY <2>2
    <3>2. IsLine(resolverLine', InResolverLine')
      BY <3>1 DEF IsLine, InResolverLine, Resolver!TypeOK
    <3>3. Resolver!TypeOK' BY <3>1 DEF Resolver!TypeOK
    <3>4. DiscoversAsHolder'
      BY <3>1, <2>2
      DEF DiscoversAsHolder, Resolver!TypeOK, Resolver!Holds, Resolver!Known,
          Resolver!FoundByOther
    <3> QED BY <3>2, <3>3, <3>4
  <2> QED BY <2>1, <2>2
<1>5. ASSUME NEW c \in Calls, Resolver!Discovered(c) PROVE ResolverInv'
  <2> USE <1>5 DEF Resolver!Discovered
  <2>1. Resolver!Holds(c) BY DEF DiscoversAsHolder
  <2>2. /\ IsLine(resolverLine', InResolverLine')
        /\ \A d \in Calls : resolverAt'[d] # "discovering"
    BY <2>1, <1>3
  <2>3. Resolver!TypeOK' BY <2>2, SameOperators DEF Resolver!TypeOK, IsLine, Resolver!Tenants
  <2>4. DiscoversAsHolder' BY <2>2 DEF DiscoversAsHolder
  <2> QED BY <2>2, <2>3, <2>4
<1>6. ASSUME NEW c \in Calls, Resolver!NotDiscovered(c) \/ Resolver!DiscoveryRaises(c)
      PROVE  ResolverInv'
  <2> USE DEF Resolver!Released
  <2>0. /\ resolverAt[c] = "discovering" /\ resolverLine' = Tail(resolverLine)
        /\ UNCHANGED <<discovered, fallback, resolverCancels>>
    BY <1>6 DEF Resolver!NotDiscovered, Resolver!DiscoveryRaises
  <2>1. Resolver!Holds(c) BY <2>0 DEF DiscoversAsHolder
  <2>2. PICK p \in {"configured", "raised"} : resolverAt' = [resolverAt EXCEPT ![c] = p]
    BY <1>6 DEF Resolver!NotDiscovered, Resolver!DiscoveryRaises, Resolver!Goto
  <2>3. /\ IsLine(resolverLine', InResolverLine')
        /\ \A d \in Calls : resolverAt'[d] # "discovering"
    BY <2>0, <2>1, <2>2, <1>3
  <2>4. Resolver!TypeOK' BY <2>0, <2>2, <2>3, SameOperators DEF Resolver!TypeOK, IsLine
  <2>5. DiscoversAsHolder' BY <2>3 DEF DiscoversAsHolder
  <2> QED BY <2>3, <2>4, <2>5
<1>7. ASSUME NEW c \in Calls, Resolver!Cancel(c) PROVE ResolverInv'
  <2> USE <1>7 DEF Resolver!Cancel
  <2>1. /\ c \in InResolverLine
        /\ \A d \in Calls : d \in InResolverLine' <=> d \in InResolverLine /\ d # c
    BY DEF InResolverLine, Resolver!TypeOK
  <2>2. /\ IsLine(resolverLine', InResolverLine')
        /\ Head(resolverLine) # c
              => resolverLine' # <<>> /\ Head(resolverLine') = Head(resolverLine)
    <3> HIDE DEF InResolverLine
    <3>1. resolverLine' = RemoveFirst(resolverLine, c) BY SameOperators
    <3> QED BY <2>1, <3>1, LineLeft
  <2>3. Resolver!TypeOK' BY <2>2, <1>1, SameOperators DEF Resolver!TypeOK, IsLine
  <2>4. DiscoversAsHolder'
    BY <2>2 DEF DiscoversAsHolder, Resolver!TypeOK, Resolver!Holds, Resolver!Known
  <2> QED BY <2>2, <2>3, <2>4
<1> QED BY <1>2, <1>4, <1>5, <1>6, <1>7 DEF Resolver!Next, Resolver!Step

LEMMA ResolverStutter ==
    ASSUME ResolverInv, UNCHANGED resolverVars PROVE ResolverInv'
BY DEF ResolverInv, resolverVars, Resolver!TypeOK, DiscoversAsHolder, InResolverLine, IsLine,
       Resolver!Holds, Resolver!Known

-----------------------------------------------------------------------------
(* Azure senders.  Each destination has its line; the call at its head is    *)
(* the only one inside a sender of it and alone changes its sender, so the   *)
(* one built for a retry is newer than any sender a send has failed in.      *)

Using == {"sending", "replacing", "retrying"}
InSenderLine(d) ==
    {c \in Calls : Senders!To(c) = d /\ senderAt[c] \in Using \cup {"queueing"}}

SenderLines == \A d \in Senders!Destinations : IsLine(senderLines[d], InSenderLine(d))
UsesAsHolder ==
    \A c \in Calls : senderAt[c] \in Using =>
        senderLines[Senders!To(c)] # <<>> /\ Head(senderLines[Senders!To(c)]) = c
UsesWhileInside == \A c \in Calls : uses[c] # 0 <=> senderAt[c] \in Using
NumbersMade ==
    /\ \A d \in Senders!Destinations : sender[d] <= sendersMade[d]
    /\ \A c \in Calls : uses[c] <= sendersMade[Senders!To(c)]
    /\ \A d \in Senders!Destinations, n \in Nat : <<d, n>> \in broken => n <= sendersMade[d]
ReplacesNone == \A c \in Calls : senderAt[c] = "replacing" => sender[Senders!To(c)] = 0
RetriesSound == \A c \in Calls : senderAt[c] = "retrying" => <<Senders!To(c), uses[c]>> \notin broken

SendersInv ==
    /\ Senders!TypeOK
    /\ SenderLines /\ UsesAsHolder /\ UsesWhileInside
    /\ NumbersMade /\ ReplacesNone /\ RetriesSound

LEMMA SendersInit ==
    ASSUME SharedAssumption, Senders!Init PROVE SendersInv
<1> USE DEF Senders!Init
<1>1. MaxCancels \in Nat BY DEF SharedAssumption, Senders!SendersAssumption
<1>2. Senders!TypeOK
  <2> USE DEF Senders!Numbers, Senders!Places, Senders!None
  <2>1. sendersMade \in [Senders!Destinations -> Nat] /\ sender = sendersMade OBVIOUS
  <2>2. senderLines \in [Senders!Destinations -> Seq(Calls)] OBVIOUS
  <2>3. senderAt \in [Calls -> Senders!Places] /\ uses \in [Calls -> Nat] OBVIOUS
  <2>4. broken = {} /\ sendersClosed \in BOOLEAN /\ sendCancels = 0 OBVIOUS
  <2> QED BY <2>1, <2>2, <2>3, <2>4, <1>1 DEF Senders!TypeOK
<1>3. SenderLines BY DEF SenderLines, IsLine, IsInjective, InSenderLine, Using
<1>4. UsesAsHolder /\ UsesWhileInside /\ ReplacesNone /\ RetriesSound
  BY DEF UsesAsHolder, UsesWhileInside, ReplacesNone, RetriesSound, Using, Senders!None
<1>5. \A c \in Calls : Senders!To(c) \in Senders!Destinations
  BY DEF Senders!To, Senders!Destinations
<1>6. NumbersMade BY <1>5 DEF NumbersMade, Senders!None
<1> QED BY <1>2, <1>3, <1>4, <1>6 DEF SendersInv

\* What a call that stays in its line, or in none, leaves of the lines.
LEMMA SenderLinesKept ==
    ASSUME SendersInv, NEW c \in Calls, NEW p,
           senderAt' = [senderAt EXCEPT ![c] = p], senderLines' = senderLines,
           senderAt[c] \in Using \cup {"queueing"} <=> p \in Using \cup {"queueing"},
           p \in Using => Senders!Mine(c)
    PROVE  SenderLines' /\ UsesAsHolder'
<1> USE DEF SendersInv, Senders!TypeOK
<1>1. \A d : InSenderLine(d)' = InSenderLine(d) BY DEF InSenderLine, Senders!To
<1>2. SenderLines' BY <1>1 DEF SenderLines, IsLine, Senders!Destinations
<1>3. ASSUME p \in Using PROVE senderLines[Senders!To(c)] # <<>>
  <2>1. c \in InSenderLine(Senders!To(c)) /\ Senders!To(c) \in Senders!Destinations
    BY <1>3 DEF InSenderLine, Senders!To, Senders!Destinations
  <2>2. \E i \in DOMAIN senderLines[Senders!To(c)] : senderLines[Senders!To(c)][i] = c
    BY <2>1 DEF SenderLines, IsLine
  <2> QED BY <2>2
<1>4. UsesAsHolder' BY <1>3 DEF UsesAsHolder, Senders!To, Senders!Mine
<1> QED BY <1>2, <1>4

\* And what one that leaves its line does.
LEMMA SenderReleased ==
    ASSUME SendersInv, NEW c \in Calls, NEW p,
           senderAt' = [senderAt EXCEPT ![c] = p], p \notin Using \cup {"queueing"},
           senderAt[c] \in Using \cup {"queueing"}, Senders!Release(c)
    PROVE  /\ senderLines' \in [Senders!Destinations -> Seq(Calls)]
           /\ SenderLines' /\ UsesAsHolder'
<1> USE DEF SendersInv
<1> DEFINE To == Senders!To(c)
<1>1. /\ senderLines \in [Senders!Destinations -> Seq(Calls)]
      /\ senderAt \in [Calls -> Senders!Places]
      /\ \A d \in Calls : Senders!To(d) \in Senders!Destinations
  BY DEF Senders!TypeOK, Senders!To, Senders!Destinations
<1>2. senderLines' = [senderLines EXCEPT ![To] = RemoveFirst(senderLines[To], c)]
  BY SameOperators DEF Senders!Release
<1>3. /\ c \in InSenderLine(To)
      /\ \A d \in Calls : d \in InSenderLine(To)' <=> d \in InSenderLine(To) /\ d # c
  BY <1>1 DEF InSenderLine, Senders!To
<1>4. /\ IsLine(senderLines'[To], InSenderLine(To)')
      /\ Head(senderLines[To]) # c
            => senderLines'[To] # <<>> /\ Head(senderLines'[To]) = Head(senderLines[To])
  <2>1. senderLines'[To] = RemoveFirst(senderLines[To], c) BY <1>1, <1>2
  <2>2. IsLine(senderLines[To], InSenderLine(To)) BY <1>1 DEF SenderLines
  <2> HIDE DEF To
  <2> QED BY <2>1, <2>2, <1>3, LineLeft
<1>5. ASSUME NEW d \in Senders!Destinations, d # To
      PROVE  senderLines'[d] = senderLines[d] /\ InSenderLine(d)' = InSenderLine(d)
  BY <1>1, <1>2, <1>5 DEF InSenderLine, Senders!To
<1>6. SenderLines' BY <1>4, <1>5 DEF SenderLines, Senders!Destinations
<1>7. UsesAsHolder'
  <2> SUFFICES ASSUME NEW d \in Calls, senderAt'[d] \in Using
               PROVE  senderLines'[Senders!To(d)] # <<>> /\ Head(senderLines'[Senders!To(d)]) = d
    BY DEF UsesAsHolder, Senders!To
  <2>1. d # c /\ senderAt[d] \in Using BY <1>1
  <2>2. senderLines[Senders!To(d)] # <<>> /\ Head(senderLines[Senders!To(d)]) = d
    BY <2>1 DEF UsesAsHolder
  <2>3. CASE Senders!To(d) = To BY <2>1, <2>2, <2>3, <1>4
  <2>4. CASE Senders!To(d) # To BY <2>2, <2>4, <1>1, <1>5
  <2> QED BY <2>3, <2>4
<1>8. senderLines' \in [Senders!Destinations -> Seq(Calls)]
  BY <1>1, <1>2, <1>4 DEF IsLine
<1> QED BY <1>6, <1>7, <1>8

\* _get_sender: what is entered is the destination's latest sender; one that
\* is built is newer than any that failed.
LEMMA SenderEntered ==
    ASSUME SendersInv, NEW c \in Calls, NEW p \in Using,
           Senders!EnterSender(c, p), Senders!Mine(c),
           senderAt[c] \in Using \cup {"queueing"},
           UNCHANGED <<broken, senderLines, sendersClosed, sendCancels>>,
           p # "replacing",
           p = "retrying" => sender[Senders!To(c)] = 0
    PROVE  SendersInv'
<1> USE DEF SendersInv
<1> DEFINE To == Senders!To(c)
           n == IF sender[To] = 0 THEN sendersMade[To] + 1 ELSE sender[To]
<1>1. /\ To \in Senders!Destinations
      /\ \A d \in Calls : Senders!To(d) \in Senders!Destinations
  BY DEF Senders!To, Senders!Destinations
<1>2. /\ sendersMade' = [sendersMade EXCEPT ![To] = IF sender[To] = 0 THEN n ELSE sendersMade[To]]
      /\ sender' = [sender EXCEPT ![To] = n]
      /\ uses' = [uses EXCEPT ![c] = n]
      /\ senderAt' = [senderAt EXCEPT ![c] = p]
  BY DEF Senders!EnterSender, Senders!Goto, Senders!None
<1>3. /\ sender \in [Senders!Destinations -> Nat] /\ sendersMade \in [Senders!Destinations -> Nat]
      /\ uses \in [Calls -> Nat] /\ senderAt \in [Calls -> Senders!Places]
      /\ broken \subseteq Senders!Destinations \X Nat
  BY DEF Senders!TypeOK, Senders!Numbers
<1>4. n \in Nat \ {0} /\ sender[To] \in Nat /\ sendersMade[To] \in Nat BY <1>1, <1>3
<1>5. /\ sender[To] = 0 => sendersMade'[To] = n /\ n > sendersMade[To]
      /\ sender[To] # 0 => sendersMade' = sendersMade /\ n <= sendersMade[To]
      /\ \A d \in Senders!Destinations : d # To => sendersMade'[d] = sendersMade[d]
      /\ sendersMade' \in [Senders!Destinations -> Nat]
  BY <1>1, <1>2, <1>3, <1>4 DEF NumbersMade
<1> HIDE DEF n, To
<1>6. Senders!TypeOK'
  <2>1. p \in Senders!Places BY DEF Using, Senders!Places
  <2> QED BY <2>1, <1>1, <1>2, <1>3, <1>4, <1>5 DEF Senders!TypeOK, Senders!Numbers
<1>7. SenderLines' /\ UsesAsHolder' BY <1>2, SenderLinesKept DEF To
<1>8. UsesWhileInside' BY <1>2, <1>3, <1>4 DEF UsesWhileInside
<1>9. \A d \in Senders!Destinations : sendersMade[d] <= sendersMade'[d]
  BY <1>3, <1>4, <1>5
<1>10. NumbersMade'
  <2>1. \A d \in Senders!Destinations : sender'[d] <= sendersMade'[d]
    BY <1>1, <1>2, <1>3, <1>4, <1>5, <1>9 DEF NumbersMade
  <2>2. ASSUME NEW d \in Calls PROVE uses'[d] <= sendersMade'[Senders!To(d)]
    <3>1. CASE d = c BY <3>1, <1>1, <1>2, <1>3, <1>4, <1>5 DEF To
    <3>2. CASE d # c
      <4>1. uses'[d] = uses[d] /\ uses[d] <= sendersMade[Senders!To(d)]
        BY <3>2, <1>2, <1>3 DEF NumbersMade
      <4>2. sendersMade[Senders!To(d)] <= sendersMade'[Senders!To(d)] BY <1>1, <1>9
      <4>3. /\ uses[d] \in Nat /\ sendersMade[Senders!To(d)] \in Nat
            /\ sendersMade'[Senders!To(d)] \in Nat
        BY <1>1, <1>3, <1>5
      <4> QED BY <4>1, <4>2, <4>3
    <3> QED BY <3>1, <3>2
  <2>3. ASSUME NEW d \in Senders!Destinations, NEW m \in Nat, <<d, m>> \in broken
        PROVE  m <= sendersMade'[d]
    BY <2>3, <1>3, <1>5, <1>9 DEF NumbersMade
  <2>4. Senders!Destinations' = Senders!Destinations /\ broken' = broken
        /\ \A d \in Calls : Senders!To(d)' = Senders!To(d)
    BY DEF Senders!Destinations, Senders!To
  <2> QED BY <2>1, <2>2, <2>3, <2>4 DEF NumbersMade
<1>11. \A d \in Calls : d # c /\ Senders!To(d) = To => senderAt[d] \notin Using
  <2>1. Head(senderLines[To]) = c BY DEF Senders!Mine, To
  <2> QED BY <2>1 DEF UsesAsHolder
<1>12. ReplacesNone' BY <1>1, <1>2, <1>3, <1>11 DEF ReplacesNone, Using, Senders!To
<1>13. RetriesSound'
  <2> SUFFICES ASSUME NEW d \in Calls, senderAt'[d] = "retrying"
               PROVE  <<Senders!To(d), uses'[d]>> \notin broken
    BY DEF RetriesSound, Senders!To
  <2>1. CASE d = c
    <3>1. p = "retrying" /\ uses'[d] = n BY <2>1, <1>2, <1>3
    <3>2. n > sendersMade[To] BY <3>1, <1>5 DEF To
    <3>3. \A m \in Nat : <<To, m>> \in broken => m <= sendersMade[To] BY <1>1 DEF NumbersMade
    <3>4. <<To, n>> \notin broken BY <3>2, <3>3, <1>4
    <3> QED BY <2>1, <3>1, <3>4 DEF To
  <2>2. CASE d # c BY <2>2, <1>2, <1>3 DEF RetriesSound
  <2> QED BY <2>1, <2>2
<1> QED BY <1>6, <1>7, <1>8, <1>10, <1>12, <1>13

LEMMA SendersStep ==
    ASSUME SharedAssumption, SendersInv, Senders!Next PROVE SendersInv'
<1> USE DEF SendersInv, Senders!Goto
<1>1. MaxCancels \in Nat BY DEF SharedAssumption, Senders!SendersAssumption
<1>2. /\ sender \in [Senders!Destinations -> Nat] /\ sendersMade \in [Senders!Destinations -> Nat]
      /\ uses \in [Calls -> Nat] /\ senderAt \in [Calls -> Senders!Places]
      /\ broken \subseteq Senders!Destinations \X Nat
      /\ \A d \in Calls : Senders!To(d) \in Senders!Destinations
  BY DEF Senders!TypeOK, Senders!Numbers, Senders!To, Senders!Destinations
\* Calls inside senders of one destination.
<1>3. ASSUME NEW c \in Calls, NEW d \in Calls, senderAt[c] \in Using, senderAt[d] \in Using,
             Senders!To(c) = Senders!To(d)
      PROVE  c = d
  BY <1>3 DEF UsesAsHolder
\* A call leaves its line and its sender; if the send failed there, the
\* sender is one that was built.
<1>4. ASSUME NEW c \in Calls, NEW p \in {"sent", "raised", "cancelled"},
             senderAt[c] \in Using \cup {"queueing"},
             senderAt' = [senderAt EXCEPT ![c] = p], Senders!Release(c),
             \/ broken' = broken
             \/ uses[c] # 0 /\ broken' = broken \cup {<<Senders!To(c), uses[c]>>},
             UNCHANGED <<sender, sendersMade, sendersClosed>>,
             sendCancels' \in 0 .. MaxCancels
      PROVE  SendersInv'
  <2>1. uses' = [uses EXCEPT ![c] = 0] BY <1>4 DEF Senders!Release, Senders!None
  <2>2. /\ senderLines' \in [Senders!Destinations -> Seq(Calls)]
        /\ SenderLines' /\ UsesAsHolder'
    <3>1. p \notin Using \cup {"queueing"} BY DEF Using
    <3> QED BY <3>1, <1>4, SenderReleased
  <2>3. broken' \subseteq Senders!Destinations \X Nat BY <1>2, <1>4
  <2>4. Senders!TypeOK'
    BY <2>1, <2>2, <2>3, <1>2, <1>4
    DEF Senders!TypeOK, Senders!Numbers, Senders!Places, Senders!Destinations
  <2>5. UsesWhileInside' BY <2>1, <1>2, <1>4 DEF UsesWhileInside, Using
  <2>6. NumbersMade'
    <3>1. \A d \in Calls : uses'[d] <= sendersMade[Senders!To(d)]
      BY <2>1, <1>2 DEF NumbersMade
    <3>2. ASSUME NEW d \in Senders!Destinations, NEW m \in Nat, <<d, m>> \in broken'
          PROVE  m <= sendersMade[d]
      BY <3>2, <1>2, <1>4 DEF NumbersMade
    <3> QED BY <3>1, <3>2, <1>4 DEF NumbersMade, Senders!Destinations, Senders!To
  <2>7. ReplacesNone' BY <1>2, <1>4 DEF ReplacesNone, Senders!To
  <2>8. RetriesSound'
    <3> SUFFICES ASSUME NEW d \in Calls, senderAt'[d] = "retrying"
                 PROVE  <<Senders!To(d), uses'[d]>> \notin broken'
      BY DEF RetriesSound, Senders!To
    <3>1. d # c /\ senderAt[d] = "retrying" /\ uses'[d] = uses[d] BY <2>1, <1>2, <1>4
    <3>2. <<Senders!To(d), uses[d]>> \notin broken BY <3>1 DEF RetriesSound
    <3>3. uses[c] # 0 => Senders!To(d) # Senders!To(c)
      BY <3>1, <1>3 DEF UsesWhileInside, Using
    <3> QED BY <3>1, <3>2, <3>3, <1>4
  <2> QED BY <2>2, <2>4, <2>5, <2>6, <2>7, <2>8
<1>5. ASSUME NEW c \in Calls, Senders!Ask(c) PROVE SendersInv'
  <2> USE <1>5 DEF Senders!Ask
  <2> DEFINE To == Senders!To(c)
  <2>1. senderLines \in [Senders!Destinations -> Seq(Calls)] BY DEF Senders!TypeOK
  <2>2. /\ c \notin InSenderLine(To)
        /\ \A d \in Calls : d \in InSenderLine(To)' <=> d \in InSenderLine(To) \/ d = c
    BY <1>2 DEF InSenderLine, Using, Senders!To
  <2>3. /\ IsLine(senderLines'[To], InSenderLine(To)')
        /\ senderLines[To] # <<>> => Head(senderLines'[To]) = Head(senderLines[To])
        /\ senderLines'[To] # <<>>
    <3>1. senderLines'[To] = Append(senderLines[To], c) BY <2>1, <1>2
    <3>2. IsLine(senderLines[To], InSenderLine(To)) BY <1>2 DEF SenderLines
    <3> HIDE DEF To
    <3> QED BY <3>1, <3>2, <2>2, LineJoined
  <2>4. ASSUME NEW d \in Senders!Destinations, d # To
        PROVE  senderLines'[d] = senderLines[d] /\ InSenderLine(d)' = InSenderLine(d)
    BY <2>1, <2>4, <1>2 DEF InSenderLine, Senders!To
  <2>5. SenderLines' BY <2>3, <2>4 DEF SenderLines, Senders!Destinations
  <2>6. UsesAsHolder'
    <3> SUFFICES ASSUME NEW d \in Calls, senderAt'[d] \in Using
                 PROVE  senderLines'[Senders!To(d)] # <<>> /\ Head(senderLines'[Senders!To(d)]) = d
      BY DEF UsesAsHolder, Senders!To
    <3>1. senderAt[d] \in Using BY <1>2 DEF Using
    <3>2. senderLines[Senders!To(d)] # <<>> /\ Head(senderLines[Senders!To(d)]) = d
      BY <3>1 DEF UsesAsHolder
    <3>3. CASE Senders!To(d) = To BY <3>2, <3>3, <2>3
    <3>4. CASE Senders!To(d) # To BY <3>2, <3>4, <1>2, <2>4
    <3> QED BY <3>3, <3>4
  <2>7. Senders!TypeOK'
    <3>1. senderLines' \in [Senders!Destinations -> Seq(Calls)]
      BY <2>1, <2>3, <1>2 DEF IsLine
    <3> QED BY <3>1, <1>2 DEF Senders!TypeOK, Senders!Places, Senders!Destinations
  <2>8. UsesWhileInside' BY <1>2 DEF UsesWhileInside, Using
  <2>9. NumbersMade' BY DEF NumbersMade, Senders!Destinations, Senders!To
  <2>10. ReplacesNone' /\ RetriesSound' BY <1>2 DEF ReplacesNone, RetriesSound, Senders!To
  <2> QED BY <2>5, <2>6, <2>7, <2>8, <2>9, <2>10
<1>6. ASSUME NEW c \in Calls, Senders!Send(c) PROVE SendersInv'
  <2>1. "sending" \in Using BY DEF Using
  <2> QED BY <2>1, <1>6, SenderEntered DEF Senders!Send
<1>7. ASSUME NEW c \in Calls, Senders!Sent(c) PROVE SendersInv'
  <2>1. sendCancels' \in 0 .. MaxCancels BY <1>7 DEF Senders!Sent, Senders!TypeOK
  <2>2. /\ senderAt[c] \in Using \cup {"queueing"}
        /\ senderAt' = [senderAt EXCEPT ![c] = "sent"] /\ Senders!Release(c)
        /\ broken' = broken /\ UNCHANGED <<sender, sendersMade, sendersClosed>>
    BY <1>7 DEF Senders!Sent, Using
  <2> QED BY <2>1, <2>2, <1>4
<1>8. ASSUME NEW c \in Calls, Senders!SendFails(c) PROVE SendersInv'
  <2> USE <1>8 DEF Senders!SendFails
  <2> DEFINE To == Senders!To(c)
  <2>1. /\ broken' = broken \cup {<<To, uses[c]>>}
        /\ sender' = [sender EXCEPT ![To] = 0]
        /\ senderAt' = [senderAt EXCEPT ![c] = "replacing"]
    BY DEF Senders!None
  <2>2. To \in Senders!Destinations /\ senderAt[c] \in Using BY <1>2 DEF Using
  <2> HIDE DEF To
  <2>3. Senders!TypeOK'
    <3>1. broken' \subseteq Senders!Destinations \X Nat BY <2>1, <2>2, <1>2
    <3>2. sender' \in [Senders!Destinations -> Nat] BY <2>1, <2>2, <1>2
    <3>3. senderAt' \in [Calls -> Senders!Places] BY <2>1, <1>2 DEF Senders!Places
    <3> QED BY <3>1, <3>2, <3>3 DEF Senders!TypeOK, Senders!Numbers, Senders!Destinations
  <2>4. SenderLines' /\ UsesAsHolder'
    <3>1. Senders!Mine(c) /\ "replacing" \in Using
      BY <2>2 DEF UsesAsHolder, Senders!Mine, Using
    <3> QED BY <3>1, <2>1, <2>2, SenderLinesKept
  <2>5. UsesWhileInside' BY <2>1, <1>2 DEF UsesWhileInside, Using
  <2>6. NumbersMade'
    <3>1. \A d \in Senders!Destinations : sender'[d] <= sendersMade[d]
      BY <2>1, <2>2, <1>2 DEF NumbersMade
    <3>2. ASSUME NEW d \in Senders!Destinations, NEW m \in Nat, <<d, m>> \in broken'
          PROVE  m <= sendersMade[d]
      BY <3>2, <2>1, <1>2 DEF NumbersMade, To
    <3> QED BY <3>1, <3>2 DEF NumbersMade, Senders!Destinations, Senders!To
  <2>7. ReplacesNone' BY <2>1, <2>2, <1>2 DEF ReplacesNone, Senders!To, To
  <2>8. RetriesSound'
    <3> SUFFICES ASSUME NEW d \in Calls, senderAt'[d] = "retrying"
                 PROVE  <<Senders!To(d), uses[d]>> \notin broken'
      BY DEF RetriesSound, Senders!To
    <3>1. d # c /\ senderAt[d] = "retrying" BY <2>1, <1>2
    <3>2. Senders!To(d) # To BY <3>1, <2>2, <1>3 DEF To, Using
    <3> QED BY <3>1, <3>2, <2>1 DEF RetriesSound
  <2> QED BY <2>3, <2>4, <2>5, <2>6, <2>7, <2>8
<1>9. ASSUME NEW c \in Calls, Senders!Retry(c) PROVE SendersInv'
  <2>1. "retrying" \in Using /\ senderAt[c] \in Using BY <1>9 DEF Using, Senders!Retry
  <2>2. Senders!Mine(c) /\ sender[Senders!To(c)] = 0
    BY <2>1, <1>9 DEF UsesAsHolder, Senders!Mine, ReplacesNone, Senders!Retry
  <2> QED BY <2>1, <2>2, <1>9, SenderEntered DEF Senders!Retry
<1>10. ASSUME NEW c \in Calls, Senders!RetryFails(c) PROVE SendersInv'
  <2>1. sendCancels' \in 0 .. MaxCancels BY <1>10 DEF Senders!RetryFails, Senders!TypeOK
  <2>2. uses[c] # 0 BY <1>10 DEF UsesWhileInside, Using, Senders!RetryFails
  <2> QED BY <2>1, <2>2, <1>4, <1>10 DEF Senders!RetryFails, Using
<1>11. ASSUME NEW c \in Calls, Senders!Cancel(c) PROVE SendersInv'
  <2>1. sendCancels' \in 0 .. MaxCancels BY <1>1, <1>11 DEF Senders!Cancel, Senders!TypeOK
  <2>2. \/ broken' = broken
        \/ uses[c] # 0 /\ broken' = broken \cup {<<Senders!To(c), uses[c]>>}
    <3>1. broken' = IF uses[c] = 0 THEN broken ELSE broken \cup {<<Senders!To(c), uses[c]>>}
      BY <1>11 DEF Senders!Cancel, Senders!None
    <3>2. CASE uses[c] = 0 BY <3>1, <3>2
    <3>3. CASE uses[c] # 0 BY <3>1, <3>3
    <3> QED BY <3>2, <3>3
  <2>3. /\ senderAt[c] \in Using \cup {"queueing"}
        /\ senderAt' = [senderAt EXCEPT ![c] = "cancelled"] /\ Senders!Release(c)
        /\ UNCHANGED <<sender, sendersMade, sendersClosed>>
    BY <1>11 DEF Senders!Cancel, Using
  <2> QED BY <2>1, <2>2, <2>3, <1>4
<1>12. ASSUME Senders!Close PROVE SendersInv'
  <2> USE <1>12 DEF Senders!Close
  <2>1. \A d : InSenderLine(d)' = InSenderLine(d) BY DEF InSenderLine, Senders!To
  <2>2. SenderLines' BY <2>1 DEF SenderLines, IsLine, Senders!Destinations
  <2>3. Senders!TypeOK' BY DEF Senders!TypeOK, Senders!Destinations
  <2> QED BY <2>2, <2>3
    DEF UsesAsHolder, UsesWhileInside, NumbersMade, ReplacesNone, RetriesSound,
        Senders!Destinations, Senders!To
<1> QED BY <1>5, <1>6, <1>7, <1>8, <1>9, <1>10, <1>11, <1>12 DEF Senders!Next, Senders!Step

LEMMA SendersStutter ==
    ASSUME SendersInv, UNCHANGED sendersVars PROVE SendersInv'
<1> USE DEF SendersInv, sendersVars
<1>1. \A d : InSenderLine(d)' = InSenderLine(d) BY DEF InSenderLine, Senders!To
<1>2. SenderLines' BY <1>1 DEF SenderLines, IsLine, Senders!Destinations
<1>3. Senders!TypeOK' BY DEF Senders!TypeOK, Senders!Destinations
<1> QED BY <1>2, <1>3
  DEF UsesAsHolder, UsesWhileInside, NumbersMade, ReplacesNone, RetriesSound,
      Senders!Destinations, Senders!To

-----------------------------------------------------------------------------
(* The RabbitMQ connection.  One call initialises at a time, and only while  *)
(* the client is not initialised; the connection in place is then given up,  *)
(* closed, or the one it opened itself.                                      *)

Opening == {"opening", "declaring"}
Initializing == Opening \cup {"connecting"}
InInitLine == {c \in Calls : connectorAt[c] \in Initializing \cup {"queueing"}}

InitializesAsHolder == \A c \in Calls : connectorAt[c] \in Initializing => Head(initLine) = c
NotYetInitialized == \A c \in Calls : connectorAt[c] \in Initializing => ~initialized
OpensAConnection ==
    /\ \A c \in Calls : connectorAt[c] \in Opening => connection # 0
    /\ closing # "idle" => target # 0
ConnectionInUse ==
    \/ initialized
    \/ \E c \in Calls : connectorAt[c] \in Opening
    \/ connection \notin open
    \/ connection \in abandoned

RabbitInv ==
    /\ Rabbit!TypeOK
    /\ IsLine(initLine, InInitLine) /\ InitializesAsHolder /\ NotYetInitialized
    /\ OpensAConnection /\ ConnectionInUse
    /\ Rabbit!OneConnection

\* The place of one call changes, and with it the line.
InitLineOK == IsLine(initLine, InInitLine) /\ InitializesAsHolder

LEMMA RabbitInit ==
    ASSUME SharedAssumption, Rabbit!Init PROVE RabbitInv
<1> USE DEF Rabbit!Init, Rabbit!None
<1>1. MaxCancels \in Nat /\ MaxCloses \in Nat
  BY DEF SharedAssumption, Rabbit!ConnectionAssumption
<1>2. Rabbit!TypeOK
  <2>1. connectorAt \in [Calls -> Rabbit!Places] BY DEF Rabbit!Places
  <2>2. initialized = FALSE /\ initLine \in Seq(Calls) /\ connection = 0 /\ channel = 0 OBVIOUS
  <2>3. open = {} /\ muted = {} /\ connectionsMade = 0 /\ closing = "idle" /\ target = 0
    OBVIOUS
  <2>4. initCancels = 0 /\ closes = 0 /\ abandoned = {} OBVIOUS
  <2> HIDE DEF Rabbit!Init
  <2>5. initCancels \in 0 .. MaxCancels /\ closes \in 0 .. MaxCloses BY <2>4, <1>1
  <2>6. open \subseteq Rabbit!Numbers /\ muted \subseteq Rabbit!Numbers
        /\ abandoned \subseteq Rabbit!Numbers
    BY <2>3, <2>4
  <2>7. initialized \in BOOLEAN BY <2>2
  <2> QED BY <2>1, <2>2, <2>3, <2>5, <2>6, <2>7 DEF Rabbit!TypeOK
<1>3. IsLine(initLine, InInitLine)
  BY DEF IsLine, IsInjective, InInitLine, Initializing, Opening
<1>4. InitializesAsHolder /\ NotYetInitialized /\ OpensAConnection
  BY DEF InitializesAsHolder, NotYetInitialized, OpensAConnection, Initializing, Opening
<1>5. ConnectionInUse /\ Rabbit!OneConnection BY DEF ConnectionInUse, Rabbit!OneConnection
<1> QED BY <1>2, <1>3, <1>4, <1>5 DEF RabbitInv

LEMMA InitLineKept ==
    ASSUME RabbitInv, NEW c \in Calls, NEW p,
           connectorAt' = [connectorAt EXCEPT ![c] = p], initLine' = initLine,
           c \in InInitLine <=> p \in Initializing \cup {"queueing"},
           p \in Initializing => Head(initLine) = c
    PROVE  InitLineOK'
<1>1. connectorAt \in [Calls -> Rabbit!Places] BY DEF RabbitInv, Rabbit!TypeOK
<1>2. InInitLine' = InInitLine BY <1>1 DEF InInitLine
<1>3. InitializesAsHolder' BY <1>1 DEF InitializesAsHolder, RabbitInv
<1>4. IsLine(initLine, InInitLine)' BY <1>2 DEF RabbitInv, IsLine
<1> QED BY <1>3, <1>4 DEF InitLineOK

LEMMA InitLineJoined ==
    ASSUME RabbitInv, NEW c \in Calls,
           connectorAt' = [connectorAt EXCEPT ![c] = "queueing"],
           initLine' = Append(initLine, c), c \notin InInitLine
    PROVE  InitLineOK'
<1>1. connectorAt \in [Calls -> Rabbit!Places] BY DEF RabbitInv, Rabbit!TypeOK
<1>2. \A d \in Calls : d \in InInitLine' <=> d \in InInitLine \/ d = c
  BY <1>1 DEF InInitLine, Initializing
<1>3. /\ IsLine(initLine', InInitLine')
      /\ initLine # <<>> => Head(initLine') = Head(initLine)
  BY <1>2, LineJoined DEF RabbitInv
<1>4. ASSUME NEW d \in Calls, connectorAt'[d] \in Initializing PROVE Head(initLine') = d
  <2>1. d # c /\ connectorAt[d] \in Initializing BY <1>1, <1>4 DEF Initializing, Opening
  <2>2. initLine # <<>> BY <2>1 DEF RabbitInv, IsLine, InInitLine
  <2> QED BY <2>1, <2>2, <1>3 DEF RabbitInv, InitializesAsHolder
<1> QED BY <1>3, <1>4 DEF InitLineOK, InitializesAsHolder

LEMMA InitLineServed ==
    ASSUME RabbitInv, NEW c \in Calls, NEW p, p \notin Initializing \cup {"queueing"},
           connectorAt' = [connectorAt EXCEPT ![c] = p],
           initLine' = Tail(initLine), c \in InInitLine, Head(initLine) = c
    PROVE  InitLineOK' /\ \A d \in Calls : connectorAt'[d] \notin Initializing
<1>1. connectorAt \in [Calls -> Rabbit!Places] BY DEF RabbitInv, Rabbit!TypeOK
<1>2. \A d \in Calls : d \in InInitLine' <=> d \in InInitLine /\ d # Head(initLine)
  BY <1>1 DEF InInitLine
<1>3. initLine # <<>> BY DEF RabbitInv, IsLine
<1>4. IsLine(initLine', InInitLine') BY <1>2, <1>3, LineServed DEF RabbitInv
<1>5. \A d \in Calls : connectorAt'[d] \notin Initializing
  BY <1>1 DEF RabbitInv, InitializesAsHolder
<1> QED BY <1>4, <1>5 DEF InitLineOK, InitializesAsHolder

LEMMA InitLineLeft ==
    ASSUME RabbitInv, NEW c \in Calls, NEW p, p \notin Initializing \cup {"queueing"},
           connectorAt' = [connectorAt EXCEPT ![c] = p],
           initLine' = Rabbit!RemoveFirst(initLine, c), c \in InInitLine
    PROVE  InitLineOK'
<1>1. connectorAt \in [Calls -> Rabbit!Places] BY DEF RabbitInv, Rabbit!TypeOK
<1>2. \A d \in Calls : d \in InInitLine' <=> d \in InInitLine /\ d # c
  BY <1>1 DEF InInitLine
<1>3. /\ IsLine(initLine', InInitLine')
      /\ Head(initLine) # c => Head(initLine') = Head(initLine)
  <2>1. initLine' = RemoveFirst(initLine, c) BY SameOperators
  <2> QED BY <2>1, <1>2, LineLeft DEF RabbitInv
<1>4. InitializesAsHolder' BY <1>1, <1>3 DEF RabbitInv, InitializesAsHolder
<1> QED BY <1>3, <1>4 DEF InitLineOK

LEMMA RabbitStep ==
    ASSUME SharedAssumption, RabbitInv, Rabbit!Next PROVE RabbitInv'
<1>1. MaxCancels \in Nat /\ MaxCloses \in Nat
  BY DEF SharedAssumption, Rabbit!ConnectionAssumption
<1>2. Rabbit!TypeOK BY DEF RabbitInv
<1>3. /\ connectorAt \in [Calls -> Rabbit!Places]
      /\ connectionsMade \in Nat /\ connection \in Nat /\ channel \in Nat /\ target \in Nat
      /\ open \subseteq Nat \ {0} /\ muted \subseteq Nat \ {0} /\ abandoned \subseteq Nat \ {0}
  BY <1>2 DEF Rabbit!TypeOK, Rabbit!Numbers, Rabbit!None
<1>4. \A c \in Calls : connectorAt[c] \in Initializing => Head(initLine) = c /\ ~initialized
  BY DEF RabbitInv, InitializesAsHolder, NotYetInitialized
<1> USE DEF Rabbit!Goto, Rabbit!Numbers, Rabbit!None, Rabbit!service, Rabbit!closer
\* What only moves a call on, and leaves initialized and the connections.
<1>5. ASSUME NEW c \in Calls, NEW p \in Rabbit!Places,
             connectorAt' = [connectorAt EXCEPT ![c] = p], InitLineOK',
             p \notin Opening, connectorAt[c] \notin Opening,
             p = "connecting" => ~initialized,
             UNCHANGED <<initialized, connection, channel, open, muted, connectionsMade,
                         closing, target, closes, abandoned>>,
             initCancels' \in 0 .. MaxCancels
      PROVE  RabbitInv'
  <2> USE <1>5
  <2>1. Rabbit!TypeOK' BY <1>2, <1>3 DEF Rabbit!TypeOK, InitLineOK, IsLine
  <2>2. NotYetInitialized'
    BY <1>3 DEF NotYetInitialized, RabbitInv, Initializing
  <2>3. OpensAConnection' BY <1>3 DEF OpensAConnection, RabbitInv
  <2>4. ConnectionInUse' BY <1>3 DEF ConnectionInUse, RabbitInv
  <2>5. Rabbit!OneConnection' BY DEF Rabbit!OneConnection, RabbitInv
  <2> QED BY <2>1, <2>2, <2>3, <2>4, <2>5 DEF RabbitInv, InitLineOK
<1>6. ASSUME NEW c \in Calls, Rabbit!Look(c) PROVE RabbitInv'
  <2> USE <1>6 DEF Rabbit!Look
  <2>1. initCancels' \in 0 .. MaxCancels BY <1>2 DEF Rabbit!TypeOK
  <2>2. CASE initialized
    <3>1. connectorAt' = [connectorAt EXCEPT ![c] = "ready"] /\ initLine' = initLine
      BY <2>2
    <3>2. InitLineOK' BY <3>1, InitLineKept DEF InInitLine, Initializing, Opening
    <3> QED BY <2>1, <3>1, <3>2, <1>5 DEF Opening, Rabbit!Places
  <2>3. CASE ~initialized
    <3>1. /\ connectorAt' = [connectorAt EXCEPT ![c] = "queueing"]
          /\ initLine' = Append(initLine, c)
      BY <2>3
    <3>2. InitLineOK' BY <3>1, InitLineJoined DEF InInitLine, Initializing, Opening
    <3> QED BY <2>1, <3>1, <3>2, <1>5 DEF Opening, Rabbit!Places
  <2> QED BY <2>2, <2>3
<1>7. ASSUME NEW c \in Calls, Rabbit!Enter(c) PROVE RabbitInv'
  <2> USE <1>7 DEF Rabbit!Enter, Rabbit!InitializedByOther
  <2>1. initCancels' \in 0 .. MaxCancels BY <1>2 DEF Rabbit!TypeOK
  <2>2. c \in InInitLine BY DEF InInitLine
  <2>3. CASE initialized
    <3>1. connectorAt' = [connectorAt EXCEPT ![c] = "ready"] /\ initLine' = Tail(initLine)
      BY <2>3
    <3>2. InitLineOK' BY <2>2, <3>1, InitLineServed DEF Initializing, Opening
    <3> QED BY <2>1, <3>1, <3>2, <1>5 DEF Opening, Rabbit!Places
  <2>4. CASE ~initialized
    <3>1. connectorAt' = [connectorAt EXCEPT ![c] = "connecting"] /\ initLine' = initLine
      BY <2>4
    <3>2. InitLineOK' BY <2>2, <3>1, InitLineKept DEF Initializing
    <3> QED BY <2>1, <2>4, <3>1, <3>2, <1>5 DEF Opening, Rabbit!Places
  <2> QED BY <2>3, <2>4
<1>8. ASSUME NEW c \in Calls, Rabbit!Publish(c) PROVE RabbitInv'
  <2> USE <1>8 DEF Rabbit!Publish
  <2>1. initCancels' \in 0 .. MaxCancels BY <1>2 DEF Rabbit!TypeOK
  <2> DEFINE p == IF channel \in open \ muted THEN "sent" ELSE "raised"
  <2>2. connectorAt' = [connectorAt EXCEPT ![c] = p] /\ p \in {"sent", "raised"} OBVIOUS
  <2> HIDE DEF p
  <2>3. InitLineOK' BY <2>2, InitLineKept DEF InInitLine, Initializing, Opening
  <2> QED BY <2>1, <2>2, <2>3, <1>5 DEF Opening, Rabbit!Places
\* The initialisation: its calls are alone in it, and before the flag is set.
<1>9. ASSUME NEW c \in Calls, Rabbit!Connected(c) PROVE RabbitInv'
  <2> USE <1>9 DEF Rabbit!Connected
  <2>1. c \in InInitLine /\ Head(initLine) = c /\ ~initialized
    BY <1>4 DEF InInitLine, Initializing
  <2>2. InitLineOK' BY <2>1, InitLineKept DEF Initializing, Opening
  <2>3. Rabbit!TypeOK'
    BY <2>2, <1>2, <1>3 DEF Rabbit!TypeOK, Rabbit!Places, InitLineOK, IsLine
  <2>4. NotYetInitialized' BY <2>1 DEF NotYetInitialized
  <2>5. OpensAConnection' BY <1>3 DEF OpensAConnection, RabbitInv
  <2>6. ConnectionInUse' BY <1>3 DEF ConnectionInUse, Opening
  <2>7. connection \notin open \/ connection \in abandoned
    <3>1. \A d \in Calls : connectorAt[d] \notin Opening
      BY <2>1, <1>4 DEF Initializing, Opening
    <3> QED BY <2>1, <3>1 DEF RabbitInv, ConnectionInUse
  <2>8. Rabbit!OneConnection' BY <2>1, <2>7 DEF Rabbit!OneConnection, RabbitInv
  <2> QED BY <2>2, <2>3, <2>4, <2>5, <2>6, <2>8 DEF RabbitInv, InitLineOK
<1>10. ASSUME NEW c \in Calls, Rabbit!Opened(c) PROVE RabbitInv'
  <2> USE <1>10 DEF Rabbit!Opened
  <2>1. c \in InInitLine /\ Head(initLine) = c /\ ~initialized
    BY <1>4 DEF InInitLine, Initializing, Opening
  <2>2. InitLineOK' BY <2>1, InitLineKept DEF Initializing, Opening
  <2>3. Rabbit!TypeOK'
    BY <2>2, <1>2, <1>3 DEF Rabbit!TypeOK, Rabbit!Places, InitLineOK, IsLine
  <2>4. NotYetInitialized' BY <2>1 DEF NotYetInitialized
  <2>5. OpensAConnection' BY <1>3 DEF OpensAConnection, RabbitInv, Opening
  <2>6. ConnectionInUse' BY <1>3 DEF ConnectionInUse, Opening
  <2>7. Rabbit!OneConnection' BY <2>1 DEF Rabbit!OneConnection, RabbitInv
  <2> QED BY <2>2, <2>3, <2>4, <2>5, <2>6, <2>7 DEF RabbitInv, InitLineOK
<1>11. ASSUME NEW c \in Calls, Rabbit!Declared(c) PROVE RabbitInv'
  <2> USE <1>11 DEF Rabbit!Declared
  <2>1. c \in InInitLine /\ Head(initLine) = c
    BY <1>4 DEF InInitLine, Initializing, Opening
  <2>2. InitLineOK' /\ \A d \in Calls : connectorAt'[d] \notin Initializing
    BY <2>1, InitLineServed DEF Initializing, Opening
  <2>3. Rabbit!TypeOK'
    BY <2>2, <1>2, <1>3 DEF Rabbit!TypeOK, Rabbit!Places, InitLineOK, IsLine
  <2>4. NotYetInitialized' BY <2>2 DEF NotYetInitialized
  <2>5. OpensAConnection' BY <2>2 DEF OpensAConnection, RabbitInv, Initializing
  <2>6. ConnectionInUse' BY DEF ConnectionInUse
  <2>7. Rabbit!OneConnection' BY DEF Rabbit!OneConnection, RabbitInv
  <2> QED BY <2>2, <2>3, <2>4, <2>5, <2>6, <2>7 DEF RabbitInv, InitLineOK
\* A call that gives up an initialisation, or only its place in the line.
<1>12. ASSUME NEW c \in Calls, NEW p \in {"raised", "cancelled"},
              connectorAt' = [connectorAt EXCEPT ![c] = p],
              c \in InInitLine, Rabbit!GiveUp(c),
              UNCHANGED <<initialized, connection, channel, open, muted, connectionsMade,
                          closing, target, closes>>,
              initCancels' \in 0 .. MaxCancels
       PROVE  RabbitInv'
  <2> USE <1>12 DEF Rabbit!GiveUp
  <2>1. InitLineOK'
    <3>1. p \notin Initializing \cup {"queueing"} BY DEF Initializing, Opening
    <3> QED BY <3>1, InitLineLeft
  <2>2. abandoned' = IF connectorAt[c] \in Opening THEN abandoned \cup {connection} ELSE abandoned
    BY DEF Rabbit!Opening, Opening
  <2>3. abandoned' \subseteq Nat \ {0} /\ abandoned \subseteq abandoned'
    BY <2>2, <1>3 DEF RabbitInv, OpensAConnection
  <2>4. Rabbit!TypeOK'
    BY <2>1, <2>3, <1>2, <1>3 DEF Rabbit!TypeOK, Rabbit!Places, InitLineOK, IsLine
  <2>5. NotYetInitialized' BY <1>3 DEF NotYetInitialized, RabbitInv, Initializing, Opening
  <2>6. OpensAConnection' BY <1>3 DEF OpensAConnection, RabbitInv, Opening
  <2>7. ConnectionInUse'
    <3>1. CASE connectorAt[c] \in Opening BY <3>1, <2>2 DEF ConnectionInUse
    <3>2. CASE connectorAt[c] \notin Opening
      BY <3>2, <2>3, <1>3 DEF ConnectionInUse, RabbitInv
    <3> QED BY <3>1, <3>2
  <2>8. Rabbit!OneConnection' BY <2>3 DEF Rabbit!OneConnection, RabbitInv
  <2> QED BY <2>1, <2>4, <2>5, <2>6, <2>7, <2>8 DEF RabbitInv, InitLineOK
<1>13. ASSUME NEW c \in Calls, Rabbit!InitFails(c) PROVE RabbitInv'
  <2>1. c \in InInitLine
    BY <1>13 DEF Rabbit!InitFails, Rabbit!Opening, InInitLine, Initializing, Opening
  <2>2. initCancels' \in 0 .. MaxCancels BY <1>13, <1>2 DEF Rabbit!InitFails, Rabbit!TypeOK
  <2>3. connectorAt' = [connectorAt EXCEPT ![c] = "raised"] BY <1>13 DEF Rabbit!InitFails
  <2> QED BY <2>1, <2>2, <2>3, <1>12, <1>13 DEF Rabbit!InitFails
<1>14. ASSUME NEW c \in Calls, Rabbit!Cancel(c) PROVE RabbitInv'
  <2>1. c \in InInitLine
    BY <1>14 DEF Rabbit!Cancel, Rabbit!Opening, InInitLine, Initializing, Opening
  <2>2. initCancels' \in 0 .. MaxCancels
    BY <1>1, <1>14, <1>2 DEF Rabbit!Cancel, Rabbit!TypeOK
  <2>3. connectorAt' = [connectorAt EXCEPT ![c] = "cancelled"] BY <1>14 DEF Rabbit!Cancel
  <2> QED BY <2>1, <2>2, <2>3, <1>12, <1>14 DEF Rabbit!Cancel
\* close(): the calls stay where they are.
<1>15. ASSUME UNCHANGED <<initLine, connectorAt>> PROVE InitLineOK'
  BY <1>15 DEF InitLineOK, InInitLine, IsLine, InitializesAsHolder, RabbitInv
<1>16. ASSUME Rabbit!Close PROVE RabbitInv'
  <2> USE <1>16 DEF Rabbit!Close
  <2>1. InitLineOK' BY <1>15
  <2>2. Rabbit!TypeOK' BY <1>1, <1>2, <1>3 DEF Rabbit!TypeOK
  <2>3. OpensAConnection' BY <1>3 DEF OpensAConnection, RabbitInv
  <2>4. NotYetInitialized' /\ ConnectionInUse' /\ Rabbit!OneConnection'
    BY DEF NotYetInitialized, ConnectionInUse, Rabbit!OneConnection, RabbitInv
  <2> QED BY <2>1, <2>2, <2>3, <2>4 DEF RabbitInv, InitLineOK
\* The flag goes, and what is open in its place is given up.
<1>17. ASSUME Rabbit!CloseEnds(open'), open' \subseteq open, muted' \subseteq Nat \ {0},
              closes' \in 0 .. MaxCloses,
              UNCHANGED <<initLine, connection, channel, connectionsMade, connectorAt,
                          initCancels>>
       PROVE  RabbitInv'
  <2> USE <1>17 DEF Rabbit!CloseEnds
  <2>1. InitLineOK' BY <1>15
  <2>2. abandoned' \subseteq Nat \ {0} BY <1>3
  <2>3. Rabbit!TypeOK' BY <2>2, <1>2, <1>3 DEF Rabbit!TypeOK
  <2>4. OpensAConnection' BY DEF OpensAConnection, RabbitInv
  <2>5. NotYetInitialized' BY DEF NotYetInitialized
  <2>6. ConnectionInUse' BY DEF ConnectionInUse
  <2>7. Rabbit!OneConnection' BY DEF Rabbit!OneConnection, RabbitInv
  <2> QED BY <2>1, <2>3, <2>4, <2>5, <2>6, <2>7 DEF RabbitInv, InitLineOK
<1>18. ASSUME Rabbit!CloseConnection PROVE RabbitInv'
  <2> USE <1>18 DEF Rabbit!CloseConnection
  <2>1. muted' \subseteq Nat \ {0} BY <1>3 DEF RabbitInv, OpensAConnection
  <2>2. closes' \in 0 .. MaxCloses BY <1>1, <1>2 DEF Rabbit!TypeOK
  <2>3. CASE Rabbit!CloseEnds(open) BY <2>1, <2>2, <2>3, <1>17
  <2>4. CASE /\ connection \in open /\ closing' = "connection" /\ target' = connection
             /\ UNCHANGED <<initialized, abandoned>>
    <3> USE <2>4
    <3>1. InitLineOK' BY <1>15
    <3>2. Rabbit!TypeOK' BY <2>1, <2>2, <1>2, <1>3 DEF Rabbit!TypeOK
    <3>3. OpensAConnection' BY <1>3 DEF OpensAConnection, RabbitInv
    <3>4. NotYetInitialized' /\ ConnectionInUse' /\ Rabbit!OneConnection'
      BY DEF NotYetInitialized, ConnectionInUse, Rabbit!OneConnection, RabbitInv
    <3> QED BY <3>1, <3>2, <3>3, <3>4 DEF RabbitInv, InitLineOK
  <2> QED BY <2>3, <2>4
<1>19. ASSUME Rabbit!ConnectionClosed PROVE RabbitInv'
  <2>1. closes' \in 0 .. MaxCloses /\ muted' \subseteq Nat \ {0} /\ open' \subseteq open
    BY <1>19, <1>2, <1>3 DEF Rabbit!ConnectionClosed, Rabbit!TypeOK
  <2> QED BY <2>1, <1>17, <1>19 DEF Rabbit!ConnectionClosed
<1> QED
  BY <1>6, <1>7, <1>8, <1>9, <1>10, <1>11, <1>13, <1>14, <1>16, <1>18, <1>19
  DEF Rabbit!Next, Rabbit!Step

LEMMA RabbitStutter ==
    ASSUME RabbitInv, UNCHANGED rabbitVars PROVE RabbitInv'
BY DEF RabbitInv, rabbitVars, Rabbit!TypeOK, InInitLine, IsLine, InitializesAsHolder,
       NotYetInitialized, OpensAConnection, ConnectionInUse, Rabbit!OneConnection

-----------------------------------------------------------------------------
(* Certificates.  An entry with the first certificate ends in time: it was   *)
(* written by a fetch that began before the rotation, with a time to live    *)
(* counted from an issue date that was 0 then and computed before the write. *)

\* When an entry with the first certificate ends at the latest.
LastEnd ==
    IF rotated # Certificates!Never THEN Certificates!LastUse
    ELSE IF kind = "provider" THEN now + Window
    ELSE Certificates!Limit(MaxFetch + ValidDays * Day, now + Least)

PastDates ==
    /\ rotated # Certificates!Never => rotated <= now
    /\ \A r \in Readers : issued[r] <= now /\ began[r] <= now
FirstIssue == rotated = Certificates!Never => \A r \in Readers : issued[r] = 0
FetchesEnd ==
    \A r \in Readers : readerAt[r] \in {"fetching", "adding"} => now <= began[r] + MaxFetch
OldFetches ==
    \A r \in Readers : readerAt[r] = "adding" =>
        /\ bytes[r] # 0
        /\ bytes[r] = 1 =>
              issued[r] = 0 /\ (rotated # Certificates!Never => began[r] <= rotated)
\* What a reader may write lives for a while, and when it was fetched before
\* the rotation, ended within the validity as counted at the fetch.
TimesToLive ==
    \A r \in Readers : readerAt[r] = "adding" =>
        /\ ttl[r] > 0
        /\ kind = "provider" => ttl[r] = Window
        /\ kind # "provider" /\ issued[r] = 0
              => ttl[r] = Least \/ began[r] + ttl[r] < ValidDays * Day
EntryEnds == cached = 1 => until <= LastEnd

CertificateInv ==
    /\ Certificates!TypeOK
    /\ PastDates /\ FirstIssue /\ FetchesEnd /\ OldFetches /\ TimesToLive /\ EntryEnds
    /\ Certificates!CertificateLag

\* A day more than has passed is over after now.
LEMMA WholeDays ==
    ASSUME NEW n \in Nat, NEW d \in Nat \ {0}
    PROVE  /\ n \div d \in Nat
           /\ n < ((n \div d) + 1) * d
OBVIOUS

LEMMA TimeComputed ==
    ASSUME SharedAssumption, CertificateInv, NEW r \in Readers
    PROVE  /\ Certificates!TimeToLive(r) \in 1 .. Certificates!Longest
           /\ kind = "provider" => Certificates!TimeToLive(r) = Window
           /\ kind # "provider" /\ issued[r] = 0 =>
                 \/ Certificates!TimeToLive(r) = Least
                 \/ now + Certificates!TimeToLive(r) < ValidDays * Day
<1>1. /\ Day \in Nat \ {0} /\ Least \in Nat \ {0} /\ Window \in Nat \ {0}
      /\ ValidDays \in Nat /\ MaxTime \in Nat
  BY DEF SharedAssumption, Certificates!CertificateAssumption
<1>2. /\ now \in Nat /\ now <= MaxTime /\ issued[r] \in Nat /\ issued[r] <= now
  BY <1>1 DEF CertificateInv, Certificates!TypeOK, PastDates
<1> DEFINE q == (now - issued[r]) \div Day
<1>3. now - issued[r] \in Nat BY <1>2
<1>4. q \in Nat /\ now - issued[r] < (q + 1) * Day BY <1>1, <1>3, WholeDays
<1>5. Certificates!DaysRemaining(r) = ValidDays - q - 1 BY DEF Certificates!DaysRemaining
<1> HIDE DEF q
<1> DEFINE left == (ValidDays - q - 1) * Day
           all == ValidDays * Day
           gone == (q + 1) * Day
<1>6. left = all - gone /\ left \in Int /\ all \in Nat /\ gone \in Nat BY <1>1, <1>4
<1>7. Certificates!TimeToLive(r) = IF kind = "provider" THEN Window
                                   ELSE IF Least > left THEN Least ELSE left
  BY <1>5 DEF Certificates!TimeToLive, Certificates!Limit
<1>8. now - issued[r] < gone BY <1>4
<1>9. Certificates!Longest = LET m == IF Least > all THEN Least ELSE all IN
                             IF Window > m THEN Window ELSE m
  BY DEF Certificates!Longest, Certificates!Limit, all
<1> HIDE DEF left, all, gone
<1>10. Certificates!TimeToLive(r) \in 1 .. Certificates!Longest
  BY <1>1, <1>2, <1>6, <1>7, <1>8, <1>9
<1>11. ASSUME kind # "provider", issued[r] = 0
       PROVE  Certificates!TimeToLive(r) = Least \/ now + Certificates!TimeToLive(r) < all
  BY <1>1, <1>2, <1>6, <1>7, <1>8, <1>11
<1> QED BY <1>7, <1>10, <1>11 DEF all

LEMMA CertificatesInit ==
    ASSUME SharedAssumption, Certificates!Init PROVE CertificateInv
<1> USE DEF Certificates!Init
<1>1. /\ Day \in Nat \ {0} /\ Least \in Nat \ {0} /\ Window \in Nat \ {0}
      /\ ValidDays \in Nat /\ MaxTime \in Nat
  BY DEF SharedAssumption, Certificates!CertificateAssumption
<1>2. Certificates!TypeOK
  <2>1. Certificates!Longest \in Nat /\ Certificates!Latest \in Nat
    <3>1. ValidDays * Day \in Nat BY <1>1
    <3> QED BY <3>1, <1>1 DEF Certificates!Latest, Certificates!Longest, Certificates!Limit
  <2>2. readerAt \in [Readers -> {"idle", "fetching", "adding", "verifying"}] OBVIOUS
  <2>3. bytes \in [Readers -> Certificates!Versions \cup {0}] BY DEF Certificates!Nothing
  <2>4. issued \in [Readers -> 0 .. MaxTime] /\ began \in [Readers -> 0 .. MaxTime] BY <1>1
  <2>5. ttl \in [Readers -> 0 .. Certificates!Longest] BY <2>1
  <2> QED BY <2>1, <2>2, <2>3, <2>4, <2>5, <1>1
    DEF Certificates!TypeOK, Certificates!Nothing, Certificates!Never
<1>3. PastDates /\ FirstIssue /\ FetchesEnd /\ OldFetches /\ TimesToLive /\ EntryEnds
  BY DEF PastDates, FirstIssue, FetchesEnd, OldFetches, TimesToLive, EntryEnds,
         Certificates!Nothing
<1>4. Certificates!CertificateLag BY DEF Certificates!CertificateLag
<1> QED BY <1>2, <1>3, <1>4 DEF CertificateInv

LEMMA CertificatesStep ==
    ASSUME SharedAssumption, CertificateInv, Certificates!Next PROVE CertificateInv'
<1>1. /\ Day \in Nat \ {0} /\ Least \in Nat \ {0} /\ Window \in Nat \ {0}
      /\ ValidDays \in Nat /\ MaxTime \in Nat /\ MaxFetch \in Nat
  BY DEF SharedAssumption, Certificates!CertificateAssumption
<1>2. /\ kind \in {"tenant", "provider"} /\ now \in Nat /\ now <= MaxTime
      /\ rotated \in Nat /\ cached \in {0, 1, 2} /\ until \in Nat
      /\ readerAt \in [Readers -> {"idle", "fetching", "adding", "verifying"}]
      /\ bytes \in [Readers -> {0, 1, 2}]
      /\ issued \in [Readers -> Nat] /\ began \in [Readers -> Nat]
      /\ ttl \in [Readers -> Nat]
      /\ Certificates!Longest \in Nat /\ Certificates!Latest = MaxTime + Certificates!Longest
  <2>1. Certificates!Longest \in Nat /\ Certificates!Latest \in Nat
    <3>1. ValidDays * Day \in Nat BY <1>1
    <3> QED BY <3>1, <1>1 DEF Certificates!Latest, Certificates!Longest, Certificates!Limit
  <2>2. Certificates!TypeOK BY DEF CertificateInv
  <2> QED BY <2>1, <2>2, <1>1
    DEF Certificates!Latest, Certificates!TypeOK, Certificates!Versions, Certificates!Nothing, Certificates!Never
<1>3. Certificates!Never = MaxTime + 1 BY DEF Certificates!Never
<1> DEFINE all == ValidDays * Day
<1>4. all \in Nat BY <1>1
<1>5. /\ Certificates!LastUse = MaxFetch + IF kind = "provider" THEN rotated + Window
                                           ELSE IF all > rotated + Least THEN all
                                           ELSE rotated + Least
      /\ LastEnd = IF rotated # MaxTime + 1 THEN Certificates!LastUse
                   ELSE IF kind = "provider" THEN now + Window
                   ELSE IF MaxFetch + all > now + Least THEN MaxFetch + all ELSE now + Least
      /\ LastEnd' = IF rotated' # MaxTime + 1
                    THEN MaxFetch + IF kind' = "provider" THEN rotated' + Window
                                    ELSE IF all > rotated' + Least THEN all
                                    ELSE rotated' + Least
                    ELSE IF kind' = "provider" THEN now' + Window
                    ELSE IF MaxFetch + all > now' + Least THEN MaxFetch + all
                    ELSE now' + Least
  BY DEF Certificates!LastUse, LastEnd, Certificates!Limit, Certificates!Never
<1> HIDE DEF all
<1>t. Certificates!TypeOK /\ PastDates /\ FirstIssue /\ FetchesEnd /\ OldFetches
      /\ TimesToLive /\ EntryEnds /\ Certificates!CertificateLag
  BY DEF CertificateInv
<1> USE DEF Certificates!Goto, Certificates!cache, Certificates!Nothing, Certificates!Forget
\* What leaves the clock, the rotation and the entry leaves its end.
<1>6. ASSUME UNCHANGED <<kind, now, rotated, cached, until>> PROVE EntryEnds'
  BY <1>6, <1>5, <1>t DEF EntryEnds
<1>7. ASSUME NEW r \in Readers, Certificates!Hit(r) PROVE CertificateInv'
  <2> USE <1>7 DEF Certificates!Hit
  <2>1. Certificates!TypeOK' BY <1>2, <1>t DEF Certificates!TypeOK
  <2>2. PastDates' /\ FirstIssue' /\ FetchesEnd' /\ OldFetches' /\ TimesToLive'
    BY <1>2, <1>t DEF PastDates, FirstIssue, FetchesEnd, OldFetches, TimesToLive
  <2>3. EntryEnds' BY <1>6
  <2>4. Certificates!CertificateLag'
    <3>1. cached = 1 /\ rotated # Certificates!Never => now < Certificates!LastUse
      <4>1. now < until BY <1>t DEF Certificates!TypeOK
      <4>2. cached = 1 => until <= LastEnd BY <1>t DEF EntryEnds
      <4> QED BY <4>1, <4>2, <1>1, <1>2, <1>3, <1>4, <1>5
    <3>2. Certificates!LastUse' = Certificates!LastUse /\ Certificates!Never' = Certificates!Never
      BY DEF Certificates!LastUse, Certificates!Never
    <3> QED BY <3>1, <3>2, <1>2, <1>t DEF Certificates!CertificateLag
  <2> QED BY <2>1, <2>2, <2>3, <2>4 DEF CertificateInv
<1>8. ASSUME NEW r \in Readers, Certificates!Miss(r) PROVE CertificateInv'
  <2> USE <1>8 DEF Certificates!Miss
  <2>1. PICK date \in Certificates!IssueDates : issued' = [issued EXCEPT ![r] = date] OBVIOUS
  <2>2. /\ date \in 0 .. MaxTime /\ date <= now
        /\ rotated = Certificates!Never => date = 0
    BY <2>1, <1>1, <1>2, <1>3, <1>t DEF Certificates!IssueDates, PastDates
  <2>3. now \in 0 .. MaxTime BY <1>1, <1>2
  <2>4. Certificates!TypeOK'
    <3>1. issued' \in [Readers -> 0 .. MaxTime] BY <2>1, <2>2, <1>t DEF Certificates!TypeOK
    <3>2. began' \in [Readers -> 0 .. MaxTime] BY <2>3, <1>t DEF Certificates!TypeOK
    <3> QED BY <3>1, <3>2, <1>t DEF Certificates!TypeOK
  <2>5. PastDates' BY <2>1, <2>2, <1>2, <1>t DEF PastDates
  <2>6. FirstIssue' BY <2>1, <2>2, <1>2, <1>t DEF FirstIssue
  <2>7. FetchesEnd' BY <1>1, <1>2, <1>t DEF FetchesEnd
  <2>8. OldFetches' /\ TimesToLive' BY <2>1, <1>2, <1>t DEF OldFetches, TimesToLive
  <2>9. EntryEnds' BY <1>6
  <2>10. Certificates!CertificateLag' BY <1>2, <1>t DEF Certificates!CertificateLag, Certificates!LastUse
  <2> QED BY <2>4, <2>5, <2>6, <2>7, <2>8, <2>9, <2>10 DEF CertificateInv
<1>9. ASSUME NEW r \in Readers, Certificates!Fetched(r) PROVE CertificateInv'
  <2> USE <1>9 DEF Certificates!Fetched
  <2>1. Certificates!Published \in Certificates!Versions
    BY DEF Certificates!Published, Certificates!Versions
  <2> DEFINE time == Certificates!TimeToLive(r)
  <2>2. /\ time \in 1 .. Certificates!Longest
        /\ kind = "provider" => time = Window
        /\ kind # "provider" /\ issued[r] = 0 => time = Least \/ now + time < all
    BY TimeComputed DEF all
  <2>3. ttl' = [ttl EXCEPT ![r] = time] OBVIOUS
  <2> HIDE DEF time
  <2>4. Certificates!TypeOK'
    <3>1. ttl' \in [Readers -> 0 .. Certificates!Longest]
      BY <2>2, <2>3, <1>2, <1>t DEF Certificates!TypeOK
    <3> QED BY <2>1, <3>1, <1>t DEF Certificates!TypeOK, Certificates!Latest, Certificates!Longest
  <2>5. PastDates' /\ FirstIssue' BY <1>2, <1>t DEF PastDates, FirstIssue
  <2>6. FetchesEnd' BY <1>1, <1>2, <1>t DEF FetchesEnd
  <2>7. OldFetches' BY <1>2, <1>t DEF OldFetches, FirstIssue, Certificates!Published
  <2>8. TimesToLive'
    <3>1. began[r] \in Nat /\ began[r] <= now BY <1>2, <1>t DEF PastDates
    <3>2. began[r] + time < all \/ ~(now + time < all) BY <2>2, <3>1, <1>2, <1>4
    <3>3. /\ ttl'[r] > 0
          /\ kind = "provider" => ttl'[r] = Window
          /\ kind # "provider" /\ issued[r] = 0 => ttl'[r] = Least \/ began[r] + ttl'[r] < all
      BY <2>2, <2>3, <3>2, <1>2
    <3>4. \A s \in Readers \ {r} : ttl'[s] = ttl[s] /\ readerAt'[s] = readerAt[s]
      BY <2>3, <1>2
    <3> QED BY <3>3, <3>4, <1>t DEF TimesToLive, all
  <2>9. EntryEnds' BY <1>6
  <2>10. Certificates!CertificateLag' BY <1>2, <1>t DEF Certificates!CertificateLag, Certificates!LastUse
  <2> QED BY <2>4, <2>5, <2>6, <2>7, <2>8, <2>9, <2>10 DEF CertificateInv
<1>10. ASSUME NEW r \in Readers, readerAt' = [readerAt EXCEPT ![r] = "idle"],
              Certificates!Forget(r), UNCHANGED <<kind, now, rotated, cached, until>>
       PROVE  CertificateInv'
  <2> USE <1>10
  <2>1. Certificates!TypeOK'
    <3>1. 0 \in 0 .. MaxTime /\ 0 \in 0 .. Certificates!Longest BY <1>1, <1>2
    <3> QED BY <3>1, <1>t DEF Certificates!TypeOK
  <2>2. PastDates' /\ FirstIssue' BY <1>2, <1>t DEF PastDates, FirstIssue
  <2>3. FetchesEnd' /\ OldFetches' /\ TimesToLive'
    BY <1>2, <1>t DEF FetchesEnd, OldFetches, TimesToLive
  <2>4. EntryEnds' BY <1>6
  <2>5. Certificates!CertificateLag' BY <1>2, <1>t DEF Certificates!CertificateLag, Certificates!LastUse
  <2> QED BY <2>1, <2>2, <2>3, <2>4, <2>5 DEF CertificateInv
<1>11. ASSUME NEW r \in Readers, Certificates!Add(r) PROVE CertificateInv'
  <2> USE <1>11 DEF Certificates!Add
  <2> DEFINE time == ttl[r]
  <2>1. /\ time \in 1 .. Certificates!Longest
        /\ kind = "provider" => time = Window
        /\ kind # "provider" /\ issued[r] = 0 => time = Least \/ began[r] + time < all
    BY <1>2, <1>t DEF TimesToLive, Certificates!TypeOK, all
  <2>2. now <= began[r] + MaxFetch /\ began[r] \in Nat BY <1>2, <1>t DEF FetchesEnd
  <2>3. \/ cached' = bytes[r] /\ until' = now + time
        \/ cached' = cached /\ until' = until
    OBVIOUS
  <2> HIDE DEF time
  <2>4. bytes[r] \in {1, 2} BY <1>2, <1>t DEF OldFetches
  <2>5. Certificates!TypeOK'
    <3>1. /\ cached' \in Certificates!Versions \cup {0} /\ until' \in 0 .. Certificates!Latest
          /\ cached' # 0 => now' < until'
      <4>1. /\ cached \in Certificates!Versions \cup {0} /\ until \in 0 .. Certificates!Latest
            /\ cached # 0 => now < until
        BY <1>t DEF Certificates!TypeOK
      <4>2. bytes[r] \in Certificates!Versions BY <2>4 DEF Certificates!Versions
      <4>3. /\ now + time \in 0 .. Certificates!Latest
            /\ now < now + time
        BY <2>1, <1>1, <1>2
      <4> QED BY <2>3, <4>1, <4>2, <4>3
    <3>2. readerAt' \in [Readers -> {"idle", "fetching", "adding", "verifying"}] BY <1>2
    <3>3. Certificates!Latest' = Certificates!Latest
      BY DEF Certificates!Latest, Certificates!Longest, Certificates!Limit
    <3> QED BY <3>1, <3>2, <3>3, <1>t DEF Certificates!TypeOK
  <2>6. PastDates' /\ FirstIssue' BY <1>2, <1>t DEF PastDates, FirstIssue
  <2>7. FetchesEnd' /\ OldFetches' /\ TimesToLive'
    BY <1>2, <1>t DEF FetchesEnd, OldFetches, TimesToLive
  <2>8. bytes[r] = 1 => issued[r] = 0 /\ (rotated # MaxTime + 1 => now <= rotated + MaxFetch)
    BY <1>1, <1>2, <1>3, <1>t DEF OldFetches, FetchesEnd
  <2>9. EntryEnds'
    <3>1. CASE cached' = cached /\ until' = until BY <3>1, <1>5, <1>t DEF EntryEnds
    <3>2. CASE cached' = bytes[r] /\ until' = now + time
      <4>1. SUFFICES ASSUME bytes[r] = 1 PROVE now + time <= LastEnd'
        BY <3>2 DEF EntryEnds
      <4>2. CASE kind = "provider" BY <4>1, <4>2, <2>1, <2>8, <1>1, <1>2, <1>5
      <4>3. CASE kind # "provider"
        <5>1. CASE time = Least BY <5>1, <4>1, <4>3, <2>8, <1>1, <1>2, <1>4, <1>5
        <5>2. CASE began[r] + time < all
          <6>1. now + time < MaxFetch + all BY <5>2, <2>1, <2>2, <1>1, <1>2, <1>4
          <6> QED BY <6>1, <4>3, <2>1, <1>1, <1>2, <1>4, <1>5
        <5> QED BY <5>1, <5>2, <4>1, <4>3, <2>1, <2>8
      <4> QED BY <4>2, <4>3
    <3> QED BY <2>3, <3>1, <3>2
  <2>10. Certificates!CertificateLag'
    <3>1. bytes[r] = 1 /\ rotated # MaxTime + 1 => now < Certificates!LastUse
      BY <2>8, <1>1, <1>2, <1>4, <1>5
    <3>2. Certificates!LastUse' = Certificates!LastUse BY DEF Certificates!LastUse
    <3> QED BY <3>1, <3>2, <1>2, <1>3, <1>t DEF Certificates!CertificateLag, Certificates!Never
  <2> QED BY <2>5, <2>6, <2>7, <2>9, <2>10 DEF CertificateInv
<1>12. ASSUME Certificates!Drop PROVE CertificateInv'
  <2> USE <1>12 DEF Certificates!Drop
  <2>1. Certificates!TypeOK'
    <3>1. until' \in 0 .. Certificates!Latest BY <1>2, <1>t DEF Certificates!TypeOK
    <3> QED BY <3>1, <1>t
      DEF Certificates!TypeOK, Certificates!Latest, Certificates!Longest, Certificates!Limit
  <2>2. PastDates' /\ FirstIssue' /\ FetchesEnd' /\ OldFetches' /\ TimesToLive'
    BY <1>t DEF PastDates, FirstIssue, FetchesEnd, OldFetches, TimesToLive
  <2>3. EntryEnds' BY DEF EntryEnds
  <2>4. Certificates!CertificateLag' BY <1>t DEF Certificates!CertificateLag, Certificates!LastUse
  <2> QED BY <2>1, <2>2, <2>3, <2>4 DEF CertificateInv
<1>13. ASSUME Certificates!Rotate PROVE CertificateInv'
  <2> USE <1>13 DEF Certificates!Rotate
  <2>1. now \in 0 .. Certificates!Never /\ now # MaxTime + 1 BY <1>1, <1>2, <1>3
  <2>2. Certificates!TypeOK'
    BY <2>1, <1>t DEF Certificates!TypeOK, Certificates!Latest, Certificates!Longest
  <2>3. PastDates' BY <1>2, <1>t DEF PastDates
  <2>4. FirstIssue' BY <2>1 DEF FirstIssue, Certificates!Never
  <2>5. FetchesEnd' BY <1>t DEF FetchesEnd
  <2>6. OldFetches' /\ TimesToLive' BY <1>t DEF OldFetches, PastDates, TimesToLive
  <2>7. EntryEnds'
    <3>1. cached = 1 => until <= LastEnd BY <1>t DEF EntryEnds
    <3>2. LastEnd <= LastEnd' BY <2>1, <1>1, <1>2, <1>3, <1>4, <1>5
    <3>3. LastEnd \in Int /\ LastEnd' \in Int BY <2>1, <1>1, <1>2, <1>3, <1>4, <1>5
    <3> QED BY <3>1, <3>2, <3>3, <1>2 DEF EntryEnds
  <2>8. Certificates!CertificateLag'
    <3>1. Certificates!LastUse' = LastEnd' BY <2>1 DEF LastEnd, Certificates!Never
    <3>2. now' < LastEnd' BY <2>1, <1>1, <1>2, <1>4, <1>5
    <3> QED BY <3>1, <3>2 DEF Certificates!CertificateLag
  <2> QED BY <2>2, <2>3, <2>4, <2>5, <2>6, <2>7, <2>8 DEF CertificateInv
<1>14. ASSUME Certificates!Tick PROVE CertificateInv'
  <2> USE <1>14 DEF Certificates!Tick
  <2>1. Certificates!TypeOK'
    <3>1. now' \in 0 .. MaxTime BY <1>1, <1>2
    <3> QED BY <3>1, <1>t DEF Certificates!TypeOK, Certificates!Latest, Certificates!Longest
  <2>2. PastDates' BY <1>2, <1>t DEF PastDates
  <2>3. FirstIssue' /\ OldFetches' /\ TimesToLive'
    BY <1>t DEF FirstIssue, OldFetches, TimesToLive
  <2>4. FetchesEnd' BY <1>1, <1>2, <1>t DEF FetchesEnd
  <2>5. EntryEnds'
    <3>1. cached = 1 => until <= LastEnd BY <1>t DEF EntryEnds
    <3>2. LastEnd <= LastEnd' BY <1>1, <1>2, <1>4, <1>5
    <3>3. LastEnd \in Int /\ LastEnd' \in Int BY <1>1, <1>2, <1>4, <1>5
    <3> QED BY <3>1, <3>2, <3>3, <1>2 DEF EntryEnds
  <2>6. Certificates!CertificateLag' BY DEF Certificates!CertificateLag
  <2> QED BY <2>1, <2>2, <2>3, <2>4, <2>5, <2>6 DEF CertificateInv
<1>15. ASSUME NEW r \in Readers, Certificates!FetchFails(r) PROVE CertificateInv'
  BY <1>10, <1>15 DEF Certificates!FetchFails
<1>16. ASSUME NEW r \in Readers, Certificates!Verify(r) PROVE CertificateInv'
  BY <1>10, <1>16 DEF Certificates!Verify
<1> QED
  BY <1>7, <1>8, <1>9, <1>11, <1>12, <1>13, <1>14, <1>15, <1>16 DEF Certificates!Next

LEMMA CertificatesStutter ==
    ASSUME CertificateInv, UNCHANGED certificateVars PROVE CertificateInv'
BY DEF CertificateInv, certificateVars, Certificates!TypeOK, PastDates, FirstIssue, FetchesEnd,
       OldFetches, TimesToLive, EntryEnds, LastEnd, Certificates!CertificateLag,
       Certificates!LastUse, Certificates!Latest, Certificates!Longest

-----------------------------------------------------------------------------
(* The five together: a component acts or keeps its state.                   *)

SharedInv ==
    /\ ResolverInv /\ SendersInv /\ RabbitInv /\ MongoInv /\ CertificateInv

LEMMA SharedInvariant == Spec => []SharedInv
<1>1. Init => SharedInv
  BY SharedAssumption, ResolverInit, SendersInit, RabbitInit, MongoInit, CertificatesInit
  DEF Init, SharedInv
<1>2. SharedInv /\ [Next]_vars => SharedInv'
  <2> SUFFICES ASSUME SharedInv, [Next]_vars PROVE SharedInv' OBVIOUS
  <2>0. /\ ResolverInv /\ SendersInv /\ RabbitInv /\ MongoInv /\ CertificateInv
        /\ SharedAssumption
    BY SharedAssumption DEF SharedInv
  <2>1. Resolver!Next \/ UNCHANGED resolverVars
    BY DEF Next, vars, ResolverActs, SendersActs, RabbitActs, MongoActs, CertificatesActs
  <2>2. Senders!Next \/ UNCHANGED sendersVars
    BY DEF Next, vars, ResolverActs, SendersActs, RabbitActs, MongoActs, CertificatesActs
  <2>3. Rabbit!Next \/ UNCHANGED rabbitVars
    BY DEF Next, vars, ResolverActs, SendersActs, RabbitActs, MongoActs, CertificatesActs
  <2>4. Mongo!Next \/ UNCHANGED mongoVars
    BY DEF Next, vars, ResolverActs, SendersActs, RabbitActs, MongoActs, CertificatesActs
  <2>5. Certificates!Next \/ UNCHANGED certificateVars
    BY DEF Next, vars, ResolverActs, SendersActs, RabbitActs, MongoActs, CertificatesActs
  <2>6. ResolverInv' BY <2>0, <2>1, ResolverStep, ResolverStutter
  <2>7. SendersInv' BY <2>0, <2>2, SendersStep, SendersStutter
  <2>8. RabbitInv' BY <2>0, <2>3, RabbitStep, RabbitStutter
  <2>9. MongoInv' BY <2>0, <2>4, MongoStep, MongoStutter
  <2>10. CertificateInv' BY <2>0, <2>5, CertificatesStep, CertificatesStutter
  <2> QED BY <2>6, <2>7, <2>8, <2>9, <2>10 DEF SharedInv
<1> QED BY <1>1, <1>2, PTL DEF Spec

\* The state of each component is well formed.
THEOREM TypeCorrect == Spec => []TypeOK
<1>1. SharedInv => TypeOK
  BY DEF SharedInv, TypeOK, ResolverInv, SendersInv, RabbitInv, MongoInv, CertificateInv
<1> QED BY <1>1, SharedInvariant, PTL

\* One OIDC discovery at a time, by the holder of the lock and for a tenant
\* that is unknown (_discover under _lock in endpoint_resolver.py).
THEOREM DiscoveredOnce == Spec => []NoRediscovery
<1>1. SharedInv => NoRediscovery
  <2> SUFFICES ASSUME SharedInv PROVE Resolver!NoRediscovery BY DEF NoRediscovery
  <2>1. DiscoversAsHolder BY DEF SharedInv, ResolverInv
  <2> QED BY <2>1
    DEF DiscoversAsHolder, Resolver!NoRediscovery, Resolver!Discovering, Resolver!Holds
<1> QED BY <1>1, SharedInvariant, PTL

\* One send at a time in a sender, and the retry in one in which no send has
\* failed (send_to_consumer_async under the destination's lock).
THEOREM OneSendAtATime == Spec => []OneInside
<1>1. SharedInv => OneInside
  <2> SUFFICES ASSUME SharedInv PROVE Senders!OneInside BY DEF OneInside
  <2>1. UsesAsHolder /\ UsesWhileInside /\ RetriesSound BY DEF SharedInv, SendersInv
  <2> QED BY <2>1
    DEF UsesAsHolder, UsesWhileInside, RetriesSound, Senders!OneInside, Senders!Inside,
        Senders!None
<1> QED BY <1>1, SharedInvariant, PTL

\* One RabbitMQ connection open that nobody gave up, and an initialised client
\* has an open channel (_ensure_initialized_async against close()).
THEOREM OneConnectionKept == Spec => []OneConnection
<1>1. SharedInv => OneConnection BY DEF SharedInv, RabbitInv, OneConnection
<1> QED BY <1>1, SharedInvariant, PTL

\* One MongoClient per connection, and each call gets a handle of its tenant's
\* cluster (the double check under _lock in mongo_context.py).
THEOREM OneClientEach == Spec => []OneClient
<1>1. SharedInv => OneClient
  <2> SUFFICES ASSUME SharedInv PROVE Mongo!OneClient BY DEF OneClient
  <2>1. ClientsCounted /\ GotInPlace BY DEF SharedInv, MongoInv
  <2> QED BY <2>1 DEF ClientsCounted, GotInPlace, OfItsPlace, Mongo!OneClient
<1> QED BY <1>1, SharedInvariant, PTL

\* The certificate of before a rotation is out of use in time (get_tenant_cert
\* and _resolve_certificate_key in auth.py).
THEOREM RotationNoticed == Spec => []CertificateLag
<1>1. SharedInv => CertificateLag BY DEF SharedInv, CertificateInv, CertificateLag
<1> QED BY <1>1, SharedInvariant, PTL
=============================================================================
