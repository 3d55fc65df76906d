------------------------ MODULE BackgroundWorkersProofs ------------------------
(***************************************************************************)
(* What is proved of BackgroundWorkers: the safety of the two exporters,   *)
(* of the lock renewal and of the Redis listeners, each from an inductive  *)
(* invariant of its own, and the type invariant of all four.               *)
(***************************************************************************)
EXTENDS BackgroundWorkers, SequenceTheorems, FiniteSetTheorems, TLAPS

-----------------------------------------------------------------------------
(* Sequences whose members stand in a relation R to those behind them.       *)

Ordered(s, R) == \A i, j \in DOMAIN s : i < j => <<s[i], s[j]>> \in R

Before(s, u, R) == \A x \in ToSet(s), y \in ToSet(u) : <<x, y>> \in R

\* The components' own names for these operators.
LEMMA SameOperators ==
    /\ \A s : Trace!ToSet(s) = ToSet(s)
    /\ \A s : Trace!IsInjective(s) <=> IsInjective(s)
    /\ \A S : Redis!Cardinality(S) = Cardinality(S)
    /\ \A S : Redis!IsFiniteSet(S) <=> IsFiniteSet(S)
BY DEF ToSet, Trace!ToSet, IsInjective, Trace!IsInjective,
       Cardinality, Redis!Cardinality, IsFiniteSet, Redis!IsFiniteSet

LEMMA OrderedEmpty ==
    ASSUME NEW R PROVE Ordered(<<>>, R) /\ ToSet(<<>>) = {}
BY DEF Ordered, ToSet

LEMMA Members ==
    ASSUME NEW S, NEW s \in Seq(S)
    PROVE  /\ ToSet(s) \subseteq S /\ Len(s) \in Nat /\ DOMAIN s = 1 .. Len(s)
           /\ \A x : x \in ToSet(s) <=> \E i \in DOMAIN s : s[i] = x
BY DEF ToSet

LEMMA OrderedAppend ==
    ASSUME NEW S, NEW R, NEW s \in Seq(S), NEW x \in S,
           Ordered(s, R), \A y \in ToSet(s) : <<y, x>> \in R
    PROVE  /\ Append(s, x) \in Seq(S) /\ Ordered(Append(s, x), R)
           /\ ToSet(Append(s, x)) = ToSet(s) \cup {x}
<1> DEFINE t == Append(s, x)
<1>1. /\ t \in Seq(S) /\ Len(t) = Len(s) + 1 /\ Len(s) \in Nat
      /\ \A i \in 1 .. Len(s) : t[i] = s[i]
      /\ t[Len(s) + 1] = x
      /\ DOMAIN s = 1 .. Len(s) /\ DOMAIN t = 1 .. (Len(s) + 1)
  BY AppendProperties
<1> HIDE DEF t
<1>2. Ordered(t, R)
  <2> SUFFICES ASSUME NEW i \in DOMAIN t, NEW j \in DOMAIN t, i < j PROVE <<t[i], t[j]>> \in R
    BY DEF Ordered
  <2>1. CASE j \in DOMAIN s BY <2>1, <1>1 DEF Ordered
  <2>2. CASE j = Len(s) + 1
    <3>1. i \in DOMAIN s /\ t[i] = s[i] /\ t[j] = x BY <2>2, <1>1
    <3> QED BY <3>1, Members
  <2> QED BY <2>1, <2>2, <1>1
<1>3. \A y : y \in ToSet(t) <=> y \in ToSet(s) \/ y = x BY <1>1, Members
<1> QED BY <1>1, <1>2, <1>3 DEF t

LEMMA OrderedTail ==
    ASSUME NEW S, NEW R, NEW s \in Seq(S), s # <<>>, Ordered(s, R)
    PROVE  /\ Head(s) \in S /\ Head(s) \in ToSet(s)
           /\ Tail(s) \in Seq(S) /\ Ordered(Tail(s), R)
           /\ ToSet(s) = {Head(s)} \cup ToSet(Tail(s))
           /\ \A y \in ToSet(Tail(s)) : <<Head(s), y>> \in R
<1> DEFINE t == Tail(s)
           n == Len(s)
<1>1. /\ t \in Seq(S) /\ Len(t) = n - 1 /\ n \in Nat \ {0}
      /\ \A i \in 1 .. Len(t) : t[i] = s[i + 1]
      /\ Head(s) = s[1] /\ Head(s) \in S
      /\ DOMAIN s = 1 .. n /\ DOMAIN t = 1 .. (n - 1)
  BY HeadTailProperties
<1> HIDE DEF t, n
<1>2. Ordered(t, R)
  <2> SUFFICES ASSUME NEW i \in DOMAIN t, NEW j \in DOMAIN t, i < j PROVE <<t[i], t[j]>> \in R
    BY DEF Ordered
  <2>1. /\ i + 1 \in DOMAIN s /\ j + 1 \in DOMAIN s /\ i + 1 < j + 1
        /\ t[i] = s[i + 1] /\ t[j] = s[j + 1]
    BY <1>1
  <2> QED BY <2>1 DEF Ordered
<1>3. \A y : y \in ToSet(s) <=> y = s[1] \/ y \in ToSet(t)
  <2>1. ASSUME NEW i \in DOMAIN s, i # 1 PROVE s[i] \in ToSet(t)
    <3>1. i - 1 \in DOMAIN t /\ t[i - 1] = s[i] BY <2>1, <1>1
    <3> QED BY <3>1, <1>1, Members
  <2>2. ASSUME NEW i \in DOMAIN t PROVE t[i] \in ToSet(s)
    <3>1. i + 1 \in DOMAIN s /\ s[i + 1] = t[i] BY <1>1
    <3> QED BY <3>1, Members
  <2>3. s[1] \in ToSet(s)
    <3>1. 1 \in DOMAIN s BY <1>1
    <3> QED BY <3>1, Members
  <2>4. ASSUME NEW y \in ToSet(s) PROVE y = s[1] \/ y \in ToSet(t)
    <3>1. PICK i \in DOMAIN s : s[i] = y BY Members
    <3> QED BY <3>1, <2>1
  <2>5. ASSUME NEW y \in ToSet(t) PROVE y \in ToSet(s)
    <3>1. PICK i \in DOMAIN t : t[i] = y BY <1>1, Members
    <3> QED BY <3>1, <2>2
  <2> QED BY <2>3, <2>4, <2>5
<1>4. ASSUME NEW y \in ToSet(t) PROVE <<s[1], y>> \in R
  <2>1. PICK i \in DOMAIN t : t[i] = y BY <1>1, Members
  <2>2. 1 \in DOMAIN s /\ i + 1 \in DOMAIN s /\ 1 < i + 1 /\ s[i + 1] = y BY <2>1, <1>1
  <2> QED BY <2>2 DEF Ordered
<1> QED BY <1>1, <1>2, <1>3, <1>4 DEF t

LEMMA OrderedConcat ==
    ASSUME NEW S, NEW R, NEW s \in Seq(S), NEW u \in Seq(S),
           Ordered(s, R), Ordered(u, R), Before(s, u, R)
    PROVE  /\ s \o u \in Seq(S) /\ Ordered(s \o u, R)
           /\ ToSet(s \o u) = ToSet(s) \cup ToSet(u)
<1> DEFINE t == s \o u
           m == Len(s)
           n == Len(u)
<1>1. /\ t \in Seq(S) /\ Len(t) = m + n /\ m \in Nat /\ n \in Nat
      /\ \A i \in 1 .. m + n : t[i] = IF i <= m THEN s[i] ELSE u[i - m]
      /\ DOMAIN s = 1 .. m /\ DOMAIN u = 1 .. n
  BY ConcatProperties
<1> HIDE DEF t, m, n
<1>2. DOMAIN t = 1 .. m + n BY <1>1
<1>3. Ordered(t, R)
  <2> SUFFICES ASSUME NEW i \in DOMAIN t, NEW j \in DOMAIN t, i < j PROVE <<t[i], t[j]>> \in R
    BY DEF Ordered
  <2>1. CASE j <= m BY <2>1, <1>1, <1>2 DEF Ordered
  <2>2. CASE i > m
    <3>1. /\ i - m \in DOMAIN u /\ j - m \in DOMAIN u /\ i - m < j - m
          /\ t[i] = u[i - m] /\ t[j] = u[j - m]
      BY <2>2, <1>1, <1>2
    <3> QED BY <3>1 DEF Ordered
  <2>3. CASE i <= m /\ j > m
    <3>1. i \in DOMAIN s /\ j - m \in DOMAIN u /\ t[i] = s[i] /\ t[j] = u[j - m]
      BY <2>3, <1>1, <1>2
    <3>2. s[i] \in ToSet(s) /\ u[j - m] \in ToSet(u) BY <3>1, Members
    <3> QED BY <3>1, <3>2 DEF Before
  <2> QED BY <2>1, <2>2, <2>3, <1>1, <1>2
<1>4. \A y : y \in ToSet(t) <=> y \in ToSet(s) \/ y \in ToSet(u)
  <2>1. ASSUME NEW i \in DOMAIN s PROVE s[i] \in ToSet(t)
    <3>1. i \in DOMAIN t /\ t[i] = s[i] BY <1>1, <1>2
    <3> QED BY <3>1, <1>1, Members
  <2>2. ASSUME NEW i \in DOMAIN u PROVE u[i] \in ToSet(t)
    <3>1. i + m \in DOMAIN t /\ t[i + m] = u[i] BY <1>1, <1>2
    <3> QED BY <3>1, <1>1, Members
  <2>3. ASSUME NEW i \in DOMAIN t PROVE t[i] \in ToSet(s) \/ t[i] \in ToSet(u)
    <3>1. CASE i <= m
      <4>1. i \in DOMAIN s /\ t[i] = s[i] BY <3>1, <1>1, <1>2
      <4> QED BY <4>1, Members
    <3>2. CASE i > m
      <4>1. i - m \in DOMAIN u /\ t[i] = u[i - m] BY <3>2, <1>1, <1>2
      <4> QED BY <4>1, Members
    <3> QED BY <3>1, <3>2, <1>1, <1>2
  <2>4. ASSUME NEW y \in ToSet(t) PROVE y \in ToSet(s) \/ y \in ToSet(u)
    <3>1. PICK i \in DOMAIN t : t[i] = y BY <1>1, Members
    <3> QED BY <3>1, <2>3
  <2>5. ASSUME NEW y \in ToSet(s) PROVE y \in ToSet(t)
    <3>1. PICK i \in DOMAIN s : s[i] = y BY Members
    <3> QED BY <3>1, <2>1
  <2>6. ASSUME NEW y \in ToSet(u) PROVE y \in ToSet(t)
    <3>1. PICK i \in DOMAIN u : u[i] = y BY Members
    <3> QED BY <3>1, <2>2
  <2> QED BY <2>4, <2>5, <2>6
<1> QED BY <1>1, <1>3, <1>4 DEF t

LEMMA OrderedSplit ==
    ASSUME NEW S, NEW R, NEW s \in Seq(S), NEW n \in 0 .. Len(s), Ordered(s, R)
    PROVE  /\ SubSeq(s, 1, n) \in Seq(S) /\ Ordered(SubSeq(s, 1, n), R)
           /\ SubSeq(s, n + 1, Len(s)) \in Seq(S)
           /\ ToSet(s) = ToSet(SubSeq(s, 1, n)) \cup ToSet(SubSeq(s, n + 1, Len(s)))
           /\ Before(SubSeq(s, 1, n), SubSeq(s, n + 1, Len(s)), R)
<1> DEFINE t == SubSeq(s, 1, n)
           u == SubSeq(s, n + 1, Len(s))
           k == Len(s)
<1>1. k \in Nat /\ n \in Nat /\ n <= k /\ DOMAIN s = 1 .. k /\ \A i \in 1 .. k : s[i] \in S
  OBVIOUS
<1>2. t \in Seq(S) /\ DOMAIN t = 1 .. n /\ \A i \in 1 .. n : t[i] = s[i]
  <2>1. 1 \in Int /\ n \in Int /\ \A i \in 1 .. n : s[i] \in S BY <1>1
  <2>2. t \in Seq(S) /\ Len(t) = (IF 1 <= n THEN n - 1 + 1 ELSE 0)
    BY <2>1, SubSeqProperties
  <2>3. \A i \in 1 .. n - 1 + 1 : t[i] = s[1 + i - 1] BY <2>1, SubSeqProperties
  <2> DEFINE l == Len(t)
  <2> HIDE DEF t, l
  <2>4. l = n /\ \A i \in 1 .. n : t[i] = s[i]
    <3>1. \A i \in 1 .. n : 1 + i - 1 = i /\ i \in 1 .. n - 1 + 1 BY <1>1
    <3>2. l = n BY <1>1, <2>2 DEF l
    <3> QED BY <2>3, <3>1, <3>2
  <2> QED BY <2>2, <2>4 DEF l
<1>3. u \in Seq(S) /\ DOMAIN u = 1 .. k - n /\ \A i \in 1 .. k - n : u[i] = s[n + i]
  <2>1. n + 1 \in Int /\ k \in Int /\ \A i \in (n + 1) .. k : s[i] \in S BY <1>1
  <2>2. u \in Seq(S) /\ Len(u) = (IF n + 1 <= k THEN k - (n + 1) + 1 ELSE 0)
    BY <2>1, SubSeqProperties
  <2>3. \A i \in 1 .. k - (n + 1) + 1 : u[i] = s[n + 1 + i - 1] BY <2>1, SubSeqProperties
  <2> DEFINE l == Len(u)
  <2> HIDE DEF u, l, k
  <2>4. l = k - n /\ \A i \in 1 .. k - n : u[i] = s[n + i]
    <3>1. \A i \in 1 .. k - n : n + 1 + i - 1 = n + i /\ i \in 1 .. k - (n + 1) + 1 BY <1>1
    <3>2. l = k - n BY <1>1, <2>2 DEF l
    <3> QED BY <2>3, <3>1, <3>2
  <2> QED BY <2>2, <2>4 DEF l
<1> HIDE DEF t, u, k
<1>4. Ordered(t, R) BY <1>1, <1>2 DEF Ordered
<1>5. Before(t, u, R)
  <2> SUFFICES ASSUME NEW x \in ToSet(t), NEW y \in ToSet(u) PROVE <<x, y>> \in R BY DEF Before
  <2>1. PICK i \in DOMAIN t : t[i] = x BY <1>2, Members
  <2>2. PICK j \in DOMAIN u : u[j] = y BY <1>3, Members
  <2>3. i \in DOMAIN s /\ n + j \in DOMAIN s /\ i < n + j /\ s[i] = x /\ s[n + j] = y
    BY <2>1, <2>2, <1>1, <1>2, <1>3
  <2> QED BY <2>3 DEF Ordered
<1>6. \A y : y \in ToSet(s) <=> y \in ToSet(t) \/ y \in ToSet(u)
  <2>1. ASSUME NEW i \in DOMAIN s PROVE s[i] \in ToSet(t) \/ s[i] \in ToSet(u)
    <3>1. CASE i <= n
      <4>1. i \in DOMAIN t /\ t[i] = s[i] BY <3>1, <1>1, <1>2
      <4> QED BY <4>1, <1>2, Members
    <3>2. CASE i > n
      <4>1. i - n \in DOMAIN u /\ u[i - n] = s[i] BY <3>2, <1>1, <1>3
      <4> QED BY <4>1, <1>3, Members
    <3> QED BY <3>1, <3>2, <1>1
  <2>2. ASSUME NEW i \in DOMAIN t PROVE t[i] \in ToSet(s)
    <3>1. i \in DOMAIN s /\ s[i] = t[i] BY <1>1, <1>2
    <3> QED BY <3>1, Members
  <2>3. ASSUME NEW i \in DOMAIN u PROVE u[i] \in ToSet(s)
    <3>1. n + i \in DOMAIN s /\ s[n + i] = u[i] BY <1>1, <1>3
    <3> QED BY <3>1, Members
  <2>4. ASSUME NEW y \in ToSet(s) PROVE y \in ToSet(t) \/ y \in ToSet(u)
    <3>1. PICK i \in DOMAIN s : s[i] = y BY Members
    <3> QED BY <3>1, <2>1
  <2>5. ASSUME NEW y \in ToSet(t) PROVE y \in ToSet(s)
    <3>1. PICK i \in DOMAIN t : t[i] = y BY <1>2, Members
    <3> QED BY <3>1, <2>2
  <2>6. ASSUME NEW y \in ToSet(u) PROVE y \in ToSet(s)
    <3>1. PICK i \in DOMAIN u : u[i] = y BY <1>3, Members
    <3> QED BY <3>1, <2>3
  <2> QED BY <2>4, <2>5, <2>6
<1> QED BY <1>2, <1>3, <1>4, <1>5, <1>6 DEF t, u, k

\* Nothing stands twice where nothing is in the relation to itself.
LEMMA OrderedInjective ==
    ASSUME NEW S, NEW R, NEW s \in Seq(S), Ordered(s, R), \A x : <<x, x>> \notin R
    PROVE  IsInjective(s)
<1>1. DOMAIN s = 1 .. Len(s) /\ Len(s) \in Nat BY Members
<1> SUFFICES ASSUME NEW i \in DOMAIN s, NEW j \in DOMAIN s, s[i] = s[j] PROVE i = j
  BY DEF IsInjective
<1>2. ~(i < j) /\ ~(j < i)
  <2>1. <<s[i], s[j]>> \notin R /\ <<s[j], s[i]>> \notin R OBVIOUS
  <2> QED BY <2>1 DEF Ordered
<1> QED BY <1>1, <1>2

-----------------------------------------------------------------------------
(* The inductive invariants.                                                 *)

\* A record of the same thread with a smaller number.
Earlier == {p \in Records \X Records : p[1][1] = p[2][1] => p[1][2] < p[2][2]}

\* Along stored, batch and queue the records of a thread stand in the order in
\* which it logged them, so none stands twice; and none of them is lost.
LogInv ==
    /\ TypeOK
    /\ AllLogged = ToSet(queue) \cup ToSet(batch) \cup ToSet(stored) \cup lost
    /\ Ordered(stored, Earlier) /\ Ordered(batch, Earlier) /\ Ordered(queue, Earlier)
    /\ Before(stored, batch, Earlier)
    /\ Before(stored, queue, Earlier)
    /\ Before(batch, queue, Earlier)
    /\ lost \cap (ToSet(stored) \cup ToSet(batch) \cup ToSet(queue)) = {}
    /\ worker \in {"looping", "getting"} => Len(batch) < BatchSize

Other == {p \in Trace!Spans \X Trace!Spans : p[1] # p[2]}

Drainer == {"worker", "flusher", "stopper"}

Settled == spansStored \cup spansLost \cup refused

InHand == ToSet(spanQueue) \cup UNION {ToSet(spanBuffer[d]) : d \in Drainer}

\* A span is in the queue or in the hands of one drainer, once, or settled.
SpansInv ==
    /\ 1 .. next - 1 = InHand \cup Settled
    /\ InHand \cap Settled = {}
    /\ spansStored \cap spansLost = {} /\ refused \cap (spansStored \cup spansLost) = {}
    /\ Ordered(spanQueue, Other)
    /\ \A d \in Drainer :
          /\ Ordered(spanBuffer[d], Other)
          /\ Before(spanBuffer[d], spanQueue, Other)
    /\ \A d, e \in Drainer : d # e => Before(spanBuffer[d], spanBuffer[e], Other)

\* What a drainer promised was put into the queue before its call, and has left
\* the queue once the drainer found it empty.
DrainInv ==
    \A d \in Drainer :
        /\ spansPromised[d] \subseteq 1 .. next - 1
        /\ at[d] \in {"inserting", "closing", "done"} =>
              spansPromised[d] \cap ToSet(spanQueue) = {}

TraceInv ==
    /\ Trace!TypeOK
    /\ SpansInv
    /\ DrainInv
    /\ at["worker"] \in {"looping", "getting"} => spanBuffer["worker"] = <<>>

\* A renewal that is due in time: the task waits for less than the lock lasts.
InTime(l) == renewal[l] = "waiting" /\ ~event[l] /\ timer[l] < job[l].left

HandlerInv(l) ==
    Renewal!Busy(l) /\ l \notin handlersExcused /\ workerStops = "idle"
        /\ ~Renewal!Expired(l) => InTime(l)

RenewalInv == Renewal!TypeOK /\ \A l \in Loops : HandlerInv(l)

\* The listeners are numbered as they are made, and there is a number for
\* every call that may still make one.
Makers == {c \in Callers : callAt[c] = "subscribing"}

Numbered ==
    \E n \in Nat : Redis!Born = 1 .. n /\ n + Cardinality(Makers) <= MaxListeners

CallInv(c) ==
    /\ callAt[c] \in {"subscribing", "unsubscribing"} => on[c] \in Channels
    /\ awaited[c] \in Redis!Born \cup {Redis!None}

\* The one call on a channel while none overlapped: what it knows of the
\* channel's listener.
OnlyCall(c, ch) ==
    /\ \A d \in Redis!CallsOn(ch) : d = c
    /\ callAt[c] = "subscribing" => tasks[ch] = Redis!None /\ ch \in subscriptions
    /\ callAt[c] = "unsubscribing" => tasks[ch] = Redis!None
    /\ callAt[c] = "disposing" /\ tasks[ch] # Redis!None /\ ch \notin left[c] =>
          phase[tasks[ch]] = "ended" \/ tasks[ch] = awaited[c]

\* A listener that lives is the one the table names, or the one that the call
\* which took it out of the table waits for.
Known(l, ch) ==
    \/ tasks[ch] = l
    \/ \E c \in Redis!CallsOn(ch) : callAt[c] = "unsubscribing" /\ awaited[c] = l

ChannelInv(ch) ==
    /\ tasks[ch] # Redis!None => ch \in subscriptions
    /\ \A l \in Redis!Live : channel[l] = ch => Known(l, ch)
    /\ \A c \in Redis!CallsOn(ch) : OnlyCall(c, ch)

RedisInv ==
    /\ Redis!TypeOK
    /\ Numbered
    /\ \A ch \in Channels : tasks[ch] \in Redis!Born \cup {Redis!None}
    /\ \A c \in Callers : CallInv(c)
    /\ \A ch \in Channels \ channelsExcused : ChannelInv(ch)

WorkersInv == LogInv /\ TraceInv /\ RenewalInv /\ RedisInv

-----------------------------------------------------------------------------
(* The lock renewal. *)

LEMMA RenewalInit == Renewal!Init => RenewalInv
<1> SUFFICES ASSUME Renewal!Init PROVE RenewalInv OBVIOUS
<1> USE DEF Renewal!Init
<1>1. Renewal!TypeOK
  <2>1. ready \subseteq Messages /\ delivered \in 0 .. MaxDeliveries
    BY WorkersAssumption DEF Renewal!RenewalAssumption
  <2>2. prefetched \in [Loops -> Seq(Renewal!Deliveries)] OBVIOUS
  <2>3. \A l \in Loops : Len(prefetched[l]) <= Prefetch
    BY WorkersAssumption DEF Renewal!RenewalAssumption
  <2>4. job \in [Loops -> Renewal!Deliveries \cup {Renewal!NoJob}] OBVIOUS
  <2>5. renewal \in [Loops -> {"none", "waiting"}] /\ event \in [Loops -> BOOLEAN] OBVIOUS
  <2>6. timer \in [Loops -> 0 .. RenewalInterval] /\ elapsed \in [Loops -> 0 .. MaxProcessingTime + 1]
    BY WorkersAssumption DEF Renewal!RenewalAssumption
  <2>7. active \in [Renewal!Ids -> Loops \cup {Renewal!NoOne}] OBVIOUS
  <2>8. workerStops \in {"idle", "closing", "done"} /\ closed \subseteq Loops /\ handlersExcused \subseteq Loops
    OBVIOUS
  <2> QED BY <2>1, <2>2, <2>3, <2>4, <2>5, <2>6, <2>7, <2>8 DEF Renewal!TypeOK
<1>2. \A l \in Loops : HandlerInv(l) BY DEF HandlerInv, Renewal!Busy
<1> QED BY <1>1, <1>2 DEF RenewalInv

\* A delivery that ages stays one; so does the absence of one.
LEMMA OlderDelivery ==
    ASSUME NEW d \in Renewal!Deliveries
    PROVE  /\ Renewal!Older(d) \in Renewal!Deliveries
           /\ Renewal!Older(d).left = IF d.left = 0 THEN 0 ELSE d.left - 1
<1>1. d.left \in 0 .. LockDuration /\ LockDuration \in Nat
  BY WorkersAssumption DEF Renewal!Deliveries, Renewal!RenewalAssumption
<1> DEFINE n == IF d.left = 0 THEN 0 ELSE d.left - 1
<1>2. n \in 0 .. LockDuration BY <1>1
<1> HIDE DEF n
<1>3. Renewal!Older(d) = [d EXCEPT !.left = n] BY DEF Renewal!Older, n, Renewal!Deliveries
<1> QED BY <1>2, <1>3 DEF Renewal!Deliveries, n

LEMMA OlderJob ==
    /\ Renewal!Older(Renewal!NoJob) = Renewal!NoJob
    /\ Renewal!NoJob \notin Renewal!Deliveries \/ Renewal!NoOne \in Messages
BY DEF Renewal!Older, Renewal!NoJob, Renewal!Deliveries

LEMMA DeliverKeeps ==
    ASSUME RenewalInv, NEW k \in Loops, Renewal!Deliver(k)
    PROVE  RenewalInv'
<1> USE DEF RenewalInv, Renewal!TypeOK, Renewal!Deliver
<1>1. Renewal!TypeOK'
  <2>1. PICK m \in ready : /\ ready' = ready \ {m}
                           /\ prefetched' = [prefetched EXCEPT ![k] =
                                 Append(@, [message |-> m, left |-> LockDuration])]
    OBVIOUS
  <2> DEFINE d == [message |-> m, left |-> LockDuration]
  <2>2. d \in Renewal!Deliveries
    BY WorkersAssumption DEF Renewal!Deliveries, Renewal!RenewalAssumption
  <2> HIDE DEF d
  <2>3. Append(prefetched[k], d) \in Seq(Renewal!Deliveries)
        /\ Len(Append(prefetched[k], d)) = Len(prefetched[k]) + 1 /\ Len(prefetched[k]) \in Nat
    BY <2>2, AppendProperties
  <2>4. prefetched' = [prefetched EXCEPT ![k] = Append(prefetched[k], d)] BY <2>1 DEF d
  <2>5. prefetched' \in [Loops -> Seq(Renewal!Deliveries)] BY <2>3, <2>4
  <2>6. \A l \in Loops : Len(prefetched'[l]) <= Prefetch
    BY <2>3, <2>4, WorkersAssumption DEF Renewal!RenewalAssumption
  <2>7. delivered' \in 0 .. MaxDeliveries
    BY WorkersAssumption DEF Renewal!RenewalAssumption
  <2> QED BY <2>1, <2>5, <2>6, <2>7 DEF Renewal!table
<1>2. \A l \in Loops : HandlerInv(l)'
  BY DEF HandlerInv, InTime, Renewal!Busy, Renewal!Expired, Renewal!table
<1> QED BY <1>1, <1>2

LEMMA BeginKeeps ==
    ASSUME RenewalInv, NEW k \in Loops, Renewal!Begin(k)
    PROVE  RenewalInv'
<1> USE DEF RenewalInv, Renewal!TypeOK, Renewal!Begin
<1> DEFINE d == Head(prefetched[k])
<1>1. d \in Renewal!Deliveries /\ Tail(prefetched[k]) \in Seq(Renewal!Deliveries)
      /\ Len(Tail(prefetched[k])) = Len(prefetched[k]) - 1 /\ Len(prefetched[k]) \in Nat
  BY HeadTailProperties
<1>2. /\ job' = [job EXCEPT ![k] = d]
      /\ active' = [active EXCEPT ![IdOf[d.message]] = k]
      /\ handlersExcused' = IF d.left > RenewalInterval
                            THEN handlersExcused \ {k} ELSE handlersExcused \cup {k}
  OBVIOUS
<1> HIDE DEF d
<1>3. RenewalInterval \in Nat BY WorkersAssumption DEF Renewal!RenewalAssumption
<1>4. Renewal!TypeOK'
  <2>1. prefetched' \in [Loops -> Seq(Renewal!Deliveries)] BY <1>1
  <2>2. \A l \in Loops : Len(prefetched'[l]) <= Prefetch
    BY <1>1, WorkersAssumption DEF Renewal!RenewalAssumption
  <2>3. job' \in [Loops -> Renewal!Deliveries \cup {Renewal!NoJob}] BY <1>1, <1>2
  <2>4. active' \in [Renewal!Ids -> Loops \cup {Renewal!NoOne}]
    <3> DEFINE i == IdOf[d.message]
    <3> HIDE DEF i
    <3>1. active \in [Renewal!Ids -> Loops \cup {Renewal!NoOne}] OBVIOUS
    <3>2. active' = [active EXCEPT ![i] = k] BY <1>2 DEF i
    <3> HIDE DEF RenewalInv, Renewal!TypeOK, Renewal!Begin
    <3> QED BY <3>1, <3>2
  <2>5. handlersExcused' \subseteq Loops BY <1>2
  <2>6. /\ renewal' \in [Loops -> {"none", "waiting"}] /\ event' \in [Loops -> BOOLEAN]
        /\ timer' \in [Loops -> 0 .. RenewalInterval]
    BY <1>3
  <2>7. elapsed' \in [Loops -> 0 .. MaxProcessingTime + 1]
    BY WorkersAssumption DEF Renewal!RenewalAssumption
  <2> QED BY <2>1, <2>2, <2>3, <2>4, <2>5, <2>6, <2>7 DEF Renewal!broker
<1>5. ASSUME NEW l \in Loops PROVE HandlerInv(l)'
  <2>1. CASE l = k
    <3>1. renewal'[k] = "waiting" /\ ~event'[k] /\ timer'[k] = RenewalInterval /\ job'[k] = d
      BY <1>2
    <3>2. k \notin handlersExcused' => RenewalInterval < d.left
      BY <1>2, <1>1, <1>3 DEF Renewal!Deliveries
    <3> QED BY <2>1, <3>1, <3>2 DEF HandlerInv, InTime
  <2>2. CASE l # k
    <3>1. /\ renewal'[l] = renewal[l] /\ event'[l] = event[l] /\ timer'[l] = timer[l]
          /\ job'[l] = job[l] /\ elapsed'[l] = elapsed[l]
          /\ (l \in handlersExcused' <=> l \in handlersExcused)
      BY <2>2, <1>2
    <3> QED BY <3>1 DEF HandlerInv, InTime, Renewal!Busy, Renewal!Expired
  <2> QED BY <2>1, <2>2
<1> QED BY <1>4, <1>5

LEMMA FinishKeeps ==
    ASSUME RenewalInv, NEW k \in Loops, Renewal!Finish(k)
    PROVE  RenewalInv'
<1> USE DEF RenewalInv, Renewal!TypeOK, Renewal!Finish, Renewal!Finally, Renewal!OwnEvent
<1>1. Renewal!Busy(k) /\ job[k] \in Renewal!Deliveries /\ job[k].message \in Messages
  BY DEF Renewal!Busy, Renewal!Deliveries
<1>2. Renewal!TypeOK'
  <2>1. ready' \subseteq Messages BY <1>1
  <2>2. event' \in [Loops -> BOOLEAN]
    <3>1. \A e \in Loops : (event[e] \/ e = k) \in BOOLEAN OBVIOUS
    <3> QED BY <3>1
  <2>3. active' \in [Renewal!Ids -> Loops \cup {Renewal!NoOne}] OBVIOUS
  <2>4. renewal' \in [Loops -> {"none", "waiting"}] OBVIOUS
  <2>5. job' \in [Loops -> Renewal!Deliveries \cup {Renewal!NoJob}] OBVIOUS
  <2>6. timer' \in [Loops -> 0 .. RenewalInterval]
    BY WorkersAssumption DEF Renewal!RenewalAssumption
  <2>7. elapsed' \in [Loops -> 0 .. MaxProcessingTime + 1]
    BY WorkersAssumption DEF Renewal!RenewalAssumption
  <2> QED BY <2>1, <2>2, <2>3, <2>4, <2>5, <2>6, <2>7
<1>3. ASSUME NEW l \in Loops PROVE HandlerInv(l)'
  <2>1. CASE l = k BY <2>1 DEF HandlerInv, Renewal!Busy
  <2>2. CASE l # k
    <3>1. /\ renewal'[l] = renewal[l] /\ event'[l] = event[l] /\ timer'[l] = timer[l]
          /\ job'[l] = job[l] /\ elapsed'[l] = elapsed[l]
          /\ (l \in handlersExcused' <=> l \in handlersExcused)
      BY <2>2
    <3> QED BY <3>1 DEF HandlerInv, InTime, Renewal!Busy, Renewal!Expired
  <2> QED BY <2>1, <2>2
<1> QED BY <1>2, <1>3

LEMMA RenewalEndsKeeps ==
    ASSUME RenewalInv, NEW k \in Loops, Renewal!RenewalEnds(k)
    PROVE  RenewalInv'
<1> USE DEF RenewalInv, Renewal!TypeOK, Renewal!RenewalEnds
<1>1. Renewal!TypeOK'
  <2>1. renewal' \in [Loops -> {"none", "waiting"}] OBVIOUS
  <2>2. timer' \in [Loops -> 0 .. RenewalInterval]
    BY WorkersAssumption DEF Renewal!RenewalAssumption
  <2> QED BY <2>1, <2>2 DEF Renewal!broker, Renewal!table
<1>2. ASSUME NEW l \in Loops PROVE HandlerInv(l)'
  <2>1. CASE l = k
    <3>1. event[k] \/ Renewal!Expired(k) OBVIOUS
    <3> QED BY <2>1, <3>1
            DEF HandlerInv, InTime, Renewal!Busy, Renewal!Expired, Renewal!table
  <2>2. CASE l # k
    <3>1. renewal'[l] = renewal[l] /\ timer'[l] = timer[l] BY <2>2
    <3> QED BY <3>1 DEF HandlerInv, InTime, Renewal!Busy, Renewal!Expired, Renewal!table
  <2> QED BY <2>1, <2>2
<1> QED BY <1>1, <1>2

LEMMA RenewKeeps ==
    ASSUME RenewalInv, NEW k \in Loops, Renewal!Renew(k)
    PROVE  RenewalInv'
<1> USE DEF RenewalInv, Renewal!TypeOK, Renewal!Renew, Renewal!Due, Renewal!NextWait
<1>1. /\ LockDuration \in Nat /\ RenewalInterval \in Nat /\ RenewalInterval < LockDuration
  BY WorkersAssumption DEF Renewal!RenewalAssumption
<1>2. job[k] \in Renewal!Deliveries
  BY DEF Renewal!Held, Renewal!NoJob
<1>3. [job[k] EXCEPT !.left = LockDuration] \in Renewal!Deliveries
      /\ [job[k] EXCEPT !.left = LockDuration].left = LockDuration
  <2> DEFINE d == job[k]
  <2> HIDE DEF d, RenewalInv, Renewal!TypeOK, Renewal!Renew
  <2>1. d \in Renewal!Deliveries BY <1>2 DEF d
  <2>2. [d EXCEPT !.left = LockDuration] \in Renewal!Deliveries
        /\ [d EXCEPT !.left = LockDuration].left = LockDuration
    BY <1>1, <2>1 DEF Renewal!Deliveries
  <2> QED BY <2>2 DEF d
<1>4. job' = [job EXCEPT ![k] = [job[k] EXCEPT !.left = LockDuration]] OBVIOUS
<1>5. Renewal!TypeOK'
  <2>1. job' \in [Loops -> Renewal!Deliveries \cup {Renewal!NoJob}] BY <1>3, <1>4
  <2>2. timer' \in [Loops -> 0 .. RenewalInterval] BY <1>1
  <2> QED BY <2>1, <2>2 DEF Renewal!broker, Renewal!table
<1>6. ASSUME NEW l \in Loops PROVE HandlerInv(l)'
  <2>1. CASE l = k
    <3>1. job'[k].left = LockDuration /\ timer'[k] = RenewalInterval BY <1>3, <1>4
    <3>2. renewal'[k] = "waiting" /\ ~event'[k] OBVIOUS
    <3> QED BY <2>1, <3>1, <3>2, <1>1 DEF HandlerInv, InTime
  <2>2. CASE l # k
    <3>1. job'[l] = job[l] /\ timer'[l] = timer[l] BY <2>2, <1>4
    <3> QED BY <3>1 DEF HandlerInv, InTime, Renewal!Busy, Renewal!Expired, Renewal!table
  <2> QED BY <2>1, <2>2
<1> QED BY <1>5, <1>6

LEMMA RenewFailsKeeps ==
    ASSUME RenewalInv, NEW k \in Loops, Renewal!RenewFails(k)
    PROVE  RenewalInv'
<1> USE DEF RenewalInv, Renewal!TypeOK, Renewal!RenewFails
<1>1. Renewal!TypeOK' BY DEF Renewal!broker, Renewal!table
<1>2. ASSUME NEW l \in Loops PROVE HandlerInv(l)'
  <2>1. CASE l = k BY <2>1 DEF HandlerInv
  <2>2. CASE l # k
    <3>1. event'[l] = event[l] /\ (l \in handlersExcused' <=> l \in handlersExcused) BY <2>2
    <3> QED BY <3>1 DEF HandlerInv, InTime, Renewal!Busy, Renewal!Expired, Renewal!table
  <2> QED BY <2>1, <2>2
<1> QED BY <1>1, <1>2

LEMMA StopKeeps ==
    ASSUME RenewalInv, Renewal!Stop
    PROVE  RenewalInv'
<1> USE DEF RenewalInv, Renewal!TypeOK, Renewal!Stop, Renewal!Stopped
<1>1. Renewal!TypeOK'
  <2>1. event' \in [Loops -> BOOLEAN]
    <3>1. \A l \in Loops : (event[l] \/ \E i \in Renewal!Ids : active[i] = l) \in BOOLEAN OBVIOUS
    <3> QED BY <3>1
  <2>2. active' \in [Renewal!Ids -> Loops \cup {Renewal!NoOne}] OBVIOUS
  <2> QED BY <2>1, <2>2 DEF Renewal!broker
<1>2. \A l \in Loops : HandlerInv(l)' BY DEF HandlerInv
<1> QED BY <1>1, <1>2

LEMMA CloseKeeps ==
    ASSUME RenewalInv, NEW k \in Loops, Renewal!Close(k)
    PROVE  RenewalInv'
<1> USE DEF RenewalInv, Renewal!TypeOK, Renewal!Close
<1>1. Renewal!TypeOK'
  <2>1. prefetched' \in [Loops -> Seq(Renewal!Deliveries)] OBVIOUS
  <2>2. \A l \in Loops : Len(prefetched'[l]) <= Prefetch
    BY WorkersAssumption DEF Renewal!RenewalAssumption
  <2> QED BY <2>1, <2>2 DEF Renewal!broker
<1>2. \A l \in Loops : HandlerInv(l)'
  BY DEF HandlerInv
<1> QED BY <1>1, <1>2

LEMMA TickKeeps ==
    ASSUME RenewalInv, Renewal!Tick
    PROVE  RenewalInv'
<1> USE DEF RenewalInv, Renewal!TypeOK, Renewal!Tick
<1>1. LockDuration \in Nat /\ RenewalInterval \in Nat /\ MaxProcessingTime \in Nat
  BY WorkersAssumption DEF Renewal!RenewalAssumption
<1>2. ASSUME NEW l \in Loops PROVE job'[l] \in Renewal!Deliveries \cup {Renewal!NoJob}
  <2>1. job'[l] = Renewal!Older(job[l]) OBVIOUS
  <2>2. CASE job[l] = Renewal!NoJob BY <2>1, <2>2, OlderJob
  <2>3. CASE job[l] \in Renewal!Deliveries
    <3> DEFINE d == job[l]
    <3> HIDE DEF d
    <3>1. Renewal!Older(d) \in Renewal!Deliveries BY <2>3, OlderDelivery DEF d
    <3> QED BY <2>1, <3>1 DEF d
  <2> QED BY <2>2, <2>3
<1>3. ASSUME NEW l \in Loops
      PROVE  prefetched'[l] \in Seq(Renewal!Deliveries) /\ Len(prefetched'[l]) = Len(prefetched[l])
  <2> DEFINE b == prefetched[l]
             c == prefetched'[l]
  <2>1. b \in Seq(Renewal!Deliveries) /\ c = [i \in DOMAIN b |-> Renewal!Older(b[i])] OBVIOUS
  <2> HIDE DEF b, c, RenewalInv, Renewal!TypeOK, Renewal!Tick
  <2>2. Len(b) \in Nat /\ DOMAIN b = 1 .. Len(b) /\ \A i \in 1 .. Len(b) : b[i] \in Renewal!Deliveries
    BY <2>1
  <2>3. \A i \in 1 .. Len(b) : Renewal!Older(b[i]) \in Renewal!Deliveries BY <2>2, OlderDelivery
  <2>4. c \in [1 .. Len(b) -> Renewal!Deliveries] BY <2>1, <2>2, <2>3
  <2>5. c \in Seq(Renewal!Deliveries) /\ Len(c) = Len(b) BY <2>2, <2>4
  <2> QED BY <2>5 DEF b, c
<1>4. Renewal!TypeOK'
  <2>1. ready' \subseteq Messages
    <3>1. \A l \in Loops : Renewal!Busy(l) => job[l].message \in Messages
      BY DEF Renewal!Busy, Renewal!Deliveries
    <3> QED BY <3>1
  <2>2. prefetched' \in [Loops -> Seq(Renewal!Deliveries)]
    <3>1. prefetched' = [l \in Loops |-> prefetched'[l]] OBVIOUS
    <3> QED BY <3>1, <1>3
  <2>3. \A l \in Loops : Len(prefetched'[l]) <= Prefetch BY <1>3
  <2>4. job' \in [Loops -> Renewal!Deliveries \cup {Renewal!NoJob}]
    <3>1. job' = [l \in Loops |-> job'[l]] OBVIOUS
    <3> QED BY <3>1, <1>2
  <2>5. timer' \in [Loops -> 0 .. RenewalInterval]
    <3>1. \A l \in Loops : renewal[l] = "waiting" => timer[l] - 1 \in 0 .. RenewalInterval
      BY <1>1 DEF Renewal!Quiet
    <3> QED BY <3>1, <1>1
  <2>6. elapsed' \in [Loops -> 0 .. MaxProcessingTime + 1]
    <3>1. \A l \in Loops : ~Renewal!Expired(l) => elapsed[l] + 1 \in 0 .. MaxProcessingTime + 1
      BY <1>1 DEF Renewal!Expired
    <3> QED BY <3>1
  <2> QED BY <2>1, <2>2, <2>3, <2>4, <2>5, <2>6 DEF Renewal!table
<1>5. ASSUME NEW l \in Loops PROVE HandlerInv(l)'
  <2> SUFFICES ASSUME Renewal!Busy(l)', (l \notin handlersExcused)', (workerStops = "idle")',
                      ~Renewal!Expired(l)'
               PROVE  InTime(l)'
    BY DEF HandlerInv
  <2>1. Renewal!Busy(l)
    <3>1. job'[l] = Renewal!Older(job[l]) OBVIOUS
    <3> QED BY <3>1, OlderJob DEF Renewal!Busy
  <2>2. ~Renewal!Expired(l)
    <3>1. elapsed[l] \in Nat /\ elapsed'[l] \in Nat /\ elapsed'[l] >= elapsed[l] BY <1>1
    <3> QED BY <3>1, <1>1 DEF Renewal!Expired
  <2>3. InTime(l) BY <2>1, <2>2 DEF HandlerInv, Renewal!table
  <2>4. job[l] \in Renewal!Deliveries /\ job[l].left \in Nat
    BY <2>1, <1>1 DEF Renewal!Busy, Renewal!Deliveries
  <2>5. job'[l].left = IF job[l].left = 0 THEN 0 ELSE job[l].left - 1
    <3> DEFINE d == job[l]
    <3> HIDE DEF d
    <3>1. Renewal!Older(d).left = IF d.left = 0 THEN 0 ELSE d.left - 1
      BY <2>4, OlderDelivery DEF d
    <3> QED BY <3>1 DEF d
  <2>6. timer'[l] = timer[l] - 1 /\ timer[l] \in Nat BY <2>3, <1>1 DEF InTime
  <2> QED BY <2>3, <2>4, <2>5, <2>6 DEF InTime
<1> QED BY <1>4, <1>5

LEMMA RenewalStepKeeps == RenewalInv /\ Renewal!Next => RenewalInv'
BY DeliverKeeps, BeginKeeps, FinishKeeps, RenewalEndsKeeps, RenewKeeps, RenewFailsKeeps, StopKeeps,
   CloseKeeps, TickKeeps
   DEF Renewal!Next, Renewal!RenewalStep

LEMMA RenewalRests == RenewalInv /\ UNCHANGED renewalVars => RenewalInv'
BY DEF RenewalInv, renewalVars, Renewal!TypeOK, HandlerInv, InTime, Renewal!Busy, Renewal!Expired

LEMMA RenewalSafe == RenewalInv => Renewal!TypeOK /\ Renewal!LockHeld
<1> SUFFICES ASSUME RenewalInv PROVE Renewal!LockHeld BY DEF RenewalInv
<1> SUFFICES ASSUME NEW l \in Loops, Renewal!Busy(l), l \notin handlersExcused, workerStops = "idle",
                    ~Renewal!Expired(l)
             PROVE  Renewal!Held(l)
  BY DEF Renewal!LockHeld
<1>1. timer[l] < job[l].left BY DEF RenewalInv, HandlerInv, InTime
<1>2. timer[l] \in Nat /\ job[l].left \in Nat
  BY WorkersAssumption
     DEF RenewalInv, Renewal!TypeOK, Renewal!Busy, Renewal!Deliveries, Renewal!RenewalAssumption
<1> QED BY <1>1, <1>2 DEF Renewal!Held

-----------------------------------------------------------------------------
(* The log exporter. *)

LEMMA NotEarlier == \A x : <<x, x>> \notin Earlier
<1> SUFFICES ASSUME NEW x, <<x, x>> \in Earlier PROVE FALSE OBVIOUS
<1>1. x \in Records /\ x[2] < x[2] BY DEF Earlier
<1>2. x[2] \in Nat BY <1>1 DEF Records
<1> QED BY <1>1, <1>2

LEMMA LogInit == Init => LogInv
<1> SUFFICES ASSUME Init PROVE LogInv OBVIOUS
<1>1. TypeOK
  <2>1. logged \in [Threads -> 0 .. MaxRecords] BY ExporterAssumption DEF Init
  <2>2. /\ queue \in Seq(Records) /\ batch \in Seq(Records) /\ stored \in Seq(Records)
        /\ Len(batch) = 0
    BY DEF Init
  <2>3. 0 <= BatchSize BY ExporterAssumption
  <2> QED BY <2>1, <2>2, <2>3 DEF Init, TypeOK
<1>2. AllLogged = {}
  <2>1. \A r \in Records : r[2] > logged[r[1]] BY ExporterAssumption DEF Init, Records
  <2> QED BY <2>1, ExporterAssumption DEF AllLogged, Records, Init
<1>3. ToSet(queue) = {} /\ ToSet(batch) = {} /\ ToSet(stored) = {} /\ lost = {}
  BY OrderedEmpty DEF Init
<1>4. Ordered(stored, Earlier) /\ Ordered(batch, Earlier) /\ Ordered(queue, Earlier)
  BY OrderedEmpty DEF Init
<1>5. worker \in {"looping", "getting"} => Len(batch) < BatchSize
  BY ExporterAssumption DEF Init
<1> QED BY <1>1, <1>2, <1>3, <1>4, <1>5 DEF LogInv, Before

\* A record that is logged comes after all that its thread has logged.
LEMMA EnqueueKeeps ==
    ASSUME LogInv, NEW t \in Threads, Enqueue(t)
    PROVE  LogInv'
<1> USE DEF LogInv
<1> DEFINE r == <<t, logged[t] + 1>>
<1>1. /\ queue' = Append(queue, r) /\ logged' = [logged EXCEPT ![t] = logged[t] + 1]
      /\ logged[t] \in 0 .. MaxRecords /\ logged[t] < MaxRecords /\ MaxRecords \in Nat
  BY ExporterAssumption DEF Enqueue, TypeOK
<1>2. r \in Records /\ r[1] = t /\ r[2] = logged[t] + 1 BY <1>1 DEF Records
<1>3. \A x \in AllLogged : <<x, r>> \in Earlier
  <2> SUFFICES ASSUME NEW x \in AllLogged, x[1] = t PROVE x[2] < logged[t] + 1
    BY <1>2 DEF Earlier, AllLogged
  <2>1. x[2] <= logged[t] /\ x[2] \in Nat BY DEF AllLogged, Records
  <2> QED BY <2>1, <1>1
<1>4. r \notin AllLogged BY <1>1, <1>2 DEF AllLogged
<1> HIDE DEF r
<1>5. AllLogged' = AllLogged \cup {r}
  <2>1. ASSUME NEW x \in Records PROVE x[2] <= logged'[x[1]] <=> x[2] <= logged[x[1]] \/ x = r
    <3>1. x = <<x[1], x[2]>> /\ x[1] \in Threads /\ x[2] \in Nat /\ logged[x[1]] \in Nat
      BY DEF Records, TypeOK
    <3>2. CASE x[1] # t
      <4>1. logged'[x[1]] = logged[x[1]] BY <3>1, <3>2, <1>1 DEF TypeOK
      <4> QED BY <4>1, <3>2, <1>2
    <3>3. CASE x[1] = t
      <4>1. logged'[x[1]] = logged[t] + 1 /\ logged[t] \in Nat BY <3>3, <3>1, <1>1 DEF TypeOK
      <4>2. x = r <=> x[2] = logged[t] + 1 BY <3>1, <3>3, <1>2 DEF r
      <4> QED BY <4>1, <4>2, <3>1, <3>3
    <3> QED BY <3>2, <3>3
  <2> QED BY <2>1, <1>2 DEF AllLogged
<1>6. \A y \in ToSet(queue) : <<y, r>> \in Earlier BY <1>3
<1>7. queue' \in Seq(Records) /\ Ordered(queue', Earlier) /\ ToSet(queue') = ToSet(queue) \cup {r}
  BY <1>1, <1>2, <1>6, OrderedAppend DEF TypeOK
<1>8. TypeOK'
  <2>1. logged' \in [Threads -> 0 .. MaxRecords] BY <1>1 DEF TypeOK
  <2> QED BY <2>1, <1>7 DEF Enqueue, TypeOK
<1>9. UNCHANGED <<batch, stored, lost, worker>> BY DEF Enqueue
<1>10. Before(stored, queue', Earlier) /\ Before(batch, queue', Earlier)
  BY <1>3, <1>7 DEF Before
<1>11. lost \cap (ToSet(stored) \cup ToSet(batch) \cup ToSet(queue')) = {}
  <2>1. r \notin lost BY <1>4
  <2> QED BY <2>1, <1>7
<1>12. AllLogged' = ToSet(queue') \cup ToSet(batch) \cup ToSet(stored) \cup lost
  BY <1>5, <1>7
<1> QED BY <1>7, <1>8, <1>9, <1>10, <1>11, <1>12

LEMMA LoopKeeps == LogInv /\ Loop => LogInv'
<1> SUFFICES ASSUME LogInv, Loop PROVE LogInv' OBVIOUS
<1>1. TypeOK' BY DEF LogInv, TypeOK, Loop
<1>2. worker' \in {"looping", "getting"} => Len(batch) < BatchSize BY DEF LogInv, Loop
<1>3. UNCHANGED <<logged, queue, batch, stored, lost>> BY DEF Loop
<1> QED BY <1>1, <1>2, <1>3 DEF LogInv, AllLogged

LEMMA GetKeeps == LogInv /\ Get => LogInv'
<1> SUFFICES ASSUME LogInv, Get PROVE LogInv' OBVIOUS
<1>1. UNCHANGED <<logged, stored, lost, stopping, stopper, promised>> /\ worker' = "checking"
      /\ worker = "getting"
  BY DEF Get
<1>2. CASE Dequeue
  <2> DEFINE r == Head(queue)
  <2>1. /\ queue # <<>> /\ batch' = Append(batch, r) /\ queue' = Tail(queue)
        /\ queue \in Seq(Records) /\ batch \in Seq(Records)
    BY <1>2 DEF Dequeue, LogInv, TypeOK
  <2>2. /\ r \in Records /\ r \in ToSet(queue)
        /\ queue' \in Seq(Records) /\ Ordered(queue', Earlier)
        /\ ToSet(queue) = {r} \cup ToSet(queue')
        /\ \A y \in ToSet(queue') : <<r, y>> \in Earlier
    BY <2>1, OrderedTail DEF LogInv
  <2> HIDE DEF r
  <2>3. \A y \in ToSet(batch) : <<y, r>> \in Earlier BY <2>2 DEF LogInv, Before
  <2>4. /\ batch' \in Seq(Records) /\ Ordered(batch', Earlier)
        /\ ToSet(batch') = ToSet(batch) \cup {r}
    BY <2>1, <2>2, <2>3, OrderedAppend DEF LogInv
  <2>5. Len(batch') <= BatchSize
    <3>1. Len(batch') = Len(batch) + 1 /\ Len(batch) \in Nat BY <2>1, <2>2, AppendProperties
    <3> QED BY <3>1, <1>1, ExporterAssumption DEF LogInv
  <2>6. TypeOK' BY <2>2, <2>4, <2>5, <1>1 DEF LogInv, TypeOK
  <2>7. Before(stored, batch', Earlier) /\ Before(stored, queue', Earlier)
        /\ Before(batch', queue', Earlier)
    BY <2>2, <2>4 DEF LogInv, Before
  <2>8. ToSet(batch') \cup ToSet(queue') = ToSet(batch) \cup ToSet(queue) BY <2>2, <2>4
  <2>9. AllLogged' = AllLogged BY <1>1 DEF AllLogged
  <2> QED BY <2>2, <2>4, <2>6, <2>7, <2>8, <2>9, <1>1 DEF LogInv
<1>3. CASE TimesOut
  <2>1. UNCHANGED <<queue, batch>> BY <1>3 DEF TimesOut
  <2>2. TypeOK' BY <2>1, <1>1 DEF LogInv, TypeOK
  <2> QED BY <2>1, <2>2, <1>1 DEF LogInv, AllLogged
<1> QED BY <1>2, <1>3 DEF Get

LEMMA CheckKeeps == LogInv /\ Check => LogInv'
<1> SUFFICES ASSUME LogInv, Check PROVE LogInv' OBVIOUS
<1>1. TypeOK' BY DEF LogInv, TypeOK, Check
<1>2. UNCHANGED <<logged, queue, batch, stored, lost>> BY DEF Check
<1>3. worker' \in {"looping", "getting"} => Len(batch') < BatchSize
  <2> SUFFICES ASSUME worker' \in {"looping", "getting"} PROVE Len(batch) < BatchSize BY <1>2
  <2>1. batch = <<>> \/ ~(Len(batch) >= BatchSize) BY DEF Check, Full
  <2>2. Len(batch) \in Nat /\ BatchSize \in Nat \ {0} BY ExporterAssumption DEF LogInv, TypeOK
  <2> QED BY <2>1, <2>2
<1> QED BY <1>1, <1>2, <1>3 DEF LogInv, AllLogged

\* An insert moves the front of the batch behind what is stored.
LEMMA InsertKeeps ==
    ASSUME LogInv, InsertMany, batch' = <<>>, UNCHANGED <<logged, queue, stopping, stopper, promised>>,
           worker' \in {"looping", "dead"}
    PROVE  LogInv'
<1>1. PICK n \in 0 .. Len(batch) :
        /\ stored' = stored \o SubSeq(batch, 1, n)
        /\ lost' = lost \cup ToSet(SubSeq(batch, n + 1, Len(batch)))
  BY DEF InsertMany
<1> DEFINE u == SubSeq(batch, 1, n)
           w == SubSeq(batch, n + 1, Len(batch))
<1>2. /\ batch \in Seq(Records) /\ stored \in Seq(Records) /\ queue \in Seq(Records)
      /\ lost \subseteq Records
  BY DEF LogInv, TypeOK
<1>3. /\ u \in Seq(Records) /\ Ordered(u, Earlier) /\ w \in Seq(Records)
      /\ ToSet(batch) = ToSet(u) \cup ToSet(w) /\ Before(u, w, Earlier)
  BY <1>2, OrderedSplit DEF LogInv
<1>4. stored' = stored \o u /\ lost' = lost \cup ToSet(w) BY <1>1
<1> HIDE DEF u, w
<1>5. Before(stored, u, Earlier) BY <1>3 DEF LogInv, Before
<1>6. /\ stored' \in Seq(Records) /\ Ordered(stored', Earlier)
      /\ ToSet(stored') = ToSet(stored) \cup ToSet(u)
  BY <1>2, <1>3, <1>4, <1>5, OrderedConcat DEF LogInv
<1>7. ToSet(w) \subseteq Records BY <1>3, Members
<1>8. Ordered(batch', Earlier) /\ ToSet(batch') = {} /\ Len(batch') = 0 /\ batch' \in Seq(Records)
  BY OrderedEmpty
<1>9. TypeOK'
  <2>1. lost' \subseteq Records BY <1>2, <1>4, <1>7
  <2> QED BY <2>1, <1>2, <1>6, <1>8, ExporterAssumption DEF LogInv, TypeOK
<1>10. Before(stored', queue, Earlier) BY <1>3, <1>6 DEF LogInv, Before
<1>11. AllLogged' = AllLogged BY DEF AllLogged
<1>12. lost' \cap (ToSet(stored') \cup ToSet(queue)) = {}
  <2>1. lost \cap (ToSet(stored') \cup ToSet(queue)) = {} BY <1>3, <1>6 DEF LogInv
  <2>2. \A x \in ToSet(w) : x \notin ToSet(stored) /\ x \notin ToSet(u) /\ x \notin ToSet(queue)
    BY <1>3, NotEarlier DEF LogInv, Before
  <2> QED BY <2>1, <2>2, <1>4, <1>6
<1>13. AllLogged = ToSet(queue) \cup ToSet(stored') \cup lost' BY <1>3, <1>4, <1>6 DEF LogInv
<1>14. worker' \in {"looping", "getting"} => Len(batch') < BatchSize
  BY <1>8, ExporterAssumption
<1>15. Before(stored', batch', Earlier) /\ Before(batch', queue, Earlier) BY <1>8 DEF Before
<1> QED BY <1>6, <1>8, <1>9, <1>10, <1>11, <1>12, <1>13, <1>14, <1>15 DEF LogInv

LEMMA StopperKeeps == LogInv /\ (Stop \/ Joined) => LogInv'
<1> SUFFICES ASSUME LogInv, Stop \/ Joined PROVE LogInv' OBVIOUS
<1>1. TypeOK' BY DEF LogInv, TypeOK, Stop, Joined, AllLogged
<1>2. UNCHANGED <<logged, queue, batch, stored, lost, worker>> BY DEF Stop, Joined
<1> QED BY <1>1, <1>2 DEF LogInv, AllLogged

LEMMA LogStepKeeps == LogInv /\ Next => LogInv'
<1> SUFFICES ASSUME LogInv, Next PROVE LogInv' OBVIOUS
<1>1. CASE Insert \/ End
  BY <1>1, InsertKeeps DEF Insert, End, LastInsert
<1> QED BY <1>1, EnqueueKeeps, LoopKeeps, GetKeeps, CheckKeeps, StopperKeeps DEF Next, Work

LEMMA LogRests == LogInv /\ UNCHANGED vars => LogInv'
BY DEF LogInv, vars, TypeOK, AllLogged

LEMMA LogSafe == LogInv => TypeOK /\ AccountedFor /\ StoredInOrder
<1> SUFFICES ASSUME LogInv PROVE AccountedFor /\ StoredInOrder BY DEF LogInv
<1> DEFINE s == stored \o batch
           all == s \o queue
<1>1. stored \in Seq(Records) /\ batch \in Seq(Records) /\ queue \in Seq(Records)
  BY DEF LogInv, TypeOK
<1>2. s \in Seq(Records) /\ Ordered(s, Earlier) /\ ToSet(s) = ToSet(stored) \cup ToSet(batch)
  BY <1>1, OrderedConcat DEF LogInv
<1> HIDE DEF s
<1>3. Before(s, queue, Earlier) BY <1>2 DEF LogInv, Before
<1>4. all \in Seq(Records) /\ Ordered(all, Earlier) /\ ToSet(all) = ToSet(s) \cup ToSet(queue)
  BY <1>1, <1>2, <1>3, OrderedConcat DEF LogInv
<1> HIDE DEF all
<1>5. IsInjective(all) BY <1>4, NotEarlier, OrderedInjective
<1>6. all = stored \o batch \o queue BY DEF all, s
<1>7. AccountedFor
  <2>1. lost \cap ToSet(all) = {} BY <1>2, <1>4 DEF LogInv
  <2> QED BY <2>1, <1>5, <1>6 DEF AccountedFor, LogInv
<1>8. StoredInOrder
  <2>1. \A i, j \in DOMAIN stored : i < j => <<stored[i], stored[j]>> \in Earlier
    BY DEF LogInv, Ordered
  <2> QED BY <2>1 DEF StoredInOrder, Earlier
<1> QED BY <1>7, <1>8

-----------------------------------------------------------------------------
(* The listeners of the Redis client.                                        *)

Phases == {"unborn", "created", "listening", "cleaning", "ended"}

LEMMA RedisConstants ==
    /\ MaxListeners \in Nat
    /\ IsFiniteSet(Callers) /\ IsFiniteSet(Channels)
    /\ Cardinality(Channels) \in Nat
    /\ Redis!Listeners = 1 .. MaxListeners /\ Redis!None = 0
<1>1. MaxListeners \in Nat /\ IsFiniteSet(Callers) /\ IsFiniteSet(Channels)
  BY WorkersAssumption, SameOperators DEF Redis!PubSubAssumption
<1> QED BY <1>1, FS_CardinalityType DEF Redis!Listeners, Redis!None

LEMMA CountMakers == IsFiniteSet(Makers) /\ Cardinality(Makers) \in Nat
<1>1. Makers \subseteq Callers BY DEF Makers
<1> QED BY <1>1, RedisConstants, FS_Subset, FS_CardinalityType

\* No new listener and no new call that may make one.
LEMMA NumberedStays ==
    ASSUME Numbered, Redis!Born' = Redis!Born, Makers' \subseteq Makers
    PROVE  Numbered'
<1>1. PICK n \in Nat : Redis!Born = 1 .. n /\ n + Cardinality(Makers) <= MaxListeners
  BY DEF Numbered
<1>2. Cardinality(Makers') <= Cardinality(Makers) /\ Cardinality(Makers') \in Nat
  BY CountMakers, FS_Subset, FS_CardinalityType
<1>3. n + Cardinality(Makers') <= MaxListeners
  BY <1>1, <1>2, CountMakers, RedisConstants
<1> QED BY <1>1, <1>3 DEF Numbered

LEMMA RedisInit == Redis!Init => RedisInv
<1> SUFFICES ASSUME Redis!Init PROVE RedisInv OBVIOUS
<1> USE DEF Redis!Init
<1>1. Redis!Born = {} /\ Redis!Live = {} BY DEF Redis!Born, Redis!Live
<1>2. Redis!TypeOK
  <2>1. channel \in [Redis!Born -> Channels] BY <1>1
  <2>2. size \in [Callers -> 0 .. Redis!Cardinality(Channels)] BY RedisConstants, SameOperators
  <2> QED BY <2>1, <2>2, <1>1 DEF Redis!TypeOK
<1>3. Numbered
  <2>1. Makers = {} BY DEF Makers
  <2>2. Cardinality(Makers) = 0 BY <2>1, FS_EmptySet
  <2>3. Redis!Born = 1 .. 0 /\ 0 + Cardinality(Makers) <= MaxListeners
    BY <1>1, <2>2, RedisConstants
  <2> QED BY <2>3 DEF Numbered
<1>4. \A c \in Callers : CallInv(c) BY DEF CallInv
<1>5. \A ch \in Channels : ChannelInv(ch) BY <1>1 DEF ChannelInv, Redis!CallsOn
<1> QED BY <1>2, <1>3, <1>4, <1>5 DEF RedisInv

\* A listener that starts, fails, cleans up or is cancelled only moves on: none
\* is born and none comes back to life.
MovesOn ==
    /\ phase' \in [Redis!Listeners -> Phases]
    /\ Redis!Born' = Redis!Born
    /\ Redis!Live' \subseteq Redis!Live
    /\ \A l \in Redis!Listeners : phase[l] = "ended" => phase'[l] = "ended"
    /\ raised' \subseteq Redis!Born

LEMMA OneMovesOn ==
    ASSUME RedisInv, NEW l \in Redis!Born, raised' \subseteq raised \cup {l},
           NEW p \in {"listening", "cleaning", "ended"}, phase' = [phase EXCEPT ![l] = p],
           phase[l] = "ended" => p = "ended"
    PROVE  MovesOn
<1>1. phase \in [Redis!Listeners -> Phases] /\ raised \subseteq Redis!Born
      /\ l \in Redis!Listeners /\ phase[l] # "unborn"
  BY DEF RedisInv, Redis!TypeOK, Redis!Born, Phases
<1>2. phase' \in [Redis!Listeners -> Phases] BY <1>1 DEF Phases
<1>3. \A k \in Redis!Listeners : phase'[k] = IF k = l THEN p ELSE phase[k] BY <1>1
<1>4. Redis!Born' = Redis!Born BY <1>1, <1>3 DEF Redis!Born
<1>5. Redis!Live' \subseteq Redis!Live BY <1>1, <1>3 DEF Redis!Live, Phases
<1> QED BY <1>1, <1>2, <1>3, <1>4, <1>5 DEF MovesOn

LEMMA CancelledMovesOn ==
    ASSUME RedisInv, NEW l \in Redis!Born, Redis!Cancelled(l)
    PROVE  MovesOn
<1>1. l \in Redis!Listeners /\ phase \in [Redis!Listeners -> Phases] /\ phase[l] # "unborn"
  BY DEF RedisInv, Redis!TypeOK, Redis!Born, Phases
<1> DEFINE p == IF phase[l] = "listening" THEN "cleaning" ELSE "ended"
<1>2. p \in {"listening", "cleaning", "ended"} /\ (phase[l] = "ended" => p = "ended") OBVIOUS
<1>3. phase' = [phase EXCEPT ![l] = p] BY DEF Redis!Cancelled
<1>4. raised' \subseteq raised \cup {l} BY DEF Redis!Cancelled
<1> HIDE DEF p
<1> QED BY <1>2, <1>3, <1>4, OneMovesOn

LEMMA TypeMovesOn ==
    ASSUME RedisInv, MovesOn, channel' = channel
    PROVE  /\ channel' \in [Redis!Born' -> Channels]
           /\ phase' \in [Redis!Listeners -> {"unborn", "created", "listening", "cleaning", "ended"}]
           /\ raised' \subseteq Redis!Born'
BY DEF RedisInv, Redis!TypeOK, MovesOn, Phases

LEMMA ListenersKeep ==
    ASSUME RedisInv, MovesOn, UNCHANGED <<Redis!tables, channel, Redis!calls, channelsExcused>>
    PROVE  RedisInv'
<1> USE DEF Redis!tables, Redis!calls
<1>1. Redis!TypeOK' BY TypeMovesOn DEF RedisInv, Redis!TypeOK
<1>2. Numbered' BY NumberedStays DEF RedisInv, MovesOn, Makers
<1>3. \A ch \in Channels : (tasks[ch] \in Redis!Born \cup {Redis!None})' BY DEF RedisInv, MovesOn
<1>4. \A c \in Callers : CallInv(c)' BY DEF RedisInv, MovesOn, CallInv
<1>5. ASSUME NEW ch \in Channels \ channelsExcused PROVE ChannelInv(ch)'
  <2>1. ChannelInv(ch) BY DEF RedisInv
  <2>2. Redis!CallsOn(ch)' = Redis!CallsOn(ch) BY DEF Redis!CallsOn
  <2>3. ASSUME NEW l \in Redis!Live', channel[l] = ch PROVE Known(l, ch)'
    <3>1. Known(l, ch) BY <2>1, <2>3 DEF ChannelInv, MovesOn
    <3> QED BY <3>1, <2>2 DEF Known
  <2>4. ASSUME NEW c \in Redis!CallsOn(ch) PROVE OnlyCall(c, ch)'
    <3>1. OnlyCall(c, ch) BY <2>1, <2>4 DEF ChannelInv
    <3>2. tasks[ch] # Redis!None => tasks[ch] \in Redis!Listeners
      BY DEF RedisInv, Redis!Born
    <3>3. tasks[ch] # Redis!None /\ phase[tasks[ch]] = "ended" => phase'[tasks[ch]] = "ended"
      BY <3>2 DEF MovesOn
    <3> QED BY <3>1, <3>3, <2>2 DEF OnlyCall
  <2> QED BY <2>1, <2>2, <2>3, <2>4 DEF ChannelInv
<1> QED BY <1>1, <1>2, <1>3, <1>4, <1>5 DEF RedisInv

LEMMA ListenerStepKeeps ==
    ASSUME RedisInv, NEW l \in Redis!Listeners,
           Redis!Start(l) \/ Redis!ListenerFails(l) \/ Redis!Clean(l)
    PROVE  RedisInv'
<1>1. l \in Redis!Born BY DEF Redis!Born, Redis!Start, Redis!ListenerFails, Redis!Clean
<1>2. CASE Redis!Start(l)
  <2>1. MovesOn BY <1>1, <1>2, OneMovesOn DEF Redis!Start
  <2> QED BY <2>1, <1>2, ListenersKeep DEF Redis!Start
<1>3. CASE Redis!ListenerFails(l)
  <2>1. MovesOn BY <1>1, <1>3, OneMovesOn DEF Redis!ListenerFails
  <2> QED BY <2>1, <1>3, ListenersKeep DEF Redis!ListenerFails
<1>4. CASE Redis!Clean(l)
  <2>1. MovesOn BY <1>1, <1>4, OneMovesOn DEF Redis!Clean
  <2> QED BY <2>1, <1>4, ListenersKeep DEF Redis!Clean
<1> QED BY <1>2, <1>3, <1>4

LEMMA SubscribeKeeps ==
    ASSUME RedisInv, NEW c \in Callers, NEW ch \in Channels, Redis!Subscribe(c, ch)
    PROVE  RedisInv'
<1> USE DEF Redis!listeners
<1>1. /\ callAt[c] = "idle" /\ callAt' = [callAt EXCEPT ![c] = "subscribing"]
      /\ on' = [on EXCEPT ![c] = ch] /\ subscriptions' = subscriptions \cup {ch}
      /\ UNCHANGED <<tasks, disposed, channel, phase, raised, awaited, left, size>>
      /\ channelsExcused' = IF Redis!Busy(ch) \/ ch \in subscriptions
                            THEN channelsExcused \cup {ch} ELSE channelsExcused
  BY DEF Redis!Subscribe
<1>2. Redis!Born' = Redis!Born /\ Redis!Live' = Redis!Live
  BY <1>1 DEF Redis!Born, Redis!Live
<1>3. Redis!TypeOK' BY <1>1, <1>2 DEF RedisInv, Redis!TypeOK
<1>4. \A d \in Callers : d # c => callAt'[d] = callAt[d] /\ on'[d] = on[d]
  BY <1>1 DEF RedisInv, Redis!TypeOK
<1>5. callAt'[c] = "subscribing" /\ on'[c] = ch BY <1>1 DEF RedisInv, Redis!TypeOK
<1>6. Numbered'
  <2>1. PICK n \in Nat : Redis!Born = 1 .. n /\ n + Cardinality(Makers) <= MaxListeners
    BY DEF RedisInv, Numbered
  <2>2. Cardinality(Redis!Born) = n BY <2>1, FS_Interval
  <2>3. n + Cardinality(Makers) < MaxListeners BY <2>2, SameOperators DEF Redis!Subscribe, Makers
  <2>4. Makers' = Makers \cup {c} /\ c \notin Makers BY <1>1, <1>4, <1>5 DEF Makers
  <2>5. Cardinality(Makers') = Cardinality(Makers) + 1 BY <2>4, CountMakers, FS_AddElement
  <2>6. n + Cardinality(Makers') <= MaxListeners BY <2>3, <2>5, CountMakers, RedisConstants
  <2> QED BY <1>2, <2>1, <2>6 DEF Numbered
<1>7. \A d \in Callers : CallInv(d)' BY <1>1, <1>2, <1>4, <1>5 DEF RedisInv, CallInv
<1>8. ASSUME NEW k \in Channels \ channelsExcused' PROVE ChannelInv(k)'
  <2>1. ChannelInv(k) BY <1>1 DEF RedisInv
  <2>2. CASE k = ch
    <3>1. Redis!CallsOn(ch) = {} /\ ch \notin subscriptions BY <1>1, <2>2 DEF Redis!Busy
    <3>2. Redis!CallsOn(ch)' = {c} BY <3>1, <1>4, <1>5 DEF Redis!CallsOn
    <3>3. tasks[ch] = Redis!None BY <2>1, <2>2, <3>1 DEF ChannelInv
    <3>4. ASSUME NEW l \in Redis!Live PROVE channel[l] # ch
      <4>1. channel[l] = ch => tasks[ch] = l BY <2>1, <2>2, <3>1 DEF ChannelInv, Known
      <4>2. l # Redis!None BY RedisConstants DEF Redis!Live
      <4> QED BY <4>1, <4>2, <3>3
    <3>5. OnlyCall(c, ch)' BY <3>2, <3>3, <1>1, <1>5 DEF OnlyCall
    <3> QED BY <2>2, <3>2, <3>3, <3>4, <3>5, <1>1, <1>2 DEF ChannelInv
  <2>3. CASE k # ch
    <3>1. Redis!CallsOn(k)' = Redis!CallsOn(k) /\ c \notin Redis!CallsOn(k)
      BY <2>3, <1>1, <1>4, <1>5 DEF Redis!CallsOn
    <3>2. \A d \in Redis!CallsOn(k) : OnlyCall(d, k)' /\ d \in Callers /\ d # c
      <4>1. ASSUME NEW d \in Redis!CallsOn(k) PROVE OnlyCall(d, k)'
        <5>1. OnlyCall(d, k) /\ callAt'[d] = callAt[d]
          BY <2>1, <3>1, <1>4 DEF ChannelInv, Redis!CallsOn
        <5> QED BY <5>1, <3>1, <1>1 DEF OnlyCall
      <4> QED BY <4>1, <3>1 DEF Redis!CallsOn
    <3>3. \A l : Known(l, k) => Known(l, k)' BY <3>1, <3>2, <1>1, <1>4 DEF Known
    <3> QED BY <2>1, <3>1, <3>2, <3>3, <1>1, <1>2 DEF ChannelInv
  <2> QED BY <2>2, <2>3
<1>9. \A k \in Channels : (tasks[k] \in Redis!Born \cup {Redis!None})' BY <1>1, <1>2 DEF RedisInv
<1> QED BY <1>3, <1>6, <1>7, <1>8, <1>9 DEF RedisInv

\* The listener that subscribe_async makes is the next number.
LEMMA SubscribedKeeps ==
    ASSUME RedisInv, NEW c \in Callers, Redis!Subscribed(c)
    PROVE  RedisInv'
<1>1. PICK n \in Nat : Redis!Born = 1 .. n /\ n + Cardinality(Makers) <= MaxListeners
  BY DEF RedisInv, Numbered
<1> DEFINE l == n + 1
           ch == on[c]
<1>2. Redis!Cardinality(Redis!Born) + 1 = l BY <1>1, FS_Interval, SameOperators
<1>3. callAt[c] = "subscribing" /\ ch \in Channels
  BY DEF Redis!Subscribed, RedisInv, CallInv
<1>4. c \in Makers /\ 1 <= Cardinality(Makers)
  <2>1. c \in Makers BY <1>3 DEF Makers
  <2>2. Cardinality(Makers) # 0 BY <2>1, CountMakers, FS_EmptySet
  <2> QED BY <2>1, <2>2, CountMakers
<1>5. l \in Redis!Listeners /\ l \notin Redis!Born /\ l # Redis!None
  <2>1. l <= MaxListeners BY <1>1, <1>4, CountMakers, RedisConstants
  <2> QED BY <2>1, <1>1, RedisConstants
<1>6. /\ phase' = [phase EXCEPT ![l] = "created"]
      /\ channel' = [k \in Redis!Born \cup {l} |-> IF k = l THEN ch ELSE channel[k]]
      /\ tasks' = [tasks EXCEPT ![ch] = l]
      /\ callAt' = [callAt EXCEPT ![c] = "idle"]
      /\ on' = [on EXCEPT ![c] = Redis!NoChannel]
      /\ UNCHANGED <<subscriptions, raised, disposed, awaited, left, size, channelsExcused>>
  BY <1>2 DEF Redis!Subscribed
<1> HIDE DEF l, ch
<1>7. phase \in [Redis!Listeners -> Phases] BY DEF RedisInv, Redis!TypeOK, Phases
<1>8. phase' \in [Redis!Listeners -> Phases]
      /\ \A k \in Redis!Listeners : phase'[k] = IF k = l THEN "created" ELSE phase[k]
  BY <1>5, <1>6, <1>7 DEF Phases
<1>9. Redis!Born' = Redis!Born \cup {l} BY <1>5, <1>8 DEF Redis!Born
<1>10. Redis!Live' = Redis!Live \cup {l} BY <1>5, <1>8 DEF Redis!Live
<1>11. channel' \in [Redis!Born' -> Channels]
  BY <1>3, <1>6, <1>9 DEF RedisInv, Redis!TypeOK, ch
<1>12. Redis!TypeOK'
  <2>1. tasks' \in [Channels -> Redis!Listeners \cup {Redis!None}]
    BY <1>5, <1>6 DEF RedisInv, Redis!TypeOK
  <2>2. /\ callAt' \in [Callers -> {"idle", "subscribing", "unsubscribing", "disposing"}]
        /\ on' \in [Callers -> Channels \cup {Redis!NoChannel}]
    BY <1>6 DEF RedisInv, Redis!TypeOK
  <2>3. raised' \subseteq Redis!Born' BY <1>6, <1>9 DEF RedisInv, Redis!TypeOK
  <2> QED BY <2>1, <2>2, <2>3, <1>6, <1>8, <1>11 DEF RedisInv, Redis!TypeOK, Phases
<1>13. callAt'[c] = "idle" /\ \A d \in Callers : d # c => callAt'[d] = callAt[d] /\ on'[d] = on[d]
  BY <1>6 DEF RedisInv, Redis!TypeOK
<1>14. Numbered'
  <2>1. Makers' = Makers \ {c} BY <1>13 DEF Makers
  <2>2. Cardinality(Makers') = Cardinality(Makers) - 1
    BY <2>1, <1>4, CountMakers, FS_RemoveElement
  <2>3. Redis!Born' = 1 .. l BY <1>1, <1>9 DEF l
  <2>4. l \in Nat /\ l + Cardinality(Makers') <= MaxListeners
    BY <1>1, <2>2, CountMakers, RedisConstants DEF l
  <2> QED BY <2>3, <2>4 DEF Numbered
<1>15. ASSUME NEW d \in Callers PROVE CallInv(d)'
  <2>1. CallInv(d) BY DEF RedisInv
  <2> QED BY <2>1, <1>6, <1>9, <1>13 DEF CallInv
<1>16. \A k \in Channels : tasks'[k] = IF k = ch THEN l ELSE tasks[k]
  BY <1>3, <1>6 DEF RedisInv, Redis!TypeOK, ch
<1>17. \A k \in Channels : (tasks[k] \in Redis!Born \cup {Redis!None})'
  BY <1>9, <1>16 DEF RedisInv
<1>18. ASSUME NEW k \in Channels \ channelsExcused' PROVE ChannelInv(k)'
  <2>1. ChannelInv(k) BY <1>6 DEF RedisInv
  <2>2. CASE k = ch
    <3>1. c \in Redis!CallsOn(k) BY <2>2, <1>3 DEF Redis!CallsOn, ch
    <3>2. OnlyCall(c, k) /\ \A d \in Redis!CallsOn(k) : d = c
      BY <2>1, <3>1 DEF ChannelInv, OnlyCall
    <3>3. tasks[k] = Redis!None /\ k \in subscriptions BY <3>2, <1>3 DEF OnlyCall
    <3>4. Redis!CallsOn(k)' = {} BY <3>2, <1>13 DEF Redis!CallsOn
    <3>5. ASSUME NEW j \in Redis!Live', channel'[j] = k PROVE j = l
      <4> SUFFICES ASSUME j # l PROVE FALSE OBVIOUS
      <4>1. j \in Redis!Live /\ j \in Redis!Born BY <1>10 DEF Redis!Live, Redis!Born
      <4>2. channel[j] = k BY <3>5, <4>1, <1>6
      <4>3. Known(j, k) BY <2>1, <4>1, <4>2 DEF ChannelInv
      <4>4. tasks[k] # j BY <3>3, <4>1, RedisConstants DEF Redis!Live
      <4> QED BY <4>3, <4>4, <3>2, <1>3 DEF Known
    <3>6. tasks'[k] = l BY <2>2, <1>16
    <3> QED BY <3>3, <3>4, <3>5, <3>6, <1>6 DEF ChannelInv, Known
  <2>3. CASE k # ch
    <3>1. Redis!CallsOn(k)' = Redis!CallsOn(k) /\ c \notin Redis!CallsOn(k)
      BY <2>3, <1>3, <1>13 DEF Redis!CallsOn, ch
    <3>2. tasks'[k] = tasks[k] BY <2>3, <1>16
    <3>3. ASSUME NEW d \in Redis!CallsOn(k) PROVE OnlyCall(d, k)'
      <4>1. OnlyCall(d, k) /\ callAt'[d] = callAt[d]
        BY <2>1, <3>1, <1>13 DEF ChannelInv, Redis!CallsOn
      <4>2. tasks[k] # Redis!None => phase'[tasks[k]] = phase[tasks[k]]
        BY <1>5, <1>8 DEF RedisInv, Redis!Born
      <4> QED BY <4>1, <4>2, <3>1, <3>2, <1>6 DEF OnlyCall
    <3>4. ASSUME NEW j \in Redis!Live', channel'[j] = k PROVE Known(j, k)'
      <4>1. j # l BY <2>3, <3>4, <1>6, <1>9
      <4>2. j \in Redis!Live /\ j \in Redis!Born BY <4>1, <1>10 DEF Redis!Live, Redis!Born
      <4>3. channel[j] = k BY <3>4, <4>1, <4>2, <1>6
      <4>4. Known(j, k) BY <2>1, <4>2, <4>3 DEF ChannelInv
      <4>5. \A d \in Redis!CallsOn(k) : callAt'[d] = callAt[d] BY <3>1, <1>13 DEF Redis!CallsOn
      <4> QED BY <4>4, <4>5, <3>1, <3>2, <1>6 DEF Known
    <3> QED BY <2>1, <3>1, <3>2, <3>3, <3>4, <1>6 DEF ChannelInv
  <2> QED BY <2>2, <2>3
<1> QED BY <1>12, <1>14, <1>15, <1>17, <1>18 DEF RedisInv

LEMMA SubscribeFailsKeeps ==
    ASSUME RedisInv, NEW c \in Callers, Redis!SubscribeFails(c)
    PROVE  RedisInv'
<1> USE DEF Redis!listeners
<1>1. PICK ch \in Channels : ch = on[c] BY DEF Redis!SubscribeFails, RedisInv, CallInv
<1>2. /\ callAt[c] = "subscribing" /\ callAt' = [callAt EXCEPT ![c] = "idle"]
      /\ on' = [on EXCEPT ![c] = Redis!NoChannel] /\ subscriptions' = subscriptions \ {ch}
      /\ UNCHANGED <<tasks, disposed, channel, phase, raised, awaited, left, size, channelsExcused>>
  BY <1>1 DEF Redis!SubscribeFails
<1>3. Redis!Born' = Redis!Born /\ Redis!Live' = Redis!Live
  BY <1>2 DEF Redis!Born, Redis!Live
<1>4. Redis!TypeOK' BY <1>2, <1>3 DEF RedisInv, Redis!TypeOK
<1>5. callAt'[c] = "idle" /\ \A d \in Callers : d # c => callAt'[d] = callAt[d] /\ on'[d] = on[d]
  BY <1>2 DEF RedisInv, Redis!TypeOK
<1>6. Makers' \subseteq Makers BY <1>5 DEF Makers
<1>7. \A d \in Callers : CallInv(d)' BY <1>2, <1>3, <1>5 DEF RedisInv, CallInv
<1>8. ASSUME NEW k \in Channels \ channelsExcused' PROVE ChannelInv(k)'
  <2>1. ChannelInv(k) BY <1>2 DEF RedisInv
  <2>2. CASE k = ch
    <3>1. c \in Redis!CallsOn(k) BY <2>2, <1>1, <1>2 DEF Redis!CallsOn
    <3>2. OnlyCall(c, k) /\ \A d \in Redis!CallsOn(k) : d = c
      BY <2>1, <3>1 DEF ChannelInv, OnlyCall
    <3>3. Redis!CallsOn(k)' = {} BY <3>2, <1>5 DEF Redis!CallsOn
    <3>4. tasks[k] = Redis!None BY <3>2, <1>2 DEF OnlyCall
    <3>5. ASSUME NEW l \in Redis!Live PROVE channel[l] # k
      <4>1. channel[l] = k => tasks[k] = l BY <2>1, <3>2, <1>2 DEF ChannelInv, Known
      <4>2. l # Redis!None BY RedisConstants DEF Redis!Live
      <4> QED BY <4>1, <4>2, <3>4
    <3> QED BY <3>3, <3>4, <3>5, <1>2, <1>3 DEF ChannelInv
  <2>3. CASE k # ch
    <3>1. Redis!CallsOn(k)' = Redis!CallsOn(k) /\ c \notin Redis!CallsOn(k)
      BY <2>3, <1>1, <1>2, <1>5 DEF Redis!CallsOn
    <3>2. \A d \in Redis!CallsOn(k) : callAt'[d] = callAt[d] BY <3>1, <1>5 DEF Redis!CallsOn
    <3>3. ASSUME NEW d \in Redis!CallsOn(k) PROVE OnlyCall(d, k)'
      <4>1. OnlyCall(d, k) BY <2>1 DEF ChannelInv
      <4> QED BY <4>1, <3>1, <3>2, <2>3, <1>2 DEF OnlyCall
    <3>4. \A l : Known(l, k) => Known(l, k)' BY <3>1, <3>2, <1>2 DEF Known
    <3> QED BY <2>1, <2>3, <3>1, <3>3, <3>4, <1>2, <1>3 DEF ChannelInv
  <2> QED BY <2>2, <2>3
<1>9. Numbered' BY <1>3, <1>6, NumberedStays DEF RedisInv
<1>10. \A k \in Channels : (tasks[k] \in Redis!Born \cup {Redis!None})' BY <1>2, <1>3 DEF RedisInv
<1> QED BY <1>4, <1>7, <1>8, <1>9, <1>10 DEF RedisInv

\* unsubscribe_async excuses a channel that another call deals with.
Excuses(ch) ==
    channelsExcused' = IF Redis!Busy(ch) THEN channelsExcused \cup {ch} ELSE channelsExcused

\* Of a channel that has no task it only forgets the handler.
LEMMA NothingToUnsubscribe ==
    ASSUME RedisInv, NEW ch \in Channels, tasks[ch] = Redis!None,
           subscriptions' = subscriptions \ {ch}, Excuses(ch),
           UNCHANGED <<tasks, phase, raised, awaited, callAt, on, disposed, channel, left, size>>
    PROVE  RedisInv'
<1>1. Redis!Born' = Redis!Born /\ Redis!Live' = Redis!Live BY DEF Redis!Born, Redis!Live
<1>2. Redis!TypeOK' BY <1>1 DEF RedisInv, Redis!TypeOK, Excuses
<1>3. Numbered' BY <1>1, NumberedStays DEF RedisInv, Makers
<1>4. \A d \in Callers : CallInv(d)' BY <1>1 DEF RedisInv, CallInv
<1>5. ASSUME NEW k \in Channels \ channelsExcused' PROVE ChannelInv(k)'
  <2>1. ChannelInv(k) BY DEF RedisInv, Excuses
  <2>2. Redis!CallsOn(k)' = Redis!CallsOn(k) BY DEF Redis!CallsOn
  <2>3. \A l : Known(l, k) => Known(l, k)' BY <2>2 DEF Known
  <2>4. ASSUME NEW d \in Redis!CallsOn(k) PROVE OnlyCall(d, k)'
    <3>1. OnlyCall(d, k) BY <2>1 DEF ChannelInv
    <3>2. k # ch BY DEF Excuses, Redis!Busy
    <3> QED BY <3>1, <3>2, <2>2 DEF OnlyCall
  <2> QED BY <2>1, <2>2, <2>3, <2>4, <1>1 DEF ChannelInv
<1>6. \A k \in Channels : (tasks[k] \in Redis!Born \cup {Redis!None})' BY <1>1 DEF RedisInv
<1> QED BY <1>2, <1>3, <1>4, <1>5, <1>6 DEF RedisInv

\* Its task leaves the table, is cancelled, and is what the call waits for.
LEMMA TaskLeaves ==
    ASSUME RedisInv, NEW c \in Callers, NEW ch \in Channels, callAt[c] = "idle",
           tasks[ch] # Redis!None, Excuses(ch), Redis!Cancelled(tasks[ch]),
           on' = [on EXCEPT ![c] = ch], tasks' = [tasks EXCEPT ![ch] = Redis!None],
           awaited' = [awaited EXCEPT ![c] = tasks[ch]],
           callAt' = [callAt EXCEPT ![c] = "unsubscribing"],
           UNCHANGED <<subscriptions, disposed, channel, left, size>>
    PROVE  RedisInv'
<1>1. tasks[ch] \in Redis!Born BY DEF RedisInv
<1>2. MovesOn BY <1>1, CancelledMovesOn
<1>3. Redis!Born' = Redis!Born /\ Redis!Live' \subseteq Redis!Live BY <1>2 DEF MovesOn
<1>4. /\ callAt'[c] = "unsubscribing" /\ on'[c] = ch /\ awaited'[c] = tasks[ch]
      /\ \A d \in Callers : d # c =>
            callAt'[d] = callAt[d] /\ on'[d] = on[d] /\ awaited'[d] = awaited[d]
      /\ \A k \in Channels : tasks'[k] = IF k = ch THEN Redis!None ELSE tasks[k]
  BY DEF RedisInv, Redis!TypeOK
<1>5. Redis!TypeOK'
  <2>1. tasks' \in [Channels -> Redis!Listeners \cup {Redis!None}] BY DEF RedisInv, Redis!TypeOK
  <2>2. awaited' \in [Callers -> Redis!Listeners \cup {Redis!None}]
    BY <1>1 DEF RedisInv, Redis!TypeOK, Redis!Born
  <2>3. /\ callAt' \in [Callers -> {"idle", "subscribing", "unsubscribing", "disposing"}]
        /\ on' \in [Callers -> Channels \cup {Redis!NoChannel}]
        /\ channelsExcused' \subseteq Channels
    BY DEF RedisInv, Redis!TypeOK, Excuses
  <2> QED BY <2>1, <2>2, <2>3, <1>2, TypeMovesOn DEF RedisInv, Redis!TypeOK
<1>6. Makers' \subseteq Makers BY <1>4 DEF Makers
<1>7. Numbered' BY <1>3, <1>6, NumberedStays DEF RedisInv
<1>8. ASSUME NEW d \in Callers PROVE CallInv(d)'
  <2>1. CallInv(d) BY DEF RedisInv
  <2> QED BY <2>1, <1>1, <1>3, <1>4 DEF CallInv
<1>9. \A k \in Channels : (tasks[k] \in Redis!Born \cup {Redis!None})' BY <1>3, <1>4 DEF RedisInv
<1>10. ASSUME NEW k \in Channels \ channelsExcused' PROVE ChannelInv(k)'
  <2>1. ChannelInv(k) BY DEF RedisInv, Excuses
  <2>2. CASE k = ch
    <3>1. Redis!CallsOn(k) = {} BY <2>2 DEF Excuses, Redis!Busy
    <3>2. Redis!CallsOn(k)' = {c} BY <2>2, <3>1, <1>4 DEF Redis!CallsOn
    <3>3. tasks'[k] = Redis!None BY <2>2, <1>4
    <3>4. OnlyCall(c, k)' BY <3>2, <3>3, <1>4 DEF OnlyCall
    <3>5. ASSUME NEW l \in Redis!Live', channel[l] = k PROVE Known(l, k)'
      <4>1. Known(l, k) BY <2>1, <3>5, <1>3 DEF ChannelInv
      <4>2. l = tasks[ch] BY <2>2, <4>1, <3>1 DEF Known
      <4> QED BY <4>2, <3>2, <1>4 DEF Known
    <3> QED BY <3>2, <3>3, <3>4, <3>5 DEF ChannelInv
  <2>3. CASE k # ch
    <3>1. Redis!CallsOn(k)' = Redis!CallsOn(k) /\ c \notin Redis!CallsOn(k)
      BY <2>3, <1>4 DEF Redis!CallsOn
    <3>2. \A d \in Redis!CallsOn(k) : callAt'[d] = callAt[d] /\ awaited'[d] = awaited[d]
      BY <3>1, <1>4 DEF Redis!CallsOn
    <3>3. tasks'[k] = tasks[k] BY <2>3, <1>4
    <3>4. ASSUME NEW d \in Redis!CallsOn(k) PROVE OnlyCall(d, k)'
      <4>1. OnlyCall(d, k) BY <2>1 DEF ChannelInv
      <4>2. tasks[k] # Redis!None => tasks[k] \in Redis!Listeners BY DEF RedisInv, Redis!Born
      <4>3. tasks[k] # Redis!None /\ phase[tasks[k]] = "ended" => phase'[tasks[k]] = "ended"
        BY <4>2, <1>2 DEF MovesOn
      <4> QED BY <4>1, <4>3, <3>1, <3>2, <3>3 DEF OnlyCall
    <3>5. \A l : Known(l, k) => Known(l, k)' BY <3>1, <3>2, <3>3 DEF Known
    <3> QED BY <2>1, <3>1, <3>3, <3>4, <3>5, <1>3 DEF ChannelInv
  <2> QED BY <2>2, <2>3
<1> QED BY <1>5, <1>7, <1>8, <1>9, <1>10 DEF RedisInv

LEMMA UnsubscribeKeeps ==
    ASSUME RedisInv, NEW c \in Callers, NEW ch \in Channels, Redis!Unsubscribe(c, ch)
    PROVE  RedisInv'
<1>1. Excuses(ch) /\ callAt[c] = "idle" /\ UNCHANGED <<disposed, channel, left, size>>
  BY DEF Redis!Unsubscribe, Excuses
<1>2. CASE tasks[ch] # Redis!None BY <1>1, <1>2, TaskLeaves DEF Redis!Unsubscribe
<1>3. CASE tasks[ch] = Redis!None BY <1>1, <1>3, NothingToUnsubscribe DEF Redis!Unsubscribe
<1> QED BY <1>2, <1>3

\* When unsubscribe_async goes on, the one listener that was left has ended.
LEMMA UnsubscribedKeeps ==
    ASSUME RedisInv, NEW c \in Callers, Redis!Unsubscribed(c)
    PROVE  RedisInv'
<1> USE DEF Redis!listeners
<1>1. PICK ch \in Channels : ch = on[c] BY DEF Redis!Unsubscribed, RedisInv, CallInv
<1>2. /\ callAt[c] = "unsubscribing" /\ phase[awaited[c]] = "ended"
      /\ callAt' = [callAt EXCEPT ![c] = "idle"]
      /\ on' = [on EXCEPT ![c] = Redis!NoChannel]
      /\ awaited' = [awaited EXCEPT ![c] = Redis!None]
      /\ subscriptions' \in {subscriptions, subscriptions \ {ch}}
      /\ UNCHANGED <<tasks, disposed, channel, phase, raised, left, size, channelsExcused>>
  BY <1>1 DEF Redis!Unsubscribed
<1>3. Redis!Born' = Redis!Born /\ Redis!Live' = Redis!Live
  BY <1>2 DEF Redis!Born, Redis!Live
<1>4. Redis!TypeOK' BY <1>2, <1>3 DEF RedisInv, Redis!TypeOK
<1>5. /\ callAt'[c] = "idle" /\ awaited'[c] = Redis!None
      /\ \A d \in Callers : d # c =>
            callAt'[d] = callAt[d] /\ on'[d] = on[d] /\ awaited'[d] = awaited[d]
  BY <1>2 DEF RedisInv, Redis!TypeOK
<1>6. Makers' \subseteq Makers BY <1>5 DEF Makers
<1>7. Numbered' BY <1>3, <1>6, NumberedStays DEF RedisInv
<1>8. ASSUME NEW d \in Callers PROVE CallInv(d)'
  <2>1. CallInv(d) BY DEF RedisInv
  <2> QED BY <2>1, <1>3, <1>5 DEF CallInv
<1>9. \A k \in Channels : (tasks[k] \in Redis!Born \cup {Redis!None})' BY <1>2, <1>3 DEF RedisInv
<1>10. ASSUME NEW k \in Channels \ channelsExcused' PROVE ChannelInv(k)'
  <2>1. ChannelInv(k) BY <1>2 DEF RedisInv
  <2>2. CASE k = ch
    <3>1. c \in Redis!CallsOn(k) BY <2>2, <1>1, <1>2 DEF Redis!CallsOn
    <3>2. OnlyCall(c, k) /\ \A d \in Redis!CallsOn(k) : d = c
      BY <2>1, <3>1 DEF ChannelInv, OnlyCall
    <3>3. Redis!CallsOn(k)' = {} BY <3>2, <1>5 DEF Redis!CallsOn
    <3>4. tasks[k] = Redis!None BY <3>2, <1>2 DEF OnlyCall
    <3>5. ASSUME NEW l \in Redis!Live PROVE channel[l] # k
      <4>1. channel[l] = k => tasks[k] = l \/ awaited[c] = l
        BY <2>1, <3>2 DEF ChannelInv, Known
      <4>2. l # Redis!None /\ phase[l] # "ended" BY RedisConstants DEF Redis!Live
      <4> QED BY <4>1, <4>2, <3>4, <1>2
    <3> QED BY <3>3, <3>4, <3>5, <1>2, <1>3 DEF ChannelInv
  <2>3. CASE k # ch
    <3>1. Redis!CallsOn(k)' = Redis!CallsOn(k) /\ c \notin Redis!CallsOn(k)
      BY <2>3, <1>1, <1>2, <1>5 DEF Redis!CallsOn
    <3>2. \A d \in Redis!CallsOn(k) : callAt'[d] = callAt[d] /\ awaited'[d] = awaited[d]
      BY <3>1, <1>5 DEF Redis!CallsOn
    <3>3. k \in subscriptions => k \in subscriptions' BY <2>3, <1>2
    <3>4. ASSUME NEW d \in Redis!CallsOn(k) PROVE OnlyCall(d, k)'
      <4>1. OnlyCall(d, k) BY <2>1 DEF ChannelInv
      <4> QED BY <4>1, <3>1, <3>2, <3>3, <1>2 DEF OnlyCall
    <3>5. \A l : Known(l, k) => Known(l, k)' BY <3>1, <3>2, <1>2 DEF Known
    <3> QED BY <2>1, <3>1, <3>3, <3>4, <3>5, <1>2, <1>3 DEF ChannelInv
  <2> QED BY <2>2, <2>3
<1> QED BY <1>4, <1>7, <1>8, <1>9, <1>10 DEF RedisInv

\* dispose_async excuses every channel that another call deals with: what is
\* left unexcused has this call alone.
LEMMA DisposeAsyncKeeps ==
    ASSUME RedisInv, NEW c \in Callers, Redis!DisposeAsync(c)
    PROVE  RedisInv'
<1> USE DEF Redis!tables, Redis!listeners
<1>1. /\ callAt[c] = "idle" /\ callAt' = [callAt EXCEPT ![c] = "disposing"]
      /\ left' = [left EXCEPT ![c] = Redis!Listed]
      /\ size' = [size EXCEPT ![c] = Redis!Cardinality(Redis!Listed)]
      /\ channelsExcused' = channelsExcused \cup {ch \in Channels : Redis!Busy(ch)}
      /\ UNCHANGED <<subscriptions, tasks, disposed, channel, phase, raised, on, awaited>>
  BY DEF Redis!DisposeAsync
<1>2. Redis!Born' = Redis!Born /\ Redis!Live' = Redis!Live
  BY <1>1 DEF Redis!Born, Redis!Live
<1>3. Redis!TypeOK'
  <2>1. Redis!Listed \subseteq Channels BY DEF Redis!Listed
  <2>2. Redis!Cardinality(Redis!Listed) \in 0 .. Redis!Cardinality(Channels)
    <3>1. IsFiniteSet(Redis!Listed) /\ Cardinality(Redis!Listed) <= Cardinality(Channels)
      BY <2>1, RedisConstants, FS_Subset
    <3>2. Cardinality(Redis!Listed) \in Nat BY <3>1, FS_CardinalityType
    <3> QED BY <3>1, <3>2, RedisConstants, SameOperators
  <2>3. size' \in [Callers -> 0 .. Redis!Cardinality(Channels)]
    BY <1>1, <2>2 DEF RedisInv, Redis!TypeOK
  <2>4. left' \in [Callers -> SUBSET Channels] BY <1>1, <2>1 DEF RedisInv, Redis!TypeOK
  <2>5. callAt' \in [Callers -> {"idle", "subscribing", "unsubscribing", "disposing"}]
        /\ channelsExcused' \subseteq Channels
    BY <1>1 DEF RedisInv, Redis!TypeOK
  <2> QED BY <2>3, <2>4, <2>5, <1>1, <1>2 DEF RedisInv, Redis!TypeOK
<1>4. /\ callAt'[c] = "disposing" /\ left'[c] = Redis!Listed
      /\ \A d \in Callers : d # c => callAt'[d] = callAt[d]
  BY <1>1 DEF RedisInv, Redis!TypeOK
<1>5. Makers' \subseteq Makers BY <1>4 DEF Makers
<1>6. Numbered' BY <1>2, <1>5, NumberedStays DEF RedisInv
<1>7. ASSUME NEW d \in Callers PROVE CallInv(d)'
  <2>1. CallInv(d) BY DEF RedisInv
  <2> QED BY <2>1, <1>1, <1>2, <1>4 DEF CallInv
<1>8. \A k \in Channels : (tasks[k] \in Redis!Born \cup {Redis!None})' BY <1>1, <1>2 DEF RedisInv
<1>9. ASSUME NEW k \in Channels \ channelsExcused' PROVE ChannelInv(k)'
  <2>1. ChannelInv(k) BY <1>1 DEF RedisInv
  <2>2. Redis!CallsOn(k) = {} BY <1>1 DEF Redis!Busy
  <2>3. Redis!CallsOn(k)' = {c} BY <2>2, <1>1, <1>4 DEF Redis!CallsOn
  <2>4. tasks[k] # Redis!None => k \in left'[c] BY <1>4 DEF Redis!Listed
  <2>5. OnlyCall(c, k)' BY <2>3, <2>4, <1>1, <1>4 DEF OnlyCall
  <2>6. ASSUME NEW l \in Redis!Live, channel[l] = k PROVE Known(l, k)'
    <3>1. tasks[k] = l BY <2>1, <2>2, <2>6 DEF ChannelInv, Known
    <3> QED BY <3>1, <1>1 DEF Known
  <2> QED BY <2>1, <2>3, <2>5, <2>6, <1>1, <1>2 DEF ChannelInv
<1> QED BY <1>3, <1>6, <1>7, <1>8, <1>9 DEF RedisInv

LEMMA ReturnTypes ==
    ASSUME RedisInv, NEW c \in Callers, Redis!Return(c), UNCHANGED <<phase, on>>
    PROVE  /\ callAt' \in [Callers -> {"idle", "subscribing", "unsubscribing", "disposing"}]
           /\ awaited' \in [Callers -> Redis!Listeners \cup {Redis!None}]
           /\ left' \in [Callers -> SUBSET Channels]
           /\ size' \in [Callers -> 0 .. Redis!Cardinality(Channels)]
           /\ callAt'[c] = "idle" /\ awaited'[c] = Redis!None
           /\ \A d \in Callers : d # c =>
                 callAt'[d] = callAt[d] /\ awaited'[d] = awaited[d] /\ left'[d] = left[d]
           /\ Redis!Born' = Redis!Born /\ Redis!Live' = Redis!Live
           /\ Numbered' /\ \A d \in Callers : CallInv(d)'
<1> USE DEF Redis!Return
<1>1. size' \in [Callers -> 0 .. Redis!Cardinality(Channels)]
  BY RedisConstants, SameOperators DEF RedisInv, Redis!TypeOK
<1>2. /\ callAt' \in [Callers -> {"idle", "subscribing", "unsubscribing", "disposing"}]
      /\ awaited' \in [Callers -> Redis!Listeners \cup {Redis!None}]
      /\ left' \in [Callers -> SUBSET Channels]
  BY DEF RedisInv, Redis!TypeOK
<1>3. /\ callAt'[c] = "idle" /\ awaited'[c] = Redis!None
      /\ \A d \in Callers : d # c =>
            callAt'[d] = callAt[d] /\ awaited'[d] = awaited[d] /\ left'[d] = left[d]
  BY DEF RedisInv, Redis!TypeOK
<1>4. Redis!Born' = Redis!Born /\ Redis!Live' = Redis!Live BY DEF Redis!Born, Redis!Live
<1>5. Makers' \subseteq Makers BY <1>3 DEF Makers
<1>6. Numbered' BY <1>4, <1>5, NumberedStays DEF RedisInv
<1>7. ASSUME NEW d \in Callers PROVE CallInv(d)'
  <2>1. CallInv(d) BY DEF RedisInv
  <2> QED BY <2>1, <1>3, <1>4 DEF CallInv
<1> QED BY <1>1, <1>2, <1>3, <1>4, <1>6, <1>7

\* A channel that is not excused has the call that disposes and no other.
LEMMA DisposerAlone ==
    ASSUME RedisInv, NEW c \in Callers, callAt[c] = "disposing",
           NEW k \in Channels \ channelsExcused
    PROVE  /\ ChannelInv(k) /\ OnlyCall(c, k) /\ Redis!CallsOn(k) = {c}
           /\ \A l \in Redis!Live : channel[l] = k => tasks[k] = l
<1>1. ChannelInv(k) /\ c \in Redis!CallsOn(k) BY DEF RedisInv, Redis!CallsOn
<1>2. OnlyCall(c, k) BY <1>1 DEF ChannelInv
<1>3. Redis!CallsOn(k) = {c} BY <1>1, <1>2 DEF OnlyCall
<1>4. \A l \in Redis!Live : channel[l] = k => tasks[k] = l
  BY <1>1, <1>3 DEF ChannelInv, Known
<1> QED BY <1>1, <1>2, <1>3, <1>4

LEMMA DisposeBreaksKeeps ==
    ASSUME RedisInv, NEW c \in Callers, Redis!DisposeBreaks(c)
    PROVE  RedisInv'
<1> USE DEF Redis!tables, Redis!listeners
<1>1. /\ callAt[c] = "disposing" /\ Redis!Return(c)
      /\ UNCHANGED <<subscriptions, tasks, disposed, channel, phase, raised, on, channelsExcused>>
  BY DEF Redis!DisposeBreaks, Redis!Resumes
<1>2. Redis!TypeOK' BY <1>1, ReturnTypes DEF RedisInv, Redis!TypeOK
<1>3. \A k \in Channels : (tasks[k] \in Redis!Born \cup {Redis!None})'
  BY <1>1, ReturnTypes DEF RedisInv
<1>4. ASSUME NEW k \in Channels \ channelsExcused' PROVE ChannelInv(k)'
  <2>1. /\ ChannelInv(k) /\ Redis!CallsOn(k) = {c}
        /\ \A l \in Redis!Live : channel[l] = k => tasks[k] = l
    BY <1>1, DisposerAlone
  <2>2. Redis!CallsOn(k)' = {} BY <2>1, <1>1, ReturnTypes DEF Redis!CallsOn
  <2>3. Redis!Live' = Redis!Live BY <1>1, ReturnTypes
  <2> QED BY <2>1, <2>2, <2>3, <1>1 DEF ChannelInv, Known
<1> QED BY <1>1, <1>2, <1>3, <1>4, ReturnTypes DEF RedisInv

\* Before the next task is cancelled, the one before it has ended.
LEMMA DisposeNextKeeps ==
    ASSUME RedisInv, NEW c \in Callers, Redis!DisposeNext(c)
    PROVE  RedisInv'
<1> USE DEF Redis!tables
<1>1. PICK ch \in left[c] \cap Redis!Listed :
        /\ Redis!Cancelled(tasks[ch])
        /\ awaited' = [awaited EXCEPT ![c] = tasks[ch]]
        /\ left' = [left EXCEPT ![c] = left[c] \ {ch}]
  BY DEF Redis!DisposeNext
<1>2. /\ callAt[c] = "disposing" /\ (awaited[c] # Redis!None => phase[awaited[c]] = "ended")
      /\ UNCHANGED <<subscriptions, tasks, disposed, channel, callAt, on, size, channelsExcused>>
  BY DEF Redis!DisposeNext, Redis!Resumes
<1>3. ch \in Channels /\ tasks[ch] \in Redis!Born BY DEF Redis!Listed, RedisInv
<1>4. MovesOn BY <1>1, <1>3, CancelledMovesOn
<1>5. Redis!Born' = Redis!Born /\ Redis!Live' \subseteq Redis!Live BY <1>4 DEF MovesOn
<1>6. /\ awaited'[c] = tasks[ch] /\ left'[c] = left[c] \ {ch}
      /\ \A d \in Callers : d # c => awaited'[d] = awaited[d] /\ left'[d] = left[d]
  BY <1>1 DEF RedisInv, Redis!TypeOK
<1>7. Redis!TypeOK'
  <2>1. awaited' \in [Callers -> Redis!Listeners \cup {Redis!None}]
    BY <1>1, <1>3 DEF RedisInv, Redis!TypeOK, Redis!Born
  <2>2. left' \in [Callers -> SUBSET Channels] BY <1>1 DEF RedisInv, Redis!TypeOK
  <2> QED BY <2>1, <2>2, <1>2, <1>4, TypeMovesOn DEF RedisInv, Redis!TypeOK
<1>8. Numbered' BY <1>2, <1>5, NumberedStays DEF RedisInv, Makers
<1>9. ASSUME NEW d \in Callers PROVE CallInv(d)'
  <2>1. CallInv(d) BY DEF RedisInv
  <2> QED BY <2>1, <1>2, <1>3, <1>5, <1>6 DEF CallInv
<1>10. \A k \in Channels : (tasks[k] \in Redis!Born \cup {Redis!None})' BY <1>2, <1>5 DEF RedisInv
<1>11. ASSUME NEW k \in Channels \ channelsExcused' PROVE ChannelInv(k)'
  <2>1. /\ ChannelInv(k) /\ OnlyCall(c, k) /\ Redis!CallsOn(k) = {c}
        /\ \A l \in Redis!Live : channel[l] = k => tasks[k] = l
    BY <1>2, DisposerAlone
  <2>2. Redis!CallsOn(k)' = {c} BY <2>1, <1>2 DEF Redis!CallsOn
  <2>3. OnlyCall(c, k)'
    <3> SUFFICES ASSUME tasks[k] # Redis!None, k \notin left'[c]
                 PROVE  phase'[tasks[k]] = "ended" \/ tasks[k] = awaited'[c]
      BY <2>2, <1>2 DEF OnlyCall
    <3>1. CASE k = ch BY <3>1, <1>6
    <3>2. CASE k # ch
      <4>1. k \notin left[c] BY <3>2, <1>6
      <4>2. phase[tasks[k]] = "ended" BY <4>1, <2>1, <1>2 DEF OnlyCall
      <4>3. tasks[k] \in Redis!Listeners BY DEF RedisInv, Redis!Born
      <4> QED BY <4>2, <4>3, <1>4 DEF MovesOn
    <3> QED BY <3>1, <3>2
  <2> QED BY <2>1, <2>2, <2>3, <1>2, <1>5 DEF ChannelInv, Known
<1> QED BY <1>7, <1>8, <1>9, <1>10, <1>11 DEF RedisInv

\* When the tables are cleared, every listener they knew has ended.
LEMMA DisposedKeeps ==
    ASSUME RedisInv, NEW c \in Callers, Redis!Disposed(c)
    PROVE  RedisInv'
<1> USE DEF Redis!listeners
<1>1. /\ callAt[c] = "disposing" /\ (awaited[c] # Redis!None => phase[awaited[c]] = "ended")
      /\ left[c] \cap Redis!Listed = {} /\ Redis!Return(c)
      /\ tasks' = [ch \in Channels |-> Redis!None] /\ subscriptions' = {} /\ disposed' = TRUE
      /\ UNCHANGED <<channel, phase, raised, on, channelsExcused>>
  BY DEF Redis!Disposed, Redis!Resumes, Redis!Visited
<1>2. Redis!TypeOK' BY <1>1, ReturnTypes DEF RedisInv, Redis!TypeOK
<1>3. \A k \in Channels : (tasks[k] \in Redis!Born \cup {Redis!None})' BY <1>1
<1>4. ASSUME NEW k \in Channels \ channelsExcused' PROVE ChannelInv(k)'
  <2>1. /\ OnlyCall(c, k) /\ Redis!CallsOn(k) = {c}
        /\ \A l \in Redis!Live : channel[l] = k => tasks[k] = l
    BY <1>1, DisposerAlone
  <2>2. Redis!CallsOn(k)' = {} BY <2>1, <1>1, ReturnTypes DEF Redis!CallsOn
  <2>3. tasks[k] # Redis!None => phase[tasks[k]] = "ended"
    <3> SUFFICES ASSUME tasks[k] # Redis!None PROVE phase[tasks[k]] = "ended" OBVIOUS
    <3>1. k \notin left[c] BY <1>1 DEF Redis!Listed
    <3> QED BY <3>1, <2>1, <1>1 DEF OnlyCall
  <2>4. \A l \in Redis!Live : channel[l] # k
    <3> SUFFICES ASSUME NEW l \in Redis!Live, channel[l] = k PROVE FALSE OBVIOUS
    <3>1. tasks[k] = l /\ l # Redis!None /\ phase[l] # "ended"
      BY <2>1, RedisConstants DEF Redis!Live
    <3> QED BY <3>1, <2>3
  <2>5. Redis!Live' = Redis!Live BY <1>1, ReturnTypes
  <2> QED BY <2>2, <2>4, <2>5, <1>1 DEF ChannelInv
<1> QED BY <1>1, <1>2, <1>3, <1>4, ReturnTypes DEF RedisInv

LEMMA DisposeKeeps ==
    ASSUME RedisInv, Redis!Dispose
    PROVE  RedisInv'
<1> USE DEF Redis!listeners, Redis!calls
<1>1. /\ subscriptions' = {} /\ disposed' = TRUE
      /\ channelsExcused' = channelsExcused \cup Redis!Listed \cup {ch \in Channels : Redis!Busy(ch)}
      /\ UNCHANGED <<tasks, channel, phase, raised, callAt, on, awaited, left, size>>
  BY DEF Redis!Dispose
<1>2. Redis!Born' = Redis!Born /\ Redis!Live' = Redis!Live
  BY <1>1 DEF Redis!Born, Redis!Live
<1>3. Redis!TypeOK' BY <1>1, <1>2 DEF RedisInv, Redis!TypeOK, Redis!Listed
<1>4. Numbered' BY <1>1, <1>2, NumberedStays DEF RedisInv, Makers
<1>5. ASSUME NEW d \in Callers PROVE CallInv(d)'
  <2>1. CallInv(d) BY DEF RedisInv
  <2> QED BY <2>1, <1>1, <1>2 DEF CallInv
<1>6. \A k \in Channels : (tasks[k] \in Redis!Born \cup {Redis!None})' BY <1>1, <1>2 DEF RedisInv
<1>7. ASSUME NEW k \in Channels \ channelsExcused' PROVE ChannelInv(k)'
  <2>1. ChannelInv(k) /\ tasks[k] = Redis!None BY <1>1 DEF RedisInv, Redis!Listed
  <2>2. Redis!CallsOn(k) = {} /\ Redis!CallsOn(k)' = {} BY <1>1 DEF Redis!Busy, Redis!CallsOn
  <2>3. \A l \in Redis!Live : channel[l] = k => tasks[k] = l
    BY <2>1, <2>2 DEF ChannelInv, Known
  <2> QED BY <2>1, <2>2, <2>3, <1>1, <1>2 DEF ChannelInv, Known
<1> QED BY <1>3, <1>4, <1>5, <1>6, <1>7 DEF RedisInv

LEMMA RedisStepKeeps == RedisInv /\ Redis!Next => RedisInv'
BY ListenerStepKeeps, SubscribeKeeps, SubscribedKeeps, SubscribeFailsKeeps, UnsubscribeKeeps,
   UnsubscribedKeeps, DisposeAsyncKeeps, DisposeBreaksKeeps, DisposeNextKeeps, DisposedKeeps,
   DisposeKeeps
   DEF Redis!Next, Redis!GoesOn

LEMMA RedisRests == RedisInv /\ UNCHANGED redisVars => RedisInv'
<1> SUFFICES ASSUME RedisInv, UNCHANGED redisVars PROVE RedisInv' OBVIOUS
<1>1. Redis!Born' = Redis!Born /\ Redis!Live' = Redis!Live /\ Makers' = Makers
  BY DEF redisVars, Redis!Born, Redis!Live, Makers
<1>2. Redis!TypeOK' BY <1>1 DEF RedisInv, redisVars, Redis!TypeOK
<1>3. Numbered' BY <1>1, NumberedStays DEF RedisInv
<1>4. ASSUME NEW c \in Callers PROVE CallInv(c)'
  BY <1>1 DEF RedisInv, redisVars, CallInv
<1>5. ASSUME NEW ch \in Channels \ channelsExcused PROVE ChannelInv(ch)'
  <2>1. Redis!CallsOn(ch)' = Redis!CallsOn(ch) BY DEF redisVars, Redis!CallsOn
  <2>2. ChannelInv(ch) BY DEF RedisInv
  <2> QED BY <2>1, <2>2, <1>1 DEF redisVars, ChannelInv, Known, OnlyCall
<1> QED BY <1>1, <1>2, <1>3, <1>4, <1>5 DEF RedisInv, redisVars

LEMMA RedisSafe == RedisInv => Redis!TypeOK /\ Redis!ListenersAreKnown
<1> SUFFICES ASSUME RedisInv, NEW ch \in Channels, Redis!Quiet(ch)
             PROVE  /\ \A l \in Redis!Live : channel[l] = ch => tasks[ch] = l
                    /\ tasks[ch] # Redis!None => ch \in subscriptions
  BY DEF RedisInv, Redis!ListenersAreKnown
<1>1. ChannelInv(ch) /\ Redis!CallsOn(ch) = {} BY DEF RedisInv, Redis!Quiet, Redis!Busy
<1> QED BY <1>1 DEF ChannelInv, Known

-----------------------------------------------------------------------------
(* The trace exporter.                                                       *)

LEMMA TraceConstants ==
    /\ MaxSpans \in Nat /\ QueueSize \in Nat \ {0} /\ BatchSize \in Nat \ {0}
    /\ Trace!Spans = 1 .. MaxSpans /\ Trace!Drainers = Drainer
    /\ \A x : <<x, x>> \notin Other
BY WorkersAssumption DEF Trace!TraceAssumption, Trace!Spans, Trace!Drainers, Drainer, Other

Places == {"idle", "looping", "getting", "filling", "flushing", "waiting",
           "joining", "draining", "inserting", "closing", "done", "raised"}

LEMMA TraceInit == Trace!Init => TraceInv
<1> SUFFICES ASSUME Trace!Init PROVE TraceInv OBVIOUS
<1>1. /\ handed = 0 /\ next = 1 /\ spanQueue = <<>> /\ spansStored = {} /\ spansLost = {}
      /\ refused = {} /\ tracingStops = FALSE
      /\ at = [d \in Drainer |-> IF d = "worker" THEN "looping" ELSE "idle"]
      /\ spanBuffer = [d \in Drainer |-> <<>>]
      /\ spansPromised = [d \in Drainer |-> {}]
  BY TraceConstants DEF Trace!Init
<1>2. Trace!TypeOK
  <2>1. handed \in 0 .. MaxSpans /\ next \in 1 .. handed + 1 BY <1>1, TraceConstants
  <2>2. spanQueue \in Seq(Trace!Spans) /\ Len(spanQueue) <= QueueSize BY <1>1, TraceConstants
  <2>3. at \in [Drainer -> Places] BY <1>1 DEF Places
  <2>4. spanBuffer \in [Drainer -> Seq(Trace!Spans)] BY <1>1
  <2>5. Len(spanBuffer["worker"]) <= BatchSize BY <1>1, TraceConstants DEF Drainer
  <2>6. spansPromised \in [Drainer -> SUBSET Trace!Spans] BY <1>1
  <2> QED BY <2>1, <2>2, <2>3, <2>4, <2>5, <2>6, <1>1, TraceConstants DEF Trace!TypeOK, Places
<1>3. SpansInv
  <2>1. ToSet(spanQueue) = {} /\ Ordered(spanQueue, Other) BY <1>1, OrderedEmpty
  <2>2. \A d \in Drainer : ToSet(spanBuffer[d]) = {} /\ Ordered(spanBuffer[d], Other)
    BY <1>1, OrderedEmpty
  <2>3. InHand = {} BY <2>1, <2>2 DEF InHand
  <2>4. 1 .. next - 1 = {} BY <1>1
  <2> QED BY <2>1, <2>2, <2>3, <2>4, <1>1 DEF SpansInv, Settled, Before
<1>4. DrainInv BY <1>1 DEF DrainInv
<1>5. spanBuffer["worker"] = <<>> BY <1>1 DEF Drainer
<1> QED BY <1>2, <1>3, <1>4, <1>5 DEF TraceInv

LEMMA TraceTypes ==
    ASSUME TraceInv
    PROVE  /\ handed \in Nat /\ handed <= MaxSpans /\ next \in Nat /\ 1 <= next /\ next <= handed + 1
           /\ spanQueue \in Seq(Trace!Spans) /\ Len(spanQueue) <= QueueSize
           /\ at \in [Drainer -> Places]
           /\ spanBuffer \in [Drainer -> Seq(Trace!Spans)]
           /\ spansStored \subseteq Trace!Spans /\ spansLost \subseteq Trace!Spans
           /\ refused \subseteq Trace!Spans /\ tracingStops \in BOOLEAN
           /\ spansPromised \in [Drainer -> SUBSET Trace!Spans]
           /\ SpansInv /\ DrainInv
BY TraceConstants DEF TraceInv, Trace!TypeOK, Places

\* A step that touches neither the spans nor a promise: only where the threads
\* stand, and the stop event.
LEMMA OnlyPlaces ==
    ASSUME TraceInv, NEW d \in Drainer, NEW p \in Places, at' = [at EXCEPT ![d] = p],
           tracingStops' \in BOOLEAN,
           p \in {"inserting", "closing", "done"} =>
              at[d] \in {"inserting", "closing", "done"} \/ spanQueue = <<>>,
           d = "worker" /\ p \in {"looping", "getting"} => spanBuffer["worker"] = <<>>,
           d = "worker" => at[d] \notin {"draining", "inserting"} \/ p \in {"draining", "inserting"},
           UNCHANGED <<handed, next, refused, spanQueue, spanBuffer, spansStored, spansLost,
                       spansPromised>>
    PROVE  TraceInv'
<1>1. \A e \in Drainer : at'[e] = IF e = d THEN p ELSE at[e] BY TraceTypes
<1>2. "worker" \in Drainer BY DEF Drainer
<1>3. Trace!TypeOK'
  <2>1. at' \in [Drainer -> Places] BY TraceTypes
  <2>2. Len(spanBuffer["worker"]) <= BatchSize \/ at'["worker"] \in {"draining", "inserting"}
    BY <1>1, <1>2 DEF TraceInv, Trace!TypeOK
  <2> QED BY <2>1, <2>2, TraceConstants DEF TraceInv, Trace!TypeOK, Places
<1>4. SpansInv' BY DEF TraceInv, SpansInv, InHand, Settled
<1>5. DrainInv'
  <2> SUFFICES ASSUME NEW e \in Drainer, at'[e] \in {"inserting", "closing", "done"}
               PROVE  spansPromised[e] \cap ToSet(spanQueue) = {}
    BY DEF TraceInv, DrainInv
  <2>1. CASE at[e] \in {"inserting", "closing", "done"} BY <2>1 DEF TraceInv, DrainInv
  <2>2. CASE spanQueue = <<>> BY <2>2, OrderedEmpty
  <2> QED BY <2>1, <2>2, <1>1
<1>6. at'["worker"] \in {"looping", "getting"} => spanBuffer["worker"] = <<>>
  BY <1>1, <1>2 DEF TraceInv
<1> QED BY <1>3, <1>4, <1>5, <1>6 DEF TraceInv

\* Of force_flush and shutdown: what is queued then is promised.
LEMMA Promises ==
    ASSUME TraceInv, NEW d \in Drainer, d # "worker", NEW p \in {"waiting", "joining"},
           at' = [at EXCEPT ![d] = p], tracingStops' \in BOOLEAN,
           spansPromised' = [spansPromised EXCEPT ![d] = Trace!Queued],
           UNCHANGED <<handed, next, refused, spanQueue, spanBuffer, spansStored, spansLost>>
    PROVE  TraceInv'
<1> DEFINE q == Trace!Queued
<1>1. spansPromised' = [spansPromised EXCEPT ![d] = q] OBVIOUS
<1>2. q \subseteq 1 .. next - 1 /\ q \subseteq Trace!Spans
  BY TraceTypes, TraceConstants DEF Trace!Queued
<1> HIDE DEF q
<1>3. \A e \in Drainer :
        /\ at'[e] = IF e = d THEN p ELSE at[e]
        /\ spansPromised'[e] = IF e = d THEN q ELSE spansPromised[e]
  <2>1. at \in [Drainer -> Places] /\ spansPromised \in [Drainer -> SUBSET Trace!Spans]
    BY TraceTypes
  <2>2. \A e \in Drainer : at'[e] = IF e = d THEN p ELSE at[e] BY <2>1
  <2>3. \A e \in Drainer : spansPromised'[e] = IF e = d THEN q ELSE spansPromised[e]
    BY <2>1, <1>1
  <2> QED BY <2>2, <2>3
<1>4. "worker" \in Drainer BY DEF Drainer
<1>5. Trace!TypeOK'
  <2>1. at' \in [Drainer -> Places] BY TraceTypes DEF Places
  <2>2. spansPromised' \in [Drainer -> SUBSET Trace!Spans] BY <1>1, <1>2, TraceTypes
  <2>3. Len(spanBuffer["worker"]) <= BatchSize \/ at'["worker"] \in {"draining", "inserting"}
    BY <1>3, <1>4 DEF TraceInv, Trace!TypeOK
  <2> QED BY <2>1, <2>2, <2>3, TraceConstants DEF TraceInv, Trace!TypeOK, Places
<1>6. SpansInv' BY DEF TraceInv, SpansInv, InHand, Settled
<1>7. DrainInv'
  <2> SUFFICES ASSUME NEW e \in Drainer
               PROVE  /\ spansPromised'[e] \subseteq 1 .. next - 1
                      /\ at'[e] \in {"inserting", "closing", "done"} =>
                            spansPromised'[e] \cap ToSet(spanQueue) = {}
    BY DEF DrainInv
  <2>1. CASE e = d
    <3>1. spansPromised'[e] \subseteq 1 .. next - 1 BY <2>1, <1>2, <1>3
    <3>2. at'[e] = p /\ p \notin {"inserting", "closing", "done"} BY <2>1, <1>3
    <3> QED BY <3>1, <3>2
  <2>2. CASE e # d BY <2>2, <1>3 DEF TraceInv, DrainInv
  <2> QED BY <2>1, <2>2
<1>8. at'["worker"] = at["worker"] BY <1>3, <1>4
<1> QED BY <1>5, <1>6, <1>7, <1>8 DEF TraceInv

LEMMA ExportKeeps == TraceInv /\ Trace!Export => TraceInv'
<1> SUFFICES ASSUME TraceInv, Trace!Export PROVE TraceInv' OBVIOUS
<1>1. handed' \in handed + 1 .. MaxSpans
      /\ UNCHANGED <<next, refused, spanQueue, at, spanBuffer, spansStored, spansLost, tracingStops,
                     spansPromised>>
  BY DEF Trace!Export, Trace!database
<1>2. handed' \in 0 .. MaxSpans /\ next \in 1 .. handed' + 1 BY <1>1, TraceTypes, TraceConstants
<1>3. Trace!TypeOK' BY <1>1, <1>2 DEF TraceInv, Trace!TypeOK
<1> QED BY <1>1, <1>3 DEF TraceInv, SpansInv, DrainInv, InHand, Settled

\* A span that is put into the queue is the newest: it is in no other place
\* and nobody has promised it.
LEMMA PutKeeps == TraceInv /\ Trace!Put => TraceInv'
<1> SUFFICES ASSUME TraceInv, Trace!Put PROVE TraceInv' OBVIOUS
<1>1. next <= handed /\ UNCHANGED <<handed, at, spanBuffer, spansStored, spansLost, tracingStops,
                                    spansPromised>>
  BY DEF Trace!Put, Trace!database
<1>2. next \in Trace!Spans /\ next \in Nat /\ next <= MaxSpans BY <1>1, TraceTypes, TraceConstants
<1>3. \A x \in InHand \cup Settled : x # next
  <2>1. \A x \in 1 .. next - 1 : x # next BY <1>2
  <2> QED BY <2>1, TraceTypes DEF SpansInv
<1>4. CASE Trace!HasRoom /\ spanQueue' = Append(spanQueue, next) /\ next' = next + 1
           /\ UNCHANGED refused
  <2>1. \A x \in ToSet(spanQueue) : <<x, next>> \in Other
    <3>1. ToSet(spanQueue) \subseteq Trace!Spans BY TraceTypes, Members
    <3> QED BY <3>1, <1>2, <1>3 DEF Other, InHand
  <2>2. /\ spanQueue' \in Seq(Trace!Spans) /\ Ordered(spanQueue', Other)
        /\ ToSet(spanQueue') = ToSet(spanQueue) \cup {next}
    BY <2>1, <1>2, <1>4, TraceTypes, OrderedAppend DEF SpansInv
  <2>3. Len(spanQueue') <= QueueSize
    <3>1. Len(spanQueue') = Len(spanQueue) + 1 /\ Len(spanQueue) \in Nat
      BY <1>2, <1>4, TraceTypes, AppendProperties
    <3> QED BY <3>1, <1>4, TraceConstants DEF Trace!HasRoom
  <2>4. Trace!TypeOK'
    <3>1. next' \in 1 .. handed' + 1 BY <1>1, <1>2, <1>4, TraceTypes
    <3> QED BY <3>1, <2>2, <2>3, <1>1, <1>4 DEF TraceInv, Trace!TypeOK
  <2>5. SpansInv'
    <3>1. InHand' = InHand \cup {next} BY <2>2, <1>1 DEF InHand
    <3>2. Settled' = Settled BY <1>1, <1>4 DEF Settled
    <3>3. 1 .. next' - 1 = (1 .. next - 1) \cup {next}
      <4>1. next' - 1 = next BY <1>2, <1>4
      <4>2. 1 <= next BY TraceTypes
      <4>3. \A x \in Int : x \in 1 .. next <=> x \in 1 .. next - 1 \/ x = next BY <1>2, <4>2
      <4>4. 1 .. next = (1 .. next - 1) \cup {next} BY <1>2, <4>3
      <4> QED BY <4>1, <4>4
    <3>4. \A d \in Drainer : Before(spanBuffer[d], spanQueue', Other)
      <4> SUFFICES ASSUME NEW d \in Drainer, NEW x \in ToSet(spanBuffer[d])
                   PROVE  <<x, next>> \in Other
        BY <2>2, TraceTypes DEF SpansInv, Before
      <4>1. x \in Trace!Spans BY TraceTypes, Members
      <4> QED BY <4>1, <1>2, <1>3 DEF Other, InHand
    <3>5. InHand' \cap Settled' = {} BY <3>1, <3>2, <1>3, TraceTypes DEF SpansInv
    <3>6. 1 .. next' - 1 = InHand' \cup Settled' BY <3>1, <3>2, <3>3, TraceTypes DEF SpansInv
    <3> QED BY <3>4, <3>5, <3>6, <2>2, <1>1, <1>4, TraceTypes DEF SpansInv
  <2>6. DrainInv'
    <3> SUFFICES ASSUME NEW d \in Drainer
                 PROVE  /\ spansPromised[d] \subseteq 1 .. next' - 1
                        /\ at[d] \in {"inserting", "closing", "done"} =>
                              spansPromised[d] \cap ToSet(spanQueue') = {}
      BY <1>1 DEF DrainInv
    <3>1. spansPromised[d] \subseteq 1 .. next - 1 BY TraceTypes DEF DrainInv
    <3>2. 1 .. next - 1 \subseteq 1 .. next' - 1 /\ next \notin 1 .. next - 1 BY <1>2, <1>4
    <3> QED BY <3>1, <3>2, <2>2, TraceTypes DEF DrainInv
  <2> QED BY <2>4, <2>5, <2>6, <1>1 DEF TraceInv
<1>5. CASE Trace!Refuse /\ UNCHANGED spanQueue
  <2>1. next' = handed + 1 /\ refused' = refused \cup (next .. handed) BY <1>5 DEF Trace!Refuse
  <2>2. next .. handed \subseteq Trace!Spans BY <1>2, TraceTypes, TraceConstants
  <2>3. Trace!TypeOK'
    <3>1. next' \in 1 .. handed + 1 BY <2>1, TraceTypes
    <3> QED BY <3>1, <2>1, <2>2, <1>1, <1>5 DEF TraceInv, Trace!TypeOK
  <2>4. 1 .. next' - 1 = (1 .. next - 1) \cup (next .. handed)
        /\ (1 .. next - 1) \cap (next .. handed) = {}
    BY <2>1, <1>1, <1>2, TraceTypes
  <2>5. SpansInv'
    <3>1. InHand' = InHand BY <1>1, <1>5 DEF InHand
    <3>2. Settled' = Settled \cup (next .. handed) BY <2>1, <1>1 DEF Settled
    <3>3. 1 .. next' - 1 = InHand' \cup Settled' /\ InHand' \cap Settled' = {}
      BY <3>1, <3>2, <2>4, TraceTypes DEF SpansInv
    <3>4. refused' \cap (spansStored \cup spansLost) = {}
      BY <2>1, <2>4, TraceTypes DEF SpansInv, Settled
    <3> QED BY <3>3, <3>4, <1>1, <1>5, TraceTypes DEF SpansInv
  <2>6. DrainInv' BY <2>4, <1>1, <1>5, TraceTypes DEF DrainInv
  <2> QED BY <2>3, <2>5, <2>6, <1>1 DEF TraceInv
<1> QED BY <1>4, <1>5 DEF Trace!Put

\* A span that is taken goes from the head of the queue to the end of one
\* drainer's buffer.
LEMMA TakeKeeps ==
    ASSUME TraceInv, NEW d \in Drainer, Trace!Take(d)
    PROVE  /\ spanQueue' \in Seq(Trace!Spans) /\ Len(spanQueue') <= QueueSize
           /\ spanBuffer' \in [Drainer -> Seq(Trace!Spans)]
           /\ Len(spanBuffer'[d]) = Len(spanBuffer[d]) + 1 /\ Len(spanBuffer[d]) \in Nat
           /\ \A e \in Drainer : e # d => spanBuffer'[e] = spanBuffer[e]
           /\ ToSet(spanQueue') \subseteq ToSet(spanQueue)
           /\ UNCHANGED <<next, spansStored, spansLost, refused>> => SpansInv'
<1> DEFINE s == Head(spanQueue)
<1>1. /\ spanQueue # <<>> /\ spanQueue' = Tail(spanQueue)
      /\ spanBuffer' = [spanBuffer EXCEPT ![d] = Append(spanBuffer[d], s)]
      /\ spanQueue \in Seq(Trace!Spans) /\ spanBuffer \in [Drainer -> Seq(Trace!Spans)]
  BY TraceTypes DEF Trace!Take
<1>2. /\ s \in Trace!Spans /\ s \in ToSet(spanQueue)
      /\ spanQueue' \in Seq(Trace!Spans) /\ Ordered(spanQueue', Other)
      /\ ToSet(spanQueue) = {s} \cup ToSet(spanQueue')
      /\ \A y \in ToSet(spanQueue') : <<s, y>> \in Other
  BY <1>1, OrderedTail, TraceTypes DEF SpansInv
<1>3. Len(spanQueue') <= QueueSize
  <2>1. Len(spanQueue') = Len(spanQueue) - 1 /\ Len(spanQueue) \in Nat BY <1>1, HeadTailProperties
  <2> QED BY <2>1, TraceTypes, TraceConstants
<1> HIDE DEF s
<1>4. /\ spanBuffer' \in [Drainer -> Seq(Trace!Spans)]
      /\ spanBuffer'[d] = Append(spanBuffer[d], s)
      /\ \A e \in Drainer : e # d => spanBuffer'[e] = spanBuffer[e]
  <2>1. Append(spanBuffer[d], s) \in Seq(Trace!Spans) BY <1>1, <1>2, AppendProperties
  <2> DEFINE b == Append(spanBuffer[d], s)
  <2> HIDE DEF b
  <2>2. spanBuffer' = [spanBuffer EXCEPT ![d] = b] /\ b \in Seq(Trace!Spans) BY <1>1, <2>1 DEF b
  <2>3. /\ spanBuffer' \in [Drainer -> Seq(Trace!Spans)] /\ spanBuffer'[d] = b
        /\ \A e \in Drainer : e # d => spanBuffer'[e] = spanBuffer[e]
    BY <1>1, <2>2
  <2> QED BY <2>3 DEF b
<1>5. Len(spanBuffer'[d]) = Len(spanBuffer[d]) + 1 /\ Len(spanBuffer[d]) \in Nat
  BY <1>1, <1>2, <1>4, AppendProperties
<1>6. ASSUME UNCHANGED <<next, spansStored, spansLost, refused>> PROVE SpansInv'
  <2>1. \A y \in ToSet(spanBuffer[d]) : <<y, s>> \in Other
    BY <1>2, TraceTypes DEF SpansInv, Before
  <2>2. /\ spanBuffer[d] \in Seq(Trace!Spans) /\ Ordered(spanBuffer[d], Other)
    BY <1>1, TraceTypes DEF SpansInv
  <2>3. Ordered(spanBuffer'[d], Other) /\ ToSet(spanBuffer'[d]) = ToSet(spanBuffer[d]) \cup {s}
    BY <1>2, <1>4, <2>1, <2>2, OrderedAppend
  <2>4. InHand' = InHand
    <3>1. InHand' = ToSet(spanQueue') \cup {s} \cup UNION {ToSet(spanBuffer[e]) : e \in Drainer}
      <4>1. \A x : (\E e \in Drainer : x \in ToSet(spanBuffer'[e]))
                     <=> x = s \/ \E e \in Drainer : x \in ToSet(spanBuffer[e])
        BY <2>3, <1>4
      <4> QED BY <4>1 DEF InHand
    <3> QED BY <3>1, <1>2 DEF InHand
  <2>5. ASSUME NEW e \in Drainer
        PROVE  Ordered(spanBuffer'[e], Other) /\ Before(spanBuffer'[e], spanQueue', Other)
    <3>1. Ordered(spanBuffer[e], Other) /\ Before(spanBuffer[e], spanQueue, Other)
      BY TraceTypes DEF SpansInv
    <3>2. CASE e = d BY <3>1, <3>2, <2>3, <1>2 DEF Before
    <3>3. CASE e # d BY <3>1, <3>3, <1>2, <1>4 DEF Before
    <3> QED BY <3>2, <3>3
  <2>6. ASSUME NEW e \in Drainer, e # d
        PROVE  Before(spanBuffer'[e], spanBuffer'[d], Other) /\ Before(spanBuffer'[d], spanBuffer'[e], Other)
    <3>1. /\ Before(spanBuffer[e], spanBuffer[d], Other) /\ Before(spanBuffer[d], spanBuffer[e], Other)
          /\ Before(spanBuffer[e], spanQueue, Other) /\ spanBuffer'[e] = spanBuffer[e]
      BY <2>6, <1>4, TraceTypes DEF SpansInv
    <3>2. \A x \in ToSet(spanBuffer[e]) : <<x, s>> \in Other /\ <<s, x>> \in Other
      <4>1. \A x \in ToSet(spanBuffer[e]) : <<x, s>> \in Other BY <3>1, <1>2 DEF Before
      <4> QED BY <4>1 DEF Other
    <3> QED BY <3>1, <3>2, <2>3 DEF Before
  <2>7. ASSUME NEW e \in Drainer, NEW f \in Drainer, e # f
        PROVE  Before(spanBuffer'[e], spanBuffer'[f], Other)
    <3>1. CASE e = d \/ f = d BY <3>1, <2>6, <2>7
    <3>2. CASE e # d /\ f # d BY <3>2, <2>7, <1>4, TraceTypes DEF SpansInv
    <3> QED BY <3>1, <3>2
  <2>8. Settled' = Settled BY <1>6 DEF Settled
  <2> QED BY <2>4, <2>5, <2>7, <2>8, <1>2, <1>6, TraceTypes DEF SpansInv
<1> QED BY <1>2, <1>3, <1>4, <1>5, <1>6

\* Wherever a thread takes a span, it does not pass for one that is through.
LEMMA TakerKeeps ==
    ASSUME TraceInv, NEW d \in Drainer, Trace!Take(d), at' \in [Drainer -> Places],
           \A e \in Drainer : at'[e] \in {"inserting", "closing", "done"} => at'[e] = at[e],
           Len(spanBuffer'["worker"]) <= BatchSize \/ at'["worker"] \in {"draining", "inserting"},
           at'["worker"] \in {"looping", "getting"} => d # "worker" /\ at'["worker"] = at["worker"],
           UNCHANGED <<handed, next, refused, spansStored, spansLost, tracingStops, spansPromised>>
    PROVE  TraceInv'
<1>1. Trace!TypeOK' BY TakeKeeps, TraceConstants DEF TraceInv, Trace!TypeOK, Places
<1>2. SpansInv' BY TakeKeeps
<1>3. DrainInv'
  <2> SUFFICES ASSUME NEW e \in Drainer, at'[e] \in {"inserting", "closing", "done"}
               PROVE  spansPromised[e] \cap ToSet(spanQueue') = {}
    BY TraceTypes DEF DrainInv
  <2>1. spansPromised[e] \cap ToSet(spanQueue) = {} BY TraceTypes DEF DrainInv
  <2> QED BY <2>1, TakeKeeps
<1>4. at'["worker"] \in {"looping", "getting"} => spanBuffer'["worker"] = <<>>
  BY TakeKeeps DEF TraceInv, Drainer
<1> QED BY <1>1, <1>2, <1>3, <1>4 DEF TraceInv

LEMMA RunKeeps == TraceInv /\ Trace!Run => TraceInv'
<1> SUFFICES ASSUME TraceInv, Trace!Run PROVE TraceInv' OBVIOUS
<1> USE DEF Trace!export, Trace!database, Trace!Goto
<1>1. "worker" \in Drainer BY DEF Drainer
<1>2. CASE Trace!Loop
  <2>1. PICK p \in {"draining", "getting"} : at' = [at EXCEPT !["worker"] = p]
    BY <1>2 DEF Trace!Loop
  <2>2. p \in Places /\ spanBuffer["worker"] = <<>> /\ at["worker"] = "looping"
    BY <1>2 DEF Trace!Loop, Places, TraceInv
  <2>3. UNCHANGED <<handed, next, refused, spanQueue, spanBuffer, spansStored, spansLost,
                    tracingStops, spansPromised>>
    BY <1>2 DEF Trace!Loop
  <2> QED BY <1>1, <2>1, <2>2, <2>3, TraceTypes, OnlyPlaces
<1>3. CASE Trace!Get
  <2>1. /\ at["worker"] = "getting" /\ spanBuffer["worker"] = <<>>
        /\ UNCHANGED <<handed, next, refused, spansStored, spansLost, tracingStops, spansPromised>>
    BY <1>3 DEF Trace!Get, TraceInv
  <2>2. CASE Trace!Take("worker") /\ at' = [at EXCEPT !["worker"] = "filling"]
    <3>1. \A e \in Drainer : at'[e] = IF e = "worker" THEN "filling" ELSE at[e]
      BY <2>2, TraceTypes
    <3>2. at' \in [Drainer -> Places] BY <2>2, TraceTypes DEF Places
    <3>3. Len(spanBuffer'["worker"]) <= BatchSize
      <4>1. Len(spanBuffer'["worker"]) = Len(spanBuffer["worker"]) + 1 BY <2>2, <1>1, TakeKeeps
      <4>2. Len(spanBuffer["worker"]) = 0 BY <2>1
      <4> QED BY <4>1, <4>2, TraceConstants
    <3> QED BY <3>1, <3>2, <3>3, <2>1, <2>2, <1>1, TakerKeeps
  <2>3. CASE at' = [at EXCEPT !["worker"] = "looping"] /\ UNCHANGED <<spanQueue, spanBuffer>>
    BY <2>1, <2>3, <1>1, TraceTypes, OnlyPlaces DEF Places
  <2> QED BY <2>2, <2>3, <1>3 DEF Trace!Get
<1>4. CASE Trace!Fill
  <2>1. /\ at["worker"] = "filling"
        /\ UNCHANGED <<handed, next, refused, spansStored, spansLost, tracingStops, spansPromised>>
    BY <1>4 DEF Trace!Fill
  <2>2. CASE ~(Len(spanBuffer["worker"]) >= BatchSize) /\ Trace!Take("worker") /\ UNCHANGED at
    <3>1. Len(spanBuffer'["worker"]) = Len(spanBuffer["worker"]) + 1
          /\ Len(spanBuffer["worker"]) \in Nat
      BY <2>2, <1>1, TakeKeeps
    <3>2. Len(spanBuffer'["worker"]) <= BatchSize BY <2>2, <3>1, TraceConstants
    <3> QED BY <3>2, <2>1, <2>2, <1>1, TraceTypes, TakerKeeps
  <2>3. CASE at' = [at EXCEPT !["worker"] = "flushing"] /\ UNCHANGED <<spanQueue, spanBuffer>>
    BY <2>1, <2>3, <1>1, TraceTypes, OnlyPlaces DEF Places
  <2> QED BY <2>2, <2>3, <1>4 DEF Trace!Fill, Trace!OnEmpty
<1> QED BY <1>2, <1>3, <1>4 DEF Trace!Run

LEMMA DrainKeeps ==
    ASSUME TraceInv, NEW d \in Drainer, Trace!Drain(d)
    PROVE  TraceInv'
<1> USE DEF Trace!export, Trace!database, Trace!Goto
<1>1. /\ at[d] = "draining"
      /\ UNCHANGED <<handed, next, refused, spansStored, spansLost, tracingStops, spansPromised>>
  BY DEF Trace!Drain
<1>2. CASE Trace!Take(d) /\ UNCHANGED at
  <2>1. Len(spanBuffer'["worker"]) <= BatchSize \/ at'["worker"] \in {"draining", "inserting"}
    <3>1. CASE d = "worker" BY <3>1, <1>1, <1>2
    <3>2. CASE d # "worker"
      <4>1. spanBuffer'["worker"] = spanBuffer["worker"] BY <3>2, <1>2, TakeKeeps DEF Drainer
      <4> QED BY <4>1, <1>2 DEF TraceInv, Trace!TypeOK
    <3> QED BY <3>1, <3>2
  <2>2. at'["worker"] \in {"looping", "getting"} => d # "worker" BY <1>1, <1>2
  <2> QED BY <2>1, <2>2, <1>1, <1>2, TraceTypes, TakerKeeps
<1>3. CASE spanQueue = <<>> /\ at' = [at EXCEPT ![d] = "inserting"]
           /\ UNCHANGED <<spanQueue, spanBuffer>>
  BY <1>1, <1>3, TraceTypes, OnlyPlaces DEF Places
<1> QED BY <1>2, <1>3 DEF Trace!Drain

LEMMA InsertSpansKeeps ==
    ASSUME TraceInv, NEW d \in Drainer, Trace!Insert(d)
    PROVE  TraceInv'
<1> USE DEF Trace!export, Trace!Goto, Trace!Emptied
<1> DEFINE taken == ToSet(spanBuffer[d])
<1>1. /\ at[d] \in {"flushing", "inserting"} /\ spanBuffer' = [spanBuffer EXCEPT ![d] = <<>>]
      /\ UNCHANGED <<handed, next, refused, spanQueue, tracingStops, spansPromised>>
  BY DEF Trace!Insert
<1>2. PICK ok \in SUBSET taken :
        /\ spansStored' = spansStored \cup ok /\ spansLost' = spansLost \cup (taken \ ok)
        /\ \E b \in BOOLEAN : at' = [at EXCEPT ![d] = Trace!AfterInsert(d, b)]
  <2>1. PICK ok \in SUBSET (taken \ Unencodable) :
          /\ spansStored' = spansStored \cup ok /\ spansLost' = spansLost \cup (taken \ ok)
          /\ at' = [at EXCEPT ![d] =
                Trace!AfterInsert(d, taken \cap Unencodable # {} /\ ~Trace!Closed)]
    BY SameOperators DEF Trace!Insert
  <2> DEFINE b == taken \cap Unencodable # {} /\ ~Trace!Closed
  <2>2. b \in BOOLEAN /\ ok \in SUBSET taken OBVIOUS
  <2>3. at' = [at EXCEPT ![d] = Trace!AfterInsert(d, b)] BY <2>1
  <2> HIDE DEF b
  <2> QED BY <2>1, <2>2, <2>3
<1>3. PICK p \in {"raised", "looping", "closing", "done"} :
        at' = [at EXCEPT ![d] = p] /\ (at[d] = "flushing" => p \in {"raised", "looping"})
  <2>1. PICK b \in BOOLEAN : at' = [at EXCEPT ![d] = Trace!AfterInsert(d, b)] BY <1>2
  <2> DEFINE p == Trace!AfterInsert(d, b)
  <2>2. p \in {"raised", "looping", "closing", "done"}
        /\ (at[d] = "flushing" => p \in {"raised", "looping"})
    <3>1. CASE b BY <3>1 DEF Trace!AfterInsert
    <3>2. CASE b = FALSE
      <4>1. CASE at[d] = "flushing" BY <3>2, <4>1 DEF Trace!AfterInsert
      <4>2. CASE at[d] = "inserting" /\ d = "stopper" BY <3>2, <4>2 DEF Trace!AfterInsert
      <4>3. CASE at[d] = "inserting" /\ d # "stopper" BY <3>2, <4>3 DEF Trace!AfterInsert
      <4> QED BY <4>1, <4>2, <4>3, <1>1
    <3> QED BY <3>1, <3>2
  <2>3. at' = [at EXCEPT ![d] = p] BY <2>1
  <2> HIDE DEF p
  <2> QED BY <2>2, <2>3
<1>4. /\ \A e \in Drainer : at'[e] = IF e = d THEN p ELSE at[e]
      /\ \A e \in Drainer : spanBuffer'[e] = IF e = d THEN <<>> ELSE spanBuffer[e]
      /\ at' \in [Drainer -> Places] /\ spanBuffer' \in [Drainer -> Seq(Trace!Spans)]
  BY <1>1, <1>3, TraceTypes DEF Places
<1>5. taken \subseteq Trace!Spans /\ taken \subseteq InHand
  BY TraceTypes, Members DEF InHand
<1>6. "worker" \in Drainer BY DEF Drainer
<1>7. Trace!TypeOK'
  <2>1. Len(spanBuffer'["worker"]) <= BatchSize \/ at'["worker"] \in {"draining", "inserting"}
    <3>1. CASE d = "worker"
      <4>1. Len(spanBuffer'["worker"]) = 0 BY <3>1, <1>4
      <4> QED BY <4>1, TraceConstants
    <3>2. CASE d # "worker" BY <3>2, <1>4, <1>6 DEF TraceInv, Trace!TypeOK
    <3> QED BY <3>1, <3>2
  <2>2. spansStored' \subseteq Trace!Spans /\ spansLost' \subseteq Trace!Spans
    BY <1>2, <1>5, TraceTypes
  <2> QED BY <2>1, <2>2, <1>1, <1>4, TraceConstants DEF TraceInv, Trace!TypeOK, Places
<1>8. SpansInv'
  <2>1. \A e \in Drainer : ToSet(spanBuffer'[e]) = IF e = d THEN {} ELSE ToSet(spanBuffer[e])
    BY <1>4, OrderedEmpty
  <2>2. InHand' = InHand \ taken
    <3>1. \A x \in taken : x \notin ToSet(spanQueue)
      BY TraceTypes, TraceConstants DEF SpansInv, Before
    <3>2. \A e \in Drainer : e # d => \A x \in taken : x \notin ToSet(spanBuffer[e])
      BY TraceTypes, TraceConstants DEF SpansInv, Before
    <3>3. \A x : x \in InHand' <=> x \in ToSet(spanQueue) \/
                                   \E e \in Drainer : e # d /\ x \in ToSet(spanBuffer[e])
      BY <2>1, <1>1 DEF InHand
    <3>4. \A x : x \in InHand <=> x \in ToSet(spanQueue) \/ x \in taken \/
                                  \E e \in Drainer : e # d /\ x \in ToSet(spanBuffer[e])
      BY DEF InHand
    <3> QED BY <3>1, <3>2, <3>3, <3>4
  <2>3. Settled' = Settled \cup taken BY <1>1, <1>2 DEF Settled
  <2>4. 1 .. next' - 1 = InHand' \cup Settled' /\ InHand' \cap Settled' = {}
    BY <2>2, <2>3, <1>1, <1>5, TraceTypes DEF SpansInv
  <2>5. spansStored' \cap spansLost' = {} /\ refused \cap (spansStored' \cup spansLost') = {}
    <3>1. taken \cap (spansStored \cup spansLost \cup refused) = {}
      BY <1>5, TraceTypes DEF SpansInv, Settled
    <3> QED BY <3>1, <1>2, TraceTypes DEF SpansInv
  <2>6. ASSUME NEW e \in Drainer
        PROVE  Ordered(spanBuffer'[e], Other) /\ Before(spanBuffer'[e], spanQueue, Other)
    <3>1. CASE e = d BY <3>1, <2>1, <1>4, OrderedEmpty DEF Before
    <3>2. CASE e # d BY <3>2, <1>4, TraceTypes DEF SpansInv
    <3> QED BY <3>1, <3>2
  <2>7. ASSUME NEW e \in Drainer, NEW f \in Drainer, e # f
        PROVE  Before(spanBuffer'[e], spanBuffer'[f], Other)
    <3>1. CASE e = d \/ f = d BY <3>1, <2>1 DEF Before
    <3>2. CASE e # d /\ f # d BY <3>2, <2>7, <1>4, TraceTypes DEF SpansInv
    <3> QED BY <3>1, <3>2
  <2> QED BY <2>4, <2>5, <2>6, <2>7, <1>1, TraceTypes DEF SpansInv
<1>9. DrainInv' BY <1>1, <1>3, <1>4, TraceTypes DEF DrainInv
<1>10. at'["worker"] \in {"looping", "getting"} => spanBuffer'["worker"] = <<>>
  BY <1>4, <1>6 DEF TraceInv
<1> QED BY <1>7, <1>8, <1>9, <1>10 DEF TraceInv

LEMMA CallsKeep ==
    ASSUME TraceInv,
           \/ Trace!ForceFlush \/ Trace!WaitEnds
           \/ Trace!Shutdown \/ Trace!Joined \/ Trace!Close
    PROVE  TraceInv'
<1> USE DEF Trace!export, Trace!database, Trace!Goto, Drainer, Places
<1>1. CASE Trace!ForceFlush BY <1>1, TraceTypes, Promises DEF Trace!ForceFlush
<1>2. CASE Trace!WaitEnds BY <1>2, TraceTypes, OnlyPlaces DEF Trace!WaitEnds
<1>3. CASE Trace!Shutdown BY <1>3, Promises DEF Trace!Shutdown
<1>4. CASE Trace!Joined BY <1>4, TraceTypes, OnlyPlaces DEF Trace!Joined, Trace!AfterJoin
<1>5. CASE Trace!Close BY <1>5, TraceTypes, OnlyPlaces DEF Trace!Close
<1> QED BY <1>1, <1>2, <1>3, <1>4, <1>5

LEMMA TraceStepKeeps == TraceInv /\ Trace!Next => TraceInv'
BY ExportKeeps, PutKeeps, RunKeeps, DrainKeeps, InsertSpansKeeps, CallsKeep, TraceConstants
   DEF Trace!Next, Trace!Flush

LEMMA TraceRests == TraceInv /\ UNCHANGED traceVars => TraceInv'
BY DEF TraceInv, traceVars, Trace!TypeOK, SpansInv, DrainInv, InHand, Settled

LEMMA TraceSafe == TraceInv => Trace!TypeOK /\ Trace!AccountedFor /\ Trace!Drained
<1> SUFFICES ASSUME TraceInv PROVE Trace!AccountedFor /\ Trace!Drained BY DEF TraceInv
<1>1. Trace!Drained
  BY TraceTypes, SameOperators DEF Trace!Drained, DrainInv, Drainer
<1>2. Trace!AccountedFor
  <2> DEFINE w == spanBuffer["worker"]
             f == spanBuffer["flusher"]
             s == spanBuffer["stopper"]
             wf == w \o f
             hand == wf \o s
             all == spanQueue \o hand
  <2>1. /\ w \in Seq(Trace!Spans) /\ f \in Seq(Trace!Spans) /\ s \in Seq(Trace!Spans)
        /\ spanQueue \in Seq(Trace!Spans)
        /\ Ordered(w, Other) /\ Ordered(f, Other) /\ Ordered(s, Other) /\ Ordered(spanQueue, Other)
        /\ Before(w, f, Other) /\ Before(w, s, Other) /\ Before(f, s, Other)
        /\ Before(w, spanQueue, Other) /\ Before(f, spanQueue, Other) /\ Before(s, spanQueue, Other)
    BY TraceTypes DEF SpansInv, Drainer
  <2>2. InHand = ToSet(spanQueue) \cup ToSet(w) \cup ToSet(f) \cup ToSet(s) BY DEF InHand, Drainer
  <2> HIDE DEF w, f, s
  <2>3. wf \in Seq(Trace!Spans) /\ Ordered(wf, Other) /\ ToSet(wf) = ToSet(w) \cup ToSet(f)
    BY <2>1, OrderedConcat
  <2> HIDE DEF wf
  <2>4. Before(wf, s, Other) BY <2>1, <2>3 DEF Before
  <2>5. hand \in Seq(Trace!Spans) /\ Ordered(hand, Other) /\ ToSet(hand) = ToSet(wf) \cup ToSet(s)
    BY <2>1, <2>3, <2>4, OrderedConcat
  <2> HIDE DEF hand
  <2>6. Before(spanQueue, hand, Other)
    <3>1. \A x \in ToSet(hand), y \in ToSet(spanQueue) : <<x, y>> \in Other
      BY <2>1, <2>3, <2>5 DEF Before
    <3> QED BY <3>1 DEF Before, Other
  <2>7. all \in Seq(Trace!Spans) /\ Ordered(all, Other) /\ ToSet(all) = ToSet(spanQueue) \cup ToSet(hand)
    BY <2>1, <2>5, <2>6, OrderedConcat
  <2> HIDE DEF all
  <2>8. IsInjective(all) BY <2>7, TraceConstants, OrderedInjective
  <2>9. ToSet(all) = InHand BY <2>2, <2>3, <2>5, <2>7
  <2>10. all = spanQueue \o Trace!Taken BY DEF all, hand, wf, w, f, s, Trace!Taken
  <2>11. /\ 1 .. next - 1 = ToSet(all) \cup spansStored \cup spansLost \cup refused
         /\ ToSet(all) \cap (spansStored \cup spansLost \cup refused) = {}
         /\ spansStored \cap spansLost = {} /\ refused \cap (spansStored \cup spansLost) = {}
    BY <2>9, TraceTypes DEF SpansInv, Settled
  <2> QED BY <2>8, <2>10, <2>11, SameOperators DEF Trace!AccountedFor
<1> QED BY <1>1, <1>2

-----------------------------------------------------------------------------
(* The four together: each keeps its invariant, its own steps and the others'. *)

LEMMA WorkersInvariant == WorkersSpec => []WorkersInv
<1>1. workersInit => WorkersInv
  BY LogInit, TraceInit, RenewalInit, RedisInit DEF workersInit, WorkersInv
<1>2. WorkersInv /\ [workersNext]_workersVars => WorkersInv'
  <2> SUFFICES ASSUME WorkersInv, [workersNext]_workersVars PROVE WorkersInv' OBVIOUS
  <2> USE DEF workersNext, workersVars, LogActs, TraceActs, RenewalActs, RedisActs
  <2>1. LogInv /\ TraceInv /\ RenewalInv /\ RedisInv BY DEF WorkersInv
  <2>2. Next \/ UNCHANGED vars OBVIOUS
  <2>3. Trace!Next \/ UNCHANGED traceVars OBVIOUS
  <2>4. Renewal!Next \/ UNCHANGED renewalVars OBVIOUS
  <2>5. Redis!Next \/ UNCHANGED redisVars OBVIOUS
  <2>6. LogInv' BY <2>1, <2>2, LogStepKeeps, LogRests
  <2>7. TraceInv' BY <2>1, <2>3, TraceStepKeeps, TraceRests
  <2>8. RenewalInv' BY <2>1, <2>4, RenewalStepKeeps, RenewalRests
  <2>9. RedisInv' BY <2>1, <2>5, RedisStepKeeps, RedisRests
  <2> QED BY <2>6, <2>7, <2>8, <2>9 DEF WorkersInv
<1> QED BY <1>1, <1>2, PTL DEF WorkersSpec

\* The state of each of the four is well formed; a queue, a batch and a
\* prefetch buffer stay within their sizes (batch_size, queue_size,
\* queue_prefetch_count).
THEOREM WorkersTypeCorrect == WorkersSpec => []WorkersTypeOK
<1>1. WorkersInv => WorkersTypeOK
  BY LogSafe, TraceSafe, RenewalSafe, RedisSafe DEF WorkersInv, WorkersTypeOK
<1> QED BY <1>1, WorkersInvariant, PTL

\* Every log record and every exported span is in one place, stored once at
\* most: whatever the worker of mongo_log_exporter.py, and the worker,
\* force_flush() and shutdown() of mongo_trace_exporter.py do at the same time.
THEOREM RecordsAndSpansAccountedFor == WorkersSpec => []NothingVanishes
<1>1. WorkersInv => NothingVanishes BY LogSafe, TraceSafe DEF WorkersInv, NothingVanishes
<1> QED BY <1>1, WorkersInvariant, PTL

\* The records of one thread are stored in the order it logged them
\* (_background_worker, one queue and one batch).
THEOREM OrderKept == WorkersSpec => []RecordsStoredInOrder
<1>1. WorkersInv => RecordsStoredInOrder BY LogSafe DEF WorkersInv, RecordsStoredInOrder
<1> QED BY <1>1, WorkersInvariant, PTL

\* When force_flush() or shutdown() has returned, what was queued before is out
\* of the queue (_flush_remaining), though the worker may still run.
THEOREM FlushDrains == WorkersSpec => []SpansDrained
<1>1. WorkersInv => SpansDrained BY TraceSafe DEF WorkersInv, SpansDrained
<1> QED BY <1>1, WorkersInvariant, PTL

\* A message keeps its lock while it is handled, also when another handler with
\* its id ends (start_auto_renewal_task and the finally of message_handler).
THEOREM LockKept == WorkersSpec => []LockHeld
<1>1. WorkersInv => LockHeld BY RenewalSafe DEF WorkersInv, LockHeld
<1> QED BY <1>1, WorkersInvariant, PTL

\* A channel whose calls did not overlap has one listener at most, which the
\* table names (subscribe_async, unsubscribe_async, dispose_async).
THEOREM NoStrayListener == WorkersSpec => []ListenersAreKnown
<1>1. WorkersInv => ListenersAreKnown BY RedisSafe DEF WorkersInv, ListenersAreKnown
<1> QED BY <1>1, WorkersInvariant, PTL
=============================================================================
