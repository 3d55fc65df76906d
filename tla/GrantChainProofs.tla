---------------------------- MODULE GrantChainProofs ----------------------------
(* What GrantChain guarantees for every set of callers, SecurityContexts and *)
(* workers and every number of messages: a chained grant says what the held  *)
(* one says, so no chain changes hands, and none is cut that nobody          *)
(* redirected.                                                               *)
EXTENDS GrantChain, TLAPS

LEMMA RecordFields ==
    /\ \A r \in UserRecords : r.user # None /\ ~IsClientGrant(r)
    /\ \A r \in ClientRecords : IsClientGrant(r)
BY ChainAssumption DEF UserRecords, ClientRecords, IsClientGrant

\* A chained grant says, field by field, what the held grant says.
LEMMA ChainedIsHeld ==
    ASSUME NEW context \in Contexts, NEW r \in Records
    PROVE  Chained(context, r) \in {r, None}
<1>1. CASE r \in UserRecords
  <2>1. ~IsClientGrant(r)
    BY <1>1, RecordFields
  <2>2. CASE r.tenant = context.tenant /\ context.user # None /\ SameUser(r, context)
    <3>1. r = UserRecord(context, r.material)
      BY <1>1, <2>2 DEF SameUser, UserRecord, UserRecords
    <3> QED
      BY <2>2, <3>1 DEF Chained
  <2>3. CASE ~(r.tenant = context.tenant /\ context.user # None /\ SameUser(r, context))
    BY <2>1, <2>3 DEF Chained, SameClient
  <2> QED
    BY <2>2, <2>3
<1>2. CASE r \in ClientRecords
  <2>1. IsClientGrant(r)
    BY <1>2, RecordFields
  <2>2. CASE r.tenant = context.tenant /\ context.user = None /\ SameClient(r, context)
    <3>1. r = ClientRecord(context.tenant, r.client, r.organization)
      BY <1>2, <2>2 DEF ClientRecord, ClientRecords
    <3> QED
      BY <2>2, <3>1 DEF Chained
  <2>3. CASE ~(r.tenant = context.tenant /\ context.user = None /\ SameClient(r, context))
    BY <2>1, <2>3 DEF Chained, SameUser
  <2> QED
    BY <2>2, <2>3
<1> QED
  BY <1>1, <1>2 DEF Records

\* The grant of an API request is that of its token.
LEMMA DirectIsToken ==
    ASSUME NEW token \in Tokens, Direct(token) # None
    PROVE  Direct(token) \in Records /\ Direct(token) = RecordOf(token)
<1>1. token.caller \in Contexts /\ token.material \in Materials \cup {None}
  BY ChainAssumption
<1>2. CASE token.caller.user # None
  BY <1>1, <1>2 DEF Direct, Redeemable, UserRecord, RecordOf, Records, UserRecords, Contexts
<1>3. CASE token.caller.user = None
  BY <1>1, <1>3 DEF Direct, ClientRecord, RecordOf, Records, ClientRecords, Contexts
<1> QED
  BY <1>2, <1>3

-----------------------------------------------------------------------------
(* The invariant. *)

\* What was sent has a context and a root; what was not has no grant yet.
SentInv ==
    \A m \in Messages :
        /\ m <= sent => header[m] \in Contexts /\ root[m] \in Tokens
        /\ m > sent => record[m] = None

\* A worker handles a message that was sent, and what it read of the held
\* grant is that grant's record.
WorkerInv ==
    \A w \in Workers :
        /\ stage[w] # "idle" => job[w] \in Messages /\ job[w] <= sent
        /\ held[w] # None => stage[w] = "sending" /\ held[w] = record[job[w]]

IInv == TypeOK /\ SentInv /\ WorkerInv /\ ChainKeepsSubject

LEMMA NoneApart == None \notin Records /\ None \notin Contexts /\ None \notin Tokens
BY ChainAssumption

\* Sending a message with no grant, or with one that says what its root says.
LEMMA SendStep ==
    ASSUME IInv, NEW context \in Contexts, NEW r, NEW origin \in Tokens,
           r # None => r \in Records /\ r = RecordOf(origin),
           Send(context, r, origin)
    PROVE  /\ sent' \in Messages /\ sent' = sent + 1
           /\ header' \in [Messages -> Contexts \cup {None}]
           /\ record' \in [Messages -> Records \cup {None}]
           /\ stored' \subseteq {m \in Messages : record'[m] # None}
           /\ root' \in [Messages -> Tokens \cup {None}]
           /\ SentInv' /\ ChainKeepsSubject'
           /\ \A m \in Messages : m <= sent => record'[m] = record[m]
<1>1. sent' \in Messages /\ sent' = sent + 1 /\ sent \in Nat
  BY ChainAssumption DEF IInv, TypeOK, Send, Messages
<1>2. PICK sc \in Contexts : header' = [header EXCEPT ![sent'] = sc]
  BY ChainAssumption DEF Send
<1>3. root' = [root EXCEPT ![sent'] = origin]
  BY DEF Send
<1>4. record[sent'] = None
  BY <1>1 DEF IInv, SentInv, Messages
<1>5. /\ record' \in [Messages -> Records \cup {None}]
      /\ record'[sent'] # None => record'[sent'] = RecordOf(origin)
      /\ \A m \in Messages : m # sent' => record'[m] = record[m]
      /\ stored' \subseteq {m \in Messages : record'[m] # None}
  <2>1. CASE UNCHANGED <<record, stored>>
    BY <1>4, <2>1 DEF IInv, TypeOK
  <2>2. CASE /\ r # None
             /\ record' = [record EXCEPT ![sent'] = r]
             /\ stored' = stored \cup {sent'}
    BY <1>1, <2>2 DEF IInv, TypeOK
  <2> QED
    BY <2>1, <2>2 DEF Send, Write
<1>6. /\ header' \in [Messages -> Contexts \cup {None}]
      /\ root' \in [Messages -> Tokens \cup {None}]
  BY <1>1, <1>2, <1>3 DEF IInv, TypeOK
<1>7. SentInv'
  <2> SUFFICES ASSUME NEW m \in Messages
               PROVE  /\ m <= sent' => header'[m] \in Contexts /\ root'[m] \in Tokens
                      /\ m > sent' => record'[m] = None
    BY DEF SentInv
  <2>1. CASE m = sent'
    BY <1>1, <1>2, <1>3, <2>1 DEF IInv, TypeOK, Messages
  <2>2. CASE m # sent'
    <3>1. header'[m] = header[m] /\ root'[m] = root[m] /\ record'[m] = record[m]
      BY <1>2, <1>3, <1>5, <2>2 DEF IInv, TypeOK
    <3>2. (m <= sent' => m <= sent) /\ (m > sent' => m > sent)
      BY <1>1, <2>2 DEF Messages
    <3> QED
      BY <3>1, <3>2 DEF IInv, SentInv
  <2> QED
    BY <2>1, <2>2
<1>8. ChainKeepsSubject'
  <2> SUFFICES ASSUME NEW m \in Messages, record'[m] # None
               PROVE  record'[m] = RecordOf(root'[m])
    BY DEF ChainKeepsSubject, RecordOf
  <2>1. CASE m = sent'
    BY <1>1, <1>3, <1>5, <2>1 DEF IInv, TypeOK
  <2>2. CASE m # sent'
    BY <1>3, <1>5, <2>2 DEF IInv, TypeOK, ChainKeepsSubject
  <2> QED
    BY <2>1, <2>2
<1>9. \A m \in Messages : m <= sent => record'[m] = record[m]
  BY <1>1, <1>5 DEF Messages
<1> QED
  BY <1>1, <1>5, <1>6, <1>7, <1>8, <1>9

LEMMA InitIInv == Init => IInv
BY ChainAssumption DEF Init, IInv, TypeOK, SentInv, WorkerInv, ChainKeepsSubject, Messages

LEMMA IInvStep == IInv /\ [Next]_vars => IInv'
<1> SUFFICES ASSUME IInv, [Next]_vars PROVE IInv'
  OBVIOUS
<1> USE NoneApart
<1>1. ASSUME NEW token \in Tokens, ApiSend(token) PROVE IInv'
  <2>1. token.caller \in Contexts
    BY ChainAssumption
  <2>2. Send(token.caller, Direct(token), token) /\ UNCHANGED <<stage, job, held>>
    BY <1>1 DEF ApiSend, worker
  <2>3. /\ sent' \in Messages /\ sent' = sent + 1
        /\ header' \in [Messages -> Contexts \cup {None}]
        /\ record' \in [Messages -> Records \cup {None}]
        /\ stored' \subseteq {m \in Messages : record'[m] # None}
        /\ root' \in [Messages -> Tokens \cup {None}]
        /\ SentInv' /\ ChainKeepsSubject'
        /\ \A m \in Messages : m <= sent => record'[m] = record[m]
    BY <2>1, <2>2, DirectIsToken, SendStep
  <2>4. TypeOK'
    BY <2>2, <2>3 DEF IInv, TypeOK, Messages
  <2>5. WorkerInv'
    BY <2>2, <2>3 DEF IInv, TypeOK, WorkerInv, Messages
  <2> QED
    BY <2>3, <2>4, <2>5 DEF IInv
<1>2. ASSUME NEW m \in Messages, Expire(m) PROVE IInv'
  <2>1. UNCHANGED <<sent, header, record, root, stage, job, held>> /\ stored' \subseteq stored
    BY <1>2 DEF Expire, message, worker
  <2> QED
    BY <2>1 DEF IInv, TypeOK, SentInv, WorkerInv, ChainKeepsSubject, RecordOf
<1>3. ASSUME NEW w \in Workers,
             ReadHeld(w) \/ Settle(w) \/ \E m \in Messages : Receive(w, m)
      PROVE  IInv'
  <2>1. UNCHANGED <<sent, header, record, root>> /\ stored' \subseteq stored
    BY <1>3 DEF ReadHeld, Settle, Receive, message
  <2>2. SentInv' /\ ChainKeepsSubject'
    BY <2>1 DEF IInv, SentInv, ChainKeepsSubject, RecordOf
  <2>3. CASE ReadHeld(w)
    <3>1. job[w] \in Messages /\ UNCHANGED job
      BY <2>3 DEF ReadHeld, IInv, WorkerInv
    <3>2. /\ stage' = [stage EXCEPT ![w] = "sending"]
          /\ held' = [held EXCEPT ![w] = record[job[w]]] \/ held' = [held EXCEPT ![w] = None]
      BY <2>3 DEF ReadHeld
    <3> QED
      BY <2>1, <2>2, <2>3, <3>1, <3>2 DEF ReadHeld, IInv, TypeOK, WorkerInv
  <2>4. CASE Settle(w)
    <3>1. 0 \in 0 .. MaxMessages
      BY ChainAssumption
    <3> QED
      BY <2>1, <2>2, <2>4, <3>1 DEF Settle, IInv, TypeOK, WorkerInv
  <2>5. ASSUME NEW m \in Messages, Receive(w, m) PROVE IInv'
    <3>1. m \in 0 .. MaxMessages
      BY ChainAssumption DEF Messages
    <3> QED
      BY <2>1, <2>2, <2>5, <3>1 DEF Receive, IInv, TypeOK, WorkerInv
  <2> QED
    BY <1>3, <2>3, <2>4, <2>5
<1>4. ASSUME NEW w \in Workers, WorkerSend(w) PROVE IInv'
  <2> DEFINE m == job[w]
             r == Chained(Context(w), held[w])
  <2>1. m \in Messages /\ m <= sent /\ Context(w) \in Contexts /\ root[m] \in Tokens
    BY <1>4 DEF WorkerSend, Context, IInv, WorkerInv, SentInv
  <2>2. r # None => r \in Records /\ r = RecordOf(root[m])
    <3>1. CASE held[w] = None
      BY <3>1 DEF Chained
    <3>2. CASE held[w] # None
      <4>1. held[w] \in Records /\ held[w] = RecordOf(root[m])
        BY <2>1, <3>2 DEF IInv, TypeOK, WorkerInv, ChainKeepsSubject
      <4> QED
        BY <2>1, <4>1, ChainedIsHeld
    <3> QED
      BY <3>1, <3>2
  <2>3. /\ Send(Context(w), r, root[m])
        /\ stage' = [stage EXCEPT ![w] = "handling"]
        /\ held' = [held EXCEPT ![w] = None]
        /\ UNCHANGED job
    BY <1>4 DEF WorkerSend
  <2> HIDE DEF r
  <2>4. /\ sent' \in Messages /\ sent' = sent + 1
        /\ header' \in [Messages -> Contexts \cup {None}]
        /\ record' \in [Messages -> Records \cup {None}]
        /\ stored' \subseteq {n \in Messages : record'[n] # None}
        /\ root' \in [Messages -> Tokens \cup {None}]
        /\ SentInv' /\ ChainKeepsSubject'
        /\ \A n \in Messages : n <= sent => record'[n] = record[n]
    BY <2>1, <2>2, <2>3, SendStep
  <2>5. TypeOK'
    BY <2>3, <2>4 DEF IInv, TypeOK, Messages
  <2>6. WorkerInv'
    BY <2>1, <2>3, <2>4 DEF IInv, TypeOK, WorkerInv, Messages
  <2> QED
    BY <2>4, <2>5, <2>6 DEF IInv
<1>5. CASE UNCHANGED vars
  BY <1>5 DEF vars, IInv, TypeOK, SentInv, WorkerInv, ChainKeepsSubject, RecordOf
<1> QED
  BY <1>1, <1>2, <1>3, <1>4, <1>5 DEF Next

LEMMA IInvCorrect == Spec => []IInv
BY InitIInv, IInvStep, PTL DEF Spec

\* Every grant names one subject, a user with version material or a client.
THEOREM TypeCorrect == Spec => []TypeOK
<1>1. IInv => TypeOK
  BY DEF IInv
<1> QED
  BY <1>1, IInvCorrect, PTL

\* The grant of every message, however long its chain, names the tenant, the
\* subject, the organization and the version material of the token the chain
\* began with.
THEOREM ChainKeeps == Spec => []ChainKeepsSubject
<1>1. IInv => ChainKeepsSubject
  BY DEF IInv
<1> QED
  BY <1>1, IInvCorrect, PTL

\* A worker whose context is still that of the first caller and which could
\* read its grant sends with a grant of the same subject.
THEOREM ChainContinues == Spec => []UnbrokenChainContinues
<1>1. IInv => UnbrokenChainContinues
  <2> SUFFICES ASSUME IInv, NEW w \in Workers, stage[w] = "sending", held[w] # None,
                      Context(w) = root[job[w]].caller
               PROVE  Chained(Context(w), held[w]) = RecordOf(root[job[w]])
    BY DEF UnbrokenChainContinues
  <2> DEFINE token == root[job[w]]
             r == held[w]
  <2>1. token \in Tokens /\ r \in Records /\ r = RecordOf(token) /\ Context(w) \in Contexts
    BY DEF IInv, TypeOK, WorkerInv, SentInv, ChainKeepsSubject, Context
  <2>2. Context(w) = token.caller
    OBVIOUS
  <2> HIDE DEF token, r
  <2>3. CASE token.caller.user # None
    <3>1. r.user # None /\ SameUser(r, token.caller) /\ r.tenant = token.caller.tenant
      BY <2>1, <2>3 DEF RecordOf, SameUser, IsClientGrant
    <3>2. UserRecord(token.caller, r.material) = r
      BY <2>1, <2>3 DEF RecordOf, UserRecord
    <3>3. Chained(token.caller, r) = r
      BY <2>1, <2>3, <3>1, <3>2, NoneApart DEF Chained
    <3> QED
      BY <2>1, <2>2, <3>3 DEF token, r
  <2>4. CASE token.caller.user = None
    <3>1. r.user = None /\ r.tenant = token.caller.tenant /\ r.client = token.caller.client
      BY <2>1, <2>4 DEF RecordOf
    <3>2. r \in ClientRecords
      BY <2>1, <3>1, RecordFields DEF Records
    <3>3. SameClient(r, token.caller)
      BY <3>1, <3>2, RecordFields DEF SameClient
    <3>4. ClientRecord(token.caller.tenant, r.client, r.organization) = r
      BY <2>1, <2>4 DEF RecordOf, ClientRecord
    <3>5. Chained(token.caller, r) = r
      BY <2>1, <2>4, <3>1, <3>3, <3>4, NoneApart DEF Chained
    <3> QED
      BY <2>1, <2>2, <3>5 DEF token, r
  <2> QED
    BY <2>3, <2>4
<1> QED
  BY <1>1, IInvCorrect, PTL
=============================================================================
