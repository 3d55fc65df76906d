------------------------------ MODULE GrantChain ------------------------------
(***************************************************************************)
(* Whose authority a delegation grant carries (_delegation/                *)
(* grant_factory.py, grant_store.py, context.py): an API request sends a   *)
(* message with a grant for its caller; the worker that handles the        *)
(* message sends further ones, whose grants are chained from the one it    *)
(* holds.                                                                  *)
(*                                                                         *)
(* A message carries a SecurityContext, which becomes the context of its   *)
(* handler, and the id of its grant.  The sender may replace the           *)
(* SecurityContext (ConsumerMessage.context), not the grant.  A message    *)
(* may be handled again, by several workers at once, and by workers whose  *)
(* store has already lost the grant.                                       *)
(***************************************************************************)
EXTENDS Integers

CONSTANTS
    Tenants, Users, Organizations, Clients,
    Materials,      \* pairs of token_version and security_stamp
    None,           \* no user, no client, no material, no context, no record
    Tokens,         \* the validated tokens of the API requests
    Overrides,      \* values of ConsumerMessage.context
    Workers,
    MaxMessages     \* bound of the number of messages

Contexts == [tenant : Tenants, user : Users \cup {None},
             organization : Organizations, client : Clients \cup {None}]

UserRecords == [tenant : Tenants, user : Users, organization : Organizations,
                client : {None}, material : Materials]
ClientRecords == [tenant : Tenants, user : {None}, organization : Organizations,
                  client : Clients, material : {None}]

\* DelegationGrantRecord: "A grant names exactly one subject".
Records == UserRecords \cup ClientRecords

ASSUME ChainAssumption ==
    /\ None \notin Users \cup Clients \cup Materials \cup Contexts \cup Records \cup Tokens
    /\ Tokens \subseteq [caller : Contexts, material : Materials \cup {None}]
    /\ Overrides \subseteq Contexts
    /\ MaxMessages \in Nat

Messages == 1 .. MaxMessages

VARIABLES
    sent,       \* messages sent so far
    header,     \* the SecurityContext of each message
    record,     \* the record of its grant, kept when the grant is gone
    stored,     \* the messages whose grant is in the store
    root,       \* history: the token the message's chain began with
    stage,      \* where each worker stands
    job,        \* the message it handles, or 0
    held        \* what create_for_send_async read of the grant it holds

message == <<sent, header, record, root>>
worker == <<stage, job, held>>
vars == <<sent, header, record, stored, root, stage, job, held>>

TypeOK ==
    /\ sent \in 0 .. MaxMessages
    /\ header \in [Messages -> Contexts \cup {None}]
    /\ record \in [Messages -> Records \cup {None}]
    /\ stored \subseteq {m \in Messages : record[m] # None}
    /\ root \in [Messages -> Tokens \cup {None}]
    /\ stage \in [Workers -> {"idle", "handling", "sending"}]
    /\ job \in [Workers -> 0 .. MaxMessages]
    /\ held \in [Workers -> Records \cup {None}]

Init ==
    /\ sent = 0
    /\ header = [m \in Messages |-> None]
    /\ record = [m \in Messages |-> None]
    /\ stored = {}
    /\ root = [m \in Messages |-> None]
    /\ stage = [w \in Workers |-> "idle"]
    /\ job = [w \in Workers |-> 0]
    /\ held = [w \in Workers |-> None]

-----------------------------------------------------------------------------
(* Grants. *)

UserRecord(context, material) ==
    [tenant |-> context.tenant, user |-> context.user,
     organization |-> context.organization, client |-> None, material |-> material]

ClientRecord(tenant, client, organization) ==
    [tenant |-> tenant, user |-> None, organization |-> organization,
     client |-> client, material |-> None]

\* IAM compares both parts of the material, so a user grant needs them.
Redeemable(material) == material # None

\* The grant of an API request; the user of a token wins over its client.
Direct(token) ==
    LET caller == token.caller IN
    IF caller.user # None
    THEN IF Redeemable(token.material) THEN UserRecord(caller, token.material) ELSE None
    ELSE IF caller.client # None
         THEN ClientRecord(caller.tenant, caller.client, caller.organization)
         ELSE None

IsClientGrant(r) == r.user = None /\ r.client # None

FaultySameUser(r, context) ==
    ~IsClientGrant(r) /\ r.user = context.user

\* Compares the client of the user's token too, which a user grant leaves out.
FaultySameUserAndClient(r, context) ==
    /\ ~IsClientGrant(r)
    /\ r.user = context.user
    /\ r.organization = context.organization
    /\ r.client = context.client

\* _read_from_held_grant
SameUser(r, context) ==
    /\ ~IsClientGrant(r)
    /\ r.user = context.user
    /\ r.organization = context.organization

\* _create_for_client
SameClient(r, context) == IsClientGrant(r) /\ r.client = context.client

\* The grant of a message sent by a worker, from what it read of its own.
Chained(context, r) ==
    IF r = None \/ r.tenant # context.tenant THEN None
    ELSE IF context.user # None
         THEN IF SameUser(r, context) THEN UserRecord(context, r.material) ELSE None
         ELSE IF SameClient(r, context)
              THEN ClientRecord(context.tenant, r.client, r.organization)
              ELSE None

\* create_async and create_for_client_async; a failed write only costs the
\* message its grant.
Write(m, r) ==
    \/ /\ r # None
       /\ record' = [record EXCEPT ![m] = r]
       /\ stored' = stored \cup {m}
    \/ UNCHANGED <<record, stored>>

\* The next message, with the sender's context or another.
Send(context, r, origin) ==
    /\ sent < MaxMessages
    /\ sent' = sent + 1
    /\ \E sc \in Overrides \cup {context} : header' = [header EXCEPT ![sent'] = sc]
    /\ Write(sent', r)
    /\ root' = [root EXCEPT ![sent'] = origin]

ApiSend(token) ==
    /\ Send(token.caller, Direct(token), token)
    /\ UNCHANGED worker

\* The absolute TTL of a grant ends.
Expire(m) ==
    /\ m \in stored
    /\ stored' = stored \ {m}
    /\ UNCHANGED <<message, worker>>

-----------------------------------------------------------------------------
(* The worker. *)

Receive(w, m) ==
    /\ stage[w] = "idle"
    /\ m <= sent
    /\ stage' = [stage EXCEPT ![w] = "handling"]
    /\ job' = [job EXCEPT ![w] = m]
    /\ UNCHANGED <<message, stored, held>>

\* Of the task: a SecurityContext that is absent, unreadable or not
\* authenticated is one that names nobody.
Context(w) == header[job[w]]

\* The handler sends a message; the read of the held grant is an await, and
\* when it fails the send raises and the handler goes on without it.
ReadHeld(w) ==
    /\ stage[w] = "handling"
    /\ stage' = [stage EXCEPT ![w] = "sending"]
    /\ held' = [held EXCEPT ![w] = IF job[w] \in stored THEN record[job[w]] ELSE None]
    /\ UNCHANGED <<message, stored, job>>

WorkerSend(w) ==
    /\ stage[w] = "sending"
    /\ Send(Context(w), Chained(Context(w), held[w]), root[job[w]])
    /\ stage' = [stage EXCEPT ![w] = "handling"]
    /\ held' = [held EXCEPT ![w] = None]
    /\ UNCHANGED job

\* The run ends: a successful one deletes the grant, if the store answers.
Settle(w) ==
    /\ stage[w] = "handling"
    /\ stage' = [stage EXCEPT ![w] = "idle"]
    /\ job' = [job EXCEPT ![w] = 0]
    /\ stored' = stored \ {job[w]} \/ UNCHANGED stored
    /\ UNCHANGED <<message, held>>

Next ==
    \/ \E token \in Tokens : ApiSend(token)
    \/ \E m \in Messages : Expire(m) \/ \E w \in Workers : Receive(w, m)
    \/ \E w \in Workers : ReadHeld(w) \/ WorkerSend(w) \/ Settle(w)

Spec == Init /\ [][Next]_vars

-----------------------------------------------------------------------------
(* Properties. *)

\* What a grant that goes back to this token says.
RecordOf(token) ==
    LET caller == token.caller
        ofUser == caller.user # None
    IN [tenant |-> caller.tenant, user |-> caller.user, organization |-> caller.organization,
        client |-> IF ofUser THEN None ELSE caller.client,
        material |-> IF ofUser THEN token.material ELSE None]

\* A chain never changes hands: the grant of every message names the tenant,
\* the user or client, the organization and the version material of the token
\* its chain began with, whatever SecurityContexts were put on the messages in
\* between.
ChainKeepsSubject ==
    \A m \in Messages : record[m] # None => record[m] = RecordOf(root[m])

\* A chain nobody redirected goes on: a worker whose context is still that of
\* the first caller, and whose grant was there to be read, sends with a grant
\* of the same subject.
UnbrokenChainContinues ==
    \A w \in Workers :
        stage[w] = "sending" /\ held[w] # None /\ Context(w) = root[job[w]].caller
            => Chained(Context(w), held[w]) = RecordOf(root[job[w]])
=============================================================================
