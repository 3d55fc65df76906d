--------------------------- MODULE SharedResources ---------------------------
(***************************************************************************)
(* What the calls of one process share and build on first use: token       *)
(* endpoints, Azure senders, the RabbitMQ connection, MongoDB clients and  *)
(* cached certificates.  These components share no state, so they are      *)
(* checked as alternatives: part names the one that acts in a behaviour.   *)
(***************************************************************************)
EXTENDS Naturals, Sequences, SequencesExt

CONSTANTS
    Calls,
    Subject,        \* function: the tenant or destination of each call
    Configured,     \* the destinations that get a sender at start-up
    MaxCancels, MaxCloses,
    Connections, Names, MaxCalls,
    Readers, MaxTime, Day, ValidDays, Least, Window, MaxFetch

VARIABLES
    part,
    discovered, resolverLine, resolverAt, fallback, resolverCancels,
    sender, sendersMade, broken, senderLines, senderAt, uses, sendersClosed, sendCancels,
    initialized, initLine, connection, channel, open, muted, connectionsMade, connectorAt,
    closing, target, initCancels, closes, abandoned,
    databases, clients, known, holder, threadAt, place, got, calls,
    kind, now, rotated, cached, until, readerAt, bytes, issued, began, ttl

resolverVars == <<discovered, resolverLine, resolverAt, fallback, resolverCancels>>
sendersVars == <<sender, sendersMade, broken, senderLines, senderAt, uses, sendersClosed,
                 sendCancels>>
rabbitVars == <<initialized, initLine, connection, channel, open, muted, connectionsMade,
                connectorAt, closing, target, initCancels, closes, abandoned>>
mongoVars == <<databases, clients, known, holder, threadAt, place, got, calls>>
certificateVars == <<kind, now, rotated, cached, until, readerAt, bytes, issued, began, ttl>>

Resolver == INSTANCE EndpointResolver
            WITH TenantOf <- Subject, line <- resolverLine, at <- resolverAt,
                 cancels <- resolverCancels

Senders == INSTANCE AzureSenders
           WITH DestinationOf <- Subject, made <- sendersMade,
                line <- senderLines, at <- senderAt, closed <- sendersClosed,
                cancels <- sendCancels

Rabbit == INSTANCE RabbitConnection
          WITH line <- initLine, made <- connectionsMade, at <- connectorAt,
               cancels <- initCancels

Mongo == INSTANCE MongoContext WITH Threads <- Calls, at <- threadAt

Certificates == INSTANCE CertificateCache WITH at <- readerAt

ASSUME SharedAssumption ==
    /\ Resolver!ResolverAssumption
    /\ Senders!SendersAssumption
    /\ Rabbit!ConnectionAssumption
    /\ Mongo!MongoAssumption
    /\ Certificates!CertificateAssumption

vars == <<part, resolverVars, sendersVars, rabbitVars, mongoVars, certificateVars>>

Init ==
    /\ part \in {"resolver", "senders", "rabbit", "mongo", "certificates"}
    /\ Resolver!Init /\ Senders!Init /\ Rabbit!Init /\ Mongo!Init /\ Certificates!Init
    /\ part # "resolver" => fallback
    /\ part # "certificates" => kind = "tenant"

ResolverActs ==
    /\ part = "resolver" /\ Resolver!Next
    /\ UNCHANGED <<part, sendersVars, rabbitVars, mongoVars, certificateVars>>

SendersActs ==
    /\ part = "senders" /\ Senders!Next
    /\ UNCHANGED <<part, resolverVars, rabbitVars, mongoVars, certificateVars>>

RabbitActs ==
    /\ part = "rabbit" /\ Rabbit!Next
    /\ UNCHANGED <<part, resolverVars, sendersVars, mongoVars, certificateVars>>

MongoActs ==
    /\ part = "mongo" /\ Mongo!Next
    /\ UNCHANGED <<part, resolverVars, sendersVars, rabbitVars, certificateVars>>

CertificatesActs ==
    /\ part = "certificates" /\ Certificates!Next
    /\ UNCHANGED <<part, resolverVars, sendersVars, rabbitVars, mongoVars>>

Next == ResolverActs \/ SendersActs \/ RabbitActs \/ MongoActs \/ CertificatesActs

\* A call that can go on does; what it awaits answers, fails or times out.
Fairness ==
    \A c \in Calls :
        /\ WF_resolverVars(part = "resolver" /\ Resolver!Step(c))
        /\ WF_sendersVars(part = "senders" /\ Senders!Step(c))
        /\ WF_rabbitVars(part = "rabbit" /\ Rabbit!Step(c))
        /\ WF_mongoVars(part = "mongo" /\ Mongo!Step(c))

Spec == Init /\ [][Next]_vars /\ Fairness

-----------------------------------------------------------------------------
(* The properties of the five, each while it is the one that acts.           *)

\* The state of each component stays well formed.
TypeOK ==
    /\ part = "resolver" => Resolver!TypeOK
    /\ part = "senders" => Senders!TypeOK
    /\ part = "rabbit" => Rabbit!TypeOK
    /\ part = "mongo" => Mongo!TypeOK
    /\ part = "certificates" => Certificates!TypeOK

\* Discoveries run one at a time, and none for a tenant that is known.
NoRediscovery == part = "resolver" => Resolver!NoRediscovery

\* Only one send is ever in a sender, and a retry goes out through a sound one.
OneInside == part = "senders" => Senders!OneInside

\* One connection is open, and an initialised client has an open channel.
OneConnection == part = "rabbit" => Rabbit!OneConnection

\* One client per connection, and no handle of another cluster.
OneClient == part = "mongo" => Mongo!OneClient

\* A rotated certificate is noticed in time.
CertificateLag == part = "certificates" => Certificates!CertificateLag

Waits(c) ==
    \/ part = "resolver" /\ Resolver!Waits(c)
    \/ part = "senders" /\ Senders!Waits(c)
    \/ part = "rabbit" /\ Rabbit!Waits(c)
    \/ part = "mongo" /\ Mongo!Waits(c)

\* Every call that waits for a lock, a discovery, a send or a connection
\* returns or raises.
EveryCallReturns == \A c \in Calls : Waits(c) ~> ~Waits(c)
=============================================================================
