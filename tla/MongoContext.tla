----------------------------- MODULE MongoContext -----------------------------
(***************************************************************************)
(* MongoDbContextProvider (_database/mongo_context.py): one MongoClient    *)
(* per connection and one handle per connection and database name, in two  *)
(* process-wide dictionaries that any thread may use.  The placement of a  *)
(* tenant is looked up on every call and may change.  Every step between   *)
(* two accesses to the dictionaries or the lock is one action.             *)
(***************************************************************************)
EXTENDS Naturals

CONSTANTS
    Threads,
    Connections,
    Names,          \* of databases; two clusters may use the same
    MaxCalls        \* bound of the calls each thread makes

NoKey == << >>
NoOne == "no one"

MongoAssumption == MaxCalls \in Nat /\ NoOne \notin Threads

Places == Connections \X Names

\* A handle, as the client it was made of: which of its connection's clients.
Handles == [connection : Connections, client : Nat]
NoHandle == [connection |-> NoOne, client |-> 0]

VARIABLES
    databases,      \* _databases
    clients,        \* how many clients of each connection were created
    known,          \* _clients: the connections in it
    holder,         \* who holds _lock
    at,             \* where each thread stands
    place,          \* the connection and name it looks for
    got,            \* the handle its last call returned
    calls           \* how many calls each has made

vars == <<databases, clients, known, holder, at, place, got, calls>>

\* The key of a handle.
Key(p) == p

Keys == {Key(p) : p \in Places}

TypeOK ==
    /\ databases \in [Keys -> Handles \cup {NoHandle}]
    /\ clients \in [Connections -> Nat]
    /\ known \subseteq Connections
    /\ holder \in Threads \cup {NoOne}
    /\ at \in [Threads -> {"idle", "looking", "locking", "locked", "creating", "storing"}]
    /\ place \in [Threads -> Places \cup {NoKey}]
    /\ got \in [Threads -> Handles \cup {NoHandle}]
    /\ calls \in [Threads -> 0 .. MaxCalls]

Init ==
    /\ databases = [k \in Keys |-> NoHandle]
    /\ clients = [n \in Connections |-> 0]
    /\ known = {}
    /\ holder = NoOne
    /\ at = [t \in Threads |-> "idle"]
    /\ place = [t \in Threads |-> NoKey]
    /\ got = [t \in Threads |-> NoHandle]
    /\ calls = [t \in Threads |-> 0]

Goto(t, where) == at' = [at EXCEPT ![t] = where]
Wanted(t) == databases[Key(place[t])]

\* get_database: the tenant's placement is whatever the tenant service says
\* now.
Call(t) ==
    /\ at[t] = "idle"
    /\ calls[t] < MaxCalls
    /\ calls' = [calls EXCEPT ![t] = @ + 1]
    /\ \E p \in Places : place' = [place EXCEPT ![t] = p]
    /\ got' = [got EXCEPT ![t] = NoHandle]
    /\ Goto(t, "looking")
    /\ UNCHANGED <<databases, clients, known, holder>>

\* The lookup without the lock.
Look(t) ==
    /\ at[t] = "looking"
    /\ \/ /\ Wanted(t) # NoHandle
          /\ got' = [got EXCEPT ![t] = Wanted(t)]
          /\ Goto(t, "idle")
       \/ Wanted(t) = NoHandle /\ Goto(t, "locking") /\ UNCHANGED got
    /\ UNCHANGED <<databases, clients, known, holder, place, calls>>

FaultyFree == TRUE

Free == holder = NoOne

Lock(t) ==
    /\ at[t] = "locking"
    /\ Free
    /\ holder' = t
    /\ Goto(t, "locked")
    /\ UNCHANGED <<databases, clients, known, place, got, calls>>

Unlock(t) == holder' = NoOne /\ Goto(t, "idle")

\* The second lookup finds what another thread stored.
Found(t) ==
    /\ at[t] = "locked"
    /\ Wanted(t) # NoHandle
    /\ got' = [got EXCEPT ![t] = Wanted(t)]
    /\ Unlock(t)
    /\ UNCHANGED <<databases, clients, known, place, calls>>

\* Nor does the second lookup: _get_client looks for the connection's client.
Missed(t) ==
    /\ at[t] = "locked"
    /\ Wanted(t) = NoHandle
    /\ Goto(t, IF place[t][1] \in known THEN "storing" ELSE "creating")
    /\ UNCHANGED <<databases, clients, known, holder, place, got, calls>>

Create(t) ==
    /\ at[t] = "creating"
    /\ clients' = [clients EXCEPT ![place[t][1]] = @ + 1]
    /\ known' = known \cup {place[t][1]}
    /\ Goto(t, "storing")
    /\ UNCHANGED <<databases, holder, place, got, calls>>

\* MongoClient raises: the connection string cannot be read.
CreateFails(t) ==
    /\ at[t] = "creating"
    /\ Unlock(t)
    /\ UNCHANGED <<databases, clients, known, place, got, calls>>

\* The handle is made of the connection's latest client and stored.
Store(t) ==
    /\ at[t] = "storing"
    /\ LET n == place[t][1]
           made == [connection |-> n, client |-> clients[n]] IN
          /\ databases' = [databases EXCEPT ![Key(place[t])] = made]
          /\ got' = [got EXCEPT ![t] = made]
    /\ Unlock(t)
    /\ UNCHANGED <<clients, known, place, calls>>

Step(t) ==
    \/ Look(t) \/ Lock(t) \/ Found(t) \/ Missed(t)
    \/ Create(t) \/ CreateFails(t) \/ Store(t)

Next == \E t \in Threads : Call(t) \/ Step(t)

Spec == Init /\ [][Next]_vars

-----------------------------------------------------------------------------
(* Properties. *)

\* No connection has two clients, and no call is handed a handle of another
\* cluster than its tenant's.
OneClient ==
    /\ \A n \in Connections : clients[n] <= 1
    /\ \A t \in Threads :
          got[t] # NoHandle => got[t].connection = place[t][1]

\* Every call returns or raises.
Waits(t) == at[t] # "idle"
EveryCallReturns == \A t \in Threads : Waits(t) ~> ~Waits(t)
=============================================================================
