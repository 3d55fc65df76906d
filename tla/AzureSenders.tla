----------------------------- MODULE AzureSenders -----------------------------
(***************************************************************************)
(* The senders of AzureMessageClient (_message/azure/                      *)
(* azure_message_client.py): one per destination, shared by all callers    *)
(* under the destination's asyncio.Lock, whose waiters form a line with    *)
(* the holder at its head.  A send that fails replaces the sender and is   *)
(* sent once more.                                                         *)
(***************************************************************************)
EXTENDS Naturals, Sequences, SequencesExt

CONSTANTS
    Calls,
    DestinationOf,  \* function: where each call sends to
    Configured,     \* the destinations that get a sender at start-up
    MaxCancels      \* bound of the cancellations

SendersAssumption == MaxCancels \in Nat

Destinations == {DestinationOf[c] : c \in Calls}
None == 0
Numbers == Nat

VARIABLES
    sender,     \* _senders: the number of each destination's sender
    made,       \* how many were built for each
    broken,     \* senders a send failed or was cut off in
    line,       \* _sender_locks
    at,         \* where each call stands
    uses,       \* the sender it is inside of
    closed,     \* the client is closed
    cancels

vars == <<sender, made, broken, line, at, uses, closed, cancels>>

Places == {"called", "queueing", "sending", "replacing", "retrying", "sent", "raised",
           "cancelled"}

TypeOK ==
    /\ sender \in [Destinations -> Numbers]
    /\ made \in [Destinations -> Numbers]
    /\ broken \subseteq Destinations \X Numbers
    /\ line \in [Destinations -> Seq(Calls)]
    /\ at \in [Calls -> Places]
    /\ uses \in [Calls -> Numbers]
    /\ closed \in BOOLEAN
    /\ cancels \in 0 .. MaxCancels

Init ==
    /\ made = [d \in Destinations |-> IF d \in Configured THEN 1 ELSE 0]
    /\ sender = made
    /\ broken = {}
    /\ line = [d \in Destinations |-> <<>>]
    /\ at = [c \in Calls |-> "called"]
    /\ uses = [c \in Calls |-> None]
    /\ closed = FALSE
    /\ cancels = 0

To(c) == DestinationOf[c]
Goto(c, place) == at' = [at EXCEPT ![c] = place]

Ask(c) ==
    /\ at[c] = "called"
    /\ line' = [line EXCEPT ![To(c)] = Append(@, c)]
    /\ Goto(c, "queueing")
    /\ UNCHANGED <<sender, made, broken, uses, closed, cancels>>

FaultyMine(c) == TRUE

\* The lock is this call's.
Mine(c) == Head(line[To(c)]) = c

\* _get_sender, and the call enters what it returns.
EnterSender(c, place) ==
    LET d == To(c)
        n == IF sender[d] = None THEN made[d] + 1 ELSE sender[d] IN
    /\ made' = [made EXCEPT ![d] = IF sender[d] = None THEN n ELSE @]
    /\ sender' = [sender EXCEPT ![d] = n]
    /\ uses' = [uses EXCEPT ![c] = n]
    /\ Goto(c, place)

Send(c) ==
    /\ at[c] = "queueing" /\ Mine(c)
    /\ EnterSender(c, "sending")
    /\ UNCHANGED <<broken, line, closed, cancels>>

Release(c) ==
    /\ line' = [line EXCEPT ![To(c)] = RemoveFirst(@, c)]
    /\ uses' = [uses EXCEPT ![c] = None]

Sent(c) ==
    /\ at[c] \in {"sending", "retrying"}
    /\ ~closed
    /\ Goto(c, "sent")
    /\ Release(c)
    /\ UNCHANGED <<sender, made, broken, closed, cancels>>

\* The failed sender leaves the table and is closed, which may fail too.
SendFails(c) ==
    /\ at[c] = "sending"
    /\ broken' = broken \cup {<<To(c), uses[c]>>}
    /\ sender' = [sender EXCEPT ![To(c)] = None]
    /\ Goto(c, "replacing")
    /\ UNCHANGED <<made, line, uses, closed, cancels>>

Retry(c) ==
    /\ at[c] = "replacing"
    /\ EnterSender(c, "retrying")
    /\ UNCHANGED <<broken, line, closed, cancels>>

\* The second failure is the caller's; the sender stays.
RetryFails(c) ==
    /\ at[c] = "retrying"
    /\ broken' = broken \cup {<<To(c), uses[c]>>}
    /\ Goto(c, "raised")
    /\ Release(c)
    /\ UNCHANGED <<sender, made, closed, cancels>>

\* CancelledError is no Exception: the sender stays as the send left it.
Cancel(c) ==
    /\ at[c] \in {"queueing", "sending", "replacing", "retrying"}
    /\ cancels < MaxCancels
    /\ cancels' = cancels + 1
    /\ broken' = IF uses[c] = None THEN broken ELSE broken \cup {<<To(c), uses[c]>>}
    /\ Goto(c, "cancelled")
    /\ Release(c)
    /\ UNCHANGED <<sender, made, closed>>

\* close(): the senders fail from now on.
Close ==
    /\ ~closed
    /\ closed' = TRUE
    /\ UNCHANGED <<sender, made, broken, line, at, uses, cancels>>

Step(c) == Ask(c) \/ Send(c) \/ Sent(c) \/ SendFails(c) \/ Retry(c) \/ RetryFails(c)

Next ==
    \/ \E c \in Calls : Step(c) \/ Cancel(c)
    \/ Close

Spec == Init /\ [][Next]_vars

-----------------------------------------------------------------------------
(* Properties. *)

Inside(c) == uses[c] # None

\* "Only one send is ever in a sender", also while another is closed and
\* rebuilt; and a message is sent the second time through a sender in which
\* no send has failed.
OneInside ==
    /\ \A c, d \in Calls :
          Inside(c) /\ Inside(d) /\ To(c) = To(d) /\ uses[c] = uses[d] => c = d
    /\ \A c \in Calls : at[c] = "retrying" => <<To(c), uses[c]>> \notin broken

\* Every send returns or raises.
Waits(c) == at[c] \notin {"sent", "raised", "cancelled"}
EveryCallReturns == \A c \in Calls : Waits(c) ~> ~Waits(c)
=============================================================================
