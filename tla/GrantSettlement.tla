--------------------------- MODULE GrantSettlement ---------------------------
(***************************************************************************)
(* What both message workers promise about a delegation grant (README,     *)
(* "Operational notes"; the comments before _release_delegation_grant in   *)
(* both workers): business op -> ACK -> DEL.  A message is one grant and   *)
(* one or more copies at the broker; the grant is deleted only after some  *)
(* copy's business operation succeeded and that copy was settled.  Until   *)
(* then only its absolute TTL ends it.                                     *)
(***************************************************************************)
CONSTANTS
    Messages,       \* logical sends, each with a grant of its own
    Copies,         \* what the broker delivers
    MessageOf       \* function: the message each copy is a copy of

VARIABLES
    grant,      \* the grant of each message in the store
    work        \* how far the processing of each copy has come

vars == <<grant, work>>

TypeOK ==
    /\ grant \in [Messages -> {"none", "live", "deleted", "expired"}]
    /\ work \in [Copies -> {"pending", "done", "settledDone", "settledFailed"}]

Init ==
    /\ grant = [m \in Messages |-> "none"]
    /\ work = [c \in Copies |-> "pending"]

Create(m) ==
    /\ grant[m] = "none"
    /\ grant' = [grant EXCEPT ![m] = "live"]
    /\ UNCHANGED work

\* Also a later run of a copy whose earlier run failed.
OpSucceeds(c) ==
    /\ work[c] \in {"pending", "settledFailed"}
    /\ work' = [work EXCEPT ![c] = "done"]
    /\ UNCHANGED grant

Settle(c) ==
    /\ \/ work[c] = "done" /\ work' = [work EXCEPT ![c] = "settledDone"]
       \/ work[c] = "pending" /\ work' = [work EXCEPT ![c] = "settledFailed"]
    /\ UNCHANGED grant

Earned(m) == \E c \in Copies : MessageOf[c] = m /\ work[c] = "settledDone"

Delete(m) ==
    /\ grant[m] = "live"
    /\ Earned(m)
    /\ grant' = [grant EXCEPT ![m] = "deleted"]
    /\ UNCHANGED work

Expire(m) ==
    /\ grant[m] = "live"
    /\ grant' = [grant EXCEPT ![m] = "expired"]
    /\ UNCHANGED work

Next ==
    \/ \E m \in Messages : Create(m) \/ Delete(m) \/ Expire(m)
    \/ \E c \in Copies : OpSucceeds(c) \/ Settle(c)

Spec == Init /\ [][Next]_vars

\* A deleted grant was earned by a copy that ran to success and was settled.
DeletedIsEarned == \A m \in Messages : grant[m] = "deleted" => Earned(m)
=============================================================================
