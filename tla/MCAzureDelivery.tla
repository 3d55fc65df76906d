--------------------------- MODULE MCAzureDelivery ---------------------------
(* A small instance of AzureDelivery. *)
EXTENDS AzureDelivery

CONSTANTS
    m1, m2, m3, w1, w2,
    Together    \* bound: the sets of messages that are sent in one behaviour

Sent == {m \in Messages : sendPc[m] # "idle"}
Bounded == \E ms \in Together : Sent' \subseteq ms

\* Bounded disables CreateGrant only, of which no fairness is assumed: each
\* behaviour of MCSpec is one of FairSpec.
MCSpec == Init /\ [][Next /\ Bounded]_vars /\ Fairness
=============================================================================
