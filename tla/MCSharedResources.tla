-------------------------- MODULE MCSharedResources --------------------------
EXTENDS SharedResources

CONSTANTS p, q, r, n1, n2

\* Two calls for one tenant or destination, one for another; a sender for the
\* first destination at start-up.
MCSubject == [c \in Calls |-> IF c = r THEN "second" ELSE "first"]
MCConfigured == {"first"}
=============================================================================
