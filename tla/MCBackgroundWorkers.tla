------------------------- MODULE MCBackgroundWorkers -------------------------
EXTENDS BackgroundWorkers

CONSTANTS t1, t2, m1, m2, l1, l2, ch1, ch2

\* Both messages carry the same id.
MCIdOf == [m \in Messages |-> "id"]
=============================================================================
