\* Three calls each, two of which want the same tenant or destination, two
\* cancellations, two close(); two clusters with a database of the same name
\* and two calls per thread; eight ticks for two readers of a certificate that
\* is valid for two days of two ticks, and fetches that take up to two.
\* Checking stops where every call has ended.
CONSTANTS
    p = p
    q = q
    r = r
    n1 = n1
    n2 = n2
    Calls = {p, q, r}
    Subject <- MCSubject
    Configured <- MCConfigured
    MaxCancels = 2
    MaxCloses = 2
    Connections = {n1, n2}
    Names = {"db"}
    MaxCalls = 2
    Readers = {p, q}
    MaxTime = 8
    Day = 2
    ValidDays = 2
    Least = 1
    Window = 2
    MaxFetch = 2
SPECIFICATION Spec
INVARIANTS TypeOK NoRediscovery OneInside OneConnection OneClient CertificateLag
PROPERTY EveryCallReturns
CHECK_DEADLOCK FALSE
