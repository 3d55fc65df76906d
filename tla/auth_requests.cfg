\* Two requests, the providers of one tenant, one change of them.
\* Checking stops where the requests are over and the bounds are reached.
CONSTANTS
    r1 = r1
    r2 = r2
    t1 = t1
    t2 = t2
    None = None
    Requests = {r1, r2}
    Tenants = {t1, t2}
    Providers <- MCProviders
    Switched <- MCSwitched
    Lifetime = 1
    ReadTime = 1
    MaxTime = 3
    MaxChanges = 1
    Kinds <- MCKindsOf
    Enabled <- MCEnabled
    OwnIssuer <- MCOwnIssuer
    OwnAudiences <- MCOwnAudiences
    OwnKey <- MCOwnKey
    Permissions <- MCPermissions
    DefaultOrg = "default"
    Open = "open"
SPECIFICATION Spec
INVARIANTS TypeOK SingleLoad OwnTokensGetIn AcceptedByItsIssuer ExternalStaysInScope
PROPERTY ServedRecently
CHECK_DEADLOCK FALSE
