--------------------------- MODULE Authentication ---------------------------
(***************************************************************************)
(* Requests through the tenant middleware and authorize (_auth/auth.py,    *)
(* _auth/third_party_selector.py, _middlewares/tenant_middleware.py): a    *)
(* token is read, offered to the tenant's external providers when they are *)
(* enabled, then to primary validation; a context is built from whichever  *)
(* accepted it, and the permission check decides on that context.          *)
(*                                                                         *)
(* A token is a record of what it claims and of the key that signed it; a  *)
(* signature verifies under that key only.  An expired token is refused by *)
(* both validations, whose leeways are not told apart.  Tenant records do  *)
(* not change here (TenantCache is about that); reading one, a             *)
(* certificate, a key set or the permissions may fail.  Requests are those *)
(* under included_paths, in a host that has initialised the store.         *)
(***************************************************************************)
EXTENDS ProviderStore

CONSTANTS
    Kinds,          \* [Requests -> what it may be]: see KindAssumption
    Enabled,        \* tenants with is_third_party_jwt_enabled
    OwnIssuer,      \* [Tenants -> the issuer of its tokens]
    OwnAudiences,   \* [Tenants -> their audiences]
    OwnKey,         \* [Tenants -> the key that signs them]
    Permissions,    \* rows of Permissions: tenant, org, resource, roles
    DefaultOrg,     \* DEFAULT_ORGANIZATION
    Open            \* the resource of an endpoint that bypasses authorization

\* Where the token was found: nowhere, in the Authorization header, in the
\* cookie named after the application's domain, or in that of a provider.
Sources == {"none", "bearer", "cookie", "provider cookie"}

ASSUME KindAssumption ==
    /\ Enabled \subseteq Tenants
    \* A provider's key source never yields a key that signs Blocks tokens.
    /\ \A p \in Providers, t \in Tenants : p.key # OwnKey[t]
    /\ \A r \in Requests : \A k \in Kinds[r] :
          /\ k.tenant \in Tenants \cup {None}     \* what the key or host resolves to
          /\ k.declared \in Tenants \cup {None}   \* the first of the tenant headers
          /\ k.source \in Sources
          /\ k.token.home \in Tenants \cup {None} \* original_tenant_id, if impersonated

VARIABLES
    stage,  \* where a request stands
    kind,   \* what it is
    via,    \* the provider that was selected for it, or accepted it
    ctx,    \* the context variable of its task
    lost    \* history: did a read fail on which primary validation relied?

vars == <<store, stage, kind, via, ctx, lost>>

Running == {"dispatched", "providers", "keying", "primary", "accessing"}
Answers == {"admitted", "forbidden", "refused", "failed", "cancelled"}

TypeOK ==
    /\ StoreTypeOK
    /\ stage \in [Requests -> {"new", "over"} \cup Running \cup Answers]
    /\ \A r \in Requests : kind[r] \in Kinds[r] \cup {None}
    /\ via \in [Requests -> Providers \cup {None}]
    /\ lost \in [Requests -> BOOLEAN]
    /\ \A r \in Requests :
          /\ (awaits[r] # None) <=> stage[r] = "providers"
          /\ awaits[r] # None => read[awaits[r]].tenant = kind[r].tenant
          /\ stage[r] = "keying" => via[r] \in served[r]
          /\ stage[r] \in {"new", "over"} => ctx[r] = None
          /\ stage[r] \in {"accessing", "admitted"} => ctx[r] # None

Init ==
    /\ StoreInit
    /\ stage = [r \in Requests |-> "new"]
    /\ kind = [r \in Requests |-> None]
    /\ via = [r \in Requests |-> None]
    /\ ctx = [r \in Requests |-> None]
    /\ lost = [r \in Requests |-> FALSE]

Goes(r, to) == stage' = [stage EXCEPT ![r] = to]

-----------------------------------------------------------------------------
(* Selection of a provider. *)

\* An empty audience list accepts every audience.
AudienceMatches(p, token) == p.audiences = {} \/ p.audiences \cap token.audiences # {}

FaultyCandidates(ps, token) ==
    {p \in ps : p.issuer \in {None, token.issuer} /\ AudienceMatches(p, token)}

\* A token without an issuer reaches the providers without one, and only
\* those.
Candidates(ps, token) == {p \in ps : p.issuer = token.issuer /\ AudienceMatches(p, token)}

\* The x-blocks-idp header is read only where several candidates are left.
Select(ps, token, idp) ==
    LET found == Candidates(ps, token)
        named == IF Cardinality(found) = 1 THEN found ELSE {p \in found : p.name = idp} IN
    IF named = {} THEN None ELSE CHOOSE p \in named : TRUE

-----------------------------------------------------------------------------
(* The context of a request. *)

\* What the middleware sets before the handler runs.
Anonymous(t) == [tenant |-> t, original |-> t, impersonated |-> FALSE, org |-> None, roles |-> {}, permissions |-> {}]

FaultyThirdPartyContext(t, p, token) ==
    [tenant |-> token.tenant, original |-> t, impersonated |-> FALSE,
     org |-> IF token.org = None THEN p.org ELSE token.org,
     roles |-> token.groups, permissions |-> token.permissions]

\* Of an external token only the mapped claims reach the context.
ThirdPartyContext(t, p, token) ==
    [tenant |-> t, original |-> t, impersonated |-> FALSE,
     org |-> IF p.org = None THEN DefaultOrg ELSE p.org,
     roles |-> token.groups, permissions |-> {}]

\* A Blocks token's claims are the context.
ContextFromClaims(t, token) ==
    [tenant |-> token.tenant, original |-> t, impersonated |-> token.home # None,
     org |-> token.org, roles |-> token.roles, permissions |-> token.permissions]

\* None is no context.
ASSUME ContextAssumption ==
    \A r \in Requests : \A k \in Kinds[r] :
        /\ ContextFromClaims(k.tenant, k.token) # None
        /\ \A p \in Providers : ThirdPartyContext(k.tenant, p, k.token) # None

EffectiveTenant(c) == IF c.impersonated THEN c.original ELSE c.tenant

\* _check_permission.
Allowed(c, resource) ==
    \E row \in Permissions :
        /\ row.tenant = EffectiveTenant(c)
        /\ row.org = (IF c.org = None THEN DefaultOrg ELSE c.org)
        /\ \/ row.resource \in c.permissions
           \/ row.resource = resource /\ row.roles \cap c.roles # {}

-----------------------------------------------------------------------------
(* A request. *)

\* The middleware resolves the tenant, or answers itself.
Dispatch(r, k) ==
    /\ stage[r] = "new"
    /\ kind' = [kind EXCEPT ![r] = k]
    /\ IF k.tenant = None
       THEN /\ Goes(r, "refused")
            /\ UNCHANGED ctx
       ELSE /\ Goes(r, "dispatched")
            /\ ctx' = [ctx EXCEPT ![r] = Anonymous(k.tenant)]
    /\ UNCHANGED <<store, via, lost>>

FaultyAfterProviders(k) == "refused"

\* No provider accepts the token: one that came in a provider's cookie is
\* refused, any other has its turn with primary validation.
AfterProviders(k) == IF k.source = "provider cookie" THEN "refused" ELSE "primary"

\* The request declares no tenant but the one it was resolved to.
DeclaredHere(k) == k.declared \in {None, k.tenant}

\* Are the tenant's providers asked?
Consults(k) == k.tenant \in Enabled /\ DeclaredHere(k)

\* authenticate: the token is missing, or no provider is asked.
SkipProviders(r) ==
    /\ stage[r] = "dispatched"
    /\ kind[r].source = "none" \/ ~Consults(kind[r])
    /\ Goes(r, IF kind[r].source = "none" THEN "refused" ELSE AfterProviders(kind[r]))
    /\ UNCHANGED <<store, kind, via, ctx, lost>>

\* The tenant left the cache since the middleware had it, and cannot be read
\* or is gone.
TenantFails(r) ==
    /\ stage[r] = "dispatched"
    /\ Goes(r, "refused")
    /\ lost' = [lost EXCEPT ![r] = TRUE]
    /\ UNCHANGED <<store, kind, via, ctx>>

\* _run_fallback goes on with the providers it was given.
Selected(r) ==
    LET p == Select(served'[r], kind[r].token, kind[r].idp) IN
    /\ via' = [via EXCEPT ![r] = p]
    /\ Goes(r, IF p = None THEN AfterProviders(kind[r]) ELSE "keying")

Asks(r) == stage[r] = "dispatched" /\ kind[r].source # "none" /\ Consults(kind[r])

\* The providers come from the cache ...
AskCache(r) ==
    /\ Asks(r)
    /\ GetActiveHit(r, kind[r].tenant)
    /\ Selected(r)
    /\ UNCHANGED <<kind, ctx, lost>>

\* ... or from the database.
AskStore(r) ==
    /\ Asks(r)
    /\ GetActiveMiss(r, kind[r].tenant)
    /\ Goes(r, "providers")
    /\ UNCHANGED <<kind, via, ctx, lost>>

StoreAnswers(r) ==
    /\ GetActiveReturns(r)
    /\ Selected(r)
    /\ UNCHANGED <<kind, ctx, lost>>

\* A CancelledError is no Exception: validate_with_fallback lets it pass.
StoreRaises(r) ==
    /\ GetActiveRaises(r)
    /\ Goes(r, "cancelled")
    /\ UNCHANGED <<kind, via, ctx, lost>>

\* jwt.decode with the provider's key, issuer and audiences, where it has them.
Verifies(p, token) ==
    /\ token.key = p.key
    /\ p.issuer = None \/ p.issuer = token.issuer
    /\ AudienceMatches(p, token)
    /\ ~token.expired

\* The claim mapping yields a subject.
Identifies(p, token) == p.mapped /\ token.named

\* The provider accepts the token.
Accept(r) ==
    /\ stage[r] = "keying"
    /\ Verifies(via[r], kind[r].token)
    /\ IF Identifies(via[r], kind[r].token)
       THEN /\ Goes(r, "accessing")
            /\ ctx' = [ctx EXCEPT ![r] = ThirdPartyContext(kind[r].tenant, via[r], kind[r].token)]
       ELSE /\ Goes(r, "refused")
            /\ UNCHANGED ctx
    /\ UNCHANGED <<store, kind, via, lost>>

\* The provider's key could not be had (its row names no usable source, the
\* download fails), or does not verify the token.
Decline(r) ==
    /\ stage[r] = "keying"
    /\ via' = [via EXCEPT ![r] = None]
    /\ Goes(r, AfterProviders(kind[r]))
    /\ UNCHANGED <<store, kind, ctx, lost>>

\* An impersonation token was signed by the tenant it names as its original.
Signer(k) == IF k.token.home = None THEN k.tenant ELSE k.token.home

\* validate_jwt_token for the tenant t.
IsOwnToken(t, token) ==
    /\ token.key = OwnKey[t]
    /\ token.issuer = OwnIssuer[t]
    /\ OwnAudiences[t] \cap token.audiences # {}
    /\ ~token.expired

\* Primary validation with the certificate of the tenant t.
ValidateWith(r, t) ==
    IF IsOwnToken(t, kind[r].token)
    THEN /\ Goes(r, "accessing")
         /\ ctx' = [ctx EXCEPT ![r] = ContextFromClaims(kind[r].tenant, kind[r].token)]
    ELSE /\ Goes(r, "refused")
         /\ UNCHANGED ctx

Validate(r) ==
    /\ stage[r] = "primary"
    /\ ValidateWith(r, Signer(kind[r]))
    /\ UNCHANGED <<store, kind, via, lost>>

\* The signing tenant could not be read, and the request's own stands in.
ValidateInstead(r) ==
    /\ stage[r] = "primary"
    /\ kind[r].token.home \notin {None, kind[r].tenant}
    /\ ValidateWith(r, kind[r].tenant)
    /\ lost' = [lost EXCEPT ![r] = TRUE]
    /\ UNCHANGED <<store, kind, via>>

\* The certificate could not be read.
CertificateFails(r) ==
    /\ stage[r] = "primary"
    /\ Goes(r, "failed")
    /\ lost' = [lost EXCEPT ![r] = TRUE]
    /\ UNCHANGED <<store, kind, via, ctx>>

\* authorize, after authenticate.
Admit(r) ==
    /\ stage[r] = "accessing"
    /\ kind[r].resource = Open \/ Allowed(ctx[r], kind[r].resource)
    /\ Goes(r, "admitted")
    /\ UNCHANGED <<store, kind, via, ctx, lost>>

\* No row allows it, or the permissions could not be read.
Forbid(r) ==
    /\ stage[r] = "accessing"
    /\ kind[r].resource # Open
    /\ Goes(r, "forbidden")
    /\ UNCHANGED <<store, kind, via, ctx, lost>>

\* The task of the request is cancelled where it awaits something.
Cancel(r) ==
    /\ \/ CancelRead(r) /\ UNCHANGED stage
       \/ CancelReturn(r) /\ Goes(r, "cancelled")
       \/ /\ stage[r] \in Running \ {"providers"}
          /\ Goes(r, "cancelled")
          /\ UNCHANGED store
    /\ UNCHANGED <<kind, via, ctx, lost>>

FaultyRespond(r) ==
    /\ stage[r] \in Answers
    /\ Goes(r, "over")
    /\ kind' = [kind EXCEPT ![r] = None]
    /\ via' = [via EXCEPT ![r] = None]
    /\ lost' = [lost EXCEPT ![r] = FALSE]
    /\ Forget(r)
    /\ UNCHANGED ctx

\* The middleware clears the context and the request is over.
Respond(r) ==
    /\ stage[r] \in Answers
    /\ Goes(r, "over")
    /\ ctx' = [ctx EXCEPT ![r] = None]
    /\ kind' = [kind EXCEPT ![r] = None]
    /\ via' = [via EXCEPT ![r] = None]
    /\ lost' = [lost EXCEPT ![r] = FALSE]
    /\ Forget(r)

-----------------------------------------------------------------------------
Step(r) ==
    \/ SkipProviders(r) \/ TenantFails(r) \/ AskCache(r) \/ AskStore(r) \/ StoreAnswers(r) \/ StoreRaises(r)
    \/ Accept(r) \/ Decline(r)
    \/ Validate(r) \/ ValidateInstead(r) \/ CertificateFails(r)
    \/ Admit(r) \/ Forbid(r) \/ Respond(r)

Around ==
    /\ \/ \E p \in Switched : Change(p)
       \/ \E r \in Requests : Load(r)
       \/ \E t \in Tenants : Invalidate(t)
       \/ Tick
    /\ UNCHANGED <<stage, kind, via, ctx, lost>>

Next ==
    \/ \E r \in Requests : Step(r) \/ Cancel(r) \/ \E k \in Kinds[r] : Dispatch(r, k)
    \/ Around

Spec == Init /\ [][Next]_vars

-----------------------------------------------------------------------------
(* Properties. *)

\* "Either way primary validation gets its turn": a token the tenant, or the
\* home tenant of an impersonation, issued is never refused, whatever
\* providers are configured, claim its issuer, change or cannot be read,
\* unless reading that tenant or its certificate failed.
OwnTokensGetIn ==
    \A r \in Requests :
        stage[r] = "refused" /\ kind[r].tenant # None /\ ~lost[r] =>
            ~ /\ kind[r].source \in {"bearer", "cookie"}
              /\ IsOwnToken(Signer(kind[r]), kind[r].token)

\* "The header alone decides" only among providers nothing else tells apart:
\* who is let in by a provider carries a token that provider signed, with
\* its very issuer, or none where it has none; and no other provider the
\* request was given takes tokens like it, unless the header names this one.
AcceptedByItsIssuer ==
    \A r \in Requests :
        stage[r] \in {"accessing", "admitted", "forbidden"} /\ via[r] # None =>
            LET token == kind[r].token IN
            /\ via[r] \in served[r]
            /\ token.key = via[r].key /\ token.issuer = via[r].issuer
            /\ \A q \in served[r] \ {via[r]} :
                  q.issuer = token.issuer /\ AudienceMatches(q, token) => via[r].name = kind[r].idp

\* "Nothing the external provider wrote can reach a consumer" but what its
\* mapping names: an external token acts in the tenant of the request and in
\* the organization of its provider, with the mapped roles only.
ExternalStaysInScope ==
    \A r \in Requests :
        stage[r] = "admitted" /\ via[r] # None =>
            /\ ctx[r].tenant = kind[r].tenant
            /\ \/ kind[r].resource = Open
               \/ \E row \in Permissions :
                     /\ row.tenant = kind[r].tenant
                     /\ row.org = (IF via[r].org = None THEN DefaultOrg ELSE via[r].org)
                     /\ row.resource = kind[r].resource
                     /\ row.roles \cap kind[r].token.groups # {}
=============================================================================
