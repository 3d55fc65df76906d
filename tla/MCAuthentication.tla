-------------------------- MODULE MCAuthentication --------------------------
(* Two tenants; the first has external providers. *)
EXTENDS Authentication, TLC

CONSTANTS r1, r2, t1, t2

Row(name, issuer, audiences, key, org, mapped) ==
    [tenant |-> t1, name |-> name, issuer |-> issuer, audiences |-> audiences, key |-> key, org |-> org, mapped |-> mapped]

\* Two that header and audience tell apart, one without an issuer, and one
\* that claims the tenant's own issuer.
Shop  == Row("shop", "idp", {"app"}, "k shop", "shop org", TRUE)
Admin == Row("admin", "idp", {}, "k admin", None, TRUE)
Bare  == Row("bare", None, {}, "k bare", None, TRUE)
Own   == Row("own", "blocks 1", {}, "k own", None, TRUE)

MCProviders == {Shop, Admin, Bare, Own}
MCSwitched == {Shop, Own}

Token(issuer, audiences, key, tenant, home, org) ==
    [issuer |-> issuer, audiences |-> audiences, key |-> key, tenant |-> tenant, home |-> home, org |-> org,
     roles |-> {"admin"}, permissions |-> {"orders"}, groups |-> {"buyer"}, named |-> TRUE, expired |-> FALSE]

BlocksToken   == Token("blocks 1", {"app"}, "k 1", t1, None, "o1")
Impersonation == Token("blocks 2", {"app"}, "k 2", t1, t2, "o1")
ShopToken     == Token("idp", {"app"}, "k shop", t2, None, "o1")
AdminToken    == Token("idp", {"other"}, "k admin", t1, None, None)
Expired       == [Impersonation EXCEPT !.home = None, !.expired = TRUE]
Nameless      == [AdminToken EXCEPT !.named = FALSE]
BareToken     == Token(None, {}, "k bare", t1, None, None)
StrayToken    == Token("stray", {}, "k bare", t1, None, None)

Kind(source, token, idp) ==
    [tenant |-> t1, declared |-> None, source |-> source, token |-> token, idp |-> idp, resource |-> "orders"]

\* Tokens of the tenant, of its home tenant, of each provider, of nobody.
MCKinds == {
    Kind("bearer", BlocksToken, None),
    Kind("cookie", Impersonation, "bare"),
    Kind("bearer", ShopToken, "shop"),
    Kind("provider cookie", ShopToken, None),
    Kind("provider cookie", AdminToken, "admin"),
    [Kind("bearer", BareToken, None) EXCEPT !.resource = "open"],
    Kind("bearer", StrayToken, "bare"),
    [Kind("provider cookie", ShopToken, "shop") EXCEPT !.declared = t2],
    [Kind("bearer", BlocksToken, None) EXCEPT !.tenant = None] }

\* A missing, a nameless and an expired token, the last for a tenant without
\* providers.
MCMoreKinds == {
    Kind("none", BlocksToken, None),
    Kind("provider cookie", Nameless, None),
    [Kind("bearer", Expired, None) EXCEPT !.tenant = t2] }

\* The first request is there to share the store with.
MCKindsOf == r1 :> {Kind("bearer", BlocksToken, None)} @@ r2 :> MCKinds \cup MCMoreKinds

MCEnabled == {t1}
MCOwnIssuer == t1 :> "blocks 1" @@ t2 :> "blocks 2"
MCOwnAudiences == [t \in {t1, t2} |-> {"app"}]
MCOwnKey == t1 :> "k 1" @@ t2 :> "k 2"
MCPermissions == {
    [tenant |-> t1, org |-> "shop org", resource |-> "orders", roles |-> {"buyer"}],
    [tenant |-> t1, org |-> "o1", resource |-> "orders", roles |-> {"admin"}],
    [tenant |-> t2, org |-> "o1", resource |-> "orders", roles |-> {"admin", "buyer"}] }
=============================================================================
