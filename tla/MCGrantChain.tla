----------------------------- MODULE MCGrantChain -----------------------------
(* A small instance of GrantChain. *)
EXTENDS GrantChain, TLC

CONSTANTS t1, t2, u1, u2, o1, o2, k1, k2, v1, v2, w1, w2

Ctx(t, u, o, k) == [tenant |-> t, user |-> u, organization |-> o, client |-> k]

\* A user, also through an OIDC client; a client; a user whose token has no
\* material.
ThreeTokens ==
    {[caller |-> Ctx(t1, u1, o1, k1), material |-> v1],
     [caller |-> Ctx(t1, None, o1, k1), material |-> None],
     [caller |-> Ctx(t1, u2, o1, None), material |-> None]}

\* Each differs from a caller's context in one part.
OtherContexts ==
    {Ctx(t2, u1, o1, k1), Ctx(t1, u2, o1, k1), Ctx(t1, u1, o2, k1),
     Ctx(t1, None, o1, k2), Ctx(t1, None, o2, k1)}

WorkersAlike == Permutations({w1, w2})
=============================================================================
