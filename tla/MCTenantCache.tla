---------------------------- MODULE MCTenantCache ----------------------------
(* A small instance of TenantCache. *)
EXTENDS TenantCache

CONSTANTS t1, c1, c2, c3
=============================================================================
