--------------------------- MODULE MCLeaseClient ---------------------------
(* Two browsers of one owner. *)
EXTENDS LeaseClient, TLC

CONSTANTS a, b

Browsers == Permutations(Clients)
=============================================================================
