----------------------------- MODULE MCLeaseHub -----------------------------
(* Two clients.  With both of its connections, client a reconnects once, *)
(* and the goroutine of the old one may still be inside a handler.       *)
EXTENDS LeaseHub

CONSTANTS a, b, a1, a2, b1

MCClientOf == [s \in Sessions |-> IF s = b1 THEN b ELSE a]

MCExpected == {AnyEpoch, 1}
=============================================================================
