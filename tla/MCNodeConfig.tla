---------------------------- MODULE MCNodeConfig ----------------------------
EXTENDS NodeConfig, TLC
CONSTANTS r1, r2, c1, c2, s1, s2
Fresh == [name |-> 0, relay |-> "old", perm |-> "write", legacy |-> "none"]
Legacy == [Fresh EXCEPT !.legacy = "ref"]
Files == {Fresh, Legacy}
=============================================================================
