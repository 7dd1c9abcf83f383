--------------------------- MODULE MCRuntimeRouter ---------------------------
EXTENDS RuntimeRouter, TLC

CONSTANTS a, b, w1, w2

\* Two instances with a workspace each; the second start drops one of both.
MCConfigs ==
    <<[order |-> <<a, b>>, links |-> [w \in Workspaces |-> IF w = w1 THEN {a} ELSE {b}]],
      [order |-> <<a>>, links |-> [w \in Workspaces |-> IF w = w1 THEN {a} ELSE {}]]>>

\* A full buffer takes three events of one source behind one of another.
MCMaxEvents == [i \in Instances |-> IF i = a THEN 3 ELSE 1]

\* Task IDs are random.
TaskSymmetry == Permutations(Tasks)
=============================================================================
