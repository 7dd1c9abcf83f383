--------------------------- MODULE MCEventStream ---------------------------
(* One browser and one Node, with pages of two events, a buffer of two     *)
(* pages and a log that keeps the newest Keep events.                      *)
EXTENDS EventStream

Budget(backlog, events, connects, outages, fails, others) ==
    [backlog |-> backlog, events |-> events, connects |-> connects, outages |-> outages,
     fails |-> fails, others |-> others]

MCBudgets ==
    {Budget(5, 1, 1, 1, 0, 1),
     Budget(7, 1, 1, 0, 0, 0),
     Budget(0, 3, 1, 1, 1, 0),
     Budget(2, 1, 2, 1, 1, 0)}
=============================================================================
