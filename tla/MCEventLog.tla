----------------------------- MODULE MCEventLog -----------------------------
(* Two clock readings, two frame sizes and two retention settings: both a  *)
(* row's age and the byte budget prune, alone and together.                *)
EXTENDS EventLog

MCRetentions == {[age |-> 1, bytes |-> 2], [age |-> 2, bytes |-> 3]}
=============================================================================
