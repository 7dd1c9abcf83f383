------------------------------ MODULE MCTrust ------------------------------
(* Trust on a small instance. *)
EXTENDS Trust

\* Polls overlap until the Node stops; after its restart they do so no more,
\* which only repeats what they did before.
MCNext ==
    /\ Next
    /\ crashes' > 0 => \A n \in Nodes : Cardinality(fetching'[n]) + Cardinality(manifests'[n]) <= 1

MCSpec == Init /\ [][MCNext]_vars /\ Fairness
=============================================================================
