--------------------------- MODULE MCAdminService ---------------------------
(* Six situations: an invitation whose request is sent three times, under    *)
(* one key or two, two browsers that revoke each other, one key used for     *)
(* three operations, two of them with the same body, two changes of the      *)
(* settings, and a client that connects while it is revoked.  A Node revokes *)
(* clients in the last two.                                                  *)
EXTENDS AdminService, TLC
CONSTANTS a, b, r1, r2, r3, r4, r5, r6, r7, r8, r9, r10, k1, k2, k3, k4, k5, k6, k7
VARIABLE scene
invite == [by |-> a, what |-> "invite", target |-> a]
cancel == [by |-> a, what |-> "cancel", target |-> a]
cancelOther == [by |-> a, what |-> "cancel", target |-> b]
aRevokes == [by |-> a, what |-> "revoke", target |-> b]
bRevokes == [by |-> b, what |-> "revoke", target |-> a]
aAdmits == [by |-> a, what |-> "admit", target |-> a]
bAdmits == [by |-> b, what |-> "admit", target |-> b]
MCOps == {invite, cancel, cancelOther, aRevokes, bRevokes, aAdmits, bAdmits}
MCOpOf == r1 :> invite @@ r2 :> invite @@ r3 :> invite @@ r7 :> cancel @@ r9 :> cancelOther @@ r8 :> invite @@ r4 :> aRevokes @@ r5 :> bRevokes @@ r6 :> bAdmits @@ r10 :> aAdmits
MCKeyOf == r1 :> k1 @@ r2 :> k1 @@ r3 :> k2 @@ r7 :> k1 @@ r9 :> k1 @@ r8 :> k1 @@ r4 :> k4 @@ r5 :> k5 @@ r6 :> k6 @@ r10 :> k7
MCInit == Init /\ scene \in {{r1, r2, r3}, {r1, r2, r8}, {r4, r5}, {r6, r10}, {r1, r7, r9}, {r4}}
MCNext ==
    /\ UNCHANGED scene
    /\ \/ SessionStep
       \/ \E r \in scene : RequestStep(r)
    /\ dialed' # 0 => scene = {r4}
    /\ dropping' # {} => scene \in {{r4}, {r6, r10}}
    /\ \A o \in Ops : proof'[o] # 0 => \E r \in scene : OpOf[r] = o
MCSpec == MCInit /\ [][MCNext]_<<vars, scene>>
=============================================================================
