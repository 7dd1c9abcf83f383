---------------------------- MODULE MCNodeSetup ----------------------------
(* Three instances in one state space: two submissions that overlap at one   *)
(* machine, two machines, and a machine with a legacy identity.              *)
EXTENDS NodeSetup, TLC
CONSTANTS m1, m2, m3, m4, j1, j2, j3, j4, j5, i1, i2
VARIABLE scene
MCJobOf == j1 :> m1 @@ j2 :> m1 @@ j3 :> m2 @@ j4 :> m3 @@ j5 :> m4
\* The two tabs of the first scene are alike, and so are the two machines with
\* their submissions of the second.
MCSymmetry ==
    Permutations({j1, j2}) \cup
    {f \in Permutations({m2, m3, j3, j4}) :
        {f[m2], f[m3]} = {m2, m3} /\ (f[m2] = m2 <=> f[j3] = j3)}
MCInit == SetupInit /\ scene \in {<<{m1}, {j1, j2}>>, <<{m2, m3}, {j3, j4}>>, <<{m4}, {j5}>>}
MCNext ==
    /\ UNCHANGED scene
    /\ \/ ServerStep
       \/ \E j \in scene[2] : SubmissionStep(j)
       \/ \E m \in scene[1] : MachineStep(m)
MCSpec == MCInit /\ [][MCNext]_<<setupVars, scene>>
=============================================================================
