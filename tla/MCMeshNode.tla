----------------------------- MODULE MCMeshNode -----------------------------
(* The scenarios MeshNode is checked from: each is rich in one thing.      *)
EXTENDS MeshNode

Scenario(r, ethEvents, wifiEvents, plans, power, fails) ==
    [role |-> r,
     budget |-> [eth |-> ethEvents, wifi |-> wifiEvents, plan |-> plans, power |-> power,
                 fail |-> fails]]

\*                            eth wifi plan power fail
Uplinks    == Scenario("single", 3,  1,  0,   0,   0)
Leavings   == Scenario("single", 2,  1,  1,   0,   0)
Faults     == Scenario("single", 3,  0,  0,   0,   1)
Trials     == Scenario("root",   0,  2,  0,   0,   0)
TrialEths  == Scenario("root",   2,  0,  0,   0,   0)
TrialPlans == Scenario("root",   0,  1,  1,   0,   0)
Parents    == Scenario("child",  0,  3,  1,   1,   0)
Pauses     == Scenario("child",  0,  2,  1,   0,   2)

MCScenarios ==
    {Uplinks, Leavings, Faults, Trials, TrialEths, TrialPlans, Parents, Pauses}
=============================================================================
