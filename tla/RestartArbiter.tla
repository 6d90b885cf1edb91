---------------------------- MODULE RestartArbiter ----------------------------
(***************************************************************************)
(* What the restarts of a node promise together (system_restart.c, mesh.c):*)
(* a command's plan, once accepted, is what restarts the node; a recovery  *)
(* restarts it only when there is no plan; and a node without a parent     *)
(* restarts itself at most Max times in one power cycle.                   *)
(***************************************************************************)
EXTENDS Naturals

CONSTANT Max   \* MESH_RESTART_MAX_PER_CYCLE

VARIABLES
    phase,   \* "running", "planned" or "recovering"
    heals    \* restarts for want of a parent, in this power cycle

Init == phase = "running" /\ heals = 0

Accept == phase = "running" /\ phase' = "planned" /\ UNCHANGED heals

Recover == phase = "running" /\ phase' = "recovering" /\ UNCHANGED heals

RecoverParent ==
    /\ phase = "running" /\ heals < Max
    /\ phase' = "recovering"
    /\ heals' = heals + 1

Restart == phase' = "running" /\ UNCHANGED heals

PowerCycle == phase' = "running" /\ heals' = 0

Next == Accept \/ Recover \/ RecoverParent \/ Restart \/ PowerCycle

Spec == Init /\ [][Next]_<<phase, heals>>
=============================================================================
