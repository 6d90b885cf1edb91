----------------------------- MODULE RestartPlan -----------------------------
(***************************************************************************)
(* The planned restart of a node (main/APP/Restart/system_restart.c): a    *)
(* command gives the node a restart plan; after a while the service task   *)
(* pauses the mesh, and at the deadline it restarts.  A task that wants to *)
(* restart because the network is gone has to claim that right first; plan *)
(* and claim exclude each other.  Deadlines are "some time later"; a root  *)
(* has its deadline at the pause, a node of a lower level after it.        *)
(***************************************************************************)
EXTENDS Naturals

CONSTANT DisconnectMax   \* RESTART_DISCONNECT_MAX_ATTEMPTS

ASSUME DisconnectAssumption == DisconnectMax \in Nat \ {0}

VARIABLES
    plan,    \* s_planned, s_paused, s_recovery_committed; the service task's state
    mutex    \* who holds s_mesh_control_mutex

restartVars == <<plan, mutex>>

NoPlan == [planned |-> FALSE, paused |-> FALSE, committed |-> FALSE, at |-> "idle",
           attempts |-> 0, disconnected |-> FALSE]

PlanInit == plan = NoPlan /\ mutex = "free"

IsPlanned == plan.planned
MeshPaused == plan.paused

\* mesh_control_take waits 50 ms for the mutex: whoever finds it held may give up.
Take(who) == mutex = "free" /\ mutex' = who
TakeFails(who) == mutex \notin {"free", who} /\ UNCHANGED mutex

\* system_restart_schedule: only the first command makes a plan.
SchedulePlan ==
    /\ ~plan.committed
    /\ plan' = [plan EXCEPT !.planned = TRUE]
    /\ UNCHANGED mutex

\* Fault: a recovery may restart although a plan was accepted.
ClaimOver == ~plan.committed

\* system_restart_claim_recovery.
MayClaim == ~plan.planned /\ ~plan.committed

Claim == plan' = [plan EXCEPT !.committed = TRUE]

\* system_restart_poll: the pause, then an attempt to leave the mesh.
EnterPause ==
    /\ plan.planned /\ ~plan.paused
    /\ plan' = [plan EXCEPT !.paused = TRUE]
    /\ UNCHANGED mutex

MayAttempt == plan.paused /\ ~plan.disconnected /\ plan.attempts < DisconnectMax /\ plan.at = "idle"

\* Fault: the mesh is left without the mutex.
PauseUnlocked(taken) ==
    /\ MayAttempt /\ taken
    /\ plan' = [plan EXCEPT !.attempts = @ + 1, !.at = "leaving"]
    /\ UNCHANGED mutex

\* mesh_pause_for_restart, up to the call of the SDK.
PauseAttempt(taken) ==
    /\ MayAttempt
    /\ plan' = [plan EXCEPT !.attempts = @ + 1, !.at = IF taken THEN "leaving" ELSE "idle"]
    /\ IF taken THEN Take("plan") ELSE TakeFails("plan")

PauseDone(ok) ==
    /\ plan.at = "leaving"
    /\ plan' = [plan EXCEPT !.at = "idle", !.disconnected = ok]
    /\ mutex' = "free"

\* The restart comes at the end of a poll that has made its attempt.
RestartDue == plan.paused /\ plan.at = "idle" /\ plan.attempts > 0

PlanTypeOK ==
    /\ plan \in [planned : BOOLEAN, paused : BOOLEAN, committed : BOOLEAN,
                 at : {"idle", "leaving"}, attempts : 0 .. DisconnectMax,
                 disconnected : BOOLEAN]
    /\ mutex \in {"free", "plan", "health", "failover", "monitor"}
=============================================================================
