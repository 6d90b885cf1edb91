------------------------------- MODULE MeshNode -------------------------------
(***************************************************************************)
(* A node of the mesh and its ways back to the network                     *)
(* (main/Communication/Internet/Mesh/mesh.c), with the uplinks of a root   *)
(* (DualNet) and the planned restart (RestartPlan).                        *)
(*                                                                         *)
(* A child watches its parent: mesh_health_task resets the station, then   *)
(* restarts the node, within a budget kept in RTC memory.  A root whose    *)
(* network is gone scans for the other router, restarts to try it, and     *)
(* saves it once it has worked (root_failover_task).  The event task, the  *)
(* net monitor, the health or failover task and the restart service run    *)
(* side by side; the calls that connect and disconnect the station share a *)
(* mutex.  Times are "some time later".                                    *)
(***************************************************************************)
EXTENDS DualNet, RestartPlan

CONSTANTS
    Scenarios,       \* bounds: the roles and budgets the runs start from
    SoftResetMax,    \* MESH_SOFT_RESET_MAX
    HealMax,         \* MESH_RESTART_MAX_PER_CYCLE
    FailThreshold,   \* MESH_PARENT_FAIL_RESTART_THRESHOLD
    TrialMax         \* the failover attempts before a cooldown (2)

ASSUME BudgetAssumption ==
    /\ SoftResetMax \in Nat /\ HealMax \in Nat
    /\ FailThreshold \in Nat \ {0} /\ TrialMax \in Nat \ {0}

Roles == {"root", "single", "child"}
Budgets == {"eth", "wifi", "plan", "power", "fail"}

ASSUME ScenariosAssumption ==
    \A s \in Scenarios : s.role \in Roles /\ s.budget \in [Budgets -> Nat]

VARIABLES
    role,      \* IsRoot: "child"; "root"; "single", a root with one valid router
    budget,    \* bound: how often each thing may still happen
    left,      \* a disconnection the program asked for is still to be reported
    paused,    \* s_sta_reconnect_paused_by_eth
    parent,    \* the child's connection: s_parent_ip_online, s_parent_fail_count, ...
    heal,      \* mesh_health_task with the state of mesh_heal_watchdog
    failover,  \* root_failover_task with the flags of its scan
    rtc,       \* what survives a restart: RTC memory
    saved,     \* what survives a power cycle: the uplink in NVS
    heals      \* history: restarts for want of a parent in this power cycle

meshVars == <<left, paused, parent, heal, failover, rtc, saved, heals>>
vars == <<role, budget, interfaces, dualVars, flag, restartVars, meshVars>>

IsRoot == role # "child"

NoTrial == 2      \* UINT32_MAX: no uplink is on trial

Spend(cost) == budget[cost] > 0 /\ budget' = [budget EXCEPT ![cost] = @ - 1]
Costs(cost, ok) == IF ok THEN UNCHANGED budget ELSE Spend(cost)

NoParent == [online |-> FALSE, stable |-> FALSE, fails |-> 0, local |-> FALSE]
NoHeal == [at |-> "read", online |-> FALSE, lost |-> FALSE, softs |-> 0]
NoFailover == [at |-> "loop", lost |-> FALSE, requested |-> FALSE, active |-> FALSE,
               restart |-> FALSE, trial |-> FALSE, ok |-> FALSE, index |-> 0]

Init ==
    /\ \E s \in Scenarios : role = s.role /\ budget = s.budget
    /\ DualInit
    /\ PlanInit
    /\ left = FALSE
    /\ paused = FALSE
    /\ parent = NoParent
    /\ heal = NoHeal
    /\ failover = NoFailover
    /\ rtc = [heal |-> 0, attempts |-> 0, trial |-> NoTrial]
    /\ saved = 0
    /\ heals = 0

-----------------------------------------------------------------------------
(* Restarts.  mesh_init_Custom clears RTC memory unless the restart was    *)
(* one of software, and starts a trial when RTC memory names an uplink.    *)

Boot(memory) ==
    /\ eth' = IF eth = "ip" THEN "link" ELSE eth
    /\ sta' = "trying"
    /\ start' = NoStart
    /\ net' = NoNet
    /\ fresh' = {}
    /\ mon' = Parked
    /\ netif' = "none"
    /\ flag' = FALSE
    /\ plan' = NoPlan
    /\ mutex' = "free"
    /\ left' = FALSE
    /\ paused' = FALSE
    /\ parent' = NoParent
    /\ heal' = NoHeal
    /\ rtc' = memory
    /\ failover' = IF IsRoot /\ memory.trial # NoTrial
                   THEN [NoFailover EXCEPT !.trial = TRUE, !.index = memory.trial]
                   ELSE [NoFailover EXCEPT !.index = saved]
    /\ UNCHANGED <<role, saved>>

MemoryAtBoot(memory, software) ==
    IF software THEN memory ELSE [heal |-> 0, attempts |-> 0, trial |-> NoTrial]

PlannedRestart ==
    /\ RestartDue
    /\ Boot(MemoryAtBoot(rtc, TRUE))
    /\ UNCHANGED <<budget, heals>>

\* Power goes off, or another part of the program restarts the node (an update).
OtherRestart(software) ==
    /\ Spend("power")
    /\ Boot(MemoryAtBoot(rtc, software))
    /\ heals' = IF software THEN heals ELSE 0

-----------------------------------------------------------------------------
(* The station and its events: the handler of mesh.c, then that of dual_net.*)

\* mesh_update_network_flag.
UpdateNetworkFlag(has) ==
    flag' = IF IsRoot /\ start.at = "on" THEN flag ELSE has

\* mesh_parent_online_changed: ten seconds in one piece forget the failures.
OnlineChanged(p, online) ==
    [p EXCEPT !.fails = IF ~online /\ p.online /\ p.stable THEN 0 ELSE @,
              !.online = online,
              !.stable = p.online /\ online /\ @]

\* A trial's address goes to the failover task, and nowhere else.
GotIp ==
    /\ sta \in {"trying", "linked"} /\ ~left
    /\ Spend("wifi")
    /\ sta' = "ip"
    /\ IF IsRoot /\ failover.trial
       THEN /\ failover' = [failover EXCEPT !.ok = TRUE]
            /\ UNCHANGED <<flag, rtc, parent>>
       ELSE /\ UpdateNetworkFlag(TRUE)
            /\ rtc' = [rtc EXCEPT !.attempts = 0]
            /\ parent' = OnlineChanged(parent, TRUE)
            /\ UNCHANGED failover
    /\ DualStaEvent(TRUE)
    /\ UNCHANGED <<role, eth, start, mon, netif, restartVars, left, paused, heal, saved, heals>>

\* What STA_LOST_IP and STA_DISCONNECTED have in common.
StaLost(p) ==
    /\ UpdateNetworkFlag(FALSE)
    /\ failover' = [failover EXCEPT !.ok = IF failover.trial THEN FALSE ELSE @]
    /\ parent' = p
    /\ DualStaEvent(FALSE)

LostIp ==
    /\ sta = "ip" /\ ~left
    /\ Spend("wifi")
    /\ sta' = "linked"
    /\ StaLost(OnlineChanged(parent, FALSE))
    /\ UNCHANGED <<role, eth, start, mon, netif, restartVars, left, paused, heal, rtc, saved, heals>>

\* note_parent_connect_failure; the count saturates.
CountFailure(p, local) ==
    IF local \/ IsRoot \/ IsPlanned THEN p
    ELSE [p EXCEPT !.fails = IF @ < FailThreshold THEN @ + 1 ELSE @]

\* The parent or router refuses or drops the station; the SDK keeps trying.
Disconnected ==
    /\ sta # "off" /\ ~left
    /\ Spend("wifi")
    /\ sta' = "trying"
    /\ StaLost(CountFailure([OnlineChanged(parent, FALSE) EXCEPT !.local = FALSE], FALSE))
    /\ UNCHANGED <<role, eth, start, mon, netif, restartVars, left, paused, heal, rtc, saved, heals>>

\* The disconnection the program asked for arrives.
LeftEvent ==
    /\ left
    /\ left' = FALSE
    /\ StaLost(CountFailure([OnlineChanged(parent, FALSE) EXCEPT !.local = FALSE], parent.local))
    /\ UNCHANGED <<role, budget, interfaces, start, mon, netif, restartVars, paused, heal, rtc,
                   saved, heals>>

\* Ten seconds online.
Stable ==
    /\ parent.online /\ ~parent.stable
    /\ parent' = [parent EXCEPT !.stable = TRUE]
    /\ UNCHANGED <<role, budget, interfaces, dualVars, flag, restartVars, left, paused, heal,
                   failover, rtc, saved, heals>>

\* esp_mesh_lite_disconnect as mesh_disconnect_locked calls it; it may report
\* failure although the station is off.
SdkDisconnect(ok) ==
    /\ sta' = "off"
    /\ left' = (left \/ sta \in {"linked", "ip"})
    /\ parent' = [parent EXCEPT !.local = ok]

\* esp_mesh_lite_connect.
SdkConnect == sta' = IF sta = "off" THEN "trying" ELSE sta

-----------------------------------------------------------------------------
(* The net monitor of a root, with mesh_root_manage_sta_reconnect.         *)

WantPause == mon.wired /\ (paused \/ ~mon.wifi)

\* The mutex is held across the call only when there is something to change.
Manage ==
    /\ mon.at = "manage"
    /\ IF ~MeshPaused /\ WantPause # paused /\ mutex = "free"
       THEN /\ paused' = WantPause
            /\ mutex' = "monitor"
            /\ mon' = [mon EXCEPT !.at = "call"]
       ELSE /\ mutex = "free" \/ TakeFails("monitor")
            /\ mon' = [mon EXCEPT !.at = "dns"]
            /\ UNCHANGED <<paused, mutex>>
    /\ UNCHANGED <<role, budget, interfaces, start, net, fresh, netif, flag, plan, left, parent,
                   heal, failover, rtc, saved, heals>>

ManageCall(ok) ==
    /\ mon.at = "call"
    /\ mon' = [mon EXCEPT !.at = "dns"]
    /\ mutex' = "free"
    /\ IF paused
       THEN SdkDisconnect(ok) /\ Costs("fail", ok)
       ELSE ok /\ SdkConnect /\ UNCHANGED <<left, parent, budget>>
    /\ UNCHANGED <<role, eth, start, net, fresh, netif, flag, plan, paused, heal, failover, rtc,
                   saved, heals>>

\* dual_net_init and the monitor run on a root only.
DualNetTask ==
    /\ IsRoot
    /\ \/ (InitRegister \/ InitRead \/ InitCommit \/ InitMonitor \/ MonitorStep) /\ UNCHANGED budget
       \/ InitFailed /\ Spend("fail")
       \/ \E ok \in BOOLEAN : (RouteSet(ok) \/ Dns(ok)) /\ Costs("fail", ok)
    /\ UNCHANGED <<role, restartVars, meshVars>>

EthEvent ==
    /\ IsRoot
    /\ Spend("eth")
    /\ \E b \in BOOLEAN : EthLink(b) \/ EthGotIp(b)
       \/ EthLostIp
    /\ UNCHANGED <<role, restartVars, meshVars>>

-----------------------------------------------------------------------------
(* A child: mesh_health_task, with mesh_heal_watchdog and                  *)
(* mesh_heal_connect_fail_fast_path.                                       *)

healUnchanged == <<role, budget, eth, dualVars, flag, paused, failover, saved>>

HealthRead ==
    /\ role = "child" /\ heal.at = "read"
    /\ heal' = [heal EXCEPT !.at = "watch", !.online = flag]
    /\ parent' = IF parent.online /\ parent.stable THEN [parent EXCEPT !.fails = 0] ELSE parent
    /\ UNCHANGED <<healUnchanged, sta, restartVars, left, rtc, heals>>

\* "long": the parent has been lost for MESH_PARENT_LOST_SOFT_RESET_MS.
Watch(long) ==
    /\ heal.at = "watch"
    /\ long => heal.lost /\ ~heal.online /\ ~IsPlanned
    /\ heal' =
         IF IsPlanned THEN [heal EXCEPT !.at = "fast"]
         ELSE IF heal.online THEN [heal EXCEPT !.at = "fast", !.lost = FALSE, !.softs = 0]
         ELSE IF ~heal.lost THEN [heal EXCEPT !.at = "fast", !.lost = TRUE, !.softs = 0]
         ELSE IF ~long THEN [heal EXCEPT !.at = "fast"]
         ELSE IF heal.softs < SoftResetMax THEN [heal EXCEPT !.at = "soft"]
         ELSE IF rtc.heal < HealMax THEN [heal EXCEPT !.at = "restart"]
         ELSE [heal EXCEPT !.at = "fast"]
    /\ UNCHANGED <<healUnchanged, sta, restartVars, left, parent, rtc, heals>>

HealNext(at) == heal' = [heal EXCEPT !.at = at]

\* Fault: soft resets are not counted.
SoftNotCounted(n) == n

SoftCounted(n) == n + 1

\* Under the mutex, and only if the parent is still gone.
SoftReset(ok) ==
    /\ heal.at = "soft"
    /\ Take("health") /\ ~IsPlanned /\ ~flag
    /\ Costs("fail", ok)
    /\ heal' = [heal EXCEPT !.at = "gap", !.softs = SoftCounted(@)]
    /\ SdkDisconnect(ok)
    /\ UNCHANGED <<role, eth, dualVars, flag, plan, paused, failover, rtc, saved, heals>>

SoftResetSkipped ==
    /\ heal.at = "soft"
    /\ TakeFails("health") \/ (mutex = "free" /\ (IsPlanned \/ flag) /\ UNCHANGED mutex)
    /\ HealNext("fast")
    /\ UNCHANGED <<healUnchanged, sta, plan, left, parent, rtc, heals>>

\* After MESH_HEAL_SOFT_RESET_GAP_MS.
SoftCheck ==
    /\ heal.at = "gap"
    /\ HealNext(IF MeshPaused THEN "fast" ELSE "connect")
    /\ mutex' = IF MeshPaused THEN "free" ELSE mutex
    /\ UNCHANGED <<healUnchanged, sta, plan, left, parent, rtc, heals>>

SoftConnect ==
    /\ heal.at = "connect"
    /\ HealNext("fast")
    /\ mutex' = "free"
    /\ SdkConnect
    /\ UNCHANGED <<healUnchanged, plan, left, parent, rtc, heals>>

FastPath ==
    /\ heal.at = "fast"
    /\ IF IsPlanned \/ flag \/ parent.fails < FailThreshold
       THEN HealNext("read") /\ UNCHANGED parent
       ELSE IF rtc.heal < HealMax
       THEN HealNext("restartFast") /\ UNCHANGED parent
       ELSE /\ HealNext("read")
            /\ parent' = [parent EXCEPT !.fails = 0]
    /\ UNCHANGED <<healUnchanged, sta, restartVars, left, rtc, heals>>

\* Where mesh_heal_watchdog and the fast path go on when no restart came of it.
AfterHeal == IF heal.at \in {"restart", "wait"} THEN "fast" ELSE "read"

\* mesh_restart_without_parent: the checks under the mutex, before the delay.
HealBegin ==
    /\ heal.at \in {"restart", "restartFast"}
    /\ IF mutex = "free" /\ ~IsPlanned /\ ~flag /\ rtc.heal < HealMax
       THEN /\ Take("health")
            /\ HealNext(IF heal.at = "restart" THEN "wait" ELSE "waitFast")
       ELSE /\ TakeFails("health") \/ (mutex = "free" /\ UNCHANGED mutex)
            /\ HealNext(AfterHeal)
    /\ UNCHANGED <<healUnchanged, sta, plan, left, parent, rtc, heals>>

\* After the delay: back online, or a plan: the recovery is given up.
HealGiveUp ==
    /\ heal.at \in {"wait", "waitFast"}
    /\ flag \/ ~MayClaim
    /\ mutex' = "free"
    /\ HealNext(AfterHeal)
    /\ UNCHANGED <<healUnchanged, sta, plan, left, parent, rtc, heals>>

HealClaim ==
    /\ heal.at \in {"wait", "waitFast"}
    /\ ~flag /\ MayClaim
    /\ Claim
    /\ rtc' = [rtc EXCEPT !.heal = @ + 1]
    /\ heals' = heals + 1
    /\ HealNext("go")
    /\ UNCHANGED <<healUnchanged, sta, mutex, left, parent>>

\* esp_mesh_lite_erase_rtc_store and esp_restart.
HealRestart ==
    /\ heal.at = "go"
    /\ Boot(MemoryAtBoot(rtc, TRUE))
    /\ UNCHANGED <<budget, heals>>

-----------------------------------------------------------------------------
(* A root with a second router: root_failover_task.                        *)

foUnchanged == <<role, interfaces, dualVars, flag, left, paused, parent, heal, heals>>

Other(index) == 1 - index

FailoverQuiet == [failover EXCEPT !.requested = FALSE, !.active = FALSE, !.restart = FALSE,
                                  !.lost = FALSE]

\* A plan, or an Ethernet that works, puts everything else off.
FailoverPutOff ==
    /\ role = "root" /\ failover.at = "loop"
    /\ IsPlanned \/ HasEthIp
    /\ failover' = FailoverQuiet
    /\ rtc' = IF IsPlanned /\ ~failover.trial THEN [rtc EXCEPT !.trial = NoTrial] ELSE rtc
    /\ UNCHANGED <<foUnchanged, budget, restartVars, saved>>

FailoverTurn ==
    role = "root" /\ failover.at = "loop" /\ ~IsPlanned /\ ~HasEthIp

\* The uplink on trial has worked: save_uplink_index.
TrialSave(ok) ==
    /\ FailoverTurn /\ failover.trial /\ failover.ok
    /\ Costs("fail", ok)
    /\ saved' = IF ok THEN failover.index ELSE saved
    /\ rtc' = IF ok THEN [rtc EXCEPT !.trial = NoTrial] ELSE rtc
    /\ failover' = [failover EXCEPT !.at = IF ok THEN "trialDone" ELSE "loop"]
    /\ UNCHANGED <<foUnchanged, restartVars>>

\* ... or has not, for FAILOVER_LOST_IP_MS.
TrialWait(long) ==
    /\ FailoverTurn /\ failover.trial /\ ~failover.ok
    /\ long => failover.lost
    /\ failover' = [failover EXCEPT !.lost = TRUE, !.at = IF long THEN "trialDone" ELSE "loop"]
    /\ rtc' = IF long THEN [rtc EXCEPT !.trial = NoTrial] ELSE rtc
    /\ UNCHANGED <<foUnchanged, budget, restartVars, saved>>

\* Fault: the restart is given up whether or not the Ethernet is there.
TrialStays ==
    /\ failover.at = "trialDone"
    /\ failover' = [failover EXCEPT !.at = "loop"]
    /\ UNCHANGED <<foUnchanged, budget, restartVars, rtc, saved>>

TrialDone ==
    /\ failover.at = "trialDone"
    /\ failover' = [failover EXCEPT !.at = IF HasEthIp THEN "loop" ELSE "claim"]
    /\ UNCHANGED <<foUnchanged, budget, restartVars, rtc, saved>>

\* "cool": FAILOVER_RETRY_COOLDOWN_MS without network; "long": FAILOVER_LOST_IP_MS
\* without network and FAILOVER_SCAN_INTERVAL_MS since the last scan.
FailoverWatch(cool, long, ok) ==
    /\ FailoverTurn /\ ~failover.trial
    /\ LET attempts == IF ~flag /\ cool /\ rtc.attempts >= TrialMax THEN 0 ELSE rtc.attempts
           scan     == ~flag /\ long /\ attempts < TrialMax /\ ~failover.requested
       IN /\ cool => long /\ ~flag /\ rtc.attempts >= TrialMax
          /\ long => ~flag /\ failover.lost
          /\ ~ok => scan
          /\ Costs("fail", ok)
          /\ rtc' = [rtc EXCEPT !.attempts = attempts]
          /\ failover' = [failover EXCEPT !.at = "decide", !.lost = ~flag,
                                          !.requested = @ \/ (scan /\ ok)]
    /\ UNCHANGED <<foUnchanged, restartVars, saved>>

\* scan_start_cb, in the SDK's task.
ScanStart ==
    /\ failover.requested /\ ~failover.active
    /\ failover' = [failover EXCEPT !.active = TRUE]
    /\ UNCHANGED <<foUnchanged, budget, restartVars, rtc, saved>>

\* scan_done_handler: "found" says whether the other router is among the results.
\* SCAN_DONE comes for the SDK's own scans too.
ScanDone(found) ==
    /\ role = "root" /\ (failover.requested \/ failover.active)
    /\ found => failover.active /\ ~IsPlanned /\ ~flag /\ ~HasEthIp
    /\ failover' =
         IF IsPlanned \/ failover.active
         THEN [failover EXCEPT !.requested = FALSE, !.active = FALSE, !.restart = @ \/ found]
         ELSE failover
    /\ UNCHANGED <<foUnchanged, budget, restartVars, rtc, saved>>

\* scan_end_cb, in the SDK's task.
ScanEnd ==
    /\ failover.requested
    /\ failover' = [failover EXCEPT !.requested = FALSE, !.active = FALSE]
    /\ UNCHANGED <<foUnchanged, budget, restartVars, rtc, saved>>

\* Attempts count up to TrialMax: more of them make no difference.
FailoverDecide ==
    /\ failover.at = "decide"
    /\ LET go == failover.restart /\ ~flag /\ ~HasEthIp
       IN /\ failover' = [failover EXCEPT !.restart = go, !.at = IF go THEN "guard" ELSE "loop"]
          /\ rtc' = IF go
                    THEN [rtc EXCEPT !.trial = Other(failover.index),
                                     !.attempts = IF @ < TrialMax THEN @ + 1 ELSE @]
                    ELSE rtc
    /\ UNCHANGED <<foUnchanged, budget, restartVars, saved>>

\* The network came back within the 200 ms before the restart.
FailoverGuard ==
    /\ failover.at = "guard"
    /\ IF HasEthIp \/ flag
       THEN /\ failover' = [failover EXCEPT !.restart = FALSE, !.at = "loop"]
            /\ rtc' = [rtc EXCEPT !.trial = NoTrial, !.attempts = 0]
       ELSE /\ failover' = [failover EXCEPT !.at = "claim"]
            /\ UNCHANGED rtc
    /\ UNCHANGED <<foUnchanged, budget, restartVars, saved>>

\* mesh_failover_restart.
FailoverClaim ==
    /\ failover.at = "claim"
    /\ IF mutex = "free" /\ MayClaim
       THEN /\ Take("failover")
            /\ Claim
            /\ failover' = [failover EXCEPT !.at = "go"]
       ELSE /\ TakeFails("failover") \/ (mutex = "free" /\ UNCHANGED mutex)
            /\ failover' = [failover EXCEPT !.at = "loop"]
            /\ UNCHANGED plan
    /\ UNCHANGED <<foUnchanged, budget, rtc, saved>>

FailoverRestart ==
    /\ failover.at = "go"
    /\ Boot(MemoryAtBoot(rtc, TRUE))
    /\ UNCHANGED <<budget, heals>>

-----------------------------------------------------------------------------
(* The restart service.                                                    *)

planUnchanged == <<role, eth, dualVars, flag, paused, heal, failover, rtc, saved, heals>>

PlanCommand ==
    /\ Spend("plan")
    /\ SchedulePlan
    /\ UNCHANGED <<planUnchanged, sta, left, parent>>

PauseBegin ==
    /\ \/ EnterPause
       \/ \E taken \in BOOLEAN : PauseAttempt(taken)
    /\ UNCHANGED <<planUnchanged, budget, sta, left, parent>>

PauseCall(ok) ==
    /\ PauseDone(ok)
    /\ Costs("fail", ok)
    /\ SdkDisconnect(ok)
    /\ UNCHANGED planUnchanged

-----------------------------------------------------------------------------

Service == PauseBegin \/ PlannedRestart \/ \E ok \in BOOLEAN : PauseCall(ok)

Monitor == DualNetTask \/ Manage \/ \E ok \in BOOLEAN : ManageCall(ok)

Health ==
    \/ HealthRead
    \/ \E b \in BOOLEAN : Watch(b) \/ SoftReset(b)
    \/ SoftResetSkipped \/ SoftCheck \/ SoftConnect \/ FastPath
    \/ HealBegin \/ HealGiveUp \/ HealClaim \/ HealRestart

Failover ==
    \/ FailoverPutOff
    \/ \E b \in BOOLEAN : TrialSave(b) \/ TrialWait(b)
    \/ TrialDone
    \/ \E cool, long, ok \in BOOLEAN : FailoverWatch(cool, long, ok)
    \/ FailoverDecide \/ FailoverGuard \/ FailoverClaim \/ FailoverRestart

Scan == ScanStart \/ ScanEnd \/ \E found \in BOOLEAN : ScanDone(found)

Environment ==
    \/ EthEvent \/ GotIp \/ LostIp \/ Disconnected \/ Stable
    \/ PlanCommand
    \/ \E software \in BOOLEAN : OtherRestart(software)

Next == Service \/ Monitor \/ Health \/ Failover \/ Scan \/ LeftEvent \/ Environment

\* Tasks and pending events go on.  A station that is lost for good is lost
\* "for long" in the end, which the health task finds again and again.
Fairness ==
    /\ WF_vars(Service) /\ WF_vars(Monitor) /\ WF_vars(Health) /\ WF_vars(Failover)
    /\ WF_vars(LeftEvent)
    /\ SF_vars(Watch(TRUE)) /\ SF_vars(TrialWait(TRUE))

Spec == Init /\ [][Next]_vars /\ Fairness

-----------------------------------------------------------------------------
(* Properties.                                                             *)

\* Every variable has its type (s_state, the flags of mesh.c, system_restart.c).
TypeOK ==
    /\ DualTypeOK /\ PlanTypeOK
    /\ role \in Roles
    /\ budget \in [Budgets -> Nat]
    /\ left \in BOOLEAN /\ paused \in BOOLEAN
    /\ parent \in [online : BOOLEAN, stable : BOOLEAN, fails : 0 .. FailThreshold, local : BOOLEAN]
    /\ heal \in [at : {"read", "watch", "soft", "gap", "connect", "fast", "restart", "restartFast", "wait",
                       "waitFast", "go"},
                 online : BOOLEAN, lost : BOOLEAN, softs : 0 .. SoftResetMax]
    /\ failover \in [at : {"loop", "trialDone", "decide", "guard", "claim", "go"},
                     lost : BOOLEAN, requested : BOOLEAN, active : BOOLEAN, restart : BOOLEAN,
                     trial : BOOLEAN, ok : BOOLEAN, index : 0 .. 1]
    /\ rtc \in [heal : Nat, attempts : 0 .. TrialMax, trial : 0 .. 2]
    /\ saved \in 0 .. 1 /\ heals \in Nat

\* Whenever the monitor has applied the latest revision, all it is in charge of
\* follows the interfaces: the default route, the uplink told to MQTT,
\* Network_Flag, and the station's reconnection
\* (dual_net_monitor_task, mesh_root_manage_sta_reconnect).
AppliedRoute ==
    "applied" \in fresh /\ ~left /\ ~plan.planned /\ ~plan.committed
        => /\ net.active = Choose(net)
           /\ net.active # "none" => netif = net.active
           /\ flag = (eth = "ip" \/ sta = "ip")
           /\ ~WiredPreferred(net) => ~paused
           /\ WiredPreferred(net) /\ ~net.wifi => paused

\* However the events fall, the monitor gets to apply the latest revision, again
\* and again (dual_net_update_route, which drops a choice made of an older one).
RouteSettles == start.at = "on" ~> "applied" \in fresh \/ start.at # "on"

\* system_restart.c and mesh.c together keep the promises of RestartArbiter: one
\* restart, planned or recovery, and the budget of restarts without a parent.
Phase ==
    CASE plan.planned /\ plan.committed -> "both"
      [] plan.planned -> "planned"
      [] plan.committed -> "recovering"
      [] OTHER -> "running"

Arbiter == INSTANCE RestartArbiter WITH Max <- HealMax, phase <- Phase

RestartPromise == Arbiter!Spec

\* Once the restart service has left the mesh, no task connects the station
\* again before the restart (mesh_pause_for_restart, mesh_heal_watchdog).
PausedStaysAway == plan.disconnected => sta = "off"

\* A child that has lost its parent does not stay idle: it is reconnected, or
\* restarts, until the budget of its power cycle is used up
\* (mesh_heal_watchdog, mesh_restart_without_parent).
LostChildActs ==
    role = "child" => []<>(flag \/ plan.planned \/ plan.committed \/ rtc.heal = HealMax)

\* An uplink on trial does not stay on trial (root_failover_task): unless the
\* Ethernet takes over, the node restarts with the trial over.
TrialEnds == failover.trial ~> ~failover.trial \/ HasEthIp
=============================================================================
