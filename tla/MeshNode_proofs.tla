--------------------------- MODULE MeshNode_proofs ---------------------------
(***************************************************************************)
(* MeshNode, for any number of events, attempts and restarts: its types;   *)
(* Restarts, who holds the mesh control mutex and what it keeps apart; and *)
(* Route, what the net monitor has seen in the pass under way and which of *)
(* it is still true.  From the first two, the refinement of RestartArbiter *)
(* and PausedStaysAway; from all three, AppliedRoute.                      *)
(***************************************************************************)
EXTENDS MeshNode, TLAPS

(* Types. *)

Starts == [at : {"down", "registered", "read", "committed", "on", "failed"},
           eth : BOOLEAN, wifi : BOOLEAN]
Nets == [raw : BOOLEAN, up : BOOLEAN, wifi : BOOLEAN, ready : BOOLEAN,
         ok : 0 .. ProbeOk, bad : 0 .. ProbeFail, active : Uplink, told : BOOLEAN]
Copies == OfRevision \cup OfEthGeneration \cup OfWifiGeneration
Mons == [at : {"parked", "loop", "route", "set", "commit", "flag", "publish", "sta", "manage",
               "call", "dns", "mqtt", "probe", "connect"},
         target : Uplink, flag : BOOLEAN, wired : BOOLEAN, wifi : BOOLEAN]
Plans == [planned : BOOLEAN, paused : BOOLEAN, committed : BOOLEAN, at : {"idle", "leaving"},
          attempts : 0 .. DisconnectMax, disconnected : BOOLEAN]
Parents == [online : BOOLEAN, stable : BOOLEAN, fails : 0 .. FailThreshold, local : BOOLEAN]
Heals == [at : {"read", "watch", "soft", "gap", "connect", "fast", "restart", "restartFast",
                "wait", "waitFast", "go"},
          online : BOOLEAN, lost : BOOLEAN, softs : 0 .. SoftResetMax]
Failovers == [at : {"loop", "trialDone", "decide", "guard", "claim", "go"},
              lost : BOOLEAN, requested : BOOLEAN, active : BOOLEAN, restart : BOOLEAN,
              trial : BOOLEAN, ok : BOOLEAN, index : 0 .. 1]
Memories == [heal : Nat, attempts : 0 .. TrialMax, trial : 0 .. 2]

DualTypes ==
    /\ eth \in {"down", "link", "ip"} /\ sta \in {"off", "trying", "linked", "ip"}
    /\ start \in Starts /\ net \in Nets /\ fresh \subseteq Copies
    /\ mon \in Mons /\ netif \in Uplink /\ flag \in BOOLEAN

MeshTypes ==
    /\ plan \in Plans /\ mutex \in {"free", "plan", "health", "failover", "monitor"}
    /\ role \in Roles /\ budget \in [Budgets -> Nat]
    /\ left \in BOOLEAN /\ paused \in BOOLEAN
    /\ parent \in Parents /\ heal \in Heals /\ failover \in Failovers
    /\ rtc \in Memories /\ saved \in 0 .. 1 /\ heals \in Nat

\* A soft reset begins only while the budget of soft resets lasts.
SoftsLeft == heal.at = "soft" => heal.softs < SoftResetMax

Types == DualTypes /\ MeshTypes /\ SoftsLeft

\* The named sets of records are those of TypeOK.
LEMMA TypesTypeOK == Types => TypeOK
BY DEF Types, DualTypes, MeshTypes, TypeOK, DualTypeOK, PlanTypeOK, Starts, Nets, Copies, Mons,
       Plans, Parents, Heals, Failovers, Memories, Roles

\* The records that everything starts with.
LEMMA NothingTyped ==
    /\ NoStart \in Starts /\ NoNet \in Nets /\ Parked \in Mons /\ NoPlan \in Plans
    /\ NoParent \in Parents /\ NoHeal \in Heals /\ NoFailover \in Failovers
    /\ [heal |-> 0, attempts |-> 0, trial |-> NoTrial] \in Memories
<1> USE ProbeAssumption, DisconnectAssumption, BudgetAssumption
<1>1. NoStart \in Starts
  BY DEF NoStart, Starts
<1>2. NoNet \in Nets
  BY DEF NoNet, Nets, Uplink
<1>3. Parked \in Mons
  BY DEF Parked, Mons, Uplink
<1>4. NoPlan \in Plans
  BY DEF NoPlan, Plans
<1>5. NoParent \in Parents
  BY DEF NoParent, Parents
<1>6. NoHeal \in Heals
  BY DEF NoHeal, Heals
<1>7. NoFailover \in Failovers
  BY DEF NoFailover, Failovers
<1>8. [heal |-> 0, attempts |-> 0, trial |-> NoTrial] \in Memories
  BY DEF Memories, NoTrial
<1> QED
  BY <1>1, <1>2, <1>3, <1>4, <1>5, <1>6, <1>7, <1>8

LEMMA InitTypes == Init => Types
<1> SUFFICES ASSUME Init PROVE Types
  OBVIOUS
<1>1. DualTypes
  BY NothingTyped DEF Init, DualInit, DualTypes, Uplink
<1>2. PICK s \in Scenarios : role = s.role /\ budget = s.budget
  BY DEF Init
<1>3. role \in Roles /\ budget \in [Budgets -> Nat]
  BY <1>2, ScenariosAssumption
<1>4. MeshTypes
  <2>1. plan \in Plans /\ mutex = "free" /\ parent \in Parents /\ heal \in Heals /\ failover \in Failovers
    BY NothingTyped DEF Init, PlanInit
  <2>2. rtc \in Memories
    BY NothingTyped DEF Init
  <2>3. left \in BOOLEAN /\ paused \in BOOLEAN
    BY DEF Init
  <2>4. saved \in 0 .. 1 /\ heals \in Nat
    BY DEF Init
  <2> QED
    BY <2>1, <2>2, <2>3, <2>4, <1>3 DEF MeshTypes
<1>5. SoftsLeft
  BY DEF Init, NoHeal, SoftsLeft
<1> QED
  BY <1>1, <1>4, <1>5 DEF Types

\* Budgets only go down, and stay natural numbers.
LEMMA SpendTyped ==
    ASSUME budget \in [Budgets -> Nat], NEW cost \in Budgets, NEW ok,
           Spend(cost) \/ Costs(cost, ok) \/ UNCHANGED budget
    PROVE  budget' \in [Budgets -> Nat]
BY DEF Spend, Costs

\* A restart leaves every variable with its type, whatever RTC memory holds.
LEMMA BootTypes ==
    ASSUME Types, NEW memory \in Memories, Boot(memory), budget' \in [Budgets -> Nat], heals' \in Nat
    PROVE  Types'
<1>1. DualTypes'
  BY NothingTyped DEF Types, DualTypes, Boot, Uplink
<1>2. failover' \in Failovers
  <2>1. NoFailover \in Failovers /\ memory.trial \in 0 .. 2 /\ saved \in 0 .. 1
    BY NothingTyped DEF Types, MeshTypes, Memories
  <2>2. [NoFailover EXCEPT !.index = saved] \in Failovers
    BY <2>1 DEF Failovers
  <2>3. CASE IsRoot /\ memory.trial # NoTrial
    <3>1. memory.trial \in 0 .. 1
      BY <2>1, <2>3 DEF NoTrial
    <3>2. [NoFailover EXCEPT !.trial = TRUE, !.index = memory.trial] \in Failovers
      BY <2>1, <3>1 DEF Failovers
    <3> QED
      BY <2>3, <3>2 DEF Boot
  <2> QED
    BY <2>2, <2>3 DEF Boot
<1>3. MeshTypes'
  BY NothingTyped, <1>2 DEF Types, MeshTypes, Boot
<1>4. SoftsLeft'
  BY DEF Boot, NoHeal, SoftsLeft
<1> QED
  BY <1>1, <1>3, <1>4 DEF Types

\* esp_mesh_lite_disconnect and esp_mesh_lite_connect.
LEMMA DisconnectTypes ==
    ASSUME Types, NEW ok \in BOOLEAN, SdkDisconnect(ok)
    PROVE  sta' = "off" /\ left' \in BOOLEAN /\ parent' \in Parents
BY DEF Types, DualTypes, MeshTypes, SdkDisconnect, Parents

LEMMA ConnectTypes ==
    ASSUME Types, SdkConnect
    PROVE  sta' \in {"off", "trying", "linked", "ip"}
BY DEF Types, DualTypes, SdkConnect

LEMMA ServiceTypes == Types /\ Service => Types'
<1> SUFFICES ASSUME Types, Service PROVE Types'
  OBVIOUS
<1> USE DisconnectAssumption
<1>1. CASE PauseBegin
  <2>1. plan' \in Plans
    <3>1. CASE EnterPause
      BY <3>1 DEF EnterPause, Types, MeshTypes, Plans
    <3>2. ASSUME NEW taken \in BOOLEAN, PauseAttempt(taken) PROVE plan' \in Plans
      <4>1. plan.attempts + 1 \in 0 .. DisconnectMax
        BY <3>2 DEF PauseAttempt, MayAttempt, Types, MeshTypes, Plans
      <4> QED
        BY <3>2, <4>1 DEF PauseAttempt, Types, MeshTypes, Plans
    <3> QED
      BY <1>1, <3>1, <3>2 DEF PauseBegin
  <2>2. mutex' \in {"free", "plan", "health", "failover", "monitor"}
    BY <1>1 DEF PauseBegin, EnterPause, PauseAttempt, Types, MeshTypes, Take, TakeFails
  <2>3. UNCHANGED <<role, budget, eth, sta, start, net, fresh, mon, netif, flag, left, paused,
                    parent, heal, failover, rtc, saved, heals>>
    BY <1>1 DEF PauseBegin, planUnchanged, dualVars
  <2>4. DualTypes'
    BY <2>3 DEF Types, DualTypes
  <2>5. MeshTypes'
    BY <2>1, <2>2, <2>3 DEF Types, MeshTypes
  <2>6. SoftsLeft'
    BY <2>3 DEF Types, SoftsLeft
  <2> QED
    BY <2>4, <2>5, <2>6 DEF Types
<1>2. CASE PlannedRestart
  BY <1>2, BootTypes DEF PlannedRestart, MemoryAtBoot, Types, MeshTypes
<1>3. ASSUME NEW ok \in BOOLEAN, PauseCall(ok) PROVE Types'
  <2>1. plan' \in Plans /\ mutex' = "free"
    BY <1>3 DEF PauseCall, PauseDone, Types, MeshTypes, Plans
  <2>2. budget' \in [Budgets -> Nat]
    BY <1>3, SpendTyped, "fail" \in Budgets DEF PauseCall, Types, MeshTypes, Budgets
  <2>3. /\ sta' \in {"off", "trying", "linked", "ip"}
        /\ left' \in BOOLEAN /\ parent' \in Parents
    BY <1>3, DisconnectTypes DEF PauseCall
  <2>4. UNCHANGED <<role, eth, start, net, fresh, mon, netif, flag, paused, heal, failover,
                    rtc, saved, heals>>
    BY <1>3 DEF PauseCall, planUnchanged, dualVars
  <2>5. DualTypes'
    BY <2>3, <2>4 DEF Types, DualTypes
  <2>6. MeshTypes'
    BY <2>1, <2>2, <2>3, <2>4 DEF Types, MeshTypes
  <2>7. SoftsLeft'
    BY <2>4 DEF Types, SoftsLeft
  <2> QED
    BY <2>5, <2>6, <2>7 DEF Types
<1> QED
  BY <1>1, <1>2, <1>3 DEF Service

\* The operators on s_state, and the changes the handlers make to it.
LEMMA RecordTypes ==
    ASSUME NEW n \in Nets, NEW b \in BOOLEAN, NEW c \in BOOLEAN
    PROVE  /\ ClearProbe(n) \in Nets
           /\ [n EXCEPT !.raw = b, !.up = c] \in Nets
           /\ [n EXCEPT !.up = c] \in Nets
           /\ [n EXCEPT !.wifi = b] \in Nets
           /\ Choose(n) \in Uplink
           /\ EthOnline(n) \in BOOLEAN /\ Online(n) \in BOOLEAN /\ WiredPreferred(n) \in BOOLEAN
<1>1. ClearProbe(n) \in Nets
  <2>1. 0 \in 0 .. ProbeOk /\ 0 \in 0 .. ProbeFail
    BY ProbeAssumption
  <2> QED
    BY <2>1 DEF ClearProbe, Nets
<1>2. /\ [n EXCEPT !.raw = b, !.up = c] \in Nets
      /\ [n EXCEPT !.up = c] \in Nets
      /\ [n EXCEPT !.wifi = b] \in Nets
  BY DEF Nets
<1>3. Choose(n) \in Uplink
  BY DEF Choose, Uplink
<1>4. EthOnline(n) \in BOOLEAN /\ Online(n) \in BOOLEAN /\ WiredPreferred(n) \in BOOLEAN
  BY DEF EthOnline, Online, WiredPreferred, Nets
<1> QED
  BY <1>1, <1>2, <1>3, <1>4

\* The counters of the probe stop at their bounds.
LEMMA CountTypes ==
    ASSUME NEW n \in Nets, NEW reachable \in BOOLEAN
    PROVE  Count(n, reachable) \in Nets
<1> DEFINE ok == IF n.ok < ProbeOk THEN n.ok + 1 ELSE n.ok
           bad == IF n.bad < ProbeFail THEN n.bad + 1 ELSE n.bad
<1>1. /\ ok \in 0 .. ProbeOk /\ bad \in 0 .. ProbeFail
      /\ 0 \in 0 .. ProbeOk /\ 0 \in 0 .. ProbeFail
  BY ProbeAssumption DEF Nets
<1>2. n.ready \in BOOLEAN
  BY DEF Nets
<1>3. (n.ready \/ ok = ProbeOk) \in BOOLEAN /\ (n.ready /\ bad < ProbeFail) \in BOOLEAN
  OBVIOUS
<1> HIDE DEF ok, bad
<1>4. [n EXCEPT !.ok = ok, !.bad = 0, !.ready = n.ready \/ ok = ProbeOk] \in Nets
  BY <1>1, <1>3 DEF Nets
<1>5. [n EXCEPT !.ok = 0, !.bad = bad, !.ready = n.ready /\ bad < ProbeFail] \in Nets
  BY <1>1, <1>3 DEF Nets
<1> QED
  BY <1>4, <1>5 DEF Count, ok, bad

\* An event of an interface, handled by dual_net or not.
LEMMA HandleTypes ==
    ASSUME Types, NEW n \in Nets, NEW generation, Handle(n, generation)
    PROVE  net' \in Nets /\ fresh' \subseteq Copies
BY DEF Types, DualTypes, Handle

\* A step that is dual_net's alone.
LEMMA OwnTypes ==
    ASSUME Types, DualTypes', budget' \in [Budgets -> Nat],
           UNCHANGED <<role, restartVars, meshVars>>
    PROVE  Types'
<1>1. UNCHANGED <<role, plan, mutex, left, paused, parent, heal, failover, rtc, saved, heals>>
  BY DEF restartVars, meshVars
<1> QED
  BY <1>1 DEF Types, MeshTypes, SoftsLeft

LEMMA EthTypes ==
    ASSUME Types, EthEvent
    PROVE  Types'
<1>1. net \in Nets
  BY DEF Types, DualTypes
<1>2. budget' \in [Budgets -> Nat]
  BY SpendTyped, "eth" \in Budgets DEF EthEvent, Types, MeshTypes, Budgets
<1>3. ASSUME NEW up \in BOOLEAN, EthLink(up) PROVE DualTypes'
  <2>1. ClearProbe([net EXCEPT !.raw = up, !.up = FALSE]) \in Nets
    BY <1>1, RecordTypes
  <2>2. net' \in Nets /\ fresh' \subseteq Copies
    BY <1>3, <2>1, HandleTypes DEF EthLink
  <2> QED
    BY <1>3, <2>2 DEF EthLink, Types, DualTypes
<1>4. ASSUME NEW same \in BOOLEAN, EthGotIp(same) PROVE DualTypes'
  <2>1. /\ [net EXCEPT !.raw = TRUE, !.up = TRUE] \in Nets
        /\ ClearProbe([net EXCEPT !.raw = TRUE, !.up = TRUE]) \in Nets
    BY <1>1, RecordTypes
  <2>2. net' \in Nets /\ fresh' \subseteq Copies
    BY <1>4, <2>1, HandleTypes DEF EthGotIp
  <2> QED
    BY <1>4, <2>2 DEF EthGotIp, Types, DualTypes
<1>5. ASSUME EthLostIp PROVE DualTypes'
  <2>1. ClearProbe([net EXCEPT !.up = FALSE]) \in Nets
    BY <1>1, RecordTypes
  <2>2. net' \in Nets /\ fresh' \subseteq Copies
    BY <1>5, <2>1, HandleTypes DEF EthLostIp
  <2> QED
    BY <1>5, <2>2 DEF EthLostIp, Types, DualTypes
<1>6. DualTypes'
  BY <1>3, <1>4, <1>5 DEF EthEvent
<1> QED
  BY <1>2, <1>6, OwnTypes DEF EthEvent

\* The monitor's own steps, and those of dual_net_init.
LEMMA DualNetTypes ==
    ASSUME Types, DualNetTask
    PROVE  Types'
<1>1. budget' \in [Budgets -> Nat]
  BY SpendTyped, "fail" \in Budgets DEF DualNetTask, Types, MeshTypes, Budgets
<1> SUFFICES DualTypes'
  BY <1>1, OwnTypes DEF DualNetTask
<1> USE DEF Types, DualTypes, interfaces
<1>2. net \in Nets
  OBVIOUS
<1>3. /\ EthOnline(net) \in BOOLEAN /\ Online(net) \in BOOLEAN /\ WiredPreferred(net) \in BOOLEAN
      /\ Choose(net) \in Uplink /\ net.wifi \in BOOLEAN
  BY <1>2, RecordTypes DEF Nets
<1>4. CASE InitRegister
  BY <1>4 DEF InitRegister, Starts, Copies, OfEthGeneration, OfWifiGeneration
<1>5. CASE InitRead
  BY <1>5 DEF InitRead, Starts
<1>6. CASE InitCommit
  <2>1. start.eth \in BOOLEAN /\ start.wifi \in BOOLEAN
    BY DEF Starts
  <2>2. net' \in Nets
    BY <1>2, <1>6, <2>1, RecordTypes DEF InitCommit, TakeRead
  <2> QED
    BY <1>6, <2>2, NothingTyped DEF InitCommit, Starts
<1>7. CASE InitMonitor
  BY <1>7 DEF InitMonitor, Starts, Mons
<1>8. CASE InitFailed
  BY <1>8, NothingTyped DEF InitFailed, Starts
<1>9. CASE Loop
  BY <1>9 DEF Loop, At, Mons, Copies, OfRevision
<1>10. CASE RouteSnapshot
  BY <1>10, <1>3 DEF RouteSnapshot, Mons, Copies, OfRevision
<1>11. ASSUME NEW ok \in BOOLEAN, RouteSet(ok) PROVE DualTypes'
  BY <1>11 DEF RouteSet, At, Mons
<1>12. CASE RouteCommit
  <2>1. mon.target \in Uplink
    BY DEF Mons
  <2>2. [net EXCEPT !.active = mon.target] \in Nets
    BY <2>1 DEF Nets
  <2> QED
    BY <1>12, <2>2 DEF RouteCommit, At, Mons
<1>13. CASE FlagRead
  BY <1>13, <1>3 DEF FlagRead, Mons
<1>14. CASE FlagPublish
  BY <1>14 DEF FlagPublish, At, Mons
<1>15. CASE StaRead
  BY <1>15, <1>3 DEF StaRead, Mons
<1>16. ASSUME NEW ok \in BOOLEAN, Dns(ok) PROVE DualTypes'
  BY <1>16 DEF Dns, At, Applied, Mons, Copies, OfRevision
<1>17. ASSUME NEW due \in BOOLEAN, Schedule(due) PROVE DualTypes'
  <2>1. (net.told \/ Online(net)) \in BOOLEAN
    BY <1>3 DEF Nets
  <2>2. Told(net) \in Nets
    BY <2>1 DEF Told, Nets
  <2> QED
    BY <1>17, <2>2 DEF Schedule, At, Mons, Copies, OfEthGeneration
<1>18. CASE ProbeBegin
  BY <1>18 DEF ProbeBegin, At, Mons, Copies, OfEthGeneration
<1>19. ASSUME NEW reachable \in BOOLEAN, ProbeResult(reachable) PROVE DualTypes'
  <2>1. Count(net, reachable) \in Nets
    BY <1>2, CountTypes
  <2> QED
    BY <1>19, <2>1 DEF ProbeResult, At, Mons
<1> QED
  BY <1>4, <1>5, <1>6, <1>7, <1>8, <1>9, <1>10, <1>11, <1>12, <1>13, <1>14, <1>15, <1>16,
     <1>17, <1>18, <1>19 DEF DualNetTask, MonitorStep, ProbeAnswers

LEMMA MonitorTypes == Types /\ Monitor => Types'
<1> SUFFICES ASSUME Types, Monitor PROVE Types'
  OBVIOUS
<1>1. CASE DualNetTask
  BY <1>1, DualNetTypes
<1>2. CASE Manage
  <2>1. mon' \in Mons
    BY <1>2 DEF Manage, Types, DualTypes, Mons
  <2>2. (mon.wired /\ (paused \/ ~mon.wifi)) \in BOOLEAN
    OBVIOUS
  <2>3. paused' \in BOOLEAN
    BY <1>2, <2>2 DEF Manage, Types, MeshTypes, WantPause
  <2>4. mutex' \in {"free", "plan", "health", "failover", "monitor"}
    BY <1>2 DEF Manage, TakeFails, Types, MeshTypes
  <2>5. UNCHANGED <<role, budget, eth, sta, start, net, fresh, netif, flag, plan, left, parent,
                    heal, failover, rtc, saved, heals>>
    BY <1>2 DEF Manage, interfaces
  <2>6. DualTypes'
    BY <2>1, <2>5 DEF Types, DualTypes
  <2>7. MeshTypes'
    BY <2>3, <2>4, <2>5 DEF Types, MeshTypes
  <2>8. SoftsLeft'
    BY <2>5 DEF Types, SoftsLeft
  <2> QED
    BY <2>6, <2>7, <2>8 DEF Types
<1>3. ASSUME NEW ok \in BOOLEAN, ManageCall(ok) PROVE Types'
  <2>1. mon' \in Mons
    BY <1>3 DEF ManageCall, Types, DualTypes, Mons
  <2>2. budget' \in [Budgets -> Nat]
    BY <1>3, SpendTyped, "fail" \in Budgets DEF ManageCall, Types, MeshTypes, Budgets
  <2>3. /\ sta' \in {"off", "trying", "linked", "ip"}
        /\ left' \in BOOLEAN /\ parent' \in Parents
    <3>1. CASE paused
      BY <1>3, <3>1, DisconnectTypes DEF ManageCall
    <3>2. CASE ~paused
      BY <1>3, <3>2, ConnectTypes DEF ManageCall, Types, MeshTypes
    <3> QED
      BY <3>1, <3>2
  <2>4. UNCHANGED <<role, eth, start, net, fresh, netif, flag, plan, paused,
                    heal, failover, rtc, saved, heals>>
    BY <1>3 DEF ManageCall
  <2>5. DualTypes'
    BY <2>1, <2>3, <2>4 DEF Types, DualTypes
  <2>6. MeshTypes'
    BY <1>3, <2>2, <2>3, <2>4 DEF Types, MeshTypes, ManageCall
  <2>7. SoftsLeft'
    BY <2>4 DEF Types, SoftsLeft
  <2> QED
    BY <2>5, <2>6, <2>7 DEF Types
<1> QED
  BY <1>1, <1>2, <1>3 DEF Monitor

LEMMA HealthTypes == Types /\ Health => Types'
<1> SUFFICES ASSUME Types, Health, ~HealRestart PROVE Types'
  <2>1. CASE HealRestart
    BY <2>1, BootTypes DEF HealRestart, MemoryAtBoot, Types, MeshTypes
  <2> QED
    BY <2>1
<1>1. /\ heal.softs \in 0 .. SoftResetMax /\ 0 \in 0 .. SoftResetMax
      /\ 0 \in 0 .. FailThreshold
      /\ heal.softs < SoftResetMax => SoftCounted(heal.softs) \in 0 .. SoftResetMax
  BY BudgetAssumption DEF Types, MeshTypes, Heals, SoftCounted
<1>2. UNCHANGED <<role, eth, start, net, fresh, mon, netif, flag, paused, failover, saved>>
  BY DEF Health, HealthRead, Watch, SoftReset, SoftResetSkipped, SoftCheck, SoftConnect, FastPath,
         HealBegin, HealGiveUp, HealClaim, healUnchanged, dualVars
<1>3. heal' \in Heals /\ SoftsLeft'
  <2> USE DEF Types, DualTypes, MeshTypes, Heals, SoftsLeft, HealNext
  <2>1. CASE HealthRead
    BY <2>1 DEF HealthRead
  <2>2. ASSUME NEW long \in BOOLEAN, Watch(long) PROVE heal' \in Heals /\ SoftsLeft'
    BY <2>2, <1>1 DEF Watch
  <2>3. ASSUME NEW ok \in BOOLEAN, SoftReset(ok) PROVE heal' \in Heals /\ SoftsLeft'
    BY <2>3, <1>1 DEF SoftReset
  <2>4. CASE SoftResetSkipped \/ SoftCheck \/ SoftConnect \/ FastPath
    BY <2>4 DEF SoftResetSkipped, SoftCheck, SoftConnect, FastPath
  <2>5. CASE HealBegin \/ HealGiveUp \/ HealClaim
    BY <2>5 DEF HealBegin, HealGiveUp, HealClaim, AfterHeal
  <2> QED
    BY <2>1, <2>2, <2>3, <2>4, <2>5 DEF Health
<1>4. mutex' \in {"free", "plan", "health", "failover", "monitor"}
  <2> USE DEF Types, MeshTypes, restartVars
  <2>1. CASE HealthRead \/ (\E b \in BOOLEAN : Watch(b)) \/ SoftResetSkipped \/ SoftCheck \/ SoftConnect
    BY <2>1 DEF HealthRead, Watch, SoftResetSkipped, TakeFails, SoftCheck, SoftConnect
  <2>2. CASE FastPath \/ HealBegin \/ HealGiveUp \/ HealClaim
    BY <2>2 DEF FastPath, HealBegin, Take, TakeFails, HealGiveUp, HealClaim
  <2>3. CASE \E b \in BOOLEAN : SoftReset(b)
    BY <2>3 DEF SoftReset, Take
  <2> QED
    BY <2>1, <2>2, <2>3 DEF Health
<1>5. plan' \in Plans
  BY DEF Types, MeshTypes, Plans, restartVars, Health, HealthRead, Watch, SoftReset, SoftResetSkipped,
         SoftCheck, SoftConnect, FastPath, HealBegin, HealGiveUp, HealClaim, Claim
<1>6. budget' \in [Budgets -> Nat]
  <2>1. CASE \E b \in BOOLEAN : SoftReset(b)
    BY <2>1, SpendTyped, "fail" \in Budgets DEF SoftReset, Types, MeshTypes, Budgets
  <2>2. CASE ~\E b \in BOOLEAN : SoftReset(b)
    <3>1. UNCHANGED budget
      BY <2>2 DEF Health, HealthRead, Watch, SoftResetSkipped, SoftCheck, SoftConnect, FastPath,
         HealBegin, HealGiveUp, HealClaim, healUnchanged
    <3> QED
      BY <3>1 DEF Types, MeshTypes
  <2> QED
    BY <2>1, <2>2
<1>7. sta' \in {"off", "trying", "linked", "ip"} /\ left' \in BOOLEAN /\ parent' \in Parents
  <2>1. CASE \E b \in BOOLEAN : SoftReset(b)
    BY <2>1, DisconnectTypes DEF SoftReset
  <2>2. CASE SoftConnect
    BY <2>2, ConnectTypes DEF SoftConnect, Types, MeshTypes
  <2>3. CASE HealthRead \/ FastPath
    <3>1. UNCHANGED <<sta, left>>
      BY <2>3 DEF HealthRead, FastPath
    <3>2. parent' \in Parents
      BY <2>3, <1>1 DEF HealthRead, FastPath, Types, MeshTypes, Parents
    <3> QED
      BY <3>1, <3>2 DEF Types, DualTypes, MeshTypes
  <2>4. CASE ~((\E b \in BOOLEAN : SoftReset(b)) \/ SoftConnect \/ HealthRead \/ FastPath)
    <3>1. UNCHANGED <<sta, left, parent>>
      BY <2>4 DEF Health, Watch, SoftResetSkipped, SoftCheck, HealBegin, HealGiveUp, HealClaim
    <3> QED
      BY <3>1 DEF Types, DualTypes, MeshTypes
  <2> QED
    BY <2>1, <2>2, <2>3, <2>4
<1>8. rtc' \in Memories /\ heals' \in Nat
  <2>1. CASE HealClaim
    BY <2>1 DEF HealClaim, Types, MeshTypes, Memories
  <2>2. CASE ~HealClaim
    <3>1. UNCHANGED <<rtc, heals>>
      BY <2>2 DEF Health, HealthRead, Watch, SoftReset, SoftResetSkipped, SoftCheck, SoftConnect,
             FastPath, HealBegin, HealGiveUp
    <3> QED
      BY <3>1 DEF Types, MeshTypes
  <2> QED
    BY <2>1, <2>2
<1>9. DualTypes'
  BY <1>2, <1>7 DEF Types, DualTypes
<1>10. MeshTypes'
  BY <1>2, <1>3, <1>4, <1>5, <1>6, <1>7, <1>8 DEF Types, MeshTypes
<1> QED
  BY <1>3, <1>9, <1>10 DEF Types

LEMMA FailoverTypes == Types /\ (Failover \/ Scan) => Types'
<1> SUFFICES ASSUME Types, Failover \/ Scan, ~FailoverRestart PROVE Types'
  <2>1. CASE FailoverRestart
    BY <2>1, BootTypes DEF FailoverRestart, MemoryAtBoot, Types, MeshTypes
  <2> QED
    BY <2>1
<1>1. UNCHANGED <<role, eth, sta, start, net, fresh, mon, netif, flag, left, paused, parent, heal, heals>>
  BY DEF Failover, FailoverPutOff, TrialSave, TrialWait, TrialDone, FailoverWatch, FailoverDecide,
         FailoverGuard, FailoverClaim, Scan, ScanStart, ScanEnd, ScanDone, foUnchanged, interfaces,
         dualVars
<1>2. failover' \in Failovers
  <2> USE DEF Types, MeshTypes, Failovers
  <2>1. CASE FailoverPutOff \/ TrialDone \/ FailoverDecide \/ FailoverGuard \/ FailoverClaim
    BY <2>1 DEF FailoverPutOff, FailoverQuiet, TrialDone, FailoverDecide, FailoverGuard, FailoverClaim
  <2>2. ASSUME NEW b \in BOOLEAN, TrialSave(b) \/ TrialWait(b) PROVE failover' \in Failovers
    BY <2>2 DEF TrialSave, TrialWait
  <2>3. ASSUME NEW cool \in BOOLEAN, NEW long \in BOOLEAN, NEW ok \in BOOLEAN,
               FailoverWatch(cool, long, ok)
        PROVE  failover' \in Failovers
    BY <2>3 DEF FailoverWatch, DualTypes
  <2>4. CASE Scan
    BY <2>4 DEF Scan, ScanStart, ScanEnd, ScanDone
  <2> QED
    BY <2>1, <2>2, <2>3, <2>4 DEF Failover
<1>3. rtc' \in Memories
  <2> USE BudgetAssumption DEF Types, MeshTypes, Memories
  <2>1. NoTrial \in 0 .. 2 /\ 0 \in 0 .. TrialMax
    BY DEF NoTrial
  <2>2. Other(failover.index) \in 0 .. 2
    BY DEF Other, Failovers
  <2>3. rtc.attempts < TrialMax => rtc.attempts + 1 \in 0 .. TrialMax
    OBVIOUS
  <2>4. CASE FailoverPutOff \/ TrialDone \/ FailoverGuard \/ FailoverClaim \/ Scan
    BY <2>1, <2>4 DEF FailoverPutOff, TrialDone, FailoverGuard, FailoverClaim, Scan, ScanStart, ScanEnd,
           ScanDone
  <2>5. CASE FailoverDecide
    BY <2>2, <2>3, <2>5 DEF FailoverDecide
  <2>6. ASSUME NEW b \in BOOLEAN, TrialSave(b) \/ TrialWait(b) PROVE rtc' \in Memories
    BY <2>1, <2>6 DEF TrialSave, TrialWait
  <2>7. ASSUME NEW cool \in BOOLEAN, NEW long \in BOOLEAN, NEW ok \in BOOLEAN,
               FailoverWatch(cool, long, ok)
        PROVE  rtc' \in Memories
    BY <2>1, <2>7 DEF FailoverWatch
  <2> QED
    BY <2>4, <2>5, <2>6, <2>7 DEF Failover
<1>4. saved' \in 0 .. 1
  <2>1. failover.index \in 0 .. 1 /\ saved \in 0 .. 1
    BY DEF Types, MeshTypes, Failovers
  <2> QED
    BY <2>1 DEF Failover, FailoverPutOff, TrialSave, TrialWait, TrialDone, FailoverWatch, FailoverDecide,
         FailoverGuard, FailoverClaim, Scan, ScanStart, ScanEnd, ScanDone
<1>5. plan' \in Plans /\ mutex' \in {"free", "plan", "health", "failover", "monitor"}
  <2>1. CASE FailoverClaim
    BY <2>1 DEF FailoverClaim, Take, TakeFails, Claim, Types, MeshTypes, Plans
  <2>2. CASE ~FailoverClaim
    <3>1. UNCHANGED <<plan, mutex>>
      BY <2>2 DEF Failover, FailoverPutOff, TrialSave, TrialWait, TrialDone, FailoverWatch,
         FailoverDecide, FailoverGuard, Scan, ScanStart, ScanEnd, ScanDone, restartVars
    <3> QED
      BY <3>1 DEF Types, MeshTypes
  <2> QED
    BY <2>1, <2>2
<1>6. budget' \in [Budgets -> Nat]
  <2>1. ASSUME NEW b \in BOOLEAN, TrialSave(b) PROVE budget' \in [Budgets -> Nat]
    BY <2>1, SpendTyped, "fail" \in Budgets DEF TrialSave, Types, MeshTypes, Budgets
  <2>2. ASSUME NEW cool \in BOOLEAN, NEW long \in BOOLEAN, NEW ok \in BOOLEAN,
               FailoverWatch(cool, long, ok)
        PROVE  budget' \in [Budgets -> Nat]
    BY <2>2, SpendTyped, "fail" \in Budgets DEF FailoverWatch, Types, MeshTypes, Budgets
  <2>3. CASE FailoverPutOff \/ (\E b \in BOOLEAN : TrialWait(b)) \/ TrialDone \/ FailoverDecide
             \/ FailoverGuard \/ FailoverClaim \/ Scan
    <3>1. UNCHANGED budget
      BY <2>3 DEF FailoverPutOff, TrialWait, TrialDone, FailoverDecide,
         FailoverGuard, FailoverClaim, Scan, ScanStart, ScanEnd, ScanDone
    <3> QED
      BY <3>1 DEF Types, MeshTypes
  <2> QED
    BY <2>1, <2>2, <2>3 DEF Failover
<1>7. DualTypes'
  BY <1>1 DEF Types, DualTypes
<1>8. MeshTypes'
  BY <1>1, <1>2, <1>3, <1>4, <1>5, <1>6 DEF Types, MeshTypes
<1>9. SoftsLeft'
  BY <1>1 DEF Types, SoftsLeft
<1> QED
  BY <1>7, <1>8, <1>9 DEF Types

\* The count of a child's failures saturates at the threshold.
LEMMA ParentTypes ==
    ASSUME NEW p \in Parents, NEW b \in BOOLEAN, NEW c \in BOOLEAN
    PROVE  /\ OnlineChanged(p, b) \in Parents
           /\ [p EXCEPT !.local = FALSE] \in Parents
           /\ CountFailure(p, c) \in Parents
<1>1. 0 \in 0 .. FailThreshold
      /\ (p.fails < FailThreshold => p.fails + 1 \in 0 .. FailThreshold)
  BY BudgetAssumption DEF Parents
<1>2. (p.online /\ b /\ p.stable) \in BOOLEAN
  OBVIOUS
<1>3. OnlineChanged(p, b) \in Parents
  BY <1>1, <1>2 DEF OnlineChanged, Parents
<1>4. [p EXCEPT !.local = FALSE] \in Parents
  BY DEF Parents
<1>5. CountFailure(p, c) \in Parents
  BY <1>1 DEF CountFailure, Parents
<1> QED
  BY <1>3, <1>4, <1>5

\* An event of the station: dual_net's part, with mesh_update_network_flag.
LEMMA StaEventTypes ==
    ASSUME Types, NEW has \in BOOLEAN, DualStaEvent(has), UpdateNetworkFlag(has) \/ UNCHANGED flag
    PROVE  net' \in Nets /\ fresh' \subseteq Copies /\ flag' \in BOOLEAN
<1>1. net \in Nets
  BY DEF Types, DualTypes
<1>2. [net EXCEPT !.wifi = has] \in Nets
  BY <1>1, RecordTypes
<1>3. net' \in Nets /\ fresh' \subseteq Copies
  BY <1>2, HandleTypes DEF DualStaEvent
<1>4. flag' \in BOOLEAN
  BY DEF UpdateNetworkFlag, Types, DualTypes
<1> QED
  BY <1>3, <1>4

LEMMA StaLostTypes ==
    ASSUME Types, NEW p \in Parents, StaLost(p)
    PROVE  /\ net' \in Nets /\ fresh' \subseteq Copies /\ flag' \in BOOLEAN
           /\ failover' \in Failovers /\ parent' \in Parents
<1>1. net' \in Nets /\ fresh' \subseteq Copies /\ flag' \in BOOLEAN
  BY StaEventTypes DEF StaLost
<1>2. failover' \in Failovers
  BY DEF StaLost, Types, MeshTypes, Failovers
<1> QED
  BY <1>1, <1>2 DEF StaLost

LEMMA EventTypes == Types /\ (GotIp \/ LostIp \/ Disconnected \/ LeftEvent \/ Stable) => Types'
<1> SUFFICES ASSUME Types, GotIp \/ LostIp \/ Disconnected \/ LeftEvent \/ Stable PROVE Types'
  OBVIOUS
<1>1. UNCHANGED <<role, eth, start, mon, netif, plan, mutex, paused, heal, saved, heals>>
  BY DEF GotIp, LostIp, Disconnected, LeftEvent, Stable, interfaces, dualVars, restartVars
<1>2. budget' \in [Budgets -> Nat]
  BY SpendTyped, "wifi" \in Budgets
     DEF GotIp, LostIp, Disconnected, LeftEvent, Stable, Types, MeshTypes, Budgets
<1>3. parent \in Parents /\ parent.local \in BOOLEAN
  BY DEF Types, MeshTypes, Parents
<1>4. sta' \in {"off", "trying", "linked", "ip"} /\ left' \in BOOLEAN
  BY DEF GotIp, LostIp, Disconnected, LeftEvent, Stable, interfaces, Types, DualTypes, MeshTypes
<1>5. /\ net' \in Nets /\ fresh' \subseteq Copies /\ flag' \in BOOLEAN
      /\ failover' \in Failovers /\ parent' \in Parents
  <2>1. CASE GotIp
    <3>1. net' \in Nets /\ fresh' \subseteq Copies /\ flag' \in BOOLEAN
      BY <2>1, StaEventTypes DEF GotIp
    <3>2. parent' \in Parents
      BY <2>1, <1>3, ParentTypes DEF GotIp
    <3>3. failover' \in Failovers
      BY <2>1 DEF GotIp, Types, MeshTypes, Failovers
    <3> QED
      BY <3>1, <3>2, <3>3
  <2>2. CASE LostIp
    BY <2>2, <1>3, ParentTypes, StaLostTypes DEF LostIp
  <2>3. CASE Disconnected
    BY <2>3, <1>3, ParentTypes, StaLostTypes DEF Disconnected
  <2>4. CASE LeftEvent
    BY <2>4, <1>3, ParentTypes, StaLostTypes DEF LeftEvent
  <2>5. CASE Stable
    <3>1. UNCHANGED <<net, fresh, flag, failover>>
      BY <2>5 DEF Stable, dualVars
    <3>2. parent' \in Parents
      BY <2>5, <1>3 DEF Stable, Parents
    <3> QED
      BY <3>1, <3>2 DEF Types, DualTypes, MeshTypes
  <2> QED
    BY <2>1, <2>2, <2>3, <2>4, <2>5
<1>6. rtc' \in Memories
  <2>1. 0 \in 0 .. TrialMax
    BY BudgetAssumption
  <2> QED
    BY <2>1 DEF GotIp, LostIp, Disconnected, LeftEvent, Stable, Types, MeshTypes, Memories
<1>7. DualTypes'
  BY <1>1, <1>4, <1>5 DEF Types, DualTypes
<1>8. MeshTypes'
  BY <1>1, <1>2, <1>4, <1>5, <1>6 DEF Types, MeshTypes
<1>9. SoftsLeft'
  BY <1>1 DEF Types, SoftsLeft
<1> QED
  BY <1>7, <1>8, <1>9 DEF Types

\* Every step keeps the types.
LEMMA TypesKept == Types /\ [Next]_vars => Types'
<1> SUFFICES ASSUME Types, [Next]_vars PROVE Types'
  OBVIOUS
<1>1. CASE PlanCommand
  <2>1. plan' \in Plans /\ UNCHANGED mutex
    BY <1>1 DEF PlanCommand, SchedulePlan, Types, MeshTypes, Plans
  <2>2. budget' \in [Budgets -> Nat]
    BY <1>1, SpendTyped, "plan" \in Budgets DEF PlanCommand, Types, MeshTypes, Budgets
  <2>3. UNCHANGED <<role, eth, sta, start, net, fresh, mon, netif, flag, paused, heal, failover, rtc,
                    saved, heals, left, parent>>
    BY <1>1 DEF PlanCommand, planUnchanged, dualVars
  <2> QED
    BY <2>1, <2>2, <2>3 DEF Types, DualTypes, MeshTypes, SoftsLeft
<1>2. ASSUME NEW software \in BOOLEAN, OtherRestart(software) PROVE Types'
  <2>1. MemoryAtBoot(rtc, software) \in Memories
    BY NothingTyped DEF MemoryAtBoot, Types, MeshTypes
  <2>2. budget' \in [Budgets -> Nat]
    BY <1>2, SpendTyped, "power" \in Budgets DEF OtherRestart, Types, MeshTypes, Budgets
  <2>3. heals' \in Nat
    BY <1>2 DEF OtherRestart, Types, MeshTypes
  <2> QED
    BY <1>2, <2>1, <2>2, <2>3, BootTypes DEF OtherRestart
<1>3. CASE UNCHANGED vars
  <2>1. UNCHANGED <<role, budget, eth, sta, start, net, fresh, mon, netif, flag, plan, mutex, left,
                    paused, parent, heal, failover, rtc, saved, heals>>
    BY <1>3 DEF vars, interfaces, dualVars, restartVars, meshVars
  <2> QED
    BY <2>1 DEF Types, DualTypes, MeshTypes, SoftsLeft
<1> QED
  BY <1>1, <1>2, <1>3, ServiceTypes, MonitorTypes, HealthTypes, FailoverTypes, EventTypes, EthTypes
     DEF Next, Environment

\* Every variable keeps its type: the counters of attempts, failures, probes and soft resets
\* stay within the bounds of system_restart.c, dual_net and mesh.c.
THEOREM TypeCorrect == Spec => []TypeOK
<1>1. Init => Types
  BY InitTypes
<1>2. Types /\ [Next]_vars => Types'
  BY TypesKept
<1>3. Types => TypeOK
  BY TypesTypeOK
<1> QED
  BY <1>1, <1>2, <1>3, PTL DEF Spec

-----------------------------------------------------------------------------
(* Restarts: who holds the mutex, and what it keeps apart. *)

\* Each holder of the mutex is at one of the places where it may hold it.
Holders ==
    /\ mutex = "plan" <=> plan.at = "leaving"
    /\ mutex = "monitor" <=> mon.at = "call"
    /\ mutex = "health" <=> heal.at \in {"gap", "connect", "wait", "waitFast", "go"}
    /\ mutex = "failover" <=> failover.at = "go"

\* A recovery that was granted is under way, and there is no plan beside it.
OneRestart ==
    /\ ~(plan.planned /\ plan.committed)
    /\ plan.committed <=> heal.at = "go" \/ failover.at = "go"
    /\ plan.paused => plan.planned

\* The count in RTC memory is the number of restarts, and one that may come is within it.
HealsCounted ==
    /\ heals = rtc.heal /\ heals <= HealMax
    /\ heal.at \in {"wait", "waitFast"} => heals < HealMax

\* Whoever is about to connect the station has seen that the mesh is not paused, under
\* the mutex that the restart service needs to leave it.
StaysAway ==
    /\ plan.at = "leaving" => plan.paused /\ ~plan.disconnected
    /\ plan.disconnected => plan.paused /\ sta = "off"
    /\ heal.at = "connect" => ~plan.disconnected
    /\ mon.at = "call" => ~plan.disconnected

\* The net monitor runs once dual_net_init has started it.
MonitorRuns == mon.at # "parked" => start.at = "on"

Restarts == Holders /\ OneRestart /\ HealsCounted /\ StaysAway /\ MonitorRuns

LEMMA InitRestarts == Init => Restarts
<1> SUFFICES ASSUME Init PROVE Restarts
  OBVIOUS
<1>1. Holders /\ OneRestart /\ StaysAway /\ MonitorRuns
  BY DEF Init, PlanInit, DualInit, NoPlan, NoHeal, NoFailover, Parked, Holders, OneRestart, StaysAway,
         MonitorRuns
<1>2. HealsCounted
  BY BudgetAssumption DEF Init, NoHeal, HealsCounted
<1> QED
  BY <1>1, <1>2 DEF Restarts

\* A step that is none of the restarts' business.
LEMMA AsideRestarts ==
    ASSUME Restarts, UNCHANGED <<plan, mutex, heals, start, mon.at, heal.at, failover.at, rtc.heal>>,
           sta = "off" => sta' = "off"
    PROVE  Restarts'
BY DEF Restarts, Holders, OneRestart, HealsCounted, StaysAway, MonitorRuns

\* A restart frees the mutex and forgets the plan; RTC memory keeps the count, or both are zero.
LEMMA BootRestarts ==
    ASSUME Types, Restarts, NEW memory \in Memories, Boot(memory), heals' = memory.heal,
           heals' <= HealMax
    PROVE  Restarts'
<1>1. plan' = NoPlan /\ mutex' = "free" /\ mon' = Parked /\ heal' = NoHeal /\ rtc' = memory
  BY DEF Boot
<1>2. failover'.at = "loop"
  BY DEF Boot, NoFailover
<1>3. Holders' /\ OneRestart' /\ StaysAway' /\ MonitorRuns'
  BY <1>1, <1>2 DEF NoPlan, NoHeal, Parked, Holders, OneRestart, StaysAway, MonitorRuns
<1>4. HealsCounted'
  BY <1>1 DEF NoHeal, HealsCounted
<1> QED
  BY <1>3, <1>4 DEF Restarts

\* A restart by software.
LEMMA RestartKeeps ==
    ASSUME Types, Restarts, Boot(MemoryAtBoot(rtc, TRUE)), UNCHANGED heals
    PROVE  Restarts'
BY BootRestarts DEF MemoryAtBoot, Types, MeshTypes, Restarts, HealsCounted

\* The restart service leaves the mesh under the mutex, when nobody is about to connect.
LEMMA ServiceRestarts == Types /\ Restarts /\ (Service \/ PlanCommand) => Restarts'
<1> SUFFICES ASSUME Types, Restarts, Service \/ PlanCommand, ~PlannedRestart PROVE Restarts'
  <2>1. CASE PlannedRestart
    BY <2>1, RestartKeeps DEF PlannedRestart
  <2> QED
    BY <2>1
<1>1. UNCHANGED <<start, mon, heal, failover, rtc, heals>>
  BY DEF Service, PauseBegin, PauseCall, PlanCommand, planUnchanged, dualVars
<1>2. plan \in Plans
  BY DEF Types, MeshTypes
<1> USE <1>1, <1>2 DEF Restarts, Holders, OneRestart, HealsCounted, StaysAway, MonitorRuns, Plans
<1>3. CASE PlanCommand
  BY <1>3 DEF PlanCommand, SchedulePlan
<1>4. CASE EnterPause /\ UNCHANGED sta
  BY <1>4 DEF EnterPause
<1>5. ASSUME NEW taken \in BOOLEAN, PauseAttempt(taken), UNCHANGED sta PROVE Restarts'
  BY <1>5 DEF PauseAttempt, MayAttempt, Take, TakeFails
<1>6. ASSUME NEW ok \in BOOLEAN, PauseCall(ok) PROVE Restarts'
  BY <1>6 DEF PauseCall, PauseDone, SdkDisconnect
<1> QED
  BY <1>3, <1>4, <1>5, <1>6 DEF Service, PauseBegin

\* The monitor starts to connect only when the mesh is not paused.
LEMMA MonitorRestarts == Types /\ Restarts /\ (Monitor \/ EthEvent) => Restarts'
<1> SUFFICES ASSUME Types, Restarts, Monitor \/ EthEvent PROVE Restarts'
  OBVIOUS
<1>1. UNCHANGED <<plan, heal, failover, rtc, heals>>
  BY DEF Monitor, DualNetTask, EthEvent, Manage, ManageCall, restartVars, meshVars
<1>2. mon \in Mons
  BY DEF Types, DualTypes
<1>3. CASE DualNetTask
  <2>1. UNCHANGED <<mutex, sta>>
    BY <1>3 DEF DualNetTask, restartVars, InitRegister, InitRead, InitCommit, InitMonitor, InitFailed,
       MonitorStep, Loop, RouteSnapshot, RouteSet, RouteCommit, FlagRead, FlagPublish, StaRead, Dns,
       Schedule, ProbeBegin, ProbeResult, interfaces
  <2>2. mon.at # "call" => mon'.at # "call"
    BY <1>2, <1>3 DEF DualNetTask, InitRegister, InitRead, InitCommit, InitMonitor, InitFailed,
       MonitorStep, Loop, RouteSnapshot, RouteSet, RouteCommit, FlagRead, FlagPublish, StaRead, Dns,
       Schedule, ProbeBegin, ProbeResult, At, Mons
  <2>3. mon.at # "call"
    BY <1>3 DEF Restarts, MonitorRuns, DualNetTask, InitRegister, InitRead, InitCommit, InitMonitor, InitFailed,
       MonitorStep, Loop, RouteSnapshot, RouteSet, RouteCommit, FlagRead, FlagPublish, StaRead, Dns,
       Schedule, ProbeBegin, ProbeResult, At
  <2>4. MonitorRuns'
    BY <1>2, <1>3 DEF DualNetTask, InitRegister, InitRead, InitCommit, InitMonitor, InitFailed,
       MonitorStep, Loop, RouteSnapshot, RouteSet, RouteCommit, FlagRead, FlagPublish, StaRead, Dns,
       Schedule, ProbeBegin, ProbeResult, At, Mons, Restarts, MonitorRuns, Types, DualTypes, Starts, NoStart
  <2> QED
    BY <1>1, <2>1, <2>2, <2>3, <2>4 DEF Restarts, Holders, OneRestart, HealsCounted, StaysAway, MonitorRuns
<1>4. CASE EthEvent
  <2>1. UNCHANGED <<mutex, sta, mon>>
    BY <1>4 DEF EthEvent, EthLink, EthGotIp, EthLostIp, restartVars
  <2>2. UNCHANGED start
    BY <1>4 DEF EthEvent, EthLink, EthGotIp, EthLostIp
  <2> QED
    BY <1>1, <2>1, <2>2, AsideRestarts
<1>5. CASE Manage
  BY <1>1, <1>2, <1>5 DEF Manage, TakeFails, interfaces, MeshPaused, Mons, Restarts, Holders,
     OneRestart, HealsCounted, StaysAway, MonitorRuns
<1>6. ASSUME NEW ok \in BOOLEAN, ManageCall(ok) PROVE Restarts'
  BY <1>1, <1>2, <1>6 DEF ManageCall, SdkDisconnect, SdkConnect, Mons, Restarts, Holders,
     OneRestart, HealsCounted, StaysAway, MonitorRuns
<1> QED
  BY <1>3, <1>4, <1>5, <1>6 DEF Monitor

\* So does the health task; a recovery takes its place only when there is no plan.
LEMMA HealthRestarts == Types /\ Restarts /\ Health => Restarts'
<1> SUFFICES ASSUME Types, Restarts, Health, ~HealRestart PROVE Restarts'
  <2>1. CASE HealRestart
    BY <2>1, RestartKeeps DEF HealRestart
  <2> QED
    BY <2>1
<1>1. UNCHANGED <<start, mon, failover>>
  BY DEF Health, HealthRead, Watch, SoftReset, SoftResetSkipped, SoftCheck, SoftConnect, FastPath,
         HealBegin, HealGiveUp, HealClaim, healUnchanged, dualVars
<1>2. heal \in Heals /\ plan \in Plans /\ rtc \in Memories /\ heals \in Nat
  BY DEF Types, MeshTypes
<1> USE <1>1, <1>2, BudgetAssumption
    DEF Restarts, Holders, OneRestart, HealsCounted, StaysAway, MonitorRuns, Heals, HealNext,
        restartVars
<1>3. CASE HealthRead
  BY <1>3 DEF HealthRead
<1>4. ASSUME NEW long \in BOOLEAN, Watch(long) PROVE Restarts'
  BY <1>4 DEF Watch
<1>5. ASSUME NEW ok \in BOOLEAN, SoftReset(ok) PROVE Restarts'
  BY <1>5 DEF SoftReset, Take, SdkDisconnect
<1>6. CASE SoftResetSkipped
  BY <1>6 DEF SoftResetSkipped, TakeFails
<1>7. CASE SoftCheck
  BY <1>7 DEF SoftCheck, MeshPaused
<1>8. CASE SoftConnect
  BY <1>8 DEF SoftConnect, SdkConnect
<1>9. CASE FastPath
  BY <1>9 DEF FastPath
<1>10. CASE HealBegin
  BY <1>10 DEF HealBegin, Take, TakeFails, AfterHeal
<1>11. CASE HealGiveUp
  BY <1>11 DEF HealGiveUp, AfterHeal
<1>12. CASE HealClaim
  <2>1. plan' = [plan EXCEPT !.committed = TRUE] /\ ~plan.planned /\ ~plan.committed
    BY <1>12 DEF HealClaim, Claim, MayClaim
  <2>2. rtc'.heal = rtc.heal + 1
    BY <1>12 DEF HealClaim, Memories
  <2>3. /\ heals' = heals + 1 /\ heals < HealMax
        /\ UNCHANGED <<mutex, sta>> /\ mutex = "health"
    BY <1>12 DEF HealClaim, healUnchanged
  <2>4. heal'.at = "go" /\ heal.at \in {"wait", "waitFast"}
    BY <1>12 DEF HealClaim
  <2>5. HealsCounted'
    BY <2>2, <2>3, <2>4
  <2> QED
    BY <2>1, <2>3, <2>4, <2>5 DEF Plans
<1> QED
  BY <1>3, <1>4, <1>5, <1>6, <1>7, <1>8, <1>9, <1>10, <1>11, <1>12 DEF Health

\* A failover that may restart the node holds the mutex until then.
LEMMA FailoverRestarts == Types /\ Restarts /\ (Failover \/ Scan) => Restarts'
<1> SUFFICES ASSUME Types, Restarts, Failover \/ Scan, ~FailoverRestart PROVE Restarts'
  <2>1. CASE FailoverRestart
    BY <2>1, RestartKeeps DEF FailoverRestart
  <2> QED
    BY <2>1
<1>1. UNCHANGED <<sta, start, mon, heal, heals>>
  BY DEF Failover, FailoverPutOff, TrialSave, TrialWait, TrialDone, FailoverWatch, FailoverDecide,
         FailoverGuard, FailoverClaim, Scan, ScanStart, ScanEnd, ScanDone, foUnchanged, interfaces,
         dualVars
<1>2. failover \in Failovers /\ plan \in Plans /\ rtc \in Memories
  BY DEF Types, MeshTypes
<1>3. CASE FailoverClaim
  <2>1. UNCHANGED rtc
    BY <1>3 DEF FailoverClaim
  <2> QED
    BY <1>1, <1>2, <1>3, <2>1 DEF FailoverClaim, Take, TakeFails, Claim, MayClaim, Restarts, Holders,
      OneRestart, HealsCounted, StaysAway, MonitorRuns, Plans, Failovers
<1>4. CASE ~FailoverClaim
  <2>1. UNCHANGED <<plan, mutex>>
    BY <1>4 DEF Failover, FailoverPutOff, TrialSave, TrialWait, TrialDone, FailoverWatch,
       FailoverDecide, FailoverGuard, Scan, ScanStart, ScanEnd, ScanDone, restartVars
  <2>2. rtc'.heal = rtc.heal
    BY <1>2, <1>4 DEF Failover, FailoverPutOff, TrialSave, TrialWait, TrialDone, FailoverWatch,
       FailoverDecide, FailoverGuard, Scan, ScanStart, ScanEnd, ScanDone, Memories
  <2>3. \/ failover.at # "go" /\ failover'.at # "go"
        \/ failover'.at = failover.at
    BY <1>2, <1>4 DEF Failover, FailoverPutOff, FailoverTurn, FailoverQuiet, TrialSave, TrialWait,
       TrialDone, FailoverWatch, FailoverDecide, FailoverGuard, Scan, ScanStart, ScanEnd, ScanDone,
       Failovers
  <2> QED
    BY <1>1, <2>1, <2>2, <2>3 DEF Restarts, Holders, OneRestart, HealsCounted, StaysAway, MonitorRuns
<1> QED
  BY <1>3, <1>4

\* An event never brings a station back that is off.
LEMMA EventRestarts ==
    Types /\ Restarts /\ (GotIp \/ LostIp \/ Disconnected \/ LeftEvent \/ Stable) => Restarts'
<1> SUFFICES ASSUME Types, Restarts, GotIp \/ LostIp \/ Disconnected \/ LeftEvent \/ Stable
             PROVE  Restarts'
  OBVIOUS
<1>1. UNCHANGED <<plan, mutex, heals, start, mon, heal>>
  BY DEF GotIp, LostIp, Disconnected, LeftEvent, Stable, dualVars, restartVars
<1>2. failover'.at = failover.at
  BY DEF GotIp, LostIp, Disconnected, LeftEvent, Stable, StaLost, Types, MeshTypes, Failovers
<1>3. rtc'.heal = rtc.heal
  BY DEF GotIp, LostIp, Disconnected, LeftEvent, Stable, Types, MeshTypes, Memories
<1>4. sta = "off" => sta' = "off"
  BY DEF GotIp, LostIp, Disconnected, LeftEvent, Stable, interfaces
<1> QED
  BY <1>1, <1>2, <1>3, <1>4, AsideRestarts

\* Every step keeps the invariant of the restarts.
LEMMA RestartsKept == Types /\ Restarts /\ [Next]_vars => Restarts'
<1> SUFFICES ASSUME Types, Restarts, [Next]_vars PROVE Restarts'
  OBVIOUS
<1>1. ASSUME NEW software \in BOOLEAN, OtherRestart(software) PROVE Restarts'
  <2> DEFINE memory == MemoryAtBoot(rtc, software)
  <2>1. memory \in Memories
    BY NothingTyped DEF MemoryAtBoot, Types, MeshTypes
  <2>2. heals' = memory.heal /\ heals' <= HealMax
    BY <1>1, BudgetAssumption DEF OtherRestart, MemoryAtBoot, Restarts, HealsCounted
  <2> QED
    BY <1>1, <2>1, <2>2, BootRestarts DEF OtherRestart
<1>2. CASE UNCHANGED vars
  <2>1. UNCHANGED <<plan, mutex, heals, start, mon, heal, failover, rtc, sta>>
    BY <1>2 DEF vars, interfaces, dualVars, restartVars, meshVars
  <2> QED
    BY <2>1, AsideRestarts
<1> QED
  BY <1>1, <1>2, ServiceRestarts, MonitorRestarts, HealthRestarts, FailoverRestarts, EventRestarts
     DEF Next, Environment

\* Once the restart service has left the mesh, nothing connects the station again before
\* the restart (mesh_pause_for_restart, mesh_heal_watchdog, mesh_root_manage_sta_reconnect).
THEOREM PausedStaysAwayAlways == Spec => []PausedStaysAway
<1>1. Init => Types /\ Restarts
  BY InitTypes, InitRestarts
<1>2. Types /\ Restarts /\ [Next]_vars => Types' /\ Restarts'
  BY TypesKept, RestartsKept
<1>3. Restarts => PausedStaysAway
  BY DEF Restarts, StaysAway, PausedStaysAway
<1> QED
  BY <1>1, <1>2, <1>3, PTL DEF Spec

-----------------------------------------------------------------------------
(* The refinement of RestartArbiter. *)

\* The phase of RestartArbiter, now and in the next state.
LEMMA PhaseIs ==
    /\ ~plan.planned /\ ~plan.committed => Phase = "running"
    /\ plan.planned /\ ~plan.committed => Phase = "planned"
    /\ ~plan.planned /\ plan.committed => Phase = "recovering"
BY DEF Phase

LEMMA PhaseWillBe ==
    /\ ~plan'.planned /\ ~plan'.committed => Phase' = "running"
    /\ plan'.planned /\ ~plan'.committed => Phase' = "planned"
    /\ ~plan'.planned /\ plan'.committed => Phase' = "recovering"
BY DEF Phase

\* A restart of the node is a Restart or a PowerCycle of the promise.
LEMMA BootRunning ==
    ASSUME NEW memory, Boot(memory)
    PROVE  Phase' = "running"
<1>1. ~plan'.planned /\ ~plan'.committed
  BY DEF Boot, NoPlan
<1> QED
  BY <1>1, PhaseWillBe

\* What changes neither the plan nor the count is a stutter of the promise.
LEMMA SamePhase ==
    ASSUME UNCHANGED <<plan, heals>>
    PROVE  UNCHANGED <<Phase, heals>>
BY DEF Phase

\* Every step is a step of RestartArbiter, or a stutter.
LEMMA StepRefines ==
    ASSUME Types, Restarts, Restarts', [Next]_vars
    PROVE  [Arbiter!Next]_<<Phase, heals>>
<1> USE DEF Arbiter!Next
<1>1. CASE PlannedRestart \/ HealRestart \/ FailoverRestart
  BY <1>1, BootRunning DEF PlannedRestart, HealRestart, FailoverRestart, Arbiter!Restart
<1>2. ASSUME NEW software \in BOOLEAN, OtherRestart(software)
      PROVE  [Arbiter!Next]_<<Phase, heals>>
  BY <1>2, BootRunning DEF OtherRestart, Arbiter!Restart, Arbiter!PowerCycle
<1>3. CASE PlanCommand
  <2>1. plan'.planned /\ ~plan'.committed /\ ~plan.committed /\ UNCHANGED heals
    BY <1>3 DEF PlanCommand, SchedulePlan, planUnchanged, Types, MeshTypes, Plans
  <2>2. plan.planned \in BOOLEAN
    BY DEF Types, MeshTypes, Plans
  <2> QED
    BY <2>1, <2>2, PhaseIs, PhaseWillBe DEF Arbiter!Accept
<1>4. CASE PauseBegin \/ \E ok \in BOOLEAN : PauseCall(ok)
  <2>1. plan'.planned = plan.planned /\ plan'.committed = plan.committed /\ UNCHANGED heals
    BY <1>4 DEF PauseBegin, EnterPause, PauseAttempt, PauseCall, PauseDone, planUnchanged, Types,
       MeshTypes, Plans
  <2> QED
    BY <2>1 DEF Phase
<1>5. CASE HealClaim
  <2>1. /\ ~plan.planned /\ ~plan.committed /\ ~plan'.planned /\ plan'.committed
        /\ heals < HealMax /\ heals' = heals + 1
    BY <1>5 DEF HealClaim, Claim, MayClaim, Types, MeshTypes, Plans, Restarts, HealsCounted
  <2> QED
    BY <2>1, PhaseIs, PhaseWillBe DEF Arbiter!RecoverParent
<1>6. CASE FailoverClaim
  <2>1. UNCHANGED heals
    BY <1>6 DEF FailoverClaim, foUnchanged
  <2>2. \/ UNCHANGED plan
        \/ ~plan.planned /\ ~plan.committed /\ ~plan'.planned /\ plan'.committed
    BY <1>6 DEF FailoverClaim, Claim, MayClaim, Types, MeshTypes, Plans
  <2> QED
    BY <2>1, <2>2, PhaseIs, PhaseWillBe, SamePhase DEF Arbiter!Recover
<1>7. CASE UNCHANGED <<plan, heals>>
  BY <1>7, SamePhase
<1>8. CASE Monitor \/ EthEvent
  <2>1. UNCHANGED <<plan, heals>>
    BY <1>8 DEF Monitor, DualNetTask, EthEvent, Manage, ManageCall, restartVars, meshVars
  <2> QED
    BY <2>1, <1>7
<1>9. CASE Health /\ ~HealRestart /\ ~HealClaim
  <2>1. UNCHANGED <<plan, heals>>
    BY <1>9 DEF Health, HealthRead, Watch, SoftReset, SoftResetSkipped, SoftCheck, SoftConnect,
       FastPath, HealBegin, HealGiveUp, restartVars
  <2> QED
    BY <2>1, <1>7
<1>10. CASE (Failover \/ Scan) /\ ~FailoverRestart /\ ~FailoverClaim
  <2>1. UNCHANGED <<plan, heals>>
    BY <1>10 DEF Failover, FailoverPutOff, TrialSave, TrialWait, TrialDone, FailoverWatch,
       FailoverDecide, FailoverGuard, Scan, ScanStart, ScanEnd, ScanDone, restartVars, foUnchanged
  <2> QED
    BY <2>1, <1>7
<1>11. CASE GotIp \/ LostIp \/ Disconnected \/ LeftEvent \/ Stable \/ UNCHANGED vars
  <2>1. UNCHANGED <<plan, heals>>
    BY <1>11 DEF GotIp, LostIp, Disconnected, LeftEvent, Stable, restartVars, vars, meshVars
  <2> QED
    BY <2>1, <1>7
<1> QED
  BY <1>1, <1>2, <1>3, <1>4, <1>5, <1>6, <1>8, <1>9, <1>10, <1>11
     DEF Next, Service, Environment

\* system_restart.c and mesh.c keep the promises of RestartArbiter: a plan that was
\* accepted is what restarts the node, a recovery restarts it only without a plan, and
\* the restarts for want of a parent stay within their budget.
THEOREM RestartPromiseKept == Spec => RestartPromise
<1>1. Init => Arbiter!Init
  BY PhaseIs DEF Init, PlanInit, NoPlan, Arbiter!Init
<1>2. Init => Types /\ Restarts
  BY InitTypes, InitRestarts
<1>3. Types /\ Restarts /\ [Next]_vars => Types' /\ Restarts'
  BY TypesKept, RestartsKept
<1>4. Types /\ Restarts /\ Restarts' /\ [Next]_vars => [Arbiter!Next]_<<Phase, heals>>
  BY StepRefines
<1> QED
  BY <1>1, <1>2, <1>3, <1>4, PTL DEF Spec, RestartPromise, Arbiter!Spec

-----------------------------------------------------------------------------
(* The route of a root: what a pass of the monitor has seen, and whether it is still true. *)

\* Which task runs on which node, and when a copy of the revision can be up to date.
Tasks ==
    /\ start.at # "down" => IsRoot
    /\ heal.at # "read" => role = "child"
    /\ "applied" \in fresh => mon.at \in {"loop", "mqtt", "probe", "connect"}
    /\ OfRevision \cap fresh # {} => start.at = "on"
    /\ left => sta # "ip"

\* What dual_net_init has read, or the handlers have been told, is how the Ethernet is.
ReadEth ==
    /\ start.at = "read" /\ "bootEth" \in fresh => (start.eth <=> eth = "ip")
    /\ start.at \in {"registered", "read"} /\ "bootEth" \notin fresh => (EthOnline(net) <=> eth = "ip")
    /\ start.at \in {"committed", "on"} => (EthOnline(net) <=> eth = "ip")

\* The same of the station, unless the disconnection is still to be reported.
ReadWifi ==
    ~left =>
        /\ start.at = "read" /\ "bootWifi" \in fresh => (start.wifi <=> sta = "ip")
        /\ start.at \in {"registered", "read"} /\ "bootWifi" \notin fresh => (net.wifi <=> sta = "ip")
        /\ start.at \in {"committed", "on"} => (net.wifi <=> sta = "ip")

ActiveRight == net.active = Choose(net) /\ (net.active # "none" => netif = net.active)
FlagRight == flag <=> Online(net)
PauseRight ==
    ~plan.planned /\ ~plan.committed =>
        /\ ~WiredPreferred(net) => ~paused
        /\ WiredPreferred(net) /\ ~net.wifi => paused

\* What the monitor has done in this pass, when the revision is still that of its begin.
PassRight ==
    /\ mon.at \in {"flag", "publish", "sta", "manage", "call", "dns"} => ActiveRight
    /\ mon.at = "publish" => (mon.flag <=> Online(net))
    /\ mon.at \in {"sta", "manage", "call", "dns"} => FlagRight
    /\ mon.at = "manage" => (mon.wired <=> WiredPreferred(net)) /\ (mon.wifi <=> net.wifi)
    /\ mon.at \in {"call", "dns"} => PauseRight

Pass ==
    /\ mon.at \in {"set", "commit"} /\ "route" \in fresh => mon.target = Choose(net)
    /\ mon.at \in {"set", "commit"} /\ "loop" \in fresh => "route" \in fresh
    /\ mon.at = "commit" => (mon.target # "none" => netif = mon.target)
    /\ "loop" \in fresh => PassRight
    /\ "applied" \in fresh => ActiveRight /\ FlagRight /\ PauseRight

Route == Tasks /\ ReadEth /\ ReadWifi /\ Pass

RouteInv == Types /\ Restarts /\ Route

LEMMA InitRoute == Init => Route
<1> SUFFICES ASSUME Init PROVE Route
  OBVIOUS
<1>1. fresh = {} /\ start = NoStart /\ mon = Parked /\ heal = NoHeal /\ left = FALSE
  BY DEF Init, DualInit
<1>2. Tasks /\ ReadEth /\ ReadWifi
  BY <1>1 DEF NoStart, NoHeal, Tasks, ReadEth, ReadWifi
<1>3. Pass
  BY <1>1 DEF Pass, Parked
<1> QED
  BY <1>2, <1>3 DEF Route

\* After a restart the monitor does not run, and no copy is up to date.
LEMMA BootRoute ==
    ASSUME NEW memory, Boot(memory)
    PROVE  Route'
<1>1. fresh' = {} /\ start' = NoStart /\ mon' = Parked /\ heal' = NoHeal /\ left' = FALSE
  BY DEF Boot
<1>2. Tasks' /\ ReadEth' /\ ReadWifi'
  BY <1>1 DEF NoStart, NoHeal, Tasks, ReadEth, ReadWifi
<1>3. Pass'
  BY <1>1 DEF Pass, Parked
<1> QED
  BY <1>2, <1>3 DEF Route

\* What the SDK's calls do to the station, as the rest of the node sees it.
SdkCall ==
    \/ UNCHANGED <<sta, left>>
    \/ sta' = "off" /\ left' = (left \/ sta \in {"linked", "ip"})
    \/ sta' = (IF sta = "off" THEN "trying" ELSE sta) /\ UNCHANGED left

\* A step of another task: it may call the SDK and make a plan, and no more.
LEMMA AsideRoute ==
    ASSUME RouteInv, UNCHANGED <<role, eth, start, net, fresh, mon, netif, flag, paused>>,
           SdkCall, heal'.at # "read" => role = "child",
           ~plan'.planned /\ ~plan'.committed => ~plan.planned /\ ~plan.committed
    PROVE  Route'
<1> USE DEF RouteInv, Route
<1>1. left \in BOOLEAN
  BY DEF Types, MeshTypes
<1>2. ~left' => ~left /\ (sta' = "ip" <=> sta = "ip")
  BY <1>1 DEF SdkCall
<1>3. left' => sta' # "ip"
  BY <1>1 DEF SdkCall, Tasks
<1>4. Tasks'
  BY <1>3 DEF Tasks, IsRoot
<1>5. ReadEth' /\ ReadWifi'
  BY <1>2 DEF ReadEth, ReadWifi, EthOnline
<1>6. PauseRight => PauseRight'
  BY DEF PauseRight, WiredPreferred, EthOnline
<1>7. (ActiveRight => ActiveRight') /\ (FlagRight => FlagRight')
  BY DEF ActiveRight, FlagRight
<1>8. PassRight => PassRight'
  BY <1>6, <1>7 DEF PassRight
<1>9. Pass'
  BY <1>6, <1>7, <1>8 DEF Pass
<1> QED
  BY <1>4, <1>5, <1>9

\* An event that dual_net hears of makes every copy of the revision an old one.
LEMMA HandleClears ==
    ASSUME RouteInv, NEW n, NEW generation, Handle(n, generation)
    PROVE  OfRevision \cap fresh' = {}
BY DEF RouteInv, Route, Tasks, Handle, Registered

\* Then nothing is claimed of the pass that is under way.
LEMMA ClearedPass ==
    ASSUME RouteInv, OfRevision \cap fresh' = {}, UNCHANGED <<mon, netif>>
    PROVE  Pass'
<1>1. "route" \notin fresh' /\ "loop" \notin fresh' /\ "applied" \notin fresh'
  BY DEF OfRevision
<1> QED
  BY <1>1 DEF RouteInv, Route, Pass

\* The tasks are where they were.
LEMMA ClearedTasks ==
    ASSUME RouteInv, OfRevision \cap fresh' = {}, UNCHANGED <<role, start, heal>>, left' => sta' # "ip"
    PROVE  Tasks'
<1>1. "applied" \notin fresh'
  BY DEF OfRevision
<1> QED
  BY <1>1 DEF RouteInv, Route, Tasks, IsRoot

\* The handler of the station's events says what the station has become.
LEMMA StaRoute ==
    ASSUME RouteInv, NEW has \in BOOLEAN, DualStaEvent(has), left' => sta' # "ip", has <=> sta' = "ip",
           UNCHANGED <<role, eth, start, mon, netif, heal>>
    PROVE  Route'
<1>1. OfRevision \cap fresh' = {}
  BY HandleClears DEF DualStaEvent
<1>2. Pass' /\ Tasks'
  BY <1>1, ClearedPass, ClearedTasks
<1>3. CASE Registered
  <2>1. net' = [net EXCEPT !.wifi = has] /\ fresh' = fresh \ (OfRevision \cup OfWifiGeneration)
    BY <1>3 DEF DualStaEvent, Handle
  <2>2. net \in Nets
    BY DEF RouteInv, Types, DualTypes
  <2>3. net'.raw = net.raw /\ net'.up = net.up /\ net'.wifi = has
    BY <2>1, <2>2 DEF Nets
  <2>4. "bootWifi" \notin fresh' /\ ("bootEth" \in fresh' <=> "bootEth" \in fresh)
    BY <2>1 DEF OfWifiGeneration, OfRevision
  <2>5. ReadEth'
    BY <2>3, <2>4 DEF RouteInv, Route, ReadEth, EthOnline
  <2>6. ReadWifi'
    BY <2>3, <2>4 DEF ReadWifi
  <2> QED
    BY <1>2, <2>5, <2>6 DEF Route
<1>4. CASE ~Registered
  <2>1. start'.at \notin {"registered", "read", "committed", "on"}
    BY <1>4 DEF Registered
  <2> QED
    BY <1>2, <2>1 DEF Route, ReadEth, ReadWifi
<1> QED
  BY <1>3, <1>4

\* The events of the station, one by one.
LEMMA StaEventsRoute ==
    ASSUME RouteInv, GotIp \/ LostIp \/ Disconnected \/ LeftEvent \/ Stable
    PROVE  Route'
<1>1. UNCHANGED <<role, eth, start, mon, netif, heal, paused, plan>>
  BY DEF GotIp, LostIp, Disconnected, LeftEvent, Stable, interfaces, dualVars, restartVars
<1>2. left \in BOOLEAN
  BY DEF RouteInv, Types, MeshTypes
<1>3. CASE GotIp
  BY <1>1, <1>2, <1>3, StaRoute DEF GotIp
<1>4. CASE LostIp
  BY <1>1, <1>2, <1>4, StaRoute DEF LostIp, StaLost
<1>5. CASE Disconnected
  BY <1>1, <1>2, <1>5, StaRoute DEF Disconnected, StaLost
<1>6. CASE LeftEvent
  <2>1. sta' # "ip"
    BY <1>6 DEF LeftEvent, interfaces, RouteInv, Route, Tasks
  <2> QED
    BY <1>1, <1>6, <2>1, StaRoute DEF LeftEvent, StaLost
<1>7. CASE Stable
  <2>1. UNCHANGED <<sta, left, net, fresh, flag>>
    BY <1>7 DEF Stable, interfaces, dualVars
  <2>2. heal'.at # "read" => role = "child"
    BY <1>1 DEF RouteInv, Route, Tasks
  <2> QED
    BY <1>1, <2>1, <2>2, AsideRoute DEF SdkCall
<1> QED
  BY <1>3, <1>4, <1>5, <1>6, <1>7

\* So do the handlers of the Ethernet's events.
LEMMA EthRoute == RouteInv /\ EthEvent => Route'
<1> SUFFICES ASSUME RouteInv, EthEvent PROVE Route'
  OBVIOUS
<1>1. UNCHANGED <<role, sta, start, mon, netif, left, heal>>
  BY DEF EthEvent, EthLink, EthGotIp, EthLostIp, meshVars
<1>2. net \in Nets /\ net.up \in BOOLEAN
  BY DEF RouteInv, Types, DualTypes, Nets
<1>3. PICK n \in Nets, generation \in {{}, OfEthGeneration} :
         /\ Handle(n, generation)
         /\ n.wifi = net.wifi /\ (EthOnline(n) <=> eth' = "ip")
         /\ generation = {} => eth = "ip" /\ eth' = "ip"
  <2> DEFINE Goal == \E n \in Nets, generation \in {{}, OfEthGeneration} :
                       /\ Handle(n, generation)
                       /\ n.wifi = net.wifi /\ (EthOnline(n) <=> eth' = "ip")
                       /\ generation = {} => eth = "ip" /\ eth' = "ip"
  <2>1. ASSUME NEW up \in BOOLEAN, EthLink(up) PROVE Goal
    <3>1. ClearProbe([net EXCEPT !.raw = up, !.up = FALSE]) \in Nets
      BY <1>2, RecordTypes
    <3>2. /\ ClearProbe([net EXCEPT !.raw = up, !.up = FALSE]).wifi = net.wifi
          /\ ~EthOnline(ClearProbe([net EXCEPT !.raw = up, !.up = FALSE]))
      BY <1>2 DEF ClearProbe, EthOnline, Nets
    <3>3. eth' # "ip" /\ OfEthGeneration # {}
      BY <2>1 DEF EthLink, OfEthGeneration
    <3>4. Handle(ClearProbe([net EXCEPT !.raw = up, !.up = FALSE]), OfEthGeneration)
      BY <2>1 DEF EthLink
    <3> QED
      BY <3>1, <3>2, <3>3, <3>4
  <2>2. ASSUME NEW same \in BOOLEAN, EthGotIp(same) PROVE Goal
    <3> DEFINE got == [net EXCEPT !.raw = TRUE, !.up = TRUE]
    <3>1. got \in Nets /\ ClearProbe(got) \in Nets
      BY <1>2, RecordTypes
    <3>2. /\ got.wifi = net.wifi /\ ClearProbe(got).wifi = net.wifi
          /\ EthOnline(got) /\ EthOnline(ClearProbe(got))
      BY <1>2 DEF ClearProbe, EthOnline, Nets
    <3>3. eth' = "ip" /\ OfEthGeneration # {}
      BY <2>2 DEF EthGotIp, OfEthGeneration
    <3>4. CASE net.up /\ same
      <4>1. Handle(got, {}) /\ eth = "ip"
        BY <2>2, <3>4 DEF EthGotIp
      <4> QED
        BY <3>1, <3>2, <3>3, <4>1
    <3>5. CASE ~(net.up /\ same)
      <4>1. Handle(ClearProbe(got), OfEthGeneration)
        BY <2>2, <3>5 DEF EthGotIp
      <4> QED
        BY <3>1, <3>2, <3>3, <4>1
    <3> QED
      BY <3>4, <3>5
  <2>3. ASSUME EthLostIp PROVE Goal
    <3>1. ClearProbe([net EXCEPT !.up = FALSE]) \in Nets
      BY <1>2, RecordTypes
    <3>2. /\ ClearProbe([net EXCEPT !.up = FALSE]).wifi = net.wifi
          /\ ~EthOnline(ClearProbe([net EXCEPT !.up = FALSE]))
      BY <1>2 DEF ClearProbe, EthOnline, Nets
    <3>3. eth' # "ip" /\ OfEthGeneration # {}
      BY <2>3 DEF EthLostIp, OfEthGeneration
    <3>4. Handle(ClearProbe([net EXCEPT !.up = FALSE]), OfEthGeneration)
      BY <2>3 DEF EthLostIp
    <3> QED
      BY <3>1, <3>2, <3>3, <3>4
  <2> QED
    BY <2>1, <2>2, <2>3 DEF EthEvent
<1>4. OfRevision \cap fresh' = {}
  BY <1>3, HandleClears
<1>5. Pass' /\ Tasks'
  BY <1>1, <1>4, ClearedPass, ClearedTasks DEF RouteInv, Route, Tasks
<1>6. CASE Registered
  <2>1. net' = n /\ fresh' = fresh \ (OfRevision \cup generation)
    BY <1>3, <1>6 DEF Handle
  <2>2. EthOnline(net') <=> eth' = "ip"
    BY <1>3, <2>1
  <2>3. ReadEth'
    <3>1. CASE generation = {}
      <4>1. eth = "ip" /\ ("bootEth" \in fresh' <=> "bootEth" \in fresh) /\ EthOnline(net) \in BOOLEAN
        BY <1>2, <1>3, <2>1, <3>1, RecordTypes DEF OfRevision
      <4>2. eth' = "ip"
        BY <1>3, <3>1
      <4> QED
        BY <1>1, <2>2, <4>1, <4>2 DEF RouteInv, Route, ReadEth
    <3>2. CASE generation = OfEthGeneration
      <4>1. "bootEth" \notin fresh'
        BY <2>1, <3>2 DEF OfEthGeneration
      <4> QED
        BY <1>1, <2>2, <4>1 DEF ReadEth
    <3> QED
      BY <1>3, <3>1, <3>2
  <2>4. ReadWifi'
    <3>1. "bootWifi" \in fresh' <=> "bootWifi" \in fresh
      BY <1>3, <2>1 DEF OfRevision, OfEthGeneration
    <3> QED
      BY <1>1, <1>3, <2>1, <3>1 DEF RouteInv, Route, ReadWifi
  <2> QED
    BY <1>5, <2>3, <2>4 DEF Route
<1>7. CASE ~Registered
  <2>1. start'.at \notin {"registered", "read", "committed", "on"}
    BY <1>1, <1>7 DEF Registered
  <2> QED
    BY <1>5, <2>1 DEF Route, ReadEth, ReadWifi
<1> QED
  BY <1>6, <1>7

\* dual_net_init takes what it has read only where no event came in between.
LEMMA InitStepsRoute ==
    ASSUME RouteInv, DualNetTask,
           InitRegister \/ InitRead \/ InitCommit \/ InitMonitor \/ InitFailed
    PROVE  Route'
<1>1. UNCHANGED <<role, sta, eth, netif, flag, left, paused, plan, heal>>
  BY DEF DualNetTask, InitRegister, InitRead, InitCommit, InitMonitor, InitFailed, interfaces,
         restartVars, meshVars
<1>2. net \in Nets /\ start \in Starts /\ mon \in Mons /\ left \in BOOLEAN
  BY DEF RouteInv, Types, DualTypes, MeshTypes
<1>3. start.at # "on" /\ mon.at = "parked"
  BY DEF InitRegister, InitRead, InitCommit, InitMonitor, InitFailed, RouteInv, Restarts, MonitorRuns
<1>4. OfRevision \cap fresh = {}
  BY <1>3 DEF RouteInv, Route, Tasks
<1>5. OfRevision \cap fresh' = {}
  BY <1>4 DEF InitRegister, InitRead, InitCommit, InitMonitor, InitFailed, OfRevision
<1>6. mon'.at \in {"parked", "loop"}
  BY <1>2, <1>3 DEF InitRegister, InitRead, InitCommit, InitMonitor, InitFailed, Mons
<1>7. Pass'
  <2>1. "route" \notin fresh' /\ "loop" \notin fresh' /\ "applied" \notin fresh'
    BY <1>5 DEF OfRevision
  <2> QED
    BY <1>6, <2>1 DEF Pass
<1>8. Tasks'
  <2>1. IsRoot' /\ "applied" \notin fresh'
    BY <1>1, <1>5 DEF DualNetTask, IsRoot, OfRevision
  <2> QED
    BY <1>1, <1>5, <2>1 DEF RouteInv, Route, Tasks
<1>9. ReadEth' /\ ReadWifi'
  <2>1. CASE InitRegister
    <3>1. start'.at = "registered" /\ "bootEth" \in fresh' /\ "bootWifi" \in fresh'
      BY <1>2, <2>1 DEF InitRegister, Starts
    <3> QED
      BY <3>1 DEF ReadEth, ReadWifi
  <2>2. CASE InitRead
    <3>1. /\ start' = [at |-> "read", eth |-> eth = "ip", wifi |-> sta = "ip"]
          /\ start.at = "registered" /\ UNCHANGED <<net, fresh>>
      BY <2>2 DEF InitRead
    <3>2. /\ start'.at = "read" /\ (start'.eth <=> eth = "ip") /\ (start'.wifi <=> sta = "ip")
      BY <3>1
    <3>3. ReadEth'
      BY <1>1, <3>1, <3>2 DEF RouteInv, Route, ReadEth
    <3>4. ReadWifi'
      BY <1>1, <3>1, <3>2 DEF RouteInv, Route, ReadWifi
    <3> QED
      BY <3>3, <3>4
  <2>3. CASE InitCommit
    <3>1. start'.at = "committed" /\ start.at = "read" /\ net' = TakeRead(net, start.eth, start.wifi)
      BY <2>3 DEF InitCommit, NoStart
    <3> DEFINE wired == IF "bootEth" \in fresh
                        THEN ClearProbe([net EXCEPT !.raw = start.eth, !.up = start.eth]) ELSE net
    <3>2. start.eth \in BOOLEAN /\ start.wifi \in BOOLEAN
      BY <1>2 DEF Starts
    <3>3. wired \in Nets
      BY <1>2, <3>2, RecordTypes
    <3>4. /\ wired.wifi = net.wifi
          /\ EthOnline(wired) <=> IF "bootEth" \in fresh THEN start.eth ELSE EthOnline(net)
      BY <1>2, <3>2 DEF ClearProbe, EthOnline, Nets
    <3>5. net' = IF "bootWifi" \in fresh THEN [wired EXCEPT !.wifi = start.wifi] ELSE wired
      BY <3>1 DEF TakeRead
    <3> HIDE DEF wired
    <3>6. /\ EthOnline(net') <=> IF "bootEth" \in fresh THEN start.eth ELSE EthOnline(net)
          /\ net'.wifi <=> IF "bootWifi" \in fresh THEN start.wifi ELSE net.wifi
      BY <3>2, <3>3, <3>4, <3>5 DEF EthOnline, Nets
    <3>7. ReadEth'
      BY <1>1, <3>1, <3>6 DEF RouteInv, Route, ReadEth
    <3>8. ReadWifi'
      BY <1>1, <3>1, <3>6 DEF RouteInv, Route, ReadWifi
    <3> QED
      BY <3>7, <3>8
  <2>4. CASE InitMonitor
    <3>1. start'.at = "on" /\ start.at = "committed" /\ UNCHANGED <<net, fresh>>
      BY <1>2, <2>4 DEF InitMonitor, Starts
    <3> QED
      BY <1>1, <3>1 DEF RouteInv, Route, ReadEth, ReadWifi
  <2>5. CASE InitFailed
    <3>1. start'.at = "failed"
      BY <2>5 DEF InitFailed, NoStart
    <3> QED
      BY <3>1 DEF ReadEth, ReadWifi
  <2> QED
    BY <2>1, <2>2, <2>3, <2>4, <2>5
<1> QED
  BY <1>7, <1>8, <1>9 DEF Route

\* A record that agrees with another on what the route depends on.
SameRoute(n, m) ==
    n.raw = m.raw /\ n.up = m.up /\ n.wifi = m.wifi /\ n.ready = m.ready /\ n.bad = m.bad

\* Then the choice is the same.
LEMMA SameChoice ==
    ASSUME NEW n, NEW m, SameRoute(n, m)
    PROVE  /\ Choose(n) = Choose(m) /\ (Online(n) <=> Online(m)) /\ (EthOnline(n) <=> EthOnline(m))
           /\ n.active = m.active => (WiredPreferred(n) <=> WiredPreferred(m))
BY DEF SameRoute, Choose, Online, EthOnline, WiredPreferred

\* The steps of the monitor leave all but its own record, the copies and the choice alone.
LEMMA MonitorFrame ==
    ASSUME RouteInv, DualNetTask,
           ~(InitRegister \/ InitRead \/ InitCommit \/ InitMonitor \/ InitFailed)
    PROVE  /\ UNCHANGED <<role, sta, eth, start, left, paused, plan, heal>>
           /\ start.at = "on" /\ mon.at # "parked"
           /\ net \in Nets /\ mon \in Mons
           /\ (\E reachable \in BOOLEAN : ProbeResult(reachable)) \/ SameRoute(net', net)
           /\ EthOnline(net') <=> EthOnline(net)
           /\ net'.wifi = net.wifi
<1>1. net \in Nets /\ mon \in Mons
  BY DEF RouteInv, Types, DualTypes
<1>2. UNCHANGED <<role, sta, eth, start, left, paused, plan, heal>>
  BY DEF DualNetTask, MonitorStep, Loop, RouteSnapshot, RouteSet, RouteCommit, FlagRead, FlagPublish,
         StaRead, Dns, Schedule, ProbeBegin, ProbeResult, interfaces, restartVars, meshVars
<1>3. mon.at # "parked"
  BY DEF DualNetTask, MonitorStep, Loop, RouteSnapshot, RouteSet, RouteCommit, FlagRead, FlagPublish,
         StaRead, Dns, Schedule, ProbeBegin, ProbeResult, At
<1>4. start.at = "on"
  BY <1>3 DEF RouteInv, Restarts, MonitorRuns
<1>5. CASE \E reachable \in BOOLEAN : ProbeResult(reachable)
  <2>1. PICK reachable \in BOOLEAN : ProbeResult(reachable)
    BY <1>5
  <2>2. \A r \in BOOLEAN : Count(net, r).raw = net.raw /\ Count(net, r).up = net.up
                           /\ Count(net, r).wifi = net.wifi
    BY <1>1 DEF Count, Nets
  <2>3. net' = Count(net, reachable) \/ net' = net
    BY <2>1 DEF ProbeResult
  <2> QED
    BY <1>1, <1>2, <1>3, <1>4, <1>5, <2>2, <2>3 DEF EthOnline
<1>6. CASE ~\E reachable \in BOOLEAN : ProbeResult(reachable)
  <2>1. SameRoute(net', net)
    <3>1. SameRoute(net, net)
      BY DEF SameRoute
    <3>2. SameRoute([net EXCEPT !.active = mon.target], net)
      BY <1>1 DEF SameRoute, Nets
    <3>3. SameRoute(Told(net), net)
      BY <1>1 DEF SameRoute, Told, Nets
    <3> QED
      BY <1>6, <3>1, <3>2, <3>3 DEF DualNetTask, MonitorStep, Loop, RouteSnapshot, RouteSet, RouteCommit,
         FlagRead, FlagPublish, StaRead, Dns, Schedule, ProbeBegin, ProbeAnswers
  <2> QED
    BY <1>1, <1>2, <1>3, <1>4, <2>1, SameChoice DEF SameRoute
<1> QED
  BY <1>5, <1>6

\* A pass of the monitor, step by step: what is claimed rests on a revision that is the latest.
LEMMA MonitorStepsRoute ==
    ASSUME RouteInv, DualNetTask,
           ~(InitRegister \/ InitRead \/ InitCommit \/ InitMonitor \/ InitFailed)
    PROVE  Route'
<1>1. /\ UNCHANGED <<role, sta, eth, start, left, paused, plan, heal>>
      /\ start.at = "on" /\ mon.at # "parked"
      /\ net \in Nets /\ mon \in Mons
      /\ (\E reachable \in BOOLEAN : ProbeResult(reachable)) \/ SameRoute(net', net)
      /\ EthOnline(net') <=> EthOnline(net)
      /\ net'.wifi = net.wifi
  BY MonitorFrame
<1>2. ReadEth' /\ ReadWifi'
  BY <1>1 DEF RouteInv, Route, ReadEth, ReadWifi
<1>3. SameRoute(net', net) =>
         /\ Choose(net') = Choose(net) /\ (Online(net') <=> Online(net))
         /\ net'.active = net.active => (WiredPreferred(net') <=> WiredPreferred(net))
  BY SameChoice
<1>4. Tasks
  BY DEF RouteInv, Route
<1>5. Pass
  BY DEF RouteInv, Route
<1>6. ASSUME "applied" \in fresh' => mon'.at \in {"loop", "mqtt", "probe", "connect"} PROVE Tasks'
  BY <1>1, <1>4, <1>6 DEF Tasks, IsRoot
\* Steps that leave the choice, the flag and the default interface as they are.
<1>7. ASSUME SameRoute(net', net), net'.active = net.active, UNCHANGED <<netif, flag>>
      PROVE  /\ ActiveRight' <=> ActiveRight
             /\ FlagRight' <=> FlagRight
             /\ PauseRight' <=> PauseRight
  BY <1>1, <1>3, <1>7 DEF ActiveRight, FlagRight, PauseRight
<1>8. SameRoute(net, net)
  BY DEF SameRoute
<1>9. CASE Loop
  <2>1. /\ mon.at = "loop" /\ mon'.at \in {"mqtt", "route"} /\ ("applied" \in fresh => mon'.at = "mqtt")
        /\ UNCHANGED <<net, netif, flag>> /\ fresh' = fresh \cup {"loop"}
    BY <1>1, <1>9 DEF Loop, At, Mons
  <2>2. "applied" \in fresh' <=> "applied" \in fresh
    BY <2>1
  <2> QED
    BY <1>5, <1>7, <1>8, <2>1, <2>2, <1>6, <1>2 DEF Tasks, Pass, PassRight, Route
<1>10. CASE RouteSnapshot
  <2>1. /\ mon.at = "route" /\ mon'.at = "set" /\ mon'.target = Choose(net)
        /\ UNCHANGED <<net, netif, flag>> /\ fresh' = fresh \cup {"route"}
    BY <1>1, <1>10 DEF RouteSnapshot, Mons
  <2>2. "applied" \notin fresh'
    BY <1>4, <2>1 DEF Tasks
  <2>3. Pass'
    BY <2>1, <2>2 DEF Pass, PassRight
  <2> QED
    BY <1>2, <1>6, <2>2, <2>3 DEF Route
<1>11. ASSUME NEW ok \in BOOLEAN, RouteSet(ok) PROVE Route'
  <2>1. /\ mon.at = "set" /\ mon'.at \in {"commit", "mqtt"} /\ mon'.target = mon.target
        /\ UNCHANGED <<net, fresh, flag>>
        /\ mon'.at = "commit" => (mon.target # "none" => netif' = mon.target)
    BY <1>1, <1>11 DEF RouteSet, At, Mons
  <2>2. "applied" \notin fresh'
    BY <1>4, <2>1 DEF Tasks
  <2>3. Pass'
    BY <1>5, <2>1, <2>2 DEF Pass, PassRight
  <2> QED
    BY <1>2, <1>6, <2>2, <2>3 DEF Route
<1>12. CASE RouteCommit
  <2>1. /\ mon.at = "commit" /\ mon'.at \in {"flag", "mqtt"} /\ (mon'.at = "flag" => "route" \in fresh)
        /\ UNCHANGED <<netif, fresh, flag>>
    BY <1>1, <1>12 DEF RouteCommit, RouteCurrent, At, Mons
  <2>2. "applied" \notin fresh'
    BY <1>4, <2>1 DEF Tasks
  <2>3. ASSUME mon'.at = "flag" PROVE ActiveRight'
    <3>1. "route" \in fresh /\ net' = [net EXCEPT !.active = mon.target]
      BY <1>12, <2>1, <2>3 DEF RouteCommit, RouteCurrent
    <3>2. net'.active = mon.target
      BY <1>1, <3>1 DEF Nets
    <3>3. SameRoute(net', net)
      BY <1>1, <3>1 DEF SameRoute, Nets
    <3> QED
      BY <1>3, <1>5, <2>1, <3>1, <3>2, <3>3 DEF Pass, ActiveRight
  <2>4. Pass'
    BY <2>1, <2>2, <2>3 DEF Pass, PassRight
  <2> QED
    BY <1>2, <1>6, <2>2, <2>4 DEF Route
<1>13. CASE FlagRead
  <2>1. /\ mon.at = "flag" /\ mon'.at = "publish" /\ (mon'.flag <=> Online(net))
        /\ UNCHANGED <<net, netif, fresh, flag>>
    BY <1>1, <1>13, RecordTypes DEF FlagRead, Mons
  <2>2. "applied" \notin fresh'
    BY <1>4, <2>1 DEF Tasks
  <2>3. Pass'
    BY <1>5, <1>7, <1>8, <2>1, <2>2 DEF Pass, PassRight
  <2> QED
    BY <1>2, <1>6, <2>2, <2>3 DEF Route
<1>14. CASE FlagPublish
  <2>1. /\ mon.at = "publish" /\ mon'.at = "sta" /\ (flag' <=> mon.flag)
        /\ UNCHANGED <<net, netif, fresh>>
    BY <1>1, <1>14 DEF FlagPublish, At, Mons
  <2>2. "applied" \notin fresh'
    BY <1>4, <2>1 DEF Tasks
  <2>3. ActiveRight' <=> ActiveRight
    BY <2>1 DEF ActiveRight
  <2>4. (mon.flag <=> Online(net)) => FlagRight'
    BY <2>1 DEF FlagRight
  <2>5. Pass'
    BY <1>5, <2>1, <2>2, <2>3, <2>4 DEF Pass, PassRight
  <2> QED
    BY <1>2, <1>6, <2>2, <2>5 DEF Route
<1>15. CASE StaRead
  <2>1. /\ mon.at = "sta" /\ mon'.at = "manage"
        /\ (mon'.wired <=> WiredPreferred(net)) /\ (mon'.wifi <=> net.wifi)
        /\ UNCHANGED <<net, netif, fresh, flag>>
    BY <1>1, <1>15, RecordTypes DEF StaRead, Mons, Nets
  <2>2. "applied" \notin fresh'
    BY <1>4, <2>1 DEF Tasks
  <2>3. Pass'
    BY <1>5, <1>7, <1>8, <2>1, <2>2 DEF Pass, PassRight
  <2> QED
    BY <1>2, <1>6, <2>2, <2>3 DEF Route
<1>16. ASSUME NEW ok \in BOOLEAN, Dns(ok) PROVE Route'
  <2>1. /\ mon.at = "dns" /\ mon'.at = "mqtt" /\ UNCHANGED <<net, netif, flag>>
        /\ "applied" \in fresh' => "loop" \in fresh
    <3>1. "applied" \notin fresh
      BY <1>4, <1>16 DEF Tasks, Dns, At
    <3> QED
      BY <1>1, <1>16, <3>1 DEF Dns, At, Applied, Mons
  <2>2. Pass'
    BY <1>5, <1>7, <1>8, <2>1 DEF Pass, PassRight
  <2> QED
    BY <1>2, <1>6, <2>1, <2>2 DEF Route
<1>17. ASSUME NEW due \in BOOLEAN, Schedule(due) PROVE Route'
  <2>1. /\ mon.at = "mqtt" /\ mon'.at \in {"probe", "loop"} /\ net' = Told(net)
        /\ UNCHANGED <<netif, flag>> /\ fresh' = fresh \cup {"generation"}
    BY <1>1, <1>17 DEF Schedule, At, Mons
  <2>2. SameRoute(net', net) /\ net'.active = net.active
    BY <1>1, <2>1 DEF SameRoute, Told, Nets
  <2>3. "applied" \in fresh' <=> "applied" \in fresh
    BY <2>1
  <2>4. Pass'
    BY <1>5, <1>7, <2>1, <2>2, <2>3 DEF Pass, PassRight
  <2> QED
    BY <1>2, <1>6, <2>1, <2>4 DEF Route
<1>18. CASE ProbeBegin
  <2>1. /\ mon.at = "probe" /\ mon'.at \in {"connect", "loop"}
        /\ UNCHANGED <<net, netif, flag>> /\ fresh' = fresh \cup {"probe"}
    BY <1>1, <1>18 DEF ProbeBegin, At, Mons
  <2>2. "applied" \in fresh' <=> "applied" \in fresh
    BY <2>1
  <2>3. Pass'
    BY <1>5, <1>7, <1>8, <2>1, <2>2 DEF Pass, PassRight
  <2> QED
    BY <1>2, <1>6, <2>1, <2>3 DEF Route
<1>19. ASSUME NEW reachable \in BOOLEAN, ProbeResult(reachable) PROVE Route'
  <2>1. /\ mon.at = "connect" /\ mon'.at = "loop" /\ UNCHANGED <<netif, flag>>
        /\ UNCHANGED <<net, fresh>> \/ fresh' = fresh \ OfRevision
    BY <1>1, <1>19 DEF ProbeResult, At, Mons
  <2>2. CASE UNCHANGED <<net, fresh>>
    <3>1. Pass'
      BY <1>5, <1>7, <1>8, <2>1, <2>2 DEF Pass, PassRight
    <3> QED
      BY <1>2, <1>6, <2>1, <3>1 DEF Route
  <2>3. CASE fresh' = fresh \ OfRevision
    <3>1. "route" \notin fresh' /\ "loop" \notin fresh' /\ "applied" \notin fresh'
      BY <2>3 DEF OfRevision
    <3>2. Pass'
      BY <2>1, <3>1 DEF Pass
    <3> QED
      BY <1>2, <1>6, <2>1, <3>2 DEF Route
  <2> QED
    BY <2>1, <2>2, <2>3
<1> QED
  BY <1>9, <1>10, <1>11, <1>12, <1>13, <1>14, <1>15, <1>16, <1>17, <1>18, <1>19
     DEF DualNetTask, MonitorStep, ProbeAnswers

\* mesh_root_manage_sta_reconnect: when the mutex is not to be had, there is a plan or a
\* recovery; nobody else takes it on a root.
LEMMA ManageRoute == RouteInv /\ Manage => Route'
<1> SUFFICES ASSUME RouteInv, Manage PROVE Route'
  OBVIOUS
<1>1. /\ UNCHANGED <<role, eth, sta, start, net, fresh, netif, flag, plan, left, heal>>
      /\ mon.at = "manage" /\ mon' = [mon EXCEPT !.at = mon'.at] /\ mon'.at \in {"call", "dns"}
  <2>1. mon \in Mons
    BY DEF RouteInv, Types, DualTypes
  <2> QED
    BY <2>1 DEF Manage, interfaces, Mons
<1>2. IsRoot
  BY <1>1 DEF RouteInv, Restarts, MonitorRuns, Route, Tasks
<1>3. mutex # "free" => plan.planned \/ plan.committed
  <2>1. mutex \in {"free", "plan", "health", "failover", "monitor"}
    BY DEF RouteInv, Types, MeshTypes
  <2>2. heal.at = "read"
    BY <1>2 DEF RouteInv, Route, Tasks, IsRoot
  <2>3. mutex # "health" /\ mutex # "monitor"
    BY <1>1, <2>2 DEF RouteInv, Restarts, Holders
  <2> QED
    BY <2>1, <2>3 DEF RouteInv, Restarts, Holders, OneRestart, StaysAway
<1>4. plan.paused => plan.planned
  BY DEF RouteInv, Restarts, OneRestart
<1>5. "applied" \notin fresh
  BY <1>1 DEF RouteInv, Route, Tasks
<1>6. (mon.wired <=> WiredPreferred(net)) /\ (mon.wifi <=> net.wifi) => PauseRight'
  <2> SUFFICES ASSUME ~plan.planned, ~plan.committed, mon.wired <=> WiredPreferred(net),
                      mon.wifi <=> net.wifi
               PROVE  paused' <=> mon.wired /\ (paused \/ ~mon.wifi)
    BY <1>1 DEF PauseRight, WiredPreferred, EthOnline
  <2>1. ~MeshPaused /\ mutex = "free"
    BY <1>3, <1>4 DEF MeshPaused
  <2>2. paused' = IF WantPause # paused THEN WantPause ELSE paused
    BY <2>1 DEF Manage
  <2>3. paused \in BOOLEAN /\ mon.wired \in BOOLEAN /\ mon.wifi \in BOOLEAN
    BY DEF RouteInv, Types, DualTypes, MeshTypes, Mons
  <2> QED
    BY <2>2, <2>3 DEF WantPause
<1>7. (ActiveRight' <=> ActiveRight) /\ (FlagRight' <=> FlagRight)
  BY <1>1 DEF ActiveRight, FlagRight
<1>8. Pass'
  BY <1>1, <1>5, <1>6, <1>7 DEF RouteInv, Route, Pass, PassRight
<1>9. Tasks' /\ ReadEth' /\ ReadWifi'
  BY <1>1, <1>5 DEF RouteInv, Route, Tasks, ReadEth, ReadWifi, IsRoot
<1> QED
  BY <1>8, <1>9 DEF Route

\* The call that follows changes the station, not what the monitor has decided.
LEMMA ManageCallRoute ==
    ASSUME RouteInv, NEW ok \in BOOLEAN, ManageCall(ok)
    PROVE  Route'
<1>1. /\ UNCHANGED <<role, eth, start, net, fresh, netif, flag, plan, paused, heal>>
      /\ mon.at = "call" /\ mon'.at = "dns"
  BY DEF ManageCall, RouteInv, Types, DualTypes, Mons
<1>2. SdkCall
  <2>1. CASE paused
    BY <2>1 DEF ManageCall, SdkDisconnect, SdkCall
  <2>2. CASE ~paused
    <3>1. sta' = (IF sta = "off" THEN "trying" ELSE sta) /\ UNCHANGED left
      BY <2>2 DEF ManageCall, SdkConnect
    <3> QED
      BY <3>1 DEF SdkCall
  <2> QED
    BY <2>1, <2>2
<1>3. left \in BOOLEAN
  BY DEF RouteInv, Types, MeshTypes
<1>4. ~left' => ~left /\ (sta' = "ip" <=> sta = "ip")
  BY <1>2, <1>3 DEF SdkCall
<1>5. left' => sta' # "ip"
  BY <1>2, <1>3 DEF SdkCall, RouteInv, Route, Tasks
<1>6. "applied" \notin fresh
  BY <1>1 DEF RouteInv, Route, Tasks
<1>7. Tasks' /\ ReadEth' /\ ReadWifi'
  BY <1>1, <1>4, <1>6, <1>5 DEF RouteInv, Route, Tasks, ReadEth, ReadWifi, IsRoot
<1>8. /\ ActiveRight' <=> ActiveRight
      /\ FlagRight' <=> FlagRight
      /\ PauseRight' <=> PauseRight
  BY <1>1 DEF ActiveRight, FlagRight, PauseRight
<1>9. Pass'
  BY <1>1, <1>6, <1>8 DEF RouteInv, Route, Pass, PassRight
<1> QED
  BY <1>7, <1>9 DEF Route

\* The tasks of a child, of a root with two routers and of the restart service.
LEMMA OtherTasksRoute ==
    ASSUME RouteInv, Health \/ Failover \/ Scan \/ Service \/ PlanCommand,
           ~(HealRestart \/ FailoverRestart \/ PlannedRestart)
    PROVE  Route'
<1>1. UNCHANGED <<role, eth, start, net, fresh, mon, netif, flag, paused>>
  <2>1. CASE Health
    BY <2>1 DEF Health, HealthRead, Watch, SoftReset, SoftResetSkipped, SoftCheck, SoftConnect,
       FastPath, HealBegin, HealGiveUp, HealClaim, healUnchanged, dualVars
  <2>2. CASE Failover \/ Scan
    BY <2>2 DEF Failover, FailoverPutOff, TrialSave, TrialWait, TrialDone, FailoverWatch,
       FailoverDecide, FailoverGuard, FailoverClaim, Scan, ScanStart, ScanEnd, ScanDone, foUnchanged,
       interfaces, dualVars
  <2>3. CASE Service \/ PlanCommand
    BY <2>3 DEF Service, PauseBegin, PauseCall, PlanCommand, planUnchanged, dualVars
  <2> QED
    BY <2>1, <2>2, <2>3
<1>2. SdkCall
  <2>1. CASE Health
    BY <2>1 DEF Health, HealthRead, Watch, SoftReset, SoftResetSkipped, SoftCheck, SoftConnect,
       FastPath, HealBegin, HealGiveUp, HealClaim, SdkDisconnect, SdkConnect, SdkCall
  <2>2. CASE Failover \/ Scan
    BY <2>2 DEF Failover, FailoverPutOff, TrialSave, TrialWait, TrialDone, FailoverWatch,
       FailoverDecide, FailoverGuard, FailoverClaim, Scan, ScanStart, ScanEnd, ScanDone, foUnchanged,
       interfaces, SdkCall
  <2>3. CASE Service \/ PlanCommand
    BY <2>3 DEF Service, PauseBegin, PauseCall, PlanCommand, SdkDisconnect, SdkCall
  <2> QED
    BY <2>1, <2>2, <2>3
<1>3. heal'.at # "read" => role = "child"
  <2>1. CASE Health
    <3>1. heal.at # "read" => role = "child"
      BY DEF RouteInv, Route, Tasks
    <3> QED
      BY <2>1, <3>1 DEF Health, HealthRead, Watch, SoftReset, SoftResetSkipped, SoftCheck, SoftConnect,
         FastPath, HealBegin, HealGiveUp, HealClaim
  <2>2. CASE ~Health
    <3>1. UNCHANGED heal
      BY <2>2 DEF Failover, FailoverPutOff, TrialSave, TrialWait, TrialDone, FailoverWatch,
         FailoverDecide, FailoverGuard, FailoverClaim, Scan, ScanStart, ScanEnd, ScanDone, foUnchanged,
         Service, PauseBegin, PauseCall, PlanCommand, planUnchanged
    <3> QED
      BY <3>1 DEF RouteInv, Route, Tasks
  <2> QED
    BY <2>1, <2>2
<1>4. ~plan'.planned /\ ~plan'.committed => ~plan.planned /\ ~plan.committed
  <2>1. plan \in Plans
    BY DEF RouteInv, Types, MeshTypes
  <2>2. CASE Health
    BY <2>1, <2>2 DEF Health, HealthRead, Watch, SoftReset, SoftResetSkipped, SoftCheck, SoftConnect,
       FastPath, HealBegin, HealGiveUp, HealClaim, Claim, restartVars, Plans
  <2>3. CASE Failover \/ Scan
    BY <2>1, <2>3 DEF Failover, FailoverPutOff, TrialSave, TrialWait, TrialDone, FailoverWatch,
       FailoverDecide, FailoverGuard, FailoverClaim, Scan, ScanStart, ScanEnd, ScanDone, Claim,
       restartVars, Plans
  <2>4. CASE Service \/ PlanCommand
    BY <2>1, <2>4 DEF Service, PauseBegin, PauseCall, PlanCommand, EnterPause, PauseAttempt, PauseDone,
       SchedulePlan, Plans
  <2> QED
    BY <2>2, <2>3, <2>4
<1> QED
  BY <1>1, <1>2, <1>3, <1>4, AsideRoute

\* Every step keeps the invariant of the route.
LEMMA RouteKept == RouteInv /\ [Next]_vars => RouteInv'
<1> SUFFICES ASSUME RouteInv, [Next]_vars PROVE Route'
  BY TypesKept, RestartsKept DEF RouteInv
<1>1. CASE HealRestart \/ FailoverRestart \/ PlannedRestart
  BY <1>1, BootRoute DEF HealRestart, FailoverRestart, PlannedRestart
<1>2. ASSUME NEW software \in BOOLEAN, OtherRestart(software) PROVE Route'
  BY <1>2, BootRoute DEF OtherRestart
<1>3. CASE UNCHANGED vars
  <2>1. UNCHANGED <<role, eth, start, net, fresh, mon, netif, flag, paused, sta, left, heal, plan>>
    BY <1>3 DEF vars, interfaces, dualVars, restartVars, meshVars
  <2>2. heal.at # "read" => role = "child"
    BY DEF RouteInv, Route, Tasks
  <2> QED
    BY <2>1, <2>2, AsideRoute DEF SdkCall
<1>4. CASE DualNetTask
  BY <1>4, InitStepsRoute, MonitorStepsRoute
<1>5. ASSUME NEW ok \in BOOLEAN, ManageCall(ok) PROVE Route'
  BY <1>5, ManageCallRoute
<1> QED
  BY <1>1, <1>2, <1>3, <1>4, <1>5, ManageRoute, OtherTasksRoute, EthRoute, StaEventsRoute
     DEF Next, Monitor, Environment

\* Whenever the monitor has applied the latest revision, the default route, Network_Flag
\* and the station's reconnection follow the interfaces (dual_net_monitor_task,
\* mesh_root_manage_sta_reconnect).
THEOREM AppliedRouteAlways == Spec => []AppliedRoute
<1>1. Init => RouteInv
  BY InitTypes, InitRestarts, InitRoute DEF RouteInv
<1>2. RouteInv /\ [Next]_vars => RouteInv'
  BY RouteKept
<1>3. RouteInv => AppliedRoute
  <2> SUFFICES ASSUME RouteInv, "applied" \in fresh, ~left, ~plan.planned, ~plan.committed
               PROVE  /\ net.active = Choose(net)
                      /\ net.active # "none" => netif = net.active
                      /\ flag = (eth = "ip" \/ sta = "ip")
                      /\ ~WiredPreferred(net) => ~paused
                      /\ WiredPreferred(net) /\ ~net.wifi => paused
    BY DEF AppliedRoute
  <2>1. ActiveRight /\ FlagRight /\ PauseRight
    BY DEF RouteInv, Route, Pass
  <2>2. start.at = "on"
    BY DEF RouteInv, Route, Tasks, OfRevision
  <2>3. flag <=> eth = "ip" \/ sta = "ip"
    BY <2>1, <2>2 DEF RouteInv, Route, ReadEth, ReadWifi, FlagRight, Online
  <2>4. flag \in BOOLEAN
    BY DEF RouteInv, Types, DualTypes
  <2>5. flag = (eth = "ip" \/ sta = "ip")
    BY <2>3, <2>4
  <2> QED
    BY <2>1, <2>5 DEF ActiveRight, PauseRight
<1> QED
  BY <1>1, <1>2, <1>3, PTL DEF Spec
=============================================================================
