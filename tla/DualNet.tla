------------------------------- MODULE DualNet -------------------------------
(***************************************************************************)
(* The uplink of a root node (main/Communication/Internet/dual_net): the   *)
(* Ethernet and the Wi-Fi interface report events, one task (net_monitor)  *)
(* reads a snapshot of the state, moves the default route, publishes       *)
(* Network_Flag, hands DNS to the SoftAP, and probes the Ethernet.         *)
(*                                                                         *)
(* Revisions and generations are counters that are only ever compared with *)
(* a copy taken earlier; "fresh" is the set of the copies that still equal *)
(* their counter, so the counters need no bound (they do not wrap).  The   *)
(* waits of the task are "some time later".  Not here because nothing      *)
(* depends on it in this build: the debounced link, the Wi-Fi fallback     *)
(* (DUAL_NET_ENABLE_WIFI_FALLBACK is 0), the display states, and the       *)
(* operations that have no caller (dual_net_select_uplink, the switching   *)
(* of the mesh).                                                           *)
(***************************************************************************)
EXTENDS Naturals

CONSTANTS
    ProbeOk,    \* LG_DUAL_NET_UPLINK_PROBE_OK_COUNT
    ProbeFail   \* LG_DUAL_NET_UPLINK_PROBE_FAIL_COUNT

ASSUME ProbeAssumption == ProbeOk \in Nat \ {0} /\ ProbeFail \in Nat \ {0}

VARIABLES
    eth,     \* the Ethernet interface: "down", "link" or "ip"
    sta,     \* the Wi-Fi station: "off", "trying", "linked" or "ip"
    start,   \* dual_net_init: where it is, and what it read
    net,     \* s_state
    fresh,   \* the copies of a revision or generation that are still up to date
    mon,     \* the net monitor: where it is, and its locals
    netif,   \* the default network interface
    flag     \* Network_Flag

interfaces == <<eth, sta>>
dualVars == <<start, net, fresh, mon, netif>>

Uplink == {"none", "eth", "wifi"}
OfRevision == {"applied", "loop", "route"}
OfEthGeneration == {"probe", "generation", "bootEth"}
OfWifiGeneration == {"bootWifi"}

NoNet == [raw |-> FALSE, up |-> FALSE, wifi |-> FALSE, ready |-> FALSE, ok |-> 0, bad |-> 0,
          active |-> "none", told |-> FALSE]
NoStart == [at |-> "down", eth |-> FALSE, wifi |-> FALSE]
Parked == [at |-> "parked", target |-> "none", flag |-> FALSE, wired |-> FALSE, wifi |-> FALSE]

\* dual_net_eth_online: the address outlives the link, so eth_up says it all.
EthOnline(n) == n.raw /\ n.up

Online(n) == EthOnline(n) \/ n.wifi

\* dual_net_has_eth_ip, for the other tasks.
HasEthIp == start.at = "on" /\ EthOnline(net)

\* dual_net_choose_uplink.
Choose(n) ==
    CASE EthOnline(n) /\ (n.ready \/ ~n.wifi) -> "eth"
      [] n.wifi /\ ~(EthOnline(n) /\ n.ready) -> "wifi"
      [] OTHER -> "none"

\* The wired uplink carries the node: the station need not reconnect.
WiredPreferred(n) == EthOnline(n) /\ n.active = "eth" /\ n.bad < ProbeFail

ClearProbe(n) == [n EXCEPT !.ready = FALSE, !.ok = 0, !.bad = 0]

DualInit ==
    /\ eth = "down" /\ sta = "trying"
    /\ start = NoStart
    /\ net = NoNet
    /\ fresh = {}
    /\ mon = Parked
    /\ netif = "none"
    /\ flag = FALSE

-----------------------------------------------------------------------------
(* The events of the interfaces.  A handler runs only when registered.     *)

Registered == start.at \in {"registered", "read", "committed", "on"}

Handle(n, generation) ==
    IF Registered
    THEN /\ net' = n
         /\ fresh' = fresh \ (OfRevision \cup generation)
    ELSE UNCHANGED <<net, fresh>>

\* eth_event_handler.
EthLink(up) ==
    /\ eth = "down" <=> up
    /\ eth' = IF up THEN "link" ELSE "down"
    /\ Handle(ClearProbe([net EXCEPT !.raw = up, !.up = FALSE]), OfEthGeneration)
    /\ UNCHANGED <<sta, start, mon, netif, flag>>

\* IP_EVENT_ETH_GOT_IP; a lease renewed with the same address keeps the probes.
EthGotIp(same) ==
    /\ eth # "down"
    /\ same => eth = "ip"
    /\ eth' = "ip"
    /\ LET got == [net EXCEPT !.raw = TRUE, !.up = TRUE]
       IN IF net.up /\ same
          THEN Handle(got, {})
          ELSE Handle(ClearProbe(got), OfEthGeneration)
    /\ UNCHANGED <<sta, start, mon, netif, flag>>

EthLostIp ==
    /\ eth = "ip"
    /\ eth' = "link"
    /\ Handle(ClearProbe([net EXCEPT !.up = FALSE]), OfEthGeneration)
    /\ UNCHANGED <<sta, start, mon, netif, flag>>

\* dual_net's handlers of the station's events: has it an address now?
DualStaEvent(has) == Handle([net EXCEPT !.wifi = has], OfWifiGeneration)

-----------------------------------------------------------------------------
(* dual_net_init: what is read after the handlers are registered must not  *)
(* overwrite what they have reported in the meantime.                      *)

InitRegister ==
    /\ start.at = "down"
    /\ start' = [start EXCEPT !.at = "registered"]
    /\ fresh' = fresh \cup {"bootEth", "bootWifi"}
    /\ UNCHANGED <<interfaces, net, mon, netif, flag>>

InitRead ==
    /\ start.at = "registered"
    /\ start' = [at |-> "read", eth |-> eth = "ip", wifi |-> sta = "ip"]
    /\ UNCHANGED <<interfaces, net, fresh, mon, netif, flag>>

TakeRead(n, e, w) ==
    LET wired == IF "bootEth" \in fresh THEN ClearProbe([n EXCEPT !.raw = e, !.up = e]) ELSE n
    IN IF "bootWifi" \in fresh THEN [wired EXCEPT !.wifi = w] ELSE wired

InitCommit ==
    /\ start.at = "read"
    /\ start' = [NoStart EXCEPT !.at = "committed"]
    /\ net' = TakeRead(net, start.eth, start.wifi)
    /\ fresh' = fresh \ (OfRevision \cup OfEthGeneration \cup OfWifiGeneration)
    /\ UNCHANGED <<interfaces, mon, netif, flag>>

InitMonitor ==
    /\ start.at = "committed"
    /\ start' = [start EXCEPT !.at = "on"]
    /\ mon' = [mon EXCEPT !.at = "loop"]
    /\ UNCHANGED <<interfaces, net, fresh, netif, flag>>

\* No handler is left behind: mesh.c's criterion of the station stays in charge.
InitFailed ==
    /\ start.at \in {"down", "registered", "committed"}
    /\ start' = [NoStart EXCEPT !.at = "failed"]
    /\ UNCHANGED <<interfaces, net, fresh, mon, netif, flag>>

-----------------------------------------------------------------------------
(* The net monitor.                                                        *)

At(here, there) == mon.at = here /\ mon' = [mon EXCEPT !.at = there]

Loop ==
    /\ At("loop", IF "applied" \in fresh THEN "mqtt" ELSE "route")
    /\ fresh' = fresh \cup {"loop"}
    /\ UNCHANGED <<interfaces, start, net, netif, flag>>

RouteSnapshot ==
    /\ mon.at = "route"
    /\ mon' = [mon EXCEPT !.at = "set", !.target = Choose(net)]
    /\ fresh' = fresh \cup {"route"}
    /\ UNCHANGED <<interfaces, start, net, netif, flag>>

\* esp_netif_set_default_netif.
RouteSet(ok) ==
    /\ At("set", IF ok THEN "commit" ELSE "mqtt")
    /\ netif' = IF ok /\ mon.target # "none" THEN mon.target ELSE netif
    /\ UNCHANGED <<interfaces, start, net, fresh, flag>>

RouteCurrent == "route" \in fresh

RouteCommit ==
    /\ At("commit", IF RouteCurrent THEN "flag" ELSE "mqtt")
    /\ net' = IF RouteCurrent THEN [net EXCEPT !.active = mon.target] ELSE net
    /\ UNCHANGED <<interfaces, start, fresh, netif, flag>>

FlagRead ==
    /\ mon.at = "flag"
    /\ mon' = [mon EXCEPT !.at = "publish", !.flag = Online(net)]
    /\ UNCHANGED <<interfaces, start, net, fresh, netif, flag>>

FlagPublish ==
    /\ At("publish", "sta")
    /\ flag' = mon.flag
    /\ UNCHANGED <<interfaces, start, net, fresh, netif>>

\* mesh_root_manage_sta_reconnect follows, in mesh.c.
StaRead ==
    /\ mon.at = "sta"
    /\ mon' = [mon EXCEPT !.at = "manage", !.wired = WiredPreferred(net), !.wifi = net.wifi]
    /\ UNCHANGED <<interfaces, start, net, fresh, netif, flag>>

\* Fault: the revision of this moment counts as applied, not the one of the loop.
AppliedNow(names) == names \cup {"applied"}

\* applied_revision = reconcile_revision.
Applied(names) == IF "loop" \in names THEN names \cup {"applied"} ELSE names \ {"applied"}

\* Fault: a revision is applied only when there is an uplink.
DnsNeedsUplink(ok) ==
    /\ At("dns", "mqtt")
    /\ fresh' = IF net.active # "none" /\ Online(net) /\ ok THEN Applied(fresh) ELSE fresh
    /\ UNCHANGED <<interfaces, start, net, netif, flag>>

\* dual_net_get_active_uplink and dual_net_refresh_dns_to_softap: no uplink,
\* or one that has gone, has no DNS to hand on.
Dns(ok) ==
    /\ At("dns", "mqtt")
    /\ LET usable == \/ net.active = "eth" /\ EthOnline(net)
                     \/ net.active = "wifi" /\ net.wifi
       IN fresh' = IF net.active = "none" \/ (usable /\ ok) THEN Applied(fresh) ELSE fresh
    /\ UNCHANGED <<interfaces, start, net, netif, flag>>

\* dual_net_check_ready_callback, once.
Told(n) == [n EXCEPT !.told = @ \/ Online(n)]

\* A new generation is probed at once, an old one when the period is over.
Schedule(due) ==
    /\ At("mqtt", IF EthOnline(net) /\ (due \/ "generation" \notin fresh) THEN "probe" ELSE "loop")
    /\ net' = Told(net)
    /\ fresh' = fresh \cup {"generation"}
    /\ UNCHANGED <<interfaces, start, netif, flag>>

\* dual_net_probe_uplink_reachable: the broker answers over the Ethernet, or not.
ProbeAnswers == BOOLEAN

ProbeBegin ==
    /\ At("probe", IF EthOnline(net) THEN "connect" ELSE "loop")
    /\ fresh' = fresh \cup {"probe"}
    /\ UNCHANGED <<interfaces, start, net, netif, flag>>

\* dual_net_process_uplink_probe, once the connection attempt has its answer.
Count(n, reachable) ==
    IF reachable
    THEN LET ok == IF n.ok < ProbeOk THEN n.ok + 1 ELSE n.ok
         IN [n EXCEPT !.ok = ok, !.bad = 0, !.ready = @ \/ ok = ProbeOk]
    ELSE LET bad == IF n.bad < ProbeFail THEN n.bad + 1 ELSE n.bad
         IN [n EXCEPT !.ok = 0, !.bad = bad, !.ready = @ /\ bad < ProbeFail]

ProbeResult(reachable) ==
    /\ At("connect", "loop")
    /\ IF "probe" \in fresh /\ EthOnline(net)
       THEN net' = Count(net, reachable) /\ fresh' = fresh \ OfRevision
       ELSE UNCHANGED <<net, fresh>>
    /\ UNCHANGED <<interfaces, start, netif, flag>>

\* The monitor's own steps; "manage" is MeshNode's.
MonitorStep ==
    \/ Loop \/ RouteSnapshot \/ RouteCommit \/ FlagRead \/ FlagPublish \/ StaRead \/ ProbeBegin
    \/ \E due \in BOOLEAN : Schedule(due)
    \/ \E reachable \in ProbeAnswers : ProbeResult(reachable)

DualTypeOK ==
    /\ eth \in {"down", "link", "ip"}
    /\ sta \in {"off", "trying", "linked", "ip"}
    /\ start \in [at : {"down", "registered", "read", "committed", "on", "failed"},
                  eth : BOOLEAN, wifi : BOOLEAN]
    /\ net \in [raw : BOOLEAN, up : BOOLEAN, wifi : BOOLEAN, ready : BOOLEAN,
                ok : 0 .. ProbeOk, bad : 0 .. ProbeFail, active : Uplink, told : BOOLEAN]
    /\ fresh \subseteq (OfRevision \cup OfEthGeneration \cup OfWifiGeneration)
    /\ mon \in [at : {"parked", "loop", "route", "set", "commit", "flag", "publish", "sta",
                      "manage", "call", "dns", "mqtt", "probe", "connect"},
                target : Uplink, flag : BOOLEAN, wired : BOOLEAN, wifi : BOOLEAN]
    /\ netif \in Uplink
    /\ flag \in BOOLEAN
=============================================================================
