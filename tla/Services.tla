------------------------------ MODULE Services ------------------------------
(***************************************************************************)
(* Five services of a node that share nothing but their task times: the    *)
(* update over the air (MeshOta), the commands over MQTT (MqttCommands),   *)
(* the cache of samples (SampleStore), the link to the aging device        *)
(* (BleLink) and the protocols of the devices (ProtocolFetch).  A          *)
(* behaviour is that of one of them, which the scenario names; the others  *)
(* rest in their initial state.                                            *)
(***************************************************************************)
EXTENDS MeshOta, MqttCommands, SampleStore, BleLink, ProtocolFetch

CONSTANT Scenarios  \* the part, what it starts from, and the budgets

\* What a scenario starts from.  The rows are older than the first round, and none of them
\* was acknowledged: the history of the confirmations begins with the scenario.
OldRows == [record : {0}, num : Nat, push : {"pending", "inflight"}]
ASSUME ScenariosAssumption ==
    \A s \in Scenarios :
        /\ s.node \in {"root", "child"} /\ s.servers \subseteq Versions
        /\ s.asks \in Seq([kind : DOMAIN Replies, long : BOOLEAN])
        /\ s.disk \in Disks /\ s.rows \in Seq(OldRows)

\* The state of each service without the budgets.
otaState == <<node, server, flash, run, boot, cache, planned, link, rx, inflight, sdk, queue, supply,
              cand, ota, dl, svc, events, available, report, broker>>
commandState == <<asked, wire, data, assembly, memory>>
storeState == <<storage, tracking, table, settle, publishing, sampling>>
bleState == <<session, ble, radio, aging, closer, calls, handler, host, inward, auth, command>>

Init ==
    /\ \E s \in Scenarios :
          /\ part = s.part /\ budget = s.budget
          /\ node = s.node /\ server \in s.servers /\ asks = s.asks /\ disk = s.disk /\ rows = s.rows
    /\ OtaInit /\ CommandsInit /\ StoreInit /\ BleInit /\ FetchInit

Next ==
    /\ UNCHANGED part
    /\ \/ part = "ota" /\ OtaNext /\ UNCHANGED <<commandState, storeState, bleState, fetchState>>
       \/ part = "commands" /\ CommandsNext /\ UNCHANGED <<otaState, storeState, bleState, fetchState>>
       \/ part = "store" /\ StoreNext /\ UNCHANGED <<otaState, commandState, bleState, fetchState>>
       \/ part = "ble" /\ BleNext /\ UNCHANGED <<otaState, commandState, storeState, fetchState>>
       \/ part = "fetch" /\ FetchNext /\ UNCHANGED <<otaState, commandState, storeState, bleState>>

vars == <<part, budget, otaState, commandState, storeState, bleState, fetchState>>

Spec ==
    /\ Init /\ [][Next]_vars
    /\ OtaFairness /\ CommandsFairness
=============================================================================
