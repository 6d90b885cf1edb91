---------------------------- MODULE AgingCommand ----------------------------
(***************************************************************************)
(* The aging commands of main/Task/appTask.c: set_pn, start_aging and      *)
(* stop_aging as the task mqtt_rx executes them, the recovery that         *)
(* net_init runs after a restart, and the life of the control task         *)
(* aging_ctrl, with the records they leave in NVS and SPIFFS.              *)
(*                                                                         *)
(* A PN is set at most once, so that a PN names one "set_pn".  NoPN is the *)
(* empty string: ready = NoPN stands for s_new_pn_ready = 0.  Each write   *)
(* to NVS is a step of its own (a power loss may come between two of them) *)
(* and may fail, as long as fewer than MaxFail have failed.  The two keys  *)
(* of a pending start_aging, its flag and its Seq, are one record here.    *)
(*                                                                         *)
(* A definition commented `Fault' is a faulty variant of the one after it; *)
(* it is not part of the specification, and serves to check that the       *)
(* properties notice such a fault.                                         *)
(***************************************************************************)
EXTENDS Naturals, FiniteSets

CONSTANTS
    PNs,            \* the PNs the server scans
    NoPN,           \* the empty PN
    EarlyCommands,  \* whether commands arrive while net_init still recovers
    MaxFail,        \* bound: NVS writes that fail
    MaxRestart      \* bound: restarts of the node

ASSUME CommandAssumption ==
    /\ NoPN \notin PNs
    /\ EarlyCommands \in BOOLEAN
    /\ MaxFail \in Nat
    /\ MaxRestart \in Nat

VARIABLES
    cmd,       \* s_aging_cmd_state
    pn,        \* PN_Code
    ready,     \* PN_Code_Ready
    cancel,    \* s_aging_cancel
    ctrl,      \* where aging_ctrl is; "none" is s_aging_ctrl_exited
    at,        \* where mqtt_rx and net_init are
    nvs,       \* the keys of NVS, and the PNs the two BLE target records are bound to
    json,      \* whether Aging.json exists
    session,   \* the PN aging_ctrl was created for
    acked,     \* PNs that a set_pn reply of Code 1 acknowledged
    over,      \* acknowledged PNs that a session's end or a later set_pn used up
    stopped,   \* PNs that were ready when a stop_aging was executed
    hasty,     \* a round was erased before its start had recorded it
    failures,
    restarts

ramVars   == <<cmd, pn, ready, cancel>>
ghostVars == <<acked, over, stopped, hasty>>
vars == <<cmd, pn, ready, cancel, ctrl, at, nvs, json, session,
          acked, over, stopped, hasty, failures, restarts>>

Tasks   == {"mqtt_rx", "net_init"}
MaybePN == PNs \cup {NoPN}

\* A write to NVS that either succeeds or, within the bound, fails.
Attempt(ok) ==
    /\ ~ok => failures < MaxFail
    /\ failures' = IF ok THEN failures ELSE failures + 1

\* ble_target_load: no record at all is accepted, a record of another PN is not.
TargetFits(bound, p) == bound \in {NoPN, p}

Goto(w, place) == at' = [at EXCEPT ![w] = place]

\* Where a task continues after a command: mqtt_rx takes the next one, net_init ends.
Rest(w) == IF w = "mqtt_rx" THEN "idle" ELSE "over"

EmptyNvs == [ready |-> NoPN, flag |-> FALSE, current |-> NoPN, valid |-> FALSE,
             pending |-> FALSE, tReady |-> NoPN, tCurrent |-> NoPN]

Booted == [mqtt_rx |-> "off", net_init |-> "ready"]

\* A first start, or the first one after an older firmware left a pending start_aging.
Init ==
    /\ cmd = "IDLE"
    /\ pn = NoPN
    /\ ready = NoPN
    /\ cancel = FALSE
    /\ ctrl = "none"
    /\ at = Booted
    /\ \E p \in BOOLEAN : nvs = [EmptyNvs EXCEPT !.pending = p]
    /\ json \in BOOLEAN
    /\ json => nvs.pending
    /\ session = NoPN
    /\ acked = {}
    /\ over = {}
    /\ stopped = {}
    /\ hasty = FALSE
    /\ failures = 0
    /\ restarts = 0

-----------------------------------------------------------------------------
(***************************************************************************)
(* Init_ByNetwork_Flag: mqtt_rx exists before anything is recovered.       *)
(***************************************************************************)
RecoverReady ==
    /\ at["net_init"] = "ready"
    /\ ready' = IF nvs.flag /\ nvs.ready # NoPN /\ TargetFits(nvs.tReady, nvs.ready)
                THEN nvs.ready ELSE NoPN
    /\ at' = [at EXCEPT !["net_init"] = "valid",
                        !["mqtt_rx"] = IF EarlyCommands THEN "idle" ELSE @]
    /\ UNCHANGED <<cmd, pn, cancel, ctrl, nvs, json, session, ghostVars, failures, restarts>>

\* A round was running: it takes precedence over a ready PN and a pending start.
RecoverRunning ==
    /\ at["net_init"] = "valid"
    /\ nvs.valid
    /\ ready' = NoPN
    /\ Goto("net_init", "purgeString")
    /\ UNCHANGED <<cmd, pn, cancel, ctrl, nvs, json, session, ghostVars, failures, restarts>>

\* The records of the round are read once ready and pending are cleared.
RecoverRead ==
    /\ at["net_init"] = "read"
    /\ pn' = nvs.current
    /\ Goto("net_init", "load")
    /\ UNCHANGED <<cmd, ready, cancel, ctrl, nvs, json, session, ghostVars, failures, restarts>>

RecoverLoad ==
    /\ at["net_init"] = "load"
    /\ Goto("net_init", IF json /\ pn # NoPN /\ TargetFits(nvs.tCurrent, pn)
                        THEN "cancel" ELSE "failed")
    /\ UNCHANGED <<ramVars, ctrl, nvs, json, session, ghostVars, failures, restarts>>

\* A start_aging pending since an older firmware: it starts at once if its PN arrived.
RecoverPending ==
    /\ at["net_init"] = "valid"
    /\ ~nvs.valid
    /\ cmd' = IF nvs.pending /\ json THEN "WAIT_PN" ELSE "IDLE"
    /\ Goto("net_init", IF ~nvs.pending THEN "over"
                        ELSE IF ~json THEN "consumePending"
                        ELSE IF ready # NoPN THEN "save" ELSE "over")
    /\ UNCHANGED <<pn, ready, cancel, ctrl, nvs, json, session, ghostVars, failures, restarts>>

\* The queue of mqtt_rx is served from here on, if it was not before.
RecoverOver ==
    /\ at["net_init"] = "over"
    /\ at["mqtt_rx"] = "off"
    /\ Goto("mqtt_rx", "idle")
    /\ UNCHANGED <<ramVars, ctrl, nvs, json, session, ghostVars, failures, restarts>>

-----------------------------------------------------------------------------
(***************************************************************************)
(* persist_ready_pn_state, for a set_pn, its undo, a consumption ("consume *)
(* ...") and a recovery ("purge..."); the latter two go on with            *)
(* persist_pending_start_state(false).                                     *)
(***************************************************************************)
FlagPlace == [setString |-> "setFlag", undoString |-> "undoFlag",
              consumeString |-> "consumeFlag", purgeString |-> "purgeFlag"]

\* Where a task goes on once the ready PN is written, or could not be.
Persisted(place) ==
    CASE place \in {"undoString", "undoFlag"} -> "idle"
      [] place \in {"consumeString", "consumeFlag"} -> "consumePending"
      [] place \in {"purgeString", "purgeFlag"} -> "purgePending"
      [] OTHER -> "setReply"

\* accept_ready_pn_data takes the PN back when it could not be written.
Unpersisted(w) ==
    LET setting == at[w] \in {"setString", "setFlag"} IN
    /\ ready' = IF setting THEN NoPN ELSE ready
    /\ Goto(w, IF setting THEN "undoString" ELSE Persisted(at[w]))

\* A ready PN in NVS that RAM does not know of any more is superseded here.
PersistString(w, ok) ==
    /\ at[w] \in DOMAIN FlagPlace
    /\ Attempt(ok)
    /\ nvs' = IF ok THEN [nvs EXCEPT !.ready = ready] ELSE nvs
    /\ over' = IF ok /\ ready # NoPN THEN over \cup (acked \cap {nvs.ready}) ELSE over
    /\ IF ok THEN Goto(w, FlagPlace[at[w]]) /\ UNCHANGED ready ELSE Unpersisted(w)
    /\ UNCHANGED <<cmd, pn, cancel, ctrl, json, session, acked, stopped, hasty, restarts>>

PersistFlag(w, ok) ==
    /\ at[w] \in {FlagPlace[place] : place \in DOMAIN FlagPlace}
    /\ Attempt(ok)
    /\ nvs' = IF ok THEN [nvs EXCEPT !.flag = (ready # NoPN)] ELSE nvs
    /\ IF ok THEN Goto(w, Persisted(at[w])) /\ UNCHANGED ready ELSE Unpersisted(w)
    /\ UNCHANGED <<cmd, pn, cancel, ctrl, json, session, ghostVars, restarts>>

PersistPending(w, ok) ==
    /\ at[w] \in {"consumePending", "purgePending"}
    /\ Attempt(ok)
    /\ nvs' = IF ok THEN [nvs EXCEPT !.pending = FALSE] ELSE nvs
    /\ Goto(w, IF at[w] = "purgePending" THEN "read" ELSE Rest(w))
    /\ UNCHANGED <<ramVars, ctrl, json, session, ghostVars, restarts>>

-----------------------------------------------------------------------------
(***************************************************************************)
(* set_pn: accept_ready_pn_data and its callers' reply.                    *)
(***************************************************************************)
MayAccept == cmd # "RUNNING" /\ ready = NoPN

SetPn(p, ok) ==
    /\ at["mqtt_rx"] = "idle"
    /\ MayAccept
    /\ p \notin {nvs.tReady, nvs.tCurrent, nvs.current} \cup acked
    /\ Attempt(ok)
    /\ IF ok
       THEN /\ nvs' = [nvs EXCEPT !.tReady = p]
            /\ ready' = p
            /\ Goto("mqtt_rx", "setString")
       ELSE UNCHANGED <<nvs, ready, at>>
    /\ UNCHANGED <<cmd, pn, cancel, ctrl, json, session, ghostVars, restarts>>

\* The reply; then either the pending command is started, or aging_valid is cleared.
SetPnReply(ok) ==
    /\ at["mqtt_rx"] = "setReply"
    /\ acked' = acked \cup ({ready} \ {NoPN})
    /\ IF cmd = "WAIT_PN"
       THEN /\ ok
            /\ cmd' = IF json THEN cmd ELSE "IDLE"
            /\ Goto("mqtt_rx", IF json THEN "save" ELSE "consumePending")
            /\ UNCHANGED <<nvs, failures>>
       ELSE /\ Attempt(ok)
            /\ nvs' = IF ok THEN [nvs EXCEPT !.valid = FALSE] ELSE nvs
            /\ Goto("mqtt_rx", "idle")
            /\ UNCHANGED cmd
    /\ UNCHANGED <<pn, ready, cancel, ctrl, json, session, over, stopped, hasty, restarts>>

-----------------------------------------------------------------------------
(***************************************************************************)
(* start_aging: the gates of the command, then start_aging_with_ready_pn.  *)
(***************************************************************************)

\* Fault: the gate on the command state is missing.
MayStartRunning == ready # NoPN \/ cmd = "RUNNING"

MayStart == cmd # "RUNNING" /\ ready # NoPN

StartAging ==
    /\ at["mqtt_rx"] = "idle"
    /\ MayStart
    /\ Goto("mqtt_rx", "save")
    /\ UNCHANGED <<ramVars, ctrl, nvs, json, session, ghostVars, failures, restarts>>

\* reject_start_aging_missing_pn drops the pending command of an older firmware.
StartRejected ==
    /\ at["mqtt_rx"] = "idle"
    /\ cmd = "WAIT_PN"
    /\ ready = NoPN
    /\ cmd' = "IDLE"
    /\ json' = FALSE
    /\ Goto("mqtt_rx", "consumePending")
    /\ UNCHANGED <<pn, ready, cancel, ctrl, nvs, session, ghostVars, failures, restarts>>

StartSave(w, ok) ==
    /\ at[w] = "save"
    /\ Attempt(ok)
    /\ json' = (json \/ ok)
    /\ Goto(w, IF ok THEN "copy" ELSE Rest(w))
    /\ UNCHANGED <<ramVars, ctrl, nvs, session, ghostVars, restarts>>

\* Fault: an existing record of the target keeps its binding to the previous device.
StartCopyOnce(w, ok) ==
    /\ at[w] = "copy"
    /\ Attempt(ok)
    /\ pn' = IF ok THEN ready ELSE NoPN
    /\ nvs' = IF ok /\ nvs.tCurrent = NoPN THEN [nvs EXCEPT !.tCurrent = ready] ELSE nvs
    /\ Goto(w, IF ok THEN "current" ELSE Rest(w))
    /\ UNCHANGED <<cmd, ready, cancel, ctrl, json, session, ghostVars, restarts>>

\* PN_Code and the BLE target of the round are taken from the ready ones.
StartCopy(w, ok) ==
    /\ at[w] = "copy"
    /\ Attempt(ok)
    /\ pn' = IF ok THEN ready ELSE NoPN
    /\ nvs' = IF ok THEN [nvs EXCEPT !.tCurrent = ready] ELSE nvs
    /\ Goto(w, IF ok THEN "current" ELSE Rest(w))
    /\ UNCHANGED <<cmd, ready, cancel, ctrl, json, session, ghostVars, restarts>>

StartCurrent(w, ok) ==
    /\ at[w] = "current"
    /\ Attempt(ok)
    /\ pn' = IF ok THEN pn ELSE NoPN
    /\ nvs' = IF ok THEN [nvs EXCEPT !.current = pn] ELSE nvs
    /\ Goto(w, IF ok THEN "cancelStart" ELSE Rest(w))
    /\ UNCHANGED <<cmd, ready, cancel, ctrl, json, session, ghostVars, restarts>>

-----------------------------------------------------------------------------
(***************************************************************************)
(* aging_command_json_parse, for a start ("...Start") or for a recovery.   *)
(***************************************************************************)
ForStart(place) == place \in {"cancelStart", "joinStart", "prepareStart", "createdStart",
                              "failedStart", "undoStart"}

Failing(w) == Goto(w, IF ForStart(at[w]) THEN "failedStart" ELSE "failed")

ParseCancel(w) ==
    /\ at[w] \in {"cancel", "cancelStart"}
    /\ cancel' = TRUE
    /\ Goto(w, IF ForStart(at[w]) THEN "joinStart" ELSE "join")
    /\ UNCHANGED <<cmd, pn, ready, ctrl, nvs, json, session, ghostVars, failures, restarts>>

\* The old tasks have exited; begun says that the sampling session, which needs a PN,
\* has begun and the BLE driver is resumed.
ParseJoin(w, begun) ==
    /\ at[w] \in {"join", "joinStart"}
    /\ ctrl = "none"
    /\ begun => pn # NoPN
    /\ cancel' = FALSE
    /\ IF begun THEN Goto(w, IF ForStart(at[w]) THEN "prepareStart" ELSE "prepare")
       ELSE Failing(w)
    /\ UNCHANGED <<cmd, pn, ready, ctrl, nvs, json, session, ghostVars, failures, restarts>>

\* The BLE driver did not pause, or a task did not exit, within AGING_CANCEL_WAIT_MS.
ParseTimeout(w) ==
    /\ at[w] \in {"join", "joinStart"}
    /\ Failing(w)
    /\ UNCHANGED <<ramVars, ctrl, nvs, json, session, ghostVars, failures, restarts>>

\* start_failed: configuration, device, protocol or memory.
ParseFail(w) ==
    /\ at[w] \in {"prepare", "prepareStart"}
    /\ json' = FALSE
    /\ Failing(w)
    /\ UNCHANGED <<ramVars, ctrl, nvs, session, ghostVars, failures, restarts>>

\* A control task that already exists is not created again.
ParseCreate(w) ==
    /\ at[w] \in {"prepare", "prepareStart"}
    /\ IF ctrl = "none" THEN ctrl' = "run" /\ session' = pn
       ELSE UNCHANGED <<ctrl, session>>
    /\ Goto(w, IF ForStart(at[w]) THEN "createdStart" ELSE "created")
    /\ UNCHANGED <<ramVars, nvs, json, ghostVars, failures, restarts>>

\* The caller's failure branch; a recorded round that cannot be recovered is given up.
\* A start clears current_pn first, a recovery aging_valid.
StartFailed(w, ok) ==
    /\ at[w] \in {"failed", "failedStart"}
    /\ Attempt(ok)
    /\ cmd' = "IDLE"
    /\ pn' = NoPN
    /\ nvs' = IF ~ok THEN nvs
              ELSE IF ForStart(at[w]) THEN [nvs EXCEPT !.current = NoPN]
              ELSE [nvs EXCEPT !.valid = FALSE]
    /\ over' = IF nvs.valid THEN over \cup (acked \cap {nvs.current}) ELSE over
    /\ Goto(w, IF ForStart(at[w]) THEN "undoStart" ELSE "undo")
    /\ UNCHANGED <<ready, cancel, ctrl, json, session, acked, stopped, hasty, restarts>>

StartUndone(w, ok) ==
    /\ at[w] \in {"undo", "undoStart"}
    /\ Attempt(ok)
    /\ nvs' = IF ~ok THEN nvs
              ELSE IF ForStart(at[w]) THEN [nvs EXCEPT !.valid = FALSE]
              ELSE [nvs EXCEPT !.current = NoPN]
    /\ Goto(w, IF ForStart(at[w]) THEN "consumePending" ELSE Rest(w))
    /\ UNCHANGED <<ramVars, ctrl, json, session, ghostVars, restarts>>

RecoverRuns ==
    /\ at["net_init"] = "created"
    /\ cmd' = "RUNNING"
    /\ Goto("net_init", "over")
    /\ UNCHANGED <<pn, ready, cancel, ctrl, nvs, json, session, ghostVars, failures, restarts>>

StartRuns(w) ==
    /\ at[w] = "createdStart"
    /\ cmd' = "RUNNING"
    /\ Goto(w, "recordPn")
    /\ UNCHANGED <<pn, ready, cancel, ctrl, nvs, json, session, ghostVars, failures, restarts>>

-----------------------------------------------------------------------------
(***************************************************************************)
(* The round is recorded before the ready PN is consumed.                  *)
(***************************************************************************)
RecordPn(w, ok) ==
    /\ at[w] = "recordPn"
    /\ Attempt(ok)
    /\ nvs' = IF ok THEN [nvs EXCEPT !.current = pn] ELSE nvs
    /\ Goto(w, "recordValid")
    /\ UNCHANGED <<ramVars, ctrl, json, session, ghostVars, restarts>>

\* Fault: aging_valid is left to the next write.
RecordNothing(w, ok) ==
    /\ at[w] = "recordValid"
    /\ Attempt(ok)
    /\ ready' = NoPN
    /\ Goto(w, "consumeString")
    /\ UNCHANGED <<cmd, pn, cancel, ctrl, nvs, json, session, ghostVars, restarts>>

RecordValid(w, ok) ==
    /\ at[w] = "recordValid"
    /\ Attempt(ok)
    /\ nvs' = IF ok THEN [nvs EXCEPT !.valid = TRUE] ELSE nvs
    /\ ready' = NoPN
    /\ Goto(w, "consumeString")
    /\ UNCHANGED <<cmd, pn, cancel, ctrl, json, session, ghostVars, restarts>>

-----------------------------------------------------------------------------
(***************************************************************************)
(* stop_aging.                                                             *)
(***************************************************************************)
StopAging ==
    /\ at["mqtt_rx"] = "idle"
    /\ cancel' = TRUE
    /\ Goto("mqtt_rx", "stopJoin")
    /\ UNCHANGED <<cmd, pn, ready, ctrl, nvs, json, session, ghostVars, failures, restarts>>

\* The reply asks the server to repeat the command; the round stays cancelled.
StopTimeout ==
    /\ at["mqtt_rx"] = "stopJoin"
    /\ Goto("mqtt_rx", "idle")
    /\ UNCHANGED <<ramVars, ctrl, nvs, json, session, ghostVars, failures, restarts>>

StopErase(ok) ==
    /\ at["mqtt_rx"] = "stopJoin"
    /\ ctrl = "none"
    /\ Attempt(ok)
    /\ nvs' = IF ok THEN [nvs EXCEPT !.valid = FALSE] ELSE nvs
    /\ over' = over \cup (acked \cap {pn})
    /\ Goto("mqtt_rx", "stopClear")
    /\ UNCHANGED <<ramVars, ctrl, json, session, acked, stopped, hasty, restarts>>

\* clear_aging_command_runtime
StopClear ==
    /\ at["mqtt_rx"] = "stopClear"
    /\ json' = FALSE
    /\ cmd' = "IDLE"
    /\ pn' = NoPN
    /\ ready' = NoPN
    /\ over' = over \cup (acked \cap {ready})
    /\ stopped' = stopped \cup (acked \cap {ready})
    /\ Goto("mqtt_rx", "idle")
    /\ UNCHANGED <<cancel, ctrl, nvs, session, acked, hasty, failures, restarts>>

-----------------------------------------------------------------------------
(***************************************************************************)
(* The control task's ways to end a round.                                 *)
(***************************************************************************)

\* Cancelled: it exits and leaves the cleanup to the command task.
CtrlExit ==
    /\ ctrl = "run"
    /\ cancel
    /\ ctrl' = "none"
    /\ UNCHANGED <<ramVars, at, nvs, json, session, ghostVars, failures, restarts>>

\* Aging_Task_Abort_Cleanup
CtrlAbort ==
    /\ ctrl = "run"
    /\ ~cancel
    /\ cancel' = TRUE
    /\ ctrl' = "abort"
    /\ UNCHANGED <<cmd, pn, ready, at, nvs, json, session, ghostVars, failures, restarts>>

\* A start_aging between the creation of its control task and the consumption of its PN.
Recording == {"createdStart", "recordPn", "recordValid", "consumeString"}

\* Fault: the record of the finished round is not erased.
EraseNothing(place, next, ok) ==
    /\ ctrl = place
    /\ Attempt(ok)
    /\ over' = over \cup (acked \cap {session})
    /\ ctrl' = next
    /\ UNCHANGED <<ramVars, at, nvs, json, session, acked, stopped, hasty, restarts>>

\* SelfRecovery_Erase_aging_valid, before Aging.json is deleted.
CtrlErase(place, next, ok) ==
    /\ ctrl = place
    /\ Attempt(ok)
    /\ nvs' = IF ok THEN [nvs EXCEPT !.valid = FALSE] ELSE nvs
    /\ over' = over \cup (acked \cap {session})
    /\ hasty' = (hasty \/ \E w \in Tasks : at[w] \in Recording)
    /\ ctrl' = next
    /\ UNCHANGED <<ramVars, at, json, session, acked, stopped, restarts>>

CtrlAbortClear ==
    /\ ctrl = "abortClear"
    /\ json' = FALSE
    /\ cmd' = "IDLE"
    /\ pn' = NoPN
    /\ ready' = NoPN
    /\ ctrl' = "none"
    /\ UNCHANGED <<cancel, at, nvs, session, ghostVars, failures, restarts>>

\* AgingComplete; it does not look at the cancellation any more.
CtrlComplete ==
    /\ ctrl = "run"
    /\ cancel' = TRUE
    /\ ctrl' = "complete"
    /\ UNCHANGED <<cmd, pn, ready, at, nvs, json, session, ghostVars, failures, restarts>>

\* IDLE is set before the state is published, the PNs are cleared after it.
CtrlIdle ==
    /\ ctrl = "completeIdle"
    /\ json' = FALSE
    /\ cmd' = "IDLE"
    /\ ctrl' = "completeClear"
    /\ UNCHANGED <<pn, ready, cancel, at, nvs, session, ghostVars, failures, restarts>>

CtrlClear ==
    /\ ctrl = "completeClear"
    /\ pn' = NoPN
    /\ ready' = NoPN
    /\ ctrl' = "none"
    /\ UNCHANGED <<cmd, cancel, at, nvs, json, session, ghostVars, failures, restarts>>

-----------------------------------------------------------------------------
\* Power loss or esp_restart: NVS and SPIFFS remain.
Restart ==
    /\ restarts < MaxRestart
    /\ restarts' = restarts + 1
    /\ cmd' = "IDLE"
    /\ pn' = NoPN
    /\ ready' = NoPN
    /\ cancel' = FALSE
    /\ ctrl' = "none"
    /\ at' = Booted
    /\ session' = NoPN
    /\ UNCHANGED <<nvs, json, acked, over, stopped, hasty, failures>>

Recovery ==
    \/ RecoverReady
    \/ RecoverRunning
    \/ RecoverRead
    \/ RecoverLoad
    \/ RecoverPending
    \/ RecoverOver
    \/ RecoverRuns

Command ==
    \/ \E p \in PNs, ok \in BOOLEAN : SetPn(p, ok)
    \/ \E ok \in BOOLEAN : SetPnReply(ok)
    \/ StartAging
    \/ StartRejected
    \/ StopAging
    \/ StopTimeout
    \/ \E ok \in BOOLEAN : StopErase(ok)
    \/ StopClear

Starting(w) ==
    \/ \E ok \in BOOLEAN : StartSave(w, ok)
    \/ \E ok \in BOOLEAN : StartCopy(w, ok)
    \/ \E ok \in BOOLEAN : StartCurrent(w, ok)
    \/ ParseCancel(w)
    \/ \E begun \in BOOLEAN : ParseJoin(w, begun)
    \/ ParseTimeout(w)
    \/ ParseFail(w)
    \/ ParseCreate(w)
    \/ \E ok \in BOOLEAN : StartFailed(w, ok)
    \/ \E ok \in BOOLEAN : StartUndone(w, ok)
    \/ StartRuns(w)
    \/ \E ok \in BOOLEAN : RecordPn(w, ok)
    \/ \E ok \in BOOLEAN : RecordValid(w, ok)

Persisting(w) ==
    \/ \E ok \in BOOLEAN : PersistString(w, ok)
    \/ \E ok \in BOOLEAN : PersistFlag(w, ok)
    \/ \E ok \in BOOLEAN : PersistPending(w, ok)

Control ==
    \/ CtrlExit
    \/ CtrlAbort
    \/ \E ok \in BOOLEAN : CtrlErase("abort", "abortClear", ok)
    \/ CtrlAbortClear
    \/ CtrlComplete
    \/ \E ok \in BOOLEAN : CtrlErase("complete", "completeIdle", ok)
    \/ CtrlIdle
    \/ CtrlClear

Next == Recovery \/ Command \/ (\E w \in Tasks : Starting(w) \/ Persisting(w)) \/ Control \/ Restart

Spec == Init /\ [][Next]_vars

-----------------------------------------------------------------------------
(***************************************************************************)
(* Properties.                                                             *)
(***************************************************************************)
Places == {"off", "idle", "over", "ready", "valid", "read", "load", "setString", "setFlag",
           "undoString", "undoFlag", "setReply", "save", "copy", "current", "cancel",
           "cancelStart", "join", "joinStart", "prepare", "prepareStart", "created",
           "createdStart", "failed", "failedStart", "undo", "undoStart", "recordPn",
           "recordValid", "consumeString", "consumeFlag", "consumePending", "purgeString",
           "purgeFlag", "purgePending", "stopJoin", "stopClear"}

\* Every variable keeps the type its C declaration gives it.
TypeOK ==
    /\ cmd \in {"IDLE", "WAIT_PN", "RUNNING"}
    /\ pn \in MaybePN
    /\ ready \in MaybePN
    /\ cancel \in BOOLEAN
    /\ ctrl \in {"none", "run", "abort", "abortClear", "complete", "completeIdle", "completeClear"}
    /\ at \in [Tasks -> Places]
    /\ nvs \in [ready: MaybePN, flag: BOOLEAN, current: MaybePN, valid: BOOLEAN,
                pending: BOOLEAN, tReady: MaybePN, tCurrent: MaybePN]
    /\ json \in BOOLEAN
    /\ session \in MaybePN
    /\ acked \subseteq PNs
    /\ over \subseteq PNs
    /\ stopped \subseteq PNs
    /\ hasty \in BOOLEAN
    /\ failures \in Nat
    /\ restarts \in Nat

\* The PN of a running round is never switched to the next device's: while the control
\* task tests a device, PN_Code is the PN it was created for, whatever commands arrive
\* and whatever a previous round's end still clears.
SessionKeepsItsPn == ctrl = "run" => pn = session /\ session \in PNs

\* A power loss during a recorded round finds everything the recovery asks for: the
\* command file, the PN and a BLE target bound to that PN.
RecordedRoundRecoverable ==
    ctrl = "run" /\ nvs.valid =>
        /\ json
        /\ nvs.current = session
        /\ TargetFits(nvs.tCurrent, session)

\* Handing the PN over from "ready" to "running" is crash-safe: as long as the writes
\* succeed, NVS holds each acknowledged PN as ready or as the recorded round at every
\* moment until its round is over, it is stopped, or another PN supersedes it.
AckedPnInNvs ==
    failures = 0 /\ ~hasty =>
        \A p \in acked \ over :
            \/ nvs.flag /\ nvs.ready = p
            \/ nvs.valid /\ nvs.current = p

\* A device is not tested again without a new scan: once the record of its round is
\* erased, neither a start nor a recovery runs it again (if the writes succeeded; a ready
\* PN that stop_aging cancelled is excepted, see StopCancelsReady).
EndedRoundStaysEnded ==
    failures = 0 /\ ~hasty /\ ctrl = "run" => session \notin over \ stopped

\* stop_aging "cancels the current, the ready and the pending context completely"
\* (comment before clear_aging_command_runtime): a PN it cancelled is not ready again.
StopCancelsReady == ready \notin stopped

\* "If the initialisation fails, PN_Code_Ready stays valid" (comment before
\* start_aging_with_ready_pn): the server can repeat start_aging without a new scan.
FailedStartKeepsReady == at["mqtt_rx"] = "failedStart" => ready # NoPN

\* "While RUNNING there may be no ready PN of the next device" (comment in
\* Init_ByNetwork_Flag): between two commands a running node has no ready PN.
RunningExcludesReady ==
    cmd = "RUNNING" /\ at = [mqtt_rx |-> "idle", net_init |-> "over"] => ready = NoPN
=============================================================================
