------------------------------- MODULE MeshOta -------------------------------
(***************************************************************************)
(* Updates over the air (main/APP/OTA): an update command makes a root     *)
(* download the firmware over HTTP (ota.c) and a child receive it through  *)
(* the mesh library; the image goes to the spare slot, its record to NVS   *)
(* (ota_cache.c), the slot becomes the boot slot, the node supplies the    *)
(* image to the nodes below it, and the completion is reported (mesh_ota.c,*)
(* the cmd_task).                                                          *)
(*                                                                         *)
(* The cmd_task runs mesh_ota_service_poll again and again; svc.at is the  *)
(* stage of the poll it is in, or a step of what the stage has called, and *)
(* svc.back the stage that follows.  A version stands for the file named   *)
(* after it.  The waits of the task (90 s between attempts, 10 s for a     *)
(* stable parent) are "some time later"; the link's generation is only     *)
(* compared with the session's copy: link.current.                         *)
(***************************************************************************)
EXTENDS Budget, Sequences

CONSTANTS
    RetryMax,  \* LG_MESH_OTA_RETRY_MAX
    Blocks     \* the blocks a firmware file is transferred in

ASSUME OtaAssumption == RetryMax \in Nat /\ Blocks \in Nat \ {0}

VARIABLES
    node,       \* IsRoot: "root" or "child"
    server,     \* the version that update.json names
    flash,      \* the image each slot holds, 0 when it is not a whole image
    run, boot,  \* the running slot, the slot the next start boots
    cache,      \* the record in NVS
    planned,    \* system_restart_is_planned
    link,       \* s_parent, and whether s_rx_parent_generation is its generation
    rx,         \* the session of the receiver
    inflight,   \* s_sdk_inflight
    sdk,        \* the library's transfer
    queue,      \* the events the library has posted
    supply,     \* s_ready_file
    cand,       \* the candidate: s_candidate_record and its flags
    ota,        \* s_ota_state
    dl,         \* the dl_task: where it is, and what it left
    svc,        \* the cmd_task
    events,     \* the bits of s_cmd_events that carry something
    available,  \* s_command_available
    report,     \* s_otacp_pending
    broker      \* app_mqtt_is_connected

stored == <<node, server, flash, run, boot, cache>>
library == <<sdk, queue>>
receiver == <<rx, inflight>>
service == <<supply, cand, ota, svc>>
entry == <<available, events>>
otaVars == <<budget, stored, planned, link, receiver, library, service, entry, dl, report, broker>>

Versions == 1 .. 3
Slots == {"a", "b"}
Origins == {"download", "bootstrap", "current"}
NoRecord == [slot |-> "none", ver |-> 0, origin |-> "download"]
NoRx == [open |-> FALSE, accepting |-> FALSE, handle |-> FALSE, blocks |-> {}, done |-> FALSE,
         validated |-> FALSE, failed |-> FALSE, finish |-> "no"]
NoTransfer == [at |-> "idle", left |-> 0, done |-> "no", told |-> FALSE, resumable |-> FALSE]
NoSupply == [valid |-> FALSE, slot |-> "none", ver |-> 0]
NoCandidate == [persisted |-> FALSE, report |-> FALSE, origin |-> "download"]
NoDownload == [at |-> "idle", ok |-> TRUE, found |-> 0, got |-> FALSE]
NoLink == [online |-> FALSE, stable |-> FALSE, current |-> TRUE]
\* mesh_ota_init: the first poll restores the supply before any command.
StartService ==
    [at |-> "restore", back |-> "wait", retries |-> 0, waiting |-> FALSE, finalizing |-> FALSE,
     downloading |-> FALSE, current |-> FALSE, bootstrap |-> FALSE, tries |-> 0, deferred |-> FALSE,
     active |-> FALSE, waitParent |-> FALSE, scheduled |-> FALSE, meta |-> 0, metaValid |-> FALSE,
     observed |-> FALSE, held |-> FALSE, request |-> FALSE]

RunningVersion == flash[run]

\* esp_ota_get_next_update_partition(NULL).
Spare == CHOOSE s \in Slots : s # run

\* receiver_link_current.
LinkCurrent == link.online /\ link.current /\ ~planned

\* What provide_file_cb hands out is the file of s_ready_file.
Provides == supply.valid

OtaInit ==
    /\ flash = [a |-> 2, b |-> 0]
    /\ run = "a" /\ boot = "a"
    /\ cache = NoRecord
    /\ planned = FALSE /\ link = NoLink
    /\ rx = NoRx /\ inflight = FALSE
    /\ sdk = NoTransfer /\ queue = <<>>
    /\ supply = NoSupply /\ cand = NoCandidate
    /\ ota = "idle" /\ dl = NoDownload
    /\ svc = StartService
    /\ events = {} /\ available = TRUE /\ report = FALSE /\ broker = FALSE

-----------------------------------------------------------------------------
(* The stages of mesh_ota_service_poll.                                    *)

\* The stages that have nothing to do are passed at once: what they look at is
\* the task's own.
AfterRequest(s) ==
    IF s.waiting /\ ~s.held THEN "retry" ELSE IF s.bootstrap THEN "bootstrap" ELSE "end"
AfterFinish(s) == IF s.request THEN "request" ELSE AfterRequest(s)
AfterDone(s) == IF node = "child" THEN "parent" ELSE AfterFinish(s)

Following(s) ==
    CASE s.back = "parent" -> AfterDone(s)
      [] s.back = "request" -> AfterFinish(s)
      [] s.back = "retry" -> AfterRequest(s)
      [] s.back = "bootstrap" -> IF s.bootstrap THEN "bootstrap" ELSE "end"
      [] OTHER -> s.back

GoOn(s) == svc' = [s EXCEPT !.at = Following(s)]
Enter(s, at) == svc' = [s EXCEPT !.at = at]

\* Fault: a download that is given up still counts as the command's.
RetryForgets(s) ==
    IF s.waiting THEN s
    ELSE IF s.retries >= RetryMax THEN s
    ELSE [s EXCEPT !.retries = @ + 1, !.waiting = TRUE]

\* schedule_retry.
WithRetry(s) ==
    IF s.waiting THEN s
    ELSE IF s.retries >= RetryMax THEN [s EXCEPT !.active = FALSE]
    ELSE [s EXCEPT !.retries = @ + 1, !.waiting = TRUE]

Failed(s) == ota' = "failed" /\ GoOn(WithRetry(s))

Drop(s, keep) ==
    /\ rx' = NoRx
    /\ link' = [link EXCEPT !.current = TRUE]
    /\ ota' = IF keep THEN "waiting" ELSE "failed"
    /\ GoOn([s EXCEPT !.waiting = FALSE, !.active = keep, !.waitParent = keep, !.scheduled = FALSE])

Complete == rx.validated /\ rx.finish = "ok"

\* cancel_child_for_parent, which keeps a candidate that is complete and confirmed.
Cancel(s, keep) ==
    IF keep /\ Complete THEN GoOn(s) /\ UNCHANGED <<rx, link, ota>> ELSE Drop(s, keep)

\* Fault: what was supplied stays.
StartSupplying(s) ==
    /\ rx' = NoRx
    /\ ota' = "running"
    /\ IF node = "root"
         THEN /\ dl' = [dl EXCEPT !.at = "start"]
              /\ GoOn([s EXCEPT !.current = FALSE, !.downloading = TRUE])
         ELSE Enter([s EXCEPT !.current = FALSE], "child") /\ UNCHANGED dl
    /\ UNCHANGED supply

\* start_attempt, up to handle_child_path: nothing is supplied any more.
StartAttempt(s) ==
    /\ supply' = NoSupply
    /\ rx' = NoRx
    /\ ota' = "running"
    /\ IF node = "root"
         THEN /\ dl' = [dl EXCEPT !.at = "start"]
              /\ GoOn([s EXCEPT !.current = FALSE, !.downloading = TRUE])
         ELSE Enter([s EXCEPT !.current = FALSE], "child") /\ UNCHANGED dl

\* stage_record, then finish_candidate.
Stage(s, record, persisted, reported) ==
    /\ supply' = [valid |-> FALSE, slot |-> record.slot, ver |-> record.ver]
    /\ cand' = [persisted |-> persisted, report |-> reported, origin |-> record.origin]
    /\ ota' = "running"
    /\ Enter([s EXCEPT !.finalizing = TRUE, !.current = FALSE, !.active = FALSE,
                       !.waitParent = FALSE, !.scheduled = FALSE], "store")

\* The record of the running image (bind_running_supply).
Running(origin) == [slot |-> run, ver |-> RunningVersion, origin |-> origin]

\* stage_candidate.
StageDownload(s, version) ==
    Stage([s EXCEPT !.bootstrap = FALSE],
          [slot |-> Spare, ver |-> version, origin |-> "download"], FALSE, TRUE)

PollDone == "done" \in events

\* A round of the task: it takes the bits of its events.
Poll ==
    /\ svc.at = "wait"
    /\ events' = {}
    /\ LET s == [svc EXCEPT !.request = "request" \in events, !.held = FALSE, !.back = "parent"] IN
       IF PollDone THEN Enter(s, "rootDone") ELSE GoOn(s)
    /\ UNCHANGED <<budget, stored, planned, link, receiver, library, supply, cand, ota, available, dl,
                   report, broker>>

\* process_root_finish.
RootDone ==
    /\ svc.at = "rootDone"
    /\ LET s == [svc EXCEPT !.downloading = FALSE, !.back = "parent"] IN
       IF ~dl.ok THEN Failed(s) /\ UNCHANGED <<supply, cand>>
       ELSE IF dl.got THEN StageDownload(s, dl.found)
       ELSE IF dl.found = RunningVersion
         THEN /\ Enter([s EXCEPT !.meta = dl.found, !.bootstrap = FALSE, !.current = TRUE], "current")
              /\ UNCHANGED <<supply, cand, ota>>
         ELSE Enter(s, "restore") /\ UNCHANGED <<supply, cand, ota>>
    /\ UNCHANGED <<budget, stored, planned, link, receiver, library, entry, dl, report, broker>>

ParentMismatch == (~link.online \/ ~link.current) /\ (~svc.waitParent \/ ~link.current)

\* poll_child_parent: a session of an older link is cancelled; the request waits
\* until the parent is stable and the library has ended the old transfer.
PollParent ==
    /\ svc.at = "parent"
    /\ LET s == [svc EXCEPT !.back = "finish", !.held = TRUE] IN
       IF ~svc.active \/ svc.finalizing
         THEN GoOn([s EXCEPT !.held = FALSE]) /\ UNCHANGED <<rx, link, supply, ota, dl>>
       ELSE IF planned THEN Cancel(s, FALSE) /\ UNCHANGED <<supply, dl>>
       ELSE IF ParentMismatch
         THEN Cancel([s EXCEPT !.held = ~Complete], TRUE)
              /\ UNCHANGED <<supply, dl>>
       ELSE IF ~svc.waitParent
         THEN GoOn([s EXCEPT !.held = FALSE]) /\ UNCHANGED <<rx, link, supply, ota, dl>>
       ELSE IF ~link.online \/ ~link.stable \/ inflight \/ ~svc.scheduled
         THEN /\ GoOn([s EXCEPT !.scheduled = link.online /\ link.stable /\ ~inflight])
              /\ UNCHANGED <<rx, link, supply, ota, dl>>
       ELSE StartAttempt([s EXCEPT !.scheduled = FALSE]) /\ UNCHANGED link
    /\ UNCHANGED <<budget, stored, planned, inflight, library, cand, entry, report, broker>>

\* process_child_finish: the local validation and the library's FINISH may come
\* in either order; late is the end of the wait for the validation.
ChildFinish(late) ==
    /\ svc.at = "finish"
    /\ LET s == [svc EXCEPT !.back = "request"] IN
       IF ~rx.open \/ rx.finish = "no" \/ (rx.finish = "ok" /\ ~rx.done /\ ~late)
         THEN ~late /\ GoOn(s) /\ UNCHANGED <<rx, supply, cand, ota>>
         ELSE /\ rx' = NoRx
              /\ IF rx.finish = "ok" /\ rx.validated /\ ~rx.failed
                   THEN StageDownload(s, svc.meta)
                   ELSE Failed(s) /\ UNCHANGED <<supply, cand>>
    /\ UNCHANGED <<budget, stored, planned, link, inflight, library, entry, dl, report, broker>>

\* CMD_EVT_REQUEST.
Request ==
    /\ svc.at = "request"
    /\ available' = FALSE
    /\ LET s == [svc EXCEPT !.back = "retry", !.observed = TRUE, !.request = FALSE] IN
       IF node = "child" /\ (svc.active \/ planned) THEN GoOn(s) /\ UNCHANGED <<rx, supply, ota, dl>>
       ELSE IF report THEN GoOn([s EXCEPT !.deferred = TRUE]) /\ UNCHANGED <<rx, supply, ota, dl>>
       ELSE IF svc.finalizing
         THEN /\ IF svc.waiting THEN GoOn([s EXCEPT !.deferred = TRUE])
                 ELSE Enter([s EXCEPT !.deferred = @ \/ ~cand.report, !.retries = 0], "store")
              /\ UNCHANGED <<rx, supply, ota, dl>>
       ELSE IF svc.downloading \/ ota = "running" \/ svc.waiting
         THEN GoOn(s) /\ UNCHANGED <<rx, supply, ota, dl>>
       ELSE IF ota = "pending" THEN Enter(s, "confirm") /\ UNCHANGED <<rx, supply, ota, dl>>
       ELSE StartAttempt([s EXCEPT !.retries = 0, !.metaValid = FALSE, !.active = node = "child"])
    /\ UNCHANGED <<budget, stored, planned, link, inflight, library, cand, events, report, broker>>

\* The deadline of a retry: the stage that failed is tried again.
Retry(due) ==
    /\ svc.at = "retry"
    /\ LET s == [svc EXCEPT !.back = "bootstrap", !.waiting = ~due] IN
       IF ~due THEN GoOn(s) /\ UNCHANGED <<rx, supply, ota, dl>>
       ELSE IF svc.finalizing THEN Enter(s, "store") /\ UNCHANGED <<rx, supply, ota, dl>>
       ELSE IF svc.current THEN Enter(s, "current") /\ UNCHANGED <<rx, supply, ota, dl>>
       ELSE StartAttempt(s)
    /\ UNCHANGED <<budget, stored, planned, link, inflight, library, cand, entry, report, broker>>

CanBootstrap ==
    /\ ~report /\ ~svc.downloading /\ ~svc.finalizing /\ ~svc.waiting
    /\ ota = "idle" /\ broker

\* bootstrap_running_supply: the running image becomes the supply when the
\* server names it.
Bootstrap(ok) ==
    /\ svc.at = "bootstrap"
    /\ IF ~CanBootstrap
         THEN ok /\ Enter(svc, "end") /\ UNCHANGED <<budget, supply, cand, ota>>
         ELSE /\ Costs(ok)
              /\ LET s == [svc EXCEPT !.back = "end", !.tries = @ + 1,
                                      !.bootstrap = ~ok /\ svc.tries < RetryMax] IN
                 IF ok /\ server = RunningVersion
                   THEN Stage(s, Running("bootstrap"), FALSE, FALSE)
                   ELSE GoOn(s) /\ UNCHANGED <<supply, cand, ota>>
    /\ UNCHANGED <<stored, planned, link, receiver, library, entry, dl, report, broker>>

\* finish_command_if_idle.
CommandOver ==
    /\ svc.observed /\ ~svc.downloading /\ ~svc.waiting
    /\ ~svc.active /\ ~svc.waitParent /\ ~svc.deferred
    /\ svc.finalizing => svc.retries >= RetryMax
    /\ svc.finalizing \/ ota \in {"idle", "pending", "failed"}
    /\ ~inflight /\ ~rx.open

\* The end of the poll: poll_otacp_report, the deferred request, and the flag
\* that lets the next command in.
PollEnd(sent) ==
    /\ svc.at = "end"
    /\ sent => report
    /\ IF report /\ broker THEN Costs(sent) ELSE ~sent /\ UNCHANGED budget
    /\ report' = (report /\ ~sent)
    /\ LET s == [svc EXCEPT !.at = "wait"] IN
       IF svc.deferred /\ ~report' /\ ~svc.finalizing /\ ~svc.downloading /\ ~svc.waiting
         THEN /\ svc' = [s EXCEPT !.deferred = FALSE]
              /\ events' = events \cup {"request"}
              /\ UNCHANGED available
         ELSE /\ svc' = [s EXCEPT !.observed = @ /\ ~CommandOver]
              /\ available' = (available \/ CommandOver)
              /\ UNCHANGED events
    /\ UNCHANGED <<stored, planned, link, receiver, library, supply, cand, ota, dl, broker>>

-----------------------------------------------------------------------------
(* What the stages call.                                                   *)

\* restore_cached_supply: the record, when the slot still holds its image and
\* the image is fit to be supplied (ota_cache_verify).
RecordFits ==
    /\ cache # NoRecord
    /\ flash[cache.slot] = cache.ver
    /\ cache.ver >= RunningVersion
    /\ cache.origin = "current" => cache.ver = RunningVersion
    /\ cache.origin = "bootstrap" => cache.slot = run

\* request_supply_recovery, at the start and when there is nothing newer.
Restore(ok) ==
    /\ svc.at = "restore"
    /\ Costs(ok)
    /\ LET s == [svc EXCEPT !.bootstrap = FALSE] IN
       IF ~ok THEN GoOn(s) /\ UNCHANGED <<cache, supply, cand, ota>>
       ELSE IF RecordFits THEN Stage(s, cache, TRUE, FALSE) /\ UNCHANGED cache
       ELSE /\ cache' = NoRecord
            /\ GoOn([s EXCEPT !.bootstrap = TRUE, !.tries = 0])
            /\ UNCHANGED <<supply, cand, ota>>
    /\ UNCHANGED <<node, server, flash, run, boot, planned, link, receiver, library, entry, dl, report,
                   broker>>

\* prepare_current_supply: a command for the version that runs is complete once
\* the node supplies it.
Current(ok) ==
    /\ svc.at = "current"
    /\ Costs(ok)
    /\ LET mine == cache # NoRecord /\ cache.ver = svc.meta IN
       /\ cache' = IF mine /\ ~RecordFits THEN NoRecord ELSE cache
       /\ IF ok THEN Stage(svc, IF mine /\ RecordFits THEN [cache EXCEPT !.origin = "current"]
                                                      ELSE Running("current"), FALSE, TRUE)
                ELSE Failed(svc) /\ UNCHANGED <<supply, cand>>
    /\ UNCHANGED <<node, server, flash, run, boot, planned, link, receiver, library, entry, dl, report,
                   broker>>

\* Fault: the slot is selected although the record was not stored.
StoreUnchecked(ok) ==
    /\ svc.at = "store"
    /\ Costs(ok)
    /\ cache' = IF ok /\ ~cand.persisted
                  THEN [slot |-> supply.slot, ver |-> supply.ver, origin |-> cand.origin] ELSE cache
    /\ cand' = [cand EXCEPT !.persisted = ok]
    /\ Enter(svc, "boot")
    /\ UNCHANGED <<node, server, flash, run, boot, planned, link, receiver, library, supply, ota, entry, dl,
                   report, broker>>

\* finalize_candidate: the record is committed before the slot is selected.
Store(ok) ==
    /\ svc.at = "store"
    /\ Costs(ok)
    /\ IF ~ok \/ supply.ver < RunningVersion
         THEN GoOn(WithRetry(svc)) /\ UNCHANGED <<cache, cand>>
         ELSE /\ cache' = IF cand.persisted THEN cache
                          ELSE [slot |-> supply.slot, ver |-> supply.ver, origin |-> cand.origin]
              /\ cand' = [cand EXCEPT !.persisted = TRUE]
              /\ Enter(svc, "boot")
    /\ UNCHANGED <<node, server, flash, run, boot, planned, link, receiver, library, supply, ota, entry, dl,
                   report, broker>>

AwaitsRestart == cand.origin = "download" /\ supply.ver > RunningVersion

SelectBoot(ok) ==
    /\ svc.at = "boot"
    /\ Costs(ok)
    /\ IF ~ok THEN GoOn(WithRetry(svc)) /\ UNCHANGED <<boot, ota>>
       ELSE /\ boot' = IF AwaitsRestart THEN supply.slot ELSE boot
            /\ ota' = IF AwaitsRestart THEN "pending" ELSE "idle"
            /\ Enter(svc, "serve")
    /\ UNCHANGED <<node, server, flash, run, cache, planned, link, receiver, library, supply, cand, entry, dl,
                   report, broker>>

\* The supply opens before the nodes below are told; telling them fails as well
\* when a restart is planned (notify_ready_children).
Serve(named, told) ==
    /\ svc.at = "serve"
    /\ Costs(named /\ (told \/ planned))
    /\ planned \/ ~named => ~told
    /\ supply' = [supply EXCEPT !.valid = @ \/ named]
    /\ IF told
         THEN /\ GoOn([svc EXCEPT !.finalizing = FALSE, !.waiting = FALSE])
              /\ report' = (report \/ (cand.report /\ cand.origin # "bootstrap"))
              /\ cand' = [cand EXCEPT !.report = FALSE]
         ELSE GoOn(WithRetry(svc)) /\ UNCHANGED <<report, cand>>
    /\ UNCHANGED <<stored, planned, link, receiver, library, ota, entry, dl, broker>>

\* confirm_staged_command: the image that waits for the restart is reported
\* again when the server still names it.
Confirm(ok) ==
    /\ svc.at = "confirm"
    /\ Costs(ok)
    /\ report' = (report \/ (/\ ok /\ ~planned /\ supply.valid /\ cand.persisted
                             /\ server = supply.ver))
    /\ GoOn(svc)
    /\ UNCHANGED <<stored, planned, link, receiver, library, supply, cand, ota, entry, dl, broker>>

\* handle_child_path, in steps: the link may change during each call.
ChildBegin ==
    /\ svc.at = "child"
    /\ IF ~link.online \/ planned \/ (svc.waitParent /\ ~(link.current /\ link.stable))
         THEN Cancel([svc EXCEPT !.waitParent = FALSE], ~planned)
         ELSE /\ link' = [link EXCEPT !.current = TRUE]
              /\ Enter([svc EXCEPT !.waitParent = FALSE], IF svc.metaValid THEN "open" ELSE "fetch")
              /\ UNCHANGED <<rx, ota>>
    /\ UNCHANGED <<budget, stored, planned, inflight, library, supply, cand, entry, dl, report, broker>>

\* The last lines of handle_child_path: a failure that a link change explains is
\* not a failed attempt.
ChildFailed ==
    IF LinkCurrent THEN Failed(svc) /\ UNCHANGED <<rx, link>> ELSE Cancel(svc, ~planned)

ChildFetch(ok) ==
    /\ svc.at = "fetch"
    /\ Costs(ok)
    /\ LET s == [svc EXCEPT !.meta = server] IN
       IF ~ok THEN ChildFailed
       ELSE IF ~LinkCurrent THEN Cancel(s, ~planned)
       ELSE /\ IF server = RunningVersion
                 THEN /\ Enter([s EXCEPT !.active = FALSE, !.bootstrap = FALSE, !.current = TRUE], "current")
                      /\ UNCHANGED ota
               ELSE IF server < RunningVersion
                 THEN Enter([s EXCEPT !.active = FALSE], "restore") /\ ota' = "idle"
               ELSE Enter([s EXCEPT !.metaValid = TRUE], "open") /\ UNCHANGED ota
            /\ UNCHANGED <<rx, link>>
    /\ UNCHANGED <<stored, planned, inflight, library, supply, cand, entry, dl, report, broker>>

\* ota_cache_before_write: a slot is not written while the record names it.
WithoutRecord == IF cache.slot = Spare THEN NoRecord ELSE cache

ChildOpen(ok) ==
    /\ svc.at = "open"
    /\ Costs(ok)
    /\ IF ~LinkCurrent \/ inflight
         THEN /\ ok
              /\ Cancel(svc, ~planned)
              /\ UNCHANGED <<cache, inflight, supply>>
         ELSE /\ supply' = [supply EXCEPT !.valid = FALSE]
              /\ cache' = IF ok THEN WithoutRecord ELSE cache
              /\ IF ok THEN /\ rx' = [NoRx EXCEPT !.open = TRUE, !.accepting = TRUE]
                            /\ inflight' = TRUE
                            /\ Enter(svc, "transmit")
                            /\ UNCHANGED <<link, ota>>
                       ELSE ChildFailed /\ UNCHANGED inflight
    /\ UNCHANGED <<node, server, flash, run, boot, planned, library, cand, entry, dl, report, broker>>

\* esp_mesh_lite_transmit_file_start, which the library refuses while it has a
\* transfer.
ChildTransmit(ok) ==
    /\ svc.at = "transmit"
    /\ IF ok
         THEN /\ sdk.at = "idle"
              /\ sdk' = [NoTransfer EXCEPT !.at = "run", !.left = Blocks]
              /\ GoOn(svc)
              /\ UNCHANGED <<budget, rx, inflight, link, ota>>
         ELSE /\ IF sdk.at = "idle" THEN Spend("fail") ELSE UNCHANGED budget
              /\ inflight' = FALSE
              /\ IF LinkCurrent THEN Failed(svc) /\ rx' = NoRx /\ UNCHANGED link
                                ELSE Drop(svc, ~planned)
              /\ UNCHANGED sdk
    /\ UNCHANGED <<stored, planned, queue, supply, cand, entry, dl, report, broker>>

-----------------------------------------------------------------------------
(* The dl_task of a root (ota.c).                                          *)

\* simple_ota_check_and_update: the server's version against the running one.
DlCheck(ok) ==
    /\ dl.at = "start"
    /\ Costs(ok)
    /\ dl' = [at |-> IF ok /\ server > RunningVersion THEN "begin" ELSE "end",
              ok |-> ok, found |-> server, got |-> FALSE]
    /\ ota' = IF ~ok THEN "failed" ELSE IF server > RunningVersion THEN "running" ELSE "idle"
    /\ UNCHANGED <<stored, planned, link, receiver, library, supply, cand, svc, entry, report, broker>>

\* perform_http_ota: the record first, then the slot is erased.
DlBegin(ok) ==
    /\ dl.at = "begin"
    /\ Costs(ok)
    /\ cache' = IF ok THEN WithoutRecord ELSE cache
    /\ flash' = IF ok THEN [flash EXCEPT ![Spare] = 0] ELSE flash
    /\ dl' = [dl EXCEPT !.at = IF ok THEN "write" ELSE "end", !.ok = ok]
    /\ ota' = IF ok THEN ota ELSE "failed"
    /\ UNCHANGED <<node, server, run, boot, planned, link, receiver, library, supply, cand, svc, entry,
                   report, broker>>

DlWrite(ok) ==
    /\ dl.at = "write"
    /\ Costs(ok)
    /\ flash' = IF ok THEN [flash EXCEPT ![Spare] = dl.found] ELSE flash
    /\ dl' = [dl EXCEPT !.at = "end", !.ok = ok, !.got = ok]
    /\ ota' = IF ok THEN ota ELSE "failed"
    /\ UNCHANGED <<node, server, run, boot, cache, planned, link, receiver, library, supply, cand, svc,
                   entry, report, broker>>

DlEnd ==
    /\ dl.at = "end"
    /\ dl' = [dl EXCEPT !.at = "idle"]
    /\ events' = events \cup {"done"}
    /\ UNCHANGED <<budget, stored, planned, link, receiver, library, service, available, report, broker>>

-----------------------------------------------------------------------------
(* The mesh library of a child, and its callbacks.                         *)

callbackUnchanged == <<node, server, run, boot, cache, planned, link, service, entry, dl, report, broker>>

Post(kind) == queue' = Append(queue, kind)

\* get_file_cb: a block is written only into a session that is open, and of this
\* link; the first one erases the slot.
BlockArrives(ok) ==
    /\ sdk.at = "run" /\ sdk.left > 0 /\ sdk.done = "no"
    /\ Costs(ok)
    /\ LET taken == rx.open /\ rx.accepting /\ ~rx.failed /\ LinkCurrent IN
       /\ ok \/ taken
       /\ sdk' = IF taken /\ ok THEN [sdk EXCEPT !.left = @ - 1] ELSE [sdk EXCEPT !.done = "fail"]
       /\ flash' = IF taken /\ ~rx.handle THEN [flash EXCEPT ![Spare] = 0] ELSE flash
       /\ rx' = CASE ~taken -> rx
                  [] taken /\ ok -> [rx EXCEPT !.handle = TRUE, !.blocks = @ \cup {sdk.left}]
                  [] OTHER -> [rx EXCEPT !.failed = TRUE, !.accepting = FALSE]
    /\ UNCHANGED <<callbackUnchanged, inflight, queue>>

\* get_file_done_cb: esp_ota_end accepts a whole image only.
FileDone ==
    /\ sdk.at = "run" /\ sdk.left = 0 /\ sdk.done = "no"
    /\ LET taken == rx.open /\ rx.accepting /\ ~rx.failed /\ rx.handle /\ LinkCurrent
           whole == rx.blocks = 1 .. Blocks
       IN /\ flash' = IF taken /\ whole THEN [flash EXCEPT ![Spare] = svc.meta] ELSE flash
          /\ rx' = IF taken /\ whole
                     THEN [rx EXCEPT !.accepting = FALSE, !.handle = FALSE, !.done = TRUE,
                                     !.validated = TRUE]
                   ELSE IF taken
                     THEN [rx EXCEPT !.accepting = FALSE, !.handle = FALSE, !.done = TRUE,
                                     !.failed = TRUE]
                   ELSE IF rx.open THEN [rx EXCEPT !.done = TRUE, !.failed = TRUE]
                   ELSE rx
          /\ sdk' = IF sdk.told THEN [NoTransfer EXCEPT !.resumable = sdk.resumable]
                    ELSE [sdk EXCEPT !.done = IF taken /\ whole THEN "ok" ELSE "fail"]
    /\ UNCHANGED <<budget, callbackUnchanged, inflight, queue>>

\* The library ends the transfer; it may say SUCCESS before the last callback.
SdkFinish(reason) ==
    /\ sdk.at = "run" /\ ~sdk.told
    /\ reason = "ok" => sdk.left = 0 /\ sdk.done # "fail"
    /\ Post(reason)
    /\ sdk' = IF reason = "ok" /\ sdk.done = "no" THEN [sdk EXCEPT !.told = TRUE]
              ELSE [NoTransfer EXCEPT !.resumable = reason = "fail"]
    /\ reason = "fail" /\ sdk.done # "fail" => Spend("fail")
    /\ reason = "ok" \/ sdk.done = "fail" => UNCHANGED budget
    /\ UNCHANGED <<callbackUnchanged, flash, rx, inflight>>

\* mesh_ota_extern_disabled: the library has no source in the mesh.
ExternDisabled ==
    /\ sdk.at = "run" /\ ~sdk.told
    /\ Spend("fail")
    /\ sdk' = NoTransfer
    /\ inflight' = FALSE
    /\ rx' = IF rx.open THEN [rx EXCEPT !.finish = "fail"] ELSE rx
    /\ UNCHANGED <<callbackUnchanged, flash, queue>>

\* The library may take up an interrupted request by itself, once it has an
\* address again: long after its last event was handled.
SdkResume ==
    /\ sdk.at = "idle" /\ sdk.resumable /\ link.online /\ queue = <<>>
    /\ Spend("sdk")
    /\ sdk' = [NoTransfer EXCEPT !.at = "run", !.left = Blocks]
    /\ Post("start")
    /\ UNCHANGED <<callbackUnchanged, flash, rx, inflight>>

\* mesh_ota_event_handler.
SdkEvent ==
    /\ queue # <<>>
    /\ queue' = Tail(queue)
    /\ inflight' = (Head(queue) = "start")
    /\ rx' = IF Head(queue) # "start" /\ rx.open /\ rx.finish = "no"
               THEN [rx EXCEPT !.finish = Head(queue)] ELSE rx
    /\ UNCHANGED <<budget, callbackUnchanged, flash, sdk>>

-----------------------------------------------------------------------------
(* The environment.                                                        *)

\* mesh_ota_handle_mqtt_command.
Command ==
    /\ ~planned /\ available
    /\ Spend("command")
    /\ available' = FALSE
    /\ events' = events \cup {"request"}
    /\ UNCHANGED <<stored, planned, link, receiver, library, service, dl, report, broker>>

\* mesh_ota_parent_link_changed: a loss starts a new generation.
linkUnchanged == <<stored, planned, receiver, library, service, entry, dl, report, broker>>

LinkLost ==
    /\ node = "child"
    /\ Spend("link")
    /\ link' = [online |-> FALSE, stable |-> FALSE, current |-> FALSE]
    /\ UNCHANGED linkUnchanged

LinkUp ==
    /\ node = "child" /\ ~link.online
    /\ link' = [link EXCEPT !.online = TRUE]
    /\ UNCHANGED <<budget, linkUnchanged>>

LinkStable ==
    /\ link.online /\ ~link.stable
    /\ link' = [link EXCEPT !.stable = TRUE]
    /\ UNCHANGED <<budget, linkUnchanged>>

Release ==
    /\ Spend("release")
    /\ server' \in Versions \ {server}
    /\ UNCHANGED <<node, flash, run, boot, cache, planned, link, receiver, library, service, entry, dl,
                   report, broker>>

BrokerChange ==
    /\ IF broker THEN Spend("broker") ELSE UNCHANGED budget
    /\ broker' = ~broker
    /\ UNCHANGED <<stored, planned, link, receiver, library, service, entry, dl, report>>

PlanRestart ==
    /\ ~planned
    /\ Spend("plan")
    /\ planned' = TRUE
    /\ UNCHANGED <<stored, link, receiver, library, service, entry, dl, report, broker>>

\* The planned restart, or a loss of power: only the slots, the choice of the
\* boot slot and NVS outlive it.
Restart ==
    /\ planned \/ Spend("power")
    /\ planned => UNCHANGED budget
    /\ run' = boot
    /\ planned' = FALSE /\ link' = NoLink
    /\ rx' = NoRx /\ inflight' = FALSE
    /\ sdk' = NoTransfer /\ queue' = <<>>
    /\ supply' = NoSupply /\ cand' = NoCandidate
    /\ ota' = "idle" /\ dl' = NoDownload
    /\ svc' = StartService
    /\ events' = {} /\ available' = TRUE /\ report' = FALSE /\ broker' = FALSE
    /\ UNCHANGED <<node, server, flash, boot, cache>>

-----------------------------------------------------------------------------

CmdTask ==
    \/ Poll \/ RootDone \/ PollParent \/ Request \/ ChildBegin
    \/ \E b \in BOOLEAN :
          \/ ChildFinish(b) \/ Retry(b) \/ Bootstrap(b) \/ PollEnd(b)
          \/ Restore(b) \/ Current(b) \/ Store(b) \/ SelectBoot(b) \/ Confirm(b)
          \/ ChildFetch(b) \/ ChildOpen(b) \/ ChildTransmit(b)
    \/ \E named, told \in BOOLEAN : Serve(named, told)

DlTask == DlEnd \/ \E ok \in BOOLEAN : DlCheck(ok) \/ DlBegin(ok) \/ DlWrite(ok)

Library ==
    \/ FileDone
    \/ \E ok \in BOOLEAN : BlockArrives(ok)
    \/ \E reason \in {"ok", "fail"} : SdkFinish(reason)

OtaNext ==
    \/ CmdTask \/ DlTask \/ Library \/ SdkEvent \/ ExternDisabled \/ SdkResume
    \/ Command \/ LinkLost \/ LinkUp \/ LinkStable \/ Release \/ BrokerChange \/ PlanRestart \/ Restart

\* The tasks and the library go on, a deadline is reached in the end, the
\* parent and the broker come back, and a planned restart is carried out.  They
\* act in the behaviours of this service.
OtaFairness ==
    /\ WF_otaVars(part = "ota" /\ CmdTask) /\ WF_otaVars(part = "ota" /\ DlTask)
    /\ WF_otaVars(part = "ota" /\ Library) /\ WF_otaVars(part = "ota" /\ SdkEvent)
    /\ SF_otaVars(part = "ota" /\ Retry(TRUE))
    /\ WF_otaVars(part = "ota" /\ LinkUp) /\ WF_otaVars(part = "ota" /\ LinkStable)
    /\ WF_otaVars(part = "ota" /\ ~broker /\ BrokerChange)
    /\ WF_otaVars(part = "ota" /\ planned /\ Restart)

-----------------------------------------------------------------------------
(* Properties.                                                             *)

OtaTypeOK ==
    /\ node \in {"root", "child"} /\ server \in Versions
    /\ flash \in [Slots -> {0} \cup Versions] /\ run \in Slots /\ boot \in Slots
    /\ cache \in [slot : Slots, ver : Versions, origin : Origins] \cup {NoRecord}
    /\ planned \in BOOLEAN /\ link \in [online : BOOLEAN, stable : BOOLEAN, current : BOOLEAN]
    /\ rx.blocks \subseteq 1 .. Blocks /\ rx.finish \in {"no", "ok", "fail"}
    /\ inflight \in BOOLEAN /\ sdk.left \in 0 .. Blocks
    /\ Len(queue) <= 3
    /\ supply \in [valid : BOOLEAN, slot : Slots \cup {"none"}, ver : {0} \cup Versions]
    /\ cand \in [persisted : BOOLEAN, report : BOOLEAN, origin : Origins]
    /\ ota \in {"idle", "running", "pending", "failed", "waiting"}
    /\ dl.at \in {"idle", "start", "begin", "write", "end"}
    /\ svc.retries \in 0 .. RetryMax /\ svc.tries \in 0 .. RetryMax + 1
    /\ events \subseteq {"request", "done"}
    /\ available \in BOOLEAN /\ report \in BOOLEAN /\ broker \in BOOLEAN

\* What the node supplies, and what it reports as complete, is a whole image in a
\* slot nobody is writing, and the record in NVS names it: a restart finds the
\* supply again (provide_file_cb, finalize_candidate, ota_cache_before_write).
SupplyRecorded ==
    /\ report => Provides
    /\ Provides => /\ flash[supply.slot] = supply.ver
                   /\ ~rx.handle /\ dl.at # "write"
                   /\ cache = [slot |-> supply.slot, ver |-> supply.ver, origin |-> cand.origin]

\* The slot that the next start boots always holds a whole image, whatever fails
\* or wherever the power is lost, and an image that waits for the restart has
\* its record (finalize_candidate, confirm_staged_command).
BootRecorded ==
    /\ flash[boot] # 0 /\ flash[run] # 0
    /\ boot # run => cache.slot = boot /\ cache.ver = flash[boot] /\ cache.ver > RunningVersion

\* An update command that was let in comes to an end, and the next one is let in
\* (finish_command_if_idle).  The exception is a command deferred behind the
\* restored supply when the finalization of that supply has used up its retries.
Deferred == svc.deferred /\ svc.finalizing /\ ~svc.waiting /\ svc.retries = RetryMax
OtaCommandEnds == ~available ~> available \/ Deferred
=============================================================================
