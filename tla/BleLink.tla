------------------------------- MODULE BleLink -------------------------------
(***************************************************************************)
(* The BLE link to the aging device (Ble_control.c, and its users in       *)
(* appTask.c): the scan for the device, one connection attempt at a time,  *)
(* the sessions of the connection, and the authentication that turns       *)
(* encryption on.                                                          *)
(*                                                                         *)
(* Five actors: the task of the aging round (aging_ble_connect_attempt),   *)
(* the task of the commands (pause, resume), the callback task of          *)
(* Bluedroid, which takes the events of the host in their order, the task  *)
(* that collects what is received, and ble_data, which authenticates.      *)
(* Connections are numbered; all of them are to the same device, and have  *)
(* the same conn_id.                                                       *)
(***************************************************************************)
EXTENDS Budget, Sequences, SequencesExt

CONSTANT RecvPieces  \* the pieces that a_data of app_ble_recv_task holds

ASSUME LinkAssumption == RecvPieces \in Nat \ {0}

VARIABLES
    session,    \* s_session_state: the id, and the encryption bit
    ble,        \* s_is_connected, s_session_closing, s_control_paused,
                \* s_connect_attempting, s_connect_result_pending, s_gatt_setup_done
    profile,    \* s_gattc_profile: the connection, service_found and the handles
    scan,       \* s_is_scanning, s_scan_op and its result, whether the device is listed,
                \* ble_Scan_complate
    aging,      \* where the aging task is, the session it waits for, BleConnectComplete
    closer,     \* where each task that calls ble_disconnect is in it
    calls,      \* the events of the host that the callback task has not handled
    handler,    \* where it is in the event it handles
    host,       \* the host: open requests, a close request, the operation and the GATT
                \* request in work, its connection, the last number, and what the device has heard
    pieces,     \* data_queue
    recv,       \* the collected pieces, their session, and whether it waits for more
    forwarded,  \* data_forword_queue
    auth,       \* the static variables of app_ble_process_auth, and where it is
    command     \* what the task of the commands does

radio == <<profile, scan>>
inward == <<pieces, recv, forwarded>>
bleVars == <<budget, session, ble, radio, aging, closer, calls, handler, host, inward, auth, command>>

Callers == {"aging", "auth", "handler", "command"}

NoAuth == [session |-> 0, started |-> FALSE, key |-> FALSE, complete |-> FALSE,
           at |-> "idle", seen |-> 0, conn |-> 0]
NoRecv == [session |-> 0, text |-> <<>>, more |-> FALSE]

BleInit ==
    /\ session = [id |-> 0, enc |-> FALSE]
    /\ ble = [connected |-> FALSE, closing |-> TRUE, paused |-> FALSE,
              attempting |-> FALSE, pending |-> FALSE, setup |-> FALSE]
    /\ profile = [conn |-> 0, found |-> FALSE, notify |-> FALSE, write |-> FALSE]
    /\ scan = [on |-> FALSE, op |-> "none", ok |-> TRUE, listed |-> FALSE, ended |-> FALSE]
    /\ aging = [at |-> "idle", session |-> 0, told |-> "no"]
    /\ closer = [c \in Callers |-> "out"]
    /\ calls = <<>> /\ handler = "idle"
    /\ host = [open |-> 0, close |-> FALSE, op |-> "none", ask |-> "none", link |-> 0,
               last |-> 0, heard |-> "none"]
    /\ pieces = <<>> /\ recv = NoRecv /\ forwarded = <<>>
    /\ auth = NoAuth /\ command = "run"

-----------------------------------------------------------------------------
(* Sessions.                                                               *)

\* ble_session_reset.
Renewed == [id |-> session.id + 1, enc |-> FALSE]

\* ble_session_is_current.
IsCurrent(id) == ble.connected /\ ~ble.closing /\ id = session.id

\* ble_disconnect, in its three steps; what each caller does next waits for the last.
Disconnects(c) == closer' = [closer EXCEPT ![c] = "flag"]
Out(c) == closer[c] = "out"

CloseFlag(c) ==
    /\ closer[c] = "flag"
    /\ ble' = [ble EXCEPT !.closing = TRUE]
    /\ closer' = [closer EXCEPT ![c] = "reset"]
    /\ UNCHANGED <<budget, session, radio, aging, calls, handler, host, inward, auth, command>>

CloseReset(c) ==
    /\ closer[c] = "reset"
    /\ session' = Renewed
    /\ closer' = [closer EXCEPT ![c] = "submit"]
    /\ UNCHANGED <<budget, ble, radio, aging, calls, handler, host, inward, auth, command>>

CloseSubmit(c) ==
    /\ closer[c] = "submit"
    /\ host' = IF ble.connected /\ host.link = profile.conn THEN [host EXCEPT !.close = host.link # 0]
               ELSE host
    /\ closer' = [closer EXCEPT ![c] = "out"]
    /\ UNCHANGED <<budget, session, ble, radio, aging, calls, handler, inward, auth, command>>

-----------------------------------------------------------------------------
(* The aging task: an attempt to connect.                                  *)

\* s_scan_control_mutex is held while an operation of the scan is awaited.
Ops == {"stop", "clear", "add", "params", "start"}
Held == aging.at \in {"settle", "quit", "halt"} \cup Ops

Goto(at) == aging' = [aging EXCEPT !.at = at]
GiveUp == Goto("idle")

\* A connection that is there is closed first.
Attempt ==
    /\ aging.at = "idle" /\ Out("aging") /\ command = "run" /\ ~ble.paused
    /\ Spend("attempt")
    /\ IF ble.connected THEN Disconnects("aging") /\ Goto("away")
       ELSE Goto("scan") /\ UNCHANGED closer
    /\ UNCHANGED <<session, ble, radio, calls, handler, host, inward, auth, command>>

Away ==
    /\ aging.at = "away" /\ Out("aging")
    /\ \/ ~ble.connected /\ Goto("scan")
       \/ ble.paused /\ GiveUp
    /\ UNCHANGED <<budget, session, ble, radio, closer, calls, handler, host, inward, auth, command>>

\* ble_start_target_scan; an operation that is still in work is awaited first.
StartScan ==
    /\ aging.at = "scan"
    /\ scan' = [scan EXCEPT !.ended = FALSE]
    /\ IF ble.paused \/ ble.connected \/ ble.attempting THEN GiveUp
       ELSE Goto(IF scan.op # "none" THEN "settle" ELSE "quit")
    /\ UNCHANGED <<budget, session, ble, profile, closer, calls, handler, host, inward, auth, command>>

\* An operation of the scan is given to the host, or refused.
Submit(op, at, ok) ==
    /\ Costs(ok)
    /\ scan' = [scan EXCEPT !.op = IF ok THEN op ELSE "none", !.listed = op # "clear" /\ @]
    /\ host' = IF ok THEN [host EXCEPT !.op = op] ELSE host
    /\ IF ok THEN Goto(at) ELSE GiveUp
    /\ UNCHANGED <<session, ble, profile, closer, calls, handler, inward, auth, command>>

\* ble_scan_op_wait has returned: its result, or the pause, or a timeout, after which
\* the operation stays in work.
Confirmed(at) == aging.at = at /\ scan.op = "none" /\ ~ble.paused /\ scan.ok
WaitFails ==
    /\ aging.at \in Ops \cup {"settle", "halt"}
    /\ \/ ble.paused \/ (scan.op = "none" /\ ~scan.ok)
       \/ scan.op # "none" /\ ~ble.paused
    /\ IF scan.op # "none" /\ ~ble.paused THEN Spend("timeout") ELSE UNCHANGED budget
    /\ GiveUp
    /\ UNCHANGED <<session, ble, radio, closer, calls, handler, host, inward, auth, command>>

\* The steps of ble_stop_scan_locked and ble_start_target_scan.
ScanStep(ok) ==
    \/ (Confirmed("settle") \/ aging.at = "quit") /\ scan.on /\ Submit("stop", "stop", ok)
    \/ /\ ((Confirmed("settle") \/ aging.at = "quit") /\ ~scan.on) \/ Confirmed("stop")
       /\ Submit("clear", "clear", ok)
    \/ Confirmed("clear") /\ Submit("add", "add", ok)
    \/ Confirmed("add") /\ Submit("params", "params", ok)
    \/ Confirmed("params") /\ Submit("start", "start", ok)

\* The device is listed, the scan is over, or 20 s have passed.
Searching ==
    /\ \/ Confirmed("start") /\ Goto("search") /\ UNCHANGED budget
       \/ aging.at = "search" /\ ble.paused /\ GiveUp /\ UNCHANGED budget
       \/ /\ aging.at = "search" /\ ~ble.paused
          /\ IF scan.listed \/ scan.ended THEN UNCHANGED budget ELSE Spend("timeout")
          /\ Goto("stopping")
    /\ UNCHANGED <<session, ble, radio, closer, calls, handler, host, inward, auth, command>>

\* ble_stop_scan_wait.
StopScan(ok) ==
    /\ aging.at = "stopping"
    /\ IF scan.on THEN Submit("stop", "halt", ok)
       ELSE /\ ok /\ Goto(IF scan.listed THEN "open" ELSE "idle")
            /\ UNCHANGED <<budget, session, ble, radio, closer, calls, handler, host, inward, auth, command>>

Stopped ==
    /\ Confirmed("halt")
    /\ Goto(IF scan.listed THEN "open" ELSE "idle")
    /\ UNCHANGED <<budget, session, ble, radio, closer, calls, handler, host, inward, auth, command>>

\* ble_connect_control_enter, ble_connect_by_address_locked.
MayConnect ==
    ~ble.paused /\ ~scan.on /\ ~ble.attempting /\ ~ble.connected /\ scan.op = "none"
Connect(ok) ==
    /\ aging.at = "open"
    /\ IF MayConnect
         THEN /\ Costs(ok)
              /\ ble' = [ble EXCEPT !.attempting = ok, !.pending = ok, !.setup = FALSE]
              /\ session' = Renewed
              /\ host' = IF ok THEN [host EXCEPT !.open = @ + 1] ELSE host
              /\ aging' = [aging EXCEPT !.at = IF ok THEN "outcome" ELSE "idle", !.told = "no"]
         ELSE ok /\ GiveUp /\ UNCHANGED <<budget, session, ble, host>>
    /\ UNCHANGED <<radio, closer, calls, handler, inward, auth, command>>

\* The waits after the connection: for its outcome, its GATT setup, and the
\* authentication, which a device without encryption never begins.
Waiting ==
    /\ \/ /\ aging.at = "outcome" /\ aging.told # "no"
          /\ IF aging.told = "yes" /\ ble.connected
               THEN aging' = [aging EXCEPT !.at = "setup", !.session = session.id] ELSE GiveUp
       \/ aging.at = "setup" /\ ble.setup /\ Goto("secure")
       \/ aging.at \in {"setup", "secure", "ready"} /\ ~IsCurrent(aging.session) /\ GiveUp
       \/ aging.at = "secure" /\ IsCurrent(aging.session) /\ Goto("ready")
       \/ aging.at \in {"outcome", "setup", "secure", "ready"} /\ ble.paused /\ GiveUp
    /\ UNCHANGED <<budget, session, ble, radio, closer, calls, handler, host, inward, auth, command>>

\* Fault: a request that is not waited for any more counts as over.
WaitForgets ==
    /\ aging.at \in {"outcome", "setup"}
    /\ Spend("timeout")
    /\ GiveUp
    /\ ble' = [ble EXCEPT !.attempting = FALSE]
    /\ UNCHANGED <<session, radio, closer, calls, handler, host, inward, auth, command>>

\* 10 s without an outcome, or without the end of the setup.
WaitOver ==
    /\ aging.at \in {"outcome", "setup"}
    /\ Spend("timeout")
    /\ GiveUp
    /\ UNCHANGED <<session, ble, radio, closer, calls, handler, host, inward, auth, command>>

\* The round ends: its connection is closed.
RoundEnds ==
    /\ aging.at = "ready" /\ ble.connected
    /\ GiveUp /\ Disconnects("aging")
    /\ UNCHANGED <<budget, session, ble, radio, calls, handler, host, inward, auth, command>>

AgingTask ==
    \/ Attempt \/ Away \/ StartScan \/ WaitFails \/ Searching \/ Stopped \/ Waiting \/ WaitOver
    \/ RoundEnds
    \/ \E ok \in BOOLEAN : ScanStep(ok) \/ StopScan(ok) \/ Connect(ok)

-----------------------------------------------------------------------------
(* The task of the commands: a stop and the start of the next round.       *)

Pause ==
    /\ command = "run"
    /\ Spend("stop")
    /\ ble' = [ble EXCEPT !.paused = TRUE]
    /\ command' = "pause"
    /\ UNCHANGED <<session, radio, aging, closer, calls, handler, host, inward, auth>>

\* The stop of the scan is submitted and not awaited.
PauseScan(ok) ==
    /\ command = "pause" /\ ~Held
    /\ IF scan.on /\ scan.op = "none"
         THEN /\ Costs(ok)
              /\ scan' = [scan EXCEPT !.op = IF ok THEN "stop" ELSE "none"]
              /\ host' = IF ok THEN [host EXCEPT !.op = "stop"] ELSE host
         ELSE ok /\ UNCHANGED <<budget, scan, host>>
    /\ command' = "wait"
    /\ UNCHANGED <<session, ble, profile, aging, closer, calls, handler, inward, auth>>

\* ble_control_resume: refused while a request to connect is in work.
Resume ==
    /\ command = "wait" /\ aging.at = "idle" /\ Out("aging")
    /\ ~ble.attempting
    /\ ble' = [ble EXCEPT !.paused = FALSE]
    /\ command' = "start"
    /\ UNCHANGED <<budget, session, radio, aging, closer, calls, handler, host, inward, auth>>

\* aging_start closes a connection that is left.
CloseLeft ==
    /\ command = "start"
    /\ IF ble.connected THEN Disconnects("command") ELSE UNCHANGED closer
    /\ command' = "close"
    /\ UNCHANGED <<budget, session, ble, radio, aging, calls, handler, host, inward, auth>>

Started ==
    /\ command = "close" /\ Out("command")
    /\ command' = "run"
    /\ UNCHANGED <<budget, session, ble, radio, aging, closer, calls, handler, host, inward, auth>>

CommandTask == Pause \/ Resume \/ CloseLeft \/ Started \/ \E ok \in BOOLEAN : PauseScan(ok)

-----------------------------------------------------------------------------
(* The host and the device.                                                *)

Event(name, ok) == [name |-> name, ok |-> ok, conn |-> host.link, kind |-> "none", last |-> TRUE]
Tell(s) == calls' = calls \o s
HostUnchanged == <<session, ble, radio, aging, closer, handler, inward, auth, command>>

\* An operation of the scan is done.
OpDone(ok) ==
    /\ host.op # "none"
    /\ Costs(ok)
    /\ Tell(<<Event(host.op, ok)>>)
    /\ host' = [host EXCEPT !.op = "none"]
    /\ UNCHANGED HostUnchanged

\* While it scans: the device is seen, or the time of the scan is over.
Scanned(name) ==
    /\ scan.on /\ \A i \in 1 .. Len(calls) : calls[i].name # name
    /\ IF name = "report" THEN ~scan.listed /\ UNCHANGED budget ELSE Spend("ended")
    /\ Tell(<<Event(name, TRUE)>>)
    /\ UNCHANGED <<host, HostUnchanged>>

\* The device is connected; or it is not, which is told by a disconnection and by the
\* end of the request, or by the latter alone.
Opened ==
    /\ host.open > 0
    /\ host' = [host EXCEPT !.open = @ - 1, !.link = host.last + 1, !.last = @ + 1, !.heard = "none",
                            !.ask = "none", !.close = FALSE]
    /\ Tell(<<[Event("connect", TRUE) EXCEPT !.conn = host.last + 1]>>)
    /\ UNCHANGED <<budget, HostUnchanged>>
OpenFails ==
    /\ host.open > 0
    /\ Spend("drop")
    /\ host' = [host EXCEPT !.open = @ - 1]
    /\ \/ Tell(<<Event("disconnect", TRUE), Event("open", FALSE)>>)
       \/ Tell(<<Event("open", FALSE)>>)
    /\ UNCHANGED HostUnchanged

\* The connection ends, as asked or not.
Dropped ==
    /\ host.link # 0
    /\ IF host.close THEN UNCHANGED budget ELSE Spend("drop")
    /\ host' = [host EXCEPT !.link = 0, !.close = FALSE, !.ask = "none"]
    /\ Tell(<<Event("disconnect", TRUE)>>)
    /\ UNCHANGED HostUnchanged

\* A request of the GATT setup is answered.
Answer(ok) ==
    /\ host.link # 0 /\ host.ask # "none"
    /\ Costs(ok)
    /\ Tell(<<Event(host.ask, ok)>>)
    /\ host' = [host EXCEPT !.ask = "none"]
    /\ UNCHANGED HostUnchanged

\* The device says what follows from what it has heard; its key takes two pieces.
Says(kind) ==
    /\ host.link # 0 /\ ble.setup /\ profile.notify
    /\ \/ kind \in {"hello", "data"} \/ (kind \in {"key", "refuse"} /\ host.heard = "hello")
       \/ (kind = "final" /\ host.heard = "key")
    /\ Spend(IF kind = "data" THEN "data" ELSE "say")
    /\ Tell(IF kind = "key"
               THEN <<[Event("notify", TRUE) EXCEPT !.kind = "key", !.last = FALSE],
                      [Event("notify", TRUE) EXCEPT !.kind = "rest"]>>
               ELSE <<[Event("notify", TRUE) EXCEPT !.kind = kind]>>)
    /\ UNCHANGED <<host, HostUnchanged>>

Host ==
    \/ Opened \/ OpenFails \/ Dropped
    \/ \E ok \in BOOLEAN : OpDone(ok) \/ Answer(ok)
    \/ \E name \in {"report", "ended"} : Scanned(name)
    \/ \E kind \in {"hello", "key", "final", "refuse", "data"} : Says(kind)

-----------------------------------------------------------------------------
(* The callback task.                                                      *)

Now(name) == calls # <<>> /\ Head(calls).name = name /\ handler = "idle" /\ Out("handler")
Handled == calls' = Tail(calls)

\* notify_connect_result: only the first outcome of a request is told.  The next
\* request comes after a scan, whose events this task has still to handle.
Outcome(success) ==
    IF ble.pending
      THEN /\ ble' = [ble EXCEPT !.pending = FALSE, !.attempting = FALSE]
           /\ aging' = [aging EXCEPT !.told = IF success THEN "yes" ELSE "failed"]
      ELSE UNCHANGED <<ble, aging>>

\* ble_gap_cb and ble_scan_op_complete: an operation that is not awaited any more is
\* confirmed all the same.
OnOp(op) ==
    /\ Now(op) /\ Handled
    /\ scan' = [scan EXCEPT
                  !.on = IF op = "start" THEN Head(calls).ok
                         ELSE IF op = "stop" /\ Head(calls).ok THEN FALSE ELSE @,
                  !.ok = IF scan.op = op THEN Head(calls).ok ELSE @,
                  !.op = IF scan.op = op THEN "none" ELSE @]
    /\ UNCHANGED <<budget, session, ble, profile, aging, closer, handler, host, inward, auth, command>>

\* add_scanned_device, and the end of the scan.
OnScan ==
    /\ Now("report") \/ Now("ended")
    /\ Handled
    /\ scan' = IF Head(calls).name = "ended" THEN [scan EXCEPT !.on = FALSE, !.ended = TRUE]
               ELSE IF ble.paused \/ ~scan.on THEN scan ELSE [scan EXCEPT !.listed = TRUE]
    /\ UNCHANGED <<budget, session, ble, profile, aging, closer, handler, host, inward, auth, command>>

\* ESP_GATTC_CONNECT_EVT, between whose assignments the other tasks come.
OnConnect ==
    /\ Now("connect")
    /\ profile' = [profile EXCEPT !.conn = Head(calls).conn]
    /\ session' = Renewed
    /\ handler' = "opens"
    /\ UNCHANGED <<budget, ble, scan, aging, closer, calls, host, inward, auth, command>>

Admits ==
    /\ handler = "opens"
    /\ ble' = [ble EXCEPT !.closing = FALSE]
    /\ handler' = "connects"
    /\ UNCHANGED <<budget, session, radio, aging, closer, calls, host, inward, auth, command>>

Connects ==
    /\ handler = "connects"
    /\ ble' = [ble EXCEPT !.connected = TRUE]
    /\ handler' = "tells"
    /\ UNCHANGED <<budget, session, radio, aging, closer, calls, host, inward, auth, command>>

Tells ==
    /\ handler = "tells"
    /\ Outcome(~ble.paused)
    /\ IF ble.paused THEN Disconnects("handler") /\ handler' = "idle" /\ Handled /\ UNCHANGED host
       ELSE handler' = "setup" /\ UNCHANGED <<closer, calls, host>>
    /\ UNCHANGED <<budget, session, radio, inward, auth, command>>

BeginSetup ==
    /\ handler = "setup"
    /\ ble' = [ble EXCEPT !.setup = FALSE]
    /\ host' = IF host.link = profile.conn THEN [host EXCEPT !.ask = "services"] ELSE host
    /\ handler' = "idle" /\ Handled
    /\ UNCHANGED <<budget, session, radio, aging, closer, inward, auth, command>>

\* ESP_GATTC_OPEN_EVT.
OnOpen ==
    /\ Now("open") /\ Handled
    /\ Outcome(FALSE)
    /\ UNCHANGED <<budget, session, radio, closer, handler, host, inward, auth, command>>

\* The GATT setup: the service, its characteristics, the registration, the CCCD.  A
\* step that fails ends the setup, or is not followed by another one.
Asks(request) == host' = IF host.link = profile.conn THEN [host EXCEPT !.ask = request] ELSE host
Concludes == ble' = [ble EXCEPT !.setup = TRUE]

OnSetup ==
    /\ \/ /\ Now("services")
          /\ IF Head(calls).ok THEN Asks("search") ELSE UNCHANGED host
          /\ UNCHANGED <<ble, profile>>
       \/ /\ Now("search") /\ (~Head(calls).ok \/ budget["fail"] > 0)
          /\ UNCHANGED <<ble, profile, host>>
       \/ /\ Now("search") /\ Head(calls).ok
          /\ \E notify, write \in {TRUE, budget["fail"] = 0} :
                /\ profile' = [profile EXCEPT !.found = TRUE, !.notify = notify, !.write = write]
                /\ IF notify THEN Asks("register") /\ UNCHANGED ble ELSE Concludes /\ UNCHANGED host
       \/ /\ Now("register")
          /\ \/ ~Head(calls).ok /\ UNCHANGED <<ble, host>>
             \/ Head(calls).ok /\ Asks("cccd") /\ UNCHANGED ble
             \/ Head(calls).ok /\ Concludes /\ UNCHANGED host
          /\ UNCHANGED profile
       \/ Now("cccd") /\ Concludes /\ UNCHANGED <<profile, host>>
    /\ Handled
    /\ UNCHANGED <<budget, session, scan, aging, closer, handler, inward, auth, command>>

\* ESP_GATTC_NOTIFY_EVT: the session is looked at, and read again for the piece.
OnNotify ==
    /\ Now("notify")
    /\ IF IsCurrent(session.id) /\ profile.notify
         THEN handler' = "tag" /\ UNCHANGED calls
         ELSE Handled /\ UNCHANGED handler
    /\ UNCHANGED <<budget, session, ble, radio, aging, closer, host, inward, auth, command>>

TagPiece(ok) ==
    /\ handler = "tag" /\ Handled /\ handler' = "idle"
    /\ Costs(ok)
    /\ LET p == Head(calls)
           piece == [session |-> session.id, conn |-> p.conn, kind |-> p.kind, last |-> p.last]
       IN pieces' = IF ok THEN Append(pieces, piece) ELSE pieces
    /\ UNCHANGED <<session, ble, radio, aging, closer, host, recv, forwarded, auth, command>>

\* ESP_GATTC_DISCONNECT_EVT.
OnDisconnect ==
    /\ Now("disconnect")
    /\ IF ble.connected /\ Head(calls).conn # profile.conn
         THEN Handled /\ UNCHANGED <<ble, handler>>
         ELSE /\ ble' = [ble EXCEPT !.connected = FALSE]
              /\ handler' = IF ble.attempting THEN "fails" ELSE "lost"
              /\ UNCHANGED calls
    /\ UNCHANGED <<budget, session, radio, aging, closer, host, inward, auth, command>>

Lost ==
    /\ handler \in {"fails", "lost"} /\ Handled /\ handler' = "idle"
    /\ session' = Renewed
    /\ profile' = [conn |-> 0, found |-> FALSE, notify |-> FALSE, write |-> FALSE]
    /\ LET told == handler = "fails" /\ ble.pending
       IN /\ ble' = [ble EXCEPT !.setup = FALSE, !.pending = ~told /\ @, !.attempting = ~told /\ @]
          /\ aging' = IF told THEN [aging EXCEPT !.told = "failed"] ELSE aging
    /\ UNCHANGED <<budget, scan, closer, host, inward, auth, command>>

Callbacks ==
    \/ \E op \in Ops : OnOp(op)
    \/ OnScan \/ OnConnect \/ Admits \/ Connects \/ Tells \/ BeginSetup \/ OnOpen \/ OnSetup
    \/ OnNotify \/ OnDisconnect \/ Lost \/ \E ok \in BOOLEAN : TagPiece(ok)

-----------------------------------------------------------------------------
(* What is received: app_ble_recv_task.                                    *)

\* A piece of another session, and what was collected of one that is over, is
\* discarded; a piece that does not fit is lost.
Collect ==
    /\ pieces # <<>>
    /\ pieces' = Tail(pieces)
    /\ LET p == Head(pieces)
           text == IF recv.session = p.session THEN recv.text ELSE <<>>
       IN recv' = IF IsCurrent(p.session)
                    THEN IF Len(text) < RecvPieces
                           THEN [session |-> p.session, text |-> Append(text, p), more |-> ~p.last]
                           ELSE [session |-> p.session, text |-> text, more |-> FALSE]
                    ELSE IF IsCurrent(recv.session) THEN recv
                    ELSE [recv EXCEPT !.text = <<>>]
    /\ UNCHANGED <<budget, session, ble, radio, aging, closer, calls, handler, host, forwarded, auth,
                   command>>

\* Nothing more comes, for 85 ms after a piece as large as the MTU.
Forward ==
    /\ pieces = <<>> /\ recv.text # <<>>
    /\ IF recv.more THEN Spend("late") ELSE UNCHANGED budget
    /\ forwarded' = IF IsCurrent(recv.session)
                      THEN Append(forwarded, [session |-> recv.session, text |-> recv.text])
                      ELSE forwarded
    /\ recv' = [recv EXCEPT !.text = <<>>]
    /\ UNCHANGED <<session, ble, radio, aging, closer, calls, handler, host, pieces, auth, command>>

-----------------------------------------------------------------------------
(* ble_data: app_ble_process_auth, with app_ble_recv_data_for_session.     *)

\* The stage of the authentication belongs to a session.
StageOf(item) == IF auth.session = item.session THEN auth ELSE [NoAuth EXCEPT !.session = item.session]

\* ble_send_for_session: the device hears the reply.
Reply(kind, ok) ==
    host' = IF ok /\ host.link # 0 /\ host.link = profile.conn THEN [host EXCEPT !.heard = kind] ELSE host

\* While the round uses the link its own tasks take the packets (app_ble_recv_data_Ack).
TakeOther ==
    /\ auth.at = "idle" /\ Out("auth") /\ forwarded # <<>>
    /\ \/ aging.at = "ready" \/ ~IsCurrent(Head(forwarded).session)
       \/ Head(forwarded).text[1].kind \in {"data", "rest"}
    /\ forwarded' = Tail(forwarded)
    /\ auth' = IF aging.at # "ready" /\ IsCurrent(Head(forwarded).session) THEN StageOf(Head(forwarded))
               ELSE auth
    /\ UNCHANGED <<budget, session, ble, radio, aging, closer, calls, handler, host, pieces, recv,
                   command>>

TakePacket(ok) ==
    /\ auth.at = "idle" /\ Out("auth") /\ forwarded # <<>> /\ aging.at # "ready"
    /\ IsCurrent(Head(forwarded).session)
    /\ LET item == Head(forwarded)
           stage == StageOf(item)
           kind == item.text[1].kind
           whole == kind # "key" \/ Len(item.text) = 2
           fits == whole /\ ~stage.complete /\ stage.started
           sent == ok /\ profile.write
       IN  /\ kind \in {"hello", "key", "final", "refuse"}
           /\ forwarded' = Tail(forwarded)
           /\ CASE kind = "hello" ->
                     /\ session' = [session EXCEPT !.enc = FALSE]
                     /\ auth' = [stage EXCEPT !.started = sent, !.key = FALSE, !.complete = FALSE]
                     /\ Costs(ok) /\ Reply("hello", sent) /\ UNCHANGED closer
                [] kind = "key" /\ fits ->
                     /\ auth' = [stage EXCEPT !.key = sent]
                     /\ Costs(ok) /\ Reply("key", sent) /\ UNCHANGED <<session, closer>>
                [] kind = "final" /\ fits /\ stage.key ->
                     /\ auth' = [stage EXCEPT !.key = FALSE, !.at = IF sent THEN "check" ELSE "idle",
                                              !.conn = item.text[1].conn]
                     /\ Costs(ok) /\ Reply("final", sent) /\ UNCHANGED <<session, closer>>
                [] kind = "refuse" /\ stage.started ->
                     /\ auth' = [stage EXCEPT !.started = FALSE, !.key = FALSE]
                     /\ Disconnects("auth")
                     /\ ok /\ UNCHANGED <<budget, session, host>>
                [] OTHER -> auth' = stage /\ ok /\ UNCHANGED <<budget, session, host, closer>>
    /\ UNCHANGED <<ble, radio, aging, calls, handler, pieces, recv, command>>

\* ble_session_set_encrypted: the session is compared, then set if nothing changed.
CheckSession ==
    /\ auth.at = "check"
    /\ auth' = [auth EXCEPT !.at = IF IsCurrent(auth.session) THEN "set" ELSE "idle"]
    /\ UNCHANGED <<budget, session, ble, radio, aging, closer, calls, handler, host, inward, command>>

\* Fault: the bit is stored without the comparison.
StoreBit ==
    /\ auth.at = "set"
    /\ session' = [session EXCEPT !.enc = TRUE]
    /\ auth' = [auth EXCEPT !.at = "idle", !.complete = TRUE]
    /\ UNCHANGED <<budget, ble, radio, aging, closer, calls, handler, host, inward, command>>

SetEncrypted ==
    /\ auth.at = "set"
    /\ IF session = [id |-> auth.session, enc |-> FALSE]
         THEN /\ session' = [session EXCEPT !.enc = TRUE]
              /\ auth' = [auth EXCEPT !.at = "idle", !.complete = TRUE]
         ELSE auth' = [auth EXCEPT !.at = "check"] /\ UNCHANGED session
    /\ UNCHANGED <<budget, ble, radio, aging, closer, calls, handler, host, inward, command>>

BleData == TakeOther \/ CheckSession \/ SetEncrypted \/ \E ok \in BOOLEAN : TakePacket(ok)

BleNext ==
    \/ \E c \in Callers : CloseFlag(c) \/ CloseReset(c) \/ CloseSubmit(c)
    \/ AgingTask \/ CommandTask \/ Host \/ Callbacks \/ Collect \/ Forward \/ BleData

-----------------------------------------------------------------------------
(* Properties.                                                             *)

\* A session belongs to one connection: what waits to be taken for the session that
\* is current was received over the connection that is there, and encryption is on
\* only when that connection was authenticated, whoever closes it or loses it
\* meanwhile (ble_session_is_current, ble_session_set_encrypted).
SessionBound ==
    /\ \A i \in 1 .. Len(forwarded) : IsCurrent(forwarded[i].session) =>
          \A k \in 1 .. Len(forwarded[i].text) : forwarded[i].text[k].conn = profile.conn
    /\ session.enc => auth.conn = profile.conn

\* A request to connect has one outcome: when the task is told, the host has none
\* in work, and no event of the request is still to come (notify_connect_result).
OneOutcome ==
    aging.at = "outcome" /\ aging.told # "no" =>
        /\ host.open = 0
        /\ aging.told = "failed" => \A i \in 1 .. Len(calls) : calls[i].name # "connect"
=============================================================================
