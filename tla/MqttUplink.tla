----------------------------- MODULE MqttUplink -----------------------------
(***************************************************************************)
(* The MQTT uplink of a node (main/APP/MQTT/mqtt_app.c): the life of the   *)
(* client, the switch of a root's uplink, the setup of a session           *)
(* (subscriptions, online report, configuration) and the cache of events   *)
(* that are sent until the server has them.                                *)
(*                                                                         *)
(* Actors: the owner (mqtt_app_start, mqtt_app_stop), the net monitor, the *)
(* SDK's task with its callbacks, the MQTT service task, and the tasks     *)
(* that submit events or publish.  Every critical section under            *)
(* s_mqtt_state_lock is one step; the calls of the SDK are steps of their  *)
(* own.  Delays and backoff are abstracted to "some time later", and with  *)
(* them expedite_pending, which only shortens one.  Message numbers do not *)
(* wrap.                                                                   *)
(***************************************************************************)
EXTENDS Naturals, Sequences, FiniteSets

CONSTANTS
    Scenarios,      \* bounds: the roles and budgets the runs start from
    Capacity,       \* MQTT_EVENT_QUEUE_LEN
    NormalLimit,    \* MQTT_EVENT_NORMAL_LIMIT
    DisconnectMax   \* MQTT_UPLINK_DISCONNECT_RETRY_MAX

ASSUME LimitAssumption ==
    /\ Capacity \in Nat \ {0}
    /\ NormalLimit \in 1 .. Capacity
    /\ DisconnectMax \in Nat \ {0}

Budgets == {"start", "stop", "route", "event", "cancel", "send", "lost", "reject", "fail"}

ASSUME ScenariosAssumption ==
    \A s \in Scenarios : s.role \in {"root", "child"} /\ s.budget \in [Budgets -> Nat]

VARIABLES
    role,        \* IsRoot: "root" or "child"
    budget,      \* bound: how often each thing may still happen
    client,      \* s_client, s_client_generation, s_client_started
    connected,   \* s_mqtt_connected
    epoch,       \* s_connection_epoch
    control,     \* s_mqtt_control
    life,        \* holder of s_mqtt_lifecycle_mutex
    owner,       \* where mqtt_app_start or mqtt_app_stop is
    asking,      \* mqtt_request_disconnect, per caller
    sender,      \* a publisher is inside the SDK (publish_refs)
    sdk,         \* the SDK's task
    outbox,      \* the SDK's outbox
    lastId,      \* the last message number of this client
    late,        \* callbacks of destroyed clients, not yet dispatched
    svc,         \* the message the service task is handing to the SDK
    setup,       \* s_service_work
    ack,         \* s_service_ack and s_ack_map
    bootConfig,  \* s_boot_config_enqueued
    queue,       \* s_event_queue
    work,        \* s_event_work: the head event
    eack,        \* s_event_ack and early_acks
    count,       \* s_event_count
    normal,      \* s_event_normal_count
    validity,    \* s_taskcp_generation
    accepted,    \* history: number of the last event accepted
    got,         \* history: numbers of the events the server has
    confirmed    \* history: newest epoch of a batch granted, of an online report acknowledged

lifeVars == <<client, life, owner>>
sdkVars == <<sdk, outbox, lastId, late>>
setupVars == <<svc, setup, ack, bootConfig>>
eventVars == <<queue, work, eack, count, normal, validity, accepted>>
ghostVars == <<got, confirmed>>
sessionVars == <<connected, epoch, control>>
vars == <<role, budget, sessionVars, lifeVars, asking, sender, sdkVars,
          setupVars, eventVars, ghostVars>>

Kinds == {"state", "normal", "taskcp"}
Uplinks == {"none", "eth", "wifi"}
Phases == {"stopped", "connecting", "connected", "waiting", "stopping"}
Callers == {"monitor", "sdk"}
Flags == {"published", "subscribed", "rejected", "deleted"}

NoEvent == [n |-> 0, kind |-> "state", gen |-> 0]

Spend(cost) ==
    /\ budget[cost] > 0
    /\ budget' = [budget EXCEPT ![cost] = @ - 1]

\* What costs only when it goes wrong.
Costs(cost, ok) == IF ok THEN UNCHANGED budget ELSE Spend(cost)

Running == control.phase \notin {"stopping", "stopped"}

\* mqtt_session_current; with the admission lock also mqtt_client_acquire.
Session(e) ==
    /\ client.exists
    /\ connected
    /\ control.phase = "connected"
    /\ ~control.switch
    /\ e = epoch

Init ==
    /\ \E s \in Scenarios : role = s.role /\ budget = s.budget
    /\ client = [exists |-> FALSE, gen |-> 0, started |-> FALSE]
    /\ connected = FALSE
    /\ epoch = 0
    /\ control = [phase |-> "stopped", want |-> "none", gen |-> 0, attempt |-> 0,
                  switch |-> FALSE, requested |-> FALSE, failures |-> 0]
    /\ life = "free"
    /\ owner = "idle"
    /\ asking = [w \in Callers |-> [at |-> "no", gen |-> 0]]
    /\ sender = FALSE
    /\ sdk = "off"
    /\ outbox = {}
    /\ lastId = 0
    /\ late = {}
    /\ svc = [at |-> "idle", what |-> "sub", epoch |-> 0, id |-> 0]
    /\ setup = [epoch |-> 0, phase |-> "subscribe"]
    /\ ack = [epoch |-> 0, capture |-> FALSE, pending |-> 0, flags |-> {}, early |-> {}]
    /\ bootConfig = FALSE
    /\ queue = <<>>
    /\ work = [has |-> FALSE, event |-> NoEvent, id |-> 0, gen |-> 0]
    /\ eack = [gen |-> 0, id |-> 0, capture |-> FALSE, flags |-> {}, early |-> {}]
    /\ count = 0
    /\ normal = 0
    /\ validity = 0
    /\ accepted = 0
    /\ got = {}
    /\ confirmed = [sub |-> 0, online |-> 0]

-----------------------------------------------------------------------------
(* The owner: mqtt_app_start and mqtt_app_stop, under the lifecycle lock.  *)

Create ==
    /\ life = "free" /\ owner = "idle" /\ ~client.exists
    /\ Spend("start")
    /\ client' = [client EXCEPT !.exists = TRUE, !.gen = @ + 1]
    /\ epoch' = epoch + 1
    /\ connected' = FALSE
    /\ control' = [control EXCEPT !.phase = IF role = "root" THEN "connecting" ELSE "waiting",
                                  !.switch = FALSE, !.requested = FALSE]
    /\ life' = "owner"
    /\ owner' = "start"
    /\ UNCHANGED <<role, asking, sender, sdkVars, setupVars, eventVars, ghostVars>>

\* mqtt_destroy_client_locked.  The SDK forgets the outbox; a callback of the
\* client may still be dispatched later.
Destroy ==
    /\ client' = [exists |-> FALSE, gen |-> client.gen + 1, started |-> FALSE]
    /\ connected' = FALSE
    /\ control' = [control EXCEPT !.phase = "stopped", !.switch = FALSE, !.requested = FALSE]
    /\ sdk' = "off"
    /\ outbox' = {}
    /\ lastId' = 0
    /\ late' = late \cup {[id |-> m.id, gen |-> client.gen] : m \in {o \in outbox : o.sent}}

KeepClient ==
    /\ control' = [control EXCEPT !.phase = "stopping"]
    /\ UNCHANGED <<client, connected, sdkVars>>

\* A child's client is started by the service task (NodeConnect).
StartSdk(ok) ==
    /\ owner = "start"
    /\ owner' = "idle"
    /\ life' = "free"
    /\ Costs("reject", ok)
    /\ IF ok
       THEN /\ client' = [client EXCEPT !.started = role = "root"]
            /\ sdk' = IF role = "root" THEN "init" ELSE sdk
            /\ UNCHANGED <<connected, control, outbox, lastId, late>>
       ELSE Destroy \/ KeepClient
    /\ UNCHANGED <<role, epoch, asking, sender, setupVars, eventVars, ghostVars>>

StopBegin ==
    /\ life = "free" /\ owner = "idle"
    /\ Spend("stop")
    /\ epoch' = epoch + 1
    /\ ack' = [ack EXCEPT !.capture = FALSE, !.pending = 0]
    /\ connected' = FALSE
    /\ control' = [control EXCEPT !.phase = IF client.exists THEN "stopping" ELSE "stopped",
                                  !.switch = FALSE]
    /\ life' = IF client.exists THEN "owner" ELSE "free"
    /\ owner' = IF client.exists THEN "stop" ELSE "idle"
    /\ UNCHANGED <<role, client, asking, sender, sdkVars, svc, setup, bootConfig,
                   eventVars, ghostVars>>

\* esp_mqtt_client_stop waits for the SDK's task to leave its callback.
StopSdk(ok) ==
    /\ owner = "stop"
    /\ client.started => asking["sdk"].at = "no"
    /\ Costs("reject", ok)
    /\ IF client.started /\ ~ok
       THEN owner' = "idle" /\ life' = "free" /\ UNCHANGED <<client, sdk>>
       ELSE /\ owner' = "drain"
            /\ client' = [client EXCEPT !.started = FALSE]
            /\ sdk' = "off"
            /\ UNCHANGED life
    /\ UNCHANGED <<role, sessionVars, asking, sender, outbox, lastId, late, setupVars,
                   eventVars, ghostVars>>

\* Fault: the client is destroyed without waiting for its users.
DrainedAtOnce == TRUE

Drained == ~sender

StopDrained(ok) ==
    /\ owner = "drain" /\ Drained
    /\ owner' = "idle"
    /\ life' = "free"
    /\ Costs("reject", ok)
    /\ IF ok THEN Destroy ELSE KeepClient
    /\ UNCHANGED <<role, epoch, asking, sender, setupVars, eventVars, ghostVars>>

\* The drain timed out: the stopped client is retained.
StopTimeout ==
    /\ owner = "drain" /\ ~Drained
    /\ owner' = "idle"
    /\ life' = "free"
    /\ UNCHANGED <<role, budget, sessionVars, client, asking, sender, sdkVars, setupVars,
                   eventVars, ghostVars>>

-----------------------------------------------------------------------------
(* Other tasks that publish: app_mqtt_publish and the runtime log.  They   *)
(* hold a reference and the admission lock, not the lifecycle lock.        *)

\* s_mqtt_admission_mutex, of which the service task holds the lock during the
\* call, and for a SUBSCRIBE until its number is known.
AdmissionFree == ~sender /\ svc.at # "held" /\ ~(svc.at = "put" /\ svc.what = "sub")

SendAcquire ==
    /\ AdmissionFree
    /\ Session(epoch)
    /\ Spend("send")
    /\ sender' = TRUE
    /\ UNCHANGED <<role, sessionVars, lifeVars, asking, sdkVars, setupVars, eventVars, ghostVars>>

SendDone ==
    /\ sender
    /\ sender' = FALSE
    /\ UNCHANGED <<role, budget, sessionVars, lifeVars, asking, sdkVars, setupVars,
                   eventVars, ghostVars>>

-----------------------------------------------------------------------------
(* The switch of a root's uplink.                                          *)

RouteChange(uplink) ==
    /\ role = "root" /\ control.want # uplink
    /\ Spend("route")
    /\ control' = [control EXCEPT !.want = uplink,
                                  !.gen = @ + 1,
                                  !.switch = Running /\ uplink # "none",
                                  !.failures = 0]
    /\ connected' = (connected /\ uplink # "none")
    /\ UNCHANGED <<role, epoch, lifeVars, asking, sender, sdkVars, setupVars, eventVars, ghostVars>>

\* The first critical section of mqtt_request_disconnect.
MayAsk ==
    /\ client.exists
    /\ control.phase = "connected"
    /\ control.switch
    /\ ~control.requested
    /\ control.want # "none"
    /\ control.failures < DisconnectMax

Ask(w) ==
    /\ control' = [control EXCEPT !.requested = TRUE]
    /\ connected' = FALSE
    /\ asking' = [asking EXCEPT ![w] = [at |-> "asked", gen |-> control.gen]]
    /\ UNCHANGED epoch

MonitorAsk ==
    /\ role = "root" /\ life = "free" /\ client.started
    /\ MayAsk
    /\ Ask("monitor")
    /\ life' = "monitor"
    /\ UNCHANGED <<role, budget, client, owner, sender, sdkVars, setupVars, eventVars, ghostVars>>

\* In the callback that found the new connection stale.
SdkAsk ==
    /\ asking["sdk"].at = "due"
    /\ IF MayAsk
       THEN Ask("sdk")
       ELSE /\ asking' = [asking EXCEPT !["sdk"].at = "no"]
            /\ UNCHANGED sessionVars
    /\ UNCHANGED <<role, budget, lifeVars, sender, sdkVars, setupVars, eventVars, ghostVars>>

\* Fault: a rejected request stays requested.
RejectedStuck(gen) ==
    UNCHANGED sessionVars

\* esp_mqtt_client_disconnect rejected: after DisconnectMax rejections of one
\* route the old connection goes on.
Rejected(gen) ==
    LET failures == IF control.gen = gen THEN control.failures + 1 ELSE control.failures
        giveUp   == control.gen = gen /\ failures >= DisconnectMax
    IN IF client.exists /\ control.phase = "connected"
       THEN /\ control' = [control EXCEPT !.requested = FALSE,
                                          !.failures = failures,
                                          !.switch = @ /\ ~giveUp]
            /\ connected' = (connected \/ giveUp)
            /\ UNCHANGED epoch
       ELSE UNCHANGED sessionVars

Answer(w, ok) ==
    /\ asking[w].at = "asked"
    /\ Costs("reject", ok)
    /\ asking' = [asking EXCEPT ![w].at = "no"]
    /\ life' = IF w = "monitor" THEN "free" ELSE life
    /\ IF ok
       THEN /\ sdk' = IF sdk = "up" THEN "dropping" ELSE sdk
            /\ UNCHANGED sessionVars
       ELSE /\ Rejected(asking[w].gen)
            /\ UNCHANGED sdk
    /\ UNCHANGED <<role, client, owner, sender, outbox, lastId, late, setupVars, eventVars, ghostVars>>

-----------------------------------------------------------------------------
(* The SDK's task and its callbacks.                                       *)

BeforeConnect ==
    /\ sdk = "init"
    /\ sdk' = "connecting"
    /\ control' = IF control.phase = "stopping" THEN control
                  ELSE [control EXCEPT !.phase = "connecting", !.attempt = control.gen,
                                       !.requested = FALSE]
    /\ UNCHANGED <<role, budget, connected, epoch, lifeVars, asking, sender, outbox, lastId,
                   late, setupVars, eventVars, ghostVars>>

\* Fault: any connection made is taken for one over the present route.
StaleNever == FALSE

\* The route changed while the connection was being made.
Stale == role = "root" /\ control.switch /\ control.attempt # control.gen

Connected ==
    /\ sdk = "connecting"
    /\ sdk' = "up"
    /\ IF ~Running
       THEN UNCHANGED <<sessionVars, ack, asking>>
       ELSE IF Stale
       THEN /\ control' = [control EXCEPT !.phase = "connected"]
            /\ asking' = [asking EXCEPT !["sdk"].at = "due"]
            /\ UNCHANGED <<connected, epoch, ack>>
       ELSE /\ control' = [control EXCEPT !.phase = "connected", !.switch = FALSE,
                                          !.requested = FALSE, !.failures = 0]
            /\ connected' = TRUE
            /\ epoch' = epoch + 1
            /\ ack' = [ack EXCEPT !.epoch = epoch + 1, !.capture = FALSE, !.pending = 0,
                                  !.flags = {}]
            /\ UNCHANGED asking
    /\ UNCHANGED <<role, budget, lifeVars, sender, outbox, lastId, late, svc, setup, bootConfig,
                   eventVars, ghostVars>>

\* MQTT_EVENT_DISCONNECTED: the connection failed, broke, or was given up.
Disconnected ==
    /\ sdk \in {"connecting", "up", "dropping"}
    /\ asking["sdk"].at = "no"
    /\ sdk' = "wait"
    /\ Costs("lost", sdk = "dropping")
    /\ IF Running
       THEN /\ epoch' = epoch + 1
            /\ ack' = [ack EXCEPT !.capture = FALSE, !.pending = 0]
            /\ connected' = FALSE
            /\ control' = [control EXCEPT !.phase = "waiting", !.requested = FALSE]
       ELSE UNCHANGED <<sessionVars, ack>>
    /\ UNCHANGED <<role, lifeVars, asking, sender, outbox, lastId, late, svc, setup, bootConfig,
                   eventVars, ghostVars>>

\* A root's SDK reconnects by itself.
AutoReconnect ==
    /\ role = "root" /\ sdk = "wait"
    /\ sdk' = "init"
    /\ UNCHANGED <<role, budget, sessionVars, lifeVars, asking, sender, outbox, lastId, late,
                   setupVars, eventVars, ghostVars>>

Deliver(m) ==
    /\ sdk = "up" /\ m \in outbox /\ ~m.sent
    /\ outbox' = (outbox \ {m}) \cup {[m EXCEPT !.sent = TRUE]}
    /\ got' = IF m.what = "event" THEN got \cup {m.n} ELSE got
    /\ UNCHANGED <<role, budget, sessionVars, lifeVars, asking, sender, sdk, lastId, late,
                   setupVars, eventVars, confirmed>>

\* mqtt_service_ack_event: the answer to message id, for the setup.
ServiceAck(id, flag) ==
    IF control.phase = "connected" /\ ack.epoch = epoch
    THEN ack' = [ack EXCEPT !.early = IF ack.capture THEN @ \cup {<<id, flag>>} ELSE @,
                            !.flags = IF ack.pending = id THEN @ \cup {flag} ELSE @]
    ELSE UNCHANGED ack

\* mqtt_event_ack_event: the answer to message id, for the head event.
EventAck(id, flag) ==
    IF eack.gen = client.gen /\ flag \in {"published", "deleted"}
    THEN eack' = [eack EXCEPT !.early = IF eack.capture THEN @ \cup {<<id, flag>>} ELSE @,
                              !.flags = IF eack.id = id THEN @ \cup {flag} ELSE @]
    ELSE UNCHANGED eack

Callback(id, flag) == ServiceAck(id, flag) /\ EventAck(id, flag)

\* Fault: a callback is told from an older client's by the handle, which is reused.
HandlerCurrentByHandle(gen) == client.exists

\* mqtt_event_handler drops the callbacks of an older client.
HandlerCurrent(gen) == client.exists /\ gen = client.gen

\* A PUBACK, or a SUBACK that grants every filter or (~granted) does not.
Acknowledge(m, granted) ==
    /\ sdk = "up" /\ asking["sdk"].at = "no" /\ m \in outbox /\ m.sent
    /\ granted \/ m.what = "sub"
    /\ Costs("fail", granted)
    /\ outbox' = outbox \ {m}
    /\ Callback(m.id, IF m.what # "sub" THEN "published"
                      ELSE IF granted THEN "subscribed" ELSE "rejected")
    /\ confirmed' = IF granted /\ m.what \in {"sub", "online"}
                    THEN [confirmed EXCEPT ![m.what] = IF m.epoch > @ THEN m.epoch ELSE @]
                    ELSE confirmed
    /\ UNCHANGED <<role, sessionVars, lifeVars, asking, sender, sdk, lastId, late, svc, setup,
                   bootConfig, queue, work, count, normal, validity, accepted, got>>

\* MQTT_EVENT_DELETED: the outbox gave the message up.
Expire(m) ==
    /\ sdk # "off" /\ asking["sdk"].at = "no" /\ m \in outbox
    /\ Spend("fail")
    /\ outbox' = outbox \ {m}
    /\ Callback(m.id, "deleted")
    /\ UNCHANGED <<role, sessionVars, lifeVars, asking, sender, sdk, lastId, late, svc, setup,
                   bootConfig, queue, work, count, normal, validity, accepted, ghostVars>>

LateCallback(c) ==
    /\ c \in late
    /\ late' = late \ {c}
    /\ IF HandlerCurrent(c.gen) THEN Callback(c.id, "published") ELSE UNCHANGED <<ack, eack>>
    /\ UNCHANGED <<role, budget, sessionVars, lifeVars, asking, sender, sdk, outbox, lastId,
                   svc, setup, bootConfig, queue, work, count, normal, validity, accepted,
                   ghostVars>>

-----------------------------------------------------------------------------
(* The MQTT service task: mqtt_service_poll.                               *)

\* mqtt_node_reconnect_poll, when its delay is over.
NodeConnect(ok) ==
    /\ role = "child" /\ svc.at = "idle" /\ life = "free"
    /\ client.exists /\ control.phase = "waiting"
    /\ Costs("reject", ok)
    /\ IF ok
       THEN /\ control' = [control EXCEPT !.phase = "connecting"]
            /\ client' = [client EXCEPT !.started = TRUE]
            /\ sdk' = "init"
       ELSE UNCHANGED <<control, client, sdk>>
    /\ UNCHANGED <<role, connected, epoch, life, owner, asking, sender, outbox, lastId, late,
                   setupVars, eventVars, ghostVars>>

\* Fault: a new session goes on where the old one was.
SetupGoesOn ==
    /\ svc.at = "idle" /\ setup.epoch # epoch
    /\ setup' = [setup EXCEPT !.epoch = epoch]
    /\ UNCHANGED <<role, budget, sessionVars, lifeVars, asking, sender, sdkVars, svc, ack,
                   bootConfig, eventVars, ghostVars>>

SetupReset ==
    /\ svc.at = "idle" /\ setup.epoch # epoch
    /\ setup' = [epoch |-> epoch, phase |-> "subscribe"]
    /\ UNCHANGED <<role, budget, sessionVars, lifeVars, asking, sender, sdkVars, svc, ack,
                   bootConfig, eventVars, ghostVars>>

Polled == svc.at = "idle" /\ setup.epoch = epoch /\ connected /\ control.phase = "connected"

\* The phase after the answers so far: unchanged while there is none.
AfterAck ==
    CASE setup.phase = "suback" ->
            IF ack.flags \cap {"rejected", "deleted"} # {} THEN "subscribe"
            ELSE IF "subscribed" \in ack.flags THEN "online" ELSE "suback"
      [] setup.phase = "onlineAck" ->
            IF "published" \in ack.flags THEN (IF bootConfig THEN "done" ELSE "config")
            ELSE IF "deleted" \in ack.flags THEN "online" ELSE "onlineAck"
      [] OTHER -> setup.phase

SetupAck ==
    /\ Polled
    /\ AfterAck # setup.phase
    /\ setup' = [setup EXCEPT !.phase = AfterAck]
    /\ UNCHANGED <<role, budget, sessionVars, lifeVars, asking, sender, sdkVars, svc, ack,
                   bootConfig, eventVars, ghostVars>>

\* A SUBSCRIBE is begun under the admission lock.
Hand(what) ==
    svc' = [at |-> IF what = "sub" THEN "held" ELSE "begun", what |-> what, epoch |-> epoch,
            id |-> 0]

LifecycleFree == life = "free"

\* mqtt_service_poll with the lifecycle lock, up to mqtt_ack_begin.
SetupBegin ==
    /\ Polled /\ LifecycleFree /\ Session(setup.epoch)
    /\ setup.phase \in {"subscribe", "online", "config"}
    /\ setup.phase = "subscribe" => ~sender
    /\ life' = "service"
    /\ Hand(IF setup.phase = "subscribe" THEN "sub" ELSE setup.phase)
    /\ ack' = IF setup.phase = "config" THEN ack
              ELSE [epoch |-> epoch, capture |-> TRUE, pending |-> 0, flags |-> {}, early |-> {}]
    /\ UNCHANGED <<role, budget, sessionVars, client, owner, asking, sender, sdkVars, setup,
                   bootConfig, eventVars, ghostVars>>

\* mqtt_client_acquire, under the admission lock.  No reference is to be had when
\* the wait for the lock times out, or when the session is over.
Acquire ==
    /\ svc.at = "begun"
    /\ svc' = [svc EXCEPT !.at = IF ~sender /\ Session(svc.epoch) THEN "held" ELSE "put",
                          !.id = 0]
    /\ UNCHANGED <<role, budget, sessionVars, lifeVars, asking, sender, sdkVars, setup, ack,
                   bootConfig, eventVars, ghostVars>>

\* A SUBSCRIBE that fails (1235 to 1243): the outbox had no room for it, or the
\* SDK has failed.  Then it may be in the outbox all the same, and the connection
\* is to be dropped, which the SDK may refuse.  Any other call leaves nothing.
PutFails(message, fits) ==
    /\ \/ UNCHANGED <<outbox, lastId>>
       \/ svc.what = "sub" /\ fits /\ outbox' = outbox \cup {message} /\ lastId' = message.id
    /\ UNCHANGED sdk \/ (svc.what = "sub" /\ sdk = "up" /\ sdk' = "dropping")

\* The call of the SDK with the reference: by now the session may be over.  A
\* message that is enqueued waits for Deliver, a SUBSCRIBE is written at once.
Put(ok) ==
    /\ svc.at = "held"
    /\ LET id      == lastId + 1
           message == [id |-> id, what |-> svc.what, epoch |-> svc.epoch,
                       n |-> IF svc.what = "event" THEN work.event.n ELSE 0,
                       sent |-> svc.what = "sub"]
           fits    == svc.what = "sub" => sdk \in {"up", "dropping"}
       IN /\ ok => fits
          /\ Costs("fail", ok \/ ~fits)
          /\ svc' = [svc EXCEPT !.at = "put", !.id = IF ok THEN id ELSE 0]
          /\ IF ok
             THEN outbox' = outbox \cup {message} /\ lastId' = id /\ UNCHANGED sdk
             ELSE PutFails(message, fits)
    /\ UNCHANGED <<role, sessionVars, lifeVars, asking, sender, late, setup, ack, bootConfig,
                   eventVars, ghostVars>>

\* Fault: the answers that came before the call returned are lost.
CaughtNone(early, id) == {}

Caught(early, id) == {f \in Flags : <<id, f>> \in early}

\* mqtt_ack_register and the phase that follows.  The map of early answers is
\* read here only; it is emptied here rather than before it is filled again.
SetupRegister ==
    /\ svc.at = "put" /\ svc.what \in {"sub", "online"}
    /\ svc' = [svc EXCEPT !.at = "idle"]
    /\ life' = "free"
    /\ ack' = IF svc.epoch = epoch /\ ack.epoch = epoch
              THEN [ack EXCEPT !.flags = Caught(ack.early, svc.id), !.pending = svc.id,
                               !.capture = FALSE, !.early = {}]
              ELSE ack
    /\ setup' = IF svc.id > 0
                THEN [setup EXCEPT !.phase = IF svc.what = "sub" THEN "suback" ELSE "onlineAck"]
                ELSE setup
    /\ UNCHANGED <<role, budget, sessionVars, client, owner, asking, sender, sdkVars, bootConfig,
                   eventVars, ghostVars>>

\* The configuration is reported once per boot; the SDK has to take it.
ConfigReport ==
    /\ svc.at = "put" /\ svc.what = "config"
    /\ svc' = [svc EXCEPT !.at = "idle"]
    /\ life' = "free"
    /\ bootConfig' = (bootConfig \/ svc.id > 0)
    /\ setup' = IF svc.id > 0 THEN [setup EXCEPT !.phase = "done"] ELSE setup
    /\ UNCHANGED <<role, budget, sessionVars, client, owner, asking, sender, sdkVars, ack,
                   eventVars, ghostVars>>

\* A configuration beyond the budget of the outbox is not sent.
ConfigTooLarge ==
    /\ Polled /\ LifecycleFree /\ Session(setup.epoch)
    /\ setup.phase = "config"
    /\ Spend("fail")
    /\ setup' = [setup EXCEPT !.phase = "done"]
    /\ UNCHANGED <<role, sessionVars, lifeVars, asking, sender, sdkVars, svc, ack, bootConfig,
                   eventVars, ghostVars>>

-----------------------------------------------------------------------------
(* The cache of events: app_mqtt_event_submit, app_mqtt_event_cancel_taskcp *)
(* and mqtt_event_poll, in the service task.                               *)

Submit(kind) ==
    /\ Spend("event")
    /\ IF count < Capacity /\ (kind = "normal" => normal < NormalLimit) /\ Len(queue) < Capacity
       THEN /\ accepted' = accepted + 1
            /\ queue' = Append(queue, [n |-> accepted + 1, kind |-> kind, gen |-> validity])
            /\ count' = count + 1
            /\ normal' = IF kind = "normal" THEN normal + 1 ELSE normal
       ELSE UNCHANGED <<accepted, queue, count, normal>>
    /\ UNCHANGED <<role, sessionVars, lifeVars, asking, sender, sdkVars, setupVars, work, eack,
                   validity, ghostVars>>

Cancel ==
    /\ Spend("cancel")
    /\ validity' = validity + 1
    /\ UNCHANGED <<role, sessionVars, lifeVars, asking, sender, sdkVars, setupVars, queue, work,
                   eack, count, normal, accepted, ghostVars>>

EventPoll == svc.at = "idle" /\ LifecycleFree

Take ==
    /\ EventPoll /\ ~work.has /\ queue # <<>>
    /\ queue' = Tail(queue)
    /\ work' = [work EXCEPT !.has = TRUE, !.event = Head(queue)]
    /\ UNCHANGED <<role, budget, sessionVars, lifeVars, asking, sender, sdkVars, setupVars, eack,
                   count, normal, validity, accepted, ghostVars>>

EventAckReset == eack' = [eack EXCEPT !.capture = FALSE, !.id = 0, !.flags = {}]

\* mqtt_event_retire_head.
RetireHead ==
    /\ normal' = IF work.event.kind = "normal" THEN normal - 1 ELSE normal
    /\ count' = count - 1
    /\ work' = [work EXCEPT !.has = FALSE, !.event = NoEvent, !.id = 0]
    /\ EventAckReset
    /\ UNCHANGED <<role, budget, sessionVars, lifeVars, asking, sender, sdkVars, setupVars, queue,
                   validity, accepted, ghostVars>>

Acknowledged ==
    /\ EventPoll /\ work.has /\ work.id > 0
    /\ "published" \in eack.flags
    /\ RetireHead

\* Fault: the head counts as returned when the session is not the one it was put in.
LostOnDisconnect ==
    "deleted" \in eack.flags \/ ~client.exists \/ control.phase # "connected"

\* The copy of the head is gone: the outbox gave it up, or the client is another.
Gone == "deleted" \in eack.flags \/ ~client.exists \/ work.gen # client.gen

Returned ==
    /\ EventPoll /\ work.has /\ work.id > 0
    /\ "published" \notin eack.flags
    /\ Gone
    /\ work' = [work EXCEPT !.id = 0]
    /\ EventAckReset
    /\ UNCHANGED <<role, budget, sessionVars, lifeVars, asking, sender, sdkVars, setupVars, queue,
                   count, normal, validity, accepted, ghostVars>>

Void == work.event.kind = "taskcp" /\ work.event.gen # validity

Cancelled ==
    /\ EventPoll /\ work.has /\ work.id = 0
    /\ Void
    /\ RetireHead

EventBegin ==
    /\ EventPoll /\ work.has /\ work.id = 0 /\ ~Void
    /\ setup.epoch = epoch /\ setup.phase \in {"config", "done"} /\ Session(epoch)
    /\ life' = "service"
    /\ Hand("event")
    /\ eack' = [gen |-> client.gen, id |-> 0, capture |-> TRUE, flags |-> {}, early |-> {}]
    /\ work' = [work EXCEPT !.gen = client.gen]
    /\ UNCHANGED <<role, budget, sessionVars, client, owner, asking, sender, sdkVars, setup, ack,
                   bootConfig, queue, count, normal, validity, accepted, ghostVars>>

EventRegister ==
    /\ svc.at = "put" /\ svc.what = "event"
    /\ svc' = [svc EXCEPT !.at = "idle"]
    /\ life' = "free"
    /\ eack' = [eack EXCEPT !.capture = FALSE, !.id = svc.id, !.flags = Caught(eack.early, svc.id),
                            !.early = {}]
    /\ work' = [work EXCEPT !.id = svc.id]
    /\ UNCHANGED <<role, budget, sessionVars, client, owner, asking, sender, sdkVars, setup, ack,
                   bootConfig, queue, count, normal, validity, accepted, ghostVars>>

-----------------------------------------------------------------------------

Owner ==
    \/ \E ok \in BOOLEAN : StartSdk(ok) \/ StopSdk(ok) \/ StopDrained(ok)
    \/ StopTimeout

Monitor == MonitorAsk \/ (\E ok \in BOOLEAN : Answer("monitor", ok))

Reconnect == BeforeConnect \/ Connected \/ AutoReconnect \/ (sdk = "dropping" /\ Disconnected)

Transport ==
    \/ \E m \in outbox : Deliver(m) \/ (\E granted \in BOOLEAN : Acknowledge(m, granted))

SdkCall == SdkAsk \/ (\E ok \in BOOLEAN : Answer("sdk", ok))

Service ==
    \/ \E ok \in BOOLEAN : NodeConnect(ok) \/ Put(ok)
    \/ Acquire
    \/ SetupReset \/ SetupAck \/ SetupBegin \/ SetupRegister \/ ConfigReport
    \/ ConfigTooLarge
    \/ Take \/ Acknowledged \/ Returned \/ Cancelled \/ EventBegin \/ EventRegister

Environment ==
    \/ Create \/ StopBegin
    \/ SendAcquire
    \/ \E uplink \in Uplinks : RouteChange(uplink)
    \/ \E kind \in Kinds : Submit(kind)
    \/ Cancel
    \/ Disconnected
    \/ \E m \in outbox : Expire(m)
    \/ \E c \in late : LateCallback(c)

Next == Owner \/ Monitor \/ Reconnect \/ Transport \/ SdkCall \/ Service \/ SendDone \/ Environment

\* Every task goes on with what it began; the broker answers while the
\* connection lasts.  Nothing of the environment has to happen.
Fairness ==
    /\ WF_vars(Owner) /\ WF_vars(Monitor) /\ WF_vars(Reconnect) /\ WF_vars(Transport)
    /\ WF_vars(SdkCall) /\ WF_vars(Service) /\ WF_vars(SendDone)

Spec == Init /\ [][Next]_vars /\ Fairness

-----------------------------------------------------------------------------
(* Properties.                                                             *)

Event == [n : Nat, kind : Kinds, gen : Nat]
Answers == SUBSET (Nat \X Flags)

\* Every variable has its type; the counters of the event cache stay within
\* their limits (s_event_count, s_event_normal_count).
TypeOK ==
    /\ role \in {"root", "child"}
    /\ budget \in [Budgets -> Nat]
    /\ client \in [exists : BOOLEAN, gen : Nat, started : BOOLEAN]
    /\ connected \in BOOLEAN /\ epoch \in Nat
    /\ control \in [phase : Phases, want : Uplinks, gen : Nat, attempt : Nat,
                    switch : BOOLEAN, requested : BOOLEAN, failures : Nat]
    /\ life \in {"free", "owner", "monitor", "service"}
    /\ owner \in {"idle", "start", "stop", "drain"}
    /\ asking \in [Callers -> [at : {"no", "due", "asked"}, gen : Nat]]
    /\ sender \in BOOLEAN
    /\ sdk \in {"off", "init", "connecting", "up", "dropping", "wait"}
    /\ \A m \in outbox : m \in [id : Nat, what : {"sub", "online", "config", "event"},
                              epoch : Nat, n : Nat, sent : BOOLEAN]
    /\ lastId \in Nat
    /\ \A c \in late : c \in [id : Nat, gen : Nat]
    /\ svc \in [at : {"idle", "begun", "held", "put"}, what : {"sub", "online", "config", "event"},
                epoch : Nat, id : Nat]
    /\ setup \in [epoch : Nat, phase : {"subscribe", "suback", "online", "onlineAck",
                                       "config", "done"}]
    /\ ack.early \in Answers /\ ack.flags \subseteq Flags /\ ack.capture \in BOOLEAN
    /\ ack.epoch \in Nat /\ ack.pending \in Nat
    /\ bootConfig \in BOOLEAN
    /\ queue \in Seq(Event)
    /\ work \in [has : BOOLEAN, event : Event, id : Nat, gen : Nat]
    /\ eack.early \in Answers /\ eack.flags \subseteq Flags /\ eack.capture \in BOOLEAN
    /\ eack.gen \in Nat /\ eack.id \in Nat
    /\ count \in 0 .. Capacity /\ normal \in 0 .. NormalLimit
    /\ validity \in Nat /\ accepted \in Nat
    /\ got \subseteq 1 .. accepted
    /\ confirmed \in [sub : Nat, online : Nat]

\* mqtt_app.c's cache of events is the at-least-once relay of EventRelay: no
\* event is lost, overtaken, in two copies in the outbox at once, or retired
\* before the server has it, whatever happens to connections and clients; only
\* a TaskCP made void before it is handed over leaves unsent.
Relay == INSTANCE EventRelay WITH
    waiting <- (IF work.has THEN <<work.event>> ELSE <<>>) \o queue,
    copies <- Cardinality({m \in outbox : m.what = "event"})
              + (IF svc.at \in {"begun", "held"} /\ svc.what = "event" THEN 1 ELSE 0)

RelaySpec == Relay!Spec

\* Every event and every configuration handed to the SDK is of a session whose
\* subscriptions and online report the broker has confirmed in this very session
\* (mqtt_service_poll, mqtt_event_poll).  What an earlier session has left in the
\* outbox is another matter: the SDK sends it again when it likes.
EventsAfterOnline ==
    [][\A m \in outbox' : m.id > lastId /\ m.what \in {"config", "event"}
         => confirmed.sub = m.epoch /\ confirmed.online = m.epoch]_vars

\* A client is destroyed (mqtt_destroy_client_locked) only when no task and no
\* callback is inside the SDK with its handle.
ClientInUse ==
    [][client.exists /\ ~client'.exists
         => ~sender /\ svc.at = "idle" /\ \A w \in Callers : asking[w].at = "no"]_vars

\* A root that has an uplink publishes only over a connection made over that
\* uplink, unless the SDK has refused to drop the old one DisconnectMax times: or
\* more often, when the monitor and the SDK's callback have asked it both
\* (mqtt_connected, mqtt_request_disconnect).
RouteFresh ==
    role = "root" /\ Session(epoch) /\ control.want # "none"
        => control.attempt = control.gen \/ control.failures >= DisconnectMax

\* A switch of the uplink ends: in a connection over the new uplink, in its
\* loss, in the old connection being kept, or with the client
\* (mqtt_request_disconnect).
SwitchCompletes == control.switch ~> ~control.switch \/ ~Running

\* When a session lasts, the cache of events runs empty again and again
\* (mqtt_event_poll): no answer that comes early, late or never leaves the head
\* waiting for ever.
EventsArrive == <>[]Session(epoch) => []<>(count = 0)
=============================================================================
