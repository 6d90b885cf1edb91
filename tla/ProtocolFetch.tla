--------------------------- MODULE ProtocolFetch -----------------------------
(***************************************************************************)
(* How the protocol of a device is fetched over HTTP and installed         *)
(* (appTask.c, GetProto.c).  The task that starts a round asks for that of *)
(* the aging device and waits for it; http_auto asks again and again for   *)
(* those of the external devices; both wait in the request.  http_rx takes *)
(* the answers from a queue and installs them.  The aging device is freed  *)
(* and created anew with each round, under s_protocol_lifecycle_mutex: a   *)
(* section under it is one action.                                         *)
(*                                                                         *)
(* One task starts rounds: that net_init may do so as well is a matter of  *)
(* AgingCommand.  "life" numbers the aging devices created; it is in no    *)
(* message, but here in the requests, to tell what an answer was asked for.*)
(***************************************************************************)
EXTENDS Budget, Sequences

CONSTANTS
    HttpQueueLen,  \* HTTP_DATA_QUEUE_LEN
    ProtoIds,      \* the protocol ids of the rounds and devices
    External       \* the protocol id of each external device: read_devices

ASSUME FetchAssumption ==
    /\ HttpQueueLen \in Nat \ {0} /\ ProtoIds \subseteq Nat \ {0}
    /\ "aging" \notin DOMAIN External /\ External \in [DOMAIN External -> Nat]

VARIABLES
    device,      \* Aging_device and read_devices; life 0 is a NULL pointer
    generation,  \* s_aging_protocol_generation, s_external_protocol_generation
    asking,      \* the request that each task waits in
    replies,     \* HttpData_queue
    parsing,     \* the answers that http_rx has taken, one at most
    starting,    \* where the start of a round is
    lives        \* the aging devices created so far

fetchState == <<device, generation, asking, replies, parsing, starting, lives>>
fetchVars == <<budget, fetchState>>

Targets == {"aging"} \cup DOMAIN External
NoDevice == [life |-> 0, id |-> 0, protocol |-> "none", from |-> <<>>]
NewDevice(life, id) == [NoDevice EXCEPT !.life = life, !.id = id]

\* The protocols of the server.  A CAN protocol is installed as a MODBUS one.
Kinds == {"scpi", "modbus", "other"}

\* The tasks that ask, and the devices they ask for.
Askers == {"start", "http_auto"}

FetchInit ==
    /\ device = [t \in Targets |-> IF t = "aging" THEN NoDevice ELSE NewDevice(1, External[t])]
    /\ generation = [t \in Targets |-> 0]
    /\ asking = [a \in Askers |-> <<>>]
    /\ replies = <<>> /\ parsing = <<>> /\ starting = "idle" /\ lives = 0

-----------------------------------------------------------------------------
(* The start and the end of a round.                                       *)

Starting(from, to) == starting = from /\ starting' = to

\* AgingDevice_RuntimeFree: an answer that is under way has no device any more.
FreeAging ==
    /\ generation' = [generation EXCEPT !["aging"] = @ + 1]
    /\ device' = [device EXCEPT !["aging"] = NoDevice]

\* aging_command_json_parse frees what the last round left.
StartRound ==
    /\ Spend("start")
    /\ Starting("idle", "create")
    /\ FreeAging
    /\ UNCHANGED <<asking, replies, parsing, lives>>

\* A device whose hardware does not answer is freed on the way out.
CreateAging(id, ok) ==
    /\ Starting("create", IF ok THEN "request" ELSE "failed")
    /\ Costs(ok)
    /\ device' = [device EXCEPT !["aging"] = NewDevice(lives + 1, id)]
    /\ lives' = lives + 1
    /\ UNCHANGED <<generation, asking, replies, parsing>>

\* WaitAgingDeviceProtocolReady.
ProtocolReady ==
    /\ Starting("wait", "running")
    /\ device["aging"].protocol # "none"
    /\ UNCHANGED <<budget, device, generation, asking, replies, parsing, lives>>

ProtocolTimeout ==
    /\ Starting("wait", "failed") /\ Spend("timeout")
    /\ UNCHANGED <<device, generation, asking, replies, parsing, lives>>

\* The start has failed, the round has ended or was stopped.
EndRound ==
    /\ Starting("failed", "idle") \/ Starting("running", "idle")
    /\ FreeAging
    /\ UNCHANGED <<budget, asking, replies, parsing, lives>>

-----------------------------------------------------------------------------
(* Requests.                                                               *)

\* request_device_protocol.
AskFor(task, t) ==
    /\ device[t].life # 0 /\ device[t].id # 0
    /\ generation' = [generation EXCEPT ![t] = @ + 1]
    /\ asking' = [asking EXCEPT ![task] = <<[target |-> t, generation |-> generation[t] + 1,
                                            id |-> device[t].id, life |-> device[t].life]>>]
    /\ UNCHANGED <<device, replies, parsing, lives>>

AskAging == Starting("request", "asked") /\ AskFor("start", "aging") /\ UNCHANGED budget

\* app_HTTP_Auto_GetProtocol: HaveProtocol is read without the mutex.
AskExternal(t) ==
    /\ Spend("poll")
    /\ asking["http_auto"] = <<>> /\ device[t].protocol = "none"
    /\ AskFor("http_auto", t)
    /\ UNCHANGED starting

\* http_request_execute_full: only an answer that is whole goes to the queue, unless
\* that is full for 100 ms.
Fetched(task, kind, ok) ==
    /\ asking[task] # <<>>
    /\ asking' = [asking EXCEPT ![task] = <<>>]
    /\ IF Len(replies) < HttpQueueLen THEN Costs(ok) ELSE ~ok /\ UNCHANGED budget
    /\ replies' = IF ok THEN Append(replies, [asked |-> asking[task][1], kind |-> kind]) ELSE replies
    /\ IF task = "start" THEN Starting("asked", IF ok THEN "wait" ELSE "failed")
       ELSE UNCHANGED starting
    /\ UNCHANGED <<device, generation, parsing, lives>>

-----------------------------------------------------------------------------
(* http_rx.                                                                *)

TakeReply ==
    /\ parsing = <<>> /\ replies # <<>>
    /\ parsing' = <<Head(replies)>> /\ replies' = Tail(replies)
    /\ UNCHANGED <<budget, device, generation, asking, starting, lives>>

\* Fault: only the protocol id is compared.
NamesDevice(asked) ==
    device[asked.target].life # 0 /\ device[asked.target].id = asked.id

\* The generation first: the device may have been freed and created again.
IsFor(asked) ==
    /\ generation[asked.target] = asked.generation
    /\ device[asked.target].life # 0 /\ device[asked.target].id = asked.id

\* import_scpi_protocol_to_device keeps the old protocol when the new one cannot be
\* read; the others have freed it before.
Imported(d, reply, ok) ==
    IF ok THEN [d EXCEPT !.protocol = reply.kind, !.from = <<reply.asked>>]
    ELSE IF reply.kind = "modbus" THEN [d EXCEPT !.protocol = "none", !.from = <<>>] ELSE d

\* parse_http_protocol_response; what is no JSON is thrown away like what is stale.
InstallReply(ok) ==
    /\ parsing # <<>> /\ parsing' = <<>>
    /\ LET reply == parsing[1]
           t == reply.asked.target
       IN  IF IsFor(reply.asked) /\ reply.kind # "other"
             THEN Costs(ok) /\ device' = [device EXCEPT ![t] = Imported(@, reply, ok)]
             ELSE ok /\ UNCHANGED <<budget, device>>
    /\ UNCHANGED <<generation, asking, replies, starting, lives>>

UnreadableReply ==
    /\ parsing # <<>> /\ parsing' = <<>> /\ Spend("fail")
    /\ UNCHANGED <<device, generation, asking, replies, starting, lives>>

FetchNext ==
    \/ StartRound \/ AskAging \/ ProtocolReady \/ ProtocolTimeout \/ EndRound
    \/ \E id \in ProtoIds, ok \in BOOLEAN : CreateAging(id, ok)
    \/ \E t \in DOMAIN External : AskExternal(t)
    \/ \E task \in Askers, kind \in Kinds, ok \in BOOLEAN : Fetched(task, kind, ok)
    \/ TakeReply \/ UnreadableReply
    \/ \E ok \in BOOLEAN : InstallReply(ok)

-----------------------------------------------------------------------------
(* Properties.                                                             *)

\* The protocol that a device has was asked for this device, and not for one that
\* had the same protocol id and was freed, however late the answer comes
\* (parse_http_protocol_response, AgingDevice_RuntimeFree).
OwnProtocol ==
    \A t \in Targets : device[t].protocol # "none" =>
        /\ device[t].from[1].target = t
        /\ device[t].from[1].life = device[t].life /\ device[t].from[1].id = device[t].id
=============================================================================
