---------------------------- MODULE MqttCommands ----------------------------
(***************************************************************************)
(* The commands a node receives over MQTT: the SDK's task hands the pieces *)
(* of a message to a queue (mqtt_app.c, MQTT_EVENT_DATA), the task mqtt_rx *)
(* puts them together (appTask.c, app_MQTT_Rdata_handle), and a command is *)
(* executed, or answered again from the cache when its Seq is known        *)
(* (parse_jsonCommand_MQTT and the mqtt_seq functions).                    *)
(*                                                                         *)
(* A command stands for its Seq.  A message is one piece, which is a whole *)
(* JSON object, or two: a piece of 1 KB that opens more braces than it     *)
(* closes, and the rest.  Every piece is an event of the SDK of its own,   *)
(* whose buffer is as large as a piece.                                    *)
(***************************************************************************)
EXTENDS Budget, Sequences, SequencesExt

CONSTANTS
    SeqCapacity,       \* MQTT_SEQ_DEDUP_CAPACITY
    FallbackCapacity,  \* MQTT_SEQ_FALLBACK_CAPACITY
    DataQueueLen,      \* MQTT_DATA_QUEUE_LEN
    TextPieces         \* the pieces that MQTT_DATA_Cache holds

ASSUME CommandsAssumption ==
    /\ SeqCapacity \in Nat \ {0} /\ FallbackCapacity \in Nat \ {0}
    /\ DataQueueLen \in Nat \ {0} /\ TextPieces \in Nat \ {0, 1}

VARIABLES
    asks,      \* what each command asks: its kind, and whether its message is long
    wanted,    \* the commands that the server waits for an answer of
    answered,  \* the commands that the server has had a reply to
    wire,      \* the pieces that the SDK has still to hand over
    data,      \* Data_queue
    topic,     \* s_pending_topic: the command whose topic it is, 0 when it is not valid
    text,      \* json_str
    packet,    \* the pieces handed to parse_jsonCommand_MQTT
    history,   \* s_mqtt_seq_history: "none", "ring", or "failed" (s_mqtt_seq_alloc_failed)
    ring,      \* its records, s_mqtt_seq_history_count of them
    ringNext,  \* s_mqtt_seq_next
    fallback,  \* s_mqtt_seq_fallback and its count
    fallbackNext,
    done       \* the commands executed since the start, the last ones

\* The commands are numbered.
Numbers == 1 .. 3

asked == <<asks, wanted, answered>>
assembly == <<topic, text, packet>>
memory == <<history, ring, ringNext, fallback, fallbackNext, done>>
commandVars == <<budget, asked, wire, data, assembly, memory>>

\* What the topic names, and the topic its reply is published to.  An OTA command,
\* local_log, get_lost_aging and set_config answer nothing.
Replies == [state |-> "state", config |-> "config", remote_log |-> "setlog", step |-> "point",
            restart |-> "point", power |-> "point", start |-> "point",
            set |-> "none", ota |-> "none", lost |-> "none", local_log |-> "none"]

\* A reply of 512 characters or more is not cached: that of get_config.
Cacheable(kind) == Replies[kind] \notin {"none", "config"}

Commands == DOMAIN asks

Pieces(q) ==
    IF asks[q].long THEN <<[of |-> q, part |-> "head"], [of |-> q, part |-> "tail"]>>
    ELSE <<[of |-> q, part |-> "whole"]>>

CommandsInit ==
    /\ wanted = {} /\ answered = {}
    /\ wire = <<>> /\ data = <<>>
    /\ topic = 0 /\ text = <<>> /\ packet = <<>>
    /\ history = "none" /\ ring = <<>> /\ ringNext = 1
    /\ fallback = <<>> /\ fallbackNext = 1
    /\ done = <<>>

-----------------------------------------------------------------------------
(* The server and the task of the SDK.                                     *)

\* Nothing is on its way: the last message was 5 s ago, or was executed.
Quiet == wire = <<>> /\ data = <<>> /\ text = <<>> /\ packet = <<>>

\* A command, or a command once more: the server repeats it, or the broker does.
\* The server waits longer before it does than the node for the rest of a message.
Send(q) ==
    /\ wire = <<>>
    /\ IF Quiet THEN UNCHANGED budget ELSE Spend("burst")
    /\ wanted' = wanted \cup {q}
    /\ wire' = Pieces(q)
    /\ UNCHANGED <<asks, answered, data, assembly, memory>>

\* The topic travels with the first piece of its message.
HandOver ==
    /\ wire # <<>> /\ Len(data) < DataQueueLen
    /\ data' = Append(data, Head(wire))
    /\ wire' = Tail(wire)
    /\ UNCHANGED <<budget, asked, assembly, memory>>

\* The queue stays full for 100 ms: the piece is lost, the next one is not.
QueueFull ==
    /\ wire # <<>> /\ Len(data) = DataQueueLen
    /\ Spend("loss")
    /\ wire' = Tail(wire)
    /\ UNCHANGED <<asked, data, assembly, memory>>

-----------------------------------------------------------------------------
(* mqtt_rx puts the pieces together.                                       *)

Parts(of, which) == Len(SelectSeq(of, LAMBDA p : p.part = which))

\* is_complete_json: it begins with a brace, and every brace is closed.
IsComplete(pieces) ==
    \/ pieces[1].part = "whole"
    \/ (pieces[1].part = "head" /\ Parts(pieces, "head") = Parts(pieces, "tail"))

\* A first piece replaces the topic that is kept, whether it was used or not.
Stash(piece) == topic' = IF piece.part \in {"head", "whole"} THEN piece.of ELSE topic

\* A packet that is complete in itself discards what was collected; a piece that
\* does not fit any more starts again.
Receive ==
    /\ packet = <<>> /\ data # <<>>
    /\ data' = Tail(data)
    /\ LET piece == Head(data)
           longer == IF Len(text) >= TextPieces THEN <<piece>> ELSE Append(text, piece)
       IN  /\ Stash(piece)
           /\ IF IsComplete(<<piece>>) THEN packet' = <<piece>> /\ text' = <<>>
              ELSE IF IsComplete(longer) THEN packet' = longer /\ text' = <<>>
              ELSE text' = longer /\ UNCHANGED packet
    /\ UNCHANGED <<budget, asked, wire, memory>>

\* A read of 5 s in which nothing came: more than the 2 s after which a message
\* that is not complete is given up, be it that its rest is late.  The topic that
\* came with it is kept.
Silence ==
    /\ packet = <<>> /\ data = <<>> /\ text # <<>>
    /\ IF wire = <<>> THEN UNCHANGED budget ELSE Spend("loss")
    /\ text' = <<>>
    /\ UNCHANGED <<asked, wire, data, topic, packet, memory>>

-----------------------------------------------------------------------------
(* The commands that are known.                                            *)

\* mqtt_seq_find: the record that is valid, which an expired one stops to be.
Holding(q) == {i \in 1 .. Len(ring) : ring[i].valid /\ ring[i].seq = q}
Known(q) == \E i \in Holding(q) : ~ring[i].old
Expire(q) == [i \in 1 .. Len(ring) |->
                 IF i \in Holding(q) /\ ring[i].old THEN [ring[i] EXCEPT !.valid = FALSE] ELSE ring[i]]

\* Fault: the ring does not go on to the next place.
RecordSame(records, q, reply) ==
    LET new == [seq |-> q, valid |-> TRUE, old |-> FALSE, reply |-> reply] IN
    IF Len(records) < SeqCapacity THEN ring' = Append(records, new) /\ UNCHANGED ringNext
    ELSE ring' = [records EXCEPT ![ringNext] = new] /\ UNCHANGED ringNext

\* Fault: the reply is kept only when it was published.
RecordUnheard(records, q, reply) ==
    LET new == [seq |-> q, valid |-> TRUE, old |-> FALSE,
                reply |-> IF q \in answered' THEN reply ELSE "none"] IN
    IF Len(records) < SeqCapacity THEN ring' = Append(records, new) /\ UNCHANGED ringNext
    ELSE ring' = [records EXCEPT ![ringNext] = new] /\ ringNext' = (ringNext % SeqCapacity) + 1

\* mqtt_seq_record: the oldest record gives way.
RecordIn(records, q, reply) ==
    LET new == [seq |-> q, valid |-> TRUE, old |-> FALSE, reply |-> reply] IN
    IF Len(records) < SeqCapacity THEN ring' = Append(records, new) /\ UNCHANGED ringNext
    ELSE ring' = [records EXCEPT ![ringNext] = new] /\ ringNext' = (ringNext % SeqCapacity) + 1

\* mqtt_seq_fallback_record.
RecordFallback(q) ==
    IF Len(fallback) < FallbackCapacity
      THEN fallback' = Append(fallback, q) /\ UNCHANGED fallbackNext
      ELSE /\ fallback' = [fallback EXCEPT ![fallbackNext] = q]
           /\ fallbackNext' = (fallbackNext % FallbackCapacity) + 1

\* mqtt_seq_history_ensure: the memory is asked for once.
Ensure ==
    \/ history # "none" /\ UNCHANGED history
    \/ history = "none" /\ history' = "ring"
    \/ history = "none" /\ budget["memory"] > 0 /\ history' = "failed"

\* The last executions: as many as the larger table remembers, and this one.
Remembered == IF SeqCapacity > FallbackCapacity THEN SeqCapacity ELSE FallbackCapacity
Executed(q) ==
    LET all == Append(done, [seq |-> q, old |-> FALSE]) IN
    done' = IF Len(all) > Remembered + 1 THEN Tail(all) ELSE all

-----------------------------------------------------------------------------
(* parse_jsonCommand_MQTT.                                                 *)

\* The object that a head and the tail of a message make.  More pieces are braces
\* that match and no JSON; what has no topic, or no memory, is not executed.
Parses == Len(packet) = 1 \/ (Len(packet) = 2 /\ packet[1].part = "head")
Number == packet[1].of
Duplicate == Known(Number) \/ (history # "ring" /\ Number \in Range(fallback))

Finish == packet' = <<>> /\ UNCHANGED <<asks, wanted, wire, data, text>>

\* app_mqtt_publish of a reply.
Publish(q, ok) == answered' = IF ok THEN answered \cup {q} ELSE answered

Unreadable ==
    /\ packet # <<>>
    /\ IF Parses /\ topic # 0 THEN Spend("fail") ELSE UNCHANGED budget
    /\ Finish
    /\ UNCHANGED <<topic, answered, memory>>

\* A command that is known: only its reply, when there is one, is sent again.
Replay(ok) ==
    /\ packet # <<>> /\ Parses /\ topic # 0 /\ Duplicate
    /\ topic' = 0
    /\ IF \E i \in Holding(Number) : ring[i].reply # "none"
         THEN Publish(Number, ok) /\ Costs(ok)
         ELSE ok /\ UNCHANGED <<answered, budget>>
    /\ Finish
    /\ UNCHANGED memory

\* The reply is cached before it is published, under the Seq that was recorded
\* before the command was carried out.
Perform(ok) ==
    LET kind == asks[topic].kind
        reply == IF Cacheable(kind) THEN Replies[kind] ELSE "none"
    IN  /\ packet # <<>> /\ Parses /\ topic # 0 /\ ~Duplicate /\ kind # "set"
        /\ topic' = 0
        /\ IF Replies[kind] = "none" THEN ok /\ UNCHANGED <<answered, budget>>
           ELSE Publish(Number, ok) /\ Costs(ok)
        /\ Ensure
        /\ IF history' = "ring"
             THEN RecordIn(Expire(Number), Number, reply) /\ UNCHANGED <<fallback, fallbackNext>>
             ELSE RecordFallback(Number) /\ UNCHANGED <<ring, ringNext>>
        /\ Executed(Number)
        /\ Finish

\* Nothing that remembers a command outlives a restart.
Forget ==
    /\ wire' = <<>> /\ data' = <<>>
    /\ topic' = 0 /\ text' = <<>> /\ packet' = <<>>
    /\ history' = "none" /\ ring' = <<>> /\ ringNext' = 1
    /\ fallback' = <<>> /\ fallbackNext' = 1
    /\ done' = <<>>
    /\ UNCHANGED asked

\* set_config deletes the files, writes the new ones and restarts the node.
SetConfig ==
    /\ packet # <<>> /\ Parses /\ topic # 0 /\ ~Duplicate /\ asks[topic].kind = "set"
    /\ Forget
    /\ UNCHANGED budget

MqttRx == Receive \/ Silence \/ Unreadable \/ SetConfig \/ \E ok \in BOOLEAN : Replay(ok) \/ Perform(ok)

-----------------------------------------------------------------------------

\* MQTT_SEQ_WINDOW_MS passes for every command that is remembered.
Window ==
    /\ packet = <<>> /\ \E i \in 1 .. Len(done) : ~done[i].old
    /\ Spend("window")
    /\ ring' = [i \in 1 .. Len(ring) |-> [ring[i] EXCEPT !.old = TRUE]]
    /\ done' = [i \in 1 .. Len(done) |-> [done[i] EXCEPT !.old = TRUE]]
    /\ UNCHANGED <<asked, wire, data, assembly, history, ringNext, fallback, fallbackNext>>

PowerLoss == Spend("power") /\ Forget

CommandsNext ==
    \/ \E q \in Commands : Send(q)
    \/ HandOver \/ QueueFull \/ MqttRx \/ Window \/ PowerLoss

\* The server repeats a command until it is answered, and the tasks go on.  They
\* act in the behaviours of this service.
CommandsFairness ==
    /\ \A q \in Numbers : SF_commandVars(part = "commands" /\ q \in Commands \ answered /\ Quiet /\ Send(q))
    /\ WF_commandVars(part = "commands" /\ HandOver) /\ WF_commandVars(part = "commands" /\ MqttRx)

-----------------------------------------------------------------------------
(* Properties.                                                             *)

\* A command is not executed again while its Seq is among those remembered: the
\* last SeqCapacity within the window, or the last FallbackCapacity when there is
\* no memory for the ring (mqtt_seq_find, mqtt_seq_fallback_is_duplicate).
Remembers(i) ==
    IF history = "ring" THEN Len(done) - i <= SeqCapacity /\ ~done[i].old
    ELSE Len(done) - i <= FallbackCapacity
ExecutedOnce ==
    \A i \in 1 .. Len(done) - 1 : Remembers(i) => done[i].seq # Last(done).seq

\* The commands that have a reply are all answered in the end, when the server
\* repeats them: a reply that was lost is sent again.  Not so the reply of
\* get_config, which is not cached, and a reply lost while there is no ring.
AllAnswered == \A q \in wanted : Cacheable(asks[q].kind) => q \in answered
Answered == part = "commands" ~> AllAnswered \/ history = "failed"
=============================================================================
