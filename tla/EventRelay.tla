------------------------------ MODULE EventRelay ------------------------------
(***************************************************************************)
(* What main/APP/MQTT/mqtt_app.c promises of the events it accepts         *)
(* (app_mqtt_event_submit, mqtt_event_poll): a bounded queue in which only *)
(* the first event is on its way, in at most one copy at a time; it leaves *)
(* the queue when the server has it.  A TaskCP of an older generation is   *)
(* void: it is not sent any more, and leaves the queue unsent.             *)
(***************************************************************************)
EXTENDS Naturals, Sequences, FiniteSets

CONSTANTS
    Capacity,     \* MQTT_EVENT_QUEUE_LEN
    NormalLimit   \* MQTT_EVENT_NORMAL_LIMIT

VARIABLES
    waiting,   \* the events accepted and not retired, oldest first
    copies,    \* copies of the first one that are on their way
    got,       \* numbers of the events the server has
    validity,  \* the generation of TaskCP events that are valid
    accepted   \* number of the last event accepted

Kinds == {"state", "normal", "taskcp"}

Normals(s) == Cardinality({i \in DOMAIN s : s[i].kind = "normal"})

Void(e) == e.kind = "taskcp" /\ e.gen # validity

Init ==
    /\ waiting = <<>>
    /\ copies = 0
    /\ got = {}
    /\ validity = 0
    /\ accepted = 0

Accept(kind) ==
    /\ Len(waiting) < Capacity
    /\ kind = "normal" => Normals(waiting) < NormalLimit
    /\ waiting' = Append(waiting, [n |-> accepted + 1, kind |-> kind, gen |-> validity])
    /\ accepted' = accepted + 1
    /\ UNCHANGED <<copies, got, validity>>

Cancel ==
    /\ validity' = validity + 1
    /\ UNCHANGED <<waiting, copies, got, accepted>>

Send ==
    /\ waiting # <<>>
    /\ copies = 0
    /\ ~Void(Head(waiting))
    /\ copies' = 1
    /\ UNCHANGED <<waiting, got, validity, accepted>>

\* A copy may arrive more than once.
Arrive ==
    /\ copies = 1
    /\ got' = got \cup {Head(waiting).n}
    /\ UNCHANGED <<waiting, copies, validity, accepted>>

\* The copy is gone: acknowledged, given up, or lost with the client that had it.
Drop ==
    /\ copies = 1
    /\ copies' = 0
    /\ UNCHANGED <<waiting, got, validity, accepted>>

Retire ==
    /\ waiting # <<>>
    /\ copies = 0
    /\ Head(waiting).n \in got \/ Void(Head(waiting))
    /\ waiting' = Tail(waiting)
    /\ UNCHANGED <<copies, got, validity, accepted>>

Next ==
    \/ \E kind \in Kinds : Accept(kind)
    \/ Cancel \/ Send \/ Arrive \/ Drop \/ Retire

Spec == Init /\ [][Next]_<<waiting, copies, got, validity, accepted>>
=============================================================================
