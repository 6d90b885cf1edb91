------------------------------ MODULE AgingGap ------------------------------
(***************************************************************************)
(* The sampling sessions and the gap backfill of main/Task/aging_gap.c.    *)
(*                                                                         *)
(* Four tasks share the session table, each entry point of the file being  *)
(* one critical section of s_mutex:                                        *)
(*   owner    (mqtt_rx, net_init or aging_ctrl) begins, closes and idles   *)
(*            a session: SessionBegin, SessionResume, SessionClose, Idle;  *)
(*   sampler  (aging_get) snapshots the session and submits a packet;      *)
(*   uploader (aging_upload) numbers, stores, publishes, settles a packet; *)
(*   http_auto polls: queries the server for the missing numbers of a      *)
(*            finished session and sends them again from SQLite.           *)
(*                                                                         *)
(* A session identity (PN, RecordId) is an element of Idents; those of     *)
(* NoRecord have an empty RecordId.  Times are abstract: a deadline `due`  *)
(* that lies in the future is due = FALSE, and Elapse makes it TRUE.       *)
(*                                                                         *)
(* A definition commented `Fault' is a faulty variant of the one after it; *)
(* it is not part of the specification, and serves to check that the       *)
(* properties notice such a fault.                                         *)
(***************************************************************************)
EXTENDS Integers, FiniteSets

CONSTANTS
    Idents,      \* (PN, RecordId) pairs that sessions run under
    NoRecord,    \* the identities whose RecordId is the empty string
    PendingMax,  \* GAP_PENDING_MAX
    QueueLen,    \* length of Upload_data_queue (3)
    RoundsMax,   \* GAP_ROUNDS_MAX
    MaxToken,    \* bound: sessions begun in one power cycle (uint32 in code)
    MaxSample,   \* bound: packets submitted
    MaxTrigger,  \* bound: online and idle edges (s_trigger)
    MaxRestart   \* bound: restarts of the node

ASSUME GapAssumption ==
    /\ Idents # {}
    /\ NoRecord \subseteq Idents
    /\ PendingMax \in Nat \ {0}
    /\ QueueLen \in Nat \ {0}
    /\ RoundsMax \in Nat \ {0}
    /\ MaxToken \in Nat
    /\ MaxSample \in Nat
    /\ MaxTrigger \in Nat
    /\ MaxRestart \in Nat

VARIABLES
    sessions,   \* s_sessions
    current,    \* s_current: token of the open session, 0 if none
    running,    \* s_running
    lastToken,  \* s_next_token
    trigger,    \* s_trigger
    mqttReady,  \* s_mqtt_ready and app_mqtt_is_connected()
    resuming,   \* token whose history the owner is reading, 0 if none
    snapshot,   \* token and identity the sampler took when its sample started
    queue,      \* packets in Upload_data_queue; n orders them
    hand,       \* the packet the uploader holds (at most one)
    upload,     \* what the uploader knows of that packet
    serial,     \* number of packets accepted so far
    poll,       \* http_auto inside aging_gap_poll
    work,       \* s_work
    db,         \* rows of each identity in SQLite
    server,     \* numbers of each identity the server has stored
    warned,     \* identities given up with a Code 1003 warning
    forgotten,  \* identities whose in-RAM intent a restart destroyed
    restarts,
    late        \* queries and records sent since the session of the round began

ownerVars  == <<current, running, lastToken, resuming>>
uploadVars == <<queue, hand, upload, serial>>
pollVars   == <<poll, work>>
storeVars  == <<db, server>>
ghostVars  == <<warned, forgotten, restarts, late>>
vars == <<sessions, current, running, lastToken, trigger, mqttReady, resuming,
          snapshot, queue, hand, upload, serial, poll, work, db, server,
          warned, forgotten, restarts, late>>

(***************************************************************************)
(* GAP_SESSION_SLOTS: one slot per intent, per queued packet, for the      *)
(* packet in hand, for the current session, and one to switch with.        *)
(***************************************************************************)
Slots  == 1 .. (PendingMax + QueueLen + 3)
Tokens == 1 .. MaxToken
Phases == {"query", "send", "verify"}
Ids    == 0 .. MaxSample

Free(i) == ~sessions[i].used
Live(ss, token) == {i \in Slots : ss[i].used /\ ss[i].token = token}
Intents(ss) == {i \in Slots : ss[i].used /\ ss[i].intent}
Twins(ss, i) == {j \in Intents(ss) : ss[j].ident = ss[i].ident}
Larger(a, b) == IF a < b THEN b ELSE a

Session(token, ident) ==
    [used |-> TRUE, closed |-> FALSE, intent |-> FALSE, token |-> token,
     accepted |-> 0, processed |-> 0, persisted |-> 0, revision |-> 0,
     trigger |-> 0, ident |-> ident, nextId |-> 0, lastId |-> -1,
     round |-> 0, phase |-> "query", due |-> TRUE]

(***************************************************************************)
(* gap_finalize: nothing before the session is closed and drained; then    *)
(* the session is dropped, merged into an intent of the same identity,     *)
(* dropped with a warning, or becomes an intent itself.                    *)
(***************************************************************************)
Drained(s) == s.closed /\ s.accepted = s.processed /\ ~s.intent
Empty(s)   == s.persisted = 0 \/ s.lastId < 0

Freed(s)    == [s EXCEPT !.used = FALSE]
Promoted(s) == [s EXCEPT !.intent = TRUE, !.revision = @ + 1, !.round = 0]

\* Fault: the merged intent keeps its old range.
MergedKeepingRange(s, last) == [s EXCEPT !.revision = @ + 1, !.round = 0]

Merged(s, last) ==
    [s EXCEPT !.lastId = Larger(@, last), !.revision = @ + 1, !.round = 0]

\* Fault: the slot of an empty session is never given back.
DropSlotLeak(ss, i) == ss

DropSlot(ss, i) == [ss EXCEPT ![i] = Freed(@)]

MergeInto(ss, i) ==
    [j \in Slots |-> IF j = i THEN Freed(ss[j])
                     ELSE IF j \in Twins(ss, i) THEN Merged(ss[j], ss[i].lastId)
                          ELSE ss[j]]

\* Fault: the number of intents is not limited.
UnrecoverableUnlimited(ss, i) ==
    Drained(ss[i]) /\ ~Empty(ss[i]) /\ ss[i].ident \in NoRecord

Unrecoverable(ss, i) ==
    /\ Drained(ss[i])
    /\ ~Empty(ss[i])
    /\ \/ ss[i].ident \in NoRecord
       \/ Twins(ss, i) = {} /\ Cardinality(Intents(ss)) >= PendingMax

Finalize(ss, i) ==
    CASE ~Drained(ss[i]) -> ss
      [] Drained(ss[i]) /\ (Empty(ss[i]) \/ Unrecoverable(ss, i)) -> DropSlot(ss, i)
      [] Drained(ss[i]) /\ ~Empty(ss[i]) /\ ~Unrecoverable(ss, i) ->
            IF Twins(ss, i) # {} THEN MergeInto(ss, i)
            ELSE [ss EXCEPT ![i] = Promoted(@)]

\* Finalize as an update of the table and of the warnings it makes.
FinalizeSlot(ss, i) ==
    /\ sessions' = Finalize(ss, i)
    /\ warned' = IF Unrecoverable(ss, i) THEN warned \cup {ss[i].ident} ELSE warned

NoWork == [token |-> 0, revision |-> 0, ids |-> {}, missing |-> 0]
NoPoll == [at |-> "idle", token |-> 0, revision |-> 0, phase |-> "query",
           ident |-> CHOOSE x \in Idents : TRUE, lastId |-> -1, valid |-> FALSE, answer |-> {}]
NoUpload == [at |-> "take", id |-> -1, persisted |-> FALSE]
NoSnapshot == [token |-> 0, ident |-> CHOOSE x \in Idents : TRUE]
NoSession == [Session(0, CHOOSE x \in Idents : TRUE) EXCEPT !.used = FALSE]

Init ==
    /\ sessions = [i \in Slots |-> NoSession]
    /\ current = 0
    /\ running = FALSE
    /\ lastToken = 0
    /\ trigger = 0
    /\ mqttReady = FALSE
    /\ resuming = 0
    /\ snapshot = NoSnapshot
    /\ queue = {}
    /\ hand = {}
    /\ upload = NoUpload
    /\ serial = 0
    /\ poll = NoPoll
    /\ work = NoWork
    /\ db = [x \in Idents |-> {}]
    /\ server = [x \in Idents |-> {}]
    /\ warned = {}
    /\ forgotten = {}
    /\ restarts = 0
    /\ late = 0

-----------------------------------------------------------------------------
(***************************************************************************)
(* The owner of the session.                                               *)
(***************************************************************************)

\* Fault: the backfill is not paused before the round samples.
RunsFromSampling == running

\* s_running is set with the session, before the protocol is fetched.
RunsFromBegin == TRUE

\* aging_gap_session_begin up to the unlock.  With a RecordId and resume = TRUE
\* (power-loss recovery in net_init only) the history of the identity is read next,
\* while mqtt_rx may already close the session and begin another.
SessionBegin(x, resume) ==
    /\ current = 0
    /\ lastToken < MaxToken
    /\ resume => restarts > 0 /\ resuming = 0
    /\ \E i \in Slots :
          /\ Free(i)
          /\ \A j \in Slots : Free(j) => i <= j
          /\ sessions' = [sessions EXCEPT ![i] = Session(lastToken + 1, x)]
    /\ lastToken' = lastToken + 1
    /\ current' = lastToken + 1
    /\ running' = RunsFromBegin
    /\ resuming' = IF resume /\ x \notin NoRecord THEN lastToken + 1 ELSE resuming
    /\ late' = 0
    /\ UNCHANGED <<trigger, mqttReady, snapshot, uploadVars, pollVars, storeVars, warned,
                   forgotten, restarts>>

Resumed(s, last) == [s EXCEPT !.lastId = last, !.nextId = last + 1, !.persisted = 1]

\* The rows found: numbering continues after the largest one, and the session
\* counts as persisted so that an empty new round is still verified.
SessionResume ==
    /\ resuming # 0
    /\ resuming' = 0
    /\ \E i \in Live(sessions, resuming) :
          LET x == sessions[i].ident IN
          IF db[x] # {} /\ ~sessions[i].closed /\ current = resuming
          THEN \E last \in db[x] :
                  /\ \A n \in db[x] : n <= last
                  /\ sessions' = [sessions EXCEPT ![i] = Resumed(@, last)]
                  /\ forgotten' = forgotten \ {x}
          ELSE UNCHANGED <<sessions, forgotten>>
    /\ UNCHANGED <<current, running, lastToken, trigger, mqttReady, snapshot,
                   uploadVars, pollVars, storeVars, warned, restarts, late>>

\* The session was dropped under the reader (closed from another task).
SessionResumeLost ==
    /\ resuming # 0
    /\ Live(sessions, resuming) = {}
    /\ resuming' = 0
    /\ UNCHANGED <<sessions, current, running, lastToken, trigger, mqttReady, snapshot,
                   uploadVars, pollVars, storeVars, ghostVars>>

\* aging_gap_session_close; it is idempotent.
CloseCurrent ==
    /\ current' = 0
    /\ IF Live(sessions, current) = {}
       THEN UNCHANGED <<sessions, warned>>
       ELSE \E i \in Live(sessions, current) :
               FinalizeSlot([sessions EXCEPT ![i] = [@ EXCEPT !.closed = TRUE]], i)

SessionClose ==
    /\ current # 0
    /\ CloseCurrent
    /\ UNCHANGED <<running, lastToken, trigger, mqttReady, resuming, snapshot,
                   uploadVars, pollVars, storeVars, forgotten, restarts, late>>

\* Reading the history failed (-2): the session is closed and the gap idles.
SessionResumeError ==
    /\ resuming # 0
    /\ trigger < MaxTrigger
    /\ resuming' = 0
    /\ CloseCurrent
    /\ running' = FALSE
    /\ trigger' = IF running THEN trigger + 1 ELSE trigger
    /\ UNCHANGED <<lastToken, mqttReady, snapshot, uploadVars, pollVars, storeVars,
                   forgotten, restarts, late>>

\* aging_gap_idle, called once the resources of the finished round are released.
Idle ==
    /\ running
    /\ current = 0
    /\ trigger < MaxTrigger
    /\ running' = FALSE
    /\ trigger' = trigger + 1
    /\ UNCHANGED <<sessions, current, lastToken, mqttReady, resuming, snapshot,
                   uploadVars, pollVars, storeVars, ghostVars>>

-----------------------------------------------------------------------------
(***************************************************************************)
(* The sampler and the uploader.                                           *)
(***************************************************************************)

\* aging_gap_sample_snapshot; the sampling task of a round is created after its session
\* has begun, the reading of its history included.
SampleStart ==
    /\ snapshot = NoSnapshot
    /\ current # resuming
    /\ \E i \in Live(sessions, current) :
          /\ ~sessions[i].closed
          /\ snapshot' = [token |-> current, ident |-> sessions[i].ident]
    /\ UNCHANGED <<sessions, ownerVars, trigger, mqttReady, uploadVars, pollVars,
                   storeVars, ghostVars>>

\* Fault: a closed session still accepts packets.
AcceptsWhenClosed(i) == Cardinality(queue) < QueueLen

\* aging_gap_sample_submit: the session is checked, the packet queued and counted
\* in one critical section; otherwise the packet is freed by the sampler.
Accepts(i) ==
    /\ ~sessions[i].closed
    /\ Cardinality(queue) < QueueLen

Admitted(s) == [s EXCEPT !.accepted = @ + 1]

SampleSubmit ==
    /\ snapshot # NoSnapshot
    /\ serial < MaxSample
    /\ snapshot' = NoSnapshot
    /\ \E i \in Live(sessions, snapshot.token) :
          /\ Accepts(i)
          /\ queue' = queue \cup {[n |-> serial + 1, token |-> snapshot.token,
                                  ident |-> snapshot.ident]}
          /\ serial' = serial + 1
          /\ sessions' = [sessions EXCEPT ![i] = Admitted(@)]
    /\ UNCHANGED <<ownerVars, trigger, mqttReady, hand, upload, pollVars, storeVars, ghostVars>>

\* The sample yields no packet, or the packet is refused.
SampleDrop ==
    /\ snapshot # NoSnapshot
    /\ snapshot' = NoSnapshot
    /\ UNCHANGED <<sessions, ownerVars, trigger, mqttReady, uploadVars, pollVars,
                   storeVars, ghostVars>>

\* xQueueReceive takes the oldest packet.
UploadTake ==
    /\ upload.at = "take"
    /\ \E p \in queue :
          /\ \A q \in queue : p.n <= q.n
          /\ queue' = queue \ {p}
          /\ hand' = {p}
    /\ upload' = [NoUpload EXCEPT !.at = "number"]
    /\ UNCHANGED <<sessions, ownerVars, trigger, mqttReady, snapshot, serial,
                   pollVars, storeVars, ghostVars>>

Numbered(s) == [s EXCEPT !.nextId = @ + 1, !.lastId = s.nextId]

\* aging_gap_sample_next_id; a packet without a session gets no number.
UploadNumber ==
    /\ upload.at = "number"
    /\ \E p \in hand :
          LET live == {i \in Live(sessions, p.token) :
                          sessions[i].processed < sessions[i].accepted}
          IN IF live = {}
             THEN /\ upload' = [upload EXCEPT !.at = "done"]
                  /\ UNCHANGED sessions
             ELSE \E i \in live :
                     /\ upload' = [upload EXCEPT !.at = "store", !.id = sessions[i].nextId]
                     /\ sessions' = [sessions EXCEPT ![i] = Numbered(@)]
    /\ UNCHANGED <<ownerVars, trigger, mqttReady, snapshot, queue, hand, serial,
                   pollVars, storeVars, ghostVars>>

\* app_DataUpload_Functiong: the row is written under the identity the packet
\* carries (stored) whatever the network does, then the report is published;
\* sent says that it reached the server.
UploadStore(stored, sent) ==
    /\ upload.at = "store"
    /\ \E p \in hand :
          /\ db' = IF stored THEN [db EXCEPT ![p.ident] = @ \cup {upload.id}] ELSE db
          /\ server' = IF sent THEN [server EXCEPT ![p.ident] = @ \cup {upload.id}]
                       ELSE server
    /\ sent => mqttReady
    /\ upload' = [upload EXCEPT !.at = "done", !.persisted = stored]
    /\ UNCHANGED <<sessions, ownerVars, trigger, mqttReady, snapshot, queue, hand, serial,
                   pollVars, ghostVars>>

\* aging_gap_sample_done settles the packet whether or not it was persisted.
Counted(s, persisted) ==
    [s EXCEPT !.processed = @ + 1, !.persisted = IF persisted THEN @ + 1 ELSE @]

UploadDone ==
    /\ upload.at = "done"
    /\ \E p \in hand :
          LET live == {i \in Live(sessions, p.token) :
                          sessions[i].processed < sessions[i].accepted}
          IN IF live = {}
             THEN UNCHANGED <<sessions, warned>>
             ELSE \E i \in live :
                     FinalizeSlot([sessions EXCEPT ![i] = Counted(@, upload.persisted)], i)
    /\ hand' = {}
    /\ upload' = NoUpload
    /\ UNCHANGED <<ownerVars, trigger, mqttReady, snapshot, queue, serial, pollVars,
                   storeVars, forgotten, restarts, late>>

-----------------------------------------------------------------------------
(***************************************************************************)
(* http_auto: one call of aging_gap_poll at a time.                        *)
(***************************************************************************)

\* A new trigger, or an intent not polled yet, starts three fresh rounds.
Refreshed(s) ==
    IF s.used /\ s.intent /\ (s.round = 0 \/ s.trigger # trigger)
    THEN [s EXCEPT !.trigger = trigger, !.round = 1, !.phase = "query", !.due = FALSE]
    ELSE s

\* Fault: a failed round is not counted.
RetryUncounted(s) == [s EXCEPT !.phase = "query", !.due = FALSE]

Retry(s) == [s EXCEPT !.round = @ + 1, !.phase = "query", !.due = FALSE]

RefreshedTable == [i \in Slots |-> Refreshed(sessions[i])]

Eligible(ss) == {i \in Intents(ss) : ss[i].round <= RoundsMax}

\* The first critical section: the oldest eligible intent, if its time has come.
PollSelect ==
    /\ poll.at = "idle"
    /\ mqttReady
    /\ ~running
    /\ sessions' = RefreshedTable
    /\ \E i \in Eligible(RefreshedTable) :
          LET s == RefreshedTable[i] IN
          /\ \A j \in Eligible(RefreshedTable) : s.token <= RefreshedTable[j].token
          /\ IF s.due
             THEN /\ poll' = [NoPoll EXCEPT !.at = "chosen", !.token = s.token,
                                            !.revision = s.revision, !.phase = s.phase,
                                            !.ident = s.ident, !.lastId = s.lastId]
                  /\ work' = IF work.token # s.token \/ work.revision # s.revision
                                \/ s.phase = "query"
                             THEN [NoWork EXCEPT !.token = s.token, !.revision = s.revision]
                             ELSE work
             ELSE UNCHANGED pollVars
    /\ UNCHANGED <<ownerVars, trigger, mqttReady, snapshot, uploadVars, storeVars, ghostVars>>

\* Fault: a merge during the request goes unnoticed.
HeldIgnoringRevision == Live(sessions, poll.token)

\* The slot the snapshot was taken from, unless it was reused or merged since.
Held == {i \in Live(sessions, poll.token) : sessions[i].revision = poll.revision}

Amended(s) == [i \in Slots |-> IF i \in Held THEN s[i] ELSE sessions[i]]

\* gap_can_run
CanRun ==
    /\ mqttReady
    /\ ~running
    /\ \E i \in Held : sessions[i].intent /\ sessions[i].trigger = trigger

\* gap_retry for the slot of the snapshot; the exhausted intent is kept.
PollGiveUp ==
    /\ sessions' = Amended([i \in Slots |-> Retry(sessions[i])])
    /\ poll' = NoPoll

\* The response or record buffer could not be allocated.
PollNoMemory ==
    /\ poll.at = "chosen"
    /\ PollGiveUp
    /\ UNCHANGED <<ownerVars, trigger, mqttReady, snapshot, uploadVars, work, storeVars, ghostVars>>

\* The checks of gap_can_run (384, 463) and what they allow (387, 464) are steps of their
\* own: a round may begin in between.
PollGo ==
    /\ poll.at = "chosen"
    /\ poll' = IF ~CanRun THEN NoPoll
               ELSE [poll EXCEPT !.at = IF poll.phase = "send" THEN "sending" ELSE "ask"]
    /\ UNCHANGED <<sessions, ownerVars, trigger, mqttReady, snapshot, uploadVars, work,
                   storeVars, ghostVars>>

\* What goes out from the begin of a session until the node idles is late.
Late == IF running \/ current # 0 THEN late + 1 ELSE late

\* test_http_post_record_query: the request goes out, and is answered or fails.
PollQuery(valid) ==
    /\ poll.at = "ask"
    /\ poll' = [poll EXCEPT !.at = "asked", !.valid = valid,
                   !.answer = IF valid THEN (0 .. poll.lastId) \ server[poll.ident] ELSE {}]
    /\ late' = Late
    /\ UNCHANGED <<sessions, ownerVars, trigger, mqttReady, snapshot, uploadVars, work,
                   storeVars, warned, forgotten, restarts>>

\* An answer that arrives after a new round, a reconnection or a merge is not applied.
PollAnswer ==
    /\ poll.at = "asked"
    /\ poll' = IF CanRun THEN [poll EXCEPT !.at = "answered"] ELSE NoPoll
    /\ UNCHANGED <<sessions, ownerVars, trigger, mqttReady, snapshot, uploadVars, work,
                   storeVars, ghostVars>>

Stale == Held = {} \/ running

PollDiscard ==
    /\ poll.at = "answered"
    /\ Stale
    /\ poll' = NoPoll
    /\ UNCHANGED <<sessions, ownerVars, trigger, mqttReady, snapshot, uploadVars, work,
                   storeVars, ghostVars>>

\* Only an explicit empty list ends the intent.
PollComplete ==
    /\ poll.at = "answered"
    /\ ~Stale
    /\ poll.valid
    /\ poll.answer = {}
    /\ sessions' = Amended([i \in Slots |-> Freed(sessions[i])])
    /\ work' = [work EXCEPT !.ids = {}, !.missing = 0]
    /\ poll' = NoPoll
    /\ UNCHANGED <<ownerVars, trigger, mqttReady, snapshot, uploadVars, storeVars, ghostVars>>

\* Missing numbers: after a first query they are sent at once, after a verification
\* they open the next round, unless the rounds are used up.
NextRound(s) ==
    LET tried == IF poll.phase = "verify" THEN Retry(s) ELSE s IN
    IF tried.round > RoundsMax THEN tried
    ELSE [tried EXCEPT !.phase = "send", !.due = IF poll.phase = "query" THEN TRUE ELSE @]

PollMissing ==
    /\ poll.at = "answered"
    /\ ~Stale
    /\ poll.valid
    /\ poll.answer # {}
    /\ sessions' = Amended([i \in Slots |-> NextRound(sessions[i])])
    /\ work' = IF \A i \in Held : NextRound(sessions[i]).round <= RoundsMax
               THEN [work EXCEPT !.ids = poll.answer, !.missing = 0]
               ELSE work
    /\ poll' = NoPoll
    /\ UNCHANGED <<ownerVars, trigger, mqttReady, snapshot, uploadVars, storeVars, ghostVars>>

PollInvalid ==
    /\ poll.at = "answered"
    /\ ~Stale
    /\ ~poll.valid
    /\ PollGiveUp
    /\ UNCHANGED <<ownerVars, trigger, mqttReady, snapshot, uploadVars, work, storeVars, ghostVars>>

Verifying(s) == [s EXCEPT !.phase = "verify", !.due = FALSE]

\* Every listed number was handled: wait for the server, then verify.
PollSent ==
    /\ poll.at = "sending"
    /\ work.ids = {}
    /\ sessions' = Amended([i \in Slots |-> Verifying(sessions[i])])
    /\ work' = [work EXCEPT !.missing = 0]
    /\ poll' = NoPoll
    /\ UNCHANGED <<ownerVars, trigger, mqttReady, snapshot, uploadVars, storeVars, ghostVars>>

NextId(n) == n \in work.ids /\ \A m \in work.ids : n <= m

\* QueryStructuredRecordBySession: a database error is retried, a row that is not
\* there is counted as missing and skipped, a row found is published.
PollReadError ==
    /\ poll.at = "sending"
    /\ work.ids # {}
    /\ PollGiveUp
    /\ UNCHANGED <<ownerVars, trigger, mqttReady, snapshot, uploadVars, work, storeVars, ghostVars>>

PollRead ==
    /\ poll.at = "sending"
    /\ \E n \in Ids :
          /\ NextId(n)
          /\ IF n \in db[poll.ident]
             THEN /\ poll' = [poll EXCEPT !.at = "publish"]
                  /\ UNCHANGED work
             ELSE /\ poll' = NoPoll
                  /\ work' = [work EXCEPT !.ids = @ \ {n}, !.missing = @ + 1]
    /\ UNCHANGED <<sessions, ownerVars, trigger, mqttReady, snapshot, uploadVars,
                   storeVars, ghostVars>>

PollCheck ==
    /\ poll.at = "publish"
    /\ poll' = IF CanRun THEN [poll EXCEPT !.at = "publishing"] ELSE NoPoll
    /\ UNCHANGED <<sessions, ownerVars, trigger, mqttReady, snapshot, uploadVars, work,
                   storeVars, ghostVars>>

\* app_mqtt_publish of the row: accepted says that it returned a message id, arrived
\* that the report reached the server.
PollPublish(accepted, arrived) ==
    /\ poll.at = "publishing"
    /\ accepted => mqttReady
    /\ arrived => accepted
    /\ poll' = [poll EXCEPT !.at = "published", !.valid = accepted]
    /\ \E n \in Ids :
          /\ NextId(n)
          /\ server' = IF arrived THEN [server EXCEPT ![poll.ident] = @ \cup {n}] ELSE server
    /\ late' = Late
    /\ UNCHANGED <<sessions, ownerVars, trigger, mqttReady, snapshot, uploadVars, work, db,
                   warned, forgotten, restarts>>

PollSettle ==
    /\ poll.at = "published"
    /\ IF poll.valid
       THEN /\ sessions' = Amended([i \in Slots |-> [sessions[i] EXCEPT !.due = FALSE]])
            /\ work' = IF Held = {} THEN work
                       ELSE [work EXCEPT !.ids = {n \in @ : ~NextId(n)}]
       ELSE /\ sessions' = Amended([i \in Slots |-> Retry(sessions[i])])
            /\ UNCHANGED work
    /\ poll' = NoPoll
    /\ UNCHANGED <<ownerVars, trigger, mqttReady, snapshot, uploadVars, storeVars, ghostVars>>

-----------------------------------------------------------------------------
(***************************************************************************)
(* The environment.                                                        *)
(***************************************************************************)

\* A deadline passes.
Elapse ==
    /\ \E i \in Slots :
          /\ sessions[i].used
          /\ ~sessions[i].due
          /\ sessions' = [sessions EXCEPT ![i] = [@ EXCEPT !.due = TRUE]]
    /\ UNCHANGED <<ownerVars, trigger, mqttReady, snapshot, uploadVars, pollVars,
                   storeVars, ghostVars>>

\* aging_gap_mqtt_ready from the MQTT callbacks: only the rising edge triggers.
MqttReady ==
    /\ ~mqttReady
    /\ trigger < MaxTrigger
    /\ mqttReady' = TRUE
    /\ trigger' = trigger + 1
    /\ UNCHANGED <<sessions, ownerVars, snapshot, uploadVars, pollVars, storeVars, ghostVars>>

MqttLost ==
    /\ mqttReady
    /\ mqttReady' = FALSE
    /\ UNCHANGED <<sessions, ownerVars, trigger, snapshot, uploadVars, pollVars,
                   storeVars, ghostVars>>

\* The insertion of other rows evicts one of a full cache: the pushed rows first, the
\* older ones first among them; which rows are pushed is not modelled.
Evict(x) ==
    /\ \E n \in db[x] : db' = [db EXCEPT ![x] = @ \ {n}]
    /\ UNCHANGED <<sessions, ownerVars, trigger, mqttReady, snapshot, uploadVars, pollVars,
                   server, ghostVars>>

\* Power loss or esp_restart: everything but the database and the server is lost.
Restart ==
    /\ restarts < MaxRestart
    /\ restarts' = restarts + 1
    /\ forgotten' = forgotten \cup {x \in Idents : db[x] \ server[x] # {}}
    /\ sessions' = [i \in Slots |-> NoSession]
    /\ current' = 0
    /\ running' = FALSE
    /\ lastToken' = 0
    /\ trigger' = 0
    /\ mqttReady' = FALSE
    /\ resuming' = 0
    /\ snapshot' = NoSnapshot
    /\ queue' = {}
    /\ hand' = {}
    /\ upload' = NoUpload
    /\ poll' = NoPoll
    /\ work' = NoWork
    /\ late' = 0
    /\ UNCHANGED <<serial, db, server, warned>>

-----------------------------------------------------------------------------
Owner ==
    \/ \E x \in Idents, resume \in BOOLEAN : SessionBegin(x, resume)
    \/ SessionResume
    \/ SessionResumeLost
    \/ SessionResumeError
    \/ SessionClose
    \/ Idle

Sampler == SampleStart \/ SampleSubmit \/ SampleDrop

Uploader ==
    \/ UploadTake
    \/ UploadNumber
    \/ \E stored, sent \in BOOLEAN : UploadStore(stored, sent)
    \/ UploadDone

Poller ==
    \/ PollSelect
    \/ PollNoMemory
    \/ PollGo
    \/ \E valid \in BOOLEAN : PollQuery(valid)
    \/ PollAnswer
    \/ PollDiscard
    \/ PollComplete
    \/ PollMissing
    \/ PollInvalid
    \/ PollSent
    \/ PollReadError
    \/ PollRead
    \/ PollCheck
    \/ \E accepted, arrived \in BOOLEAN : PollPublish(accepted, arrived)
    \/ PollSettle

Environment ==
    \/ Elapse
    \/ MqttReady
    \/ MqttLost
    \/ \E x \in Idents : Evict(x)
    \/ Restart

Next == Owner \/ Sampler \/ Uploader \/ Poller \/ Environment

(***************************************************************************)
(* The uploader blocks on its queue only and http_auto calls the poll      *)
(* every 100 ms; every HTTP request and wait in the file is bounded.       *)
(***************************************************************************)
Fairness == WF_vars(Uploader) /\ WF_vars(Poller) /\ WF_vars(Elapse)

Spec == Init /\ [][Next]_vars
FairSpec == Spec /\ Fairness

-----------------------------------------------------------------------------
(***************************************************************************)
(* Properties.                                                             *)
(***************************************************************************)
SessionType ==
    [used: BOOLEAN, closed: BOOLEAN, intent: BOOLEAN, token: Nat,
     accepted: Nat, processed: Nat, persisted: Nat, revision: Nat, trigger: Nat,
     ident: Idents, nextId: Nat, lastId: Nat \cup {-1}, round: Nat,
     phase: Phases, due: BOOLEAN]

PollPlaces == {"idle", "chosen", "ask", "asked", "answered", "sending", "publish",
               "publishing", "published"}

\* Every variable keeps the type its C declaration gives it.
TypeOK ==
    /\ sessions \in [Slots -> SessionType]
    /\ current \in Nat
    /\ running \in BOOLEAN
    /\ lastToken \in Nat
    /\ trigger \in Nat
    /\ mqttReady \in BOOLEAN
    /\ resuming \in Nat
    /\ snapshot \in [token: Nat, ident: Idents]
    /\ queue \subseteq [n: Nat, token: Nat, ident: Idents]
    /\ hand \subseteq [n: Nat, token: Nat, ident: Idents]
    /\ upload \in [at: {"take", "number", "store", "done"}, id: Nat \cup {-1},
                   persisted: BOOLEAN]
    /\ serial \in Nat
    /\ poll \in [at: PollPlaces, token: Nat, revision: Nat, phase: Phases, ident: Idents,
                 lastId: Nat \cup {-1}, valid: BOOLEAN, answer: SUBSET Nat]
    /\ work \in [token: Nat, revision: Nat, ids: SUBSET Nat, missing: Nat]
    /\ db \in [Idents -> SUBSET Nat]
    /\ server \in [Idents -> SUBSET Nat]
    /\ warned \subseteq Idents
    /\ forgotten \subseteq Idents
    /\ restarts \in Nat
    /\ late \in Nat

Outstanding(token) == {p \in queue \cup hand : p.token = token}

\* A late packet of an old round never enters the next one, and its session is not
\* frozen before it was settled: each packet between the sampler and the end of its
\* upload belongs to one live session that is not an intent yet, and the session's two
\* counters differ by exactly the number of such packets.
PacketsAccounted ==
    /\ \A p \in queue \cup hand :
          \E i \in Live(sessions, p.token) :
              ~sessions[i].intent /\ sessions[i].ident = p.ident
    /\ \A i \in Slots : sessions[i].used /\ ~sessions[i].intent =>
          sessions[i].accepted - sessions[i].processed
            = Cardinality(Outstanding(sessions[i].token))

\* The size of the table (16 intents, 3 queued packets, 1 in hand, current and spare)
\* is enough: whenever no session is open, a new round finds a free slot, however many
\* old sessions are still draining or waiting for the network.
SlotAvailable == current = 0 => \E i \in Slots : Free(i)

\* At most one intent waits per (PN, RecordId), and at most GAP_PENDING_MAX in all.
OneIntentPerIdentity ==
    /\ \A i, j \in Intents(sessions) : sessions[i].ident = sessions[j].ident => i = j
    /\ Cardinality(Intents(sessions)) <= PendingMax

\* No persisted sample is silently abandoned: while the server lacks a number whose row
\* is in SQLite, a session or an intent whose range includes the number exists, unless
\* the identity was reported unrecoverable or its intent died in a restart and the round
\* was not resumed.
EvidenceRetained ==
    \A x \in Idents \ (NoRecord \cup warned \cup forgotten) :
        \A n \in db[x] \ server[x] :
            \E i \in Slots : /\ sessions[i].used
                             /\ sessions[i].ident = x
                             /\ n <= sessions[i].lastId

\* An intent ends only when the server holds every number of its range, also of the part
\* merged into it while a query was under way (merging and restarting aside, nothing else
\* removes it).
EndsOnlyWhenComplete ==
    [][ restarts' = restarts =>
          \A i \in Intents(sessions) : i \notin Intents(sessions') =>
              (0 .. sessions[i].lastId) \subseteq server[sessions[i].ident] ]_vars

\* A round pauses the backfill from its session's begin until the node idles, the protocol's
\* fetch and the clean-up included: one query or record at most still goes out, for which
\* http_auto had passed gap_can_run before the round began.  Nothing holds the round back
\* between that check and the call (384 and 387, 463 and 464).
OneLateMessage == late <= 1

\* The backfill of a quiet node comes to rest: once MQTT stays ready and no round starts,
\* every intent is completed or has used up its rounds; nothing polls for ever.
BackfillSettles ==
    <>[](mqttReady /\ ~running) =>
        <>[](\A i \in Intents(sessions) : sessions[i].round > RoundsMax)
=============================================================================
