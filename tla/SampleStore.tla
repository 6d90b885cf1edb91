---------------------------- MODULE SampleStore -----------------------------
(***************************************************************************)
(* The cache of samples in SQLite (SqLite.c): how it is mounted, opened,   *)
(* migrated and built anew at a start, how a row is stored and which one   *)
(* gives way, and the push state of a row, which the uploader and the task *)
(* mqtt_rx set and the table of tracked publications settles (appTask.c).  *)
(*                                                                         *)
(* A row is a sample of a round (a record id; 0 stands for the empty one   *)
(* of rows older than schema 7) with its number.  mqtt_rx runs at a higher *)
(* priority on the core of the uploader: its steps are whole, while it may *)
(* come between any two assignments of the uploader.  A message id is not  *)
(* used again.                                                             *)
(***************************************************************************)
EXTENDS Budget, Sequences, SequencesExt

CONSTANTS
    MaxRecords,     \* MAX_RECORDS_COUNT
    TrackCapacity,  \* MQTT_PUBLISH_TRACK_CAPACITY
    SettleLen,      \* MQTT_PUSH_SETTLE_QUEUE_LEN
    MountTries      \* SQLITE_MOUNT_RETRY_COUNT

ASSUME StoreAssumption ==
    /\ MaxRecords \in Nat \ {0} /\ TrackCapacity \in Nat \ {0, 1}
    /\ SettleLen \in Nat \ {0} /\ MountTries \in Nat \ {0}

VARIABLES
    disk,        \* the FATFS partition and the database file on it
    rows,        \* the table data_cache, in the order of local_id
    resetFlag,   \* NVS_KEY_SQLITE_RESET
    init,        \* where SqLite_Init is
    tracking,    \* whether there is a track table and a settle queue
    track,       \* s_mqtt_publish_track
    trackCount, trackNext,
    settle,      \* s_publish_settle_queue
    outbox,      \* the publications that the SDK has and the broker has not confirmed
    lastId,      \* the message id given last
    confirmed,   \* the samples that the broker has confirmed a publication of
    round,       \* the round that is sampled, and its next number
    upload       \* the uploader

table == <<track, trackCount, trackNext>>
storage == <<disk, rows, resetFlag, init>>
publishing == <<outbox, lastId, confirmed>>
sampling == <<round, upload>>
storeVars == <<budget, storage, tracking, table, settle, publishing, sampling>>

Disks == [fs : {"blank", "good", "bad"}, schema : {"none", "v7", "v6", "legacy", "alien"},
          sound : BOOLEAN]

\* The packs of the rounds: the second round of a pack, and another pack.
PackOf(record) == IF record = 3 THEN "B" ELSE "A"

NoEntry == [id |-> 0, valid |-> FALSE, pn |-> "", record |-> 0, num |-> 0]
NoUpload == [at |-> "idle", num |-> 0, id |-> 0, stored |-> FALSE, slot |-> 0, full |-> FALSE,
             met |-> FALSE]
StartInit == [at |-> "mount", tries |-> 0, reset |-> FALSE, told |-> "none"]

StoreInit ==
    /\ resetFlag = "none" /\ init = StartInit
    /\ tracking = "none" /\ track = [i \in 1 .. TrackCapacity |-> NoEntry]
    /\ trackCount = 0 /\ trackNext = 1
    /\ settle = <<>> /\ outbox = {} /\ lastId = 0 /\ confirmed = {}
    /\ round = [record |-> 1, next |-> 0] /\ upload = NoUpload

-----------------------------------------------------------------------------
(* SqLite_Init.                                                            *)

\* fatfs_partition_is_fully_erased: looked at before the first mount.
Blank == disk.fs = "blank"

\* mount_fatfs_storage: a mount that fails formats a blank partition only.
Mount(ok) ==
    /\ init.at = "mount"
    /\ IF disk.fs = "bad" THEN ok /\ UNCHANGED budget ELSE Costs(ok)
    /\ IF ok /\ disk.fs # "bad"
         THEN /\ init' = [init EXCEPT !.at = "open"]
              /\ disk' = IF Blank THEN [disk EXCEPT !.fs = "good"] ELSE disk
         ELSE /\ init' = IF init.tries + 1 < MountTries THEN [init EXCEPT !.tries = @ + 1]
                         ELSE [init EXCEPT !.at = "format"]
              /\ UNCHANGED disk
    /\ UNCHANGED <<rows, resetFlag, tracking, table, settle, publishing, sampling>>

\* mount_fatfs_storage_reset: a partition that mounts after all is not formatted.
Format(ok) ==
    /\ init.at = "format"
    /\ Costs(ok)
    /\ init' = [init EXCEPT !.at = IF ok THEN "open" ELSE "tell", !.reset = TRUE,
                            !.told = IF ok THEN @ ELSE "mount_fail"]
    /\ IF ok /\ disk.fs # "good"
         THEN disk' = [fs |-> "good", schema |-> "none", sound |-> TRUE] /\ rows' = <<>>
         ELSE UNCHANGED <<disk, rows>>
    /\ UNCHANGED <<resetFlag, tracking, table, settle, publishing, sampling>>

\* create_schema_v7, and the indices of a table that has it already.
CreateSchema == disk' = [disk EXCEPT !.schema = "v7"] /\ UNCHANGED rows

\* migrate_v6_to_v7 and migrate_legacy_schema_to_v7: one transaction, after which the
\* rows have no record id; their push state stays.
Migrate ==
    /\ disk' = [disk EXCEPT !.schema = "v7"]
    /\ rows' = [i \in 1 .. Len(rows) |-> [rows[i] EXCEPT !.record = 0]]

\* ensure_schema_v7: the columns decide, not user_version.
Readable == disk.schema \in {"none", "v7", "v6", "legacy"}
EnsureSchema ==
    \/ disk.schema \in {"none", "v7"} /\ CreateSchema
    \/ disk.schema \in {"v6", "legacy"} /\ Migrate

\* init_database_locked: sqlite_quick_check, then the schema; a failure rolls back.
Opens(ok) ==
    IF ok THEN disk.sound /\ Readable /\ EnsureSchema ELSE UNCHANGED <<disk, rows>>

\* A database that is damaged fails for nothing.
OpenCosts(ok) == IF disk.sound /\ Readable THEN Costs(ok) ELSE ~ok /\ UNCHANGED budget

Open(ok) ==
    /\ init.at = "open"
    /\ OpenCosts(ok)
    /\ Opens(ok)
    /\ init' = [init EXCEPT !.at = IF ok THEN "ready" ELSE IF init.reset THEN "disabled" ELSE "rebuild"]
    /\ UNCHANGED <<resetFlag, tracking, table, settle, publishing, sampling>>

\* The damaged file is set aside, and its journal deleted.
Rebuild ==
    /\ init.at = "rebuild"
    /\ disk' = [disk EXCEPT !.schema = "none", !.sound = TRUE]
    /\ rows' = <<>>
    /\ init' = [init EXCEPT !.at = "reopen", !.reset = TRUE]
    /\ UNCHANGED <<budget, resetFlag, tracking, table, settle, publishing, sampling>>

Reopen(ok) ==
    /\ init.at = "reopen"
    /\ OpenCosts(ok)
    /\ Opens(ok)
    /\ init' = [init EXCEPT !.at = "tell", !.told = IF ok THEN "db_rebuilt" ELSE "rebuild_fail"]
    /\ UNCHANGED <<resetFlag, tracking, table, settle, publishing, sampling>>

\* sqlite_write_reset_flag.
WriteFlag(ok) ==
    /\ init.at = "tell"
    /\ Costs(ok)
    /\ resetFlag' = IF ok THEN init.told ELSE resetFlag
    /\ init' = [init EXCEPT !.at = IF init.told = "db_rebuilt" THEN "ready" ELSE "disabled"]
    /\ UNCHANGED <<disk, rows, tracking, table, settle, publishing, sampling>>

\* Init_ByNetwork_Flag reports what happened, and forgets it when the event was taken.
ReportReset(ok) ==
    /\ init.at \in {"ready", "disabled"} /\ resetFlag # "none"
    /\ Costs(ok)
    /\ resetFlag' = IF ok THEN "none" ELSE resetFlag
    /\ UNCHANGED <<disk, rows, init, tracking, table, settle, publishing, sampling>>

-----------------------------------------------------------------------------
(* The rows.                                                               *)

\* sqlite_ready_locked.
Ready == init.at = "ready"

Rank == [pending |-> 0, inflight |-> 1, acked |-> 2]

\* get_existing_local_id_locked.
SameSample(i, record, num) == rows[i].record = record /\ rows[i].num = num

\* get_overwrite_local_id_locked: what was confirmed goes first, then the oldest.
GivesWay ==
    CHOOSE i \in 1 .. Len(rows) : \A j \in 1 .. Len(rows) \ {i} :
        \/ Rank[rows[i].push] > Rank[rows[j].push]
        \/ Rank[rows[i].push] = Rank[rows[j].push] /\ i < j

\* InsertStructuredRecord: one transaction.
Insert(record, num) ==
    LET new == [record |-> record, num |-> num, push |-> "pending"] IN
    IF \E i \in 1 .. Len(rows) : SameSample(i, record, num)
      THEN rows' = [i \in 1 .. Len(rows) |-> IF SameSample(i, record, num) THEN new ELSE rows[i]]
      ELSE \E low \in {FALSE, budget["space"] > 0} :
             rows' = Append(IF Len(rows) > 0 /\ (Len(rows) >= MaxRecords \/ low)
                              THEN RemoveAt(rows, GivesWay) ELSE rows, new)

\* UpdateRecordPushStateByPNAndID: an empty record id stands for every record id.
Matches(row, pn, record, num) ==
    PackOf(row.record) = pn /\ row.num = num /\ (record = 0 \/ row.record = record)
Marked(pn, record, num, push) ==
    [i \in 1 .. Len(rows) |->
        IF Matches(rows[i], pn, record, num) THEN [rows[i] EXCEPT !.push = push] ELSE rows[i]]

-----------------------------------------------------------------------------
(* Tracked publications.                                                   *)

\* mqtt_publish_track_ensure: the queue first; the table is asked for once.
EnsureTracking ==
    \/ tracking # "none" /\ UNCHANGED tracking
    \/ tracking = "none" /\ tracking' = "ready"
    \/ tracking = "none" /\ budget["memory"] > 0 /\ tracking' = "queue"

\* Where the next entry goes.
FreeSlot == IF trackCount < TrackCapacity THEN trackCount + 1 ELSE trackNext
TakeSlot(slot, full) ==
    IF full THEN trackNext' = (slot % TrackCapacity) + 1 /\ UNCHANGED trackCount
    ELSE trackCount' = slot /\ UNCHANGED trackNext

\* app_mqtt_publish returns a message id.
Publishes(record, num) ==
    /\ lastId' = lastId + 1
    /\ outbox' = outbox \cup {[id |-> lastId + 1, record |-> record, num |-> num]}
    /\ UNCHANGED confirmed

\* app_mqtt_publish_settled: the SDK's task leaves the outcome in the queue.
Settle(p, acked) ==
    /\ outbox' = outbox \ {p}
    /\ confirmed' = IF acked THEN confirmed \cup {<<p.record, p.num>>} ELSE confirmed
    /\ IF acked THEN UNCHANGED budget ELSE Spend("deleted")
    /\ settle' = IF tracking # "none" /\ Len(settle) < SettleLen
                   THEN Append(settle, [id |-> p.id, acked |-> acked]) ELSE settle
    /\ UNCHANGED <<storage, tracking, table, lastId, sampling>>

\* mqtt_push_settle_drain: the first valid entry with the id, and its row.
Tracked(id) == {i \in 1 .. trackCount : track[i].valid /\ track[i].id = id}
Drain ==
    /\ settle # <<>> /\ tracking = "ready"
    /\ settle' = Tail(settle)
    /\ LET ids == Tracked(Head(settle).id)
           i == CHOOSE k \in ids : \A j \in ids : k <= j
       IN IF ids = {} THEN UNCHANGED <<rows, track>>
          ELSE /\ track' = [track EXCEPT ![i].valid = FALSE]
               /\ rows' = IF Ready
                            THEN Marked(track[i].pn, track[i].record, track[i].num,
                                        IF Head(settle).acked THEN "acked" ELSE "pending")
                            ELSE rows
    /\ UNCHANGED <<budget, disk, resetFlag, init, tracking, trackCount, trackNext, publishing, sampling>>

\* The uploader has found its place in the table and has not filled it yet.
Filling == upload.at \in {"id", "pn", "record", "num"}

\* get_lost_aging: the row inserted last with a number the server misses, whatever its
\* push state; not a row without a record id.  After each one mqtt_rx rests for 100 ms,
\* in which the uploader fills its entry.
LastWith(num) == CHOOSE i \in 1 .. Len(rows) :
    rows[i].num = num /\ \A j \in i + 1 .. Len(rows) : rows[j].num # num
GetLost(num) ==
    /\ Ready /\ \E i \in 1 .. Len(rows) : rows[i].num = num
    /\ Spend("lost")
    /\ ~upload.met /\ upload' = [upload EXCEPT !.met = Filling]
    /\ LET row == rows[LastWith(num)]
           entry == [id |-> lastId + 1, valid |-> TRUE, pn |-> PackOf(row.record),
                     record |-> row.record, num |-> num]
       IN  /\ row.record # 0
           /\ Publishes(row.record, num)
           /\ rows' = Marked(PackOf(row.record), row.record, num, "inflight")
           /\ EnsureTracking
           /\ IF tracking' = "ready"
                THEN /\ track' = [track EXCEPT ![FreeSlot] = entry]
                     /\ TakeSlot(FreeSlot, trackCount = TrackCapacity)
                ELSE UNCHANGED table
    /\ UNCHANGED <<disk, resetFlag, init, settle, round>>

-----------------------------------------------------------------------------
(* The uploader.                                                           *)

UploadAt(at) == upload.at = at
Step(at) == upload' = [upload EXCEPT !.at = at]

\* A sample gets its number and is stored (app_AgingData_Upload_handle).
Sample(ok) ==
    /\ UploadAt("idle") /\ init.at \in {"ready", "disabled"}
    /\ Spend("sample")
    /\ IF Ready THEN ok \/ budget["fail"] > 0 ELSE ~ok
    /\ round' = [round EXCEPT !.next = @ + 1]
    /\ upload' = [NoUpload EXCEPT !.at = "publish", !.num = round.next, !.stored = ok]
    /\ UNCHANGED <<disk, resetFlag, init, tracking, table, settle, publishing>>
    /\ IF ok THEN Insert(round.record, round.next) ELSE UNCHANGED rows

\* app_DataUpload_Functiong: what was not stored is published and not tracked.
PublishSample(ok) ==
    /\ UploadAt("publish")
    /\ Costs(ok)
    /\ IF ok THEN Publishes(round.record, upload.num) ELSE UNCHANGED publishing
    /\ upload' = [upload EXCEPT !.at = IF ok /\ upload.stored THEN "mark" ELSE "idle", !.id = lastId']
    /\ UNCHANGED <<storage, tracking, table, settle, round>>

MarkInflight ==
    /\ UploadAt("mark")
    /\ rows' = Marked(PackOf(round.record), round.record, upload.num, "inflight")
    /\ Step("slot")
    /\ UNCHANGED <<budget, disk, resetFlag, init, tracking, table, settle, publishing, round>>

\* Fault: the entry that is used again is not cleared.
FillIdOver ==
    /\ UploadAt("id")
    /\ TakeSlot(upload.slot, upload.full)
    /\ track' = [track EXCEPT ![upload.slot].id = upload.id, ![upload.slot].valid = TRUE]
    /\ Step("pn")
    /\ UNCHANGED <<budget, storage, tracking, settle, publishing, round>>

\* mqtt_publish_track, an assignment at a time.
ChooseSlot ==
    /\ UploadAt("slot")
    /\ EnsureTracking
    /\ upload' = [upload EXCEPT !.at = IF tracking' = "ready" THEN "id" ELSE "idle",
                                !.slot = FreeSlot, !.full = trackCount = TrackCapacity]
    /\ UNCHANGED <<budget, storage, table, settle, publishing, round>>

FillId ==
    /\ UploadAt("id")
    /\ TakeSlot(upload.slot, upload.full)
    /\ track' = [track EXCEPT ![upload.slot] = [NoEntry EXCEPT !.id = upload.id, !.valid = TRUE]]
    /\ Step("pn")
    /\ UNCHANGED <<budget, storage, tracking, settle, publishing, round>>

FillName ==
    /\ UploadAt("pn")
    /\ track' = [track EXCEPT ![upload.slot].pn = PackOf(round.record)]
    /\ Step("record")
    /\ UNCHANGED <<budget, storage, tracking, trackCount, trackNext, settle, publishing, round>>

FillRecord ==
    /\ UploadAt("record")
    /\ track' = [track EXCEPT ![upload.slot].record = round.record]
    /\ Step("num")
    /\ UNCHANGED <<budget, storage, tracking, trackCount, trackNext, settle, publishing, round>>

FillNumber ==
    /\ UploadAt("num")
    /\ track' = [track EXCEPT ![upload.slot].num = upload.num]
    /\ upload' = NoUpload
    /\ UNCHANGED <<budget, storage, tracking, trackCount, trackNext, settle, publishing, round>>

-----------------------------------------------------------------------------

\* The next round starts at number 0.
NextRound ==
    /\ UploadAt("idle") /\ round.record < 3
    /\ Spend("round")
    /\ \E r \in round.record + 1 .. 3 : round' = [record |-> r, next |-> 0]
    /\ UNCHANGED <<storage, tracking, table, settle, publishing, upload>>

\* A loss of power, which may damage the file or the file system; the round goes on
\* after its last row.
Outage ==
    /\ Spend("outage")
    /\ \/ UNCHANGED disk
       \/ disk' = [disk EXCEPT !.sound = FALSE] \/ disk' = [disk EXCEPT !.fs = "bad"]
    /\ init' = StartInit
    /\ tracking' = "none" /\ track' = [i \in 1 .. TrackCapacity |-> NoEntry]
    /\ trackCount' = 0 /\ trackNext' = 1
    /\ settle' = <<>> /\ outbox' = {}
    /\ LET mine == {rows[i].num : i \in {k \in 1 .. Len(rows) : rows[k].record = round.record}} IN
       round' = [round EXCEPT !.next = IF mine = {} THEN 0
                                       ELSE 1 + CHOOSE n \in mine : \A m \in mine : m <= n]
    /\ upload' = NoUpload
    /\ UNCHANGED <<rows, resetFlag, lastId, confirmed>>

StoreInitStep ==
    \/ Rebuild
    \/ \E ok \in BOOLEAN :
          Mount(ok) \/ Format(ok) \/ Open(ok) \/ Reopen(ok) \/ WriteFlag(ok) \/ ReportReset(ok)

StoreNext ==
    \/ StoreInitStep
    \/ MarkInflight \/ ChooseSlot \/ FillId \/ FillName \/ FillRecord \/ FillNumber
    \/ \E ok \in BOOLEAN : Sample(ok) \/ PublishSample(ok)
    \/ \E p \in outbox, acked \in BOOLEAN : Settle(p, acked)
    \/ Drain
    \/ \E i \in 1 .. Len(rows) : GetLost(rows[i].num)
    \/ NextRound \/ Outage

-----------------------------------------------------------------------------
(* Properties.                                                             *)

\* A row is marked as acknowledged only when the broker has confirmed a publication
\* of its sample, wherever the confirmation overtakes the table, a restart comes in
\* between, or an entry was written over (mqtt_push_settle_drain).  The exception
\* is number 0: an entry that is half written names it.
AckedConfirmed ==
    \A i \in 1 .. Len(rows) :
        rows[i].push = "acked" /\ rows[i].num # 0 => <<rows[i].record, rows[i].num>> \in confirmed
=============================================================================
