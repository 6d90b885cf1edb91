--------------------------- MODULE Services_proofs ---------------------------
(***************************************************************************)
(* What is proved of one service holds of a node with all of them: a step  *)
(* of another one leaves its state alone.                                  *)
(***************************************************************************)
EXTENDS Services, MeshOta_proofs, BleLink_proofs, WellFoundedInduction, TLAPS

-----------------------------------------------------------------------------
(***************************************************************************)
(* The cache of samples.  Its inductive invariant: a row that is marked as *)
(* acknowledged is one whose publication the broker has confirmed, because *)
(* a message id is that of one sample wherever it is: in the SDK, in the   *)
(* queue of outcomes, in an entry of the table, and in the hands of the    *)
(* uploader, whose entry mqtt_rx does not write over while it is filled.   *)
(***************************************************************************)
\* What the variables hold.
Pushes == {"pending", "inflight", "acked"}
Samples == [record : 0 .. 3, num : Nat, push : Pushes]
Entries == [id : Nat, valid : BOOLEAN, pn : {"", "A", "B"}, record : 0 .. 3, num : Nat]
Publications == [id : Nat, record : 0 .. 3, num : Nat]
Outcomes == [id : Nat, acked : BOOLEAN]
Filled == {"pn", "record", "num"}
Uploads == [at : {"idle", "publish", "mark", "slot", "id"} \cup Filled, num : Nat, id : Nat,
            stored : BOOLEAN, slot : 0 .. TrackCapacity, full : BOOLEAN, met : BOOLEAN]
Inits == [at : {"mount", "format", "open", "rebuild", "reopen", "tell", "ready", "disabled"},
          tries : Nat, reset : BOOLEAN, told : {"none", "mount_fail", "db_rebuilt", "rebuild_fail"}]

\* The database is open under schema 7 only.
OpenInv ==
    /\ disk \in Disks /\ init \in Inits
    /\ init.at = "ready" \/ (init.at = "tell" /\ init.told = "db_rebuilt") => disk.schema = "v7"

\* A row is of the present round or of an earlier one, and its number was given; one that
\* is acknowledged is of schema 7, and the broker has confirmed it.
RowOk(row, now, schema, sure) ==
    /\ row.record <= now.record
    /\ row.record = now.record => row.num < now.next
    /\ row.push = "acked" => /\ schema \notin {"v6", "legacy"}
                             /\ row.num # 0 => <<row.record, row.num>> \in sure
RowsInv ==
    /\ rows \in Seq(Samples) /\ round \in [record : 1 .. 3, next : Nat]
    /\ \A i \in 1 .. Len(rows) : RowOk(rows[i], round, disk.schema, confirmed)

\* A publication with the message id is of the sample, wherever its outcome has got to.
Carries(id, record, num, out, outcomes, sure) ==
    /\ \A p \in out : p.id = id => p.record = record /\ p.num = num
    /\ \A k \in 1 .. Len(outcomes) :
          outcomes[k].id = id /\ outcomes[k].acked => <<record, num>> \in sure

\* What the uploader, mqtt_rx and the SDK hold.
PublishTypes ==
    /\ track \in [1 .. TrackCapacity -> Entries]
    /\ trackCount \in 0 .. TrackCapacity /\ trackNext \in 1 .. TrackCapacity
    /\ settle \in Seq(Outcomes) /\ outbox \subseteq Publications /\ lastId \in Nat
    /\ upload \in Uploads

\* No message id is used twice.
IdsGiven ==
    /\ \A p \in outbox : p.id <= lastId
    /\ \A k \in 1 .. Len(settle) : settle[k].id <= lastId
    /\ \A i \in 1 .. TrackCapacity : track[i].id <= lastId
    /\ upload.id <= lastId

\* An entry that is filled, or written by mqtt_rx, tracks the sample it names.
EntriesCarry ==
    \A i \in 1 .. TrackCapacity : track[i].valid /\ track[i].num # 0 =>
        /\ track[i].record # 0
        /\ Carries(track[i].id, track[i].record, track[i].num, outbox, settle, confirmed)

\* So will that of the uploader.
UploadCarries ==
    upload.at \in {"mark", "slot", "id"} \cup Filled =>
        Carries(upload.id, round.record, upload.num, outbox, settle, confirmed)
\* The entry that the uploader fills has the new message id and no number yet.
HalfFilled ==
    upload.at \in Filled =>
        /\ upload.slot \in 1 .. TrackCapacity
        /\ track[upload.slot].id = upload.id /\ track[upload.slot].num = 0
        /\ upload.at = "num" => track[upload.slot].record = round.record

\* An entry of mqtt_rx is another one than the one that the uploader fills.
SlotsApart ==
    /\ trackCount < TrackCapacity => trackNext = 1
    /\ upload.at = "id" =>
          /\ upload.slot \in 1 .. TrackCapacity
          /\ upload.full => trackCount = TrackCapacity
          /\ ~upload.full => trackCount = upload.slot - 1 \/ trackCount = upload.slot
          /\ ~upload.met => upload.slot = FreeSlot /\ (upload.full <=> trackCount = TrackCapacity)
    /\ upload.at \in Filled /\ ~upload.met => upload.slot # FreeSlot

\* All that is said of the publications.
PublishInv ==
    /\ PublishTypes /\ IdsGiven /\ EntriesCarry /\ UploadCarries /\ HalfFilled /\ SlotsApart

\* The inductive invariant of the store.
StoreInv == OpenInv /\ RowsInv /\ PublishInv
-----------------------------------------------------------------------------
\* Every set of natural numbers that is not empty has a least element.
LEMMA LeastNumber ==
  ASSUME NEW T, T \subseteq Nat, T # {}
  PROVE  \E m \in T : \A n \in T : m <= n
<1> DEFINE less == OpToRel(<, Nat)
<1>1. \A m, n \in Nat : <<n, m>> \in less <=> n < m
  BY DEF OpToRel
<1>2. IsWellFoundedOn(less, Nat)
  BY NatLessThanWellFounded
<1> HIDE DEF less
<1>3. \E m \in T : \A n \in T : ~ (<<n, m>> \in less)
  BY <1>2, WFMin
<1>4. PICK m \in T : \A n \in T : ~ (<<n, m>> \in less)
  BY <1>3
<1>5. \A n \in T : n \in Nat /\ ~ (n < m)
  BY <1>1, <1>4
<1>6. m \in Nat
  OBVIOUS
<1>7. \A n \in T : m <= n
  BY ONLY <1>5, <1>6
<1> QED
  BY <1>7

\* And one that is bounded has a greatest one.
LEMMA GreatestNumber ==
  ASSUME NEW T, T \subseteq Nat, T # {}, NEW bound \in Nat, \A n \in T : n <= bound
  PROVE  \E m \in T : \A n \in T : n <= m
<1> DEFINE gaps == {g \in Nat : bound - g \in T}
<1>1. gaps \in SUBSET Nat /\ gaps # {}
  <2>1. PICK n \in T : n \in Nat /\ n <= bound
    OBVIOUS
  <2>2. PICK g \in Nat : g = bound - n /\ bound - g = n
    BY <2>1
  <2> QED
    BY <2>1, <2>2
<1>2. PICK g \in gaps : \A h \in gaps : g <= h
  BY <1>1, LeastNumber
<1>3. ASSUME NEW n \in T PROVE n <= bound - g
  <2>1. n \in Nat /\ n <= bound
    OBVIOUS
  <2>2. PICK h \in Nat : h = bound - n /\ bound - h = n
    BY <2>1
  <2> QED
    BY <1>2, <2>1, <2>2
<1> QED
  BY <1>2, <1>3

\* What RemoveAt leaves.
LEMMA Removed ==
  ASSUME NEW S, NEW s \in Seq(S), NEW i \in 1 .. Len(s)
  PROVE  /\ RemoveAt(s, i) \in Seq(S)
         /\ \A k \in 1 .. Len(RemoveAt(s, i)) : \E j \in 1 .. Len(s) : RemoveAt(s, i)[k] = s[j]
<1> DEFINE front == SubSeq(s, 1, i - 1)
           back == SubSeq(s, i + 1, Len(s))
<1>1. Len(s) \in Nat /\ i \in Nat /\ 1 <= i /\ i <= Len(s)
  OBVIOUS
<1>2. /\ front \in Seq(S) /\ Len(front) = i - 1
      /\ \A k \in 1 .. i - 1 : front[k] = s[k]
  BY <1>1
<1>3. /\ back \in Seq(S) /\ Len(back) = Len(s) - i
      /\ \A k \in 1 .. Len(s) - i : back[k] = s[k + i]
  BY <1>1
<1>4. RemoveAt(s, i) = front \o back
  BY DEF RemoveAt
<1> HIDE DEF front, back
<1>5. /\ front \o back \in Seq(S) /\ Len(front \o back) = Len(s) - 1
      /\ \A k \in 1 .. Len(s) - 1 :
            (front \o back)[k] = IF k <= i - 1 THEN front[k] ELSE back[k - (i - 1)]
  <2>1. PICK m \in Nat, n \in Nat : m = i - 1 /\ n = Len(s) - i /\ m + n = Len(s) - 1
    <3>1. i - 1 \in Nat /\ Len(s) - i \in Nat /\ (i - 1) + (Len(s) - i) = Len(s) - 1
      BY <1>1
    <3> QED
      BY <3>1
  <2>2. Len(front) = m /\ Len(back) = n
    BY <1>2, <1>3, <2>1
  <2>3. /\ front \o back \in Seq(S) /\ Len(front \o back) = m + n
        /\ \A k \in 1 .. m + n : (front \o back)[k] = IF k <= m THEN front[k] ELSE back[k - m]
    BY ONLY <1>2, <1>3, <2>2, front \in Seq(S), back \in Seq(S), m \in Nat, n \in Nat
  <2> QED
    BY <2>1, <2>3
<1>6. ASSUME NEW k \in 1 .. Len(s) - 1 PROVE \E j \in 1 .. Len(s) : (front \o back)[k] = s[j]
  <2>1. CASE k <= i - 1
    BY <1>1, <1>2, <1>5, <2>1
  <2>2. CASE ~(k <= i - 1)
    <3>1. k - (i - 1) \in 1 .. Len(s) - i /\ k - (i - 1) + i = k + 1 /\ k + 1 \in 1 .. Len(s)
      BY <1>1, <2>2
    <3> QED
      BY <1>3, <1>5, <2>2, <3>1
  <2> QED
    BY <2>1, <2>2
<1> QED
  BY <1>4, <1>5, <1>6

\* One of the rows gives way.
LEMMA OneGivesWay ==
  ASSUME rows \in Seq(Samples), Len(rows) > 0
  PROVE  GivesWay \in 1 .. Len(rows)
<1> DEFINE With(r) == {i \in 1 .. Len(rows) : Rank[rows[i].push] = r}
           First(i) == \A j \in 1 .. Len(rows) \ {i} :
                         \/ Rank[rows[i].push] > Rank[rows[j].push]
                         \/ Rank[rows[i].push] = Rank[rows[j].push] /\ i < j
<1>1. Len(rows) \in Nat
  OBVIOUS
<1>2. \A i \in 1 .. Len(rows) : Rank[rows[i].push] \in 0 .. 2
  <2>1. \A i \in 1 .. Len(rows) : rows[i] \in Samples
    OBVIOUS
  <2>2. \A p \in Pushes : Rank[p] \in 0 .. 2
    BY DEF Pushes, Rank
  <2> QED
    BY <2>1, <2>2 DEF Samples
<1> DEFINE rank == [i \in 1 .. Len(rows) |-> Rank[rows[i].push]]
<1>3. \E i \in 1 .. Len(rows) : First(i)
  <2>1. \A r \in 0 .. 2 : With(r) # {} => \E i \in With(r) : \A j \in With(r) : i <= j
    <3> SUFFICES ASSUME NEW r \in 0 .. 2, With(r) # {} PROVE \E i \in With(r) : \A j \in With(r) : i <= j
      OBVIOUS
    <3>1. With(r) \subseteq Nat
      OBVIOUS
    <3> HIDE DEF With
    <3> QED
      BY <3>1, LeastNumber
  <2>2. \E i \in 1 .. Len(rows) : \A j \in 1 .. Len(rows) \ {i} :
           rank[i] > rank[j] \/ (rank[i] = rank[j] /\ i < j)
    <3>1. \A i \in 1 .. Len(rows) : rank[i] \in 0 .. 2
      BY <1>2
    <3>2. \A r \in 0 .. 2 : (\E j \in 1 .. Len(rows) : rank[j] = r) =>
             \E i \in 1 .. Len(rows) : rank[i] = r /\ \A j \in 1 .. Len(rows) : rank[j] = r => i <= j
      BY <2>1
    <3> HIDE DEF rank, With
    <3>3. 1 \in 1 .. Len(rows)
      BY <1>1
    <3>4. CASE \E j \in 1 .. Len(rows) : rank[j] = 2
      <4>1. PICK i \in 1 .. Len(rows) : rank[i] = 2 /\ \A j \in 1 .. Len(rows) : rank[j] = 2 => i <= j
        BY <3>2, <3>4
      <4>2. ASSUME NEW j \in 1 .. Len(rows) \ {i} PROVE rank[i] > rank[j] \/ (rank[i] = rank[j] /\ i < j)
        <5>1. rank[j] \in 0 .. 2 /\ j \in Nat /\ i \in Nat /\ i # j
          BY <3>1
        <5> QED
          BY <4>1, <5>1
      <4> QED
        BY <4>2
    <3>5. CASE (\E j \in 1 .. Len(rows) : rank[j] = 1) /\ ~(\E j \in 1 .. Len(rows) : rank[j] = 2)
      <4>1. PICK i \in 1 .. Len(rows) : rank[i] = 1 /\ \A j \in 1 .. Len(rows) : rank[j] = 1 => i <= j
        BY <3>2, <3>5
      <4>2. ASSUME NEW j \in 1 .. Len(rows) \ {i} PROVE rank[i] > rank[j] \/ (rank[i] = rank[j] /\ i < j)
        <5>1. rank[j] \in 0 .. 1 /\ j \in Nat /\ i \in Nat /\ i # j
          BY <3>1, <3>5
        <5> QED
          BY <4>1, <5>1
      <4> QED
        BY <4>2
    <3>6. CASE ~(\E j \in 1 .. Len(rows) : rank[j] = 1) /\ ~(\E j \in 1 .. Len(rows) : rank[j] = 2)
      <4>1. \A j \in 1 .. Len(rows) : rank[j] = 0
        BY <3>1, <3>6
      <4>2. PICK i \in 1 .. Len(rows) : rank[i] = 0 /\ \A j \in 1 .. Len(rows) : rank[j] = 0 => i <= j
        BY <3>2, <3>3, <4>1
      <4> QED
        BY <4>1, <4>2
    <3> QED
      BY <3>4, <3>5, <3>6
  <2> QED
    BY <2>2
<1>4. GivesWay = CHOOSE i \in 1 .. Len(rows) : First(i)
  BY DEF GivesWay
<1> HIDE DEF First
<1> QED
  BY <1>3, <1>4

\* The operators on the rows.
LEMMA MarkedRows ==
  ASSUME rows \in Seq(Samples), NEW pn, NEW record, NEW num, NEW push \in Pushes
  PROVE  /\ Marked(pn, record, num, push) \in Seq(Samples)
         /\ Len(Marked(pn, record, num, push)) = Len(rows)
         /\ \A i \in 1 .. Len(rows) :
               /\ Marked(pn, record, num, push)[i].record = rows[i].record
               /\ Marked(pn, record, num, push)[i].num = rows[i].num
               /\ \/ Marked(pn, record, num, push)[i].push = rows[i].push
                  \/ /\ Marked(pn, record, num, push)[i].push = push
                     /\ Matches(rows[i], pn, record, num)
<1> DEFINE new == Marked(pn, record, num, push)
<1>1. \A i \in 1 .. Len(rows) : rows[i] \in Samples
  OBVIOUS
<1>2. Len(rows) \in Nat
  OBVIOUS
<1>3. ASSUME NEW i \in 1 .. Len(rows)
      PROVE  /\ new[i] \in Samples /\ new[i].record = rows[i].record /\ new[i].num = rows[i].num
             /\ new[i].push = rows[i].push \/ (new[i].push = push /\ Matches(rows[i], pn, record, num))
  <2>1. CASE Matches(rows[i], pn, record, num)
    <3>1. new[i] = [rows[i] EXCEPT !.push = push]
      BY <2>1 DEF Marked
    <3> HIDE DEF new
    <3> QED
      BY <1>1, <2>1, <3>1 DEF Samples
  <2>2. CASE ~Matches(rows[i], pn, record, num)
    <3>1. new[i] = rows[i]
      BY <2>2 DEF Marked
    <3> HIDE DEF new
    <3> QED
      BY <1>1, <3>1
  <2> QED
    BY <2>1, <2>2
<1>4. new = [i \in 1 .. Len(rows) |-> new[i]]
  BY DEF Marked
<1> HIDE DEF new
<1>5. new \in Seq(Samples) /\ Len(new) = Len(rows)
  BY <1>2, <1>3, <1>4
<1> QED
  BY <1>3, <1>5 DEF new

-----------------------------------------------------------------------------

\* What the invariants of the rows and of the publications speak of.
rowVars == <<disk, rows, confirmed, round>>
trackVars == <<track, trackCount, trackNext, settle, outbox, lastId, confirmed, upload>>

\* What an invariant does not speak of does not disturb it.
LEMMA OpenSame == OpenInv /\ UNCHANGED <<disk, init>> => OpenInv'
BY DEF OpenInv

\* The same of the rows.
LEMMA RowsSame == RowsInv /\ UNCHANGED rowVars => RowsInv'
BY DEF RowsInv, RowOk, rowVars

\* A step that leaves the publications alone, and the round of the upload.
LEMMA TrackSame == PublishInv /\ UNCHANGED trackVars /\ UNCHANGED round.record => PublishInv'
<1> SUFFICES ASSUME PublishInv, UNCHANGED trackVars, UNCHANGED round.record PROVE PublishInv'
  OBVIOUS
<1>1. PublishTypes' /\ IdsGiven' /\ SlotsApart' /\ HalfFilled'
  BY DEF PublishInv, PublishTypes, IdsGiven, SlotsApart, HalfFilled, trackVars, FreeSlot
<1>2. EntriesCarry' /\ UploadCarries'
  BY DEF PublishInv, EntriesCarry, UploadCarries, Carries, trackVars
<1> QED
  BY <1>1, <1>2 DEF PublishInv

\* No row is acknowledged before the schema is 7.
LEMMA SchemaV7 ==
  ASSUME StoreInv, init.at = "ready"
  PROVE  disk.schema = "v7"
BY DEF StoreInv, OpenInv

\* SqLite_Init, a step at a time.
LEMMA StoreEnsures ==
  ASSUME StoreInv, EnsureSchema, UNCHANGED <<confirmed, round>>
  PROVE  RowsInv' /\ disk' \in Disks /\ disk'.schema = "v7"
<1>1. disk \in Disks /\ rows \in Seq(Samples) /\ Len(rows) \in Nat
      /\ round \in [record : 1 .. 3, next : Nat]
  BY DEF StoreInv, OpenInv, RowsInv
<1>2. disk' = [disk EXCEPT !.schema = "v7"]
  BY DEF EnsureSchema, CreateSchema, Migrate
<1>3. disk' \in Disks /\ disk'.schema = "v7"
  BY <1>1, <1>2 DEF Disks
<1>4. \A i \in 1 .. Len(rows) : rows[i] \in Samples /\ RowOk(rows[i], round, disk.schema, confirmed)
  BY <1>1 DEF StoreInv, RowsInv
<1>5. CASE UNCHANGED rows
  BY <1>1, <1>3, <1>4, <1>5 DEF RowsInv, RowOk
<1>6. CASE disk.schema \in {"v6", "legacy"} /\ Migrate
  <2>1. rows' = [i \in 1 .. Len(rows) |-> [rows[i] EXCEPT !.record = 0]]
    BY <1>6 DEF Migrate
  <2>2. ASSUME NEW i \in 1 .. Len(rows)
        PROVE  rows'[i] \in Samples /\ rows'[i].record = 0 /\ rows'[i].push # "acked"
    <3>1. rows[i].push # "acked"
      BY <1>4, <1>6 DEF RowOk
    <3>2. rows'[i] = [rows[i] EXCEPT !.record = 0]
      BY <2>1
    <3>3. rows[i] \in Samples
      BY <1>4
    <3> QED
      BY ONLY <3>1, <3>2, <3>3 DEF Samples
  <2>3. Len(rows') = Len(rows) /\ rows' \in Seq(Samples)
    <3>1. rows' = [i \in 1 .. Len(rows) |-> rows'[i]]
      BY <2>1
    <3> QED
      BY <1>1, <2>2, <3>1
  <2> QED
    BY <1>1, <1>3, <2>2, <2>3 DEF RowsInv, RowOk
<1> QED
  BY <1>3, <1>5, <1>6 DEF EnsureSchema, CreateSchema

\* An empty table has no row to speak of.
LEMMA NoRows == ASSUME StoreInv, rows' = <<>>, UNCHANGED <<confirmed, round>> PROVE RowsInv'
BY DEF StoreInv, RowsInv

\* The mount, with the formatting of a blank partition.
LEMMA StoreMount == ASSUME StoreInv, NEW ok \in BOOLEAN, Mount(ok) PROVE StoreInv'
<1>1. disk \in Disks /\ init \in Inits
  BY DEF StoreInv, OpenInv
<1>2. UNCHANGED <<rows, trackVars, round>>
  BY DEF Mount, table, publishing, sampling, trackVars
<1>3. disk' \in Disks /\ disk'.schema = disk.schema
  <2>1. disk' = disk \/ disk' = [disk EXCEPT !.fs = "good"]
    BY DEF Mount
  <2> QED
    BY ONLY <1>1, <2>1 DEF Disks
<1>4. init' \in Inits /\ init'.at \in {"mount", "open", "format"}
  <2>1. \/ init' = [init EXCEPT !.at = "open"]
        \/ init' = [init EXCEPT !.tries = @ + 1] /\ init.at = "mount"
        \/ init' = [init EXCEPT !.at = "format"]
    BY DEF Mount
  <2> QED
    BY ONLY <1>1, <2>1 DEF Inits
<1>5. OpenInv'
  BY <1>3, <1>4 DEF OpenInv
<1>6. RowsInv'
  BY <1>2, <1>3 DEF StoreInv, RowsInv, RowOk, trackVars
<1>7. PublishInv'
  BY <1>2, TrackSame DEF StoreInv
<1> QED
  BY <1>5, <1>6, <1>7 DEF StoreInv

\* The formatting of a partition that does not mount.
LEMMA StoreFormat == ASSUME StoreInv, NEW ok \in BOOLEAN, Format(ok) PROVE StoreInv'
<1>1. disk \in Disks /\ init \in Inits
  BY DEF StoreInv, OpenInv
<1>2. UNCHANGED <<trackVars, round>>
  BY DEF Format, table, publishing, sampling, trackVars
<1>3. PICK at \in {"open", "tell"}, told \in {init.told, "mount_fail"} :
         /\ init' = [init EXCEPT !.at = at, !.reset = TRUE, !.told = told]
         /\ at = "tell" => told = "mount_fail"
  BY DEF Format
<1>4. init' \in Inits /\ init'.at # "ready" /\ (init'.at = "tell" => init'.told = "mount_fail")
  BY ONLY <1>1, <1>3 DEF Inits
<1>5. disk' \in Disks
  <2>1. disk' = disk \/ disk' = [fs |-> "good", schema |-> "none", sound |-> TRUE]
    BY DEF Format
  <2>2. [fs |-> "good", schema |-> "none", sound |-> TRUE] \in Disks
    BY DEF Disks
  <2> QED
    BY <1>1, <2>1, <2>2
<1>6. OpenInv'
  BY <1>4, <1>5 DEF OpenInv
<1>7. RowsInv'
  <2>1. CASE UNCHANGED <<disk, rows>>
    BY <1>2, <2>1, RowsSame DEF StoreInv, rowVars, trackVars
  <2>2. CASE rows' = <<>>
    BY <1>2, <2>2, NoRows DEF trackVars
  <2> QED
    BY <2>1, <2>2 DEF Format
<1>8. PublishInv'
  BY <1>2, TrackSame DEF StoreInv
<1> QED
  BY <1>6, <1>7, <1>8 DEF StoreInv

\* The database is opened, and its schema brought to 7.
LEMMA StoreOpen == ASSUME StoreInv, NEW ok \in BOOLEAN, Open(ok) \/ Reopen(ok) PROVE StoreInv'
<1>1. disk \in Disks /\ init \in Inits
  BY DEF StoreInv, OpenInv
<1>2. UNCHANGED <<trackVars, round>> /\ Opens(ok)
  BY DEF Open, Reopen, table, publishing, sampling, trackVars
<1>3. RowsInv' /\ disk' \in Disks /\ (ok => disk'.schema = "v7")
  <2>1. CASE ok
    BY <1>2, <2>1, StoreEnsures DEF Opens, trackVars
  <2>2. CASE ~ok
    BY <1>1, <1>2, <2>2, RowsSame DEF Opens, StoreInv, rowVars, trackVars
  <2> QED
    BY <2>1, <2>2
<1>4. /\ init' \in Inits
      /\ (init'.at \in {"ready", "tell"} => ok \/ (init'.at = "tell" /\ init'.told # "db_rebuilt"))
  <2>1. CASE Open(ok)
    <3>1. PICK at \in {"ready", "disabled", "rebuild"} :
             init' = [init EXCEPT !.at = at] /\ (at = "ready" => ok)
      BY <2>1 DEF Open
    <3> QED
      BY ONLY <1>1, <3>1 DEF Inits
  <2>2. CASE Reopen(ok)
    <3>1. PICK told \in {"db_rebuilt", "rebuild_fail"} :
             init' = [init EXCEPT !.at = "tell", !.told = told] /\ (told = "db_rebuilt" => ok)
      BY <2>2 DEF Reopen
    <3> QED
      BY ONLY <1>1, <3>1 DEF Inits
  <2> QED
    BY <2>1, <2>2
<1>5. OpenInv'
  BY <1>3, <1>4 DEF OpenInv
<1>6. PublishInv'
  BY <1>2, TrackSame DEF StoreInv
<1> QED
  BY <1>3, <1>5, <1>6 DEF StoreInv

\* A damaged database is set aside.
LEMMA StoreRebuild == ASSUME StoreInv, Rebuild PROVE StoreInv'
<1>1. disk \in Disks /\ init \in Inits
  BY DEF StoreInv, OpenInv
<1>2. UNCHANGED <<trackVars, round>> /\ rows' = <<>>
  BY DEF Rebuild, table, publishing, sampling, trackVars
<1>3. disk' \in Disks
  BY <1>1 DEF Rebuild, Disks
<1>4. init' \in Inits /\ init'.at = "reopen"
  BY <1>1 DEF Rebuild, Inits
<1>5. OpenInv'
  BY <1>3, <1>4 DEF OpenInv
<1>6. RowsInv' /\ PublishInv'
  BY <1>2, NoRows, TrackSame DEF StoreInv, trackVars
<1> QED
  BY <1>5, <1>6 DEF StoreInv

\* What happened is written down, and reported.
LEMMA StoreTell == ASSUME StoreInv, NEW ok \in BOOLEAN, WriteFlag(ok) \/ ReportReset(ok) PROVE StoreInv'
<1>1. disk \in Disks /\ init \in Inits
  BY DEF StoreInv, OpenInv
<1>2. UNCHANGED <<disk, rows, trackVars, round>>
  BY DEF WriteFlag, ReportReset, table, publishing, sampling, trackVars
<1>3. OpenInv'
  <2>1. CASE WriteFlag(ok)
    <3>1. PICK at \in {"ready", "disabled"} :
             init' = [init EXCEPT !.at = at] /\ (at = "ready" => init.at = "tell" /\ init.told = "db_rebuilt")
      BY <2>1 DEF WriteFlag
    <3>2. init' \in Inits /\ init'.at = at
      BY ONLY <1>1, <3>1 DEF Inits
    <3> QED
      BY <1>1, <1>2, <3>1, <3>2 DEF StoreInv, OpenInv
  <2>2. CASE ReportReset(ok)
    BY <1>2, <2>2, OpenSame DEF StoreInv, ReportReset
  <2> QED
    BY <2>1, <2>2
<1>4. RowsInv' /\ PublishInv'
  BY <1>2, RowsSame, TrackSame DEF StoreInv, trackVars, rowVars
<1> QED
  BY <1>3, <1>4 DEF StoreInv

-----------------------------------------------------------------------------

\* A new row is the last one; the others are rows that were there.
LEMMA InsertedRows ==
  ASSUME rows \in Seq(Samples), NEW record \in 0 .. 3, NEW num \in Nat, Insert(record, num)
  PROVE  /\ rows' \in Seq(Samples)
         /\ \A i \in 1 .. Len(rows') :
               \/ \E j \in 1 .. Len(rows) : rows'[i] = rows[j]
               \/ rows'[i].record = record /\ rows'[i].num = num /\ rows'[i].push = "pending"
<1> DEFINE new == [record |-> record, num |-> num, push |-> "pending"]
<1>1. new \in Samples /\ new.record = record /\ new.num = num /\ new.push = "pending"
  BY DEF Samples, Pushes
<1>2. Len(rows) \in Nat
  OBVIOUS
<1>3. CASE \E i \in 1 .. Len(rows) : SameSample(i, record, num)
  <2>1. rows' = [i \in 1 .. Len(rows) |-> IF SameSample(i, record, num) THEN new ELSE rows[i]]
    BY <1>3 DEF Insert
  <2> HIDE DEF new
  <2>2. \A i \in 1 .. Len(rows) : rows'[i] \in Samples /\ (rows'[i] = new \/ rows'[i] = rows[i])
    BY <1>1, <2>1
  <2>3. Len(rows') = Len(rows) /\ rows' \in Seq(Samples)
    <3>1. rows' = [i \in 1 .. Len(rows) |-> rows'[i]]
      BY <2>1
    <3> QED
      BY <1>2, <2>2, <3>1
  <2> QED
    BY <1>1, <2>2, <2>3
<1>4. CASE ~(\E i \in 1 .. Len(rows) : SameSample(i, record, num))
  <2>1. \E kept : /\ kept = rows \/ (Len(rows) > 0 /\ kept = RemoveAt(rows, GivesWay))
                  /\ rows' = Append(kept, new)
    BY <1>4 DEF Insert
  <2>2. PICK kept : /\ kept = rows \/ (Len(rows) > 0 /\ kept = RemoveAt(rows, GivesWay))
                    /\ rows' = Append(kept, new)
    BY <2>1
  <2> HIDE DEF new
  <2>3. /\ kept \in Seq(Samples)
        /\ \A k \in 1 .. Len(kept) : \E j \in 1 .. Len(rows) : kept[k] = rows[j]
    <3>1. CASE kept = rows
      BY <3>1
    <3>2. CASE Len(rows) > 0 /\ kept = RemoveAt(rows, GivesWay)
      BY <3>2, OneGivesWay, Removed
    <3> QED
      BY <2>2, <3>1, <3>2
  <2>4. /\ rows' \in Seq(Samples) /\ Len(rows') = Len(kept) + 1 /\ rows'[Len(kept) + 1] = new
        /\ \A i \in 1 .. Len(kept) : rows'[i] = kept[i]
    BY <1>1, <2>2, <2>3
  <2>5. \A i \in 1 .. Len(rows') : i \in 1 .. Len(kept) \/ i = Len(kept) + 1
    BY <2>3, <2>4
  <2> QED
    BY <1>1, <2>3, <2>4, <2>5
<1> QED
  BY <1>3, <1>4

\* Rows that are marked as other than acknowledged, or as acknowledged when they may be.
LEMMA RowsMarked ==
  ASSUME StoreInv, NEW pn, NEW record, NEW num, NEW push \in Pushes,
         rows' = Marked(pn, record, num, push), UNCHANGED <<disk, confirmed, round>>,
         push = "acked" => /\ disk.schema = "v7"
                           /\ num # 0 => record # 0 /\ <<record, num>> \in confirmed
  PROVE  RowsInv'
<1>1. rows \in Seq(Samples) /\ round \in [record : 1 .. 3, next : Nat]
  BY DEF StoreInv, RowsInv
<1>2. /\ rows' \in Seq(Samples) /\ Len(rows') = Len(rows)
      /\ \A i \in 1 .. Len(rows) :
            /\ rows'[i].record = rows[i].record /\ rows'[i].num = rows[i].num
            /\ \/ rows'[i].push = rows[i].push
               \/ (rows'[i].push = push /\ Matches(rows[i], pn, record, num))
  BY <1>1, MarkedRows
<1>3. ASSUME NEW i \in 1 .. Len(rows) PROVE RowOk(rows'[i], round', disk'.schema, confirmed')
  <2>1. RowOk(rows[i], round, disk.schema, confirmed)
    BY DEF StoreInv, RowsInv
  <2>2. rows'[i].record = rows[i].record /\ rows'[i].num = rows[i].num
    BY <1>2
  <2>3. CASE rows'[i].push = rows[i].push
    BY <2>1, <2>2, <2>3 DEF RowOk
  <2>4. CASE rows'[i].push = push /\ Matches(rows[i], pn, record, num)
    BY <2>1, <2>2, <2>4 DEF RowOk, Matches
  <2> QED
    BY <1>2, <2>3, <2>4
<1> QED
  BY <1>1, <1>2, <1>3 DEF RowsInv

\* What the uploader keeps while it does not fill an entry.
LEMMA UploadGoes ==
  ASSUME PublishInv, UNCHANGED <<track, trackCount, trackNext, settle, outbox, lastId, confirmed>>,
         UNCHANGED round.record, upload' \in Uploads, upload'.id <= lastId,
         upload'.at \in {"idle", "publish", "mark", "slot"},
         upload'.at \in {"mark", "slot"} =>
            upload.at \in {"mark", "slot"} /\ upload'.id = upload.id /\ upload'.num = upload.num
  PROVE  PublishInv'
<1>1. PublishTypes' /\ IdsGiven'
  BY DEF PublishInv, PublishTypes, IdsGiven
<1>2. SlotsApart' /\ HalfFilled'
  BY DEF PublishInv, SlotsApart, HalfFilled, FreeSlot, Filled
<1>3. EntriesCarry'
  BY DEF PublishInv, EntriesCarry, Carries
<1>4. UploadCarries'
  BY DEF PublishInv, UploadCarries, Carries, Filled
<1> QED
  BY <1>1, <1>2, <1>3, <1>4 DEF PublishInv

\* A sample is numbered and stored.
LEMMA StoreSample == ASSUME StoreInv, NEW ok \in BOOLEAN, Sample(ok) PROVE StoreInv'
<1>1. /\ rows \in Seq(Samples) /\ round \in [record : 1 .. 3, next : Nat]
      /\ \A i \in 1 .. Len(rows) : RowOk(rows[i], round, disk.schema, confirmed) /\ rows[i] \in Samples
  BY DEF StoreInv, RowsInv
<1>2. /\ round' = [round EXCEPT !.next = @ + 1]
      /\ upload' = [NoUpload EXCEPT !.at = "publish", !.num = round.next, !.stored = ok]
      /\ UNCHANGED <<disk, init, track, trackCount, trackNext, settle, outbox, lastId, confirmed>>
      /\ IF ok THEN Insert(round.record, round.next) ELSE UNCHANGED rows
  BY DEF Sample, table, publishing
<1>3. PICK n \in Nat : n = round.next /\ round'.next = n + 1 /\ round'.record = round.record
                       /\ round' \in [record : 1 .. 3, next : Nat]
  BY <1>1, <1>2
<1>4. OpenInv'
  BY <1>2, OpenSame DEF StoreInv
<1>5. \A row \in Samples :
         RowOk(row, round, disk.schema, confirmed) => RowOk(row, round', disk'.schema, confirmed')
  <2>1. round.record \in Nat /\ round.next \in Nat
    BY <1>1
  <2>2. \A row \in Samples : row.record \in Nat /\ row.num \in Nat
    BY DEF Samples
  <2> QED
    BY <1>2, <1>3, <2>1, <2>2 DEF RowOk
<1>6. RowsInv'
  <2>1. CASE ok
    <3>1. /\ rows' \in Seq(Samples)
          /\ \A i \in 1 .. Len(rows') :
               \/ \E j \in 1 .. Len(rows) : rows'[i] = rows[j]
               \/ rows'[i].record = round.record /\ rows'[i].num = n /\ rows'[i].push = "pending"
      <4>1. round.record \in 0 .. 3
        BY <1>1
      <4> QED
        BY <1>1, <1>2, <1>3, <2>1, <4>1, InsertedRows
    <3>2. ASSUME NEW i \in 1 .. Len(rows') PROVE RowOk(rows'[i], round', disk'.schema, confirmed')
      <4>1. CASE \E j \in 1 .. Len(rows) : rows'[i] = rows[j]
        BY <1>1, <1>5, <4>1
      <4>2. CASE rows'[i].record = round.record /\ rows'[i].num = n /\ rows'[i].push = "pending"
        <5>1. round.record \in Nat
          BY <1>1
        <5> QED
          BY <1>3, <4>2, <5>1 DEF RowOk
      <4> QED
        BY <3>1, <4>1, <4>2
    <3> QED
      BY <1>3, <3>1, <3>2 DEF RowsInv
  <2>2. CASE ~ok
    BY <1>1, <1>2, <1>3, <1>5, <2>2 DEF RowsInv
  <2> QED
    BY <2>1, <2>2
<1>7. PublishInv'
  <2>1. upload' \in Uploads /\ upload'.id = 0 /\ upload'.at = "publish"
    <3>1. upload' = [at |-> "publish", num |-> n, id |-> 0, stored |-> ok, slot |-> 0,
                     full |-> FALSE, met |-> FALSE]
      BY <1>2, <1>3 DEF NoUpload
    <3>2. 0 \in 0 .. TrackCapacity
      BY StoreAssumption
    <3> QED
      BY <3>1, <3>2 DEF Uploads
  <2>2. lastId \in Nat
    BY DEF StoreInv, PublishInv, PublishTypes
  <2> QED
    BY <1>2, <1>3, <2>1, <2>2, UploadGoes DEF StoreInv
<1> QED
  BY <1>4, <1>6, <1>7 DEF StoreInv

\* The uploader goes on to another place, and what it holds keeps its types.
LEMMA UploadTyped ==
  ASSUME PublishTypes
  PROVE  /\ upload \in Uploads /\ lastId \in Nat /\ TrackCapacity \in Nat /\ TrackCapacity >= 2
         /\ upload.num \in Nat /\ upload.id \in Nat
         /\ trackCount \in 0 .. TrackCapacity /\ trackNext \in 1 .. TrackCapacity
         /\ FreeSlot \in 1 .. TrackCapacity
<1>1. TrackCapacity \in Nat /\ TrackCapacity >= 2
  BY StoreAssumption
<1>2. /\ upload \in Uploads /\ lastId \in Nat /\ trackCount \in 0 .. TrackCapacity
      /\ trackNext \in 1 .. TrackCapacity
  BY DEF PublishTypes
<1>3. FreeSlot \in 1 .. TrackCapacity
  BY <1>1, <1>2 DEF FreeSlot
<1>4. upload.num \in Nat /\ upload.id \in Nat
  BY ONLY <1>2 DEF Uploads
<1> QED
  BY <1>1, <1>2, <1>3, <1>4

\* A new publication changes nothing about the older message ids.
LEMMA PublishesNew ==
  ASSUME PublishTypes, IdsGiven, NEW record \in 0 .. 3, NEW num \in Nat, Publishes(record, num),
         UNCHANGED settle
  PROVE  /\ outbox' \subseteq Publications /\ lastId' \in Nat /\ lastId < lastId'
         /\ confirmed' = confirmed /\ lastId' = lastId + 1
         /\ \A p \in outbox' : p.id <= lastId'
         /\ \A k \in 1 .. Len(settle') : settle'[k].id <= lastId'
         /\ \A id \in Nat : \A r, n :
               id <= lastId /\ Carries(id, r, n, outbox, settle, confirmed) =>
                  Carries(id, r, n, outbox', settle', confirmed')
         /\ Carries(lastId', record, num, outbox', settle', confirmed')
<1> DEFINE new == [id |-> lastId + 1, record |-> record, num |-> num]
<1>1. lastId' = lastId + 1 /\ outbox' = outbox \cup {new} /\ confirmed' = confirmed /\ lastId \in Nat
  BY DEF Publishes, PublishTypes
<1>2. new \in Publications /\ new.id = lastId + 1 /\ new.record = record /\ new.num = num
  BY <1>1 DEF Publications
<1>3. outbox \subseteq Publications /\ \A p \in outbox : p.id \in Nat /\ p.id <= lastId
  BY DEF PublishTypes, IdsGiven, Publications
<1>4. /\ settle \in Seq(Outcomes)
      /\ \A k \in 1 .. Len(settle) : settle[k].id \in Nat /\ settle[k].id <= lastId
  <2>1. settle \in Seq(Outcomes)
    BY DEF PublishTypes
  <2>2. \A k \in 1 .. Len(settle) : settle[k] \in Outcomes
    BY <2>1
  <2> QED
    BY <2>1, <2>2 DEF IdsGiven, Outcomes
<1> HIDE DEF new
<1>5. /\ outbox' \subseteq Publications /\ lastId' \in Nat /\ lastId < lastId'
      /\ \A p \in outbox' : p.id <= lastId'
      /\ \A k \in 1 .. Len(settle') : settle'[k].id <= lastId'
  BY <1>1, <1>2, <1>3, <1>4
<1>6. ASSUME NEW id \in Nat, NEW r, NEW n, id <= lastId,
             Carries(id, r, n, outbox, settle, confirmed)
      PROVE  Carries(id, r, n, outbox', settle', confirmed')
  BY <1>1, <1>2, <1>6 DEF Carries
<1>7. Carries(lastId', record, num, outbox', settle', confirmed')
  BY <1>1, <1>2, <1>3, <1>4 DEF Carries
<1> QED
  BY <1>1, <1>5, <1>6, <1>7

\* A sample is published.
LEMMA StorePublishSample == ASSUME StoreInv, NEW ok \in BOOLEAN, PublishSample(ok) PROVE StoreInv'
<1>1. /\ UNCHANGED <<disk, rows, init, track, trackCount, trackNext, settle, round, confirmed>>
      /\ IF ok THEN Publishes(round.record, upload.num) ELSE UNCHANGED publishing
  BY DEF PublishSample, storage, table, Publishes, publishing
<1>2. PublishTypes /\ IdsGiven /\ round.record \in 1 .. 3
  BY DEF StoreInv, PublishInv, RowsInv
<1>3. PICK at \in {"mark", "idle"} :
         upload' = [upload EXCEPT !.at = at, !.id = lastId'] /\ (at = "mark" => ok)
  BY DEF PublishSample
<1>4. OpenInv' /\ RowsInv'
  BY <1>1, OpenSame, RowsSame DEF StoreInv, rowVars
<1>5. CASE ok
  <2>1. /\ outbox' \subseteq Publications /\ lastId' \in Nat /\ lastId < lastId'
        /\ \A p \in outbox' : p.id <= lastId'
        /\ \A k \in 1 .. Len(settle') : settle'[k].id <= lastId'
        /\ \A id \in Nat : \A r, n :
              id <= lastId /\ Carries(id, r, n, outbox, settle, confirmed) =>
                 Carries(id, r, n, outbox', settle', confirmed')
        /\ Carries(lastId', round.record, upload.num, outbox', settle', confirmed')
    BY <1>1, <1>2, <1>5, PublishesNew, UploadTyped
  <2>2. /\ upload' \in Uploads /\ upload'.at = at /\ upload'.id = lastId' /\ upload'.num = upload.num
    BY ONLY <1>2, <1>3, <2>1, UploadTyped DEF Uploads
  <2>3. \A i \in 1 .. TrackCapacity : track[i].id \in Nat /\ track[i].id <= lastId
    BY <1>2 DEF PublishTypes, IdsGiven, Entries
  <2>4. lastId \in Nat
    BY <1>2 DEF PublishTypes
  <2>5. PublishTypes' /\ IdsGiven'
    BY <1>1, <1>2, <2>1, <2>2, <2>3, <2>4 DEF PublishTypes, IdsGiven
  <2>6. EntriesCarry'
    BY <1>1, <2>1, <2>3 DEF StoreInv, PublishInv, EntriesCarry
  <2>7. UploadCarries' /\ HalfFilled' /\ SlotsApart'
    BY <1>1, <2>1, <2>2 DEF StoreInv, PublishInv, UploadCarries, HalfFilled, SlotsApart, Filled
  <2> QED
    BY <1>4, <2>5, <2>6, <2>7 DEF StoreInv, PublishInv
<1>6. CASE ~ok
  <2>1. UNCHANGED <<outbox, lastId>> /\ at = "idle"
    BY <1>1, <1>3, <1>6 DEF publishing
  <2>2. lastId \in Nat
    BY <1>2 DEF PublishTypes
  <2>3. upload' \in Uploads /\ upload'.id = lastId /\ upload'.at = "idle"
    BY ONLY <1>2, <1>3, <2>1, <2>2, UploadTyped DEF Uploads
  <2> QED
    BY <1>1, <1>4, <2>1, <2>2, <2>3, UploadGoes DEF StoreInv
<1> QED
  BY <1>5, <1>6

\* The row of the publication is marked as in flight.
LEMMA StoreMark == ASSUME StoreInv, MarkInflight PROVE StoreInv'
<1>1. /\ UNCHANGED <<disk, init, track, trackCount, trackNext, settle, outbox, lastId, confirmed, round>>
      /\ rows' = Marked(PackOf(round.record), round.record, upload.num, "inflight")
      /\ upload' = [upload EXCEPT !.at = "slot"] /\ upload.at = "mark"
  BY DEF MarkInflight, UploadAt, Step, table, publishing
<1>2. upload \in Uploads /\ upload.id <= lastId
  BY DEF StoreInv, PublishInv, PublishTypes, IdsGiven
<1>3. upload' \in Uploads /\ upload'.at = "slot" /\ upload'.id = upload.id /\ upload'.num = upload.num
  BY ONLY <1>1, <1>2 DEF Uploads
<1>4. RowsInv'
  BY <1>1, RowsMarked DEF Pushes
<1>5. PublishInv'
  BY <1>1, <1>2, <1>3, UploadGoes DEF StoreInv
<1> QED
  BY <1>1, <1>4, <1>5, OpenSame DEF StoreInv

\* The uploader has found a place.
LEMMA StoreChooseSlot == ASSUME StoreInv, ChooseSlot PROVE StoreInv'
<1>1. /\ UNCHANGED <<disk, rows, init, track, trackCount, trackNext, settle, outbox, lastId,
                     confirmed, round>>
      /\ upload.at = "slot"
  BY DEF ChooseSlot, UploadAt, storage, table, publishing
<1>2. PublishTypes /\ upload.id <= lastId
  BY DEF StoreInv, PublishInv, IdsGiven
<1>3. PICK at \in {"id", "idle"}, full \in BOOLEAN :
         /\ upload' = [upload EXCEPT !.at = at, !.slot = FreeSlot, !.full = full]
         /\ full <=> trackCount = TrackCapacity
  <2>1. \E full \in BOOLEAN : full = (trackCount = TrackCapacity)
    OBVIOUS
  <2> QED
    BY <2>1 DEF ChooseSlot
<1>4. /\ upload' \in Uploads /\ upload'.at = at /\ upload'.id = upload.id /\ upload'.num = upload.num
      /\ upload'.slot = FreeSlot /\ (upload'.full <=> full)
  <2>1. upload \in Uploads /\ FreeSlot \in 0 .. TrackCapacity
    BY <1>2, UploadTyped
  <2> HIDE DEF FreeSlot
  <2> QED
    BY ONLY <1>3, <2>1 DEF Uploads
<1>5. OpenInv' /\ RowsInv'
  BY <1>1, OpenSame, RowsSame DEF StoreInv, rowVars
<1>6. CASE at = "idle"
  BY <1>1, <1>2, <1>4, <1>5, <1>6, UploadGoes DEF StoreInv
<1>7. CASE at = "id"
  <2>1. PublishTypes' /\ IdsGiven' /\ EntriesCarry'
    BY <1>1, <1>4 DEF StoreInv, PublishInv, PublishTypes, IdsGiven, EntriesCarry, Carries
  <2>2. UploadCarries' /\ HalfFilled'
    BY <1>1, <1>4, <1>7 DEF StoreInv, PublishInv, UploadCarries, HalfFilled, Carries, Filled
  <2>3. trackCount < TrackCapacity => trackNext = 1
    BY DEF StoreInv, PublishInv, SlotsApart
  <2>4. /\ FreeSlot' = FreeSlot
        /\ FreeSlot \in 1 .. TrackCapacity
        /\ trackCount # TrackCapacity => trackCount = FreeSlot - 1
    BY <1>1, <1>2, UploadTyped DEF FreeSlot
  <2> HIDE DEF FreeSlot
  <2>5. SlotsApart'
    BY <1>1, <1>3, <1>4, <1>7, <2>3, <2>4 DEF SlotsApart, Filled
  <2> QED
    BY <1>5, <2>1, <2>2, <2>5 DEF StoreInv, PublishInv
<1> QED
  BY <1>6, <1>7

\* The uploader fills one field of its entry.
LEMMA FillsOne ==
  ASSUME StoreInv, NEW e \in Entries, NEW at \in Filled \cup {"idle"},
         upload.slot \in 1 .. TrackCapacity,
         track' = [track EXCEPT ![upload.slot] = e],
         UNCHANGED <<disk, rows, init, settle, outbox, lastId, confirmed, round>>,
         trackCount' \in 0 .. TrackCapacity, trackNext' \in 1 .. TrackCapacity,
         upload' \in Uploads, upload'.at = at,
         at # "idle" => /\ upload.at # "idle" /\ upload.at # "publish"
                        /\ upload'.id = upload.id /\ upload'.num = upload.num
                        /\ upload'.slot = upload.slot,
         upload'.id <= lastId, e.id <= lastId,
         e.valid /\ e.num # 0 =>
            e.record # 0 /\ Carries(e.id, e.record, e.num, outbox, settle, confirmed),
         at # "idle" => e.id = upload.id /\ e.num = 0 /\ (at = "num" => e.record = round.record),
         SlotsApart'
  PROVE  StoreInv'
<1>1. OpenInv' /\ RowsInv'
  BY OpenSame, RowsSame DEF StoreInv, rowVars
<1>2. /\ track \in [1 .. TrackCapacity -> Entries] /\ PublishTypes /\ IdsGiven
      /\ upload \in Uploads
  BY DEF StoreInv, PublishInv, PublishTypes
<1>3. /\ track' \in [1 .. TrackCapacity -> Entries] /\ track'[upload.slot] = e
      /\ \A i \in 1 .. TrackCapacity : i # upload.slot => track'[i] = track[i]
  BY <1>2
<1>4. PublishTypes'
  BY <1>2, <1>3 DEF PublishTypes
<1>5. IdsGiven'
  <2>1. \A i \in 1 .. TrackCapacity : track'[i].id <= lastId'
    BY <1>2, <1>3 DEF IdsGiven
  <2> QED
    BY <1>2, <2>1 DEF IdsGiven
<1>6. EntriesCarry'
  <2>1. EntriesCarry
    BY DEF StoreInv, PublishInv
  <2> QED
    BY <1>3, <2>1 DEF EntriesCarry
<1>7. UploadCarries'
  <2>1. upload.at \in {"idle", "publish", "mark", "slot", "id"} \cup Filled
    BY ONLY <1>2 DEF Uploads
  <2>2. CASE at = "idle"
    BY <2>2 DEF UploadCarries, Filled
  <2>3. CASE at # "idle"
    <3>1. Carries(upload.id, round.record, upload.num, outbox, settle, confirmed)
      BY <2>1, <2>3 DEF StoreInv, PublishInv, UploadCarries
    <3> QED
      BY <2>3, <3>1 DEF UploadCarries
  <2> QED
    BY <2>2, <2>3
<1>8. HalfFilled'
  BY <1>3 DEF HalfFilled, Filled
<1> QED
  BY <1>1, <1>4, <1>5, <1>6, <1>7, <1>8 DEF StoreInv, PublishInv

\* The slot after the one that is taken is another one.
LEMMA SlotTaken ==
  ASSUME NEW cap \in Nat, cap >= 2, NEW slot \in 1 .. cap
  PROVE  (slot % cap) + 1 \in 1 .. cap /\ (slot % cap) + 1 # slot
<1>1. CASE slot = cap
  <2>1. slot % cap = 0
    BY <1>1
  <2> QED
    BY <1>1, <2>1
<1>2. CASE slot < cap
  <2>1. slot % cap = slot
    BY <1>2
  <2> QED
    BY <1>2, <2>1
<1> QED
  BY <1>1, <1>2

\* The uploader writes the message id into its entry.
LEMMA StoreFillId == ASSUME StoreInv, FillId PROVE StoreInv'
<1> DEFINE e == [NoEntry EXCEPT !.id = upload.id, !.valid = TRUE]
<1>1. /\ UNCHANGED <<disk, rows, init, settle, outbox, lastId, confirmed, round>>
      /\ upload.at = "id" /\ track' = [track EXCEPT ![upload.slot] = e]
      /\ upload' = [upload EXCEPT !.at = "pn"]
      /\ TakeSlot(upload.slot, upload.full)
  BY DEF FillId, UploadAt, Step, storage, publishing
<1>2. /\ upload \in Uploads /\ upload.id \in Nat /\ TrackCapacity \in Nat /\ TrackCapacity >= 2
      /\ trackCount \in 0 .. TrackCapacity /\ trackNext \in 1 .. TrackCapacity /\ upload.id <= lastId
  BY UploadTyped DEF StoreInv, PublishInv, IdsGiven
<1>3. e \in Entries /\ e.id = upload.id /\ e.num = 0
  <2>1. NoEntry \in Entries /\ NoEntry.num = 0
    BY DEF NoEntry, Entries
  <2> QED
    BY <1>2, <2>1 DEF Entries
<1>4. /\ upload' \in Uploads /\ upload'.at = "pn" /\ upload'.id = upload.id /\ upload'.num = upload.num
      /\ upload'.slot = upload.slot
  BY ONLY <1>1, <1>2 DEF Uploads, Filled
<1>5. upload'.met <=> upload.met
  BY ONLY <1>1, <1>2 DEF Uploads, Filled
<1>6. /\ trackCount < TrackCapacity => trackNext = 1
      /\ upload.slot \in 1 .. TrackCapacity
      /\ upload.full => trackCount = TrackCapacity
      /\ ~upload.full => trackCount = upload.slot - 1 \/ trackCount = upload.slot
      /\ ~upload.met => upload.slot = FreeSlot /\ (upload.full <=> trackCount = TrackCapacity)
  BY <1>1 DEF StoreInv, PublishInv, SlotsApart
<1>7. CASE upload.full
  <2>1. trackNext' = (upload.slot % TrackCapacity) + 1 /\ trackCount' = trackCount
    BY <1>1, <1>7 DEF TakeSlot
  <2>2. trackNext' \in 1 .. TrackCapacity /\ trackNext' # upload.slot
    BY <1>2, <1>6, <2>1, SlotTaken
  <2>3. SlotsApart'
    BY <1>2, <1>4, <1>6, <1>7, <2>1, <2>2 DEF SlotsApart, FreeSlot, Filled
  <2> QED
    BY <1>1, <1>2, <1>3, <1>4, <1>6, <2>1, <2>2, <2>3, FillsOne DEF Filled
<1>8. CASE ~upload.full
  <2>1. trackCount' = upload.slot /\ trackNext' = trackNext
    BY <1>1, <1>8 DEF TakeSlot
  <2>2. trackCount' < TrackCapacity => trackNext' = 1
    BY <1>2, <1>6, <1>8, <2>1
  <2>3. ~upload.met => upload.slot # FreeSlot'
    <3>1. SUFFICES ASSUME ~upload.met PROVE upload.slot # FreeSlot'
      OBVIOUS
    <3>2. trackCount # TrackCapacity /\ trackCount < TrackCapacity
      BY <1>2, <1>6, <1>8, <3>1
    <3>3. trackNext = 1 /\ trackCount = upload.slot - 1
      <4>1. trackNext = 1
        BY <1>6, <3>2
      <4>2. upload.slot = trackCount + 1
        BY <1>6, <3>1, <3>2 DEF FreeSlot
      <4> QED
        BY <1>2, <4>1, <4>2
    <3>4. FreeSlot' = IF upload.slot < TrackCapacity THEN upload.slot + 1 ELSE 1
      BY <2>1, <3>3 DEF FreeSlot
    <3> QED
      BY <1>2, <1>6, <3>4
  <2>4. SlotsApart'
    BY <1>4, <1>5, <2>2, <2>3 DEF SlotsApart, Filled
  <2>5. trackCount' \in 0 .. TrackCapacity /\ trackNext' \in 1 .. TrackCapacity
    BY <1>2, <1>6, <2>1
  <2> HIDE DEF e
  <2> QED
    BY <1>1, <1>2, <1>3, <1>4, <1>6, <2>4, <2>5, FillsOne DEF Filled
<1> QED
  BY <1>7, <1>8

\* The uploader writes the pack and the record of the entry.
LEMMA StoreFillName == ASSUME StoreInv, FillName \/ FillRecord PROVE StoreInv'
<1>1. /\ UNCHANGED <<disk, rows, init, trackCount, trackNext, settle, outbox, lastId, confirmed, round>>
      /\ upload.at \in Filled
  BY DEF FillName, FillRecord, UploadAt, storage, publishing, Filled
<1>2. /\ upload \in Uploads /\ upload.slot \in 1 .. TrackCapacity
      /\ track[upload.slot].id = upload.id /\ track[upload.slot].num = 0
      /\ track \in [1 .. TrackCapacity -> Entries] /\ track[upload.slot] \in Entries
  BY <1>1 DEF StoreInv, PublishInv, HalfFilled, PublishTypes
<1>3. upload.id <= lastId /\ round.record \in 0 .. 3
  BY DEF StoreInv, PublishInv, IdsGiven, RowsInv
<1>4. PICK at \in {"record", "num"} : upload' = [upload EXCEPT !.at = at]
  BY DEF FillName, FillRecord, Step
<1>5. /\ upload' \in Uploads /\ upload'.at = at /\ upload'.id = upload.id /\ upload'.num = upload.num
      /\ upload'.slot = upload.slot
  BY ONLY <1>2, <1>4 DEF Uploads, Filled
<1>6. upload'.met <=> upload.met
  BY ONLY <1>2, <1>4 DEF Uploads, Filled
<1>7. SlotsApart'
  BY <1>1, <1>5, <1>6 DEF StoreInv, PublishInv, SlotsApart, FreeSlot, Filled
<1>8. CASE FillName
  <2> DEFINE e == [track[upload.slot] EXCEPT !.pn = PackOf(round.record)]
  <2>1. e \in Entries /\ e.id = upload.id /\ e.num = 0
    BY <1>2 DEF Entries, PackOf
  <2>2. track' = [track EXCEPT ![upload.slot] = e]
    BY <1>8 DEF FillName
  <2>3. upload'.at = "record"
    BY <1>2, <1>8 DEF FillName, Step, Uploads
  <2> HIDE DEF e
  <2> QED
    BY <1>1, <1>2, <1>3, <1>5, <1>7, <2>1, <2>2, <2>3, FillsOne DEF Filled, StoreInv, PublishInv, PublishTypes
<1>9. CASE FillRecord
  <2> DEFINE e == [track[upload.slot] EXCEPT !.record = round.record]
  <2>1. e \in Entries /\ e.id = upload.id /\ e.num = 0 /\ e.record = round.record
    BY <1>2, <1>3 DEF Entries
  <2>2. track' = [track EXCEPT ![upload.slot] = e]
    BY <1>9 DEF FillRecord
  <2>3. upload'.at = "num"
    BY <1>2, <1>9 DEF FillRecord, Step, Uploads
  <2> HIDE DEF e
  <2> QED
    BY <1>1, <1>2, <1>3, <1>5, <1>7, <2>1, <2>2, <2>3, FillsOne DEF Filled, StoreInv, PublishInv, PublishTypes
<1> QED
  BY <1>8, <1>9

\* The uploader writes the number, and the entry tracks its sample.
LEMMA StoreFillNumber == ASSUME StoreInv, FillNumber PROVE StoreInv'
<1> DEFINE e == [track[upload.slot] EXCEPT !.num = upload.num]
<1>1. /\ UNCHANGED <<disk, rows, init, trackCount, trackNext, settle, outbox, lastId, confirmed, round>>
      /\ upload.at = "num" /\ track' = [track EXCEPT ![upload.slot] = e] /\ upload' = NoUpload
  BY DEF FillNumber, UploadAt, storage, publishing
<1>2. /\ upload \in Uploads /\ upload.num \in Nat /\ upload.slot \in 1 .. TrackCapacity
      /\ track[upload.slot].id = upload.id /\ track[upload.slot].record = round.record
      /\ track[upload.slot] \in Entries
  BY <1>1, UploadTyped DEF StoreInv, PublishInv, HalfFilled, PublishTypes, Filled
<1>3. upload.id <= lastId /\ round.record \in 1 .. 3 /\ lastId \in Nat
  BY DEF StoreInv, PublishInv, IdsGiven, RowsInv, PublishTypes
<1>4. e \in Entries /\ e.id = upload.id /\ e.num = upload.num /\ e.record = round.record
  BY <1>2 DEF Entries
<1>5. upload' \in Uploads /\ upload'.at = "idle" /\ upload'.id = 0
  BY <1>1, StoreAssumption DEF NoUpload, Uploads
<1>6. Carries(upload.id, round.record, upload.num, outbox, settle, confirmed)
  BY <1>1 DEF StoreInv, PublishInv, UploadCarries, Filled
<1>7. SlotsApart'
  BY <1>1, <1>5 DEF StoreInv, PublishInv, SlotsApart, Filled
<1>8. trackCount' \in 0 .. TrackCapacity /\ trackNext' \in 1 .. TrackCapacity
  BY <1>1 DEF StoreInv, PublishInv, PublishTypes
<1>9. round.record # 0 /\ upload'.id <= lastId
  BY <1>3, <1>5
<1> HIDE DEF e
<1> QED
  BY <1>1, <1>2, <1>3, <1>4, <1>5, <1>6, <1>7, <1>8, <1>9, FillsOne

\* The outcome of a publication is left in the queue, or is lost.
LEMMA StoreSettle ==
  ASSUME StoreInv, NEW p \in outbox, NEW acked \in BOOLEAN, Settle(p, acked)
  PROVE  StoreInv'
<1> DEFINE outcome == [id |-> p.id, acked |-> acked]
<1>1. /\ UNCHANGED <<disk, rows, init, track, trackCount, trackNext, lastId, round, upload>>
      /\ outbox' = outbox \ {p}
      /\ confirmed' = IF acked THEN confirmed \cup {<<p.record, p.num>>} ELSE confirmed
      /\ settle' = Append(settle, outcome) \/ settle' = settle
  BY DEF Settle, storage, table, sampling
<1>2. /\ p \in Publications /\ p.id \in Nat /\ p.id <= lastId /\ settle \in Seq(Outcomes)
      /\ outcome \in Outcomes /\ outcome.id = p.id /\ (outcome.acked <=> acked)
  <2>1. p \in Publications /\ p.id <= lastId /\ settle \in Seq(Outcomes)
    BY DEF StoreInv, PublishInv, PublishTypes, IdsGiven
  <2>2. p.id \in Nat
    BY ONLY <2>1 DEF Publications
  <2> QED
    BY <2>1, <2>2 DEF Outcomes
<1> HIDE DEF outcome
<1>3. /\ settle' \in Seq(Outcomes)
      /\ \A k \in 1 .. Len(settle') :
            \/ k \in 1 .. Len(settle) /\ settle'[k] = settle[k]
            \/ settle'[k] = outcome
  <2>1. CASE settle' = settle
    BY <1>2, <2>1
  <2>2. CASE settle' = Append(settle, outcome)
    BY <1>2, <2>2
  <2> QED
    BY <1>1, <2>1, <2>2
<1>4. ASSUME NEW id, NEW r, NEW n, Carries(id, r, n, outbox, settle, confirmed)
      PROVE  Carries(id, r, n, outbox', settle', confirmed')
  <2>1. \A q \in outbox' : q.id = id => q.record = r /\ q.num = n
    BY <1>1, <1>4 DEF Carries
  <2>2. ASSUME NEW k \in 1 .. Len(settle'), settle'[k].id = id, settle'[k].acked
        PROVE  <<r, n>> \in confirmed'
    <3>1. CASE k \in 1 .. Len(settle) /\ settle'[k] = settle[k]
      BY <1>1, <1>4, <2>2, <3>1 DEF Carries
    <3>2. CASE settle'[k] = outcome
      <4>1. p.id = id /\ acked
        BY <1>2, <2>2, <3>2
      <4>2. p.record = r /\ p.num = n
        BY <1>4, <4>1 DEF Carries
      <4> QED
        BY <1>1, <4>1, <4>2
    <3> QED
      BY <1>3, <3>1, <3>2
  <2> QED
    BY <2>1, <2>2 DEF Carries
<1>5. OpenInv'
  BY <1>1, OpenSame DEF StoreInv
<1>6. RowsInv'
  BY <1>1 DEF StoreInv, RowsInv, RowOk
<1>7. PublishTypes'
  BY <1>1, <1>3 DEF StoreInv, PublishInv, PublishTypes
<1>8. IdsGiven'
  BY <1>1, <1>2, <1>3 DEF StoreInv, PublishInv, IdsGiven
<1>9. EntriesCarry' /\ UploadCarries'
  BY <1>1, <1>4 DEF StoreInv, PublishInv, EntriesCarry, UploadCarries
<1>10. HalfFilled' /\ SlotsApart'
  BY <1>1 DEF StoreInv, PublishInv, HalfFilled, SlotsApart, FreeSlot
<1> QED
  BY <1>5, <1>6, <1>7, <1>8, <1>9, <1>10 DEF StoreInv, PublishInv

\* mqtt_rx takes an outcome, and marks the row of the entry with its message id.
LEMMA StoreDrain == ASSUME StoreInv, Drain PROVE StoreInv'
<1> DEFINE ids == Tracked(Head(settle).id)
           i == CHOOSE k \in ids : \A j \in ids : k <= j
           push == IF Head(settle).acked THEN "acked" ELSE "pending"
<1>1. /\ UNCHANGED <<disk, init, trackCount, trackNext, outbox, lastId, confirmed, round, upload>>
      /\ settle # <<>> /\ settle' = Tail(settle)
  BY DEF Drain, publishing, sampling
<1>0. IF ids = {} THEN UNCHANGED <<rows, track>>
      ELSE /\ track' = [track EXCEPT ![i].valid = FALSE]
           /\ rows' = IF Ready THEN Marked(track[i].pn, track[i].record, track[i].num, push) ELSE rows
  BY Zenon DEF Drain
<1>2. /\ settle \in Seq(Outcomes) /\ PublishTypes /\ IdsGiven
      /\ track \in [1 .. TrackCapacity -> Entries] /\ trackCount \in 0 .. TrackCapacity
      /\ TrackCapacity \in Nat
  BY UploadTyped DEF StoreInv, PublishInv, PublishTypes
<1>3. /\ settle' \in Seq(Outcomes) /\ Head(settle) = settle[1] /\ 1 \in 1 .. Len(settle)
      /\ \A k \in 1 .. Len(settle') : k + 1 \in 1 .. Len(settle) /\ settle'[k] = settle[k + 1]
  BY <1>1, <1>2
<1>4. ASSUME NEW id, NEW r, NEW n, Carries(id, r, n, outbox, settle, confirmed)
      PROVE  Carries(id, r, n, outbox', settle', confirmed')
  BY <1>1, <1>3, <1>4 DEF Carries
<1>5. ids # {} => i \in ids
  <2>1. ids \subseteq Nat
    BY <1>2 DEF Tracked
  <2> HIDE DEF ids
  <2> QED
    BY <2>1, LeastNumber
<1>6. ids # {} => /\ i \in 1 .. TrackCapacity /\ track[i].valid /\ track[i].id = settle[1].id
                  /\ track[i] \in Entries
  <2>1. ids \subseteq 1 .. TrackCapacity /\ \A k \in ids : track[k].valid /\ track[k].id = settle[1].id
    BY <1>2, <1>3 DEF Tracked
  <2> HIDE DEF ids, i
  <2> QED
    BY <1>2, <1>5, <2>1
<1> HIDE DEF ids, i
<1>7. RowsInv'
  <2>1. CASE ids = {} \/ ~Ready
    BY <1>0, <1>1, <2>1, RowsSame DEF StoreInv, rowVars
  <2>2. CASE ids # {} /\ Ready
    <3>1. disk.schema = "v7"
      BY <2>2, SchemaV7 DEF Ready
    <3>2. push = "acked" /\ track[i].num # 0 =>
             track[i].record # 0 /\ <<track[i].record, track[i].num>> \in confirmed
      BY <1>3, <1>6, <2>2 DEF StoreInv, PublishInv, EntriesCarry, Carries
    <3>3. push \in Pushes
      BY DEF Pushes
    <3> HIDE DEF push
    <3> QED
      BY <1>0, <1>1, <2>2, <3>1, <3>2, <3>3, RowsMarked
  <2> QED
    BY <2>1, <2>2
<1>8. /\ track' \in [1 .. TrackCapacity -> Entries]
      /\ \A k \in 1 .. TrackCapacity :
            /\ track'[k].id = track[k].id /\ track'[k].record = track[k].record
            /\ track'[k].num = track[k].num /\ (track'[k].valid => track[k].valid)
  <2>1. CASE ids = {}
    BY <1>0, <1>2, <2>1
  <2>2. CASE ids # {}
    <3>1. track' = [track EXCEPT ![i] = [track[i] EXCEPT !.valid = FALSE]]
      BY <1>0, <2>2
    <3>2. /\ [track[i] EXCEPT !.valid = FALSE] \in Entries
          /\ [track[i] EXCEPT !.valid = FALSE].id = track[i].id
          /\ [track[i] EXCEPT !.valid = FALSE].record = track[i].record
          /\ [track[i] EXCEPT !.valid = FALSE].num = track[i].num
          /\ ~[track[i] EXCEPT !.valid = FALSE].valid
      BY <1>6, <2>2 DEF Entries
    <3> QED
      BY <1>2, <1>6, <2>2, <3>1, <3>2
  <2> QED
    BY <2>1, <2>2
<1>9. PublishTypes' /\ IdsGiven'
  BY <1>1, <1>2, <1>3, <1>8 DEF PublishTypes, IdsGiven
<1>10. EntriesCarry' /\ UploadCarries'
  BY <1>1, <1>4, <1>8 DEF StoreInv, PublishInv, EntriesCarry, UploadCarries
<1>11. HalfFilled' /\ SlotsApart'
  BY <1>1, <1>8 DEF StoreInv, PublishInv, HalfFilled, SlotsApart, FreeSlot
<1> QED
  BY <1>1, <1>7, <1>9, <1>10, <1>11, OpenSame DEF StoreInv, PublishInv

\* get_lost_aging publishes the last row with the number again.
LEMMA StoreGetLost == ASSUME StoreInv, NEW k \in 1 .. Len(rows), GetLost(rows[k].num) PROVE StoreInv'
<1>1. /\ rows \in Seq(Samples) /\ Len(rows) \in Nat /\ \A j \in 1 .. Len(rows) : rows[j] \in Samples
      /\ PublishTypes /\ IdsGiven
  BY DEF StoreInv, RowsInv, PublishInv
<1>2. PICK num \in Nat : num = rows[k].num
  BY <1>1 DEF Samples
<1>3. \E j \in 1 .. Len(rows) :
         rows[j].num = num /\ \A l \in j + 1 .. Len(rows) : rows[l].num # num
  <2> DEFINE with == {j \in 1 .. Len(rows) : rows[j].num = num}
  <2>1. with \subseteq Nat /\ with # {} /\ \A j \in with : j <= Len(rows)
    BY <1>1, <1>2
  <2>2. PICK j \in with : \A l \in with : l <= j
    <3> HIDE DEF with
    <3> QED
      BY <1>1, <2>1, GreatestNumber
  <2>3. ASSUME NEW l \in j + 1 .. Len(rows) PROVE rows[l].num # num
    BY <1>1, <2>2
  <2> QED
    BY <2>2, <2>3
<1>4. LastWith(num) \in 1 .. Len(rows) /\ rows[LastWith(num)].num = num
  BY <1>3 DEF LastWith
<1>5. PICK row \in Samples : row = rows[LastWith(num)]
  BY <1>1, <1>4
<1> DEFINE made == [id |-> lastId + 1, valid |-> TRUE, pn |-> PackOf(row.record),
                    record |-> row.record, num |-> num]
<1>6. /\ UNCHANGED <<disk, init, settle, round>> /\ row.record # 0 /\ Publishes(row.record, num)
      /\ rows' = Marked(PackOf(row.record), row.record, num, "inflight")
      /\ ~upload.met
  BY <1>2, <1>5 DEF GetLost
<1>7. \/ /\ track' = [track EXCEPT ![FreeSlot] = made]
         /\ TakeSlot(FreeSlot, trackCount = TrackCapacity)
      \/ UNCHANGED table
  BY <1>2, <1>5 DEF GetLost
<1>8. PICK met \in BOOLEAN : upload' = [upload EXCEPT !.met = met] /\ (Filling => met)
  <2>1. upload' = [upload EXCEPT !.met = Filling]
    BY DEF GetLost
  <2>2. Filling \in BOOLEAN
    BY DEF Filling
  <2>3. PICK met \in BOOLEAN : met = Filling
    BY <2>2
  <2> QED
    BY <2>1, <2>3
<1>9. /\ upload \in Uploads /\ TrackCapacity \in Nat /\ TrackCapacity >= 2 /\ lastId \in Nat
      /\ trackCount \in 0 .. TrackCapacity /\ trackNext \in 1 .. TrackCapacity
      /\ FreeSlot \in 1 .. TrackCapacity
  BY <1>1, UploadTyped
<1>10. /\ upload' \in Uploads /\ upload'.at = upload.at /\ upload'.id = upload.id
       /\ upload'.num = upload.num /\ upload'.slot = upload.slot
  BY ONLY <1>8, <1>9 DEF Uploads
<1>11. (upload'.full <=> upload.full) /\ (upload'.met <=> met)
  BY ONLY <1>8, <1>9 DEF Uploads
<1>12. row.record \in 0 .. 3
  BY DEF Samples
<1>13. /\ outbox' \subseteq Publications /\ lastId' \in Nat /\ lastId < lastId' /\ confirmed' = confirmed
       /\ lastId' = lastId + 1
       /\ \A p \in outbox' : p.id <= lastId'
       /\ \A j \in 1 .. Len(settle') : settle'[j].id <= lastId'
       /\ \A id \in Nat : \A r, n :
             id <= lastId /\ Carries(id, r, n, outbox, settle, confirmed) =>
                Carries(id, r, n, outbox', settle', confirmed')
       /\ Carries(lastId', row.record, num, outbox', settle', confirmed')
  BY <1>1, <1>6, <1>12, PublishesNew
<1>14. made \in Entries /\ made.id = lastId' /\ made.num = num /\ made.record = row.record
  BY <1>9, <1>12, <1>13 DEF Entries, PackOf
<1> HIDE DEF made
<1>15. OpenInv'
  BY <1>6, OpenSame DEF StoreInv
<1>16. RowsInv'
  BY <1>6, <1>13, RowsMarked DEF Pushes
<1>17. /\ track \in [1 .. TrackCapacity -> Entries] /\ upload.id \in Nat /\ upload.id <= lastId
       /\ \A i \in 1 .. TrackCapacity : track[i].id \in Nat /\ track[i].id <= lastId
  BY <1>1, UploadTyped DEF PublishTypes, IdsGiven, Entries
<1>18. /\ track' \in [1 .. TrackCapacity -> Entries]
       /\ trackCount' \in 0 .. TrackCapacity /\ trackNext' \in 1 .. TrackCapacity
       /\ \A i \in 1 .. TrackCapacity : track'[i] = track[i] \/ (i = FreeSlot /\ track'[i] = made)
  <2>1. CASE UNCHANGED table
    BY <1>9, <1>17, <2>1 DEF table
  <2>2. CASE track' = [track EXCEPT ![FreeSlot] = made] /\ TakeSlot(FreeSlot, trackCount = TrackCapacity)
    <3>1. trackCount' \in 0 .. TrackCapacity /\ trackNext' \in 1 .. TrackCapacity
      BY <1>9, <2>2, SlotTaken DEF TakeSlot
    <3> HIDE DEF FreeSlot
    <3> QED
      BY <1>9, <1>14, <1>17, <2>2, <3>1
  <2> QED
    BY <1>7, <2>1, <2>2
<1> HIDE DEF FreeSlot
<1>19. PublishTypes'
  BY <1>1, <1>6, <1>10, <1>13, <1>18 DEF PublishTypes
<1>20. IdsGiven'
  <2>1. ASSUME NEW i \in 1 .. TrackCapacity PROVE track'[i].id <= lastId'
    <3>1. CASE track'[i] = track[i]
      BY <1>9, <1>13, <1>17, <3>1
    <3>2. CASE track'[i] = made
      BY <1>13, <1>14, <3>2
    <3> QED
      BY <1>18, <3>1, <3>2
  <2>2. upload'.id <= lastId'
    BY <1>9, <1>10, <1>13, <1>17
  <2> QED
    BY <1>13, <2>1, <2>2 DEF IdsGiven
<1>21. EntriesCarry'
  <2> SUFFICES ASSUME NEW i \in 1 .. TrackCapacity, track'[i].valid, track'[i].num # 0
               PROVE  /\ track'[i].record # 0
                      /\ Carries(track'[i].id, track'[i].record, track'[i].num, outbox', settle', confirmed')
    BY DEF EntriesCarry
  <2>1. CASE track'[i] = track[i]
    BY <1>13, <1>17, <2>1 DEF StoreInv, PublishInv, EntriesCarry
  <2>2. CASE track'[i] = made
    BY <1>6, <1>13, <1>14, <2>2
  <2> QED
    BY <1>18, <2>1, <2>2
<1>22. UploadCarries'
  BY <1>6, <1>10, <1>13, <1>17 DEF StoreInv, PublishInv, UploadCarries
<1>23. HalfFilled'
  <2> SUFFICES ASSUME upload.at \in Filled
               PROVE  /\ upload.slot \in 1 .. TrackCapacity
                      /\ track'[upload.slot].id = upload.id /\ track'[upload.slot].num = 0
                      /\ upload.at = "num" => track'[upload.slot].record = round.record
    BY <1>6, <1>10 DEF HalfFilled
  <2>1. upload.slot # FreeSlot /\ upload.slot \in 1 .. TrackCapacity
    BY <1>6 DEF StoreInv, PublishInv, SlotsApart, HalfFilled
  <2>2. track'[upload.slot] = track[upload.slot]
    BY <1>18, <2>1
  <2> QED
    BY <2>1, <2>2 DEF StoreInv, PublishInv, HalfFilled
<1>24. SlotsApart'
  <2>1. SlotsApart
    BY DEF StoreInv, PublishInv
  <2>2. upload.at \in {"id"} \cup Filled => met
    BY <1>8 DEF Filling, Filled
  <2>3. CASE UNCHANGED table
    BY <1>10, <1>11, <2>1, <2>2, <2>3 DEF SlotsApart, table, Filled
  <2>4. CASE TakeSlot(FreeSlot, trackCount = TrackCapacity)
    <3>1. CASE trackCount = TrackCapacity
      <4>1. trackCount' = TrackCapacity
        BY <2>4, <3>1 DEF TakeSlot
      <4>2. upload.at = "id" => upload.full
        BY <1>6, <2>1, <3>1 DEF SlotsApart
      <4> QED
        BY <1>9, <1>10, <1>11, <2>1, <2>2, <4>1, <4>2 DEF SlotsApart, Filled
    <3>2. CASE trackCount # TrackCapacity
      <4>1. trackCount' = trackCount + 1 /\ trackNext' = trackNext /\ FreeSlot = trackCount + 1
        BY <1>9, <2>4, <3>2 DEF TakeSlot, FreeSlot
      <4>2. upload.at = "id" => ~upload.full /\ upload.slot = FreeSlot
        BY <1>6, <2>1, <3>2 DEF SlotsApart
      <4>3. trackCount' < TrackCapacity => trackNext' = 1
        BY <1>9, <2>1, <4>1 DEF SlotsApart
      <4> QED
        BY <1>10, <1>11, <2>1, <2>2, <4>1, <4>2, <4>3 DEF SlotsApart, Filled
    <3> QED
      BY <3>1, <3>2
  <2> QED
    BY <1>7, <2>3, <2>4
<1> QED
  BY <1>15, <1>16, <1>19, <1>20, <1>21, <1>22, <1>23, <1>24 DEF StoreInv, PublishInv

\* The next round is a later one.
LEMMA StoreNextRound == ASSUME StoreInv, NextRound PROVE StoreInv'
<1>1. /\ UNCHANGED <<disk, rows, init, track, trackCount, trackNext, settle, outbox, lastId,
                     confirmed, upload>>
      /\ upload.at = "idle"
  BY DEF NextRound, UploadAt, storage, table, publishing
<1>2. PICK r \in round.record + 1 .. 3 : round' = [record |-> r, next |-> 0]
  BY DEF NextRound
<1>3. /\ rows \in Seq(Samples) /\ round.record \in 1 .. 3 /\ PublishTypes
      /\ \A i \in 1 .. Len(rows) : RowOk(rows[i], round, disk.schema, confirmed)
  BY DEF StoreInv, RowsInv, PublishInv
<1>4. r \in 1 .. 3 /\ round.record < r
  BY <1>3
<1>5. RowsInv'
  <2>1. \A i \in 1 .. Len(rows) : rows[i].record \in Nat
    <3>1. \A i \in 1 .. Len(rows) : rows[i] \in Samples
      BY <1>3
    <3> QED
      BY <3>1 DEF Samples
  <2>2. round' \in [record : 1 .. 3, next : Nat] /\ round'.record = r
    BY <1>2, <1>4
  <2>3. round.record \in Nat /\ r \in Nat
    BY <1>3, <1>4
  <2>4. \A i \in 1 .. Len(rows) : RowOk(rows[i], round', disk'.schema, confirmed')
    <3> SUFFICES ASSUME NEW i \in 1 .. Len(rows) PROVE RowOk(rows[i], round', disk'.schema, confirmed')
      OBVIOUS
    <3>1. RowOk(rows[i], round, disk.schema, confirmed) /\ rows[i].record \in Nat
      BY <1>3, <2>1
    <3>2. rows[i].record <= r /\ rows[i].record # r
      BY <1>4, <2>3, <3>1 DEF RowOk
    <3> QED
      BY <1>1, <2>2, <3>1, <3>2 DEF RowOk
  <2> QED
    BY <1>1, <1>3, <2>2, <2>4 DEF RowsInv
<1>6. PublishInv'
  <2>1. PublishTypes' /\ IdsGiven' /\ EntriesCarry'
    BY <1>1 DEF StoreInv, PublishInv, PublishTypes, IdsGiven, EntriesCarry
  <2>2. UploadCarries' /\ HalfFilled' /\ SlotsApart'
    BY <1>1 DEF UploadCarries, HalfFilled, SlotsApart, FreeSlot, Filled, StoreInv, PublishInv
  <2> QED
    BY <2>1, <2>2 DEF PublishInv
<1> QED
  BY <1>1, <1>5, <1>6, OpenSame DEF StoreInv

\* The entry of a table that was just allocated.
LEMMA EmptyEntry == NoEntry \in Entries /\ NoEntry.id = 0 /\ NoEntry.num = 0 /\ ~NoEntry.valid
<1>1. NoEntry \in Entries
  BY DEF NoEntry, Entries
<1>2. NoEntry.id = 0 /\ NoEntry.num = 0
  BY DEF NoEntry
<1>3. ~NoEntry.valid
  BY DEF NoEntry
<1> QED
  BY <1>1, <1>2, <1>3

\* What a node has after a start: no publication is known, no entry is valid.
Untracked ==
    /\ settle = <<>> /\ outbox = {} /\ track = [i \in 1 .. TrackCapacity |-> NoEntry]
    /\ trackCount = 0 /\ trackNext = 1 /\ upload = NoUpload /\ lastId \in Nat

LEMMA NothingTracked == Untracked => PublishInv
<1> SUFFICES ASSUME Untracked PROVE PublishInv
  OBVIOUS
<1> USE DEF Untracked
<1>1. TrackCapacity \in Nat /\ TrackCapacity >= 2
  BY StoreAssumption
<1>2. NoEntry \in Entries /\ NoEntry.id = 0 /\ ~NoEntry.valid
  BY EmptyEntry
<1>3. NoUpload \in Uploads /\ NoUpload.at = "idle" /\ NoUpload.id = 0
  BY <1>1 DEF NoUpload, Uploads
<1>4. PublishTypes
  <2>1. <<>> \in Seq(Outcomes) /\ {} \subseteq Publications
    OBVIOUS
  <2>2. 0 \in 0 .. TrackCapacity /\ 1 \in 1 .. TrackCapacity
    BY <1>1
  <2> QED
    BY <1>2, <1>3, <2>1, <2>2 DEF PublishTypes
<1>5. IdsGiven
  BY <1>2, <1>3 DEF IdsGiven
<1>6. EntriesCarry
  BY <1>2 DEF EntriesCarry
<1>7. UploadCarries /\ HalfFilled /\ SlotsApart
  BY <1>3 DEF UploadCarries, HalfFilled, SlotsApart, Filled
<1> QED
  BY <1>4, <1>5, <1>6, <1>7 DEF PublishInv

\* A loss of power: the rows stay, and the round goes on after its last row.
LEMMA StoreOutage == ASSUME StoreInv, Outage PROVE StoreInv'
<1> DEFINE mine == {rows[i].num : i \in {k \in 1 .. Len(rows) : rows[k].record = round.record}}
           next == IF mine = {} THEN 0 ELSE 1 + CHOOSE n \in mine : \A m \in mine : m <= n
<1>1. /\ UNCHANGED <<rows, lastId, confirmed>> /\ init' = StartInit
      /\ track' = [i \in 1 .. TrackCapacity |-> NoEntry] /\ trackCount' = 0 /\ trackNext' = 1
      /\ settle' = <<>> /\ outbox' = {} /\ upload' = NoUpload
  BY DEF Outage
<1>2. round' = [round EXCEPT !.next = next]
  BY Zenon DEF Outage
<1>3. disk' = disk \/ disk' = [disk EXCEPT !.sound = FALSE] \/ disk' = [disk EXCEPT !.fs = "bad"]
  BY DEF Outage
<1>4. disk \in Disks
  BY DEF StoreInv, OpenInv
<1>5. disk' \in Disks /\ disk'.schema = disk.schema
  BY ONLY <1>3, <1>4 DEF Disks
<1>6. OpenInv'
  BY <1>1, <1>5 DEF OpenInv, StartInit, Inits
<1>7. /\ rows \in Seq(Samples) /\ round \in [record : 1 .. 3, next : Nat]
      /\ \A i \in 1 .. Len(rows) :
            rows[i] \in Samples /\ RowOk(rows[i], round, disk.schema, confirmed)
  BY DEF StoreInv, RowsInv
<1>8. next \in Nat /\ \A n \in mine : n < next
  <2>1. mine \subseteq Nat
    BY <1>7 DEF Samples
  <2>2. \A n \in mine : n <= round.next
    <3>1. ASSUME NEW i \in 1 .. Len(rows), rows[i].record = round.record
          PROVE  rows[i].num <= round.next
      <4>1. rows[i].num < round.next
        BY <1>7, <3>1 DEF RowOk
      <4>2. rows[i].num \in Nat /\ round.next \in Nat
        BY <1>7 DEF Samples
      <4> QED
        BY <4>1, <4>2
    <3> QED
      BY <3>1
  <2>3. round.next \in Nat
    BY <1>7
  <2>4. CASE mine = {}
    BY <2>4
  <2>5. CASE mine # {}
    <3> DEFINE last == CHOOSE n \in mine : \A m \in mine : m <= n
    <3>1. last \in mine /\ \A m \in mine : m <= last
      <4> HIDE DEF mine
      <4> QED
        BY <2>1, <2>2, <2>3, <2>5, GreatestNumber
    <3>2. next = 1 + last
      BY <2>5
    <3> HIDE DEF mine, last, next
    <3> QED
      BY <2>1, <3>1, <3>2
  <2> QED
    BY <2>4, <2>5
<1>9. RowsInv'
  <2>1. \A i \in 1 .. Len(rows) : rows[i].record = round.record => rows[i].num < next
    <3> SUFFICES ASSUME NEW i \in 1 .. Len(rows), rows[i].record = round.record PROVE rows[i].num < next
      OBVIOUS
    <3>1. rows[i].num \in mine
      OBVIOUS
    <3> HIDE DEF mine, next
    <3> QED
      BY <1>8, <3>1
  <2> HIDE DEF mine, next
  <2>2. round' \in [record : 1 .. 3, next : Nat] /\ round'.record = round.record /\ round'.next = next
    BY <1>2, <1>7, <1>8
  <2>3. ASSUME NEW i \in 1 .. Len(rows) PROVE RowOk(rows[i], round', disk'.schema, confirmed')
    BY <1>1, <1>5, <1>7, <2>1, <2>2 DEF RowOk
  <2>4. rows' = rows /\ rows \in Seq(Samples)
    BY <1>1, <1>7
  <2> QED
    BY ONLY <2>2, <2>3, <2>4 DEF RowsInv, RowOk
<1>10. PublishInv'
  <2>1. Untracked'
    BY <1>1 DEF StoreInv, PublishInv, PublishTypes, Untracked
  <2> QED
    BY <2>1, NothingTracked, PTL
<1> QED
  BY <1>6, <1>9, <1>10 DEF StoreInv

\* Every step keeps the invariant, which no other service disturbs.
LEMMA StoreKeeps ==
  StoreInv /\ (StoreNext \/ UNCHANGED <<storage, table, settle, publishing, sampling>>) => StoreInv'
<1> SUFFICES ASSUME StoreInv, StoreNext \/ UNCHANGED <<storage, table, settle, publishing, sampling>>
             PROVE  StoreInv'
  OBVIOUS
<1>1. CASE UNCHANGED <<storage, table, settle, publishing, sampling>>
  BY <1>1, OpenSame, RowsSame, TrackSame DEF StoreInv, storage, table, publishing, sampling, rowVars, trackVars
<1>2. CASE StoreInitStep
  BY <1>2, StoreMount, StoreFormat, StoreOpen, StoreRebuild, StoreTell DEF StoreInitStep
<1>3. CASE MarkInflight \/ ChooseSlot \/ FillId \/ FillName \/ FillRecord \/ FillNumber
  BY <1>3, StoreMark, StoreChooseSlot, StoreFillId, StoreFillName, StoreFillNumber
<1>4. ASSUME NEW ok \in BOOLEAN, Sample(ok) \/ PublishSample(ok) PROVE StoreInv'
  BY <1>4, StoreSample, StorePublishSample
<1>5. ASSUME NEW p \in outbox, NEW acked \in BOOLEAN, Settle(p, acked) PROVE StoreInv'
  BY <1>5, StoreSettle
<1>6. CASE Drain
  BY <1>6, StoreDrain
<1>7. ASSUME NEW i \in 1 .. Len(rows), GetLost(rows[i].num) PROVE StoreInv'
  BY <1>7, StoreGetLost
<1>8. CASE NextRound \/ Outage
  BY <1>8, StoreNextRound, StoreOutage
<1> QED
  BY <1>1, <1>2, <1>3, <1>4, <1>5, <1>6, <1>7, <1>8 DEF StoreNext

\* It holds at a start with rows of older rounds, none of them acknowledged.
LEMMA StoreStarts ==
  ASSUME disk \in Disks, rows \in Seq([record : {0}, num : Nat, push : {"pending", "inflight"}]),
         StoreInit
  PROVE  StoreInv
<1>1. OpenInv
  BY DEF StoreInit, StartInit, OpenInv, Inits
<1>2. RowsInv
  <2> DEFINE old == [record : {0}, num : Nat, push : {"pending", "inflight"}]
  <2>1. \A row \in old : row \in Samples /\ row.record = 0 /\ row.push # "acked"
    BY DEF Samples, Pushes
  <2>2. rows \in Seq(old)
    OBVIOUS
  <2> HIDE DEF old
  <2>3. Len(rows) \in Nat /\ \A i \in 1 .. Len(rows) : rows[i] \in old
    BY <2>2
  <2>5. rows = [i \in 1 .. Len(rows) |-> rows[i]]
    BY <2>2
  <2>6. rows \in Seq(Samples)
    BY <2>1, <2>3, <2>5
  <2>4. round \in [record : 1 .. 3, next : Nat] /\ round.record = 1
    BY DEF StoreInit
  <2> QED
    BY <2>1, <2>3, <2>4, <2>6 DEF RowsInv, RowOk
<1>3. PublishInv
  BY NothingTracked DEF StoreInit, Untracked
<1> QED
  BY <1>1, <1>2, <1>3 DEF StoreInv

\* The invariant says what the acknowledged rows promise.
LEMMA StoreInvAcked == StoreInv => AckedConfirmed
BY DEF StoreInv, RowsInv, RowOk, AckedConfirmed

-----------------------------------------------------------------------------
(***************************************************************************)
(* The update over the air.                                                *)
(***************************************************************************)

\* The cmd_task, the receiver and the dl_task of a node that has started.
LEMMA UpdateStarts == Init => OtaInv /\ LibraryTypes
<1> SUFFICES ASSUME Init PROVE OtaInv /\ LibraryTypes
  OBVIOUS
<1>1. node \in {"root", "child"} /\ server \in Versions
  BY ScenariosAssumption DEF Init
<1>2. OtaInit
  BY DEF Init
<1>3. flash \in [Slots -> {0} \cup Versions] /\ run \in Slots /\ boot = run /\ flash[run] # 0
  BY <1>2 DEF OtaInit, Slots, Versions
<1>4. cache \in RecordType \cup {NoRecord} /\ OtaStarted
  BY <1>2 DEF OtaInit, OtaStarted
<1>5. OtaInv
  BY <1>1, <1>3, <1>4, OtaStarts
<1>6. LibraryTypes
  BY <1>2 DEF OtaInit, LibraryTypes, NoTransfer, TransferType
<1> QED
  BY <1>5, <1>6

\* A step of a node keeps the invariants of the update.
LEMMA UpdateKept == OtaInv /\ LibraryTypes /\ [Next]_vars => OtaInv' /\ LibraryTypes'
<1> SUFFICES ASSUME OtaInv, LibraryTypes, [Next]_vars PROVE OtaInv' /\ LibraryTypes'
  OBVIOUS
<1>1. CASE OtaNext
  BY <1>1, OtaKeeps, LibraryKept
<1>2. CASE UNCHANGED otaState
  <2>1. UNCHANGED otaView
    BY <1>2 DEF otaState, otaView
  <2>2. LibraryTypes'
    BY <1>2 DEF otaState, LibraryTypes
  <2> QED
    BY <2>1, <2>2, OtaSame
<1> QED
  BY <1>1, <1>2 DEF Next, vars

\* The slot that a node boots is recorded before it is selected, so that the start after it
\* knows what it runs (mesh_ota_finalize, ota_cache_store, esp_ota_set_boot_partition).
THEOREM BootRecordedAlways == Spec => []BootRecorded
<1>1. Init => OtaInv /\ LibraryTypes
  BY UpdateStarts
<1>2. OtaInv /\ LibraryTypes /\ [Next]_vars => OtaInv' /\ LibraryTypes'
  BY UpdateKept
<1>3. OtaInv => BootRecorded
  BY OtaInvBoots
<1> QED
  BY <1>1, <1>2, <1>3, PTL DEF Spec

\* What a node supplies to the nodes below it is what its record names
\* (mesh_ota_set_ready_file).
THEOREM SupplyRecordedAlways == Spec => []SupplyRecorded
<1>1. Init => OtaInv /\ LibraryTypes
  BY UpdateStarts
<1>2. OtaInv /\ LibraryTypes /\ [Next]_vars => OtaInv' /\ LibraryTypes'
  BY UpdateKept
<1>3. OtaInv => SupplyRecorded
  BY OtaInvSupplies
<1> QED
  BY <1>1, <1>2, <1>3, PTL DEF Spec

-----------------------------------------------------------------------------
(***************************************************************************)
(* The commands over MQTT.                                                 *)
(*                                                                         *)
(* Why no command is executed twice within the window (ExecutedOnce): the  *)
(* table of records and the table that stands in for it hold, each as long *)
(* as it is the one in use, the last executions in their order.            *)
(***************************************************************************)

\* The pieces a command comes in, what a record answers with, the records, and the
\* executions.
Piece == [of : Commands, part : {"head", "tail", "whole"}]
ReplyCopy == {"state", "config", "setlog", "point", "none"}
SeqRecord == [seq : Commands, valid : BOOLEAN, old : BOOLEAN, reply : ReplyCopy]
Execution == [seq : Commands, old : BOOLEAN]

\* The asks of a scenario.
AsksType == asks \in Seq([kind : DOMAIN Replies, long : BOOLEAN])

\* What the variables hold.
CommandTypes ==
    /\ AsksType
    /\ wire \in Seq(Piece) /\ data \in Seq(Piece) /\ text \in Seq(Piece) /\ packet \in Seq(Piece)
    /\ topic \in {0} \cup Commands
    /\ history \in {"none", "ring", "failed"}
    /\ ring \in Seq(SeqRecord) /\ Len(ring) <= SeqCapacity /\ ringNext \in 1 .. SeqCapacity
    /\ fallback \in Seq(Commands) /\ Len(fallback) <= FallbackCapacity
    /\ fallbackNext \in 1 .. FallbackCapacity
    /\ done \in Seq(Execution)

\* Where a table of n places, len of them used, has the d-th last of what was put in.
Place(d, next, len) == IF d <= next - 2 THEN next - 1 - d ELSE next - 1 + len - d

\* The d-th last execution.
Before(d) == done[Len(done) - d]

\* The ring of records holds the last executions: the records turn in the order of the
\* executions, and that of an execution inside the window is valid and young.
InRing ==
    history # "failed" =>
      /\ Len(ring) < SeqCapacity => ringNext = 1 /\ Len(done) = Len(ring)
      /\ Len(ring) <= Len(done)
      /\ \A d \in 0 .. Len(ring) - 1 :
            /\ ring[Place(d, ringNext, Len(ring))].seq = Before(d).seq
            /\ ~Before(d).old => /\ ring[Place(d, ringNext, Len(ring))].valid
                                 /\ ~ring[Place(d, ringNext, Len(ring))].old

\* So does the table of numbers that stands in for it when memory is short.
InFallback ==
    history # "ring" =>
      /\ Len(fallback) < FallbackCapacity => fallbackNext = 1 /\ Len(done) = Len(fallback)
      /\ Len(fallback) <= Len(done)
      /\ \A d \in 0 .. Len(fallback) - 1 :
            fallback[Place(d, fallbackNext, Len(fallback))] = Before(d).seq

\* ExecutedOnce, and what makes it inductive.
CommandsInv == CommandTypes /\ InRing /\ InFallback /\ ExecutedOnce

-----------------------------------------------------------------------------

\* Every execution that is looked for has a place inside the table.
LEMMA Places ==
  ASSUME NEW len \in Nat, NEW next \in 1 .. len \cup {1}, NEW d \in 0 .. len - 1
  PROVE  Place(d, next, len) \in 1 .. len
BY DEF Place

\* A table with room.
LEMMA PlacesAppended ==
  ASSUME NEW len \in Nat
  PROVE  /\ Place(0, 1, len + 1) = len + 1
         /\ \A d \in 1 .. len : Place(d, 1, len + 1) = Place(d - 1, 1, len)
BY DEF Place

\* Where the place after the last one is.
LEMMA NextPlace ==
  ASSUME NEW n \in Nat \ {0}, NEW next \in 1 .. n
  PROVE  (next % n) + 1 = IF next = n THEN 1 ELSE next + 1
<1>1. CASE next = n
  BY <1>1
<1>2. CASE next < n
  BY <1>2
<1> QED
  BY <1>1, <1>2

\* A table that is full: the oldest gives way.
LEMMA PlacesTurn ==
  ASSUME NEW n \in Nat \ {0}, NEW next \in 1 .. n
  PROVE  /\ (next % n) + 1 \in 1 .. n
         /\ Place(0, (next % n) + 1, n) = next
         /\ \A d \in 1 .. n - 1 : /\ Place(d, (next % n) + 1, n) = Place(d - 1, next, n)
                                  /\ Place(d - 1, next, n) # next
<1>1. PICK m \in 1 .. n : m = (next % n) + 1 /\ m = IF next = n THEN 1 ELSE next + 1
  BY NextPlace
<1>2. /\ Place(0, m, n) = next
      /\ \A d \in 1 .. n - 1 : /\ Place(d, m, n) = Place(d - 1, next, n)
                               /\ Place(d - 1, next, n) # next
  BY <1>1 DEF Place
<1> QED
  BY <1>1, <1>2

\* An execution is the last one, and those before it stay as they are.
LEMMA ExecutedBefore ==
  ASSUME CommandTypes, NEW q \in Commands, Executed(q)
  PROVE  /\ done' \in Seq(Execution)
         /\ Len(done') = IF Len(done) + 1 > Remembered + 1 THEN Len(done) ELSE Len(done) + 1
         /\ Len(done') >= 1
         /\ Before(0)' = [seq |-> q, old |-> FALSE]
         /\ \A d \in 1 .. Len(done') - 1 : Before(d)' = Before(d - 1)
<1> DEFINE new == [seq |-> q, old |-> FALSE]
           all == Append(done, new)
<1>1. done \in Seq(Execution) /\ new \in Execution
  BY DEF CommandTypes, Execution
<1>2. Remembered \in Nat \ {0}
  BY CommandsAssumption DEF Remembered
<1>3. /\ all \in Seq(Execution) /\ Len(all) = Len(done) + 1 /\ all[Len(all)] = new
      /\ \A i \in 1 .. Len(done) : all[i] = done[i]
  <2> HIDE DEF new
  <2> QED
    BY <1>1
<1>4. done' = IF Len(all) > Remembered + 1 THEN Tail(all) ELSE all
  BY DEF Executed
<1> HIDE DEF all
<1>5. CASE Len(all) > Remembered + 1
  <2>1. /\ Tail(all) \in Seq(Execution) /\ Len(Tail(all)) = Len(done)
        /\ \A i \in 1 .. Len(done) : Tail(all)[i] = all[i + 1]
    BY <1>2, <1>3, <1>5
  <2>2. Len(done) \in Nat /\ Len(done) >= 1
    BY <1>1, <1>2, <1>3, <1>5
  <2>3. done' = Tail(all)
    BY <1>4, <1>5
  <2>4. Len(done') = Len(done)
    BY <2>1, <2>3
  <2>5. done'[Len(done)] = new
    BY ONLY <1>3, <2>1, <2>2, <2>3
  <2>6. ASSUME NEW d \in 1 .. Len(done) - 1
        PROVE  done'[Len(done) - d] = done[Len(done) - (d - 1)]
    <3>1. /\ Len(done) - d \in 1 .. Len(done) /\ Len(done) - d + 1 \in 1 .. Len(done)
          /\ Len(done) - d + 1 = Len(done) - (d - 1)
      BY ONLY <2>2, <2>6
    <3>2. done'[Len(done) - d] = all[Len(done) - d + 1]
      BY ONLY <2>1, <2>3, <3>1
    <3>3. all[Len(done) - d + 1] = done[Len(done) - d + 1]
      BY ONLY <1>3, <3>1
    <3> QED
      BY ONLY <3>1, <3>2, <3>3
  <2>7. \A d \in 1 .. Len(done') - 1 : Before(d)' = Before(d - 1)
    BY ONLY <2>4, <2>6 DEF Before
  <2>8. Before(0)' = new
    BY ONLY <2>2, <2>4, <2>5 DEF Before
  <2>9. Len(done') = IF Len(done) + 1 > Remembered + 1 THEN Len(done) ELSE Len(done) + 1
    BY ONLY <1>3, <1>5, <2>4
  <2> QED
    BY <2>1, <2>2, <2>3, <2>4, <2>7, <2>8, <2>9
<1>6. CASE ~(Len(all) > Remembered + 1)
  <2>1. Len(done) \in Nat
    BY <1>1
  <2>2. done' = all
    BY <1>4, <1>6
  <2>3. Len(done') = Len(done) + 1 /\ done'[Len(done) + 1] = new
    BY ONLY <1>3, <2>2
  <2>4. ASSUME NEW d \in 1 .. Len(done)
        PROVE  done'[Len(done) + 1 - d] = done[Len(done) - (d - 1)]
    <3>1. Len(done) + 1 - d \in 1 .. Len(done) /\ Len(done) + 1 - d = Len(done) - (d - 1)
      BY ONLY <2>1, <2>4
    <3> QED
      BY ONLY <1>3, <2>2, <3>1
  <2>5. \A d \in 1 .. Len(done') - 1 : Before(d)' = Before(d - 1)
    BY ONLY <2>1, <2>3, <2>4 DEF Before
  <2>6. Before(0)' = new
    BY ONLY <2>1, <2>3 DEF Before
  <2>7. Len(done') = IF Len(done) + 1 > Remembered + 1 THEN Len(done) ELSE Len(done) + 1
    BY ONLY <1>3, <1>6, <2>3
  <2> QED
    BY <1>3, <2>1, <2>2, <2>3, <2>5, <2>6, <2>7
<1> QED
  BY <1>5, <1>6

-----------------------------------------------------------------------------

\* An expired record is one that is old: the others stay as they are.
LEMMA Expires ==
  ASSUME CommandTypes, NEW q \in Commands
  PROVE  /\ Expire(q) \in Seq(SeqRecord) /\ Len(Expire(q)) = Len(ring)
         /\ \A i \in 1 .. Len(ring) :
               /\ Expire(q)[i].seq = ring[i].seq
               /\ ring[i].valid /\ ~ring[i].old => Expire(q)[i].valid /\ ~Expire(q)[i].old
<1>1. ring \in Seq(SeqRecord)
  BY DEF CommandTypes
<1>2. \A i \in 1 .. Len(ring) : ring[i] \in SeqRecord
  BY <1>1
<1>3. ASSUME NEW i \in 1 .. Len(ring)
      PROVE  /\ Expire(q)[i] \in SeqRecord /\ Expire(q)[i].seq = ring[i].seq
             /\ ring[i].valid /\ ~ring[i].old => Expire(q)[i].valid /\ ~Expire(q)[i].old
  <2>1. /\ [ring[i] EXCEPT !.valid = FALSE] \in SeqRecord
        /\ [ring[i] EXCEPT !.valid = FALSE].seq = ring[i].seq
    BY <1>2 DEF SeqRecord
  <2>2. CASE i \in Holding(q) /\ ring[i].old
    <3>1. Expire(q)[i] = [ring[i] EXCEPT !.valid = FALSE]
      BY <2>2 DEF Expire
    <3> QED
      BY <2>1, <2>2, <3>1
  <2>3. CASE ~(i \in Holding(q) /\ ring[i].old)
    <3>1. Expire(q)[i] = ring[i]
      BY <2>3 DEF Expire
    <3> QED
      BY <1>2, <3>1
  <2> QED
    BY <2>2, <2>3
<1>4. DOMAIN Expire(q) = 1 .. Len(ring) /\ Len(ring) \in Nat
  BY <1>1 DEF Expire
<1>5. Expire(q) = [i \in 1 .. Len(ring) |-> Expire(q)[i]]
  BY DEF Expire
<1>6. Expire(q) \in Seq(SeqRecord) /\ Len(Expire(q)) = Len(ring)
  <2>1. \A i \in 1 .. Len(ring) : Expire(q)[i] \in SeqRecord
    BY <1>3
  <2> QED
    BY <1>4, <1>5, <2>1
<1> QED
  BY <1>3, <1>6

\* What a new record does to a table of records that holds the executions.
LEMMA RingRecords ==
  ASSUME CommandTypes, InRing, history # "failed", NEW q \in Commands, NEW reply \in ReplyCopy,
         RecordIn(Expire(q), q, reply), Executed(q)
  PROVE  /\ ring' \in Seq(SeqRecord) /\ Len(ring') <= SeqCapacity /\ ringNext' \in 1 .. SeqCapacity
         /\ InRing'
<1> DEFINE new == [seq |-> q, valid |-> TRUE, old |-> FALSE, reply |-> reply]
           records == Expire(q)
           len == Len(ring)
<1>1. new \in SeqRecord /\ new.seq = q /\ new.valid /\ ~new.old
  BY DEF SeqRecord
<1>2. /\ records \in Seq(SeqRecord) /\ Len(records) = len
      /\ \A i \in 1 .. len :
            /\ records[i].seq = ring[i].seq
            /\ ring[i].valid /\ ~ring[i].old => records[i].valid /\ ~records[i].old
  BY Expires
<1>3. IF Len(records) < SeqCapacity THEN ring' = Append(records, new) /\ UNCHANGED ringNext
      ELSE ring' = [records EXCEPT ![ringNext] = new] /\ ringNext' = (ringNext % SeqCapacity) + 1
  BY DEF RecordIn
<1>4. /\ len \in Nat /\ len <= SeqCapacity /\ SeqCapacity \in Nat \ {0} /\ ringNext \in 1 .. SeqCapacity
      /\ Len(done) \in Nat /\ Remembered >= SeqCapacity /\ Remembered \in Nat
  BY CommandsAssumption DEF CommandTypes, Remembered
<1>5. /\ len < SeqCapacity => ringNext = 1 /\ Len(done) = len
      /\ len <= Len(done)
      /\ \A d \in 0 .. len - 1 :
            /\ ring[Place(d, ringNext, len)].seq = Before(d).seq
            /\ ~Before(d).old => /\ ring[Place(d, ringNext, len)].valid
                                 /\ ~ring[Place(d, ringNext, len)].old
  BY DEF InRing
<1>6. /\ Len(done') = (IF Len(done) + 1 > Remembered + 1 THEN Len(done) ELSE Len(done) + 1)
      /\ Before(0)'.seq = q
      /\ \A d \in 1 .. Len(done') - 1 : Before(d)' = Before(d - 1)
  BY ExecutedBefore
<1> HIDE DEF new, records
<1>7. CASE len < SeqCapacity
  <2>1. /\ ring' \in Seq(SeqRecord) /\ Len(ring') = len + 1 /\ ring'[len + 1] = new
        /\ \A i \in 1 .. len : ring'[i] = records[i]
    BY <1>1, <1>2, <1>3, <1>7
  <2>2. ringNext' = 1 /\ ringNext = 1 /\ Len(done) = len /\ Len(done') = len + 1
    BY <1>2, <1>3, <1>4, <1>5, <1>6, <1>7
  <2>3. ASSUME NEW d \in 0 .. len
        PROVE  /\ ring'[Place(d, 1, len + 1)].seq = Before(d)'.seq
               /\ ~Before(d)'.old => ring'[Place(d, 1, len + 1)].valid /\ ~ring'[Place(d, 1, len + 1)].old
    <3>1. CASE d = 0
      BY <1>1, <1>4, <1>6, <2>1, <3>1, PlacesAppended
    <3>2. CASE d \in 1 .. len
      <4>1. /\ Place(d, 1, len + 1) = Place(d - 1, 1, len) /\ d - 1 \in 0 .. len - 1
            /\ Before(d)' = Before(d - 1)
        BY <1>4, <1>6, <2>2, <3>2, PlacesAppended
      <4>2. Place(d - 1, 1, len) \in 1 .. len
        BY <1>4, <4>1, Places
      <4> QED
        BY <1>2, <1>5, <2>1, <2>2, <4>1, <4>2
    <3> QED
      BY <1>4, <3>1, <3>2
  <2>4. Len(ring') - 1 = len /\ Len(ring') <= SeqCapacity /\ Len(ring') <= Len(done')
    BY <1>4, <1>7, <2>1, <2>2
  <2>5. InRing'
    BY <2>1, <2>2, <2>3, <2>4 DEF InRing
  <2> QED
    BY <1>4, <2>1, <2>2, <2>4, <2>5
<1>8. CASE ~(len < SeqCapacity)
  <2>1. len = SeqCapacity
    BY <1>4, <1>8
  <2>2. ring' = [records EXCEPT ![ringNext] = new] /\ ringNext' = (ringNext % SeqCapacity) + 1
    BY <1>2, <1>3, <1>8
  <2>3. /\ ring' \in Seq(SeqRecord) /\ Len(ring') = len /\ ring'[ringNext] = new
        /\ \A i \in 1 .. len : i # ringNext => ring'[i] = records[i]
    <3>1. ringNext \in 1 .. Len(records)
      BY <1>2, <1>4, <2>1
    <3> QED
      BY <1>1, <1>2, <2>2, <3>1
  <2>4. /\ ringNext' \in 1 .. SeqCapacity /\ Place(0, ringNext', len) = ringNext
        /\ \A d \in 1 .. len - 1 : /\ Place(d, ringNext', len) = Place(d - 1, ringNext, len)
                                   /\ Place(d - 1, ringNext, len) # ringNext
    <3>1. len \in Nat \ {0} /\ ringNext \in 1 .. len /\ ringNext' = (ringNext % len) + 1
      BY <1>4, <2>1, <2>2
    <3> HIDE DEF len
    <3>2. /\ ringNext' \in 1 .. len /\ Place(0, ringNext', len) = ringNext
          /\ \A d \in 1 .. len - 1 : /\ Place(d, ringNext', len) = Place(d - 1, ringNext, len)
                                     /\ Place(d - 1, ringNext, len) # ringNext
      BY ONLY <3>1, PlacesTurn
    <3> QED
      BY <2>1, <3>2
  <2>5. len <= Len(done')
    BY <1>4, <1>5, <1>6
  <2>6. ASSUME NEW d \in 0 .. len - 1
        PROVE  /\ ring'[Place(d, ringNext', len)].seq = Before(d)'.seq
               /\ ~Before(d)'.old => /\ ring'[Place(d, ringNext', len)].valid
                                     /\ ~ring'[Place(d, ringNext', len)].old
    <3>1. CASE d = 0
      BY <1>1, <1>6, <2>3, <2>4, <3>1
    <3>2. CASE d \in 1 .. len - 1
      <4>1. /\ Place(d, ringNext', len) = Place(d - 1, ringNext, len)
            /\ Place(d - 1, ringNext, len) # ringNext /\ d - 1 \in 0 .. len - 1
        BY <1>4, <2>4, <3>2
      <4>2. Before(d)' = Before(d - 1)
        <5>1. Len(done') \in Nat
          BY <1>4, <1>6
        <5> QED
          BY <1>4, <1>6, <2>5, <3>2, <5>1
      <4>3. Place(d - 1, ringNext, len) \in 1 .. len
        BY <1>4, <2>1, <4>1, Places
      <4> QED
        BY <1>2, <1>5, <2>3, <4>1, <4>2, <4>3
    <3> QED
      BY <1>4, <3>1, <3>2
  <2>7. InRing'
    BY <1>4, <2>1, <2>3, <2>5, <2>6 DEF InRing
  <2> QED
    BY <1>4, <2>1, <2>3, <2>4, <2>7
<1> QED
  BY <1>7, <1>8

\* The same of the table that is there when memory is short.
LEMMA FallbackRecords ==
  ASSUME CommandTypes, InFallback, history # "ring", NEW q \in Commands,
         RecordFallback(q), Executed(q)
  PROVE  /\ fallback' \in Seq(Commands) /\ Len(fallback') <= FallbackCapacity
         /\ fallbackNext' \in 1 .. FallbackCapacity
         /\ InFallback'
<1> DEFINE len == Len(fallback)
<1>1. /\ fallback \in Seq(Commands) /\ len \in Nat /\ len <= FallbackCapacity
      /\ FallbackCapacity \in Nat \ {0} /\ fallbackNext \in 1 .. FallbackCapacity
      /\ Len(done) \in Nat /\ Remembered >= FallbackCapacity /\ Remembered \in Nat
  BY CommandsAssumption DEF CommandTypes, Remembered
<1>2. /\ len < FallbackCapacity => fallbackNext = 1 /\ Len(done) = len
      /\ len <= Len(done)
      /\ \A d \in 0 .. len - 1 : fallback[Place(d, fallbackNext, len)] = Before(d).seq
  BY DEF InFallback
<1>3. /\ Len(done') = (IF Len(done) + 1 > Remembered + 1 THEN Len(done) ELSE Len(done) + 1)
      /\ Before(0)'.seq = q
      /\ \A d \in 1 .. Len(done') - 1 : Before(d)' = Before(d - 1)
  BY ExecutedBefore
<1>4. CASE len < FallbackCapacity
  <2>1. /\ fallback' = Append(fallback, q) /\ fallbackNext' = fallbackNext
        /\ fallbackNext = 1 /\ Len(done) = len
    BY <1>2, <1>4 DEF RecordFallback
  <2>2. /\ fallback' \in Seq(Commands) /\ Len(fallback') = len + 1 /\ fallback'[len + 1] = q
        /\ \A i \in 1 .. len : fallback'[i] = fallback[i]
    BY <1>1, <2>1
  <2>3. Len(done') = len + 1
    BY <1>1, <1>3, <1>4, <2>1
  <2>4. ASSUME NEW d \in 0 .. len PROVE fallback'[Place(d, 1, len + 1)] = Before(d)'.seq
    <3>1. CASE d = 0
      BY <1>1, <1>3, <2>2, <3>1, PlacesAppended
    <3>2. CASE d \in 1 .. len
      <4>1. /\ Place(d, 1, len + 1) = Place(d - 1, 1, len) /\ d - 1 \in 0 .. len - 1
            /\ Before(d)' = Before(d - 1)
        <5>1. Place(d, 1, len + 1) = Place(d - 1, 1, len)
          BY <1>1, <3>2, PlacesAppended
        <5>2. d - 1 \in 0 .. len - 1 /\ d \in 1 .. Len(done') - 1
          BY <1>1, <2>3, <3>2
        <5> QED
          BY <1>3, <5>1, <5>2
      <4>2. Place(d - 1, 1, len) \in 1 .. len
        BY <1>1, <4>1, Places
      <4> QED
        BY <1>2, <2>1, <2>2, <4>1, <4>2
    <3> QED
      BY <1>1, <3>1, <3>2
  <2>5. Len(fallback') - 1 = len /\ Len(fallback') <= FallbackCapacity /\ Len(fallback') <= Len(done')
    BY <1>1, <1>4, <2>2, <2>3
  <2>6. InFallback'
    BY <2>1, <2>2, <2>3, <2>4, <2>5 DEF InFallback
  <2> QED
    BY <1>1, <2>1, <2>2, <2>5, <2>6
<1>5. CASE ~(len < FallbackCapacity)
  <2>1. /\ len = FallbackCapacity
        /\ fallback' = [fallback EXCEPT ![fallbackNext] = q]
        /\ fallbackNext' = (fallbackNext % FallbackCapacity) + 1
    BY <1>1, <1>5 DEF RecordFallback
  <2>2. /\ fallback' \in Seq(Commands) /\ Len(fallback') = len /\ fallback'[fallbackNext] = q
        /\ \A i \in 1 .. len : i # fallbackNext => fallback'[i] = fallback[i]
    BY <1>1, <2>1
  <2>3. /\ fallbackNext' \in 1 .. FallbackCapacity /\ Place(0, fallbackNext', len) = fallbackNext
        /\ \A d \in 1 .. len - 1 : /\ Place(d, fallbackNext', len) = Place(d - 1, fallbackNext, len)
                                   /\ Place(d - 1, fallbackNext, len) # fallbackNext
    <3>1. len \in Nat \ {0} /\ fallbackNext \in 1 .. len /\ fallbackNext' = (fallbackNext % len) + 1
      BY <1>1, <2>1
    <3> HIDE DEF len
    <3>2. /\ fallbackNext' \in 1 .. len /\ Place(0, fallbackNext', len) = fallbackNext
          /\ \A d \in 1 .. len - 1 : /\ Place(d, fallbackNext', len) = Place(d - 1, fallbackNext, len)
                                     /\ Place(d - 1, fallbackNext, len) # fallbackNext
      BY ONLY <3>1, PlacesTurn
    <3> QED
      BY <2>1, <3>2
  <2>4. len <= Len(done') /\ Len(done') \in Nat
    BY <1>1, <1>2, <1>3
  <2>5. ASSUME NEW d \in 0 .. len - 1 PROVE fallback'[Place(d, fallbackNext', len)] = Before(d)'.seq
    <3>1. CASE d = 0
      BY <1>3, <2>2, <2>3, <3>1
    <3>2. CASE d \in 1 .. len - 1
      <4>1. /\ Place(d, fallbackNext', len) = Place(d - 1, fallbackNext, len)
            /\ Place(d - 1, fallbackNext, len) # fallbackNext /\ d - 1 \in 0 .. len - 1
        BY <1>1, <2>3, <3>2
      <4>2. Before(d)' = Before(d - 1)
        BY <1>1, <1>3, <2>4, <3>2
      <4>3. Place(d - 1, fallbackNext, len) \in 1 .. len
        BY <1>1, <2>1, <4>1, Places
      <4> QED
        BY <1>2, <2>2, <4>1, <4>2, <4>3
    <3> QED
      BY <1>1, <3>1, <3>2
  <2>6. InFallback'
    BY <1>1, <2>1, <2>2, <2>4, <2>5 DEF InFallback
  <2> QED
    BY <1>1, <2>1, <2>2, <2>3, <2>6
<1> QED
  BY <1>4, <1>5

-----------------------------------------------------------------------------

\* Among the executions that are remembered is none of the command.
LEMMA RingKnows ==
  ASSUME CommandTypes, InRing, history # "failed", NEW q \in Commands, ~Known(q),
         NEW d \in 0 .. Len(done) - 1, d < SeqCapacity, ~Before(d).old
  PROVE  Before(d).seq # q
<1>1. ring \in Seq(SeqRecord) /\ Len(ring) \in Nat /\ Len(done) \in Nat /\ SeqCapacity \in Nat
      /\ Len(ring) <= SeqCapacity /\ ringNext \in 1 .. SeqCapacity
  BY CommandsAssumption DEF CommandTypes
<1>2. d \in 0 .. Len(ring) - 1
  BY <1>1 DEF InRing
<1>3. ringNext \in 1 .. Len(ring) \cup {1}
  BY <1>1 DEF InRing
<1>4. PICK i \in 1 .. Len(ring) : i = Place(d, ringNext, Len(ring))
  BY <1>1, <1>2, <1>3, Places
<1>5. ring[i].seq = Before(d).seq /\ ring[i].valid /\ ~ring[i].old
  BY <1>2, <1>4 DEF InRing
<1> QED
  BY <1>5 DEF Known, Holding

\* The same of the table of numbers.
LEMMA FallbackKnows ==
  ASSUME CommandTypes, InFallback, history # "ring", NEW q \in Commands, q \notin Range(fallback),
         NEW d \in 0 .. Len(done) - 1, d < FallbackCapacity
  PROVE  Before(d).seq # q
<1>1. fallback \in Seq(Commands) /\ Len(fallback) \in Nat /\ Len(done) \in Nat
      /\ FallbackCapacity \in Nat
      /\ Len(fallback) <= FallbackCapacity /\ fallbackNext \in 1 .. FallbackCapacity
  BY CommandsAssumption DEF CommandTypes
<1>2. d \in 0 .. Len(fallback) - 1
  BY <1>1 DEF InFallback
<1>3. fallbackNext \in 1 .. Len(fallback) \cup {1}
  BY <1>1 DEF InFallback
<1>4. PICK i \in 1 .. Len(fallback) : i = Place(d, fallbackNext, Len(fallback))
  BY <1>1, <1>2, <1>3, Places
<1>5. fallback[i] = Before(d).seq
  BY <1>2, <1>4 DEF InFallback
<1> QED
  BY <1>1, <1>4, <1>5 DEF Range

\* A command that is among none of the last executions can be executed.
LEMMA OnceExecuted ==
  ASSUME CommandTypes, InRing, InFallback, NEW q \in Commands, Executed(q),
         history # "failed" => ~Known(q), history # "ring" => q \notin Range(fallback),
         history' \in {"ring", "failed"}, history # "none" => history' = history
  PROVE  ExecutedOnce'
<1>1. /\ done' \in Seq(Execution) /\ Len(done') >= 1
      /\ Before(0)' = [seq |-> q, old |-> FALSE]
      /\ \A d \in 1 .. Len(done') - 1 : Before(d)' = Before(d - 1)
      /\ Len(done') <= Len(done) + 1
  BY ExecutedBefore DEF CommandTypes
<1>2. Len(done') \in Nat /\ Len(done) \in Nat /\ SeqCapacity \in Nat /\ FallbackCapacity \in Nat
  BY <1>1, CommandsAssumption DEF CommandTypes
<1>3. Last(done').seq = q
  BY <1>1, <1>2 DEF Before, Last
<1>4. ASSUME NEW i \in 1 .. Len(done') - 1, Remembers(i)' PROVE done'[i].seq # q
  <2>1. PICK d \in 1 .. Len(done') - 1 : i = Len(done') - d
    BY <1>2
  <2>2. done'[i] = Before(d)' /\ Before(d)' = Before(d - 1)
    BY <1>1, <2>1 DEF Before
  <2>3. d - 1 \in 0 .. Len(done) - 1 /\ Len(done') - i = d
    BY <1>1, <1>2, <2>1
  <2>4. CASE history' = "ring"
    <3>1. d <= SeqCapacity /\ ~done'[i].old
      BY <1>4, <2>3, <2>4 DEF Remembers
    <3>2. history # "failed" /\ ~Known(q)
      BY <2>4
    <3>3. d - 1 < SeqCapacity /\ ~Before(d - 1).old
      BY <1>2, <2>1, <2>2, <3>1
    <3> QED
      BY <2>2, <2>3, <3>2, <3>3, RingKnows
  <2>5. CASE history' = "failed"
    <3>1. d <= FallbackCapacity
      BY <1>4, <2>3, <2>5 DEF Remembers
    <3>2. history # "ring" /\ q \notin Range(fallback)
      BY <2>5
    <3>3. d - 1 < FallbackCapacity
      BY <1>2, <2>1, <3>1
    <3> QED
      BY <2>2, <2>3, <3>2, <3>3, FallbackKnows
  <2> QED
    BY <2>4, <2>5
<1> QED
  BY <1>3, <1>4 DEF ExecutedOnce

-----------------------------------------------------------------------------

\* A step after which the node remembers what it did before.
LEMMA StillKnown ==
  ASSUME CommandsInv, CommandTypes', UNCHANGED memory
  PROVE  CommandsInv'
<1>1. InRing'
  BY DEF CommandsInv, InRing, Before, memory
<1>2. InFallback'
  BY DEF CommandsInv, InFallback, Before, memory
<1>3. ExecutedOnce'
  BY DEF CommandsInv, ExecutedOnce, Remembers, memory
<1> QED
  BY <1>1, <1>2, <1>3 DEF CommandsInv

\* The command that a packet was put together from.
LEMMA NumberTyped ==
  ASSUME CommandTypes, packet # <<>>
  PROVE  Number \in Commands
<1>1. packet \in Seq(Piece)
  BY DEF CommandTypes
<1>2. packet[1] \in Piece
  BY <1>1
<1> QED
  BY <1>2 DEF Number, Piece

\* A command is executed (process_cmd_json) when the tables do not have it.
LEMMA CommandsPerform == ASSUME CommandsInv, NEW ok \in BOOLEAN, Perform(ok) PROVE CommandsInv'
<1> DEFINE kind == asks[topic].kind
           reply == IF Cacheable(kind) THEN Replies[kind] ELSE "none"
<1>1. CommandTypes /\ InRing /\ InFallback
  BY DEF CommandsInv
<1>2. packet # <<>> /\ topic # 0 /\ ~Duplicate /\ Number \in Commands /\ Executed(Number)
      /\ topic' = 0 /\ packet' = <<>> /\ UNCHANGED <<asks, wire, data, text>>
  BY <1>1, NumberTyped DEF Perform, Finish
<1>3. reply \in ReplyCopy
  <2>1. asks[topic] \in [kind : DOMAIN Replies, long : BOOLEAN]
    <3> DEFINE S == [kind : DOMAIN Replies, long : BOOLEAN]
    <3>1. asks \in Seq(S) /\ topic \in DOMAIN asks
      BY <1>1, <1>2 DEF CommandTypes, AsksType, Commands
    <3> HIDE DEF S
    <3>2. asks[topic] \in S
      BY <3>1
    <3> QED
      BY <3>2 DEF S
  <2>2. kind \in DOMAIN Replies
    BY <2>1
  <2> HIDE DEF kind
  <2>3. Replies[kind] \in ReplyCopy
    BY <2>2 DEF Replies, ReplyCopy
  <2> QED
    BY <2>3 DEF ReplyCopy
<1>4. /\ history' \in {"ring", "failed"} /\ (history # "none" => history' = history)
  BY <1>1 DEF Perform, Ensure, CommandTypes
<1>5. /\ (history # "failed" => ~Known(Number))
      /\ (history # "ring" => Number \notin Range(fallback))
  BY <1>2 DEF Duplicate
<1>6. ExecutedOnce'
  BY <1>1, <1>2, <1>4, <1>5, OnceExecuted
<1>7. done' \in Seq(Execution)
  BY <1>1, <1>2, ExecutedBefore
<1>8. AsksType' /\ Commands' = Commands /\ Piece' = Piece
  BY <1>1, <1>2 DEF CommandTypes, AsksType, Commands, Piece
<1>9. CASE history' = "ring"
  <2>1. RecordIn(Expire(Number), Number, reply) /\ UNCHANGED <<fallback, fallbackNext>>
    BY <1>9 DEF Perform
  <2>2. history # "failed"
    BY <1>4, <1>9
  <2> HIDE DEF reply
  <2>3. /\ ring' \in Seq(SeqRecord) /\ Len(ring') <= SeqCapacity /\ ringNext' \in 1 .. SeqCapacity
        /\ InRing'
    BY <1>1, <1>2, <1>3, <2>1, <2>2, RingRecords
  <2>4. InFallback'
    BY <1>9 DEF InFallback
  <2>5. CommandTypes'
    <3>1. SeqRecord' = SeqRecord /\ Execution' = Execution
      BY <1>8 DEF SeqRecord, Execution
    <3> QED
      BY <1>1, <1>2, <1>4, <1>7, <1>8, <2>1, <2>3, <3>1 DEF CommandTypes
  <2> QED
    BY <1>6, <2>3, <2>4, <2>5 DEF CommandsInv
<1>10. CASE history' = "failed"
  <2>1. RecordFallback(Number) /\ UNCHANGED <<ring, ringNext>>
    BY <1>10 DEF Perform
  <2>2. history # "ring"
    BY <1>4, <1>10
  <2>3. /\ fallback' \in Seq(Commands) /\ Len(fallback') <= FallbackCapacity
        /\ fallbackNext' \in 1 .. FallbackCapacity
        /\ InFallback'
    BY <1>1, <1>2, <2>1, <2>2, FallbackRecords
  <2>4. InRing'
    BY <1>10 DEF InRing
  <2>5. CommandTypes'
    <3>1. SeqRecord' = SeqRecord /\ Execution' = Execution
      BY <1>8 DEF SeqRecord, Execution
    <3> QED
      BY <1>1, <1>2, <1>4, <1>7, <1>8, <2>1, <2>3, <3>1 DEF CommandTypes
  <2> QED
    BY <1>6, <2>3, <2>4, <2>5 DEF CommandsInv
<1> QED
  BY <1>4, <1>9, <1>10

\* A restart forgets the executions and the tables.
LEMMA CommandsForget == ASSUME CommandsInv, Forget PROVE CommandsInv'
<1>1. /\ asks' = asks /\ wire' = <<>> /\ data' = <<>> /\ topic' = 0 /\ text' = <<>> /\ packet' = <<>>
      /\ history' = "none" /\ ring' = <<>> /\ ringNext' = 1 /\ fallback' = <<>> /\ fallbackNext' = 1
      /\ done' = <<>>
  BY DEF Forget, asked
<1>2. CommandTypes'
  BY <1>1, CommandsAssumption DEF CommandsInv, CommandTypes, AsksType
<1>3. InRing' /\ InFallback' /\ ExecutedOnce'
  BY <1>1 DEF InRing, InFallback, ExecutedOnce
<1> QED
  BY <1>2, <1>3 DEF CommandsInv

\* The window passes: what was recorded is old, and so is what was executed.
LEMMA CommandsWindow == ASSUME CommandsInv, Window PROVE CommandsInv'
<1>1. /\ UNCHANGED <<asks, wire, data, topic, text, packet, history, ringNext, fallback, fallbackNext>>
      /\ ring' = [i \in 1 .. Len(ring) |-> [ring[i] EXCEPT !.old = TRUE]]
      /\ done' = [i \in 1 .. Len(done) |-> [done[i] EXCEPT !.old = TRUE]]
  BY DEF Window, asked, assembly
<1>2. ring \in Seq(SeqRecord) /\ done \in Seq(Execution)
  BY DEF CommandsInv, CommandTypes
<1>3. /\ ring' \in Seq(SeqRecord) /\ Len(ring') = Len(ring)
      /\ \A i \in 1 .. Len(ring) : ring'[i].seq = ring[i].seq
  <2>1. ASSUME NEW i \in 1 .. Len(ring)
        PROVE  [ring[i] EXCEPT !.old = TRUE] \in SeqRecord /\ ring'[i].seq = ring[i].seq
    <3>1. ring[i] \in SeqRecord
      BY <1>2
    <3>2. ring'[i] = [ring[i] EXCEPT !.old = TRUE]
      BY <1>1
    <3> QED
      BY ONLY <3>1, <3>2 DEF SeqRecord
  <2>2. Len(ring) \in Nat
    BY <1>2
  <2> QED
    BY <1>1, <2>1, <2>2
<1>4. /\ done' \in Seq(Execution) /\ Len(done') = Len(done)
      /\ \A i \in 1 .. Len(done) : done'[i].seq = done[i].seq /\ done'[i].old
  <2>1. ASSUME NEW i \in 1 .. Len(done)
        PROVE  [done[i] EXCEPT !.old = TRUE] \in Execution /\ done'[i].seq = done[i].seq /\ done'[i].old
    <3>1. done[i] \in Execution
      BY <1>2
    <3>2. done'[i] = [done[i] EXCEPT !.old = TRUE]
      BY <1>1
    <3> QED
      BY ONLY <3>1, <3>2 DEF Execution
  <2>2. Len(done) \in Nat
    BY <1>2
  <2> QED
    BY <1>1, <2>1, <2>2
<1>5. CommandTypes'
  BY <1>1, <1>3, <1>4 DEF CommandsInv, CommandTypes, AsksType, Piece, Commands, Execution, SeqRecord
<1>6. \A d \in 0 .. Len(done) - 1 : Before(d)'.seq = Before(d).seq /\ Before(d)'.old
  <2>1. Len(done) \in Nat
    BY <1>2
  <2> QED
    BY <1>4, <2>1 DEF Before
<1>7. InRing'
  <2> SUFFICES ASSUME history # "failed" PROVE InRing'
    BY <1>1 DEF InRing
  <2>1. Len(ring) \in Nat /\ Len(done) \in Nat /\ Len(ring) <= SeqCapacity /\ SeqCapacity \in Nat
        /\ ringNext \in 1 .. SeqCapacity
    BY <1>2, CommandsAssumption DEF CommandsInv, CommandTypes
  <2>2. /\ Len(ring) < SeqCapacity => ringNext = 1 /\ Len(done) = Len(ring)
        /\ Len(ring) <= Len(done)
        /\ \A d \in 0 .. Len(ring) - 1 : ring[Place(d, ringNext, Len(ring))].seq = Before(d).seq
    BY DEF CommandsInv, InRing
  <2>3. \A d \in 0 .. Len(ring) - 1 : Place(d, ringNext, Len(ring)) \in 1 .. Len(ring)
    <3>1. ringNext \in 1 .. Len(ring) \cup {1}
      BY <2>1, <2>2
    <3> QED
      BY <2>1, <3>1, Places
  <2>4. \A d \in 0 .. Len(ring) - 1 : d \in 0 .. Len(done) - 1
    BY <2>1, <2>2
  <2> QED
    BY <1>1, <1>3, <1>4, <1>6, <2>2, <2>3, <2>4 DEF InRing
<1>8. InFallback'
  <2> SUFFICES ASSUME history # "ring" PROVE InFallback'
    BY <1>1 DEF InFallback
  <2>1. /\ Len(fallback) < FallbackCapacity => fallbackNext = 1 /\ Len(done) = Len(fallback)
        /\ Len(fallback) <= Len(done)
        /\ \A d \in 0 .. Len(fallback) - 1 : fallback[Place(d, fallbackNext, Len(fallback))] = Before(d).seq
    BY DEF CommandsInv, InFallback
  <2>2. \A d \in 0 .. Len(fallback) - 1 : d \in 0 .. Len(done) - 1
    <3>1. Len(fallback) \in Nat /\ Len(done) \in Nat
      BY <1>2 DEF CommandsInv, CommandTypes
    <3> QED
      BY <2>1, <3>1
  <2> QED
    BY <1>1, <1>4, <1>6, <2>1, <2>2 DEF InFallback
<1>9. ExecutedOnce'
  <2>1. Len(done) \in Nat
    BY <1>2
  <2>2. ASSUME NEW i \in 1 .. Len(done) - 1, Remembers(i)' PROVE done'[i].seq # done'[Len(done)].seq
    <3>1. history # "ring" /\ Remembers(i)
      BY <1>1, <1>4, <2>1, <2>2 DEF Remembers
    <3>2. done[i].seq # done[Len(done)].seq
      BY <3>1 DEF CommandsInv, ExecutedOnce, Last
    <3> QED
      BY <1>4, <2>1, <3>2
  <2> QED
    BY <1>4, <2>2 DEF ExecutedOnce, Last
<1> QED
  BY <1>5, <1>7, <1>8, <1>9 DEF CommandsInv

\* mqtt_rx takes a piece from its queue.
LEMMA CommandsReceive == ASSUME CommandsInv, Receive PROVE CommandsInv'
<1>1. /\ data # <<>> /\ data' = Tail(data) /\ UNCHANGED <<asks, wire, memory>>
  BY DEF Receive, asked
<1> DEFINE piece == Head(data)
           longer == IF Len(text) >= TextPieces THEN <<piece>> ELSE Append(text, piece)
<1>2. piece \in Piece /\ data' \in Seq(Piece) /\ text \in Seq(Piece) /\ packet \in Seq(Piece)
      /\ topic \in {0} \cup Commands
  BY <1>1 DEF CommandsInv, CommandTypes
<1>3. longer \in Seq(Piece) /\ <<piece>> \in Seq(Piece)
  BY <1>2
<1>4. /\ topic' \in {0} \cup Commands
  <2>1. topic' = IF piece.part \in {"head", "whole"} THEN piece.of ELSE topic
    BY DEF Receive, Stash
  <2> HIDE DEF piece
  <2> QED
    BY <1>2, <2>1 DEF Piece
<1>5. text' \in Seq(Piece) /\ packet' \in Seq(Piece)
  <2>1. \/ text' = <<>> /\ packet' = <<piece>>
        \/ text' = <<>> /\ packet' = longer
        \/ text' = longer /\ packet' = packet
    BY DEF Receive
  <2> HIDE DEF longer, piece
  <2>2. <<>> \in Seq(Piece)
    OBVIOUS
  <2> QED
    BY ONLY <1>2, <1>3, <2>1, <2>2
<1>6. CommandTypes'
  BY <1>1, <1>2, <1>4, <1>5 DEF CommandsInv, CommandTypes, AsksType, memory, Commands, Piece, Execution, SeqRecord
<1> QED
  BY <1>1, <1>6, StillKnown

\* The server sends the pieces of a command.
LEMMA CommandsSend == ASSUME CommandsInv, NEW q \in Commands, Send(q) PROVE CommandsInv'
<1>1. Pieces(q) \in Seq(Piece)
  <2>1. /\ [of |-> q, part |-> "head"] \in Piece /\ [of |-> q, part |-> "tail"] \in Piece
        /\ [of |-> q, part |-> "whole"] \in Piece
    BY DEF Piece
  <2> QED
    BY <2>1 DEF Pieces
<1>2. UNCHANGED <<asks, data, topic, text, packet, memory>> /\ wire' = Pieces(q)
  BY DEF Send, assembly
<1>3. CommandTypes'
  BY <1>1, <1>2 DEF CommandsInv, CommandTypes, AsksType, memory, Commands, Piece, Execution, SeqRecord
<1> QED
  BY <1>2, <1>3, StillKnown

\* The steps that move pieces, or end a packet, and remember nothing.
LEMMA CommandsPass ==
  ASSUME CommandsInv, UNCHANGED memory, asks' = asks,
         wire' \in {wire, Tail(wire)}, wire' = wire \/ wire # <<>>,
         data' = data \/ (wire # <<>> /\ data' = Append(data, Head(wire))),
         text' \in {text, <<>>}, packet' \in {packet, <<>>}, topic' \in {topic, 0}
  PROVE  CommandsInv'
<1>1. /\ wire \in Seq(Piece) /\ data \in Seq(Piece) /\ text \in Seq(Piece) /\ packet \in Seq(Piece)
      /\ topic \in {0} \cup Commands
  BY DEF CommandsInv, CommandTypes
<1>2. wire' \in Seq(Piece)
  <2>1. CASE wire' = wire
    BY <1>1, <2>1
  <2>2. CASE wire' = Tail(wire) /\ wire # <<>>
    <3>1. Tail(wire) \in Seq(Piece)
      BY <1>1, <2>2
    <3> QED
      BY <2>2, <3>1
  <2> QED
    BY <2>1, <2>2
<1>3. data' \in Seq(Piece)
  BY <1>1
<1>4. text' \in Seq(Piece) /\ packet' \in Seq(Piece) /\ topic' \in {0} \cup Commands
  <2>1. <<>> \in Seq(Piece)
    OBVIOUS
  <2>2. text' \in Seq(Piece)
    BY <1>1, <2>1
  <2>3. packet' \in Seq(Piece)
    BY <1>1, <2>1
  <2>4. topic' \in {0} \cup Commands
    BY <1>1
  <2> QED
    BY <2>2, <2>3, <2>4
<1>5. CommandTypes'
  BY <1>2, <1>3, <1>4 DEF CommandsInv, CommandTypes, AsksType, memory, Commands, Piece, Execution, SeqRecord
<1> QED
  BY <1>5, StillKnown

\* Every step keeps the invariant.
LEMMA CommandsKeep == CommandsInv /\ (CommandsNext \/ UNCHANGED commandVars) => CommandsInv'
<1> SUFFICES ASSUME CommandsInv, CommandsNext \/ UNCHANGED commandVars PROVE CommandsInv'
  OBVIOUS
<1>1. CASE UNCHANGED commandVars
  BY <1>1, CommandsPass DEF commandVars, asked, assembly
<1>2. ASSUME NEW q \in Commands, Send(q) PROVE CommandsInv'
  BY <1>2, CommandsSend
<1>3. CASE HandOver
  BY <1>3, CommandsPass DEF HandOver, asked, assembly
<1>4. CASE QueueFull
  BY <1>4, CommandsPass DEF QueueFull, asked, assembly
<1>5. CASE Receive
  BY <1>5, CommandsReceive
<1>6. CASE Silence
  BY <1>6, CommandsPass DEF Silence, asked
<1>7. CASE Unreadable
  BY <1>7, CommandsPass DEF Unreadable, Finish
<1>8. CASE SetConfig
  BY <1>8, CommandsForget DEF SetConfig
<1>9. ASSUME NEW ok \in BOOLEAN, Replay(ok) PROVE CommandsInv'
  BY <1>9, CommandsPass DEF Replay, Finish
<1>10. ASSUME NEW ok \in BOOLEAN, Perform(ok) PROVE CommandsInv'
  BY <1>10, CommandsPerform
<1>11. CASE Window
  BY <1>11, CommandsWindow
<1>12. CASE PowerLoss
  BY <1>12, CommandsForget DEF PowerLoss
<1> QED
  BY <1>1, <1>2, <1>3, <1>4, <1>5, <1>6, <1>7, <1>8, <1>9, <1>10, <1>11, <1>12 DEF CommandsNext, MqttRx

\* It holds at a start.
LEMMA CommandsStart == AsksType /\ CommandsInit => CommandsInv
<1> SUFFICES ASSUME AsksType, CommandsInit PROVE CommandsInv
  OBVIOUS
<1> USE DEF CommandsInit
<1>1. CommandTypes
  BY CommandsAssumption DEF CommandTypes
<1>2. InRing /\ InFallback /\ ExecutedOnce
  BY DEF InRing, InFallback, ExecutedOnce
<1> QED
  BY <1>1, <1>2 DEF CommandsInv

\* A command that comes again within the window, while the tables have room for it, is
\* answered from the cache or passed over, and executed once (process_cmd_json).
THEOREM ExecutedOnceAlways == Spec => []ExecutedOnce
<1>1. Init => CommandsInv
  <2>1. Init => AsksType /\ CommandsInit
    BY ScenariosAssumption DEF Init, AsksType
  <2> QED
    BY <2>1, CommandsStart
<1>2. CommandsInv /\ [Next]_vars => CommandsInv'
  <2> SUFFICES ASSUME CommandsInv, [Next]_vars PROVE CommandsInv'
    OBVIOUS
  <2>1. CASE CommandsNext
    BY <2>1, CommandsKeep
  <2>2. CASE UNCHANGED commandState
    BY <2>2, CommandsPass DEF commandState, asked, assembly
  <2> QED
    BY <2>1, <2>2 DEF Next, vars
<1>3. CommandsInv => ExecutedOnce
  BY DEF CommandsInv
<1> QED
  BY <1>1, <1>2, <1>3, PTL DEF Spec

-----------------------------------------------------------------------------
(***************************************************************************)
(* The cache of samples.                                                   *)
(***************************************************************************)

\* A sample that is marked as acknowledged, and will not be published again, is one whose
\* publication the broker has confirmed (mqtt_publish_track, app_mqtt_publish_settled).
THEOREM AckedConfirmedAlways == Spec => []AckedConfirmed
<1>1. Init => StoreInv
  <2> SUFFICES ASSUME Init PROVE StoreInv
    OBVIOUS
  <2>1. disk \in Disks /\ rows \in Seq(OldRows) /\ StoreInit
    BY ScenariosAssumption DEF Init
  <2> QED
    BY <2>1, StoreStarts DEF OldRows
<1>2. StoreInv /\ [Next]_vars => StoreInv'
  BY StoreKeeps DEF Next, vars, storeState
<1>3. StoreInv => AckedConfirmed
  BY StoreInvAcked
<1> QED
  BY <1>1, <1>2, <1>3, PTL DEF Spec

-----------------------------------------------------------------------------
(***************************************************************************)
(* The link to the aging device.                                           *)
(***************************************************************************)

\* A step of a node keeps the invariant of its link.
LEMMA LinkKept == BleInv /\ [Next]_vars => BleInv'
BY BleKeeps DEF Next, vars, bleState

\* What waits for the present session was received over the connection that is there, and
\* encryption is on only when that one was authenticated (ble_session_is_current,
\* ble_session_set_encrypted).
THEOREM SessionBoundAlways == Spec => []SessionBound
<1>1. Init => BleInv
  BY BleStarts DEF Init
<1> QED
  BY <1>1, LinkKept, BleInvBound, PTL DEF Spec

\* A task that is told the outcome of its request to connect has no request left with the
\* host, and after a failure no connection of it will come (notify_connect_result).
THEOREM OneOutcomeAlways == Spec => []OneOutcome
<1>1. Init => BleInv
  BY BleStarts DEF Init
<1> QED
  BY <1>1, LinkKept, BleInvOutcome, PTL DEF Spec

-----------------------------------------------------------------------------
(***************************************************************************)
(* The protocols of the devices.                                           *)
(*                                                                         *)
(* The inductive invariant of ProtocolFetch: every request under way is of *)
(* the present generation of its device or of an earlier one, and one of   *)
(* the present generation was made for the device that is there.           *)
(***************************************************************************)
Requests == [target : Targets, generation : Nat, id : Nat, life : Nat]
Devices == [life : Nat, id : Nat, protocol : Kinds \cup {"none"}, from : Seq(Requests)]
Answers == [asked : Requests, kind : Kinds]

FetchTypes ==
    /\ device \in [Targets -> Devices]
    /\ generation \in [Targets -> Nat]
    /\ asking \in [Askers -> Seq(Requests)]
    /\ replies \in Seq(Answers) /\ parsing \in Seq(Answers)
    /\ starting \in {"idle", "create", "failed", "request", "asked", "wait", "running"}
    /\ lives \in Nat

\* A request is of the present generation or an earlier one, and one of the present
\* generation was made for the device that is there.
Dated(r, dev, gen) ==
    /\ r.generation <= gen[r.target]
    /\ r.generation = gen[r.target] =>
         r.life # 0 /\ dev[r.target].life = r.life /\ dev[r.target].id = r.id

\* Wherever a request may be: in the task that waits, in the queue, in http_rx.
AllDated ==
    /\ \A a \in Askers : \A i \in 1..Len(asking[a]) : Dated(asking[a][i], device, generation)
    /\ \A i \in 1..Len(replies) : Dated(replies[i].asked, device, generation)
    /\ \A i \in 1..Len(parsing) : Dated(parsing[i].asked, device, generation)

\* The protocol of a device, as OwnProtocol has it, for one device.
Owns(t, dev) ==
    dev[t].protocol # "none" =>
        /\ dev[t].from # <<>> /\ dev[t].from[1].target = t
        /\ dev[t].from[1].life = dev[t].life /\ dev[t].from[1].id = dev[t].id

\* AgingDevice_RuntimeFree comes before every creation.
FreedBefore == starting = "create" => device["aging"] = NoDevice

FetchInv ==
    /\ FetchTypes
    /\ AllDated
    /\ \A t \in Targets : Owns(t, device)
    /\ FreedBefore

-----------------------------------------------------------------------------
LEMMA NoDeviceTyped ==
    NoDevice \in Devices
BY DEF NoDevice, Kinds, Devices

LEMMA NewDeviceTyped ==
    ASSUME NEW life \in Nat, NEW id \in Nat
    PROVE  /\ NewDevice(life, id) \in Devices
           /\ NewDevice(life, id).protocol = "none"
           /\ NewDevice(life, id).life = life /\ NewDevice(life, id).id = id
<1>1. NoDevice \in Devices
  BY NoDeviceTyped
<1>2. NewDevice(life, id) = [NoDevice EXCEPT !.life = life, !.id = id]
  BY DEF NewDevice
<1>3. [NoDevice EXCEPT !.life = life, !.id = id] \in Devices
  BY <1>1 DEF Devices
<1>4. NoDevice.protocol = "none"
  BY DEF NoDevice
<1> QED
  BY <1>1, <1>2, <1>3, <1>4 DEF Devices

LEMMA RequestsTyped ==
    ASSUME FetchTypes
    PROVE  /\ \A a \in Askers : \A i \in 1..Len(asking[a]) : asking[a][i] \in Requests
           /\ \A i \in 1..Len(replies) : replies[i].asked \in Requests
           /\ \A i \in 1..Len(parsing) : parsing[i].asked \in Requests
<1>1. ASSUME NEW a \in Askers, NEW i \in 1..Len(asking[a])
      PROVE  asking[a][i] \in Requests
  BY <1>1 DEF FetchTypes
<1>2. ASSUME NEW i \in 1..Len(replies) PROVE replies[i].asked \in Requests
  <2>1. replies[i] \in Answers
    BY <1>2 DEF FetchTypes
  <2> QED
    BY <2>1 DEF Answers
<1>3. ASSUME NEW i \in 1..Len(parsing) PROVE parsing[i].asked \in Requests
  <2>1. parsing[i] \in Answers
    BY <1>3 DEF FetchTypes
  <2> QED
    BY <2>1 DEF Answers
<1> QED
  BY <1>1, <1>2, <1>3

LEMMA InitInv == FetchInit => FetchInv
<1> SUFFICES ASSUME FetchInit PROVE FetchInv
  OBVIOUS
<1>1. \A t \in DOMAIN External : External[t] \in Nat
  BY FetchAssumption
<1>2. FetchTypes
  <2>1. device \in [Targets -> Devices]
    BY <1>1, NoDeviceTyped, NewDeviceTyped DEF FetchInit, Targets
  <2> QED
  BY <2>1, NoDeviceTyped, NewDeviceTyped DEF FetchInit, FetchTypes, Targets, Askers
<1>3. AllDated
  BY DEF FetchInit, AllDated
<1>4. ASSUME NEW t \in Targets PROVE Owns(t, device)
  BY <1>1, NewDeviceTyped, <1>4 DEF FetchInit, Owns, Targets, NoDevice
<1>5. FreedBefore
  BY DEF FetchInit, FreedBefore
<1> QED
  BY <1>2, <1>3, <1>4, <1>5 DEF FetchInv

\* A section in which the aging device is freed makes every request for it an old one.
LEMMA FreeingKeeps ==
    ASSUME FetchInv, FreeAging, UNCHANGED <<asking, replies, parsing, lives>>,
           starting' \in {"idle", "create"}
    PROVE  FetchInv'
<1>1. /\ "aging" \in Targets
      /\ generation["aging"] \in Nat
  BY DEF FetchInv, FetchTypes, Targets
<1>2. FetchTypes'
  BY <1>1, NoDeviceTyped DEF FetchInv, FetchTypes, FreeAging
<1>3. ASSUME NEW r \in Requests, Dated(r, device, generation)
      PROVE  Dated(r, device', generation')
  BY <1>1, <1>3 DEF FetchInv, FetchTypes, FreeAging, Dated, Requests
<1>4. AllDated'
  BY <1>3, RequestsTyped DEF FetchInv, AllDated
<1>5. ASSUME NEW t \in Targets PROVE Owns(t, device')
  BY <1>1, <1>5 DEF FetchInv, FetchTypes, FreeAging, Owns, NoDevice
<1>6. FreedBefore'
  BY <1>1 DEF FetchInv, FetchTypes, FreeAging, FreedBefore
<1> QED
  BY <1>2, <1>4, <1>5, <1>6 DEF FetchInv

\* An aging device is created where none is: no request of the present generation is
\* under way for it.
LEMMA CreatingKeeps ==
    ASSUME FetchInv, NEW id \in ProtoIds, NEW ok \in BOOLEAN, CreateAging(id, ok)
    PROVE  FetchInv'
<1>1. /\ "aging" \in Targets
      /\ id \in Nat /\ lives + 1 \in Nat
  BY FetchAssumption DEF FetchInv, FetchTypes, Targets
<1>2. device["aging"] = NoDevice /\ device["aging"].life = 0
  BY DEF FetchInv, FreedBefore, CreateAging, Starting, NoDevice
<1>3. FetchTypes'
  BY <1>1, NewDeviceTyped DEF FetchInv, FetchTypes, CreateAging, Starting
<1>4. ASSUME NEW r \in Requests, Dated(r, device, generation)
      PROVE  Dated(r, device', generation')
  <2>1. CASE r.target = "aging"
    <3>1. r.generation # generation["aging"]
      BY <1>2, <1>4, <2>1 DEF Dated, Requests
    <3> QED
      BY <1>4, <2>1, <3>1 DEF CreateAging, Dated
  <2>2. CASE r.target # "aging"
    BY <1>1, <1>4, <2>2 DEF FetchInv, FetchTypes, CreateAging, Dated, Requests
  <2> QED
    BY <2>1, <2>2
<1>5. AllDated'
  BY <1>4, RequestsTyped DEF FetchInv, AllDated, CreateAging
<1>6. ASSUME NEW t \in Targets PROVE Owns(t, device')
  BY <1>1, <1>6, NewDeviceTyped DEF FetchInv, FetchTypes, CreateAging, Owns
<1>7. FreedBefore'
  BY DEF CreateAging, Starting, FreedBefore
<1> QED
  BY <1>3, <1>5, <1>6, <1>7 DEF FetchInv

\* A new request is of a new generation, which makes the others old ones.
LEMMA AskingKeeps ==
    ASSUME FetchInv, NEW task \in Askers, NEW t \in Targets, AskFor(task, t),
           starting' \in {starting, "asked"}
    PROVE  FetchInv'
<1> DEFINE new == [target |-> t, generation |-> generation[t] + 1,
                   id |-> device[t].id, life |-> device[t].life]
<1>1. /\ generation[t] \in Nat
      /\ device[t] \in Devices
  BY DEF FetchInv, FetchTypes
<1>2. new \in Requests
  BY <1>1 DEF Requests, Devices
<1>3. asking' = [asking EXCEPT ![task] = <<new>>]
  BY DEF AskFor
<1>4. FetchTypes'
  <2>1. <<new>> \in Seq(Requests)
    BY <1>2
  <2>2. asking' \in [Askers -> Seq(Requests)]
    BY <1>3, <2>1 DEF FetchInv, FetchTypes
  <2>3. generation' \in [Targets -> Nat]
    BY <1>1 DEF FetchInv, FetchTypes, AskFor
  <2> QED
    BY <2>2, <2>3 DEF FetchInv, FetchTypes, AskFor
<1>5. ASSUME NEW r \in Requests, Dated(r, device, generation)
      PROVE  Dated(r, device', generation')
  BY <1>1, <1>5 DEF FetchInv, FetchTypes, AskFor, Dated, Requests
<1>6. Dated(new, device', generation')
  <2>1. device' = device /\ generation'[t] = generation[t] + 1 /\ device[t].life # 0
    BY DEF FetchInv, FetchTypes, AskFor
  <2> QED
    BY <1>1, <2>1 DEF Dated
<1>7. AllDated'
  <2>1. ASSUME NEW a \in Askers, NEW i \in 1..Len(asking'[a])
        PROVE  Dated(asking'[a][i], device', generation')
    <3>1. CASE a = task
      <4>1. asking'[a] = <<new>>
        BY <1>3, <3>1 DEF FetchInv, FetchTypes
      <4>2. asking'[a][i] = new
        BY <2>1, <4>1
      <4> QED
        BY <1>6, <4>2
    <3>2. CASE a # task
      BY <1>3, <1>5, <2>1, <3>2, RequestsTyped DEF FetchInv, FetchTypes, AllDated
    <3> QED
      BY <3>1, <3>2
  <2> QED
    BY <1>5, <2>1, RequestsTyped DEF FetchInv, AllDated, AskFor
<1>8. FreedBefore' /\ \A u \in Targets : Owns(u, device')
  BY DEF FetchInv, AskFor, FreedBefore, Owns
<1> QED
  BY <1>4, <1>7, <1>8 DEF FetchInv

\* An answer keeps what was asked, from the task that waits to the queue.
LEMMA FetchingKeeps ==
    ASSUME FetchInv, NEW task \in Askers, NEW kind \in Kinds, NEW ok \in BOOLEAN,
           Fetched(task, kind, ok)
    PROVE  FetchInv'
<1> DEFINE answer == [asked |-> asking[task][1], kind |-> kind]
<1>1. /\ asking[task] # <<>> /\ 1 \in 1..Len(asking[task])
      /\ asking[task][1] \in Requests
      /\ Dated(asking[task][1], device, generation)
  BY DEF FetchInv, FetchTypes, AllDated, Fetched
<1>2. answer \in Answers
  BY <1>1 DEF Answers
<1>3. /\ asking' = [asking EXCEPT ![task] = <<>>]
      /\ replies' = IF ok THEN Append(replies, answer) ELSE replies
      /\ UNCHANGED <<device, generation, parsing, lives>>
  BY DEF Fetched
<1>4. starting' \in {starting, "wait", "failed"}
  BY DEF Fetched, Starting
<1>5. FetchTypes'
  <2>1. asking' \in [Askers -> Seq(Requests)]
    BY <1>3 DEF FetchInv, FetchTypes
  <2>2. replies' \in Seq(Answers)
    BY <1>2, <1>3 DEF FetchInv, FetchTypes
  <2> QED
    BY <1>3, <1>4, <2>1, <2>2 DEF FetchInv, FetchTypes
<1>6. AllDated'
  <2>1. ASSUME NEW a \in Askers, NEW i \in 1..Len(asking'[a])
        PROVE  a # task
    <3>1. Len(<<>>) = 0
      OBVIOUS
    <3> QED
      BY <1>3, <2>1, <3>1 DEF FetchInv, FetchTypes
  <2>2. ASSUME NEW i \in 1..Len(replies')
        PROVE  Dated(replies'[i].asked, device, generation)
    <3>1. CASE ~ok
      BY <1>3, <2>2, <3>1 DEF FetchInv, AllDated
    <3>2. CASE ok
      <4>1. replies \in Seq(Answers)
        BY DEF FetchInv, FetchTypes
      <4>2. replies'[i] = IF i <= Len(replies) THEN replies[i] ELSE answer
        BY <1>2, <1>3, <2>2, <3>2, <4>1
      <4>3. i \in 1..Len(replies) \/ replies'[i] = answer
        BY <1>2, <1>3, <2>2, <3>2, <4>1, <4>2
      <4> QED
        BY <1>1, <4>1, <4>2, <4>3 DEF FetchInv, AllDated
    <3> QED
      BY <3>1, <3>2
  <2> QED
    BY <1>3, <2>1, <2>2 DEF FetchInv, FetchTypes, AllDated
<1>7. FreedBefore' /\ \A u \in Targets : Owns(u, device')
  BY <1>3, <1>4 DEF FetchInv, FreedBefore, Owns
<1> QED
  BY <1>5, <1>6, <1>7 DEF FetchInv

\* http_rx holds one answer.
LEMMA TakingKeeps == ASSUME FetchInv, TakeReply PROVE FetchInv'
<1>1. /\ replies \in Seq(Answers) /\ replies # <<>>
      /\ Head(replies) = replies[1] /\ 1 \in 1..Len(replies)
      /\ Head(replies) \in Answers
      /\ replies' = Tail(replies) /\ parsing' = <<Head(replies)>>
      /\ UNCHANGED <<device, generation, asking, starting, lives>>
  BY DEF FetchInv, FetchTypes, TakeReply
<1>2. FetchTypes'
  BY <1>1 DEF FetchInv, FetchTypes
<1>3. AllDated'
  <2>1. ASSUME NEW i \in 1..Len(replies')
        PROVE  replies'[i] = replies[i + 1] /\ i + 1 \in 1..Len(replies)
    BY <1>1, <2>1
  <2>2. ASSUME NEW i \in 1..Len(parsing')
        PROVE  parsing'[i] = replies[1]
    BY <1>1, <2>2
  <2> QED
    BY <1>1, <2>1, <2>2 DEF FetchInv, AllDated
<1>4. FreedBefore' /\ \A t \in Targets : Owns(t, device')
  BY <1>1 DEF FetchInv, FreedBefore, Owns
<1> QED
  BY <1>2, <1>3, <1>4 DEF FetchInv

LEMMA UnreadableKeeps == ASSUME FetchInv, UnreadableReply PROVE FetchInv'
<1>1. parsing' = <<>> /\ Len(parsing') = 0
      /\ UNCHANGED <<device, generation, asking, replies, starting, lives>>
  BY DEF UnreadableReply
<1> QED
  BY <1>1 DEF FetchInv, FetchTypes, AllDated, FreedBefore, Owns

\* An import leaves the device what it is; its protocol is the new one, the old one,
\* or none.
LEMMA ImportedDevice ==
    ASSUME NEW d \in Devices, NEW reply \in Answers, NEW ok \in BOOLEAN
    PROVE  LET e == Imported(d, reply, ok)
           IN  /\ e \in Devices /\ e.life = d.life /\ e.id = d.id
               /\ \/ e.protocol = "none"
                  \/ e.from = <<reply.asked>>
                  \/ e.protocol = d.protocol /\ e.from = d.from
<1>1. reply.asked \in Requests /\ reply.kind \in Kinds
  BY DEF Answers
<1>2. <<reply.asked>> \in Seq(Requests) /\ <<>> \in Seq(Requests)
  BY <1>1
<1>3. CASE ok
  <2> DEFINE e == [d EXCEPT !.protocol = reply.kind, !.from = <<reply.asked>>]
  <2>1. e \in Devices /\ e.life = d.life /\ e.id = d.id /\ e.from = <<reply.asked>>
    BY <1>1, <1>2 DEF Devices
  <2>2. Imported(d, reply, ok) = e
    BY <1>3 DEF Imported
  <2> QED
    BY <2>1, <2>2
<1>4. CASE ~ok /\ reply.kind = "modbus"
  <2> DEFINE e == [d EXCEPT !.protocol = "none", !.from = <<>>]
  <2>1. e \in Devices /\ e.life = d.life /\ e.id = d.id /\ e.protocol = "none"
    BY <1>2 DEF Devices
  <2>2. Imported(d, reply, ok) = e
    BY <1>4 DEF Imported
  <2> QED
    BY <2>1, <2>2
<1>5. CASE ~ok /\ reply.kind # "modbus"
  BY <1>5 DEF Imported
<1> QED
  BY <1>3, <1>4, <1>5

\* What is installed is of the present generation, so it was asked for this device.
LEMMA InstallingKeeps ==
    ASSUME FetchInv, NEW ok \in BOOLEAN, InstallReply(ok)
    PROVE  FetchInv'
<1> DEFINE reply == parsing[1]
           t == reply.asked.target
<1>1. /\ parsing # <<>> /\ 1 \in 1..Len(parsing) /\ reply \in Answers
      /\ parsing' = <<>> /\ Len(parsing') = 0
      /\ UNCHANGED <<generation, asking, replies, starting, lives>>
  BY DEF FetchInv, FetchTypes, InstallReply
<1>2. /\ reply.asked \in Requests /\ reply.kind \in Kinds /\ t \in Targets
      /\ Dated(reply.asked, device, generation)
  BY <1>1 DEF Answers, Requests, FetchInv, AllDated
<1>3. CASE UNCHANGED device
  BY <1>1, <1>3 DEF FetchInv, FetchTypes, AllDated, FreedBefore, Owns
<1>4. CASE IsFor(reply.asked) /\ device' = [device EXCEPT ![t] = Imported(@, reply, ok)]
  <2> DEFINE d == device[t]
             e == Imported(d, reply, ok)
  <2>1. /\ d = device[t] /\ d \in Devices
        /\ device' = [device EXCEPT ![t] = e] /\ device'[t] = e
    BY <1>2, <1>4 DEF FetchInv, FetchTypes
  <2>2. e \in Devices /\ e.life = d.life /\ e.id = d.id
    BY <1>1, <2>1, ImportedDevice
  <2> HIDE DEF d, e
  <2>3. FetchTypes'
    BY <1>1, <1>2, <2>1, <2>2 DEF FetchInv, FetchTypes
  <2>4. \A u \in Targets : device'[u].life = device[u].life /\ device'[u].id = device[u].id
    BY <1>2, <2>1, <2>2 DEF FetchInv, FetchTypes
  <2>5. ASSUME NEW r \in Requests, Dated(r, device, generation)
        PROVE  Dated(r, device', generation')
    BY <1>1, <2>4, <2>5 DEF Dated, Requests
  <2>6. AllDated'
    BY <1>1, <2>5, RequestsTyped DEF FetchInv, AllDated
  <2>7. ASSUME NEW u \in Targets PROVE Owns(u, device')
    <3>1. CASE u # t
      BY <1>2, <2>1, <2>7, <3>1 DEF FetchInv, FetchTypes, Owns
    <3>2. CASE u = t
      <4>1. reply.asked.life = d.life /\ reply.asked.id = d.id
        BY <1>2, <1>4, <2>1 DEF IsFor, Dated
      <4>2. \/ e.protocol = "none"
            \/ e.from = <<reply.asked>>
            \/ e.protocol = d.protocol /\ e.from = d.from
        BY <1>1, <2>1, ImportedDevice DEF e
      <4>3. Owns(t, device)
        BY <1>2 DEF FetchInv
      <4>4. CASE e.from = <<reply.asked>>
        <5>1. e.from[1] = reply.asked /\ e.from # <<>>
          BY <4>4
        <5> QED
          BY <2>1, <2>2, <3>2, <4>1, <5>1 DEF Owns
      <4>5. CASE e.protocol = d.protocol /\ e.from = d.from
        BY <2>1, <2>2, <3>2, <4>3, <4>5 DEF Owns
      <4>6. CASE e.protocol = "none"
        BY <2>1, <3>2, <4>6 DEF Owns
      <4> QED
        BY <4>2, <4>4, <4>5, <4>6
    <3> QED
      BY <3>1, <3>2
  <2>8. FreedBefore'
    BY <1>1, <1>2, <1>4 DEF FetchInv, FetchTypes, FreedBefore, IsFor, NoDevice, Targets
  <2> QED
    BY <2>3, <2>6, <2>7, <2>8 DEF FetchInv
<1> QED
  BY <1>3, <1>4 DEF InstallReply

\* The end of the wait for a protocol leaves the devices alone.
LEMMA WaitingKeeps ==
    ASSUME FetchInv, UNCHANGED <<device, generation, asking, replies, parsing, lives>>,
           starting' \in {starting, "running", "failed"}
    PROVE  FetchInv'
<1>1. FetchTypes'
  BY DEF FetchInv, FetchTypes
<1>2. AllDated'
  BY DEF FetchInv, AllDated, Dated
<1>3. FreedBefore'
  BY DEF FetchInv, FreedBefore
<1>4. \A t \in Targets : Owns(t, device')
  BY DEF FetchInv
<1> QED
  BY <1>1, <1>2, <1>3, <1>4 DEF FetchInv

LEMMA FetchKeeps == FetchInv /\ [FetchNext]_fetchState => FetchInv'
<1> SUFFICES ASSUME FetchInv, [FetchNext]_fetchState PROVE FetchInv'
  OBVIOUS
<1>1. CASE StartRound
  BY <1>1, FreeingKeeps DEF StartRound, Starting
<1>2. CASE EndRound
  BY <1>2, FreeingKeeps DEF EndRound, Starting
<1>3. ASSUME NEW id \in ProtoIds, NEW ok \in BOOLEAN, CreateAging(id, ok) PROVE FetchInv'
  BY <1>3, CreatingKeeps
<1>4. CASE ProtocolReady \/ ProtocolTimeout
  BY <1>4, WaitingKeeps DEF ProtocolReady, ProtocolTimeout, Starting
<1>4a. CASE UNCHANGED fetchState
  <2>1. UNCHANGED <<device, generation, asking, replies, parsing, starting, lives>>
    BY <1>4a DEF fetchState
  <2> QED
    BY <2>1, WaitingKeeps
<1>5. CASE AskAging
  BY <1>5, AskingKeeps DEF AskAging, Starting, Askers, Targets
<1>6. ASSUME NEW t \in DOMAIN External, AskExternal(t) PROVE FetchInv'
  BY <1>6, AskingKeeps DEF AskExternal, Askers, Targets
<1>7. ASSUME NEW task \in Askers, NEW kind \in Kinds, NEW ok \in BOOLEAN,
             Fetched(task, kind, ok)
      PROVE  FetchInv'
  BY <1>7, FetchingKeeps
<1>8. CASE TakeReply
  BY <1>8, TakingKeeps
<1>9. CASE UnreadableReply
  BY <1>9, UnreadableKeeps
<1>10. ASSUME NEW ok \in BOOLEAN, InstallReply(ok) PROVE FetchInv'
  BY <1>10, InstallingKeeps
<1> QED
  BY <1>1, <1>2, <1>3, <1>4, <1>5, <1>6, <1>7, <1>8, <1>9, <1>10, <1>4a DEF FetchNext

LEMMA InvOwns == FetchInv => OwnProtocol
<1> SUFFICES ASSUME FetchInv, NEW t \in Targets, device[t].protocol # "none"
             PROVE  /\ device[t].from[1].target = t
                    /\ device[t].from[1].life = device[t].life
                    /\ device[t].from[1].id = device[t].id
  BY DEF OwnProtocol
<1> QED
  BY DEF FetchInv, Owns

\* However the other services run, a device has the protocol that was asked for it
\* (parse_http_protocol_response, AgingDevice_RuntimeFree).
THEOREM ServicesOwnProtocol == Spec => []OwnProtocol
<1>1. Init => FetchInv
  BY InitInv DEF Init
<1>2. FetchInv /\ [Next]_vars => FetchInv'
  BY FetchKeeps DEF Next, vars
<1>3. FetchInv => OwnProtocol
  BY InvOwns
<1> QED
  BY <1>1, <1>2, <1>3, PTL DEF Spec
=============================================================================
