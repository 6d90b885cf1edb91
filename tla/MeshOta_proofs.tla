---------------------------- MODULE MeshOta_proofs ---------------------------
(***************************************************************************)
(* Why the slot that is booted next always holds a whole image with its    *)
(* record, and why what a node supplies can be found again.                *)
(*                                                                         *)
(* At most one actor has the slot that is not running: the dl_task of a    *)
(* root while svc.downloading, the receiver of a child while rx.open.  An  *)
(* image that is being finalized, is supplied, waits for the restart or is *)
(* reported is there only in a settled state, in which neither has it; and *)
(* the stages after "store" find the record of the supply in NVS.          *)
(***************************************************************************)
EXTENDS MeshOta, TLAPS

\* The stages by what may be under way: in a calm one anything, in a staged one the
\* finalization of a candidate, in the others an attempt of a child to receive one.
Calm == {"wait", "parent", "finish", "request", "retry", "bootstrap", "end", "confirm"}
Staged == {"store", "boot", "serve"}
Attempting == {"child", "fetch", "open", "transmit"}
Stages == Calm \cup Staged \cup Attempting \cup {"rootDone", "restore", "current"}
Backs == {"parent", "finish", "request", "retry", "bootstrap", "end", "wait"}

SvcType ==
    [at : Stages, back : Backs, retries : Nat, waiting : BOOLEAN, finalizing : BOOLEAN,
     downloading : BOOLEAN, current : BOOLEAN, bootstrap : BOOLEAN, tries : Nat, deferred : BOOLEAN,
     active : BOOLEAN, waitParent : BOOLEAN, scheduled : BOOLEAN, meta : {0} \cup Versions,
     metaValid : BOOLEAN, observed : BOOLEAN, held : BOOLEAN, request : BOOLEAN]
RxType ==
    [open : BOOLEAN, accepting : BOOLEAN, handle : BOOLEAN, blocks : SUBSET Nat, done : BOOLEAN,
     validated : BOOLEAN, failed : BOOLEAN, finish : {"no", "ok", "fail"}]
RecordType == [slot : Slots, ver : Versions, origin : Origins]
SupplyType == [valid : BOOLEAN, slot : Slots \cup {"none"}, ver : {0} \cup Versions]
CandType == [persisted : BOOLEAN, report : BOOLEAN, origin : Origins]
DlType == [at : {"idle", "start", "begin", "write", "end"}, ok : BOOLEAN, found : {0} \cup Versions, got : BOOLEAN]

\* What the proofs need of the types, complete for the records that are updated.
OtaTypes ==
    /\ node \in {"root", "child"} /\ server \in Versions
    /\ flash \in [Slots -> {0} \cup Versions] /\ run \in Slots /\ boot \in Slots
    /\ cache \in RecordType \cup {NoRecord}
    /\ rx \in RxType /\ supply \in SupplyType /\ cand \in CandType
    /\ dl \in DlType /\ svc \in SvcType

\* Nobody has the slot that is not running.
Settled ==
    /\ svc.at \in Calm \cup Staged
    /\ ~svc.downloading /\ ~svc.active /\ ~svc.current
    /\ svc.waiting => svc.finalizing
    /\ ~rx.open

\* What is staged, supplied or reported is so in a settled state only.
Settling ==
    /\ svc.at \in Staged => svc.finalizing
    /\ svc.at = "retry" => svc.waiting
    /\ svc.finalizing \/ supply.valid \/ boot # run \/ report => Settled
    /\ report => supply.valid

\* A download: only of a root, and its image is whole when its end is handled.
Downloads ==
    /\ svc.downloading =>
          /\ node = "root" /\ ~svc.waiting /\ ~svc.current
          /\ svc.at \in Calm \cup {"rootDone"}
    /\ dl.at # "idle" \/ "done" \in events \/ svc.at = "rootDone" => svc.downloading
    /\ svc.at = "rootDone" \/ "done" \in events => dl.at = "idle"
    /\ svc.at = "rootDone" => "done" \notin events
    /\ dl.at \in {"begin", "write"} => dl.found > RunningVersion /\ ~dl.got
    /\ svc.downloading /\ dl.at # "start" /\ dl.got =>
          dl.found > RunningVersion /\ flash[Spare] = dl.found

\* A session: only of a child that wants a newer version, and what it has validated
\* is in the slot.
Receives ==
    /\ svc.active => node = "child"
    /\ svc.metaValid => node = "child" /\ svc.meta > RunningVersion
    /\ svc.at = "fetch" => ~svc.metaValid
    /\ svc.at = "open" => svc.metaValid
    /\ svc.at \in Attempting => node = "child" /\ ~svc.current /\ ota = "running"
    /\ rx.open =>
          /\ node = "child" /\ ota = "running" /\ ~svc.current /\ svc.metaValid
          /\ svc.at \in Calm \cup {"transmit"}
    /\ rx.validated => rx.open /\ ~rx.accepting /\ flash[Spare] = svc.meta
    /\ rx.handle => rx.open

\* The candidate is in its slot; once it is stored, the record names it.
Recorded ==
    /\ flash[boot] # 0 /\ flash[run] # 0
    /\ svc.finalizing \/ supply.valid \/ boot # run =>
          supply.slot \in Slots /\ supply.ver # 0 /\ flash[supply.slot] = supply.ver
    /\ (svc.finalizing /\ cand.persisted) \/ supply.valid \/ boot # run \/ svc.at \in {"boot", "serve"} =>
          /\ cand.persisted
          /\ cache = [slot |-> supply.slot, ver |-> supply.ver, origin |-> cand.origin]
    /\ boot # run =>
          supply.slot = boot /\ supply.ver > RunningVersion /\ cand.origin = "download" /\ ota = "pending"

OtaInv == OtaTypes /\ Settling /\ Downloads /\ Receives /\ Recorded

-----------------------------------------------------------------------------

\* Two states of the cmd_task that agree on what the invariant reads.
Same(s, t) ==
    /\ s.downloading <=> t.downloading
    /\ s.finalizing <=> t.finalizing
    /\ s.current <=> t.current
    /\ s.active <=> t.active
    /\ s.metaValid <=> t.metaValid
    /\ s.waiting <=> t.waiting
    /\ s.meta = t.meta

\* What GoOn does with a state of the cmd_task, whatever the stage.
LEMMA GoesOn ==
  ASSUME NEW s \in SvcType, GoOn(s)
  PROVE  /\ svc' \in SvcType /\ Same(svc', s)
         /\ svc'.at \in Calm \ {"confirm"}
         /\ svc'.at = "retry" => s.waiting
<1>1. Following(s) \in Calm \ {"confirm"} /\ (Following(s) = "retry" => s.waiting)
  BY DEF Following, AfterDone, AfterFinish, AfterRequest, SvcType, Backs, Calm
<1>2. svc' \in SvcType
  BY <1>1 DEF GoOn, SvcType, Stages, Calm
<1>3. svc'.at = Following(s)
  BY DEF GoOn, SvcType
<1>4. Same(svc', s)
  BY DEF GoOn, SvcType, Same
<1> QED
  BY <1>1, <1>2, <1>3, <1>4

\* What Enter does.
LEMMA Enters ==
  ASSUME NEW s \in SvcType, NEW at \in Stages, Enter(s, at)
  PROVE  svc' \in SvcType /\ Same(svc', s) /\ svc'.at = at
BY DEF Enter, SvcType, Same

\* schedule_retry changes the wait, the count of the retries and the session only.
LEMMA Retries ==
  ASSUME NEW s \in SvcType
  PROVE  /\ WithRetry(s) \in SvcType
         /\ WithRetry(s).downloading <=> s.downloading
         /\ WithRetry(s).finalizing <=> s.finalizing
         /\ WithRetry(s).current <=> s.current
         /\ WithRetry(s).metaValid <=> s.metaValid
         /\ WithRetry(s).active => s.active
         /\ WithRetry(s).meta = s.meta
         /\ WithRetry(s).at = s.at
<1>1. CASE s.waiting
  BY <1>1 DEF WithRetry, SvcType
<1>2. CASE ~s.waiting /\ s.retries >= RetryMax
  BY <1>2 DEF WithRetry, SvcType
<1>3. CASE ~s.waiting /\ ~(s.retries >= RetryMax)
  <2>1. s.retries + 1 \in Nat
    BY DEF SvcType
  <2>2. PICK n \in Nat : n = s.retries + 1
    BY <2>1
  <2>3. WithRetry(s) = [s EXCEPT !.retries = n, !.waiting = TRUE]
    BY <1>3, <2>2 DEF WithRetry
  <2> HIDE <2>2
  <2> QED
    BY <2>3 DEF SvcType
<1> QED
  BY <1>1, <1>2, <1>3

\* What the invariant is about.
otaView == <<node, server, flash, run, boot, cache, rx, supply, cand, ota, dl, svc, events, report>>

\* A step that leaves that alone keeps the invariant.
LEMMA OtaSame == OtaInv /\ UNCHANGED otaView => OtaInv'
<1> SUFFICES ASSUME OtaInv, UNCHANGED otaView PROVE OtaInv'
  OBVIOUS
<1>1. OtaTypes'
  BY DEF otaView, OtaInv, OtaTypes
<1>2. Settling'
  BY DEF otaView, OtaInv, Settling, Settled
<1>3. Downloads'
  BY DEF otaView, OtaInv, Downloads, RunningVersion, Spare
<1>4. Receives'
  BY DEF otaView, OtaInv, Receives, RunningVersion, Spare
<1>5. Recorded'
  BY DEF otaView, OtaInv, Recorded, RunningVersion
<1> QED
  BY <1>1, <1>2, <1>3, <1>4, <1>5 DEF OtaInv

\* The slot that is not running is the only other one.
LEMMA SpareSlot ==
  ASSUME run \in Slots
  PROVE  Spare \in Slots /\ Spare # run /\ \A x \in Slots : x # run => x = Spare
BY DEF Spare, Slots

\* While the slot is written, nothing is staged, supplied or reported.
LEMMA Unsettled ==
  OtaInv /\ ~Settled => ~svc.finalizing /\ ~supply.valid /\ boot = run /\ ~report
BY DEF OtaInv, Settling

\* The invariant of a state in which nothing is.
LEMMA Unstaged ==
  ASSUME OtaTypes', ~svc'.finalizing, ~supply'.valid, boot' = run', ~report',
         svc'.at \notin Staged, svc'.at = "retry" => svc'.waiting,
         flash'[run'] # 0, Downloads', Receives'
  PROVE  OtaInv'
<1>1. Settling'
  BY DEF Settling
<1>2. Recorded'
  BY DEF Recorded, Staged
<1> QED
  BY <1>1, <1>2 DEF OtaInv

\* From a calm stage to another one, with no consequence.
LEMMA Passes ==
  ASSUME OtaInv, svc.at \in Calm, svc' \in SvcType, Same(svc', svc), svc'.at \in Calm,
         svc'.at = "retry" => svc.waiting,
         UNCHANGED <<node, server, flash, run, boot, cache, rx, supply, cand, ota, dl>>,
         "done" \in events' <=> "done" \in events, report' => report \/ supply.valid
  PROVE  OtaInv'
<1>1. OtaTypes'
  BY DEF OtaInv, OtaTypes
<1>2. Settling'
  BY DEF OtaInv, Settling, Settled, Same, Calm, Staged
<1>3. Downloads'
  BY DEF OtaInv, Downloads, Same, Calm, RunningVersion, Spare
<1>4. Receives'
  BY DEF OtaInv, Receives, Same, Calm, Attempting, RunningVersion, Spare
<1>5. Recorded'
  BY DEF OtaInv, Recorded, Same, Calm, RunningVersion
<1> QED
  BY <1>1, <1>2, <1>3, <1>4, <1>5 DEF OtaInv

\* start_attempt, of a root or of a child.
LEMMA AttemptStarts ==
  ASSUME OtaInv, NEW s \in SvcType, StartAttempt(s),
         boot = run, ~report', ~s.finalizing, s.waiting => node = "child", ~svc.downloading, ~s.downloading,
         s.active => node = "child", s.metaValid => svc.metaValid /\ s.meta = svc.meta,
         UNCHANGED <<node, server, flash, run, boot, cache, cand>>,
         "done" \in events' <=> "done" \in events
  PROVE  OtaInv'
<1>1. /\ rx' = NoRx /\ supply' = NoSupply /\ ota' = "running"
  BY DEF StartAttempt
<1>2. rx' \in RxType /\ ~rx'.open /\ ~rx'.handle /\ ~rx'.validated
  BY <1>1 DEF NoRx, RxType
<1>3. supply' \in SupplyType /\ ~supply'.valid
  BY <1>1 DEF NoSupply, SupplyType
<1>4. "done" \notin events /\ dl.at = "idle"
  BY DEF OtaInv, Downloads, OtaTypes, DlType
<1>5. CASE node = "root"
  <2> DEFINE r == [s EXCEPT !.current = FALSE, !.downloading = TRUE]
  <2>1. r \in SvcType /\ r.downloading /\ ~r.current /\ ~r.waiting /\ ~r.finalizing
        /\ (r.active <=> s.active) /\ (r.metaValid <=> s.metaValid) /\ r.meta = s.meta
    BY <1>5 DEF SvcType
  <2>2. GoOn(r) /\ dl' = [dl EXCEPT !.at = "start"]
    BY <1>5 DEF StartAttempt
  <2> HIDE DEF r
  <2>3. svc' \in SvcType /\ Same(svc', r) /\ svc'.at \in Calm /\ (svc'.at = "retry" => r.waiting)
    BY <2>1, <2>2, GoesOn DEF Calm
  <2>4. dl' \in DlType /\ dl'.at = "start"
    BY <2>2 DEF OtaInv, OtaTypes, DlType
  <2>5. OtaTypes'
    BY <1>2, <1>3, <2>3, <2>4 DEF OtaInv, OtaTypes
  <2>6. Downloads'
    BY <1>4, <2>1, <2>3, <2>4, <1>5 DEF Downloads, Same, Calm
  <2>7. Receives'
    BY <1>2, <1>5, <2>1, <2>3 DEF OtaInv, Receives, Same, Calm, Attempting, RunningVersion
  <2>8. flash'[run'] # 0 /\ svc'.at \notin Staged
    BY <2>3 DEF OtaInv, Recorded, Calm, Staged
  <2> QED
    BY <1>3, <2>1, <2>3, <2>5, <2>6, <2>7, <2>8, Unstaged DEF Same
<1>6. CASE node # "root"
  <2> DEFINE r == [s EXCEPT !.current = FALSE]
  <2>1. r \in SvcType /\ ~r.downloading /\ ~r.current /\ ~r.finalizing
        /\ (r.active <=> s.active) /\ (r.metaValid <=> s.metaValid) /\ r.meta = s.meta
    BY DEF SvcType
  <2>2. Enter(r, "child") /\ dl' = dl
    BY <1>6 DEF StartAttempt
  <2> HIDE DEF r
  <2>3. svc' \in SvcType /\ Same(svc', r) /\ svc'.at = "child"
    BY <2>1, <2>2, Enters DEF Stages, Attempting
  <2>4. OtaTypes' /\ node = "child"
    BY <1>2, <1>3, <1>6, <2>2, <2>3 DEF OtaInv, OtaTypes
  <2>5. Downloads'
    BY <1>4, <2>1, <2>2, <2>3 DEF Downloads, Same
  <2>6. Receives'
    BY <1>1, <1>2, <2>1, <2>3, <2>4 DEF OtaInv, Receives, Same, Attempting, RunningVersion
  <2>7. flash'[run'] # 0 /\ svc'.at \notin Staged
    BY <2>3 DEF OtaInv, Recorded, Staged
  <2> QED
    BY <1>3, <2>1, <2>3, <2>4, <2>5, <2>6, <2>7, Unstaged DEF Same
<1> QED
  BY <1>5, <1>6

\* stage_record: a whole image that nobody writes any more becomes the candidate.
LEMMA RecordStaged ==
  ASSUME OtaInv, NEW s \in SvcType, NEW record \in RecordType, NEW persisted \in BOOLEAN,
         NEW reported \in BOOLEAN, Stage(s, record, persisted, reported),
         boot = run, flash[record.slot] = record.ver, persisted => cache' = record,
         cache' \in RecordType \cup {NoRecord},
         ~svc.downloading \/ svc.at = "rootDone", ~s.downloading,
         s.metaValid => node = "child" /\ s.meta > RunningVersion,
         ~rx'.open, rx' \in RxType, ~rx'.handle, ~rx'.validated, ~report',
         UNCHANGED <<node, server, flash, run, boot, dl>>,
         "done" \in events' <=> "done" \in events
  PROVE  OtaInv'
<1> DEFINE r == [s EXCEPT !.finalizing = TRUE, !.current = FALSE, !.active = FALSE,
                          !.waitParent = FALSE, !.scheduled = FALSE]
<1>1. /\ r \in SvcType /\ r.finalizing /\ ~r.current /\ ~r.active /\ ~r.downloading
      /\ (r.metaValid <=> s.metaValid) /\ r.meta = s.meta
  BY DEF SvcType
<1>2. /\ supply' = [valid |-> FALSE, slot |-> record.slot, ver |-> record.ver]
      /\ cand' = [persisted |-> persisted, report |-> reported, origin |-> record.origin]
      /\ ota' = "running" /\ Enter(r, "store")
  BY DEF Stage
<1> HIDE DEF r
<1>3. svc' \in SvcType /\ Same(svc', r) /\ svc'.at = "store"
  BY <1>1, <1>2, Enters DEF Stages, Staged
<1>4. /\ supply' \in SupplyType /\ ~supply'.valid
      /\ supply'.slot = record.slot /\ supply'.ver = record.ver
  BY <1>2 DEF SupplyType, RecordType
<1>5. /\ cand' \in CandType /\ (cand'.persisted <=> persisted) /\ cand'.origin = record.origin
  BY <1>2 DEF CandType, RecordType
<1>6. OtaTypes'
  BY <1>3, <1>4, <1>5 DEF OtaInv, OtaTypes
<1>7. Settling'
  BY <1>1, <1>3, <1>4 DEF Settling, Settled, Same, Staged
<1>8. "done" \notin events /\ dl.at = "idle"
  BY DEF OtaInv, Downloads, OtaTypes, DlType
<1>9. Downloads'
  BY <1>1, <1>3, <1>8 DEF Downloads, Same
<1>10. Receives'
  BY <1>1, <1>3 DEF Receives, Same, Attempting, RunningVersion
<1>11. persisted => cache' = [slot |-> supply'.slot, ver |-> supply'.ver, origin |-> cand'.origin]
  BY <1>4, <1>5 DEF RecordType
<1>12. record.ver # 0 /\ record.slot \in Slots
  BY DEF RecordType, Versions
<1>13. Recorded'
  BY <1>3, <1>4, <1>5, <1>11, <1>12 DEF OtaInv, Recorded
<1> QED
  BY <1>6, <1>7, <1>9, <1>10, <1>13 DEF OtaInv

-----------------------------------------------------------------------------

\* The stages of the poll, one lemma per action.
LEMMA OtaPoll == ASSUME OtaInv, Poll PROVE OtaInv'
<1> DEFINE s == [svc EXCEPT !.request = "request" \in events, !.held = FALSE, !.back = "parent"]
<1>1. s \in SvcType /\ Same(s, svc)
  <2>1. PICK b \in BOOLEAN : b = ("request" \in events)
    <3> DEFINE q == "request" \in events
    <3>1. q \in BOOLEAN
      OBVIOUS
    <3> HIDE DEF q
    <3>2. \E b \in BOOLEAN : b = q
      BY <3>1
    <3> USE DEF q
    <3> QED
      BY <3>2
  <2>2. s = [svc EXCEPT !.request = b, !.held = FALSE, !.back = "parent"]
    BY <2>1
  <2> HIDE DEF s
  <2>3. svc \in SvcType /\ b \in BOOLEAN
    BY DEF OtaInv, OtaTypes
  <2>4. s \in SvcType
    BY ONLY <2>2, <2>3 DEF SvcType, Backs
  <2>5. Same(s, svc)
    BY ONLY <2>2, <2>3 DEF SvcType, Same
  <2> QED
    BY <2>4, <2>5
<1>2. /\ svc.at = "wait" /\ events' = {}
      /\ UNCHANGED <<node, server, flash, run, boot, cache, rx, supply, cand, ota, dl, report>>
      /\ IF PollDone THEN Enter(s, "rootDone") ELSE GoOn(s)
  BY DEF Poll, stored, receiver
<1> HIDE DEF s
<1>3. CASE PollDone
  <2>1. svc' \in SvcType /\ Same(svc', svc) /\ svc'.at = "rootDone"
    BY <1>1, <1>2, <1>3, Enters DEF Stages, Same
  <2>2. svc.downloading /\ dl.at = "idle"
    BY <1>3 DEF PollDone, OtaInv, Downloads
  <2>3. ~svc.finalizing /\ ~supply.valid /\ boot = run /\ ~report
    BY <2>2, Unsettled DEF Settled
  <2>4. OtaTypes'
    BY <1>2, <2>1 DEF OtaInv, OtaTypes
  <2>5. Downloads'
    BY <1>2, <2>1, <2>2 DEF OtaInv, Downloads, Same, RunningVersion, Spare
  <2>6. Receives'
    BY <1>2, <2>1, <2>2 DEF OtaInv, Downloads, Receives, Same, Attempting, RunningVersion
  <2> QED
    BY <1>2, <2>1, <2>3, <2>4, <2>5, <2>6, Unstaged DEF OtaInv, Recorded, Same, Staged
<1>4. CASE ~PollDone
  <2>1. svc' \in SvcType /\ Same(svc', svc) /\ svc'.at \in Calm /\ (svc'.at = "retry" => svc.waiting)
    BY <1>1, <1>2, <1>4, GoesOn DEF Same
  <2> QED
    BY <1>2, <1>4, <2>1, Passes DEF PollDone, Calm
<1> QED
  BY <1>3, <1>4

\* An attempt that failed, on a root or a child, with the slot given back.
LEMMA FailsLater ==
  ASSUME OtaInv, NEW s \in SvcType, Failed(s), ~Settled,
         ~s.downloading, ~s.finalizing, ~s.current \/ ~s.downloading,
         s.active => node = "child", s.metaValid => node = "child" /\ s.meta > RunningVersion,
         rx' \in RxType, ~rx'.open, ~rx'.handle, ~rx'.validated,
         UNCHANGED <<node, server, flash, run, boot, supply, cand, dl, report>>,
         cache' \in RecordType \cup {NoRecord},
         supply' \in SupplyType, ~supply'.valid,
         ~svc.downloading \/ svc.at = "rootDone",
         "done" \in events' <=> "done" \in events
  PROVE  OtaInv'
<1> DEFINE r == WithRetry(s)
<1>1. /\ r \in SvcType /\ ~r.downloading /\ ~r.finalizing
      /\ (r.active => s.active) /\ (r.metaValid <=> s.metaValid) /\ r.meta = s.meta
  BY Retries
<1>2. GoOn(r)
  BY DEF Failed
<1> HIDE DEF r
<1>3. svc' \in SvcType /\ Same(svc', r) /\ svc'.at \in Calm /\ (svc'.at = "retry" => r.waiting)
  BY <1>1, <1>2, GoesOn DEF Calm
<1>4. ~svc.finalizing /\ ~supply.valid /\ boot = run /\ ~report
  BY Unsettled
<1>5. "done" \notin events /\ dl.at = "idle"
  BY DEF OtaInv, Downloads, OtaTypes, DlType
<1>6. OtaTypes'
  BY <1>3 DEF OtaInv, OtaTypes
<1>7. Downloads'
  BY <1>1, <1>3, <1>5 DEF Downloads, Same, Calm
<1>8. Receives'
  BY <1>1, <1>3 DEF Receives, Same, Calm, Attempting, RunningVersion
<1> QED
  BY <1>1, <1>3, <1>4, <1>6, <1>7, <1>8, Unstaged DEF OtaInv, Recorded, Same, Calm, Staged

\* The end of a download is handled.
LEMMA OtaRootDone == ASSUME OtaInv, RootDone PROVE OtaInv'
<1> DEFINE s == [svc EXCEPT !.downloading = FALSE, !.back = "parent"]
<1>1. /\ s \in SvcType /\ ~s.downloading /\ (s.finalizing <=> svc.finalizing) /\ (s.current <=> svc.current)
      /\ (s.active <=> svc.active) /\ (s.metaValid <=> svc.metaValid) /\ (s.waiting <=> svc.waiting)
      /\ s.meta = svc.meta
  BY DEF OtaInv, OtaTypes, SvcType, Backs
<1>2. /\ svc.at = "rootDone"
      /\ UNCHANGED <<node, server, flash, run, boot, cache, rx, dl, events, report>>
  BY DEF RootDone, stored, receiver, entry
<1>3. svc.downloading /\ ~svc.waiting /\ ~svc.current /\ node = "root" /\ dl.at = "idle" /\ "done" \notin events
  BY <1>2 DEF OtaInv, Downloads
<1>4. ~Settled
  BY <1>3 DEF Settled
<1>5. ~svc.finalizing /\ ~supply.valid /\ boot = run /\ ~report
  BY <1>4, Unsettled
<1>6. ~rx.open /\ ~rx.handle /\ ~rx.validated /\ ~svc.active /\ ~svc.metaValid
  BY <1>3 DEF OtaInv, Receives
<1>7. /\ rx' \in RxType /\ cache' \in RecordType \cup {NoRecord}
      /\ supply \in SupplyType
  BY <1>2 DEF OtaInv, OtaTypes
<1>8. CASE ~dl.ok
  <2>1. Failed(s) /\ UNCHANGED <<supply, cand>>
    BY <1>8 DEF RootDone
  <2> HIDE DEF s
  <2> QED
    BY <1>1, <1>2, <1>3, <1>4, <1>5, <1>6, <1>7, <2>1, FailsLater
<1>9. CASE dl.ok /\ dl.got
  <2> DEFINE q == [s EXCEPT !.bootstrap = FALSE]
             record == [slot |-> Spare, ver |-> dl.found, origin |-> "download"]
  <2>1. Stage(q, record, FALSE, TRUE)
    BY <1>9 DEF RootDone, StageDownload
  <2>2. q \in SvcType /\ ~q.downloading /\ (q.metaValid <=> s.metaValid)
    BY <1>1 DEF SvcType
  <2>3. dl.found > RunningVersion /\ flash[Spare] = dl.found
    BY <1>3, <1>9 DEF OtaInv, Downloads
  <2>4. record \in RecordType /\ flash[record.slot] = record.ver
    <3>1. dl.found \in Versions
      BY <2>3 DEF OtaInv, OtaTypes, DlType, RunningVersion, Versions
    <3> QED
      BY <2>3, <3>1, SpareSlot DEF OtaInv, OtaTypes, RecordType, Origins
  <2> HIDE DEF q, record, s
  <2> QED
    BY <1>1, <1>2, <1>3, <1>5, <1>6, <1>7, <2>1, <2>2, <2>4, RecordStaged
<1>10. CASE dl.ok /\ ~dl.got
  <2>1. PICK q \in SvcType, at \in {"current", "restore"} :
          /\ Enter(q, at) /\ UNCHANGED <<supply, cand, ota>>
          /\ ~q.downloading /\ ~q.finalizing /\ ~q.active /\ ~q.metaValid /\ ~q.waiting
    <3>1. CASE dl.found = RunningVersion
      <4> DEFINE q == [s EXCEPT !.meta = dl.found, !.bootstrap = FALSE, !.current = TRUE]
      <4>1. q \in SvcType /\ ~q.downloading /\ ~q.finalizing /\ ~q.active /\ ~q.metaValid /\ ~q.waiting
        BY <1>1, <1>3, <1>5, <1>6 DEF SvcType, OtaInv, OtaTypes, DlType
      <4>2. Enter(q, "current") /\ UNCHANGED <<supply, cand, ota>>
        BY <1>10, <3>1 DEF RootDone
      <4> QED
        BY <4>1, <4>2
    <3>2. CASE dl.found # RunningVersion
      BY <1>1, <1>3, <1>5, <1>6, <1>10, <3>2 DEF RootDone
    <3> QED
      BY <3>1, <3>2
  <2>2. svc' \in SvcType /\ Same(svc', q) /\ svc'.at = at
    BY <2>1, Enters DEF Stages
  <2>3. OtaTypes'
    BY <1>2, <2>1, <2>2 DEF OtaInv, OtaTypes
  <2>4. Downloads'
    BY <1>2, <1>3, <2>1, <2>2 DEF Downloads, Same
  <2>5. Receives'
    BY <1>2, <1>6, <2>1, <2>2 DEF Receives, Same, Attempting
  <2> QED
    BY <1>2, <1>5, <2>1, <2>2, <2>3, <2>4, <2>5, Unstaged DEF OtaInv, Recorded, Same, Staged
<1> QED
  BY <1>8, <1>9, <1>10

-----------------------------------------------------------------------------

\* A step of a child that has not settled: what is left to show is about its session.
LEMMA ChildGoes ==
  ASSUME OtaInv, node = "child", ~Settled,
         UNCHANGED <<node, server, flash, run, boot, cand, dl, report>>,
         "done" \in events' <=> "done" \in events,
         cache' \in RecordType \cup {NoRecord}, supply' \in SupplyType, ~supply'.valid,
         rx' \in RxType, svc' \in SvcType, ~svc'.downloading, ~svc'.finalizing,
         svc'.at \notin Staged \cup {"rootDone"}, svc'.at = "retry" => svc'.waiting, Receives'
  PROVE  OtaInv'
<1>1. ~svc.downloading /\ ~supply.valid /\ ~report /\ boot = run /\ ~svc.finalizing
  BY Unsettled DEF OtaInv, Downloads
<1>2. dl.at = "idle" /\ "done" \notin events
  BY <1>1 DEF OtaInv, Downloads, OtaTypes, DlType
<1>3. OtaTypes'
  BY DEF OtaInv, OtaTypes
<1>4. Downloads'
  BY <1>2 DEF Downloads
<1> QED
  BY <1>1, <1>3, <1>4, Unstaged DEF OtaInv, Recorded

\* A session that is dropped.
LEMMA Drops ==
  ASSUME OtaInv, node = "child", ~Settled, NEW s \in SvcType, NEW keep \in BOOLEAN, Drop(s, keep),
         ~s.downloading, ~s.finalizing, s.metaValid => s.meta > RunningVersion,
         UNCHANGED <<node, server, flash, run, boot, cand, dl, report>>,
         "done" \in events' <=> "done" \in events,
         cache' \in RecordType \cup {NoRecord}, supply' \in SupplyType, ~supply'.valid
  PROVE  OtaInv'
<1> DEFINE r == [s EXCEPT !.waiting = FALSE, !.active = keep, !.waitParent = keep, !.scheduled = FALSE]
<1>1. /\ r \in SvcType /\ ~r.downloading /\ ~r.finalizing /\ (r.metaValid <=> s.metaValid)
      /\ r.meta = s.meta
  BY DEF SvcType
<1>2. GoOn(r) /\ rx' = NoRx
  BY DEF Drop
<1> HIDE DEF r
<1>3. svc' \in SvcType /\ Same(svc', r) /\ svc'.at \in Calm /\ (svc'.at = "retry" => r.waiting)
  BY <1>1, <1>2, GoesOn DEF Calm
<1>4. rx' \in RxType /\ ~rx'.open /\ ~rx'.handle /\ ~rx'.validated
  BY <1>2 DEF NoRx, RxType
<1>5. Receives'
  BY <1>1, <1>3, <1>4 DEF Receives, Same, Calm, Attempting, RunningVersion
<1> QED
  BY <1>1, <1>3, <1>4, <1>5, ChildGoes DEF Same, Calm, Staged

\* A candidate that is not complete, or a restart that is planned, ends the attempt.
LEMMA Cancels ==
  ASSUME OtaInv, node = "child", ~Settled, NEW s \in SvcType, NEW keep \in BOOLEAN, Cancel(s, keep),
         ~rx.open, ~s.downloading, ~s.finalizing, s.metaValid => s.meta > RunningVersion,
         UNCHANGED <<node, server, flash, run, boot, cand, dl, report>>,
         "done" \in events' <=> "done" \in events,
         cache' \in RecordType \cup {NoRecord}, supply' \in SupplyType, ~supply'.valid
  PROVE  OtaInv'
<1>1. ~Complete
  BY DEF OtaInv, Receives, Complete
<1>2. Drop(s, keep)
  BY <1>1 DEF Cancel
<1> QED
  BY <1>2, Drops

\* A finalization that goes on, now or after a retry.
LEMMA FinalizesOn ==
  ASSUME OtaInv, svc.finalizing, svc' \in SvcType, svc'.finalizing, ~svc'.downloading, ~svc'.current,
         ~svc'.active, svc'.metaValid <=> svc.metaValid, svc'.meta = svc.meta,
         svc'.at \in Calm \cup {"store"}, svc'.at = "retry" => svc'.waiting,
         UNCHANGED <<node, server, flash, run, boot, cache, rx, supply, cand, ota, dl, events, report>>
  PROVE  OtaInv'
<1>1. Settled
  BY DEF OtaInv, Settling
<1>2. OtaTypes'
  BY DEF OtaInv, OtaTypes
<1>3. Settling'
  BY <1>1 DEF OtaInv, Settling, Settled, Calm, Staged
<1>4. Downloads'
  BY <1>1 DEF OtaInv, Downloads, Settled, Calm
<1>5. Receives'
  BY <1>1 DEF OtaInv, Receives, Settled, Calm, Attempting, RunningVersion, Spare
<1>6. Recorded'
  BY DEF OtaInv, Recorded, Calm, RunningVersion
<1> QED
  BY <1>2, <1>3, <1>4, <1>5, <1>6 DEF OtaInv

\* The parent is looked at.
LEMMA OtaPollParent == ASSUME OtaInv, PollParent PROVE OtaInv'
<1>1. /\ svc.at = "parent" /\ svc \in SvcType
      /\ UNCHANGED <<node, server, flash, run, boot, cache, cand, events, report>>
  BY DEF PollParent, stored, entry, OtaInv, OtaTypes
<1>2. ASSUME NEW s \in SvcType, Same(s, svc), GoOn(s), UNCHANGED <<rx, supply, ota, dl>>
      PROVE  OtaInv'
  <2>1. svc' \in SvcType /\ Same(svc', svc) /\ svc'.at \in Calm /\ (svc'.at = "retry" => svc.waiting)
    BY <1>2, GoesOn DEF Same, Calm
  <2> QED
    BY <1>1, <1>2, <2>1, Passes DEF Calm
<1>3. CASE ~svc.active \/ svc.finalizing
  <2> DEFINE s == [svc EXCEPT !.back = "finish", !.held = FALSE]
  <2>1. s \in SvcType /\ Same(s, svc)
    <3>1. svc \in SvcType
      BY <1>1
    <3>2. s \in SvcType
      BY ONLY <3>1 DEF SvcType, Backs
    <3>3. Same(s, svc)
      BY ONLY <3>1 DEF SvcType, Same
    <3> QED
      BY <3>2, <3>3
  <2>2. GoOn(s) /\ UNCHANGED <<rx, supply, ota, dl>>
    <3>1. [[svc EXCEPT !.back = "finish", !.held = TRUE] EXCEPT !.held = FALSE] = s
      BY <1>1 DEF SvcType
    <3> QED
      BY <1>3, <3>1 DEF PollParent
  <2> QED
    BY <1>2, <2>1, <2>2
<1>4. CASE svc.active /\ ~svc.finalizing
  <2>1. node = "child" /\ ~Settled
    BY <1>4 DEF OtaInv, Receives, Settled
  <2>2. ~svc.downloading /\ ~supply.valid /\ boot = run /\ ~report /\ supply \in SupplyType
        /\ cache \in RecordType \cup {NoRecord} /\ (svc.metaValid => svc.meta > RunningVersion)
    BY <2>1, Unsettled DEF OtaInv, OtaTypes, Downloads, Receives
  <2>3. ASSUME NEW keep \in BOOLEAN, NEW s \in SvcType, Same(s, svc), Cancel(s, keep),
               UNCHANGED <<supply, dl>>
        PROVE  OtaInv'
    <3>1. CASE keep /\ Complete
      BY <1>2, <2>3, <3>1 DEF Cancel
    <3>2. CASE ~(keep /\ Complete)
      <4>1. Drop(s, keep)
        BY <2>3, <3>2 DEF Cancel
      <4>2. ~s.downloading /\ ~s.finalizing /\ (s.metaValid => s.meta > RunningVersion)
        BY <1>4, <2>2, <2>3 DEF Same
      <4> QED
        BY <1>1, <2>1, <2>2, <2>3, <4>1, <4>2, Drops
    <3> QED
      BY <3>1, <3>2
  <2>4. CASE planned
    <3> DEFINE s == [svc EXCEPT !.back = "finish", !.held = TRUE]
    <3>1. s \in SvcType /\ Same(s, svc)
      <4>1. svc \in SvcType
        BY <1>1
      <4>2. s \in SvcType
        BY ONLY <4>1 DEF SvcType, Backs
      <4>3. Same(s, svc)
        BY ONLY <4>1 DEF SvcType, Same
      <4> QED
        BY <4>2, <4>3
    <3>2. Cancel(s, FALSE) /\ UNCHANGED <<supply, dl>>
      BY <1>4, <2>4 DEF PollParent
    <3> HIDE DEF s
    <3> QED
      BY <2>3, <3>1, <3>2
  <2>5. CASE ~planned /\ ParentMismatch
    <3> DEFINE s == [[svc EXCEPT !.back = "finish", !.held = TRUE] EXCEPT !.held = ~Complete]
    <3>1. s \in SvcType /\ Same(s, svc)
      <4>1. PICK b \in BOOLEAN : b = ~Complete
        OBVIOUS
      <4>2. s = [svc EXCEPT !.back = "finish", !.held = b]
        BY <1>1, <4>1 DEF SvcType
      <4> HIDE DEF s
      <4>3. s \in SvcType
        BY ONLY <1>1, <4>2, b \in BOOLEAN DEF SvcType, Backs
      <4>4. Same(s, svc)
        BY ONLY <1>1, <4>2 DEF SvcType, Same
      <4> QED
        BY <4>3, <4>4
    <3>2. Cancel(s, TRUE) /\ UNCHANGED <<supply, dl>>
      BY <1>4, <2>5 DEF PollParent
    <3> HIDE DEF s
    <3> QED
      BY <2>3, <3>1, <3>2
  <2>6. CASE ~planned /\ ~ParentMismatch /\ ~svc.waitParent
    <3> DEFINE s == [svc EXCEPT !.back = "finish", !.held = FALSE]
    <3>1. s \in SvcType /\ Same(s, svc)
      <4>1. svc \in SvcType
        BY <1>1
      <4>2. s \in SvcType
        BY ONLY <4>1 DEF SvcType, Backs
      <4>3. Same(s, svc)
        BY ONLY <4>1 DEF SvcType, Same
      <4> QED
        BY <4>2, <4>3
    <3>2. GoOn(s) /\ UNCHANGED <<rx, supply, ota, dl>>
      <4>1. [[svc EXCEPT !.back = "finish", !.held = TRUE] EXCEPT !.held = FALSE] = s
        BY <1>1 DEF SvcType
      <4> QED
        BY <1>4, <2>6, <4>1 DEF PollParent
    <3> QED
      BY <1>2, <3>1, <3>2
  <2>7. CASE ~planned /\ ~ParentMismatch /\ svc.waitParent
             /\ (~link.online \/ ~link.stable \/ inflight \/ ~svc.scheduled)
    <3> DEFINE s == [[svc EXCEPT !.back = "finish", !.held = TRUE]
                       EXCEPT !.scheduled = link.online /\ link.stable /\ ~inflight]
    <3>1. s \in SvcType /\ Same(s, svc)
      <4>1. PICK b \in BOOLEAN : b = (link.online /\ link.stable /\ ~inflight)
        OBVIOUS
      <4>2. s = [svc EXCEPT !.back = "finish", !.held = TRUE, !.scheduled = b]
        BY <1>1, <4>1 DEF SvcType
      <4> HIDE DEF s
      <4>3. s \in SvcType
        BY ONLY <1>1, <4>2, b \in BOOLEAN DEF SvcType, Backs
      <4>4. Same(s, svc)
        BY ONLY <1>1, <4>2 DEF SvcType, Same
      <4> QED
        BY <4>3, <4>4
    <3>2. GoOn(s) /\ UNCHANGED <<rx, supply, ota, dl>>
      BY <1>4, <2>7 DEF PollParent
    <3> HIDE DEF s
    <3> QED
      BY <1>2, <3>1, <3>2
  <2>8. CASE ~planned /\ ~ParentMismatch /\ svc.waitParent
             /\ ~(~link.online \/ ~link.stable \/ inflight \/ ~svc.scheduled)
    <3> DEFINE s == [[svc EXCEPT !.back = "finish", !.held = TRUE] EXCEPT !.scheduled = FALSE]
    <3>1. s \in SvcType /\ Same(s, svc)
      <4>1. s = [svc EXCEPT !.back = "finish", !.held = TRUE, !.scheduled = FALSE]
        BY <1>1 DEF SvcType
      <4> HIDE DEF s
      <4> QED
        BY <1>1, <4>1 DEF SvcType, Backs, Same
    <3>2. StartAttempt(s)
      BY <1>4, <2>8 DEF PollParent
    <3> HIDE DEF s
    <3> QED
      BY <1>1, <1>4, <2>1, <2>2, <3>1, <3>2, AttemptStarts DEF Same
  <2> QED
    BY <2>4, <2>5, <2>6, <2>7, <2>8
<1> QED
  BY <1>3, <1>4

\* The end of a transfer is handled.
LEMMA OtaChildFinish == ASSUME OtaInv, NEW late \in BOOLEAN, ChildFinish(late) PROVE OtaInv'
<1> DEFINE s == [svc EXCEPT !.back = "request"]
<1>1. /\ svc.at = "finish"
      /\ UNCHANGED <<node, server, flash, run, boot, cache, dl, events, report>>
  BY DEF ChildFinish, stored, entry
<1>2. s \in SvcType /\ Same(s, svc)
  <2>1. svc \in SvcType
    BY DEF OtaInv, OtaTypes
  <2>2. s \in SvcType
    BY ONLY <2>1 DEF SvcType, Backs
  <2>3. Same(s, svc)
    BY ONLY <2>1 DEF SvcType, Same
  <2> QED
    BY <2>2, <2>3
<1>3. CASE ~rx.open \/ rx.finish = "no" \/ (rx.finish = "ok" /\ ~rx.done /\ ~late)
  <2>1. GoOn(s) /\ UNCHANGED <<rx, supply, cand, ota>>
    BY <1>3 DEF ChildFinish
  <2> HIDE DEF s
  <2>2. svc' \in SvcType /\ Same(svc', svc) /\ svc'.at \in Calm /\ (svc'.at = "retry" => svc.waiting)
    BY <1>2, <2>1, GoesOn DEF Same, Calm
  <2> QED
    BY <1>1, <2>1, <2>2, Passes DEF Calm
<1>4. CASE ~(~rx.open \/ rx.finish = "no" \/ (rx.finish = "ok" /\ ~rx.done /\ ~late))
  <2>1. rx.open /\ ~Settled
    BY <1>4 DEF Settled
  <2>2. ~svc.finalizing /\ ~supply.valid /\ boot = run /\ ~report
    BY <2>1, Unsettled
  <2>3. node = "child" /\ svc.metaValid /\ svc.meta > RunningVersion /\ ~svc.downloading
    BY <2>1 DEF OtaInv, Receives, Downloads
  <2>4. rx' = NoRx
    BY <1>4 DEF ChildFinish
  <2>5. rx' \in RxType /\ ~rx'.open /\ ~rx'.handle /\ ~rx'.validated
    BY <2>4 DEF NoRx, RxType
  <2>6. ~s.downloading /\ ~s.finalizing /\ (s.metaValid => s.meta > RunningVersion)
    BY <1>2, <2>2, <2>3 DEF Same
  <2>7. cache' \in RecordType \cup {NoRecord} /\ supply \in SupplyType
    BY <1>1 DEF OtaInv, OtaTypes
  <2>8. CASE rx.finish = "ok" /\ rx.validated /\ ~rx.failed
    <3> DEFINE q == [s EXCEPT !.bootstrap = FALSE]
               record == [slot |-> Spare, ver |-> svc.meta, origin |-> "download"]
    <3>1. Stage(q, record, FALSE, TRUE)
      BY <1>4, <2>8 DEF ChildFinish, StageDownload
    <3>2. q \in SvcType /\ ~q.downloading /\ (q.metaValid <=> s.metaValid) /\ q.meta = s.meta
      BY <1>2, <2>6 DEF SvcType
    <3>3. svc.meta \in Versions /\ flash[Spare] = svc.meta
      <4>1. svc.meta \in {0} \cup Versions /\ flash[run] \in {0} \cup Versions
        BY DEF OtaInv, OtaTypes, SvcType
      <4>2. svc.meta \in Versions
        BY <2>3, <4>1 DEF RunningVersion, Versions
      <4> QED
        BY <2>8, <4>2 DEF OtaInv, Receives
    <3>4. record \in RecordType /\ flash[record.slot] = record.ver
      BY <3>3, SpareSlot DEF OtaInv, OtaTypes, RecordType, Origins
    <3> HIDE DEF q, record, s
    <3> QED
      BY <1>1, <2>2, <2>3, <2>5, <2>6, <2>7, <3>1, <3>2, <3>4, RecordStaged
  <2>9. CASE ~(rx.finish = "ok" /\ rx.validated /\ ~rx.failed)
    <3>1. Failed(s) /\ UNCHANGED <<supply, cand>>
      BY <1>4, <2>9 DEF ChildFinish
    <3> HIDE DEF s
    <3>2. supply' \in SupplyType /\ ~supply'.valid
      BY <2>2, <2>7, <3>1
    <3> QED
      BY <1>1, <1>2, <2>1, <2>3, <2>5, <2>6, <2>7, <3>1, <3>2, FailsLater
  <2> QED
    BY <2>8, <2>9
<1> QED
  BY <1>3, <1>4

\* A command is taken up.
LEMMA OtaRequest == ASSUME OtaInv, Request PROVE OtaInv'
<1> DEFINE s == [svc EXCEPT !.back = "retry", !.observed = TRUE, !.request = FALSE]
<1>1. /\ svc.at = "request" /\ svc \in SvcType
      /\ UNCHANGED <<node, server, flash, run, boot, cache, cand, events, report>>
  BY DEF Request, stored, OtaInv, OtaTypes
<1>2. s \in SvcType /\ Same(s, svc)
  <2>1. svc \in SvcType
    BY <1>1
  <2>2. s \in SvcType
    BY ONLY <2>1 DEF SvcType, Backs
  <2>3. Same(s, svc)
    BY ONLY <2>1 DEF SvcType, Same
  <2> QED
    BY <2>2, <2>3
<1>3. [s EXCEPT !.deferred = TRUE] \in SvcType /\ Same([s EXCEPT !.deferred = TRUE], svc)
  <2> HIDE DEF s
  <2>1. [s EXCEPT !.deferred = TRUE] \in SvcType
    BY <1>2 DEF SvcType
  <2>2. Same([s EXCEPT !.deferred = TRUE], svc)
    BY <1>2 DEF SvcType, Same
  <2> QED
    BY <2>1, <2>2
<1>4. ASSUME NEW r \in SvcType, Same(r, svc), GoOn(r), UNCHANGED <<rx, supply, ota, dl>>
      PROVE  OtaInv'
  <2>1. svc' \in SvcType /\ Same(svc', svc) /\ svc'.at \in Calm /\ (svc'.at = "retry" => svc.waiting)
    BY <1>4, GoesOn DEF Same, Calm
  <2> QED
    BY <1>1, <1>4, <2>1, Passes DEF Calm
<1>5. CASE node = "child" /\ (svc.active \/ planned)
  <2>1. GoOn(s) /\ UNCHANGED <<rx, supply, ota, dl>>
    BY <1>5 DEF Request
  <2> HIDE DEF s
  <2> QED
    BY <1>2, <1>4, <2>1
<1>6. CASE ~(node = "child" /\ (svc.active \/ planned)) /\ report
  <2>1. GoOn([s EXCEPT !.deferred = TRUE]) /\ UNCHANGED <<rx, supply, ota, dl>>
    BY <1>6 DEF Request
  <2> QED
    BY <1>3, <1>4, <2>1
<1>7. CASE ~(node = "child" /\ (svc.active \/ planned)) /\ ~report /\ svc.finalizing /\ svc.waiting
  <2>1. GoOn([s EXCEPT !.deferred = TRUE]) /\ UNCHANGED <<rx, supply, ota, dl>>
    BY <1>7 DEF Request
  <2> QED
    BY <1>3, <1>4, <2>1
<1>8. CASE ~(node = "child" /\ (svc.active \/ planned)) /\ ~report /\ svc.finalizing /\ ~svc.waiting
  <2> DEFINE r == [s EXCEPT !.deferred = @ \/ ~cand.report, !.retries = 0]
  <2>1. r \in SvcType /\ Same(r, svc)
    <3>1. PICK b \in BOOLEAN : b = (s.deferred \/ ~cand.report)
      OBVIOUS
    <3>2. r = [svc EXCEPT !.back = "retry", !.observed = TRUE, !.request = FALSE,
                          !.deferred = b, !.retries = 0]
      BY <1>1, <3>1 DEF SvcType
    <3> HIDE DEF r, s
    <3>3. r \in SvcType
      BY ONLY <1>1, <3>2, b \in BOOLEAN DEF SvcType, Backs
    <3>4. Same(r, svc)
      BY ONLY <1>1, <3>2 DEF SvcType, Same
    <3> QED
      BY <3>3, <3>4
  <2>2. Enter(r, "store") /\ UNCHANGED <<rx, supply, ota, dl>>
    BY <1>8 DEF Request
  <2> HIDE DEF s, r
  <2>3. svc' \in SvcType /\ Same(svc', r) /\ svc'.at = "store"
    BY <2>1, <2>2, Enters DEF Stages, Staged
  <2>4. ~svc.downloading /\ ~svc.active /\ ~svc.current
    BY <1>8 DEF OtaInv, Settling, Settled
  <2> QED
    BY <1>1, <1>8, <2>1, <2>2, <2>3, <2>4, FinalizesOn DEF Same
<1>9. CASE /\ ~(node = "child" /\ (svc.active \/ planned)) /\ ~report /\ ~svc.finalizing
           /\ svc.downloading \/ ota = "running" \/ svc.waiting
  <2>1. GoOn(s) /\ UNCHANGED <<rx, supply, ota, dl>>
    BY <1>9 DEF Request
  <2> HIDE DEF s
  <2> QED
    BY <1>2, <1>4, <2>1
<1>10. CASE /\ ~(node = "child" /\ (svc.active \/ planned)) /\ ~report /\ ~svc.finalizing
            /\ ~(svc.downloading \/ ota = "running" \/ svc.waiting)
            /\ ota = "pending"
  <2>1. Enter(s, "confirm") /\ UNCHANGED <<rx, supply, ota, dl>>
    BY <1>10 DEF Request
  <2> HIDE DEF s
  <2>2. svc' \in SvcType /\ Same(svc', svc) /\ svc'.at = "confirm"
    BY <1>2, <2>1, Enters DEF Stages, Calm, Same
  <2> QED
    BY <1>1, <2>1, <2>2, Passes DEF Calm
<1>11. CASE /\ ~(node = "child" /\ (svc.active \/ planned)) /\ ~report /\ ~svc.finalizing
            /\ ~(svc.downloading \/ ota = "running" \/ svc.waiting)
            /\ ota # "pending"
  <2> DEFINE r == [s EXCEPT !.retries = 0, !.metaValid = FALSE, !.active = node = "child"]
  <2>1. PICK b \in BOOLEAN : b <=> node = "child"
    OBVIOUS
  <2>2. r = [svc EXCEPT !.back = "retry", !.observed = TRUE, !.request = FALSE,
                        !.retries = 0, !.metaValid = FALSE, !.active = b]
    BY <1>1, <2>1 DEF SvcType
  <2>3. StartAttempt(r)
    BY <1>11 DEF Request
  <2> HIDE DEF r, s
  <2>4. r \in SvcType
    BY ONLY <1>1, <2>2, b \in BOOLEAN DEF SvcType, Backs
  <2>5. /\ (r.active <=> b) /\ ~r.metaValid /\ (r.finalizing <=> svc.finalizing)
        /\ (r.waiting <=> svc.waiting) /\ (r.downloading <=> svc.downloading)
    BY ONLY <1>1, <2>2 DEF SvcType
  <2>6. boot = run
    BY <1>11 DEF OtaInv, Recorded
  <2> QED
    BY <1>1, <1>11, <2>1, <2>3, <2>4, <2>5, <2>6, AttemptStarts
<1> QED
  BY <1>5, <1>6, <1>7, <1>8, <1>9, <1>10, <1>11

\* A deadline is looked at.
LEMMA OtaRetry == ASSUME OtaInv, NEW due \in BOOLEAN, Retry(due) PROVE OtaInv'
<1> DEFINE s == [svc EXCEPT !.back = "bootstrap", !.waiting = ~due]
<1>1. /\ svc.at = "retry" /\ svc \in SvcType /\ svc.waiting
      /\ UNCHANGED <<node, server, flash, run, boot, cache, cand, events, report>>
  BY DEF Retry, stored, entry, OtaInv, OtaTypes, Settling
<1>2. PICK b \in BOOLEAN : b = ~due
  OBVIOUS
<1>3. s = [svc EXCEPT !.back = "bootstrap", !.waiting = b]
  BY <1>2
<1>4. CASE ~due
  <2>1. GoOn(s) /\ UNCHANGED <<rx, supply, ota, dl>>
    BY <1>4 DEF Retry
  <2> HIDE DEF s
  <2>2. s \in SvcType /\ Same(s, svc)
    <3>1. b
      BY <1>2, <1>4
    <3>2. s \in SvcType
      BY ONLY <1>1, <1>3, b \in BOOLEAN DEF SvcType, Backs
    <3>3. Same(s, svc)
      BY ONLY <1>1, <1>3, <3>1 DEF SvcType, Same
    <3> QED
      BY <3>2, <3>3
  <2>3. svc' \in SvcType /\ Same(svc', svc) /\ svc'.at \in Calm
    BY <2>1, <2>2, GoesOn DEF Same, Calm
  <2> QED
    BY <1>1, <2>1, <2>3, Passes DEF Calm
<1>5. CASE due
  <2>1. /\ s \in SvcType /\ ~s.waiting /\ (s.downloading <=> svc.downloading)
        /\ (s.finalizing <=> svc.finalizing) /\ (s.current <=> svc.current)
        /\ (s.active <=> svc.active) /\ (s.metaValid <=> svc.metaValid) /\ s.meta = svc.meta
    <3> HIDE DEF s
    <3>1. ~b
      BY <1>2, <1>5
    <3>2. s \in SvcType
      BY ONLY <1>1, <1>3, b \in BOOLEAN DEF SvcType, Backs
    <3> QED
      BY ONLY <1>1, <1>3, <3>1, <3>2 DEF SvcType
  <2>2. CASE svc.finalizing
    <3>1. Enter(s, "store") /\ UNCHANGED <<rx, supply, ota, dl>>
      BY <1>5, <2>2 DEF Retry
    <3> HIDE DEF s
    <3>2. svc' \in SvcType /\ Same(svc', s) /\ svc'.at = "store"
      BY <2>1, <3>1, Enters DEF Stages, Staged
    <3>3. ~svc.downloading /\ ~svc.active /\ ~svc.current
      BY <2>2 DEF OtaInv, Settling, Settled
    <3> QED
      BY <1>1, <2>1, <2>2, <3>1, <3>2, <3>3, FinalizesOn DEF Same
  <2>3. CASE ~svc.finalizing /\ svc.current
    <3>1. Enter(s, "current") /\ UNCHANGED <<rx, supply, ota, dl>>
      BY <1>5, <2>3 DEF Retry
    <3> HIDE DEF s
    <3>2. svc' \in SvcType /\ Same(svc', s) /\ svc'.at = "current"
      BY <2>1, <3>1, Enters DEF Stages
    <3>3. ~supply.valid /\ boot = run /\ ~report
      BY <2>3, Unsettled DEF Settled
    <3>4. OtaTypes'
      BY <1>1, <3>1, <3>2 DEF OtaInv, OtaTypes
    <3>5. ~svc.downloading /\ ~rx.open
      BY <2>3 DEF OtaInv, Downloads, Receives
    <3>6. Downloads'
      BY <1>1, <2>1, <3>1, <3>2, <3>5 DEF OtaInv, Downloads, Same
    <3>7. Receives'
      BY <1>1, <2>1, <3>1, <3>2, <3>5 DEF OtaInv, Receives, Same, Attempting, RunningVersion
    <3> QED
      BY <1>1, <2>1, <2>3, <3>1, <3>2, <3>3, <3>4, <3>6, <3>7, Unstaged DEF OtaInv, Recorded, Same, Staged
  <2>4. CASE ~svc.finalizing /\ ~svc.current
    <3>1. StartAttempt(s)
      BY <1>5, <2>4 DEF Retry
    <3> HIDE DEF s
    <3>2. ~supply.valid /\ boot = run /\ ~report
      BY <1>1, <2>4, Unsettled DEF Settled
    <3>3. ~svc.downloading /\ (svc.active => node = "child")
      BY <1>1 DEF OtaInv, Downloads, Receives
    <3> QED
      BY <1>1, <2>1, <2>4, <3>1, <3>2, <3>3, AttemptStarts
  <2> QED
    BY <2>2, <2>3, <2>4
<1> QED
  BY <1>4, <1>5

\* The running image may become the supply.
LEMMA OtaBootstrap == ASSUME OtaInv, NEW ok \in BOOLEAN, Bootstrap(ok) PROVE OtaInv'
<1>1. /\ svc.at = "bootstrap" /\ svc \in SvcType
      /\ UNCHANGED <<node, server, flash, run, boot, cache, rx, dl, events, report>>
  BY DEF Bootstrap, stored, receiver, entry, OtaInv, OtaTypes
<1>2. CASE ~CanBootstrap
  <2>1. Enter(svc, "end") /\ UNCHANGED <<supply, cand, ota>>
    BY <1>2 DEF Bootstrap
  <2>2. svc' \in SvcType /\ Same(svc', svc) /\ svc'.at = "end"
    BY <1>1, <2>1, Enters DEF Stages, Calm
  <2> QED
    BY <1>1, <2>1, <2>2, Passes DEF Calm
<1>3. CASE CanBootstrap
  <2> DEFINE s == [svc EXCEPT !.back = "end", !.tries = @ + 1,
                              !.bootstrap = ~ok /\ svc.tries < RetryMax]
  <2>1. s \in SvcType /\ Same(s, svc)
    <3>1. PICK b \in BOOLEAN : b = (~ok /\ svc.tries < RetryMax)
      OBVIOUS
    <3>2. svc.tries + 1 \in Nat
      BY <1>1 DEF SvcType
    <3>3. PICK n \in Nat : n = svc.tries + 1
      BY <3>2
    <3>4. s = [svc EXCEPT !.back = "end", !.tries = n, !.bootstrap = b]
      BY <3>1, <3>3
    <3> HIDE DEF s
    <3>5. s \in SvcType
      BY ONLY <1>1, <3>4, b \in BOOLEAN, n \in Nat DEF SvcType, Backs
    <3>6. Same(s, svc)
      BY ONLY <1>1, <3>4 DEF SvcType, Same
    <3> QED
      BY <3>5, <3>6
  <2>2. CASE ok /\ server = RunningVersion
    <3>1. Stage(s, Running("bootstrap"), FALSE, FALSE)
      BY <1>3, <2>2 DEF Bootstrap
    <3> HIDE DEF s
    <3>2. ~report /\ ~svc.downloading /\ boot = run /\ ~rx.open
      BY <1>3 DEF CanBootstrap, OtaInv, Recorded, Receives
    <3>3. /\ Running("bootstrap") \in RecordType
          /\ flash[Running("bootstrap").slot] = Running("bootstrap").ver
      BY DEF Running, RecordType, Origins, RunningVersion, OtaInv, OtaTypes, Recorded
    <3>4. /\ ~rx.handle /\ ~rx.validated /\ rx \in RxType /\ cache \in RecordType \cup {NoRecord}
          /\ (s.metaValid => node = "child" /\ s.meta > RunningVersion) /\ ~s.downloading
      BY <2>1, <3>2 DEF OtaInv, OtaTypes, Receives, Same
    <3> QED
      BY <1>1, <2>1, <3>1, <3>2, <3>3, <3>4, RecordStaged
  <2>3. CASE ~(ok /\ server = RunningVersion)
    <3>1. GoOn(s) /\ UNCHANGED <<supply, cand, ota>>
      BY <1>3, <2>3 DEF Bootstrap
    <3> HIDE DEF s
    <3>2. svc' \in SvcType /\ Same(svc', svc) /\ svc'.at \in Calm /\ (svc'.at = "retry" => svc.waiting)
      BY <2>1, <3>1, GoesOn DEF Same, Calm
    <3> QED
      BY <1>1, <3>1, <3>2, Passes DEF Calm
  <2> QED
    BY <2>2, <2>3
<1> QED
  BY <1>2, <1>3

\* The poll ends.
LEMMA OtaPollEnd == ASSUME OtaInv, NEW sent \in BOOLEAN, PollEnd(sent) PROVE OtaInv'
<1> DEFINE s == [svc EXCEPT !.at = "wait"]
<1>1. /\ svc.at = "end" /\ svc \in SvcType
      /\ UNCHANGED <<node, server, flash, run, boot, cache, rx, supply, cand, ota, dl>>
      /\ report' => report
  BY DEF PollEnd, stored, receiver, OtaInv, OtaTypes
<1>2. PICK b \in BOOLEAN : b = (svc.observed /\ ~CommandOver)
  OBVIOUS
<1>3. \/ svc' = [svc EXCEPT !.at = "wait", !.deferred = FALSE] /\ events' = events \cup {"request"}
      \/ svc' = [svc EXCEPT !.at = "wait", !.observed = b] /\ events' = events
  <2>1. CASE svc.deferred /\ ~report' /\ ~svc.finalizing /\ ~svc.downloading /\ ~svc.waiting
    <3>1. svc' = [s EXCEPT !.deferred = FALSE] /\ events' = events \cup {"request"}
      BY <2>1 DEF PollEnd
    <3>2. svc \in SvcType
      BY <1>1
    <3>3. [s EXCEPT !.deferred = FALSE] = [svc EXCEPT !.at = "wait", !.deferred = FALSE]
      BY ONLY <3>2 DEF SvcType
    <3>4. svc' = [svc EXCEPT !.at = "wait", !.deferred = FALSE]
      BY ONLY <3>1, <3>3
    <3> QED
      BY ONLY <3>1, <3>4
  <2>2. CASE ~(svc.deferred /\ ~report' /\ ~svc.finalizing /\ ~svc.downloading /\ ~svc.waiting)
    <3>1. svc' = [s EXCEPT !.observed = @ /\ ~CommandOver] /\ events' = events
      BY <2>2 DEF PollEnd
    <3>2. s.observed = svc.observed
      BY <1>1 DEF SvcType
    <3>3. svc' = [s EXCEPT !.observed = b]
      BY <3>1, <3>2, <1>2
    <3> QED
      BY <3>1, <3>3, <1>1 DEF SvcType
  <2> QED
    BY <2>1, <2>2
<1>4. svc' \in SvcType /\ svc'.at = "wait"
  BY ONLY <1>1, <1>3, b \in BOOLEAN DEF SvcType, Stages, Calm
<1>5. Same(svc', svc)
  BY ONLY <1>1, <1>3 DEF SvcType, Same
<1>6. "done" \in events' <=> "done" \in events
  BY <1>3
<1> QED
  BY <1>1, <1>4, <1>5, <1>6, Passes DEF Calm

\* A stage that is neither calm nor staged ends in one that is, and nothing is staged.
LEMMA Ends ==
  ASSUME OtaInv, svc.at \in {"restore", "current"}, NEW s \in SvcType, GoOn(s),
         ~s.downloading, ~s.finalizing, s.active => svc.active, s.metaValid => svc.metaValid,
         s.meta = svc.meta,
         UNCHANGED <<node, server, flash, run, boot, rx, supply, cand, dl, events, report>>,
         cache' \in RecordType \cup {NoRecord}
  PROVE  OtaInv'
<1>1. svc' \in SvcType /\ Same(svc', s) /\ svc'.at \in Calm /\ (svc'.at = "retry" => s.waiting)
  BY GoesOn DEF Calm
<1>2. ~svc.finalizing /\ ~supply.valid /\ boot = run /\ ~report
  BY Unsettled DEF Settled, Calm, Staged
<1>3. ~svc.downloading /\ ~rx.open
  BY DEF OtaInv, Downloads, Receives, Calm
<1>4. OtaTypes'
  BY <1>1 DEF OtaInv, OtaTypes
<1>5. Downloads'
  BY <1>1, <1>3 DEF OtaInv, Downloads, Same, Calm
<1>6. Receives'
  BY <1>1, <1>3 DEF OtaInv, Receives, Same, Calm, Attempting, RunningVersion
<1> QED
  BY <1>1, <1>2, <1>4, <1>5, <1>6, Unstaged DEF OtaInv, Recorded, Same, Calm, Staged

\* The supply is looked for in NVS.
LEMMA OtaRestore == ASSUME OtaInv, NEW ok \in BOOLEAN, Restore(ok) PROVE OtaInv'
<1> DEFINE s == [svc EXCEPT !.bootstrap = FALSE]
<1>1. /\ svc.at = "restore" /\ svc \in SvcType /\ cache \in RecordType \cup {NoRecord}
      /\ UNCHANGED <<node, server, flash, run, boot, rx, dl, events, report>>
  BY DEF Restore, receiver, entry, OtaInv, OtaTypes
<1>2. s \in SvcType /\ Same(s, svc)
  <2>1. svc \in SvcType
    BY <1>1
  <2>2. s \in SvcType
    BY ONLY <2>1 DEF SvcType, Backs
  <2>3. Same(s, svc)
    BY ONLY <2>1 DEF SvcType, Same
  <2> QED
    BY <2>2, <2>3
<1>3. ~svc.finalizing /\ ~supply.valid /\ boot = run /\ ~report
  BY <1>1, Unsettled DEF Settled, Calm, Staged
<1>4. ~svc.downloading /\ ~rx.open
  BY <1>1 DEF OtaInv, Downloads, Receives, Calm
<1>5. CASE ~ok
  <2>1. GoOn(s) /\ UNCHANGED <<cache, supply, cand, ota>>
    BY <1>5 DEF Restore
  <2> HIDE DEF s
  <2> QED
    BY <1>1, <1>2, <1>3, <1>4, <2>1, Ends DEF Same
<1>6. CASE ok /\ RecordFits
  <2>1. Stage(s, cache, TRUE, FALSE) /\ cache' = cache
    BY <1>6 DEF Restore
  <2>2. cache \in RecordType /\ flash[cache.slot] = cache.ver
    BY <1>1, <1>6 DEF RecordFits
  <2>3. /\ ~rx.handle /\ ~rx.validated /\ rx \in RxType
        /\ (svc.metaValid => node = "child" /\ svc.meta > RunningVersion)
    BY <1>4 DEF OtaInv, OtaTypes, Receives
  <2> HIDE DEF s
  <2> QED
    BY <1>1, <1>2, <1>3, <1>4, <2>1, <2>2, <2>3, RecordStaged DEF Same
<1>7. CASE ok /\ ~RecordFits
  <2> DEFINE r == [s EXCEPT !.bootstrap = TRUE, !.tries = 0]
  <2>1. GoOn(r) /\ cache' = NoRecord /\ UNCHANGED <<supply, cand>>
    BY <1>7 DEF Restore
  <2>2. r \in SvcType /\ Same(r, svc)
    <3> HIDE DEF s
    <3>1. r \in SvcType
      BY <1>2 DEF SvcType
    <3>2. Same(r, s)
      BY <1>2 DEF SvcType, Same
    <3> QED
      BY <1>2, <3>1, <3>2 DEF Same
  <2> HIDE DEF s, r
  <2> QED
    BY <1>1, <1>3, <1>4, <2>1, <2>2, Ends DEF Same
<1> QED
  BY <1>5, <1>6, <1>7

\* The running version was asked for.
LEMMA OtaCurrent == ASSUME OtaInv, NEW ok \in BOOLEAN, Current(ok) PROVE OtaInv'
<1> DEFINE mine == cache # NoRecord /\ cache.ver = svc.meta
<1>1. /\ svc.at = "current" /\ svc \in SvcType /\ cache \in RecordType \cup {NoRecord}
      /\ UNCHANGED <<node, server, flash, run, boot, rx, dl, events, report>>
  BY DEF Current, receiver, entry, OtaInv, OtaTypes
<1>2. cache' \in RecordType \cup {NoRecord}
  BY <1>1 DEF Current
<1>3. ~svc.finalizing /\ ~supply.valid /\ boot = run /\ ~report
  BY <1>1, Unsettled DEF Settled, Calm, Staged
<1>4. ~svc.downloading /\ ~rx.open /\ rx \in RxType /\ ~rx.handle /\ ~rx.validated
      /\ (svc.metaValid => node = "child" /\ svc.meta > RunningVersion)
  BY <1>1 DEF OtaInv, OtaTypes, Downloads, Receives, Calm
<1>5. CASE ok
  <2>1. PICK record \in RecordType : flash[record.slot] = record.ver /\ Stage(svc, record, FALSE, TRUE)
    <3>1. CASE mine /\ RecordFits
      <4> DEFINE record == [cache EXCEPT !.origin = "current"]
      <4>1. cache \in RecordType /\ flash[cache.slot] = cache.ver
        BY <1>1, <3>1 DEF RecordFits
      <4>2. record \in RecordType /\ record.slot = cache.slot /\ record.ver = cache.ver
        BY <4>1 DEF RecordType, Origins
      <4>3. Stage(svc, record, FALSE, TRUE)
        BY <1>5, <3>1 DEF Current
      <4> HIDE DEF record
      <4> QED
        BY <4>1, <4>2, <4>3
    <3>2. CASE ~(mine /\ RecordFits)
      <4>1. Stage(svc, Running("current"), FALSE, TRUE)
        BY <1>5, <3>2 DEF Current
      <4>2. /\ Running("current") \in RecordType
            /\ flash[Running("current").slot] = Running("current").ver
        BY DEF Running, RecordType, Origins, RunningVersion, OtaInv, OtaTypes, Recorded
      <4> QED
        BY <4>1, <4>2
    <3> QED
      BY <3>1, <3>2
  <2> QED
    BY <1>1, <1>2, <1>3, <1>4, <2>1, RecordStaged
<1>6. CASE ~ok
  <2>1. Failed(svc) /\ UNCHANGED <<supply, cand>>
    BY <1>6 DEF Current
  <2>2. /\ WithRetry(svc) \in SvcType /\ ~WithRetry(svc).downloading /\ ~WithRetry(svc).finalizing
        /\ (WithRetry(svc).active => svc.active) /\ (WithRetry(svc).metaValid => svc.metaValid)
        /\ WithRetry(svc).meta = svc.meta
    BY <1>1, <1>3, <1>4, Retries
  <2>3. GoOn(WithRetry(svc))
    BY <2>1 DEF Failed
  <2> QED
    BY <1>1, <1>2, <2>1, <2>2, <2>3, Ends
<1> QED
  BY <1>5, <1>6

\* The record is stored before the slot is selected.
LEMMA OtaStore == ASSUME OtaInv, NEW ok \in BOOLEAN, Store(ok) PROVE OtaInv'
<1>1. /\ svc.at = "store" /\ svc \in SvcType /\ cand \in CandType
      /\ UNCHANGED <<node, server, flash, run, boot, rx, supply, ota, dl, events, report>>
  BY DEF Store, receiver, entry, OtaInv, OtaTypes
<1>2. svc.finalizing /\ Settled
  BY <1>1 DEF OtaInv, Settling, Staged
<1>3. ~svc.downloading /\ ~svc.active /\ ~svc.current
  BY <1>2 DEF Settled
<1>4. CASE ~ok \/ supply.ver < RunningVersion
  <2>1. GoOn(WithRetry(svc)) /\ UNCHANGED <<cache, cand>>
    BY <1>4 DEF Store
  <2>2. /\ WithRetry(svc) \in SvcType /\ ~WithRetry(svc).downloading /\ WithRetry(svc).finalizing
        /\ ~WithRetry(svc).active /\ (WithRetry(svc).metaValid <=> svc.metaValid)
        /\ WithRetry(svc).meta = svc.meta /\ ~WithRetry(svc).current
    BY <1>1, <1>2, <1>3, Retries
  <2>3. /\ svc' \in SvcType /\ Same(svc', WithRetry(svc)) /\ svc'.at \in Calm
        /\ svc'.at = "retry" => WithRetry(svc).waiting
    BY <2>1, <2>2, GoesOn DEF Calm
  <2> QED
    BY <1>1, <1>2, <2>1, <2>2, <2>3, FinalizesOn DEF Same
<1>5. CASE ~(~ok \/ supply.ver < RunningVersion)
  <2>1. /\ cache' = IF cand.persisted THEN cache
                    ELSE [slot |-> supply.slot, ver |-> supply.ver, origin |-> cand.origin]
        /\ cand' = [cand EXCEPT !.persisted = TRUE] /\ Enter(svc, "boot")
    BY <1>5 DEF Store
  <2>2. svc' \in SvcType /\ Same(svc', svc) /\ svc'.at = "boot"
    BY <1>1, <2>1, Enters DEF Stages, Staged
  <2>3. cand' \in CandType /\ cand'.persisted /\ cand'.origin = cand.origin
    BY <1>1, <2>1 DEF CandType
  <2>4. cache' = [slot |-> supply.slot, ver |-> supply.ver, origin |-> cand.origin]
    BY <1>2, <2>1 DEF OtaInv, Recorded
  <2>5. supply.slot \in Slots /\ supply.ver \in Versions /\ cand.origin \in Origins
    BY <1>1, <1>2 DEF OtaInv, OtaTypes, SupplyType, CandType, Recorded
  <2>6. cache' \in RecordType
    BY <2>4, <2>5 DEF RecordType
  <2>7. OtaTypes'
    BY <1>1, <2>2, <2>3, <2>6 DEF OtaInv, OtaTypes
  <2>8. Settling'
    BY <1>1, <1>2, <2>2 DEF OtaInv, Settling, Settled, Same, Staged
  <2>9. Downloads'
    BY <1>1, <1>3, <2>2 DEF OtaInv, Downloads, Same
  <2>10. Receives'
    BY <1>1, <1>2, <2>2 DEF OtaInv, Receives, Settled, Same, Attempting, RunningVersion, Spare
  <2>11. Recorded'
    BY <1>1, <1>2, <2>2, <2>3, <2>4, <2>5 DEF OtaInv, Recorded, RunningVersion, Same, Versions
  <2> QED
    BY <2>7, <2>8, <2>9, <2>10, <2>11 DEF OtaInv
<1> QED
  BY <1>4, <1>5

\* The slot is selected once its record is stored.
LEMMA OtaSelectBoot == ASSUME OtaInv, NEW ok \in BOOLEAN, SelectBoot(ok) PROVE OtaInv'
<1>1. /\ svc.at = "boot" /\ svc \in SvcType
      /\ UNCHANGED <<node, server, flash, run, cache, rx, supply, cand, dl, events, report>>
  BY DEF SelectBoot, receiver, entry, OtaInv, OtaTypes
<1>2. svc.finalizing /\ Settled
  BY <1>1 DEF OtaInv, Settling, Staged
<1>3. ~svc.downloading /\ ~svc.active /\ ~svc.current
  BY <1>2 DEF Settled
<1>4. CASE ~ok
  <2>1. GoOn(WithRetry(svc)) /\ UNCHANGED <<boot, ota>>
    BY <1>4 DEF SelectBoot
  <2>2. /\ WithRetry(svc) \in SvcType /\ ~WithRetry(svc).downloading /\ WithRetry(svc).finalizing
        /\ ~WithRetry(svc).active /\ (WithRetry(svc).metaValid <=> svc.metaValid)
        /\ WithRetry(svc).meta = svc.meta /\ ~WithRetry(svc).current
    BY <1>1, <1>2, <1>3, Retries
  <2>3. /\ svc' \in SvcType /\ Same(svc', WithRetry(svc)) /\ svc'.at \in Calm
        /\ svc'.at = "retry" => WithRetry(svc).waiting
    BY <2>1, <2>2, GoesOn DEF Calm
  <2> QED
    BY <1>1, <1>2, <2>1, <2>2, <2>3, FinalizesOn DEF Same
<1>5. CASE ok
  <2>1. /\ boot' = (IF AwaitsRestart THEN supply.slot ELSE boot)
        /\ ota' = (IF AwaitsRestart THEN "pending" ELSE "idle") /\ Enter(svc, "serve")
    BY <1>5 DEF SelectBoot
  <2>2. svc' \in SvcType /\ Same(svc', svc) /\ svc'.at = "serve"
    BY <1>1, <2>1, Enters DEF Stages, Staged
  <2>3. supply.slot \in Slots /\ supply.ver # 0 /\ flash[supply.slot] = supply.ver
    BY <1>2 DEF OtaInv, Recorded
  <2>4. ~AwaitsRestart => boot = run
    BY DEF OtaInv, Recorded, AwaitsRestart
  <2>5. boot' \in Slots /\ flash[boot'] # 0
    BY <2>1, <2>3 DEF OtaInv, OtaTypes, Recorded
  <2>6. OtaTypes'
    BY <1>1, <2>2, <2>5 DEF OtaInv, OtaTypes
  <2>7. Settling'
    BY <1>1, <1>2, <2>2 DEF OtaInv, Settling, Settled, Same, Staged
  <2>8. Downloads'
    BY <1>1, <1>3, <2>2 DEF OtaInv, Downloads, Same
  <2>9. Receives'
    BY <1>1, <1>2, <2>2 DEF OtaInv, Receives, Settled, Same, Attempting, RunningVersion, Spare
  <2>10. cand.persisted /\ cache = [slot |-> supply.slot, ver |-> supply.ver, origin |-> cand.origin]
    BY <1>1 DEF OtaInv, Recorded
  <2>11. boot' # run => AwaitsRestart /\ boot' = supply.slot /\ ota' = "pending"
    BY <2>1, <2>4
  <2>12. Recorded'
    BY <1>1, <2>3, <2>5, <2>10, <2>11 DEF OtaInv, Recorded, RunningVersion, AwaitsRestart
  <2> QED
    BY <2>6, <2>7, <2>8, <2>9, <2>12 DEF OtaInv
<1> QED
  BY <1>4, <1>5

\* The supply opens, and what is complete is reported.
LEMMA OtaServe ==
  ASSUME OtaInv, NEW named \in BOOLEAN, NEW told \in BOOLEAN, Serve(named, told)
  PROVE  OtaInv'
<1>1. /\ svc.at = "serve" /\ svc \in SvcType /\ cand \in CandType /\ supply \in SupplyType
      /\ UNCHANGED <<node, server, flash, run, boot, cache, rx, ota, dl, events>>
      /\ supply' = [supply EXCEPT !.valid = @ \/ named]
      /\ told => named
  BY DEF Serve, stored, receiver, entry, OtaInv, OtaTypes
<1>2. svc.finalizing /\ Settled
  BY <1>1 DEF OtaInv, Settling, Staged
<1>3. ~svc.downloading /\ ~svc.active /\ ~svc.current
  BY <1>2 DEF Settled
<1>4. /\ supply' \in SupplyType /\ supply'.slot = supply.slot /\ supply'.ver = supply.ver
      /\ supply.valid => supply'.valid
      /\ told => supply'.valid
  <2>1. PICK b \in BOOLEAN : b = (supply.valid \/ named)
    OBVIOUS
  <2>2. supply' = [supply EXCEPT !.valid = b]
    BY <1>1, <2>1
  <2>3. supply' \in SupplyType /\ supply'.slot = supply.slot /\ supply'.ver = supply.ver /\ (supply'.valid <=> b)
    BY ONLY <1>1, <2>2, b \in BOOLEAN DEF SupplyType
  <2> QED
    BY <1>1, <2>1, <2>3
<1>5. /\ svc' \in SvcType /\ svc'.at \in Calm /\ (svc'.at = "retry" => svc'.waiting)
      /\ ~svc'.downloading /\ ~svc'.active /\ ~svc'.current
      /\ (svc'.metaValid <=> svc.metaValid) /\ svc'.meta = svc.meta
      /\ svc'.waiting => svc'.finalizing
  <2>1. CASE told
    <3> DEFINE s == [svc EXCEPT !.finalizing = FALSE, !.waiting = FALSE]
    <3>1. s \in SvcType /\ ~s.downloading /\ ~s.active /\ ~s.current
          /\ (s.metaValid <=> svc.metaValid) /\ s.meta = svc.meta /\ ~s.waiting
      BY <1>1, <1>3 DEF SvcType
    <3>2. GoOn(s)
      BY <2>1 DEF Serve
    <3> HIDE DEF s
    <3> QED
      BY <3>1, <3>2, GoesOn DEF Same, Calm
  <2>2. CASE ~told
    <3>1. /\ WithRetry(svc) \in SvcType /\ ~WithRetry(svc).downloading /\ WithRetry(svc).finalizing
          /\ ~WithRetry(svc).active /\ (WithRetry(svc).metaValid <=> svc.metaValid)
          /\ WithRetry(svc).meta = svc.meta /\ ~WithRetry(svc).current
      BY <1>1, <1>2, <1>3, Retries
    <3>2. GoOn(WithRetry(svc))
      BY <2>2 DEF Serve
    <3> QED
      BY <3>1, <3>2, GoesOn DEF Same, Calm
  <2> QED
    BY <2>1, <2>2
<1>6. cand' \in CandType /\ (cand'.persisted <=> cand.persisted) /\ cand'.origin = cand.origin
  <2>1. CASE told
    BY <1>1, <2>1 DEF Serve, CandType
  <2>2. CASE ~told
    BY <1>1, <2>2 DEF Serve
  <2> QED
    BY <2>1, <2>2
<1>7. report' => supply'.valid
  <2>1. report' => report \/ told
    BY DEF Serve
  <2>2. report => supply.valid
    BY DEF OtaInv, Settling
  <2> QED
    BY <1>4, <2>1, <2>2
<1>8. OtaTypes'
  BY <1>1, <1>4, <1>5, <1>6 DEF OtaInv, OtaTypes
<1>9. Settling'
  BY <1>1, <1>2, <1>5, <1>7 DEF Settling, Settled, Calm, Staged
<1>10. Downloads'
  BY <1>1, <1>3, <1>5 DEF OtaInv, Downloads, Calm
<1>11. Receives'
  BY <1>1, <1>2, <1>5 DEF OtaInv, Receives, Settled, Calm, Attempting, RunningVersion, Spare
<1>12. Recorded'
  BY <1>1, <1>2, <1>4, <1>6 DEF OtaInv, Recorded, RunningVersion
<1> QED
  BY <1>8, <1>9, <1>10, <1>11, <1>12 DEF OtaInv

\* What waits for the restart is reported again.
LEMMA OtaConfirm == ASSUME OtaInv, NEW ok \in BOOLEAN, Confirm(ok) PROVE OtaInv'
<1>1. /\ svc.at = "confirm" /\ svc \in SvcType /\ GoOn(svc)
      /\ UNCHANGED <<node, server, flash, run, boot, cache, rx, supply, cand, ota, dl, events>>
      /\ report' => report \/ supply.valid
  BY DEF Confirm, stored, receiver, entry, OtaInv, OtaTypes
<1>2. svc' \in SvcType /\ Same(svc', svc) /\ svc'.at \in Calm /\ (svc'.at = "retry" => svc.waiting)
  BY <1>1, GoesOn DEF Calm
<1> QED
  BY <1>1, <1>2, Passes DEF Calm

-----------------------------------------------------------------------------

\* What a child knows while it handles its path.
LEMMA OnPath ==
  ASSUME OtaInv, svc.at \in Attempting
  PROVE  /\ node = "child" /\ ~Settled /\ ~svc.current /\ ota = "running"
         /\ ~svc.finalizing /\ ~supply.valid /\ boot = run /\ ~report
         /\ ~svc.downloading /\ svc \in SvcType /\ supply \in SupplyType /\ rx \in RxType
         /\ cache \in RecordType \cup {NoRecord}
         /\ svc.metaValid => svc.meta > RunningVersion
         /\ svc.at # "transmit" => ~rx.open /\ ~rx.handle /\ ~rx.validated
         /\ server \in Versions
<1>1. ~Settled
  BY DEF Settled, Attempting, Calm, Staged
<1>2. ~svc.downloading
  BY DEF OtaInv, Downloads, Attempting, Calm
<1>3. svc.at # "transmit" => ~rx.open
  BY DEF OtaInv, Receives, Attempting, Calm
<1> QED
  BY <1>1, <1>2, <1>3, Unsettled DEF OtaInv, OtaTypes, Receives

\* The path of a child begins.
LEMMA OtaChildBegin == ASSUME OtaInv, ChildBegin PROVE OtaInv'
<1> DEFINE s == [svc EXCEPT !.waitParent = FALSE]
<1>1. /\ svc.at = "child"
      /\ UNCHANGED <<node, server, flash, run, boot, cache, supply, cand, dl, events, report>>
  BY DEF ChildBegin, stored, entry
<1>2. /\ node = "child" /\ ~Settled /\ ~svc.downloading /\ ~rx.open /\ ~rx.handle /\ ~rx.validated
      /\ supply \in SupplyType /\ ~supply.valid /\ cache \in RecordType \cup {NoRecord} /\ rx \in RxType
      /\ svc \in SvcType /\ ~svc.finalizing /\ (svc.metaValid => svc.meta > RunningVersion)
      /\ ~svc.current /\ ota = "running"
  BY <1>1, OnPath DEF Attempting
<1>3. s \in SvcType /\ Same(s, svc)
  <2>1. svc \in SvcType
    BY <1>2
  <2>2. s \in SvcType
    BY ONLY <2>1 DEF SvcType, Backs
  <2>3. Same(s, svc)
    BY ONLY <2>1 DEF SvcType, Same
  <2> QED
    BY <2>2, <2>3
<1>4. CASE ~link.online \/ planned \/ (svc.waitParent /\ ~(link.current /\ link.stable))
  <2>1. Cancel(s, ~planned)
    BY <1>4 DEF ChildBegin
  <2> HIDE DEF s
  <2> QED
    BY <1>1, <1>2, <1>3, <2>1, Cancels DEF Same
<1>5. CASE ~(~link.online \/ planned \/ (svc.waitParent /\ ~(link.current /\ link.stable)))
  <2>1. Enter(s, IF svc.metaValid THEN "open" ELSE "fetch") /\ UNCHANGED <<rx, ota>>
    BY <1>5 DEF ChildBegin
  <2> HIDE DEF s
  <2>2. svc' \in SvcType /\ Same(svc', svc) /\ svc'.at = (IF svc.metaValid THEN "open" ELSE "fetch")
    BY <1>3, <2>1, Enters DEF Same, Stages, Attempting
  <2>3. Receives'
    BY <1>1, <1>2, <2>1, <2>2 DEF Receives, Same, Attempting, RunningVersion
  <2> QED
    BY <1>1, <1>2, <2>1, <2>2, <2>3, ChildGoes DEF Same, Staged
<1> QED
  BY <1>4, <1>5

\* The end of an attempt: a failure, or a link that has changed.
LEMMA ChildFails ==
  ASSUME OtaInv, svc.at \in {"fetch", "open"}, ChildFailed,
         UNCHANGED <<node, server, flash, run, boot, cand, dl, events, report>>,
         cache' \in RecordType \cup {NoRecord}, supply' \in SupplyType, ~supply'.valid
  PROVE  OtaInv'
<1>1. /\ node = "child" /\ ~Settled /\ ~svc.downloading /\ ~rx.open /\ ~rx.handle /\ ~rx.validated
      /\ ~svc.finalizing /\ svc \in SvcType /\ rx \in RxType
      /\ (svc.metaValid => svc.meta > RunningVersion)
  BY OnPath DEF Attempting
<1>2. CASE LinkCurrent
  <2>1. GoOn(WithRetry(svc)) /\ rx' = rx
    BY <1>2 DEF ChildFailed, Failed
  <2>2. /\ WithRetry(svc) \in SvcType /\ ~WithRetry(svc).downloading /\ ~WithRetry(svc).finalizing
        /\ (WithRetry(svc).metaValid <=> svc.metaValid) /\ WithRetry(svc).meta = svc.meta
    BY <1>1, Retries
  <2>3. /\ svc' \in SvcType /\ Same(svc', WithRetry(svc)) /\ svc'.at \in Calm
        /\ svc'.at = "retry" => svc'.waiting
    BY <2>1, <2>2, GoesOn DEF Calm, Same
  <2>4. Receives'
    BY <1>1, <2>1, <2>2, <2>3 DEF Receives, Same, Calm, Attempting, RunningVersion
  <2> QED
    BY <1>1, <2>1, <2>2, <2>3, <2>4, ChildGoes DEF Same, Calm, Staged
<1>3. CASE ~LinkCurrent
  <2>1. Cancel(svc, ~planned)
    BY <1>3 DEF ChildFailed
  <2> QED
    BY <1>1, <2>1, Cancels
<1> QED
  BY <1>2, <1>3

\* A child asks which version there is.
LEMMA OtaChildFetch == ASSUME OtaInv, NEW ok \in BOOLEAN, ChildFetch(ok) PROVE OtaInv'
<1> DEFINE s == [svc EXCEPT !.meta = server]
<1>1. /\ svc.at = "fetch" /\ ~svc.metaValid
      /\ UNCHANGED <<node, server, flash, run, boot, cache, supply, cand, dl, events, report>>
  BY DEF ChildFetch, stored, entry, OtaInv, Receives
<1>2. /\ node = "child" /\ ~Settled /\ ~svc.downloading /\ ~rx.open /\ ~rx.handle /\ ~rx.validated
      /\ supply \in SupplyType /\ ~supply.valid /\ cache \in RecordType \cup {NoRecord} /\ rx \in RxType
      /\ svc \in SvcType /\ ~svc.finalizing /\ server \in Versions
      /\ ~svc.current /\ ota = "running"
  BY <1>1, OnPath DEF Attempting
<1>3. /\ s \in SvcType /\ ~s.downloading /\ ~s.finalizing /\ ~s.metaValid /\ s.meta = server
      /\ ~s.current /\ (s.active <=> svc.active)
  BY <1>1, <1>2 DEF SvcType
<1>4. CASE ~ok
  <2>1. ChildFailed
    BY <1>4 DEF ChildFetch
  <2> QED
    BY <1>1, <1>2, <2>1, ChildFails
<1>5. CASE ok /\ ~LinkCurrent
  <2>1. Cancel(s, ~planned)
    BY <1>5 DEF ChildFetch
  <2> HIDE DEF s
  <2> QED
    BY <1>1, <1>2, <1>3, <2>1, Cancels
<1>6. CASE ok /\ LinkCurrent
  <2>1. rx' = rx
    BY <1>6 DEF ChildFetch
  <2>2. CASE server = RunningVersion
    <3> DEFINE r == [s EXCEPT !.active = FALSE, !.bootstrap = FALSE, !.current = TRUE]
    <3>1. Enter(r, "current")
      BY <1>6, <2>2 DEF ChildFetch
    <3> HIDE DEF s
    <3>2. r \in SvcType /\ ~r.downloading /\ ~r.finalizing /\ ~r.metaValid /\ ~r.active
      BY <1>3 DEF SvcType
    <3> HIDE DEF r
    <3>3. svc' \in SvcType /\ Same(svc', r) /\ svc'.at = "current"
      BY <3>1, <3>2, Enters DEF Stages
    <3>4. Receives'
      BY <1>1, <1>2, <2>1, <3>2, <3>3 DEF Receives, Same, Attempting
    <3> QED
      BY <1>1, <1>2, <2>1, <3>2, <3>3, <3>4, ChildGoes DEF Same, Staged
  <2>3. CASE server < RunningVersion
    <3> DEFINE r == [s EXCEPT !.active = FALSE]
    <3>1. Enter(r, "restore")
      BY <1>2, <1>6, <2>3 DEF ChildFetch, Versions
    <3> HIDE DEF s
    <3>2. r \in SvcType /\ ~r.downloading /\ ~r.finalizing /\ ~r.metaValid /\ ~r.active
      BY <1>3 DEF SvcType
    <3> HIDE DEF r
    <3>3. svc' \in SvcType /\ Same(svc', r) /\ svc'.at = "restore"
      BY <3>1, <3>2, Enters DEF Stages
    <3>4. Receives'
      BY <1>1, <1>2, <2>1, <3>2, <3>3 DEF Receives, Same, Attempting
    <3> QED
      BY <1>1, <1>2, <2>1, <3>2, <3>3, <3>4, ChildGoes DEF Same, Staged
  <2>4. CASE server # RunningVersion /\ ~(server < RunningVersion)
    <3> DEFINE r == [s EXCEPT !.metaValid = TRUE]
    <3>1. Enter(r, "open") /\ ota' = ota
      BY <1>6, <2>4 DEF ChildFetch
    <3> HIDE DEF s
    <3>2. r \in SvcType /\ ~r.downloading /\ ~r.finalizing /\ r.metaValid /\ ~r.current /\ r.meta = server
      BY <1>3 DEF SvcType
    <3> HIDE DEF r
    <3>3. svc' \in SvcType /\ Same(svc', r) /\ svc'.at = "open"
      BY <3>1, <3>2, Enters DEF Stages, Attempting
    <3>4. server > RunningVersion
      BY <1>2, <2>4 DEF OtaInv, OtaTypes, RunningVersion, Versions
    <3>5. Receives'
      BY <1>1, <1>2, <2>1, <3>1, <3>2, <3>3, <3>4 DEF Receives, Same, Attempting, RunningVersion
    <3> QED
      BY <1>1, <1>2, <2>1, <3>2, <3>3, <3>5, ChildGoes DEF Same, Staged
  <2> QED
    BY <2>2, <2>3, <2>4
<1> QED
  BY <1>4, <1>5, <1>6

\* A child opens its session.
LEMMA OtaChildOpen == ASSUME OtaInv, NEW ok \in BOOLEAN, ChildOpen(ok) PROVE OtaInv'
<1>1. /\ svc.at = "open" /\ svc.metaValid
      /\ UNCHANGED <<node, server, flash, run, boot, cand, dl, events, report>>
  BY DEF ChildOpen, entry, OtaInv, Receives
<1>2. /\ node = "child" /\ ~Settled /\ ~svc.downloading /\ ~rx.open
      /\ supply \in SupplyType /\ ~supply.valid /\ cache \in RecordType \cup {NoRecord}
      /\ svc \in SvcType /\ ~svc.finalizing /\ svc.meta > RunningVersion
      /\ ~svc.current /\ ota = "running"
  BY <1>1, OnPath DEF Attempting
<1>3. CASE ~LinkCurrent \/ inflight
  <2>1. Cancel(svc, ~planned) /\ UNCHANGED <<cache, supply>>
    BY <1>3 DEF ChildOpen
  <2> QED
    BY <1>1, <1>2, <2>1, Cancels
<1>4. CASE ~(~LinkCurrent \/ inflight)
  <2>1. supply' = [supply EXCEPT !.valid = FALSE] /\ cache' = IF ok THEN WithoutRecord ELSE cache
    BY <1>4 DEF ChildOpen
  <2>2. supply' \in SupplyType /\ ~supply'.valid
    BY <1>2, <2>1 DEF SupplyType
  <2>3. cache' \in RecordType \cup {NoRecord}
    BY <1>2, <2>1 DEF WithoutRecord
  <2>4. CASE ok
    <3>1. rx' = [NoRx EXCEPT !.open = TRUE, !.accepting = TRUE] /\ Enter(svc, "transmit") /\ ota' = ota
      BY <1>4, <2>4 DEF ChildOpen
    <3>2. rx' \in RxType /\ rx'.open /\ ~rx'.handle /\ ~rx'.validated
      BY <3>1 DEF NoRx, RxType
    <3>3. svc' \in SvcType /\ Same(svc', svc) /\ svc'.at = "transmit"
      BY <1>2, <3>1, Enters DEF Stages, Attempting
    <3>4. Receives'
      BY <1>1, <1>2, <3>1, <3>2, <3>3 DEF Receives, Same, Attempting, RunningVersion
    <3> QED
      BY <1>1, <1>2, <2>2, <2>3, <3>2, <3>3, <3>4, ChildGoes DEF Same, Staged
  <2>5. CASE ~ok
    <3>1. ChildFailed
      BY <1>4, <2>5 DEF ChildOpen
    <3> QED
      BY <1>1, <2>2, <2>3, <3>1, ChildFails
  <2> QED
    BY <2>4, <2>5
<1> QED
  BY <1>3, <1>4

\* A child asks the library for the file.
LEMMA OtaChildTransmit == ASSUME OtaInv, NEW ok \in BOOLEAN, ChildTransmit(ok) PROVE OtaInv'
<1>1. /\ svc.at = "transmit"
      /\ UNCHANGED <<node, server, flash, run, boot, cache, supply, cand, dl, events, report>>
  BY DEF ChildTransmit, stored, entry
<1>2. /\ node = "child" /\ ~Settled /\ ~svc.downloading
      /\ supply \in SupplyType /\ ~supply.valid /\ cache \in RecordType \cup {NoRecord} /\ rx \in RxType
      /\ svc \in SvcType /\ ~svc.finalizing /\ (svc.metaValid => svc.meta > RunningVersion)
      /\ ~svc.current /\ ota = "running"
  BY <1>1, OnPath DEF Attempting
<1>3. CASE ok
  <2>1. GoOn(svc) /\ UNCHANGED <<rx, ota>>
    BY <1>3 DEF ChildTransmit
  <2>2. svc' \in SvcType /\ Same(svc', svc) /\ svc'.at \in Calm /\ (svc'.at = "retry" => svc'.waiting)
    BY <1>2, <2>1, GoesOn DEF Calm, Same
  <2>3. Receives'
    BY <1>1, <1>2, <2>1, <2>2 DEF OtaInv, Receives, Same, Calm, Attempting, RunningVersion, Spare
  <2> QED
    BY <1>1, <1>2, <2>1, <2>2, <2>3, ChildGoes DEF Same, Calm, Staged
<1>4. CASE ~ok /\ LinkCurrent
  <2>1. GoOn(WithRetry(svc)) /\ rx' = NoRx
    BY <1>4 DEF ChildTransmit, Failed
  <2>2. /\ WithRetry(svc) \in SvcType /\ ~WithRetry(svc).downloading /\ ~WithRetry(svc).finalizing
        /\ (WithRetry(svc).metaValid <=> svc.metaValid) /\ WithRetry(svc).meta = svc.meta
    BY <1>2, Retries
  <2>3. /\ svc' \in SvcType /\ Same(svc', WithRetry(svc)) /\ svc'.at \in Calm
        /\ svc'.at = "retry" => svc'.waiting
    BY <2>1, <2>2, GoesOn DEF Calm, Same
  <2>4. rx' \in RxType /\ ~rx'.open /\ ~rx'.handle /\ ~rx'.validated
    BY <2>1 DEF NoRx, RxType
  <2>5. Receives'
    BY <1>1, <1>2, <2>2, <2>3, <2>4 DEF Receives, Same, Calm, Attempting, RunningVersion
  <2> QED
    BY <1>1, <1>2, <2>2, <2>3, <2>4, <2>5, ChildGoes DEF Same, Calm, Staged
<1>5. CASE ~ok /\ ~LinkCurrent
  <2>1. Drop(svc, ~planned)
    BY <1>5 DEF ChildTransmit
  <2> QED
    BY <1>1, <1>2, <2>1, Drops
<1> QED
  BY <1>3, <1>4, <1>5

-----------------------------------------------------------------------------

\* What holds while the dl_task is at work.
LEMMA Downloading ==
  ASSUME OtaInv, dl.at # "idle"
  PROVE  /\ svc.downloading /\ node = "root" /\ ~Settled /\ ~rx.open /\ ~rx.validated /\ ~rx.handle
         /\ ~svc.metaValid /\ ~svc.active /\ ~svc.waiting /\ ~svc.current
         /\ ~svc.finalizing /\ ~supply.valid /\ boot = run /\ ~report
         /\ svc.at \in Calm /\ "done" \notin events
         /\ dl \in DlType /\ server \in Versions
         /\ run \in Slots /\ flash \in [Slots -> {0} \cup Versions]
         /\ cache \in RecordType \cup {NoRecord} /\ flash[run] # 0
<1>1. svc.downloading /\ svc.at # "rootDone" /\ "done" \notin events
  BY DEF OtaInv, Downloads
<1>2. ~Settled /\ node = "root" /\ svc.at \in Calm
  BY <1>1 DEF OtaInv, Downloads, Settled
<1>3. ~rx.open /\ ~svc.metaValid /\ ~svc.active
  BY <1>2 DEF OtaInv, Receives
<1> QED
  BY <1>1, <1>2, <1>3, Unsettled DEF OtaInv, OtaTypes, Downloads, Receives, Recorded

\* A step of the download: the slot that is not running, and what is left of it.
LEMMA DownloadGoes ==
  ASSUME OtaInv, dl.at # "idle",
         UNCHANGED <<node, server, run, boot, rx, supply, cand, svc, report>>,
         dl' \in DlType, cache' \in RecordType \cup {NoRecord},
         flash' \in [Slots -> {0} \cup Versions], flash'[run] = flash[run],
         dl'.at \in {"begin", "write"} => dl'.found > RunningVersion /\ ~dl'.got,
         dl'.at # "start" /\ dl'.got => dl'.found > RunningVersion /\ flash'[Spare] = dl'.found,
         "done" \in events' => dl'.at = "idle"
  PROVE  OtaInv'
<1>1. /\ svc.downloading /\ node = "root" /\ ~rx.open /\ ~rx.validated /\ ~rx.handle
      /\ ~svc.metaValid /\ ~svc.active /\ ~svc.waiting /\ ~svc.current
      /\ ~svc.finalizing /\ ~supply.valid /\ boot = run /\ ~report /\ svc.at \in Calm /\ flash[run] # 0
  BY Downloading
<1>2. OtaTypes'
  BY DEF OtaInv, OtaTypes
<1>3. RunningVersion' = RunningVersion /\ Spare' = Spare
  BY DEF RunningVersion, Spare
<1>4. Downloads'
  BY <1>1, <1>3 DEF OtaInv, Downloads, Calm
<1>5. Receives'
  BY <1>1 DEF OtaInv, Receives, Calm, Attempting
<1>6. svc.at = "retry" => svc.waiting
  BY DEF OtaInv, Settling
<1> QED
  BY <1>1, <1>2, <1>4, <1>5, <1>6, Unstaged DEF Calm, Staged

\* The download looks for a newer version.
LEMMA OtaDlCheck == ASSUME OtaInv, NEW ok \in BOOLEAN, DlCheck(ok) PROVE OtaInv'
<1>1. /\ dl.at = "start"
      /\ UNCHANGED <<node, server, flash, run, boot, cache, rx, supply, cand, svc, events, report>>
      /\ dl' = [at |-> IF ok /\ server > RunningVersion THEN "begin" ELSE "end",
                ok |-> ok, found |-> server, got |-> FALSE]
  BY DEF DlCheck, stored, receiver, entry
<1>2. dl' \in DlType /\ ~dl'.got /\ (dl'.at = "begin" => dl'.found > RunningVersion) /\ dl'.at \in {"begin", "end"}
  <2>1. PICK at \in {"begin", "end"} :
          at = (IF ok /\ server > RunningVersion THEN "begin" ELSE "end")
    OBVIOUS
  <2>2. dl' = [at |-> at, ok |-> ok, found |-> server, got |-> FALSE]
    BY <1>1, <2>1
  <2>3. server \in Versions /\ (at = "begin" => server > RunningVersion)
    BY <2>1 DEF OtaInv, OtaTypes
  <2> QED
    BY ONLY <2>2, <2>3, ok \in BOOLEAN, at \in {"begin", "end"} DEF DlType
<1>3. /\ cache \in RecordType \cup {NoRecord} /\ flash \in [Slots -> {0} \cup Versions]
      /\ "done" \notin events
  BY <1>1, Downloading
<1> QED
  BY <1>1, <1>2, <1>3, DownloadGoes

\* The slot is erased.
LEMMA OtaDlBegin == ASSUME OtaInv, NEW ok \in BOOLEAN, DlBegin(ok) PROVE OtaInv'
<1>1. /\ dl.at = "begin"
      /\ UNCHANGED <<node, server, run, boot, rx, supply, cand, svc, events, report>>
      /\ dl' = [dl EXCEPT !.at = IF ok THEN "write" ELSE "end", !.ok = ok]
      /\ cache' = IF ok THEN WithoutRecord ELSE cache
      /\ flash' = IF ok THEN [flash EXCEPT ![Spare] = 0] ELSE flash
  BY DEF DlBegin, receiver, entry
<1>2. /\ cache \in RecordType \cup {NoRecord} /\ flash \in [Slots -> {0} \cup Versions]
      /\ "done" \notin events /\ dl \in DlType /\ run \in Slots
  BY <1>1, Downloading
<1>3. ~dl.got /\ dl.found > RunningVersion
  BY <1>1 DEF OtaInv, Downloads
<1>4. dl' \in DlType /\ ~dl'.got /\ dl'.found = dl.found /\ dl'.at \in {"write", "end"}
  BY ONLY <1>1, <1>2, <1>3, ok \in BOOLEAN DEF DlType
<1>5. cache' \in RecordType \cup {NoRecord}
  BY <1>1, <1>2 DEF WithoutRecord
<1>6. flash' \in [Slots -> {0} \cup Versions] /\ flash'[run] = flash[run]
  BY <1>1, <1>2, SpareSlot
<1> QED
  BY <1>1, <1>2, <1>3, <1>4, <1>5, <1>6, DownloadGoes

\* The slot is written.
LEMMA OtaDlWrite == ASSUME OtaInv, NEW ok \in BOOLEAN, DlWrite(ok) PROVE OtaInv'
<1>1. /\ dl.at = "write"
      /\ UNCHANGED <<node, server, run, boot, cache, rx, supply, cand, svc, events, report>>
      /\ dl' = [dl EXCEPT !.at = "end", !.ok = ok, !.got = ok]
      /\ flash' = IF ok THEN [flash EXCEPT ![Spare] = dl.found] ELSE flash
  BY DEF DlWrite, receiver, entry
<1>2. /\ cache \in RecordType \cup {NoRecord} /\ flash \in [Slots -> {0} \cup Versions]
      /\ "done" \notin events /\ dl \in DlType /\ run \in Slots
  BY <1>1, Downloading
<1>3. dl.found > RunningVersion /\ dl.found \in {0} \cup Versions
  BY <1>1, <1>2 DEF OtaInv, Downloads, DlType
<1>4. dl' \in DlType /\ (dl'.got <=> ok) /\ dl'.found = dl.found /\ dl'.at = "end"
  BY ONLY <1>1, <1>2, ok \in BOOLEAN DEF DlType
<1>5. flash' \in [Slots -> {0} \cup Versions] /\ flash'[run] = flash[run] /\ (ok => flash'[Spare] = dl.found)
  BY <1>1, <1>2, <1>3, SpareSlot
<1> QED
  BY <1>1, <1>2, <1>3, <1>4, <1>5, DownloadGoes

\* The download ends.
LEMMA OtaDlEnd == ASSUME OtaInv, DlEnd PROVE OtaInv'
<1>1. /\ dl.at = "end" /\ dl' = [dl EXCEPT !.at = "idle"]
      /\ UNCHANGED <<node, server, flash, run, boot, cache, rx, supply, cand, svc, report>>
  BY DEF DlEnd, stored, receiver, service
<1>2. /\ cache \in RecordType \cup {NoRecord} /\ flash \in [Slots -> {0} \cup Versions]
      /\ dl \in DlType /\ svc.downloading
  BY <1>1, Downloading
<1>3. dl' \in DlType /\ (dl'.got <=> dl.got) /\ dl'.found = dl.found /\ dl'.at = "idle"
  BY <1>1, <1>2 DEF DlType
<1>4. dl.got => dl.found > RunningVersion /\ flash[Spare] = dl.found
  BY <1>1, <1>2 DEF OtaInv, Downloads
<1> QED
  BY <1>1, <1>2, <1>3, <1>4, DownloadGoes

-----------------------------------------------------------------------------

\* A callback that changes nothing of the session but what it says of its end.
LEMMA SessionSame ==
  ASSUME OtaInv, rx' \in RxType, rx'.open <=> rx.open, rx'.accepting <=> rx.accepting,
         rx'.handle <=> rx.handle, rx'.validated <=> rx.validated,
         UNCHANGED <<node, server, flash, run, boot, cache, supply, cand, ota, dl, svc, events, report>>
  PROVE  OtaInv'
<1>1. OtaTypes'
  BY DEF OtaInv, OtaTypes
<1>2. Settling'
  BY DEF OtaInv, Settling, Settled
<1>3. Downloads'
  BY DEF OtaInv, Downloads, RunningVersion, Spare
<1>4. Receives'
  BY DEF OtaInv, Receives, RunningVersion, Spare
<1>5. Recorded'
  BY DEF OtaInv, Recorded, RunningVersion
<1> QED
  BY <1>1, <1>2, <1>3, <1>4, <1>5 DEF OtaInv

\* A callback of a session that is open: the slot that is not running changes.
LEMMA SessionWrites ==
  ASSUME OtaInv, rx.open, rx' \in RxType, rx'.open,
         rx'.validated => ~rx'.accepting /\ flash'[Spare] = svc.meta,
         flash' \in [Slots -> {0} \cup Versions], flash'[run] = flash[run],
         UNCHANGED <<node, server, run, boot, cache, supply, cand, ota, dl, svc, events, report>>
  PROVE  OtaInv'
<1>1. ~Settled
  BY DEF Settled
<1>2. ~svc.finalizing /\ ~supply.valid /\ boot = run /\ ~report
  BY <1>1, Unsettled
<1>3. ~svc.downloading /\ dl.at = "idle" /\ "done" \notin events /\ svc.at # "rootDone"
  BY DEF OtaInv, OtaTypes, Receives, Downloads, DlType
<1>4. OtaTypes'
  BY DEF OtaInv, OtaTypes
<1>5. RunningVersion' = RunningVersion /\ Spare' = Spare
  BY DEF RunningVersion, Spare
<1>6. Downloads'
  BY <1>3 DEF Downloads
<1>7. Receives'
  BY <1>5 DEF OtaInv, Receives
<1>8. svc.at \in Calm \cup {"transmit"} /\ (svc.at = "retry" => svc.waiting) /\ flash[run] # 0
  BY DEF OtaInv, Receives, Settling, Recorded
<1> QED
  BY <1>2, <1>4, <1>6, <1>7, <1>8, Unstaged DEF Calm, Staged

\* What the library posts is "start", or the end of a transfer.
TransferType ==
    [at : {"idle", "run"}, left : Nat, done : {"no", "ok", "fail"}, told : BOOLEAN, resumable : BOOLEAN]
LibraryTypes == queue \in Seq({"start", "ok", "fail"}) /\ sdk \in TransferType

\* A block is written.
LEMMA OtaBlockArrives == ASSUME OtaInv, LibraryTypes, NEW ok \in BOOLEAN, BlockArrives(ok) PROVE OtaInv'
<1> DEFINE taken == rx.open /\ rx.accepting /\ ~rx.failed /\ LinkCurrent
<1>1. /\ UNCHANGED <<node, server, run, boot, cache, supply, cand, ota, dl, svc, events, report>>
      /\ rx \in RxType /\ flash \in [Slots -> {0} \cup Versions] /\ run \in Slots
  BY DEF BlockArrives, callbackUnchanged, service, entry, OtaInv, OtaTypes
<1>2. flash' = IF taken /\ ~rx.handle THEN [flash EXCEPT ![Spare] = 0] ELSE flash
  BY DEF BlockArrives
<1>3. CASE ~taken
  <2>1. rx' = rx /\ flash' = flash
    BY <1>2, <1>3 DEF BlockArrives
  <2> QED
    BY <1>1, <2>1, SessionSame
<1>4. CASE taken
  <2>1. rx.open /\ rx.accepting /\ ~rx.validated
    BY <1>4 DEF OtaInv, Receives
  <2>2. flash' \in [Slots -> {0} \cup Versions] /\ flash'[run] = flash[run]
    BY <1>1, <1>2, SpareSlot
  <2>3. rx' \in RxType /\ rx'.open /\ ~rx'.validated
    <3>1. CASE ok
      <4>1. rx' = [rx EXCEPT !.handle = TRUE, !.blocks = @ \cup {sdk.left}]
        BY <1>4, <3>1 DEF BlockArrives
      <4>2. rx.blocks \cup {sdk.left} \in SUBSET Nat
        BY <1>1 DEF RxType, LibraryTypes, TransferType
      <4>3. PICK n \in SUBSET Nat : n = rx.blocks \cup {sdk.left}
        BY <4>2
      <4>4. rx' = [rx EXCEPT !.handle = TRUE, !.blocks = n]
        BY <4>1, <4>3
      <4> QED
        BY ONLY <1>1, <2>1, <4>4, n \in SUBSET Nat DEF RxType
    <3>2. CASE ~ok
      <4>1. rx' = [rx EXCEPT !.failed = TRUE, !.accepting = FALSE]
        BY <1>4, <3>2 DEF BlockArrives
      <4> QED
        BY <1>1, <2>1, <4>1 DEF RxType
    <3> QED
      BY <3>1, <3>2
  <2> QED
    BY <1>1, <2>1, <2>2, <2>3, SessionWrites
<1> QED
  BY <1>3, <1>4

\* The image is validated.
LEMMA OtaFileDone == ASSUME OtaInv, FileDone PROVE OtaInv'
<1> DEFINE taken == rx.open /\ rx.accepting /\ ~rx.failed /\ rx.handle /\ LinkCurrent
           whole == rx.blocks = 1 .. Blocks
<1>1. /\ UNCHANGED <<node, server, run, boot, cache, supply, cand, ota, dl, svc, events, report>>
      /\ rx \in RxType /\ flash \in [Slots -> {0} \cup Versions] /\ run \in Slots
      /\ svc.meta \in {0} \cup Versions
  BY DEF FileDone, callbackUnchanged, service, entry, OtaInv, OtaTypes, SvcType
<1>2. flash' = IF taken /\ whole THEN [flash EXCEPT ![Spare] = svc.meta] ELSE flash
  BY DEF FileDone
<1>3. CASE taken /\ whole
  <2>1. rx' = [rx EXCEPT !.accepting = FALSE, !.handle = FALSE, !.done = TRUE, !.validated = TRUE]
    BY <1>3 DEF FileDone
  <2>2. rx' \in RxType /\ rx'.open /\ ~rx'.accepting
    BY <1>1, <1>3, <2>1 DEF RxType
  <2>3. flash' \in [Slots -> {0} \cup Versions] /\ flash'[run] = flash[run] /\ flash'[Spare] = svc.meta
    BY <1>1, <1>2, <1>3, SpareSlot
  <2> QED
    BY <1>1, <1>3, <2>2, <2>3, SessionWrites
<1>4. CASE taken /\ ~whole
  <2>1. rx' = [rx EXCEPT !.accepting = FALSE, !.handle = FALSE, !.done = TRUE, !.failed = TRUE]
    BY <1>4 DEF FileDone
  <2>2. rx.accepting /\ ~rx.validated
    BY <1>4 DEF OtaInv, Receives
  <2>3. rx' \in RxType /\ rx'.open /\ ~rx'.validated
    BY <1>1, <1>4, <2>1, <2>2 DEF RxType
  <2> QED
    BY <1>1, <1>2, <1>4, <2>3, SessionWrites
<1>5. CASE ~taken /\ rx.open
  <2>1. rx' = [rx EXCEPT !.done = TRUE, !.failed = TRUE] /\ flash' = flash
    BY <1>2, <1>5 DEF FileDone
  <2>2. /\ rx' \in RxType /\ (rx'.open <=> rx.open) /\ (rx'.accepting <=> rx.accepting)
        /\ (rx'.handle <=> rx.handle) /\ (rx'.validated <=> rx.validated)
    BY <1>1, <2>1 DEF RxType
  <2> QED
    BY <1>1, <2>1, <2>2, SessionSame
<1>6. CASE ~taken /\ ~rx.open
  <2>1. rx' = rx /\ flash' = flash
    BY <1>2, <1>6 DEF FileDone
  <2> QED
    BY <1>1, <2>1, SessionSame
<1> QED
  BY <1>3, <1>4, <1>5, <1>6

\* The library says how the transfer ended.
LEMMA SessionEnds ==
  ASSUME OtaInv, NEW f \in {"no", "ok", "fail"}, rx' = [rx EXCEPT !.finish = f] \/ rx' = rx,
         UNCHANGED <<node, server, flash, run, boot, cache, supply, cand, ota, dl, svc, events, report>>
  PROVE  OtaInv'
<1>1. rx \in RxType
  BY DEF OtaInv, OtaTypes
<1>2. /\ rx' \in RxType /\ (rx'.open <=> rx.open) /\ (rx'.accepting <=> rx.accepting)
      /\ (rx'.handle <=> rx.handle) /\ (rx'.validated <=> rx.validated)
  BY ONLY <1>1, f \in {"no", "ok", "fail"}, rx' = [rx EXCEPT !.finish = f] \/ rx' = rx DEF RxType
<1> QED
  BY <1>2, SessionSame

\* The library finds no source.
LEMMA OtaExternDisabled == ASSUME OtaInv, ExternDisabled PROVE OtaInv'
BY SessionEnds DEF ExternDisabled, callbackUnchanged, service, entry

\* An event of the library is handled.
LEMMA OtaSdkEvent == ASSUME OtaInv, LibraryTypes, SdkEvent PROVE OtaInv'
<1>1. PICK kind \in {"start", "ok", "fail"} : kind = Head(queue)
  BY DEF LibraryTypes, SdkEvent
<1>2. \/ rx' = [rx EXCEPT !.finish = kind] /\ kind # "start"
      \/ rx' = rx
  BY <1>1 DEF SdkEvent
<1> QED
  BY <1>1, <1>2, SessionEnds DEF SdkEvent, callbackUnchanged, service, entry

\* The types of the library, which the invariant needs for its callbacks only.
LEMMA LibraryKept == ASSUME LibraryTypes, OtaNext \/ UNCHANGED otaVars PROVE LibraryTypes'
<1>1. /\ queue \in Seq({"start", "ok", "fail"})
      /\ sdk \in TransferType /\ Blocks \in Nat
  BY OtaAssumption DEF LibraryTypes
<1>2. ASSUME UNCHANGED library PROVE LibraryTypes'
  BY <1>2 DEF library, LibraryTypes
<1>3. ASSUME NEW kind \in {"start", "ok", "fail"}, Post(kind)
      PROVE  queue' \in Seq({"start", "ok", "fail"})
  BY <1>1, <1>3 DEF Post
<1>4. /\ NoTransfer \in TransferType
      /\ [NoTransfer EXCEPT !.at = "run", !.left = Blocks] \in TransferType
      /\ \A b \in BOOLEAN : [NoTransfer EXCEPT !.resumable = b] \in TransferType
  BY <1>1 DEF NoTransfer, TransferType
<1>5. CASE UNCHANGED otaVars
  BY <1>2, <1>5 DEF otaVars
<1>6. CASE CmdTask
  <2>1. CASE \E ok \in BOOLEAN : ChildTransmit(ok)
    BY <1>1, <1>4, <2>1 DEF ChildTransmit, LibraryTypes
  <2>2. CASE ~\E ok \in BOOLEAN : ChildTransmit(ok)
    BY <1>2, <1>6, <2>2 DEF CmdTask, Poll, RootDone, PollParent, Request, ChildBegin, ChildFinish, Retry,
                            Bootstrap, PollEnd, Restore, Current, Store, SelectBoot, Confirm, ChildFetch,
                            ChildOpen, Serve
  <2> QED
    BY <2>1, <2>2
<1>7. CASE DlTask
  BY <1>2, <1>7 DEF DlTask, DlEnd, DlCheck, DlBegin, DlWrite
<1>8. CASE FileDone
  <2>1. \A d \in {"ok", "fail"} : [sdk EXCEPT !.done = d] \in TransferType
    BY <1>1 DEF TransferType
  <2>2. sdk.resumable \in BOOLEAN
    BY <1>1 DEF TransferType
  <2>3. sdk' \in TransferType
    <3>1. CASE sdk.told
      BY <1>4, <1>8, <2>2, <3>1 DEF FileDone
    <3>2. CASE ~sdk.told
      BY <1>8, <2>1, <3>2 DEF FileDone
    <3> QED
      BY <3>1, <3>2
  <2> QED
    BY <1>1, <1>8, <2>3 DEF FileDone, LibraryTypes
<1>9. ASSUME NEW ok \in BOOLEAN, BlockArrives(ok) PROVE LibraryTypes'
  <2>1. [sdk EXCEPT !.done = "fail"] \in TransferType
    BY <1>1 DEF TransferType
  <2>2. [sdk EXCEPT !.left = @ - 1] \in TransferType
    <3>1. sdk.left - 1 \in Nat
      BY <1>1, <1>9 DEF BlockArrives, TransferType
    <3>2. PICK n \in Nat : n = sdk.left - 1
      BY <3>1
    <3> HIDE <3>2
    <3>3. [sdk EXCEPT !.left = n] \in TransferType
      BY ONLY <1>1, n \in Nat DEF TransferType
    <3> QED
      BY <3>2, <3>3
  <2> QED
    BY <1>1, <1>9, <2>1, <2>2 DEF BlockArrives, LibraryTypes
<1>10. ASSUME NEW reason \in {"ok", "fail"}, SdkFinish(reason) PROVE LibraryTypes'
  <2>1. [sdk EXCEPT !.told = TRUE] \in TransferType
    BY <1>1 DEF TransferType
  <2>2. PICK b \in BOOLEAN : b <=> reason = "fail"
    OBVIOUS
  <2>3. sdk' \in TransferType
    BY <1>4, <1>10, <2>1, <2>2 DEF SdkFinish
  <2> QED
    BY <1>3, <1>10, <2>3 DEF SdkFinish, LibraryTypes
<1>11. CASE SdkEvent
  BY <1>1, <1>11 DEF SdkEvent, callbackUnchanged, LibraryTypes
<1>12. CASE ExternDisabled
  BY <1>1, <1>4, <1>12 DEF ExternDisabled, LibraryTypes
<1>13. CASE SdkResume
  BY <1>3, <1>4, <1>13 DEF SdkResume, LibraryTypes
<1>14. CASE Release \/ Command \/ LinkLost \/ LinkUp \/ LinkStable \/ BrokerChange \/ PlanRestart
  BY <1>2, <1>14 DEF Release, Command, LinkLost, LinkUp, LinkStable, BrokerChange, PlanRestart, linkUnchanged
<1>15. CASE Restart
  BY <1>4, <1>15 DEF Restart, LibraryTypes
<1> QED
  BY <1>5, <1>6, <1>7, <1>8, <1>9, <1>10, <1>11, <1>12, <1>13, <1>14, <1>15 DEF OtaNext, Library

-----------------------------------------------------------------------------

\* The server names another version.
LEMMA OtaRelease == ASSUME OtaInv, Release PROVE OtaInv'
<1>1. /\ UNCHANGED <<node, flash, run, boot, cache, rx, supply, cand, ota, dl, svc, events, report>>
      /\ server' \in Versions
  BY DEF Release, receiver, service, entry
<1>2. OtaTypes'
  BY <1>1 DEF OtaInv, OtaTypes
<1>3. Settling'
  BY <1>1 DEF OtaInv, Settling, Settled
<1>4. Downloads'
  BY <1>1 DEF OtaInv, Downloads, RunningVersion, Spare
<1>5. Receives'
  BY <1>1 DEF OtaInv, Receives, RunningVersion, Spare
<1>6. Recorded'
  BY <1>1 DEF OtaInv, Recorded, RunningVersion
<1> QED
  BY <1>2, <1>3, <1>4, <1>5, <1>6 DEF OtaInv

\* A start of the node: what is in memory is forgotten.
OtaStarted ==
    /\ rx = NoRx /\ supply = NoSupply /\ cand = NoCandidate /\ ota = "idle"
    /\ dl = NoDownload /\ svc = StartService /\ events = {} /\ ~report

\* The invariant holds when a node starts from a whole image.
LEMMA OtaStarts ==
  ASSUME node \in {"root", "child"}, server \in Versions, flash \in [Slots -> {0} \cup Versions],
         run \in Slots, boot = run, flash[run] # 0, cache \in RecordType \cup {NoRecord}, OtaStarted
  PROVE  OtaInv
<1> USE DEF OtaStarted
<1>1. rx \in RxType /\ ~rx.open /\ ~rx.handle /\ ~rx.validated
  BY DEF NoRx, RxType
<1>2. supply \in SupplyType /\ ~supply.valid
  BY DEF NoSupply, SupplyType
<1>3. cand \in CandType
  BY DEF NoCandidate, CandType, Origins
<1>4. dl \in DlType /\ dl.at = "idle"
  BY DEF NoDownload, DlType
<1>5. svc \in SvcType
  BY DEF StartService, SvcType, Stages, Backs
<1>6. /\ svc.at = "restore" /\ ~svc.finalizing /\ ~svc.downloading /\ ~svc.active /\ ~svc.metaValid
  BY DEF StartService
<1>7. OtaTypes
  BY <1>1, <1>2, <1>3, <1>4, <1>5 DEF OtaTypes
<1>8. Settling
  BY <1>2, <1>6 DEF Settling, Staged
<1>9. Downloads
  BY <1>4, <1>6 DEF Downloads
<1>10. Receives
  BY <1>1, <1>6 DEF Receives, Attempting
<1>11. Recorded
  BY <1>2, <1>6 DEF Recorded
<1> QED
  BY <1>7, <1>8, <1>9, <1>10, <1>11 DEF OtaInv

\* The node restarts from the slot that was selected.
LEMMA OtaRestart == ASSUME OtaInv, Restart PROVE OtaInv'
<1>1. /\ UNCHANGED <<node, server, flash, boot, cache>> /\ run' = boot /\ OtaStarted'
  BY DEF Restart, OtaStarted
<1>2. /\ (node \in {"root", "child"})' /\ (server \in Versions)'
      /\ (flash \in [Slots -> {0} \cup Versions])' /\ (run \in Slots)' /\ (boot = run)'
      /\ (flash[run] # 0)' /\ (cache \in RecordType \cup {NoRecord})'
  BY <1>1 DEF OtaInv, OtaTypes, Recorded
<1> QED
  BY <1>1, <1>2, OtaStarts, PTL

\* A command comes in.
LEMMA OtaCommand == ASSUME OtaInv, Command PROVE OtaInv'
<1>1. /\ UNCHANGED <<node, server, flash, run, boot, cache, rx, supply, cand, ota, dl, svc, report>>
      /\ events' = events \cup {"request"}
  BY DEF Command, stored, receiver, service
<1>2. OtaTypes'
  BY <1>1 DEF OtaInv, OtaTypes
<1>3. Settling'
  BY <1>1 DEF OtaInv, Settling, Settled
<1>4. Downloads'
  BY <1>1 DEF OtaInv, Downloads, RunningVersion, Spare
<1>5. Receives'
  BY <1>1 DEF OtaInv, Receives, RunningVersion, Spare
<1>6. Recorded'
  BY <1>1 DEF OtaInv, Recorded, RunningVersion
<1> QED
  BY <1>2, <1>3, <1>4, <1>5, <1>6 DEF OtaInv

\* Every step of the service keeps the invariant.
LEMMA OtaKeeps == OtaInv /\ LibraryTypes /\ (OtaNext \/ UNCHANGED otaVars) => OtaInv'
<1> SUFFICES ASSUME OtaInv, LibraryTypes, OtaNext \/ UNCHANGED otaVars PROVE OtaInv'
  OBVIOUS
<1>1. CASE UNCHANGED otaVars
  BY <1>1, OtaSame DEF otaVars, otaView, stored, receiver, service, entry
<1>2. CASE CmdTask
  <2>1. CASE Poll \/ RootDone \/ PollParent \/ Request \/ ChildBegin
    BY <2>1, OtaPoll, OtaRootDone, OtaPollParent, OtaRequest, OtaChildBegin
  <2>2. ASSUME NEW b \in BOOLEAN, ChildFinish(b) \/ Retry(b) \/ Bootstrap(b) \/ PollEnd(b)
        PROVE  OtaInv'
    BY <2>2, OtaChildFinish, OtaRetry, OtaBootstrap, OtaPollEnd
  <2>3. ASSUME NEW b \in BOOLEAN, Restore(b) \/ Current(b) \/ Store(b) \/ SelectBoot(b) \/ Confirm(b)
        PROVE  OtaInv'
    BY <2>3, OtaRestore, OtaCurrent, OtaStore, OtaSelectBoot, OtaConfirm
  <2>4. ASSUME NEW b \in BOOLEAN, ChildFetch(b) \/ ChildOpen(b) \/ ChildTransmit(b)
        PROVE  OtaInv'
    BY <2>4, OtaChildFetch, OtaChildOpen, OtaChildTransmit
  <2>5. ASSUME NEW named \in BOOLEAN, NEW told \in BOOLEAN, Serve(named, told) PROVE OtaInv'
    BY <2>5, OtaServe
  <2> QED
    BY <1>2, <2>1, <2>2, <2>3, <2>4, <2>5 DEF CmdTask
<1>3. CASE DlTask
  BY <1>3, OtaDlEnd, OtaDlCheck, OtaDlBegin, OtaDlWrite DEF DlTask
<1>4. CASE Library
  <2>1. ASSUME NEW reason \in {"ok", "fail"}, SdkFinish(reason) PROVE OtaInv'
    BY <2>1, OtaSame DEF SdkFinish, callbackUnchanged, service, entry, otaView
  <2> QED
    BY <1>4, <2>1, OtaFileDone, OtaBlockArrives DEF Library
<1>5. CASE SdkEvent \/ ExternDisabled \/ Command \/ Release \/ Restart
  BY <1>5, OtaSdkEvent, OtaExternDisabled, OtaCommand, OtaRelease, OtaRestart
<1>6. CASE SdkResume
  BY <1>6, OtaSame DEF SdkResume, callbackUnchanged, service, entry, otaView
<1>7. CASE LinkLost \/ LinkUp \/ LinkStable
  BY <1>7, OtaSame DEF LinkLost, LinkUp, LinkStable, linkUnchanged, stored, receiver, service, entry, otaView
<1>8. CASE BrokerChange \/ PlanRestart
  BY <1>8, OtaSame DEF BrokerChange, PlanRestart, stored, receiver, service, entry, otaView
<1> QED
  BY <1>1, <1>2, <1>3, <1>4, <1>5, <1>6, <1>7, <1>8 DEF OtaNext

\* A slot that is selected is recorded.
LEMMA OtaInvBoots == OtaInv => BootRecorded
<1> SUFFICES ASSUME OtaInv PROVE BootRecorded
  OBVIOUS
<1>1. ASSUME boot # run PROVE cache.slot = boot /\ cache.ver = flash[boot] /\ cache.ver > RunningVersion
  <2>1. /\ supply.slot = boot /\ flash[supply.slot] = supply.ver /\ supply.ver > RunningVersion
        /\ cache = [slot |-> supply.slot, ver |-> supply.ver, origin |-> cand.origin]
    BY <1>1 DEF OtaInv, Recorded
  <2> QED
    BY <2>1
<1> QED
  BY <1>1 DEF BootRecorded, OtaInv, Recorded

\* A supply is recorded, and so is what is reported.
LEMMA OtaInvSupplies == OtaInv => SupplyRecorded
<1> SUFFICES ASSUME OtaInv PROVE SupplyRecorded
  OBVIOUS
<1>1. report => supply.valid
  BY DEF OtaInv, Settling
<1>2. ASSUME supply.valid
      PROVE  /\ flash[supply.slot] = supply.ver /\ ~rx.handle /\ dl.at # "write"
             /\ cache = [slot |-> supply.slot, ver |-> supply.ver, origin |-> cand.origin]
  BY <1>2 DEF OtaInv, Settling, Settled, Downloads, Receives, Recorded
<1> QED
  BY <1>1, <1>2 DEF SupplyRecorded, Provides
=============================================================================
