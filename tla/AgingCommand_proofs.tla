------------------------- MODULE AgingCommand_proofs -------------------------
(***************************************************************************)
(* What holds of the aging commands for any number of PNs, failing writes  *)
(* and restarts: the types, and, when the queue of mqtt_rx is served only  *)
(* once net_init is through (~EarlyCommands), the hand-over of a PN from   *)
(* ready to running.                                                       *)
(***************************************************************************)
EXTENDS AgingCommand, TLAPS

NvsType ==
    [ready: MaybePN, flag: BOOLEAN, current: MaybePN, valid: BOOLEAN,
     pending: BOOLEAN, tReady: MaybePN, tCurrent: MaybePN]

-----------------------------------------------------------------------------
(* The invariant.                                                          *)

\* One task is at work at a time: mqtt_rx is, or it waits for net_init.
OneAtATime == at["mqtt_rx"] # "off" => at["net_init"] = "over"

\* Where the one at work is.
Place == IF at["mqtt_rx"] = "off" THEN at["net_init"] ELSE at["mqtt_rx"]

\* aging_ctrl has not begun to clear the PNs.
Busy == ctrl \in {"run", "abort", "abortClear", "complete", "completeIdle"}

\* The places of a set_pn; those at which a round may be left running; those of a
\* recovered round, before and after its records are read; those of a start whose
\* PN_Code is taken from the ready one.
Setting == {"setString", "setFlag", "undoString", "undoFlag", "setReply"}
Resting == {"created", "consumeFlag", "consumePending", "idle", "over", "stopJoin"}
Purging == {"purgeString", "purgeFlag", "purgePending", "read"}
Recovering == {"cancel", "join", "prepare"}
Taken == {"cancelStart", "joinStart", "prepareStart"}

\* The control task runs the round of PN_Code, which NVS names, and nothing is
\* recovered, cleared or created anew while it does.
RoundKnown ==
    /\ Busy => /\ Place \in Recording \cup Resting
               /\ cmd = "RUNNING" \/ Place \in {"created", "createdStart"}
               /\ pn = session /\ session \in PNs
               /\ nvs.current = session /\ TargetFits(nvs.tCurrent, session)
    /\ ctrl = "run" => json
    /\ Place \in {"ready", "valid", "load", "prepareStart", "stopClear"}
                  \cup Purging \cup Recovering
          => ctrl = "none"

\* What the task at work may rely on: a recovery on the records it has read, a start
\* on the writes it has made.
StartKnown ==
    /\ Place \in {"ready", "valid", "undo", "undoStart"} \cup Purging => pn = NoPN
    /\ Place = "load" => pn = nvs.current
    /\ Place \in Recovering =>
          json /\ pn = nvs.current /\ pn # NoPN /\ TargetFits(nvs.tCurrent, pn)
    /\ Place \in {"copy", "current"} \cup Taken => json
    /\ Place \in {"current"} \cup Taken /\ pn # NoPN => nvs.tCurrent = pn
    /\ Place \in Taken /\ pn # NoPN => nvs.current = pn
    /\ Place = "prepareStart" => pn # NoPN

\* No ready PN remains beside a round that is recorded or recovered, and PN_Code is
\* that of a round.
ReadyKnown ==
    /\ Place \in {"consumeString", "consumeFlag", "failed", "ready", "load"}
                  \cup Purging \cup Recovering
         => ready = NoPN
    /\ Place \in Purging \cup Recovering \cup {"load", "failed"} => nvs.valid
    /\ Place \in Setting \cup {"save"} /\ ctrl = "none" => pn = NoPN
    /\ Place \in Recording \cup Resting /\ ctrl = "none" /\ pn # NoPN =>
          cmd = "RUNNING" \/ Place \in {"created", "createdStart"}
    /\ over \subseteq acked
    /\ Place \in {"setString", "setFlag"} => ready \notin acked
    /\ Place \in {"prepare", "prepareStart", "created"} \cup Recording /\ ctrl = "run" => ~cancel
    /\ Place \in {"prepare", "prepareStart"} => ~cancel

\* The ready PN is in NVS from its reply on, and gone from it before its round may
\* end.
ReadyInNvs ==
    /\ Place \notin {"undoString", "undoFlag"}
    /\ ready # NoPN /\ Place \notin {"setString", "setFlag"} => nvs.flag /\ nvs.ready = ready
    /\ ready # NoPN /\ Place = "setFlag" => nvs.ready = ready
    /\ Place \in {"current"} \cup Taken /\ pn # NoPN => nvs.flag /\ nvs.ready = pn
    /\ Place = "setString" /\ (ctrl = "completeClear" \/ ready = NoPN) => nvs.ready = NoPN
    /\ Place = "setFlag" => nvs.ready \notin acked
    /\ ctrl = "completeClear" /\ ready = NoPN => nvs.ready = NoPN
    /\ Place \in {"consumeFlag", "purgeFlag", "purgePending", "read", "load", "failed"}
                  \cup Recovering
          => nvs.ready = NoPN
    /\ Place \in Resting /\ pn # NoPN /\ ctrl # "completeClear" => ready = NoPN /\ nvs.ready = NoPN

\* NVS names a PN as ready until its round is recorded, and the recorded round is
\* the one that is recovered or runs.
RoundInNvs ==
    /\ Place \in Recording => ctrl \in {"run", "abort", "complete"} /\ nvs.ready = session
    /\ Place \in Recording \ {"consumeString"} => nvs.flag
    /\ Place = "consumeString" => nvs.valid
    /\ nvs.valid => nvs.ready \in {NoPN, nvs.current}
    /\ nvs.valid =>
          \/ Place \in {"ready", "valid", "load", "failed"} \cup Purging \cup Recovering
          \/ nvs.current = pn /\ ctrl \in {"run", "abort", "complete"}
          \/ nvs.current = pn /\ ctrl = "none" /\ cmd = "RUNNING" /\ Place \in Resting

\* No PN whose round is over is ready, recorded or running, except a stopped one.
Ended ==
    /\ ready \notin over \ stopped
    /\ nvs.ready \notin over \ stopped
    /\ nvs.valid => nvs.current \notin over \ stopped
    /\ ctrl \in {"run", "abort", "complete"} => session \notin over \ stopped

\* Each acknowledged PN is ready in NVS, or its round is recorded there.
AckedInNvs ==
    \A p \in acked \ over :
        \/ nvs.flag /\ nvs.ready = p
        \/ nvs.valid /\ nvs.current = p

\* As long as the writes succeed, and no round ends before its start has recorded it.
InNvs == ReadyInNvs /\ RoundInNvs /\ Ended /\ AckedInNvs

Handed == failures = 0 /\ ~hasty => InNvs

CommandInv ==
    TypeOK /\ ~EarlyCommands /\ OneAtATime /\ RoundKnown /\ StartKnown /\ ReadyKnown /\ Handed

USE DEF ramVars, ghostVars, MaybePN, Recording, Setting, Resting, Purging, Recovering, Taken, Busy

-----------------------------------------------------------------------------
(* The types.                                                              *)

LEMMA TypesRecovery ==
  ASSUME TypeOK, Recovery
  PROVE  TypeOK'
<1>1. CASE RecoverReady
  BY <1>1 DEF TypeOK, Goto, Places, Tasks, RecoverReady
<1>2. CASE RecoverRunning
  BY <1>2 DEF TypeOK, Goto, Places, Tasks, RecoverRunning
<1>3. CASE RecoverRead
  BY <1>3 DEF TypeOK, Goto, Places, Tasks, RecoverRead
<1>4. CASE RecoverLoad
  BY <1>4 DEF TypeOK, Goto, Places, Tasks, RecoverLoad
<1>5. CASE RecoverPending
  BY <1>5 DEF TypeOK, Goto, Places, Tasks, RecoverPending
<1>6. CASE RecoverOver
  BY <1>6 DEF TypeOK, Goto, Places, Tasks, RecoverOver
<1>7. CASE RecoverRuns
  BY <1>7 DEF TypeOK, Goto, Places, Tasks, RecoverRuns
<1> QED
  BY <1>1, <1>2, <1>3, <1>4, <1>5, <1>6, <1>7 DEF Recovery

LEMMA TypesCommand ==
  ASSUME TypeOK, Command
  PROVE  TypeOK'
<1>1. ASSUME NEW p \in PNs, NEW ok \in BOOLEAN, SetPn(p, ok) PROVE TypeOK'
  BY <1>1 DEF TypeOK, Attempt, Goto, Places, Tasks, SetPn, MayAccept
<1>2. ASSUME NEW ok \in BOOLEAN, SetPnReply(ok) PROVE TypeOK'
  <2>1. at' \in [Tasks -> Places]
    BY <1>2 DEF TypeOK, Goto, Places, Tasks, SetPnReply
  <2>2. failures' \in Nat
    BY <1>2 DEF TypeOK, Attempt, SetPnReply
  <2>3. nvs' \in NvsType
    BY <1>2 DEF TypeOK, NvsType, SetPnReply
  <2> QED
    BY <2>1, <2>2, <2>3, <1>2 DEF TypeOK, NvsType, SetPnReply
<1>3. CASE StartAging
  BY <1>3 DEF TypeOK, Goto, Places, Tasks, StartAging, MayStart
<1>4. CASE StartRejected
  <2>1. at' \in [Tasks -> Places]
    BY <1>4 DEF TypeOK, Goto, Places, Tasks, StartRejected
  <2>2. json' \in BOOLEAN
    BY <1>4 DEF TypeOK, StartRejected
  <2> QED
    BY <2>1, <2>2, <1>4 DEF TypeOK, StartRejected
<1>5. CASE StopAging
  BY <1>5 DEF TypeOK, Goto, Places, Tasks, StopAging
<1>6. CASE StopTimeout
  BY <1>6 DEF TypeOK, Goto, Places, Tasks, StopTimeout
<1>7. ASSUME NEW ok \in BOOLEAN, StopErase(ok) PROVE TypeOK'
  <2>1. at' \in [Tasks -> Places]
    BY <1>7 DEF TypeOK, Goto, Places, Tasks, StopErase
  <2>2. failures' \in Nat
    BY <1>7 DEF TypeOK, Attempt, StopErase
  <2>3. nvs' \in NvsType
    BY <1>7 DEF TypeOK, NvsType, StopErase
  <2> QED
    BY <2>1, <2>2, <2>3, <1>7 DEF TypeOK, NvsType, StopErase
<1>8. CASE StopClear
  <2>1. at' \in [Tasks -> Places]
    BY <1>8 DEF TypeOK, Goto, Places, Tasks, StopClear
  <2>2. json' \in BOOLEAN
    BY <1>8 DEF TypeOK, StopClear
  <2> QED
    BY <2>1, <2>2, <1>8 DEF TypeOK, StopClear
<1> QED
  BY <1>1, <1>2, <1>3, <1>4, <1>5, <1>6, <1>7, <1>8 DEF Command

LEMMA TypesStarting ==
  ASSUME TypeOK, NEW w \in Tasks, Starting(w)
  PROVE  TypeOK'
<1>1. ASSUME NEW ok \in BOOLEAN, StartSave(w, ok) PROVE TypeOK'
  BY <1>1 DEF TypeOK, Attempt, Goto, Places, Tasks, StartSave, Rest
<1>2. ASSUME NEW ok \in BOOLEAN, StartCopy(w, ok) PROVE TypeOK'
  BY <1>2 DEF TypeOK, Attempt, Goto, Places, Tasks, StartCopy, Rest
<1>3. ASSUME NEW ok \in BOOLEAN, StartCurrent(w, ok) PROVE TypeOK'
  BY <1>3 DEF TypeOK, Attempt, Goto, Places, Tasks, StartCurrent, Rest
<1>4. CASE ParseCancel(w)
  BY <1>4 DEF TypeOK, Goto, Places, Tasks, ParseCancel, ForStart
<1>5. ASSUME NEW begun \in BOOLEAN, ParseJoin(w, begun) PROVE TypeOK'
  <2>1. at' \in [Tasks -> Places]
    BY <1>5 DEF TypeOK, Goto, Places, Tasks, ParseJoin, ForStart, Failing
  <2>2. cancel' \in BOOLEAN
    BY <1>5 DEF TypeOK, ParseJoin, ForStart, Failing
  <2> QED
    BY <2>1, <2>2, <1>5 DEF TypeOK, ParseJoin, ForStart, Failing
<1>6. CASE ParseTimeout(w)
  BY <1>6 DEF TypeOK, Goto, Places, Tasks, ParseTimeout, ForStart, Failing
<1>7. CASE ParseFail(w)
  <2>1. at' \in [Tasks -> Places]
    BY <1>7 DEF TypeOK, Goto, Places, Tasks, ParseFail, ForStart, Failing
  <2>2. json' \in BOOLEAN
    BY <1>7 DEF TypeOK, ParseFail, ForStart, Failing
  <2> QED
    BY <2>1, <2>2, <1>7 DEF TypeOK, ParseFail, ForStart, Failing
<1>8. CASE ParseCreate(w)
  BY <1>8 DEF TypeOK, Goto, Places, Tasks, ParseCreate, ForStart
<1>9. ASSUME NEW ok \in BOOLEAN, StartFailed(w, ok) PROVE TypeOK'
  <2>1. at' \in [Tasks -> Places]
    BY <1>9 DEF TypeOK, Goto, Places, Tasks, StartFailed, ForStart
  <2>2. failures' \in Nat
    BY <1>9 DEF TypeOK, Attempt, StartFailed, ForStart
  <2>3. nvs' \in NvsType
    BY <1>9 DEF TypeOK, NvsType, StartFailed, ForStart
  <2> QED
    BY <2>1, <2>2, <2>3, <1>9 DEF TypeOK, NvsType, StartFailed, ForStart
<1>10. ASSUME NEW ok \in BOOLEAN, StartUndone(w, ok) PROVE TypeOK'
  <2>1. at' \in [Tasks -> Places]
    BY <1>10 DEF TypeOK, Goto, Places, Tasks, StartUndone, ForStart, Rest
  <2>2. failures' \in Nat
    BY <1>10 DEF TypeOK, Attempt, StartUndone, ForStart, Rest
  <2>3. nvs' \in NvsType
    BY <1>10 DEF TypeOK, NvsType, StartUndone, ForStart, Rest
  <2> QED
    BY <2>1, <2>2, <2>3, <1>10 DEF TypeOK, NvsType, StartUndone, ForStart, Rest
<1>11. CASE StartRuns(w)
  BY <1>11 DEF TypeOK, Goto, Places, Tasks, StartRuns
<1>12. ASSUME NEW ok \in BOOLEAN, RecordPn(w, ok) PROVE TypeOK'
  BY <1>12 DEF TypeOK, Attempt, Goto, Places, Tasks, RecordPn
<1>13. ASSUME NEW ok \in BOOLEAN, RecordValid(w, ok) PROVE TypeOK'
  <2>1. at' \in [Tasks -> Places]
    BY <1>13 DEF TypeOK, Goto, Places, Tasks, RecordValid
  <2>2. failures' \in Nat
    BY <1>13 DEF TypeOK, Attempt, RecordValid
  <2>3. nvs' \in NvsType
    BY <1>13 DEF TypeOK, NvsType, RecordValid
  <2> QED
    BY <2>1, <2>2, <2>3, <1>13 DEF TypeOK, NvsType, RecordValid
<1> QED
  BY <1>1, <1>2, <1>3, <1>4, <1>5, <1>6, <1>7, <1>8, <1>9, <1>10, <1>11, <1>12, <1>13 DEF Starting

LEMMA TypesPersisting ==
  ASSUME TypeOK, NEW w \in Tasks, Persisting(w)
  PROVE  TypeOK'
<1>1. ASSUME NEW ok \in BOOLEAN, PersistString(w, ok) PROVE TypeOK'
  BY <1>1 DEF TypeOK, Attempt, Goto, Places, Tasks, PersistString, FlagPlace, Unpersisted, Persisted
<1>2. ASSUME NEW ok \in BOOLEAN, PersistFlag(w, ok) PROVE TypeOK'
  <2>1. at' \in [Tasks -> Places]
    BY <1>2 DEF TypeOK, Goto, Places, Tasks, PersistFlag, FlagPlace, Unpersisted, Persisted
  <2>2. failures' \in Nat
    BY <1>2 DEF TypeOK, Attempt, PersistFlag, FlagPlace, Unpersisted, Persisted
  <2>3. nvs' \in NvsType
    BY <1>2 DEF TypeOK, NvsType, PersistFlag, FlagPlace, Unpersisted, Persisted
  <2> QED
    BY <2>1, <2>2, <2>3, <1>2 DEF TypeOK, NvsType, PersistFlag, FlagPlace, Unpersisted, Persisted
<1>3. ASSUME NEW ok \in BOOLEAN, PersistPending(w, ok) PROVE TypeOK'
  <2>1. at' \in [Tasks -> Places]
    BY <1>3 DEF TypeOK, Goto, Places, Tasks, PersistPending, Rest
  <2>2. failures' \in Nat
    BY <1>3 DEF TypeOK, Attempt, PersistPending, Rest
  <2>3. nvs' \in NvsType
    BY <1>3 DEF TypeOK, NvsType, PersistPending, Rest
  <2> QED
    BY <2>1, <2>2, <2>3, <1>3 DEF TypeOK, NvsType, PersistPending, Rest
<1> QED
  BY <1>1, <1>2, <1>3 DEF Persisting

LEMMA TypesControl ==
  ASSUME TypeOK, Control
  PROVE  TypeOK'
<1>1. CASE CtrlExit
  BY <1>1 DEF TypeOK, CtrlExit
<1>2. CASE CtrlAbort
  BY <1>2 DEF TypeOK, CtrlAbort
<1>3. ASSUME NEW place, NEW next \in {"abortClear", "completeIdle"}, NEW ok \in BOOLEAN,
             CtrlErase(place, next, ok)
      PROVE  TypeOK'
  <2>1. failures' \in Nat
    BY <1>3 DEF TypeOK, Attempt, CtrlErase
  <2>2. nvs' \in NvsType
    BY <1>3 DEF TypeOK, NvsType, CtrlErase
  <2>3. hasty' \in BOOLEAN
    BY <1>3 DEF TypeOK, CtrlErase
  <2>4. /\ UNCHANGED <<cmd, pn, ready, cancel, at, json, session, acked, stopped, restarts>>
        /\ over' \subseteq PNs /\ ctrl' = next
    BY <1>3 DEF TypeOK, CtrlErase
  <2> QED
    BY <2>1, <2>2, <2>3, <2>4 DEF TypeOK, NvsType
<1>4. CASE CtrlAbortClear
  BY <1>4 DEF TypeOK, CtrlAbortClear
<1>5. CASE CtrlComplete
  BY <1>5 DEF TypeOK, CtrlComplete
<1>6. CASE CtrlIdle
  <2>1. json' \in BOOLEAN
    BY <1>6 DEF TypeOK, CtrlIdle
  <2> QED
    BY <2>1, <1>6 DEF TypeOK, CtrlIdle
<1>7. CASE CtrlClear
  BY <1>7 DEF TypeOK, CtrlClear
<1> QED
  BY <1>1, <1>2, <1>3, <1>4, <1>5, <1>6, <1>7 DEF Control

LEMMA TypesNext == TypeOK /\ [Next]_vars => TypeOK'
<1> SUFFICES ASSUME TypeOK, [Next]_vars PROVE TypeOK'
  OBVIOUS
<1>1. CASE Recovery
  BY <1>1, TypesRecovery
<1>2. CASE Command
  BY <1>2, TypesCommand
<1>3. ASSUME NEW w \in Tasks, Starting(w) PROVE TypeOK'
  BY <1>3, TypesStarting
<1>4. ASSUME NEW w \in Tasks, Persisting(w) PROVE TypeOK'
  BY <1>4, TypesPersisting
<1>5. CASE Control
  BY <1>5, TypesControl
<1>6. CASE Restart
  <2>1. at' \in [Tasks -> Places]
    BY <1>6 DEF Restart, Booted, Tasks, Places
  <2>2. cancel' \in BOOLEAN /\ UNCHANGED <<nvs, json, acked, over, stopped, hasty, failures>>
    BY <1>6 DEF Restart
  <2>3. restarts' \in Nat
    BY <1>6 DEF TypeOK, Restart
  <2> QED
    BY <1>6, <2>1, <2>2, <2>3 DEF TypeOK, Restart
<1>7. CASE UNCHANGED vars
  BY <1>7 DEF TypeOK, vars
<1> QED
  BY <1>1, <1>2, <1>3, <1>4, <1>5, <1>6, <1>7 DEF Next

LEMMA TypesInit == Init => TypeOK
<1> SUFFICES ASSUME Init PROVE TypeOK
  OBVIOUS
<1>1. at \in [Tasks -> Places]
  BY DEF Init, Booted, Tasks, Places
<1>2. nvs \in NvsType
  BY DEF Init, EmptyNvs, NvsType
<1>3. cancel \in BOOLEAN /\ json \in BOOLEAN /\ hasty \in BOOLEAN
  BY DEF Init
<1> QED
  BY <1>1, <1>2, <1>3 DEF Init, TypeOK, NvsType

\* Every variable keeps its type, also when commands arrive during the recovery
\* (the declarations of main/Task/appTask.c).
THEOREM TypeCorrect == Spec => []TypeOK
BY TypesInit, TypesNext, PTL DEF Spec

-----------------------------------------------------------------------------
(* Where the task at work goes, and what a write that fails shows.         *)

LEMMA MovedPlace ==
  ASSUME TypeOK, OneAtATime, NEW w \in Tasks, at[w] \notin {"off", "over"},
         NEW y \in Places \ {"off"}, Goto(w, y)
  PROVE  Place = at[w] /\ Place' = y /\ OneAtATime'
<1>1. CASE w = "mqtt_rx"
  BY <1>1 DEF TypeOK, OneAtATime, Place, Goto, Tasks
<1>2. CASE w = "net_init"
  BY <1>2 DEF TypeOK, OneAtATime, Place, Goto, Tasks
<1> QED
  BY <1>1, <1>2 DEF Tasks

LEMMA SamePlace == at' = at => Place' = Place /\ (OneAtATime <=> OneAtATime')
BY DEF Place, OneAtATime

LEMMA Failed ==
  ASSUME TypeOK, NEW ok \in BOOLEAN, Attempt(ok), failures' = 0
  PROVE  failures = 0 /\ ok
BY DEF TypeOK, Attempt

-----------------------------------------------------------------------------
(* Each action keeps the invariant.                                        *)

LEMMA KeepsRecoverReady ==
  ASSUME CommandInv, TypeOK', RecoverReady
  PROVE  CommandInv'
<1>1. /\ Place = "ready"
      /\ Place' = "valid"
      /\ OneAtATime'
  BY DEF CommandInv, TypeOK, OneAtATime, Place, Goto, Tasks, RecoverReady
<1>2. RoundKnown'
  BY <1>1 DEF CommandInv, TypeOK, RoundKnown, RecoverReady
<1>3. StartKnown'
  BY <1>1 DEF CommandInv, TypeOK, StartKnown, RecoverReady
<1>4. ReadyKnown'
  BY <1>1 DEF CommandInv, TypeOK, ReadyKnown, RecoverReady
<1>5. ASSUME failures' = 0, ~hasty' PROVE InNvs'
  <2>1. failures = 0 /\ ~hasty
    BY <1>5 DEF RecoverReady
  <2>2. InNvs
    BY <2>1 DEF CommandInv, Handed
  <2>3. ReadyInNvs'
    BY <1>1, <2>1, <2>2 DEF InNvs, CommandInv, TypeOK, ReadyInNvs, ReadyKnown, RecoverReady
  <2>4. RoundInNvs'
    BY <1>1, <2>1, <2>2 DEF InNvs, CommandInv, TypeOK, RoundInNvs, RecoverReady
  <2>5. Ended'
    BY <1>1, <2>1, <2>2, CommandAssumption DEF InNvs, CommandInv, TypeOK, Ended, RecoverReady
  <2>6. AckedInNvs'
    BY <1>1, <2>1, <2>2 DEF InNvs, CommandInv, TypeOK, AckedInNvs, RecoverReady
  <2> QED
    BY <2>3, <2>4, <2>5, <2>6 DEF InNvs
<1> QED
  BY <1>1, <1>2, <1>3, <1>4, <1>5 DEF CommandInv, Handed

LEMMA KeepsRecoverRunning ==
  ASSUME CommandInv, TypeOK', RecoverRunning
  PROVE  CommandInv'
<1>1. /\ Place = "valid"
      /\ Place' = "purgeString"
      /\ OneAtATime'
  BY DEF CommandInv, TypeOK, OneAtATime, Place, Goto, Tasks, RecoverRunning
<1>2. RoundKnown'
  BY <1>1 DEF CommandInv, TypeOK, RoundKnown, RecoverRunning
<1>3. StartKnown'
  BY <1>1 DEF CommandInv, TypeOK, StartKnown, RecoverRunning
<1>4. ReadyKnown'
  BY <1>1 DEF CommandInv, TypeOK, ReadyKnown, RecoverRunning
<1>5. ASSUME failures' = 0, ~hasty' PROVE InNvs'
  <2>1. failures = 0 /\ ~hasty
    BY <1>5 DEF RecoverRunning
  <2>2. InNvs
    BY <2>1 DEF CommandInv, Handed
  <2>3. ReadyInNvs'
    BY <1>1, <2>1, <2>2, CommandAssumption DEF InNvs, CommandInv, TypeOK, ReadyInNvs, RoundKnown,
       RecoverRunning
  <2>4. RoundInNvs'
    BY <1>1, <2>1, <2>2 DEF InNvs, CommandInv, TypeOK, RoundInNvs, RecoverRunning
  <2>5. Ended'
    BY <1>1, <2>1, <2>2, CommandAssumption DEF InNvs, CommandInv, TypeOK, Ended, RecoverRunning
  <2>6. AckedInNvs'
    BY <1>1, <2>1, <2>2 DEF InNvs, CommandInv, TypeOK, AckedInNvs, RecoverRunning
  <2> QED
    BY <2>3, <2>4, <2>5, <2>6 DEF InNvs
<1> QED
  BY <1>1, <1>2, <1>3, <1>4, <1>5 DEF CommandInv, Handed

LEMMA KeepsRecoverRead ==
  ASSUME CommandInv, TypeOK', RecoverRead
  PROVE  CommandInv'
<1>1. /\ Place = "read"
      /\ Place' = "load"
      /\ OneAtATime'
  BY DEF CommandInv, TypeOK, OneAtATime, Place, Goto, Tasks, RecoverRead
<1>2. RoundKnown'
  BY <1>1 DEF CommandInv, TypeOK, RoundKnown, RecoverRead
<1>3. StartKnown'
  BY <1>1 DEF CommandInv, TypeOK, StartKnown, RecoverRead
<1>4. ReadyKnown'
  BY <1>1 DEF CommandInv, TypeOK, ReadyKnown, RecoverRead
<1>5. ASSUME failures' = 0, ~hasty' PROVE InNvs'
  <2>1. failures = 0 /\ ~hasty
    BY <1>5 DEF RecoverRead
  <2>2. InNvs
    BY <2>1 DEF CommandInv, Handed
  <2>3. ReadyInNvs'
    BY <1>1, <2>1, <2>2 DEF InNvs, CommandInv, TypeOK, ReadyInNvs, RecoverRead
  <2>4. RoundInNvs'
    BY <1>1, <2>1, <2>2 DEF InNvs, CommandInv, TypeOK, RoundInNvs, RecoverRead
  <2>5. Ended'
    BY <1>1, <2>1, <2>2 DEF InNvs, CommandInv, TypeOK, Ended, RecoverRead
  <2>6. AckedInNvs'
    BY <1>1, <2>1, <2>2 DEF InNvs, CommandInv, TypeOK, AckedInNvs, RecoverRead
  <2> QED
    BY <2>3, <2>4, <2>5, <2>6 DEF InNvs
<1> QED
  BY <1>1, <1>2, <1>3, <1>4, <1>5 DEF CommandInv, Handed

LEMMA KeepsRecoverLoad ==
  ASSUME CommandInv, TypeOK', RecoverLoad
  PROVE  CommandInv'
<1>1. /\ Place = "load"
      /\ Place' = IF json /\ pn # NoPN /\ TargetFits(nvs.tCurrent, pn) THEN "cancel" ELSE "failed"
      /\ OneAtATime'
  BY DEF CommandInv, TypeOK, OneAtATime, Place, Goto, Tasks, RecoverLoad
<1>2. RoundKnown'
  BY <1>1 DEF CommandInv, TypeOK, RoundKnown, RecoverLoad
<1>3. StartKnown'
  BY <1>1 DEF CommandInv, TypeOK, StartKnown, RecoverLoad
<1>4. ReadyKnown'
  BY <1>1 DEF CommandInv, TypeOK, ReadyKnown, RecoverLoad
<1>5. ASSUME failures' = 0, ~hasty' PROVE InNvs'
  <2>1. failures = 0 /\ ~hasty
    BY <1>5 DEF RecoverLoad
  <2>2. InNvs
    BY <2>1 DEF CommandInv, Handed
  <2>3. ReadyInNvs'
    BY <1>1, <2>1, <2>2 DEF InNvs, CommandInv, TypeOK, ReadyInNvs, RecoverLoad
  <2>4. RoundInNvs'
    BY <1>1, <2>1, <2>2 DEF InNvs, CommandInv, TypeOK, RoundInNvs, RecoverLoad
  <2>5. Ended'
    BY <1>1, <2>1, <2>2 DEF InNvs, CommandInv, TypeOK, Ended, RecoverLoad
  <2>6. AckedInNvs'
    BY <1>1, <2>1, <2>2 DEF InNvs, CommandInv, TypeOK, AckedInNvs, RecoverLoad
  <2> QED
    BY <2>3, <2>4, <2>5, <2>6 DEF InNvs
<1> QED
  BY <1>1, <1>2, <1>3, <1>4, <1>5 DEF CommandInv, Handed

LEMMA KeepsRecoverPending ==
  ASSUME CommandInv, TypeOK', RecoverPending
  PROVE  CommandInv'
<1>1. /\ Place = "valid"
      /\ Place' = IF ~nvs.pending THEN "over"
                  ELSE IF ~json THEN "consumePending"
                  ELSE IF ready # NoPN THEN "save" ELSE "over"
      /\ OneAtATime'
  BY DEF CommandInv, TypeOK, OneAtATime, Place, Goto, Tasks, RecoverPending
<1>2. RoundKnown'
  BY <1>1 DEF CommandInv, TypeOK, RoundKnown, RecoverPending
<1>3. StartKnown'
  BY <1>1 DEF CommandInv, TypeOK, StartKnown, RecoverPending
<1>4. ReadyKnown'
  BY <1>1 DEF CommandInv, TypeOK, ReadyKnown, StartKnown, RecoverPending
<1>5. ASSUME failures' = 0, ~hasty' PROVE InNvs'
  <2>1. failures = 0 /\ ~hasty
    BY <1>5 DEF RecoverPending
  <2>2. InNvs
    BY <2>1 DEF CommandInv, Handed
  <2>3. ReadyInNvs'
    BY <1>1, <2>1, <2>2 DEF InNvs, CommandInv, TypeOK, ReadyInNvs, StartKnown, RecoverPending
  <2>4. RoundInNvs'
    BY <1>1, <2>1, <2>2 DEF InNvs, CommandInv, TypeOK, RoundInNvs, RecoverPending
  <2>5. Ended'
    BY <1>1, <2>1, <2>2 DEF InNvs, CommandInv, TypeOK, Ended, RecoverPending
  <2>6. AckedInNvs'
    BY <1>1, <2>1, <2>2 DEF InNvs, CommandInv, TypeOK, AckedInNvs, RecoverPending
  <2> QED
    BY <2>3, <2>4, <2>5, <2>6 DEF InNvs
<1> QED
  BY <1>1, <1>2, <1>3, <1>4, <1>5 DEF CommandInv, Handed

LEMMA KeepsRecoverOver ==
  ASSUME CommandInv, TypeOK', RecoverOver
  PROVE  CommandInv'
<1>1. /\ Place = "over"
      /\ Place' = "idle"
      /\ OneAtATime'
  BY DEF CommandInv, TypeOK, OneAtATime, Place, Goto, Tasks, RecoverOver
<1>2. RoundKnown'
  BY <1>1 DEF CommandInv, TypeOK, RoundKnown, RecoverOver
<1>3. StartKnown'
  BY <1>1 DEF CommandInv, TypeOK, StartKnown, RecoverOver
<1>4. ReadyKnown'
  BY <1>1 DEF CommandInv, TypeOK, ReadyKnown, RecoverOver
<1>5. ASSUME failures' = 0, ~hasty' PROVE InNvs'
  <2>1. failures = 0 /\ ~hasty
    BY <1>5 DEF RecoverOver
  <2>2. InNvs
    BY <2>1 DEF CommandInv, Handed
  <2>3. ReadyInNvs'
    BY <1>1, <2>1, <2>2 DEF InNvs, CommandInv, TypeOK, ReadyInNvs, RecoverOver
  <2>4. RoundInNvs'
    BY <1>1, <2>1, <2>2 DEF InNvs, CommandInv, TypeOK, RoundInNvs, RecoverOver
  <2>5. Ended'
    BY <1>1, <2>1, <2>2 DEF InNvs, CommandInv, TypeOK, Ended, RecoverOver
  <2>6. AckedInNvs'
    BY <1>1, <2>1, <2>2 DEF InNvs, CommandInv, TypeOK, AckedInNvs, RecoverOver
  <2> QED
    BY <2>3, <2>4, <2>5, <2>6 DEF InNvs
<1> QED
  BY <1>1, <1>2, <1>3, <1>4, <1>5 DEF CommandInv, Handed

LEMMA KeepsRecoverRuns ==
  ASSUME CommandInv, TypeOK', RecoverRuns
  PROVE  CommandInv'
<1>1. /\ Place = "created"
      /\ Place' = "over"
      /\ OneAtATime'
  BY DEF CommandInv, TypeOK, OneAtATime, Place, Goto, Tasks, RecoverRuns
<1>2. RoundKnown'
  BY <1>1 DEF CommandInv, TypeOK, RoundKnown, RecoverRuns
<1>3. StartKnown'
  BY <1>1 DEF CommandInv, TypeOK, StartKnown, RecoverRuns
<1>4. ReadyKnown'
  BY <1>1 DEF CommandInv, TypeOK, ReadyKnown, RecoverRuns
<1>5. ASSUME failures' = 0, ~hasty' PROVE InNvs'
  <2>1. failures = 0 /\ ~hasty
    BY <1>5 DEF RecoverRuns
  <2>2. InNvs
    BY <2>1 DEF CommandInv, Handed
  <2>3. ReadyInNvs'
    BY <1>1, <2>1, <2>2 DEF InNvs, CommandInv, TypeOK, ReadyInNvs, RecoverRuns
  <2>4. RoundInNvs'
    BY <1>1, <2>1, <2>2 DEF InNvs, CommandInv, TypeOK, RoundInNvs, RecoverRuns
  <2>5. Ended'
    BY <1>1, <2>1, <2>2 DEF InNvs, CommandInv, TypeOK, Ended, RecoverRuns
  <2>6. AckedInNvs'
    BY <1>1, <2>1, <2>2 DEF InNvs, CommandInv, TypeOK, AckedInNvs, RecoverRuns
  <2> QED
    BY <2>3, <2>4, <2>5, <2>6 DEF InNvs
<1> QED
  BY <1>1, <1>2, <1>3, <1>4, <1>5 DEF CommandInv, Handed

LEMMA KeepsSetString ==
  ASSUME CommandInv, TypeOK', NEW w \in Tasks, NEW ok \in BOOLEAN, PersistString(w, ok),
         at[w] = "setString"
  PROVE  CommandInv'
<1>1. /\ Place = "setString"
      /\ Place' = IF ok THEN "setFlag" ELSE "undoString"
      /\ OneAtATime'
  BY MovedPlace DEF CommandInv, PersistString, Places, FlagPlace, Unpersisted, Persisted
<1>2. RoundKnown'
  BY <1>1 DEF CommandInv, TypeOK, RoundKnown, PersistString, FlagPlace, Unpersisted, Persisted
<1>3. StartKnown'
  BY <1>1 DEF CommandInv, TypeOK, StartKnown, PersistString, FlagPlace, Unpersisted, Persisted
<1>4. ReadyKnown'
  BY <1>1 DEF CommandInv, TypeOK, ReadyKnown, PersistString, FlagPlace, Unpersisted, Persisted
<1>5. ASSUME failures' = 0, ~hasty' PROVE InNvs'
  <2>1. failures = 0 /\ ~hasty /\ ok
    BY <1>5, Failed DEF CommandInv, PersistString
  <2>2. InNvs
    BY <2>1 DEF CommandInv, Handed
  <2>3. ReadyInNvs'
    BY <1>1, <2>1, <2>2 DEF InNvs, CommandInv, TypeOK, ReadyInNvs, ReadyKnown, PersistString,
       FlagPlace, Unpersisted, Persisted
  <2>4. RoundInNvs'
    BY <1>1, <2>1, <2>2 DEF InNvs, CommandInv, TypeOK, RoundInNvs, RoundKnown, PersistString,
       FlagPlace, Unpersisted, Persisted
  <2>5. Ended'
    BY <1>1, <2>1, <2>2, CommandAssumption DEF InNvs, CommandInv, TypeOK, Ended, ReadyInNvs,
       RoundInNvs, ReadyKnown, RoundKnown, PersistString, FlagPlace, Unpersisted, Persisted
  <2>6. AckedInNvs'
    BY <1>1, <2>1, <2>2 DEF InNvs, CommandInv, TypeOK, AckedInNvs, ReadyInNvs, PersistString,
       FlagPlace, Unpersisted, Persisted
  <2> QED
    BY <2>3, <2>4, <2>5, <2>6 DEF InNvs
<1> QED
  BY <1>1, <1>2, <1>3, <1>4, <1>5 DEF CommandInv, Handed

LEMMA KeepsUndoString ==
  ASSUME CommandInv, TypeOK', NEW w \in Tasks, NEW ok \in BOOLEAN, PersistString(w, ok),
         at[w] = "undoString"
  PROVE  CommandInv'
<1>1. /\ Place = "undoString"
      /\ Place' = IF ok THEN "undoFlag" ELSE "idle"
      /\ OneAtATime'
  BY MovedPlace DEF CommandInv, PersistString, Places, FlagPlace, Unpersisted, Persisted
<1>2. RoundKnown'
  BY <1>1 DEF CommandInv, TypeOK, RoundKnown, PersistString, FlagPlace, Unpersisted, Persisted
<1>3. StartKnown'
  BY <1>1 DEF CommandInv, TypeOK, StartKnown, PersistString, FlagPlace, Unpersisted, Persisted
<1>4. ReadyKnown'
  BY <1>1 DEF CommandInv, TypeOK, ReadyKnown, PersistString, FlagPlace, Unpersisted, Persisted
<1>5. ASSUME failures' = 0, ~hasty' PROVE InNvs'
  <2>1. failures = 0 /\ ~hasty /\ ok
    BY <1>5, Failed DEF CommandInv, PersistString
  <2>2. InNvs
    BY <2>1 DEF CommandInv, Handed
  <2>3. ReadyInNvs'
    BY <1>1, <2>1, <2>2 DEF InNvs, CommandInv, TypeOK, ReadyInNvs, PersistString, FlagPlace,
       Unpersisted, Persisted
  <2>4. RoundInNvs'
    BY <1>1, <2>1, <2>2 DEF InNvs, CommandInv, TypeOK, RoundInNvs, RoundKnown, PersistString,
       FlagPlace, Unpersisted, Persisted
  <2>5. Ended'
    BY <1>1, <2>1, <2>2, CommandAssumption DEF InNvs, CommandInv, TypeOK, Ended, ReadyInNvs,
       PersistString, FlagPlace, Unpersisted, Persisted
  <2>6. AckedInNvs'
    BY <1>1, <2>1, <2>2 DEF InNvs, CommandInv, TypeOK, AckedInNvs, ReadyInNvs, PersistString,
       FlagPlace, Unpersisted, Persisted
  <2> QED
    BY <2>3, <2>4, <2>5, <2>6 DEF InNvs
<1> QED
  BY <1>1, <1>2, <1>3, <1>4, <1>5 DEF CommandInv, Handed

LEMMA KeepsConsumeString ==
  ASSUME CommandInv, TypeOK', NEW w \in Tasks, NEW ok \in BOOLEAN, PersistString(w, ok),
         at[w] = "consumeString"
  PROVE  CommandInv'
<1>1. /\ Place = "consumeString"
      /\ Place' = IF ok THEN "consumeFlag" ELSE "consumePending"
      /\ OneAtATime'
  BY MovedPlace DEF CommandInv, PersistString, Places, FlagPlace, Unpersisted, Persisted
<1>2. RoundKnown'
  BY <1>1 DEF CommandInv, TypeOK, RoundKnown, PersistString, FlagPlace, Unpersisted, Persisted
<1>3. StartKnown'
  BY <1>1 DEF CommandInv, TypeOK, StartKnown, PersistString, FlagPlace, Unpersisted, Persisted
<1>4. ReadyKnown'
  BY <1>1, CommandAssumption DEF CommandInv, TypeOK, ReadyKnown, RoundKnown, StartKnown,
     PersistString, FlagPlace, Unpersisted, Persisted
<1>5. ASSUME failures' = 0, ~hasty' PROVE InNvs'
  <2>1. failures = 0 /\ ~hasty /\ ok
    BY <1>5, Failed DEF CommandInv, PersistString
  <2>2. InNvs
    BY <2>1 DEF CommandInv, Handed
  <2>3. ReadyInNvs'
    BY <1>1, <2>1, <2>2 DEF InNvs, CommandInv, TypeOK, ReadyInNvs, ReadyKnown, PersistString,
       FlagPlace, Unpersisted, Persisted
  <2>4. RoundInNvs'
    BY <1>1, <2>1, <2>2 DEF InNvs, CommandInv, TypeOK, RoundInNvs, ReadyKnown, PersistString,
       FlagPlace, Unpersisted, Persisted
  <2>5. Ended'
    BY <1>1, <2>1, <2>2, CommandAssumption DEF InNvs, CommandInv, TypeOK, Ended, ReadyKnown,
       PersistString, FlagPlace, Unpersisted, Persisted
  <2>6. AckedInNvs'
    BY <1>1, <2>1, <2>2 DEF InNvs, CommandInv, TypeOK, AckedInNvs, RoundInNvs, PersistString,
       FlagPlace, Unpersisted, Persisted
  <2> QED
    BY <2>3, <2>4, <2>5, <2>6 DEF InNvs
<1> QED
  BY <1>1, <1>2, <1>3, <1>4, <1>5 DEF CommandInv, Handed

LEMMA KeepsPurgeString ==
  ASSUME CommandInv, TypeOK', NEW w \in Tasks, NEW ok \in BOOLEAN, PersistString(w, ok),
         at[w] = "purgeString"
  PROVE  CommandInv'
<1>1. /\ Place = "purgeString"
      /\ Place' = IF ok THEN "purgeFlag" ELSE "purgePending"
      /\ OneAtATime'
  BY MovedPlace DEF CommandInv, PersistString, Places, FlagPlace, Unpersisted, Persisted
<1>2. RoundKnown'
  BY <1>1 DEF CommandInv, TypeOK, RoundKnown, PersistString, FlagPlace, Unpersisted, Persisted
<1>3. StartKnown'
  BY <1>1 DEF CommandInv, TypeOK, StartKnown, PersistString, FlagPlace, Unpersisted, Persisted
<1>4. ReadyKnown'
  BY <1>1 DEF CommandInv, TypeOK, ReadyKnown, PersistString, FlagPlace, Unpersisted, Persisted
<1>5. ASSUME failures' = 0, ~hasty' PROVE InNvs'
  <2>1. failures = 0 /\ ~hasty /\ ok
    BY <1>5, Failed DEF CommandInv, PersistString
  <2>2. InNvs
    BY <2>1 DEF CommandInv, Handed
  <2>3. ReadyInNvs'
    BY <1>1, <2>1, <2>2 DEF InNvs, CommandInv, TypeOK, ReadyInNvs, ReadyKnown, PersistString,
       FlagPlace, Unpersisted, Persisted
  <2>4. RoundInNvs'
    BY <1>1, <2>1, <2>2 DEF InNvs, CommandInv, TypeOK, RoundInNvs, ReadyKnown, PersistString,
       FlagPlace, Unpersisted, Persisted
  <2>5. Ended'
    BY <1>1, <2>1, <2>2, CommandAssumption DEF InNvs, CommandInv, TypeOK, Ended, ReadyKnown,
       PersistString, FlagPlace, Unpersisted, Persisted
  <2>6. AckedInNvs'
    BY <1>1, <2>1, <2>2, CommandAssumption DEF InNvs, CommandInv, TypeOK, AckedInNvs, RoundInNvs,
       ReadyKnown, PersistString, FlagPlace, Unpersisted, Persisted
  <2> QED
    BY <2>3, <2>4, <2>5, <2>6 DEF InNvs
<1> QED
  BY <1>1, <1>2, <1>3, <1>4, <1>5 DEF CommandInv, Handed

LEMMA KeepsSetFlag ==
  ASSUME CommandInv, TypeOK', NEW w \in Tasks, NEW ok \in BOOLEAN, PersistFlag(w, ok),
         at[w] = "setFlag"
  PROVE  CommandInv'
<1>1. /\ Place = "setFlag"
      /\ Place' = IF ok THEN "setReply" ELSE "undoString"
      /\ OneAtATime'
  BY MovedPlace DEF CommandInv, PersistFlag, Places, FlagPlace, Unpersisted, Persisted
<1>2. RoundKnown'
  BY <1>1 DEF CommandInv, TypeOK, RoundKnown, PersistFlag, FlagPlace, Unpersisted, Persisted
<1>3. StartKnown'
  BY <1>1 DEF CommandInv, TypeOK, StartKnown, PersistFlag, FlagPlace, Unpersisted, Persisted
<1>4. ReadyKnown'
  BY <1>1 DEF CommandInv, TypeOK, ReadyKnown, PersistFlag, FlagPlace, Unpersisted, Persisted
<1>5. ASSUME failures' = 0, ~hasty' PROVE InNvs'
  <2>1. failures = 0 /\ ~hasty /\ ok
    BY <1>5, Failed DEF CommandInv, PersistFlag
  <2>2. InNvs
    BY <2>1 DEF CommandInv, Handed
  <2>3. ReadyInNvs'
    BY <1>1, <2>1, <2>2 DEF InNvs, CommandInv, TypeOK, ReadyInNvs, PersistFlag, FlagPlace,
       Unpersisted, Persisted
  <2>4. RoundInNvs'
    BY <1>1, <2>1, <2>2 DEF InNvs, CommandInv, TypeOK, RoundInNvs, PersistFlag, FlagPlace,
       Unpersisted, Persisted
  <2>5. Ended'
    BY <1>1, <2>1, <2>2 DEF InNvs, CommandInv, TypeOK, Ended, PersistFlag, FlagPlace, Unpersisted,
       Persisted
  <2>6. AckedInNvs'
    BY <1>1, <2>1, <2>2 DEF InNvs, CommandInv, TypeOK, AckedInNvs, ReadyInNvs, PersistFlag,
       FlagPlace, Unpersisted, Persisted
  <2> QED
    BY <2>3, <2>4, <2>5, <2>6 DEF InNvs
<1> QED
  BY <1>1, <1>2, <1>3, <1>4, <1>5 DEF CommandInv, Handed

LEMMA KeepsUndoFlag ==
  ASSUME CommandInv, TypeOK', NEW w \in Tasks, NEW ok \in BOOLEAN, PersistFlag(w, ok),
         at[w] = "undoFlag"
  PROVE  CommandInv'
<1>1. /\ Place = "undoFlag"
      /\ Place' = "idle"
      /\ OneAtATime'
  BY MovedPlace DEF CommandInv, PersistFlag, Places, FlagPlace, Unpersisted, Persisted
<1>2. RoundKnown'
  BY <1>1 DEF CommandInv, TypeOK, RoundKnown, PersistFlag, FlagPlace, Unpersisted, Persisted
<1>3. StartKnown'
  BY <1>1 DEF CommandInv, TypeOK, StartKnown, PersistFlag, FlagPlace, Unpersisted, Persisted
<1>4. ReadyKnown'
  BY <1>1 DEF CommandInv, TypeOK, ReadyKnown, PersistFlag, FlagPlace, Unpersisted, Persisted
<1>5. ASSUME failures' = 0, ~hasty' PROVE InNvs'
  <2>1. failures = 0 /\ ~hasty /\ ok
    BY <1>5, Failed DEF CommandInv, PersistFlag
  <2>2. InNvs
    BY <2>1 DEF CommandInv, Handed
  <2>3. ReadyInNvs'
    BY <1>1, <2>1, <2>2 DEF InNvs, CommandInv, TypeOK, ReadyInNvs, PersistFlag, FlagPlace,
       Unpersisted, Persisted
  <2>4. RoundInNvs'
    BY <1>1, <2>1, <2>2 DEF InNvs, CommandInv, TypeOK, RoundInNvs, PersistFlag, FlagPlace,
       Unpersisted, Persisted
  <2>5. Ended'
    BY <1>1, <2>1, <2>2 DEF InNvs, CommandInv, TypeOK, Ended, PersistFlag, FlagPlace, Unpersisted,
       Persisted
  <2>6. AckedInNvs'
    BY <1>1, <2>1, <2>2 DEF InNvs, CommandInv, TypeOK, AckedInNvs, ReadyInNvs, PersistFlag,
       FlagPlace, Unpersisted, Persisted
  <2> QED
    BY <2>3, <2>4, <2>5, <2>6 DEF InNvs
<1> QED
  BY <1>1, <1>2, <1>3, <1>4, <1>5 DEF CommandInv, Handed

LEMMA KeepsConsumeFlag ==
  ASSUME CommandInv, TypeOK', NEW w \in Tasks, NEW ok \in BOOLEAN, PersistFlag(w, ok),
         at[w] = "consumeFlag"
  PROVE  CommandInv'
<1>1. /\ Place = "consumeFlag"
      /\ Place' = "consumePending"
      /\ OneAtATime'
  BY MovedPlace DEF CommandInv, PersistFlag, Places, FlagPlace, Unpersisted, Persisted
<1>2. RoundKnown'
  BY <1>1 DEF CommandInv, TypeOK, RoundKnown, PersistFlag, FlagPlace, Unpersisted, Persisted
<1>3. StartKnown'
  BY <1>1 DEF CommandInv, TypeOK, StartKnown, PersistFlag, FlagPlace, Unpersisted, Persisted
<1>4. ReadyKnown'
  BY <1>1 DEF CommandInv, TypeOK, ReadyKnown, PersistFlag, FlagPlace, Unpersisted, Persisted
<1>5. ASSUME failures' = 0, ~hasty' PROVE InNvs'
  <2>1. failures = 0 /\ ~hasty /\ ok
    BY <1>5, Failed DEF CommandInv, PersistFlag
  <2>2. InNvs
    BY <2>1 DEF CommandInv, Handed
  <2>3. ReadyInNvs'
    BY <1>1, <2>1, <2>2 DEF InNvs, CommandInv, TypeOK, ReadyInNvs, PersistFlag, FlagPlace,
       Unpersisted, Persisted
  <2>4. RoundInNvs'
    BY <1>1, <2>1, <2>2 DEF InNvs, CommandInv, TypeOK, RoundInNvs, PersistFlag, FlagPlace,
       Unpersisted, Persisted
  <2>5. Ended'
    BY <1>1, <2>1, <2>2 DEF InNvs, CommandInv, TypeOK, Ended, PersistFlag, FlagPlace, Unpersisted,
       Persisted
  <2>6. AckedInNvs'
    BY <1>1, <2>1, <2>2, CommandAssumption DEF InNvs, CommandInv, TypeOK, AckedInNvs, ReadyInNvs,
       ReadyKnown, PersistFlag, FlagPlace, Unpersisted, Persisted
  <2> QED
    BY <2>3, <2>4, <2>5, <2>6 DEF InNvs
<1> QED
  BY <1>1, <1>2, <1>3, <1>4, <1>5 DEF CommandInv, Handed

LEMMA KeepsPurgeFlag ==
  ASSUME CommandInv, TypeOK', NEW w \in Tasks, NEW ok \in BOOLEAN, PersistFlag(w, ok),
         at[w] = "purgeFlag"
  PROVE  CommandInv'
<1>1. /\ Place = "purgeFlag"
      /\ Place' = "purgePending"
      /\ OneAtATime'
  BY MovedPlace DEF CommandInv, PersistFlag, Places, FlagPlace, Unpersisted, Persisted
<1>2. RoundKnown'
  BY <1>1 DEF CommandInv, TypeOK, RoundKnown, PersistFlag, FlagPlace, Unpersisted, Persisted
<1>3. StartKnown'
  BY <1>1 DEF CommandInv, TypeOK, StartKnown, PersistFlag, FlagPlace, Unpersisted, Persisted
<1>4. ReadyKnown'
  BY <1>1 DEF CommandInv, TypeOK, ReadyKnown, PersistFlag, FlagPlace, Unpersisted, Persisted
<1>5. ASSUME failures' = 0, ~hasty' PROVE InNvs'
  <2>1. failures = 0 /\ ~hasty /\ ok
    BY <1>5, Failed DEF CommandInv, PersistFlag
  <2>2. InNvs
    BY <2>1 DEF CommandInv, Handed
  <2>3. ReadyInNvs'
    BY <1>1, <2>1, <2>2 DEF InNvs, CommandInv, TypeOK, ReadyInNvs, PersistFlag, FlagPlace,
       Unpersisted, Persisted
  <2>4. RoundInNvs'
    BY <1>1, <2>1, <2>2 DEF InNvs, CommandInv, TypeOK, RoundInNvs, PersistFlag, FlagPlace,
       Unpersisted, Persisted
  <2>5. Ended'
    BY <1>1, <2>1, <2>2 DEF InNvs, CommandInv, TypeOK, Ended, PersistFlag, FlagPlace, Unpersisted,
       Persisted
  <2>6. AckedInNvs'
    BY <1>1, <2>1, <2>2, CommandAssumption DEF InNvs, CommandInv, TypeOK, AckedInNvs, ReadyInNvs,
       ReadyKnown, PersistFlag, FlagPlace, Unpersisted, Persisted
  <2> QED
    BY <2>3, <2>4, <2>5, <2>6 DEF InNvs
<1> QED
  BY <1>1, <1>2, <1>3, <1>4, <1>5 DEF CommandInv, Handed

LEMMA KeepsConsumePending ==
  ASSUME CommandInv, TypeOK', NEW w \in Tasks, NEW ok \in BOOLEAN, PersistPending(w, ok),
         at[w] = "consumePending"
  PROVE  CommandInv'
<1>1. /\ Place = "consumePending"
      /\ Place' \in {"idle", "over"}
      /\ OneAtATime'
  BY MovedPlace DEF CommandInv, PersistPending, Places, Rest
<1>2. RoundKnown'
  BY <1>1 DEF CommandInv, TypeOK, RoundKnown, PersistPending, Rest
<1>3. StartKnown'
  BY <1>1 DEF CommandInv, TypeOK, StartKnown, PersistPending, Rest
<1>4. ReadyKnown'
  BY <1>1 DEF CommandInv, TypeOK, ReadyKnown, PersistPending, Rest
<1>5. ASSUME failures' = 0, ~hasty' PROVE InNvs'
  <2>1. failures = 0 /\ ~hasty /\ ok
    BY <1>5, Failed DEF CommandInv, PersistPending
  <2>2. InNvs
    BY <2>1 DEF CommandInv, Handed
  <2>3. ReadyInNvs'
    BY <1>1, <2>1, <2>2 DEF InNvs, CommandInv, TypeOK, ReadyInNvs, PersistPending, Rest
  <2>4. RoundInNvs'
    BY <1>1, <2>1, <2>2 DEF InNvs, CommandInv, TypeOK, RoundInNvs, PersistPending, Rest
  <2>5. Ended'
    BY <1>1, <2>1, <2>2 DEF InNvs, CommandInv, TypeOK, Ended, PersistPending, Rest
  <2>6. AckedInNvs'
    BY <1>1, <2>1, <2>2 DEF InNvs, CommandInv, TypeOK, AckedInNvs, PersistPending, Rest
  <2> QED
    BY <2>3, <2>4, <2>5, <2>6 DEF InNvs
<1> QED
  BY <1>1, <1>2, <1>3, <1>4, <1>5 DEF CommandInv, Handed

LEMMA KeepsPurgePending ==
  ASSUME CommandInv, TypeOK', NEW w \in Tasks, NEW ok \in BOOLEAN, PersistPending(w, ok),
         at[w] = "purgePending"
  PROVE  CommandInv'
<1>1. /\ Place = "purgePending"
      /\ Place' = "read"
      /\ OneAtATime'
  BY MovedPlace DEF CommandInv, PersistPending, Places, Rest
<1>2. RoundKnown'
  BY <1>1 DEF CommandInv, TypeOK, RoundKnown, PersistPending, Rest
<1>3. StartKnown'
  BY <1>1 DEF CommandInv, TypeOK, StartKnown, PersistPending, Rest
<1>4. ReadyKnown'
  BY <1>1 DEF CommandInv, TypeOK, ReadyKnown, PersistPending, Rest
<1>5. ASSUME failures' = 0, ~hasty' PROVE InNvs'
  <2>1. failures = 0 /\ ~hasty /\ ok
    BY <1>5, Failed DEF CommandInv, PersistPending
  <2>2. InNvs
    BY <2>1 DEF CommandInv, Handed
  <2>3. ReadyInNvs'
    BY <1>1, <2>1, <2>2 DEF InNvs, CommandInv, TypeOK, ReadyInNvs, PersistPending, Rest
  <2>4. RoundInNvs'
    BY <1>1, <2>1, <2>2 DEF InNvs, CommandInv, TypeOK, RoundInNvs, PersistPending, Rest
  <2>5. Ended'
    BY <1>1, <2>1, <2>2 DEF InNvs, CommandInv, TypeOK, Ended, PersistPending, Rest
  <2>6. AckedInNvs'
    BY <1>1, <2>1, <2>2 DEF InNvs, CommandInv, TypeOK, AckedInNvs, PersistPending, Rest
  <2> QED
    BY <2>3, <2>4, <2>5, <2>6 DEF InNvs
<1> QED
  BY <1>1, <1>2, <1>3, <1>4, <1>5 DEF CommandInv, Handed

LEMMA KeepsSetPn ==
  ASSUME CommandInv, TypeOK', NEW p \in PNs, NEW ok \in BOOLEAN, SetPn(p, ok)
  PROVE  CommandInv'
<1>1. /\ Place = "idle"
      /\ Place' = IF ok THEN "setString" ELSE "idle"
      /\ OneAtATime'
  BY DEF CommandInv, TypeOK, OneAtATime, Place, Goto, Tasks, SetPn, MayAccept
<1>2. RoundKnown'
  BY <1>1 DEF CommandInv, TypeOK, RoundKnown, SetPn, MayAccept
<1>3. StartKnown'
  BY <1>1 DEF CommandInv, TypeOK, StartKnown, SetPn, MayAccept
<1>4. ReadyKnown'
  BY <1>1 DEF CommandInv, TypeOK, ReadyKnown, SetPn, MayAccept
<1>5. ASSUME failures' = 0, ~hasty' PROVE InNvs'
  <2>1. failures = 0 /\ ~hasty /\ ok
    BY <1>5, Failed DEF CommandInv, SetPn
  <2>2. InNvs
    BY <2>1 DEF CommandInv, Handed
  <2>3. ReadyInNvs'
    BY <1>1, <2>1, <2>2, CommandAssumption DEF InNvs, CommandInv, TypeOK, ReadyInNvs, SetPn,
       MayAccept
  <2>4. RoundInNvs'
    BY <1>1, <2>1, <2>2 DEF InNvs, CommandInv, TypeOK, RoundInNvs, SetPn, MayAccept
  <2>5. Ended'
    BY <1>1, <2>1, <2>2, CommandAssumption DEF InNvs, CommandInv, TypeOK, Ended, ReadyKnown,
       SetPn, MayAccept
  <2>6. AckedInNvs'
    BY <1>1, <2>1, <2>2 DEF InNvs, CommandInv, TypeOK, AckedInNvs, SetPn, MayAccept
  <2> QED
    BY <2>3, <2>4, <2>5, <2>6 DEF InNvs
<1> QED
  BY <1>1, <1>2, <1>3, <1>4, <1>5 DEF CommandInv, Handed

LEMMA KeepsSetPnReply ==
  ASSUME CommandInv, TypeOK', NEW ok \in BOOLEAN, SetPnReply(ok)
  PROVE  CommandInv'
<1>1. /\ Place = "setReply"
      /\ Place' = IF cmd # "WAIT_PN" THEN "idle" ELSE IF json THEN "save" ELSE "consumePending"
      /\ OneAtATime'
  BY DEF CommandInv, TypeOK, OneAtATime, Place, Goto, Tasks, SetPnReply
<1>2. RoundKnown'
  BY <1>1 DEF CommandInv, TypeOK, RoundKnown, SetPnReply
<1>3. StartKnown'
  BY <1>1 DEF CommandInv, TypeOK, StartKnown, SetPnReply
<1>4. ReadyKnown'
  BY <1>1 DEF CommandInv, TypeOK, ReadyKnown, SetPnReply
<1>5. ASSUME failures' = 0, ~hasty' PROVE InNvs'
  <2>1. failures = 0 /\ ~hasty /\ ok
    BY <1>5, Failed DEF CommandInv, SetPnReply
  <2>2. InNvs
    BY <2>1 DEF CommandInv, Handed
  <2>3. /\ ctrl = "completeClear" \/ pn = NoPN
        /\ ~nvs.valid
        /\ ready # NoPN => nvs.flag /\ nvs.ready = ready
    BY <1>1, <2>2 DEF InNvs, CommandInv, TypeOK, ReadyInNvs, RoundInNvs, RoundKnown, ReadyKnown
  <2>4. ReadyInNvs'
    BY <1>1, <2>1, <2>2, <2>3 DEF InNvs, CommandInv, TypeOK, ReadyInNvs, SetPnReply
  <2>5. RoundInNvs'
    BY <1>1, <2>1, <2>2, <2>3 DEF InNvs, CommandInv, TypeOK, RoundInNvs, SetPnReply
  <2>6. Ended'
    BY <1>1, <2>1, <2>2, <2>3 DEF InNvs, CommandInv, TypeOK, Ended, SetPnReply
  <2>7. AckedInNvs'
    BY <1>1, <2>1, <2>2, <2>3 DEF InNvs, CommandInv, TypeOK, AckedInNvs, SetPnReply
  <2> QED
    BY <2>4, <2>5, <2>6, <2>7 DEF InNvs
<1> QED
  BY <1>1, <1>2, <1>3, <1>4, <1>5 DEF CommandInv, Handed

LEMMA KeepsStartAging ==
  ASSUME CommandInv, TypeOK', StartAging
  PROVE  CommandInv'
<1>1. /\ Place = "idle"
      /\ Place' = "save"
      /\ OneAtATime'
  BY DEF CommandInv, TypeOK, OneAtATime, Place, Goto, Tasks, StartAging, MayStart
<1>2. RoundKnown'
  BY <1>1 DEF CommandInv, TypeOK, RoundKnown, StartAging, MayStart
<1>3. StartKnown'
  BY <1>1 DEF CommandInv, TypeOK, StartKnown, StartAging, MayStart
<1>4. ReadyKnown'
  BY <1>1 DEF CommandInv, TypeOK, ReadyKnown, StartAging, MayStart
<1>5. ASSUME failures' = 0, ~hasty' PROVE InNvs'
  <2>1. failures = 0 /\ ~hasty
    BY <1>5 DEF StartAging
  <2>2. InNvs
    BY <2>1 DEF CommandInv, Handed
  <2>3. ReadyInNvs'
    BY <1>1, <2>1, <2>2 DEF InNvs, CommandInv, TypeOK, ReadyInNvs, StartAging, MayStart
  <2>4. RoundInNvs'
    BY <1>1, <2>1, <2>2 DEF InNvs, CommandInv, TypeOK, RoundInNvs, StartAging, MayStart
  <2>5. Ended'
    BY <1>1, <2>1, <2>2 DEF InNvs, CommandInv, TypeOK, Ended, StartAging, MayStart
  <2>6. AckedInNvs'
    BY <1>1, <2>1, <2>2 DEF InNvs, CommandInv, TypeOK, AckedInNvs, StartAging, MayStart
  <2> QED
    BY <2>3, <2>4, <2>5, <2>6 DEF InNvs
<1> QED
  BY <1>1, <1>2, <1>3, <1>4, <1>5 DEF CommandInv, Handed

LEMMA KeepsStartRejected ==
  ASSUME CommandInv, TypeOK', StartRejected
  PROVE  CommandInv'
<1>1. /\ Place = "idle"
      /\ Place' = "consumePending"
      /\ OneAtATime'
  BY DEF CommandInv, TypeOK, OneAtATime, Place, Goto, Tasks, StartRejected
<1>2. RoundKnown'
  BY <1>1 DEF CommandInv, TypeOK, RoundKnown, StartRejected
<1>3. StartKnown'
  BY <1>1 DEF CommandInv, TypeOK, StartKnown, StartRejected
<1>4. ReadyKnown'
  BY <1>1 DEF CommandInv, TypeOK, ReadyKnown, StartRejected
<1>5. ASSUME failures' = 0, ~hasty' PROVE InNvs'
  <2>1. failures = 0 /\ ~hasty
    BY <1>5 DEF StartRejected
  <2>2. InNvs
    BY <2>1 DEF CommandInv, Handed
  <2>3. ReadyInNvs'
    BY <1>1, <2>1, <2>2 DEF InNvs, CommandInv, TypeOK, ReadyInNvs, StartRejected
  <2>4. RoundInNvs'
    BY <1>1, <2>1, <2>2 DEF InNvs, CommandInv, TypeOK, RoundInNvs, StartRejected
  <2>5. Ended'
    BY <1>1, <2>1, <2>2 DEF InNvs, CommandInv, TypeOK, Ended, StartRejected
  <2>6. AckedInNvs'
    BY <1>1, <2>1, <2>2 DEF InNvs, CommandInv, TypeOK, AckedInNvs, StartRejected
  <2> QED
    BY <2>3, <2>4, <2>5, <2>6 DEF InNvs
<1> QED
  BY <1>1, <1>2, <1>3, <1>4, <1>5 DEF CommandInv, Handed

LEMMA KeepsStartSave ==
  ASSUME CommandInv, TypeOK', NEW w \in Tasks, NEW ok \in BOOLEAN, StartSave(w, ok)
  PROVE  CommandInv'
<1>1. /\ Place = "save"
      /\ IF ok THEN Place' = "copy" ELSE Place' \in {"idle", "over"}
      /\ OneAtATime'
  BY MovedPlace DEF CommandInv, StartSave, Places, Rest
<1>2. RoundKnown'
  BY <1>1 DEF CommandInv, TypeOK, RoundKnown, StartSave, Rest
<1>3. StartKnown'
  BY <1>1 DEF CommandInv, TypeOK, StartKnown, StartSave, Rest
<1>4. ReadyKnown'
  BY <1>1 DEF CommandInv, TypeOK, ReadyKnown, StartSave, Rest
<1>5. ASSUME failures' = 0, ~hasty' PROVE InNvs'
  <2>1. failures = 0 /\ ~hasty /\ ok
    BY <1>5, Failed DEF CommandInv, StartSave
  <2>2. InNvs
    BY <2>1 DEF CommandInv, Handed
  <2>3. ReadyInNvs'
    BY <1>1, <2>1, <2>2 DEF InNvs, CommandInv, TypeOK, ReadyInNvs, StartSave, Rest
  <2>4. RoundInNvs'
    BY <1>1, <2>1, <2>2 DEF InNvs, CommandInv, TypeOK, RoundInNvs, StartSave, Rest
  <2>5. Ended'
    BY <1>1, <2>1, <2>2 DEF InNvs, CommandInv, TypeOK, Ended, StartSave, Rest
  <2>6. AckedInNvs'
    BY <1>1, <2>1, <2>2 DEF InNvs, CommandInv, TypeOK, AckedInNvs, StartSave, Rest
  <2> QED
    BY <2>3, <2>4, <2>5, <2>6 DEF InNvs
<1> QED
  BY <1>1, <1>2, <1>3, <1>4, <1>5 DEF CommandInv, Handed

LEMMA KeepsStartCopy ==
  ASSUME CommandInv, TypeOK', NEW w \in Tasks, NEW ok \in BOOLEAN, StartCopy(w, ok)
  PROVE  CommandInv'
<1>1. /\ Place = "copy"
      /\ IF ok THEN Place' = "current" ELSE Place' \in {"idle", "over"}
      /\ OneAtATime'
  BY MovedPlace DEF CommandInv, StartCopy, Places, Rest
<1>2. RoundKnown'
  BY <1>1 DEF CommandInv, TypeOK, RoundKnown, StartCopy, Rest
<1>3. StartKnown'
  BY <1>1 DEF CommandInv, TypeOK, StartKnown, StartCopy, Rest
<1>4. ReadyKnown'
  BY <1>1 DEF CommandInv, TypeOK, ReadyKnown, StartCopy, Rest
<1>5. ASSUME failures' = 0, ~hasty' PROVE InNvs'
  <2>1. failures = 0 /\ ~hasty /\ ok
    BY <1>5, Failed DEF CommandInv, StartCopy
  <2>2. InNvs
    BY <2>1 DEF CommandInv, Handed
  <2>3. ReadyInNvs'
    BY <1>1, <2>1, <2>2 DEF InNvs, CommandInv, TypeOK, ReadyInNvs, StartCopy, Rest
  <2>4. RoundInNvs'
    BY <1>1, <2>1, <2>2 DEF InNvs, CommandInv, TypeOK, RoundInNvs, RoundKnown, StartCopy, Rest
  <2>5. Ended'
    BY <1>1, <2>1, <2>2 DEF InNvs, CommandInv, TypeOK, Ended, StartCopy, Rest
  <2>6. AckedInNvs'
    BY <1>1, <2>1, <2>2 DEF InNvs, CommandInv, TypeOK, AckedInNvs, StartCopy, Rest
  <2> QED
    BY <2>3, <2>4, <2>5, <2>6 DEF InNvs
<1> QED
  BY <1>1, <1>2, <1>3, <1>4, <1>5 DEF CommandInv, Handed

LEMMA KeepsStartCurrent ==
  ASSUME CommandInv, TypeOK', NEW w \in Tasks, NEW ok \in BOOLEAN, StartCurrent(w, ok)
  PROVE  CommandInv'
<1>1. /\ Place = "current"
      /\ IF ok THEN Place' = "cancelStart" ELSE Place' \in {"idle", "over"}
      /\ OneAtATime'
  BY MovedPlace DEF CommandInv, StartCurrent, Places, Rest
<1>2. RoundKnown'
  BY <1>1 DEF CommandInv, TypeOK, RoundKnown, StartCurrent, Rest
<1>3. StartKnown'
  BY <1>1 DEF CommandInv, TypeOK, StartKnown, StartCurrent, Rest
<1>4. ReadyKnown'
  BY <1>1 DEF CommandInv, TypeOK, ReadyKnown, StartCurrent, Rest
<1>5. ASSUME failures' = 0, ~hasty' PROVE InNvs'
  <2>1. failures = 0 /\ ~hasty /\ ok
    BY <1>5, Failed DEF CommandInv, StartCurrent
  <2>2. InNvs
    BY <2>1 DEF CommandInv, Handed
  <2>3. ReadyInNvs'
    BY <1>1, <2>1, <2>2 DEF InNvs, CommandInv, TypeOK, ReadyInNvs, StartCurrent, Rest
  <2>4. RoundInNvs'
    BY <1>1, <2>1, <2>2 DEF InNvs, CommandInv, TypeOK, RoundInNvs, StartCurrent, Rest
  <2>5. Ended'
    BY <1>1, <2>1, <2>2 DEF InNvs, CommandInv, TypeOK, Ended, RoundInNvs, StartCurrent, Rest
  <2>6. AckedInNvs'
    BY <1>1, <2>1, <2>2 DEF InNvs, CommandInv, TypeOK, AckedInNvs, RoundInNvs, StartCurrent, Rest
  <2> QED
    BY <2>3, <2>4, <2>5, <2>6 DEF InNvs
<1> QED
  BY <1>1, <1>2, <1>3, <1>4, <1>5 DEF CommandInv, Handed

LEMMA KeepsParseCancelRecovery ==
  ASSUME CommandInv, TypeOK', NEW w \in Tasks, ParseCancel(w), at[w] = "cancel"
  PROVE  CommandInv'
<1>1. /\ Place = "cancel"
      /\ Place' = "join"
      /\ OneAtATime'
  BY MovedPlace DEF CommandInv, ParseCancel, Places, ForStart
<1>2. RoundKnown'
  BY <1>1 DEF CommandInv, TypeOK, RoundKnown, ParseCancel, ForStart
<1>3. StartKnown'
  BY <1>1 DEF CommandInv, TypeOK, StartKnown, ParseCancel, ForStart
<1>4. ReadyKnown'
  BY <1>1 DEF CommandInv, TypeOK, ReadyKnown, ParseCancel, ForStart
<1>5. ASSUME failures' = 0, ~hasty' PROVE InNvs'
  <2>1. failures = 0 /\ ~hasty
    BY <1>5 DEF ParseCancel
  <2>2. InNvs
    BY <2>1 DEF CommandInv, Handed
  <2>3. ReadyInNvs'
    BY <1>1, <2>1, <2>2 DEF InNvs, CommandInv, TypeOK, ReadyInNvs, ParseCancel, ForStart
  <2>4. RoundInNvs'
    BY <1>1, <2>1, <2>2 DEF InNvs, CommandInv, TypeOK, RoundInNvs, ParseCancel, ForStart
  <2>5. Ended'
    BY <1>1, <2>1, <2>2 DEF InNvs, CommandInv, TypeOK, Ended, ParseCancel, ForStart
  <2>6. AckedInNvs'
    BY <1>1, <2>1, <2>2 DEF InNvs, CommandInv, TypeOK, AckedInNvs, ParseCancel, ForStart
  <2> QED
    BY <2>3, <2>4, <2>5, <2>6 DEF InNvs
<1> QED
  BY <1>1, <1>2, <1>3, <1>4, <1>5 DEF CommandInv, Handed

LEMMA KeepsParseCancelStart ==
  ASSUME CommandInv, TypeOK', NEW w \in Tasks, ParseCancel(w), at[w] = "cancelStart"
  PROVE  CommandInv'
<1>1. /\ Place = "cancelStart"
      /\ Place' = "joinStart"
      /\ OneAtATime'
  BY MovedPlace DEF CommandInv, ParseCancel, Places, ForStart
<1>2. RoundKnown'
  BY <1>1 DEF CommandInv, TypeOK, RoundKnown, ParseCancel, ForStart
<1>3. StartKnown'
  BY <1>1 DEF CommandInv, TypeOK, StartKnown, ParseCancel, ForStart
<1>4. ReadyKnown'
  BY <1>1 DEF CommandInv, TypeOK, ReadyKnown, ParseCancel, ForStart
<1>5. ASSUME failures' = 0, ~hasty' PROVE InNvs'
  <2>1. failures = 0 /\ ~hasty
    BY <1>5 DEF ParseCancel
  <2>2. InNvs
    BY <2>1 DEF CommandInv, Handed
  <2>3. ReadyInNvs'
    BY <1>1, <2>1, <2>2 DEF InNvs, CommandInv, TypeOK, ReadyInNvs, ParseCancel, ForStart
  <2>4. RoundInNvs'
    BY <1>1, <2>1, <2>2 DEF InNvs, CommandInv, TypeOK, RoundInNvs, ParseCancel, ForStart
  <2>5. Ended'
    BY <1>1, <2>1, <2>2 DEF InNvs, CommandInv, TypeOK, Ended, ParseCancel, ForStart
  <2>6. AckedInNvs'
    BY <1>1, <2>1, <2>2 DEF InNvs, CommandInv, TypeOK, AckedInNvs, ParseCancel, ForStart
  <2> QED
    BY <2>3, <2>4, <2>5, <2>6 DEF InNvs
<1> QED
  BY <1>1, <1>2, <1>3, <1>4, <1>5 DEF CommandInv, Handed

LEMMA KeepsParseJoinRecovery ==
  ASSUME CommandInv, TypeOK', NEW w \in Tasks, NEW begun \in BOOLEAN, ParseJoin(w, begun),
         at[w] = "join"
  PROVE  CommandInv'
<1>1. /\ Place = "join"
      /\ Place' = IF begun THEN "prepare" ELSE "failed"
      /\ OneAtATime'
  BY MovedPlace DEF CommandInv, ParseJoin, Places, ForStart, Failing
<1>2. RoundKnown'
  BY <1>1 DEF CommandInv, TypeOK, RoundKnown, ParseJoin, ForStart, Failing
<1>3. StartKnown'
  BY <1>1 DEF CommandInv, TypeOK, StartKnown, ParseJoin, ForStart, Failing
<1>4. ReadyKnown'
  BY <1>1 DEF CommandInv, TypeOK, ReadyKnown, ParseJoin, ForStart, Failing
<1>5. ASSUME failures' = 0, ~hasty' PROVE InNvs'
  <2>1. failures = 0 /\ ~hasty
    BY <1>5 DEF ParseJoin
  <2>2. InNvs
    BY <2>1 DEF CommandInv, Handed
  <2>3. ReadyInNvs'
    BY <1>1, <2>1, <2>2 DEF InNvs, CommandInv, TypeOK, ReadyInNvs, ParseJoin, ForStart, Failing
  <2>4. RoundInNvs'
    BY <1>1, <2>1, <2>2 DEF InNvs, CommandInv, TypeOK, RoundInNvs, ParseJoin, ForStart, Failing
  <2>5. Ended'
    BY <1>1, <2>1, <2>2 DEF InNvs, CommandInv, TypeOK, Ended, ParseJoin, ForStart, Failing
  <2>6. AckedInNvs'
    BY <1>1, <2>1, <2>2 DEF InNvs, CommandInv, TypeOK, AckedInNvs, ParseJoin, ForStart, Failing
  <2> QED
    BY <2>3, <2>4, <2>5, <2>6 DEF InNvs
<1> QED
  BY <1>1, <1>2, <1>3, <1>4, <1>5 DEF CommandInv, Handed

LEMMA KeepsParseJoinStart ==
  ASSUME CommandInv, TypeOK', NEW w \in Tasks, NEW begun \in BOOLEAN, ParseJoin(w, begun),
         at[w] = "joinStart"
  PROVE  CommandInv'
<1>1. /\ Place = "joinStart"
      /\ Place' = IF begun THEN "prepareStart" ELSE "failedStart"
      /\ OneAtATime'
  BY MovedPlace DEF CommandInv, ParseJoin, Places, ForStart, Failing
<1>2. RoundKnown'
  BY <1>1 DEF CommandInv, TypeOK, RoundKnown, ParseJoin, ForStart, Failing
<1>3. StartKnown'
  BY <1>1 DEF CommandInv, TypeOK, StartKnown, ParseJoin, ForStart, Failing
<1>4. ReadyKnown'
  BY <1>1 DEF CommandInv, TypeOK, ReadyKnown, ParseJoin, ForStart, Failing
<1>5. ASSUME failures' = 0, ~hasty' PROVE InNvs'
  <2>1. failures = 0 /\ ~hasty
    BY <1>5 DEF ParseJoin
  <2>2. InNvs
    BY <2>1 DEF CommandInv, Handed
  <2>3. ReadyInNvs'
    BY <1>1, <2>1, <2>2 DEF InNvs, CommandInv, TypeOK, ReadyInNvs, ParseJoin, ForStart, Failing
  <2>4. RoundInNvs'
    BY <1>1, <2>1, <2>2 DEF InNvs, CommandInv, TypeOK, RoundInNvs, ParseJoin, ForStart, Failing
  <2>5. Ended'
    BY <1>1, <2>1, <2>2 DEF InNvs, CommandInv, TypeOK, Ended, ParseJoin, ForStart, Failing
  <2>6. AckedInNvs'
    BY <1>1, <2>1, <2>2 DEF InNvs, CommandInv, TypeOK, AckedInNvs, ParseJoin, ForStart, Failing
  <2> QED
    BY <2>3, <2>4, <2>5, <2>6 DEF InNvs
<1> QED
  BY <1>1, <1>2, <1>3, <1>4, <1>5 DEF CommandInv, Handed

LEMMA KeepsParseTimeoutRecovery ==
  ASSUME CommandInv, TypeOK', NEW w \in Tasks, ParseTimeout(w), at[w] = "join"
  PROVE  CommandInv'
<1>1. /\ Place = "join"
      /\ Place' = "failed"
      /\ OneAtATime'
  BY MovedPlace DEF CommandInv, ParseTimeout, Places, ForStart, Failing
<1>2. RoundKnown'
  BY <1>1 DEF CommandInv, TypeOK, RoundKnown, ParseTimeout, ForStart, Failing
<1>3. StartKnown'
  BY <1>1 DEF CommandInv, TypeOK, StartKnown, ParseTimeout, ForStart, Failing
<1>4. ReadyKnown'
  BY <1>1 DEF CommandInv, TypeOK, ReadyKnown, ParseTimeout, ForStart, Failing
<1>5. ASSUME failures' = 0, ~hasty' PROVE InNvs'
  <2>1. failures = 0 /\ ~hasty
    BY <1>5 DEF ParseTimeout
  <2>2. InNvs
    BY <2>1 DEF CommandInv, Handed
  <2>3. ReadyInNvs'
    BY <1>1, <2>1, <2>2 DEF InNvs, CommandInv, TypeOK, ReadyInNvs, ParseTimeout, ForStart, Failing
  <2>4. RoundInNvs'
    BY <1>1, <2>1, <2>2 DEF InNvs, CommandInv, TypeOK, RoundInNvs, ParseTimeout, ForStart, Failing
  <2>5. Ended'
    BY <1>1, <2>1, <2>2 DEF InNvs, CommandInv, TypeOK, Ended, ParseTimeout, ForStart, Failing
  <2>6. AckedInNvs'
    BY <1>1, <2>1, <2>2 DEF InNvs, CommandInv, TypeOK, AckedInNvs, ParseTimeout, ForStart, Failing
  <2> QED
    BY <2>3, <2>4, <2>5, <2>6 DEF InNvs
<1> QED
  BY <1>1, <1>2, <1>3, <1>4, <1>5 DEF CommandInv, Handed

LEMMA KeepsParseTimeoutStart ==
  ASSUME CommandInv, TypeOK', NEW w \in Tasks, ParseTimeout(w), at[w] = "joinStart"
  PROVE  CommandInv'
<1>1. /\ Place = "joinStart"
      /\ Place' = "failedStart"
      /\ OneAtATime'
  BY MovedPlace DEF CommandInv, ParseTimeout, Places, ForStart, Failing
<1>2. RoundKnown'
  BY <1>1 DEF CommandInv, TypeOK, RoundKnown, ParseTimeout, ForStart, Failing
<1>3. StartKnown'
  BY <1>1 DEF CommandInv, TypeOK, StartKnown, ParseTimeout, ForStart, Failing
<1>4. ReadyKnown'
  BY <1>1 DEF CommandInv, TypeOK, ReadyKnown, ParseTimeout, ForStart, Failing
<1>5. ASSUME failures' = 0, ~hasty' PROVE InNvs'
  <2>1. failures = 0 /\ ~hasty
    BY <1>5 DEF ParseTimeout
  <2>2. InNvs
    BY <2>1 DEF CommandInv, Handed
  <2>3. ReadyInNvs'
    BY <1>1, <2>1, <2>2 DEF InNvs, CommandInv, TypeOK, ReadyInNvs, ParseTimeout, ForStart, Failing
  <2>4. RoundInNvs'
    BY <1>1, <2>1, <2>2 DEF InNvs, CommandInv, TypeOK, RoundInNvs, ParseTimeout, ForStart, Failing
  <2>5. Ended'
    BY <1>1, <2>1, <2>2 DEF InNvs, CommandInv, TypeOK, Ended, ParseTimeout, ForStart, Failing
  <2>6. AckedInNvs'
    BY <1>1, <2>1, <2>2 DEF InNvs, CommandInv, TypeOK, AckedInNvs, ParseTimeout, ForStart, Failing
  <2> QED
    BY <2>3, <2>4, <2>5, <2>6 DEF InNvs
<1> QED
  BY <1>1, <1>2, <1>3, <1>4, <1>5 DEF CommandInv, Handed

LEMMA KeepsParseFailRecovery ==
  ASSUME CommandInv, TypeOK', NEW w \in Tasks, ParseFail(w), at[w] = "prepare"
  PROVE  CommandInv'
<1>1. /\ Place = "prepare"
      /\ Place' = "failed"
      /\ OneAtATime'
  BY MovedPlace DEF CommandInv, ParseFail, Places, ForStart, Failing
<1>2. RoundKnown'
  BY <1>1 DEF CommandInv, TypeOK, RoundKnown, ParseFail, ForStart, Failing
<1>3. StartKnown'
  BY <1>1 DEF CommandInv, TypeOK, StartKnown, ParseFail, ForStart, Failing
<1>4. ReadyKnown'
  BY <1>1 DEF CommandInv, TypeOK, ReadyKnown, ParseFail, ForStart, Failing
<1>5. ASSUME failures' = 0, ~hasty' PROVE InNvs'
  <2>1. failures = 0 /\ ~hasty
    BY <1>5 DEF ParseFail
  <2>2. InNvs
    BY <2>1 DEF CommandInv, Handed
  <2>3. ReadyInNvs'
    BY <1>1, <2>1, <2>2 DEF InNvs, CommandInv, TypeOK, ReadyInNvs, ParseFail, ForStart, Failing
  <2>4. RoundInNvs'
    BY <1>1, <2>1, <2>2 DEF InNvs, CommandInv, TypeOK, RoundInNvs, ParseFail, ForStart, Failing
  <2>5. Ended'
    BY <1>1, <2>1, <2>2 DEF InNvs, CommandInv, TypeOK, Ended, ParseFail, ForStart, Failing
  <2>6. AckedInNvs'
    BY <1>1, <2>1, <2>2 DEF InNvs, CommandInv, TypeOK, AckedInNvs, ParseFail, ForStart, Failing
  <2> QED
    BY <2>3, <2>4, <2>5, <2>6 DEF InNvs
<1> QED
  BY <1>1, <1>2, <1>3, <1>4, <1>5 DEF CommandInv, Handed

LEMMA KeepsParseFailStart ==
  ASSUME CommandInv, TypeOK', NEW w \in Tasks, ParseFail(w), at[w] = "prepareStart"
  PROVE  CommandInv'
<1>1. /\ Place = "prepareStart"
      /\ Place' = "failedStart"
      /\ OneAtATime'
  BY MovedPlace DEF CommandInv, ParseFail, Places, ForStart, Failing
<1>2. RoundKnown'
  BY <1>1 DEF CommandInv, TypeOK, RoundKnown, ParseFail, ForStart, Failing
<1>3. StartKnown'
  BY <1>1 DEF CommandInv, TypeOK, StartKnown, ParseFail, ForStart, Failing
<1>4. ReadyKnown'
  BY <1>1 DEF CommandInv, TypeOK, ReadyKnown, ParseFail, ForStart, Failing
<1>5. ASSUME failures' = 0, ~hasty' PROVE InNvs'
  <2>1. failures = 0 /\ ~hasty
    BY <1>5 DEF ParseFail
  <2>2. InNvs
    BY <2>1 DEF CommandInv, Handed
  <2>3. ReadyInNvs'
    BY <1>1, <2>1, <2>2 DEF InNvs, CommandInv, TypeOK, ReadyInNvs, ParseFail, ForStart, Failing
  <2>4. RoundInNvs'
    BY <1>1, <2>1, <2>2 DEF InNvs, CommandInv, TypeOK, RoundInNvs, ParseFail, ForStart, Failing
  <2>5. Ended'
    BY <1>1, <2>1, <2>2 DEF InNvs, CommandInv, TypeOK, Ended, ParseFail, ForStart, Failing
  <2>6. AckedInNvs'
    BY <1>1, <2>1, <2>2 DEF InNvs, CommandInv, TypeOK, AckedInNvs, ParseFail, ForStart, Failing
  <2> QED
    BY <2>3, <2>4, <2>5, <2>6 DEF InNvs
<1> QED
  BY <1>1, <1>2, <1>3, <1>4, <1>5 DEF CommandInv, Handed

LEMMA KeepsParseCreateRecovery ==
  ASSUME CommandInv, TypeOK', NEW w \in Tasks, ParseCreate(w), at[w] = "prepare"
  PROVE  CommandInv'
<1>1. /\ Place = "prepare"
      /\ Place' = "created"
      /\ OneAtATime'
  BY MovedPlace DEF CommandInv, ParseCreate, Places, ForStart
<1>2. RoundKnown'
  BY <1>1 DEF CommandInv, TypeOK, RoundKnown, StartKnown, TargetFits, ParseCreate, ForStart
<1>3. StartKnown'
  BY <1>1 DEF CommandInv, TypeOK, StartKnown, ParseCreate, ForStart
<1>4. ReadyKnown'
  BY <1>1 DEF CommandInv, TypeOK, ReadyKnown, ParseCreate, ForStart
<1>5. ASSUME failures' = 0, ~hasty' PROVE InNvs'
  <2>1. failures = 0 /\ ~hasty
    BY <1>5 DEF ParseCreate
  <2>2. InNvs
    BY <2>1 DEF CommandInv, Handed
  <2>3. ReadyInNvs'
    BY <1>1, <2>1, <2>2 DEF InNvs, CommandInv, TypeOK, ReadyInNvs, ParseCreate, ForStart
  <2>4. RoundInNvs'
    BY <1>1, <2>1, <2>2 DEF InNvs, CommandInv, TypeOK, RoundInNvs, RoundKnown, StartKnown,
       ParseCreate, ForStart
  <2>5. Ended'
    BY <1>1, <2>1, <2>2, CommandAssumption DEF InNvs, CommandInv, TypeOK, Ended, ReadyInNvs,
       RoundInNvs, RoundKnown, StartKnown, ReadyKnown, AckedInNvs, ParseCreate, ForStart
  <2>6. AckedInNvs'
    BY <1>1, <2>1, <2>2 DEF InNvs, CommandInv, TypeOK, AckedInNvs, ParseCreate, ForStart
  <2> QED
    BY <2>3, <2>4, <2>5, <2>6 DEF InNvs
<1> QED
  BY <1>1, <1>2, <1>3, <1>4, <1>5 DEF CommandInv, Handed

LEMMA KeepsParseCreateStart ==
  ASSUME CommandInv, TypeOK', NEW w \in Tasks, ParseCreate(w), at[w] = "prepareStart"
  PROVE  CommandInv'
<1>1. /\ Place = "prepareStart"
      /\ Place' = "createdStart"
      /\ OneAtATime'
  BY MovedPlace DEF CommandInv, ParseCreate, Places, ForStart
<1>2. RoundKnown'
  BY <1>1 DEF CommandInv, TypeOK, RoundKnown, StartKnown, TargetFits, ParseCreate, ForStart
<1>3. StartKnown'
  BY <1>1 DEF CommandInv, TypeOK, StartKnown, ParseCreate, ForStart
<1>4. ReadyKnown'
  BY <1>1 DEF CommandInv, TypeOK, ReadyKnown, ParseCreate, ForStart
<1>5. ASSUME failures' = 0, ~hasty' PROVE InNvs'
  <2>1. failures = 0 /\ ~hasty
    BY <1>5 DEF ParseCreate
  <2>2. InNvs
    BY <2>1 DEF CommandInv, Handed
  <2>3. ReadyInNvs'
    BY <1>1, <2>1, <2>2 DEF InNvs, CommandInv, TypeOK, ReadyInNvs, ParseCreate, ForStart
  <2>4. RoundInNvs'
    BY <1>1, <2>1, <2>2, CommandAssumption DEF InNvs, CommandInv, TypeOK, RoundInNvs, ReadyInNvs,
       RoundKnown, StartKnown, ReadyKnown, ParseCreate, ForStart
  <2>5. Ended'
    BY <1>1, <2>1, <2>2, CommandAssumption DEF InNvs, CommandInv, TypeOK, Ended, ReadyInNvs,
       ParseCreate, ForStart
  <2>6. AckedInNvs'
    BY <1>1, <2>1, <2>2 DEF InNvs, CommandInv, TypeOK, AckedInNvs, ParseCreate, ForStart
  <2> QED
    BY <2>3, <2>4, <2>5, <2>6 DEF InNvs
<1> QED
  BY <1>1, <1>2, <1>3, <1>4, <1>5 DEF CommandInv, Handed

LEMMA KeepsStartFailedRecovery ==
  ASSUME CommandInv, TypeOK', NEW w \in Tasks, NEW ok \in BOOLEAN, StartFailed(w, ok),
         at[w] = "failed"
  PROVE  CommandInv'
<1>1. /\ Place = "failed"
      /\ Place' = "undo"
      /\ OneAtATime'
  BY MovedPlace DEF CommandInv, StartFailed, Places, ForStart
<1>2. RoundKnown'
  BY <1>1 DEF CommandInv, TypeOK, RoundKnown, StartFailed, ForStart
<1>3. StartKnown'
  BY <1>1 DEF CommandInv, TypeOK, StartKnown, StartFailed, ForStart
<1>4. ReadyKnown'
  BY <1>1 DEF CommandInv, TypeOK, ReadyKnown, StartFailed, ForStart
<1>5. ASSUME failures' = 0, ~hasty' PROVE InNvs'
  <2>1. failures = 0 /\ ~hasty /\ ok
    BY <1>5, Failed DEF CommandInv, StartFailed
  <2>2. InNvs
    BY <2>1 DEF CommandInv, Handed
  <2>3. ReadyInNvs'
    BY <1>1, <2>1, <2>2 DEF InNvs, CommandInv, TypeOK, ReadyInNvs, StartFailed, ForStart
  <2>4. RoundInNvs'
    BY <1>1, <2>1, <2>2 DEF InNvs, CommandInv, TypeOK, RoundInNvs, StartFailed, ForStart
  <2>5. Ended'
    BY <1>1, <2>1, <2>2, CommandAssumption DEF InNvs, CommandInv, TypeOK, Ended, ReadyInNvs,
       RoundInNvs, ReadyKnown, RoundKnown, StartFailed, ForStart
  <2>6. AckedInNvs'
    BY <1>1, <2>1, <2>2 DEF InNvs, CommandInv, TypeOK, AckedInNvs, StartFailed, ForStart
  <2> QED
    BY <2>3, <2>4, <2>5, <2>6 DEF InNvs
<1> QED
  BY <1>1, <1>2, <1>3, <1>4, <1>5 DEF CommandInv, Handed

LEMMA KeepsStartFailedStart ==
  ASSUME CommandInv, TypeOK', NEW w \in Tasks, NEW ok \in BOOLEAN, StartFailed(w, ok),
         at[w] = "failedStart"
  PROVE  CommandInv'
<1>1. /\ Place = "failedStart"
      /\ Place' = "undoStart"
      /\ OneAtATime'
  BY MovedPlace DEF CommandInv, StartFailed, Places, ForStart
<1>2. RoundKnown'
  BY <1>1 DEF CommandInv, TypeOK, RoundKnown, StartFailed, ForStart
<1>3. StartKnown'
  BY <1>1 DEF CommandInv, TypeOK, StartKnown, StartFailed, ForStart
<1>4. ReadyKnown'
  BY <1>1 DEF CommandInv, TypeOK, ReadyKnown, StartFailed, ForStart
<1>5. ASSUME failures' = 0, ~hasty' PROVE InNvs'
  <2>1. failures = 0 /\ ~hasty /\ ok
    BY <1>5, Failed DEF CommandInv, StartFailed
  <2>2. InNvs
    BY <2>1 DEF CommandInv, Handed
  <2>3. ReadyInNvs'
    BY <1>1, <2>1, <2>2 DEF InNvs, CommandInv, TypeOK, ReadyInNvs, StartFailed, ForStart
  <2>4. RoundInNvs'
    BY <1>1, <2>1, <2>2 DEF InNvs, CommandInv, TypeOK, RoundInNvs, RoundKnown, StartFailed, ForStart
  <2>5. Ended'
    BY <1>1, <2>1, <2>2, CommandAssumption DEF InNvs, CommandInv, TypeOK, Ended, RoundInNvs,
       RoundKnown, StartFailed, ForStart
  <2>6. AckedInNvs'
    BY <1>1, <2>1, <2>2 DEF InNvs, CommandInv, TypeOK, AckedInNvs, StartFailed, ForStart
  <2> QED
    BY <2>3, <2>4, <2>5, <2>6 DEF InNvs
<1> QED
  BY <1>1, <1>2, <1>3, <1>4, <1>5 DEF CommandInv, Handed

LEMMA KeepsStartUndoneRecovery ==
  ASSUME CommandInv, TypeOK', NEW w \in Tasks, NEW ok \in BOOLEAN, StartUndone(w, ok),
         at[w] = "undo"
  PROVE  CommandInv'
<1>1. /\ Place = "undo"
      /\ Place' \in {"idle", "over"}
      /\ OneAtATime'
  BY MovedPlace DEF CommandInv, StartUndone, Places, ForStart, Rest
<1>2. RoundKnown'
  BY <1>1 DEF CommandInv, TypeOK, RoundKnown, StartUndone, ForStart, Rest
<1>3. StartKnown'
  BY <1>1 DEF CommandInv, TypeOK, StartKnown, StartUndone, ForStart, Rest
<1>4. ReadyKnown'
  BY <1>1 DEF CommandInv, TypeOK, ReadyKnown, StartKnown, StartUndone, ForStart, Rest
<1>5. ASSUME failures' = 0, ~hasty' PROVE InNvs'
  <2>1. failures = 0 /\ ~hasty /\ ok
    BY <1>5, Failed DEF CommandInv, StartUndone
  <2>2. InNvs
    BY <2>1 DEF CommandInv, Handed
  <2>3. ReadyInNvs'
    BY <1>1, <2>1, <2>2 DEF InNvs, CommandInv, TypeOK, ReadyInNvs, StartKnown, StartUndone,
       ForStart, Rest
  <2>4. RoundInNvs'
    BY <1>1, <2>1, <2>2 DEF InNvs, CommandInv, TypeOK, RoundInNvs, RoundKnown, StartUndone,
       ForStart, Rest
  <2>5. Ended'
    BY <1>1, <2>1, <2>2, CommandAssumption DEF InNvs, CommandInv, TypeOK, Ended, StartUndone,
       ForStart, Rest
  <2>6. AckedInNvs'
    BY <1>1, <2>1, <2>2 DEF InNvs, CommandInv, TypeOK, AckedInNvs, RoundInNvs, RoundKnown,
       StartUndone, ForStart, Rest
  <2> QED
    BY <2>3, <2>4, <2>5, <2>6 DEF InNvs
<1> QED
  BY <1>1, <1>2, <1>3, <1>4, <1>5 DEF CommandInv, Handed

LEMMA KeepsStartUndoneStart ==
  ASSUME CommandInv, TypeOK', NEW w \in Tasks, NEW ok \in BOOLEAN, StartUndone(w, ok),
         at[w] = "undoStart"
  PROVE  CommandInv'
<1>1. /\ Place = "undoStart"
      /\ Place' = "consumePending"
      /\ OneAtATime'
  BY MovedPlace DEF CommandInv, StartUndone, Places, ForStart, Rest
<1>2. RoundKnown'
  BY <1>1 DEF CommandInv, TypeOK, RoundKnown, StartUndone, ForStart, Rest
<1>3. StartKnown'
  BY <1>1 DEF CommandInv, TypeOK, StartKnown, StartUndone, ForStart, Rest
<1>4. ReadyKnown'
  BY <1>1 DEF CommandInv, TypeOK, ReadyKnown, StartKnown, StartUndone, ForStart, Rest
<1>5. ASSUME failures' = 0, ~hasty' PROVE InNvs'
  <2>1. failures = 0 /\ ~hasty /\ ok
    BY <1>5, Failed DEF CommandInv, StartUndone
  <2>2. InNvs
    BY <2>1 DEF CommandInv, Handed
  <2>3. ReadyInNvs'
    BY <1>1, <2>1, <2>2 DEF InNvs, CommandInv, TypeOK, ReadyInNvs, StartKnown, StartUndone,
       ForStart, Rest
  <2>4. RoundInNvs'
    BY <1>1, <2>1, <2>2 DEF InNvs, CommandInv, TypeOK, RoundInNvs, StartUndone, ForStart, Rest
  <2>5. Ended'
    BY <1>1, <2>1, <2>2 DEF InNvs, CommandInv, TypeOK, Ended, StartUndone, ForStart, Rest
  <2>6. AckedInNvs'
    BY <1>1, <2>1, <2>2 DEF InNvs, CommandInv, TypeOK, AckedInNvs, RoundInNvs, RoundKnown,
       StartUndone, ForStart, Rest
  <2> QED
    BY <2>3, <2>4, <2>5, <2>6 DEF InNvs
<1> QED
  BY <1>1, <1>2, <1>3, <1>4, <1>5 DEF CommandInv, Handed

LEMMA KeepsStartRuns ==
  ASSUME CommandInv, TypeOK', NEW w \in Tasks, StartRuns(w)
  PROVE  CommandInv'
<1>1. /\ Place = "createdStart"
      /\ Place' = "recordPn"
      /\ OneAtATime'
  BY MovedPlace DEF CommandInv, StartRuns, Places
<1>2. RoundKnown'
  BY <1>1 DEF CommandInv, TypeOK, RoundKnown, StartRuns
<1>3. StartKnown'
  BY <1>1 DEF CommandInv, TypeOK, StartKnown, StartRuns
<1>4. ReadyKnown'
  BY <1>1 DEF CommandInv, TypeOK, ReadyKnown, StartRuns
<1>5. ASSUME failures' = 0, ~hasty' PROVE InNvs'
  <2>1. failures = 0 /\ ~hasty
    BY <1>5 DEF StartRuns
  <2>2. InNvs
    BY <2>1 DEF CommandInv, Handed
  <2>3. ReadyInNvs'
    BY <1>1, <2>1, <2>2 DEF InNvs, CommandInv, TypeOK, ReadyInNvs, StartRuns
  <2>4. RoundInNvs'
    BY <1>1, <2>1, <2>2 DEF InNvs, CommandInv, TypeOK, RoundInNvs, StartRuns
  <2>5. Ended'
    BY <1>1, <2>1, <2>2 DEF InNvs, CommandInv, TypeOK, Ended, StartRuns
  <2>6. AckedInNvs'
    BY <1>1, <2>1, <2>2 DEF InNvs, CommandInv, TypeOK, AckedInNvs, StartRuns
  <2> QED
    BY <2>3, <2>4, <2>5, <2>6 DEF InNvs
<1> QED
  BY <1>1, <1>2, <1>3, <1>4, <1>5 DEF CommandInv, Handed

LEMMA KeepsRecordPn ==
  ASSUME CommandInv, TypeOK', NEW w \in Tasks, NEW ok \in BOOLEAN, RecordPn(w, ok)
  PROVE  CommandInv'
<1>1. /\ Place = "recordPn"
      /\ Place' = "recordValid"
      /\ OneAtATime'
  BY MovedPlace DEF CommandInv, RecordPn, Places
<1>2. RoundKnown'
  BY <1>1 DEF CommandInv, TypeOK, RoundKnown, RecordPn
<1>3. StartKnown'
  BY <1>1 DEF CommandInv, TypeOK, StartKnown, RecordPn
<1>4. ReadyKnown'
  BY <1>1 DEF CommandInv, TypeOK, ReadyKnown, RecordPn
<1>5. ASSUME failures' = 0, ~hasty' PROVE InNvs'
  <2>1. failures = 0 /\ ~hasty /\ ok
    BY <1>5, Failed DEF CommandInv, RecordPn
  <2>2. InNvs
    BY <2>1 DEF CommandInv, Handed
  <2>3. ReadyInNvs'
    BY <1>1, <2>1, <2>2 DEF InNvs, CommandInv, TypeOK, ReadyInNvs, RecordPn
  <2>4. RoundInNvs'
    BY <1>1, <2>1, <2>2 DEF InNvs, CommandInv, TypeOK, RoundInNvs, RecordPn
  <2>5. Ended'
    BY <1>1, <2>1, <2>2 DEF InNvs, CommandInv, TypeOK, Ended, RoundInNvs, RecordPn
  <2>6. AckedInNvs'
    BY <1>1, <2>1, <2>2 DEF InNvs, CommandInv, TypeOK, AckedInNvs, RoundInNvs, RecordPn
  <2> QED
    BY <2>3, <2>4, <2>5, <2>6 DEF InNvs
<1> QED
  BY <1>1, <1>2, <1>3, <1>4, <1>5 DEF CommandInv, Handed

LEMMA KeepsRecordValid ==
  ASSUME CommandInv, TypeOK', NEW w \in Tasks, NEW ok \in BOOLEAN, RecordValid(w, ok)
  PROVE  CommandInv'
<1>1. /\ Place = "recordValid"
      /\ Place' = "consumeString"
      /\ OneAtATime'
  BY MovedPlace DEF CommandInv, RecordValid, Places
<1>2. RoundKnown'
  BY <1>1 DEF CommandInv, TypeOK, RoundKnown, RecordValid
<1>3. StartKnown'
  BY <1>1 DEF CommandInv, TypeOK, StartKnown, RecordValid
<1>4. ReadyKnown'
  BY <1>1 DEF CommandInv, TypeOK, ReadyKnown, RecordValid
<1>5. ASSUME failures' = 0, ~hasty' PROVE InNvs'
  <2>1. failures = 0 /\ ~hasty /\ ok
    BY <1>5, Failed DEF CommandInv, RecordValid
  <2>2. InNvs
    BY <2>1 DEF CommandInv, Handed
  <2>3. ReadyInNvs'
    BY <1>1, <2>1, <2>2 DEF InNvs, CommandInv, TypeOK, ReadyInNvs, RoundInNvs, RecordValid
  <2>4. RoundInNvs'
    BY <1>1, <2>1, <2>2 DEF InNvs, CommandInv, TypeOK, RoundInNvs, RoundKnown, RecordValid
  <2>5. Ended'
    BY <1>1, <2>1, <2>2, CommandAssumption DEF InNvs, CommandInv, TypeOK, Ended, RoundInNvs,
       RoundKnown, RecordValid
  <2>6. AckedInNvs'
    BY <1>1, <2>1, <2>2 DEF InNvs, CommandInv, TypeOK, AckedInNvs, RecordValid
  <2> QED
    BY <2>3, <2>4, <2>5, <2>6 DEF InNvs
<1> QED
  BY <1>1, <1>2, <1>3, <1>4, <1>5 DEF CommandInv, Handed

LEMMA KeepsStopAging ==
  ASSUME CommandInv, TypeOK', StopAging
  PROVE  CommandInv'
<1>1. /\ Place = "idle"
      /\ Place' = "stopJoin"
      /\ OneAtATime'
  BY DEF CommandInv, TypeOK, OneAtATime, Place, Goto, Tasks, StopAging
<1>2. RoundKnown'
  BY <1>1 DEF CommandInv, TypeOK, RoundKnown, StopAging
<1>3. StartKnown'
  BY <1>1 DEF CommandInv, TypeOK, StartKnown, StopAging
<1>4. ReadyKnown'
  BY <1>1 DEF CommandInv, TypeOK, ReadyKnown, StopAging
<1>5. ASSUME failures' = 0, ~hasty' PROVE InNvs'
  <2>1. failures = 0 /\ ~hasty
    BY <1>5 DEF StopAging
  <2>2. InNvs
    BY <2>1 DEF CommandInv, Handed
  <2>3. ReadyInNvs'
    BY <1>1, <2>1, <2>2 DEF InNvs, CommandInv, TypeOK, ReadyInNvs, StopAging
  <2>4. RoundInNvs'
    BY <1>1, <2>1, <2>2 DEF InNvs, CommandInv, TypeOK, RoundInNvs, StopAging
  <2>5. Ended'
    BY <1>1, <2>1, <2>2 DEF InNvs, CommandInv, TypeOK, Ended, StopAging
  <2>6. AckedInNvs'
    BY <1>1, <2>1, <2>2 DEF InNvs, CommandInv, TypeOK, AckedInNvs, StopAging
  <2> QED
    BY <2>3, <2>4, <2>5, <2>6 DEF InNvs
<1> QED
  BY <1>1, <1>2, <1>3, <1>4, <1>5 DEF CommandInv, Handed

LEMMA KeepsStopTimeout ==
  ASSUME CommandInv, TypeOK', StopTimeout
  PROVE  CommandInv'
<1>1. /\ Place = "stopJoin"
      /\ Place' = "idle"
      /\ OneAtATime'
  BY DEF CommandInv, TypeOK, OneAtATime, Place, Goto, Tasks, StopTimeout
<1>2. RoundKnown'
  BY <1>1 DEF CommandInv, TypeOK, RoundKnown, StopTimeout
<1>3. StartKnown'
  BY <1>1 DEF CommandInv, TypeOK, StartKnown, StopTimeout
<1>4. ReadyKnown'
  BY <1>1 DEF CommandInv, TypeOK, ReadyKnown, StopTimeout
<1>5. ASSUME failures' = 0, ~hasty' PROVE InNvs'
  <2>1. failures = 0 /\ ~hasty
    BY <1>5 DEF StopTimeout
  <2>2. InNvs
    BY <2>1 DEF CommandInv, Handed
  <2>3. ReadyInNvs'
    BY <1>1, <2>1, <2>2 DEF InNvs, CommandInv, TypeOK, ReadyInNvs, StopTimeout
  <2>4. RoundInNvs'
    BY <1>1, <2>1, <2>2 DEF InNvs, CommandInv, TypeOK, RoundInNvs, StopTimeout
  <2>5. Ended'
    BY <1>1, <2>1, <2>2 DEF InNvs, CommandInv, TypeOK, Ended, StopTimeout
  <2>6. AckedInNvs'
    BY <1>1, <2>1, <2>2 DEF InNvs, CommandInv, TypeOK, AckedInNvs, StopTimeout
  <2> QED
    BY <2>3, <2>4, <2>5, <2>6 DEF InNvs
<1> QED
  BY <1>1, <1>2, <1>3, <1>4, <1>5 DEF CommandInv, Handed

LEMMA KeepsStopClear ==
  ASSUME CommandInv, TypeOK', StopClear
  PROVE  CommandInv'
<1>1. /\ Place = "stopClear"
      /\ Place' = "idle"
      /\ OneAtATime'
  BY DEF CommandInv, TypeOK, OneAtATime, Place, Goto, Tasks, StopClear
<1>2. RoundKnown'
  BY <1>1 DEF CommandInv, TypeOK, RoundKnown, StopClear
<1>3. StartKnown'
  BY <1>1 DEF CommandInv, TypeOK, StartKnown, StopClear
<1>4. ReadyKnown'
  BY <1>1 DEF CommandInv, TypeOK, ReadyKnown, StopClear
<1>5. ASSUME failures' = 0, ~hasty' PROVE InNvs'
  <2>1. failures = 0 /\ ~hasty
    BY <1>5 DEF StopClear
  <2>2. InNvs
    BY <2>1 DEF CommandInv, Handed
  <2>3. ReadyInNvs'
    BY <1>1, <2>1, <2>2, CommandAssumption DEF InNvs, CommandInv, TypeOK, ReadyInNvs, RoundKnown,
       StopClear
  <2>4. RoundInNvs'
    BY <1>1, <2>1, <2>2 DEF InNvs, CommandInv, TypeOK, RoundInNvs, RoundKnown, StopClear
  <2>5. Ended'
    BY <1>1, <2>1, <2>2, CommandAssumption DEF InNvs, CommandInv, TypeOK, Ended, StopClear
  <2>6. AckedInNvs'
    BY <1>1, <2>1, <2>2 DEF InNvs, CommandInv, TypeOK, AckedInNvs, StopClear
  <2> QED
    BY <2>3, <2>4, <2>5, <2>6 DEF InNvs
<1> QED
  BY <1>1, <1>2, <1>3, <1>4, <1>5 DEF CommandInv, Handed

LEMMA KeepsStopErase ==
  ASSUME CommandInv, TypeOK', NEW ok \in BOOLEAN, StopErase(ok)
  PROVE  CommandInv'
<1>1. /\ Place = "stopJoin"
      /\ Place' = "stopClear"
      /\ OneAtATime'
  BY DEF CommandInv, TypeOK, OneAtATime, Place, Goto, Tasks, StopErase
<1>2. RoundKnown'
  BY <1>1 DEF CommandInv, TypeOK, RoundKnown, StopErase
<1>3. StartKnown'
  BY <1>1 DEF CommandInv, TypeOK, StartKnown, StopErase
<1>4. ReadyKnown'
  BY <1>1 DEF CommandInv, TypeOK, ReadyKnown, StopErase
<1>5. ASSUME failures' = 0, ~hasty' PROVE InNvs'
  <2>1. failures = 0 /\ ~hasty /\ ok
    BY <1>5, Failed DEF CommandInv, StopErase
  <2>2. InNvs
    BY <2>1 DEF CommandInv, Handed
  <2>3. ReadyInNvs'
    BY <1>1, <2>1, <2>2 DEF InNvs, CommandInv, TypeOK, ReadyInNvs, StopErase
  <2>4. RoundInNvs'
    BY <1>1, <2>1, <2>2 DEF InNvs, CommandInv, TypeOK, RoundInNvs, StopErase
  <2>5. Ended'
    BY <1>1, <2>1, <2>2, CommandAssumption DEF InNvs, CommandInv, TypeOK, Ended, ReadyInNvs,
       StopErase
  <2>6. AckedInNvs'
    BY <1>1, <2>1, <2>2 DEF InNvs, CommandInv, TypeOK, AckedInNvs, RoundInNvs, StopErase
  <2> QED
    BY <2>3, <2>4, <2>5, <2>6 DEF InNvs
<1> QED
  BY <1>1, <1>2, <1>3, <1>4, <1>5 DEF CommandInv, Handed

LEMMA KeepsCtrlExit ==
  ASSUME CommandInv, TypeOK', CtrlExit
  PROVE  CommandInv'
<1>1. Place' = Place /\ OneAtATime'
  BY SamePlace DEF CommandInv, CtrlExit
<1>2. RoundKnown'
  BY <1>1 DEF CommandInv, TypeOK, RoundKnown, CtrlExit
<1>3. StartKnown'
  BY <1>1 DEF CommandInv, TypeOK, StartKnown, CtrlExit
<1>4. ReadyKnown'
  BY <1>1 DEF CommandInv, TypeOK, ReadyKnown, RoundKnown, CtrlExit
<1>5. ASSUME failures' = 0, ~hasty' PROVE InNvs'
  <2>1. failures = 0 /\ ~hasty
    BY <1>5 DEF CtrlExit
  <2>2. InNvs
    BY <2>1 DEF CommandInv, Handed
  <2>3. ReadyInNvs'
    BY <1>1, <2>1, <2>2 DEF InNvs, CommandInv, TypeOK, ReadyInNvs, CtrlExit
  <2>4. RoundInNvs'
    BY <1>1, <2>1, <2>2 DEF InNvs, CommandInv, TypeOK, RoundInNvs, RoundKnown, ReadyKnown, CtrlExit
  <2>5. Ended'
    BY <1>1, <2>1, <2>2 DEF InNvs, CommandInv, TypeOK, Ended, CtrlExit
  <2>6. AckedInNvs'
    BY <1>1, <2>1, <2>2 DEF InNvs, CommandInv, TypeOK, AckedInNvs, CtrlExit
  <2> QED
    BY <2>3, <2>4, <2>5, <2>6 DEF InNvs
<1> QED
  BY <1>1, <1>2, <1>3, <1>4, <1>5 DEF CommandInv, Handed

LEMMA KeepsCtrlAbort ==
  ASSUME CommandInv, TypeOK', CtrlAbort
  PROVE  CommandInv'
<1>1. Place' = Place /\ OneAtATime'
  BY SamePlace DEF CommandInv, CtrlAbort
<1>2. RoundKnown'
  BY <1>1 DEF CommandInv, TypeOK, RoundKnown, CtrlAbort
<1>3. StartKnown'
  BY <1>1 DEF CommandInv, TypeOK, StartKnown, CtrlAbort
<1>4. ReadyKnown'
  BY <1>1 DEF CommandInv, TypeOK, ReadyKnown, RoundKnown, CtrlAbort
<1>5. ASSUME failures' = 0, ~hasty' PROVE InNvs'
  <2>1. failures = 0 /\ ~hasty
    BY <1>5 DEF CtrlAbort
  <2>2. InNvs
    BY <2>1 DEF CommandInv, Handed
  <2>3. ReadyInNvs'
    BY <1>1, <2>1, <2>2 DEF InNvs, CommandInv, TypeOK, ReadyInNvs, CtrlAbort
  <2>4. RoundInNvs'
    BY <1>1, <2>1, <2>2 DEF InNvs, CommandInv, TypeOK, RoundInNvs, CtrlAbort
  <2>5. Ended'
    BY <1>1, <2>1, <2>2 DEF InNvs, CommandInv, TypeOK, Ended, CtrlAbort
  <2>6. AckedInNvs'
    BY <1>1, <2>1, <2>2 DEF InNvs, CommandInv, TypeOK, AckedInNvs, CtrlAbort
  <2> QED
    BY <2>3, <2>4, <2>5, <2>6 DEF InNvs
<1> QED
  BY <1>1, <1>2, <1>3, <1>4, <1>5 DEF CommandInv, Handed

LEMMA KeepsCtrlAbortClear ==
  ASSUME CommandInv, TypeOK', CtrlAbortClear
  PROVE  CommandInv'
<1>1. Place' = Place /\ OneAtATime'
  BY SamePlace DEF CommandInv, CtrlAbortClear
<1>2. RoundKnown'
  BY <1>1 DEF CommandInv, TypeOK, RoundKnown, CtrlAbortClear
<1>3. StartKnown'
  BY <1>1 DEF CommandInv, TypeOK, StartKnown, RoundKnown, TargetFits, CtrlAbortClear
<1>4. ReadyKnown'
  BY <1>1 DEF CommandInv, TypeOK, ReadyKnown, RoundKnown, CtrlAbortClear
<1>5. ASSUME failures' = 0, ~hasty' PROVE InNvs'
  <2>1. failures = 0 /\ ~hasty
    BY <1>5 DEF CtrlAbortClear
  <2>2. InNvs
    BY <2>1 DEF CommandInv, Handed
  <2>3. ReadyInNvs'
    BY <1>1, <2>1, <2>2, CommandAssumption DEF InNvs, CommandInv, TypeOK, ReadyInNvs, RoundKnown,
       CtrlAbortClear
  <2>4. RoundInNvs'
    BY <1>1, <2>1, <2>2 DEF InNvs, CommandInv, TypeOK, RoundInNvs, CtrlAbortClear
  <2>5. Ended'
    BY <1>1, <2>1, <2>2, CommandAssumption DEF InNvs, CommandInv, TypeOK, Ended, CtrlAbortClear
  <2>6. AckedInNvs'
    BY <1>1, <2>1, <2>2 DEF InNvs, CommandInv, TypeOK, AckedInNvs, CtrlAbortClear
  <2> QED
    BY <2>3, <2>4, <2>5, <2>6 DEF InNvs
<1> QED
  BY <1>1, <1>2, <1>3, <1>4, <1>5 DEF CommandInv, Handed

LEMMA KeepsCtrlComplete ==
  ASSUME CommandInv, TypeOK', CtrlComplete
  PROVE  CommandInv'
<1>1. Place' = Place /\ OneAtATime'
  BY SamePlace DEF CommandInv, CtrlComplete
<1>2. RoundKnown'
  BY <1>1 DEF CommandInv, TypeOK, RoundKnown, CtrlComplete
<1>3. StartKnown'
  BY <1>1 DEF CommandInv, TypeOK, StartKnown, CtrlComplete
<1>4. ReadyKnown'
  BY <1>1 DEF CommandInv, TypeOK, ReadyKnown, RoundKnown, CtrlComplete
<1>5. ASSUME failures' = 0, ~hasty' PROVE InNvs'
  <2>1. failures = 0 /\ ~hasty
    BY <1>5 DEF CtrlComplete
  <2>2. InNvs
    BY <2>1 DEF CommandInv, Handed
  <2>3. ReadyInNvs'
    BY <1>1, <2>1, <2>2 DEF InNvs, CommandInv, TypeOK, ReadyInNvs, CtrlComplete
  <2>4. RoundInNvs'
    BY <1>1, <2>1, <2>2 DEF InNvs, CommandInv, TypeOK, RoundInNvs, CtrlComplete
  <2>5. Ended'
    BY <1>1, <2>1, <2>2 DEF InNvs, CommandInv, TypeOK, Ended, CtrlComplete
  <2>6. AckedInNvs'
    BY <1>1, <2>1, <2>2 DEF InNvs, CommandInv, TypeOK, AckedInNvs, CtrlComplete
  <2> QED
    BY <2>3, <2>4, <2>5, <2>6 DEF InNvs
<1> QED
  BY <1>1, <1>2, <1>3, <1>4, <1>5 DEF CommandInv, Handed

LEMMA KeepsCtrlIdle ==
  ASSUME CommandInv, TypeOK', CtrlIdle
  PROVE  CommandInv'
<1>1. Place' = Place /\ OneAtATime'
  BY SamePlace DEF CommandInv, CtrlIdle
<1>2. RoundKnown'
  BY <1>1 DEF CommandInv, TypeOK, RoundKnown, CtrlIdle
<1>3. StartKnown'
  BY <1>1 DEF CommandInv, TypeOK, StartKnown, RoundKnown, TargetFits, CtrlIdle
<1>4. ReadyKnown'
  BY <1>1 DEF CommandInv, TypeOK, ReadyKnown, CtrlIdle
<1>5. ASSUME failures' = 0, ~hasty' PROVE InNvs'
  <2>1. failures = 0 /\ ~hasty
    BY <1>5 DEF CtrlIdle
  <2>2. InNvs
    BY <2>1 DEF CommandInv, Handed
  <2>3. ReadyInNvs'
    BY <1>1, <2>1, <2>2, CommandAssumption DEF InNvs, CommandInv, TypeOK, ReadyInNvs, RoundKnown,
       RoundInNvs, CtrlIdle
  <2>4. RoundInNvs'
    BY <1>1, <2>1, <2>2 DEF InNvs, CommandInv, TypeOK, RoundInNvs, CtrlIdle
  <2>5. Ended'
    BY <1>1, <2>1, <2>2 DEF InNvs, CommandInv, TypeOK, Ended, CtrlIdle
  <2>6. AckedInNvs'
    BY <1>1, <2>1, <2>2 DEF InNvs, CommandInv, TypeOK, AckedInNvs, CtrlIdle
  <2> QED
    BY <2>3, <2>4, <2>5, <2>6 DEF InNvs
<1> QED
  BY <1>1, <1>2, <1>3, <1>4, <1>5 DEF CommandInv, Handed

LEMMA KeepsCtrlClear ==
  ASSUME CommandInv, TypeOK', CtrlClear
  PROVE  CommandInv'
<1>1. Place' = Place /\ OneAtATime'
  BY SamePlace DEF CommandInv, CtrlClear
<1>2. RoundKnown'
  BY <1>1 DEF CommandInv, TypeOK, RoundKnown, CtrlClear
<1>3. StartKnown'
  BY <1>1 DEF CommandInv, TypeOK, StartKnown, RoundKnown, TargetFits, CtrlClear
<1>4. ReadyKnown'
  BY <1>1, CommandAssumption DEF CommandInv, TypeOK, ReadyKnown, CtrlClear
<1>5. ASSUME failures' = 0, ~hasty' PROVE InNvs'
  <2>1. failures = 0 /\ ~hasty
    BY <1>5 DEF CtrlClear
  <2>2. InNvs
    BY <2>1 DEF CommandInv, Handed
  <2>3. ReadyInNvs'
    BY <1>1, <2>1, <2>2 DEF InNvs, CommandInv, TypeOK, ReadyInNvs, CtrlClear
  <2>4. RoundInNvs'
    BY <1>1, <2>1, <2>2 DEF InNvs, CommandInv, TypeOK, RoundInNvs, CtrlClear
  <2>5. Ended'
    BY <1>1, <2>1, <2>2, CommandAssumption DEF InNvs, CommandInv, TypeOK, Ended, CtrlClear
  <2>6. AckedInNvs'
    BY <1>1, <2>1, <2>2 DEF InNvs, CommandInv, TypeOK, AckedInNvs, CtrlClear
  <2> QED
    BY <2>3, <2>4, <2>5, <2>6 DEF InNvs
<1> QED
  BY <1>1, <1>2, <1>3, <1>4, <1>5 DEF CommandInv, Handed

LEMMA KeepsCtrlEraseAbort ==
  ASSUME CommandInv, TypeOK', NEW ok \in BOOLEAN, CtrlErase("abort", "abortClear", ok)
  PROVE  CommandInv'
<1>1. Place' = Place /\ OneAtATime'
  BY SamePlace DEF CommandInv, CtrlErase
<1>2. RoundKnown'
  BY <1>1 DEF CommandInv, TypeOK, RoundKnown, CtrlErase
<1>3. StartKnown'
  BY <1>1 DEF CommandInv, TypeOK, StartKnown, CtrlErase
<1>4. ReadyKnown'
  BY <1>1 DEF CommandInv, TypeOK, ReadyKnown, RoundKnown, CtrlErase
<1>5. ASSUME failures' = 0, ~hasty' PROVE InNvs'
  <2>1. failures = 0 /\ ~hasty /\ ok
    BY <1>5, Failed DEF CommandInv, CtrlErase
  <2>2. InNvs
    BY <2>1 DEF CommandInv, Handed
  <2>3. Place \notin Recording
    BY <1>5 DEF CtrlErase, Place, Tasks
  <2>4. ReadyInNvs'
    BY <1>1, <2>1, <2>2, <2>3 DEF InNvs, CommandInv, TypeOK, ReadyInNvs, CtrlErase
  <2>5. RoundInNvs'
    BY <1>1, <2>1, <2>2, <2>3, CommandAssumption DEF InNvs, CommandInv, TypeOK, RoundInNvs,
       RoundKnown, ReadyKnown, CtrlErase
  <2>6. Ended'
    BY <1>1, <2>1, <2>2, <2>3, CommandAssumption DEF InNvs, CommandInv, TypeOK, Ended, ReadyInNvs,
       RoundInNvs, ReadyKnown, RoundKnown, CtrlErase
  <2>7. AckedInNvs'
    BY <1>1, <2>1, <2>2, <2>3 DEF InNvs, CommandInv, TypeOK, AckedInNvs, RoundInNvs, RoundKnown,
       CtrlErase
  <2> QED
    BY <2>4, <2>5, <2>6, <2>7 DEF InNvs
<1> QED
  BY <1>1, <1>2, <1>3, <1>4, <1>5 DEF CommandInv, Handed

LEMMA KeepsCtrlEraseComplete ==
  ASSUME CommandInv, TypeOK', NEW ok \in BOOLEAN, CtrlErase("complete", "completeIdle", ok)
  PROVE  CommandInv'
<1>1. Place' = Place /\ OneAtATime'
  BY SamePlace DEF CommandInv, CtrlErase
<1>2. RoundKnown'
  BY <1>1 DEF CommandInv, TypeOK, RoundKnown, CtrlErase
<1>3. StartKnown'
  BY <1>1 DEF CommandInv, TypeOK, StartKnown, CtrlErase
<1>4. ReadyKnown'
  BY <1>1 DEF CommandInv, TypeOK, ReadyKnown, RoundKnown, CtrlErase
<1>5. ASSUME failures' = 0, ~hasty' PROVE InNvs'
  <2>1. failures = 0 /\ ~hasty /\ ok
    BY <1>5, Failed DEF CommandInv, CtrlErase
  <2>2. InNvs
    BY <2>1 DEF CommandInv, Handed
  <2>3. Place \notin Recording
    BY <1>5 DEF CtrlErase, Place, Tasks
  <2>4. ReadyInNvs'
    BY <1>1, <2>1, <2>2, <2>3 DEF InNvs, CommandInv, TypeOK, ReadyInNvs, CtrlErase
  <2>5. RoundInNvs'
    BY <1>1, <2>1, <2>2, <2>3, CommandAssumption DEF InNvs, CommandInv, TypeOK, RoundInNvs,
       RoundKnown, ReadyKnown, CtrlErase
  <2>6. Ended'
    BY <1>1, <2>1, <2>2, <2>3, CommandAssumption DEF InNvs, CommandInv, TypeOK, Ended, ReadyInNvs,
       RoundInNvs, ReadyKnown, RoundKnown, CtrlErase
  <2>7. AckedInNvs'
    BY <1>1, <2>1, <2>2, <2>3 DEF InNvs, CommandInv, TypeOK, AckedInNvs, RoundInNvs, RoundKnown,
       CtrlErase
  <2> QED
    BY <2>4, <2>5, <2>6, <2>7 DEF InNvs
<1> QED
  BY <1>1, <1>2, <1>3, <1>4, <1>5 DEF CommandInv, Handed

LEMMA CommandKept == CommandInv /\ [Next]_vars => CommandInv'
<1> SUFFICES ASSUME CommandInv, [Next]_vars PROVE CommandInv'
  OBVIOUS
<1>1. TypeOK'
  BY TypesNext DEF CommandInv
<1>2. CASE Recovery
  BY <1>2, <1>1, KeepsRecoverReady, KeepsRecoverRunning, KeepsRecoverRead, KeepsRecoverLoad,
     KeepsRecoverPending, KeepsRecoverOver, KeepsRecoverRuns DEF Recovery
<1>3. CASE Command
  BY <1>3, <1>1, KeepsSetPn, KeepsSetPnReply, KeepsStartAging, KeepsStartRejected,
     KeepsStopAging, KeepsStopTimeout, KeepsStopErase, KeepsStopClear DEF Command
<1>4. ASSUME NEW w \in Tasks, Starting(w) PROVE CommandInv'
  <2>1. ASSUME ParseCancel(w) PROVE CommandInv'
    <3>1. at[w] = "cancel" \/ at[w] = "cancelStart"
      BY <2>1 DEF ParseCancel
    <3> QED
      BY <3>1, <2>1, <1>1, KeepsParseCancelRecovery, KeepsParseCancelStart
  <2>2. ASSUME NEW begun \in BOOLEAN, ParseJoin(w, begun) PROVE CommandInv'
    <3>1. at[w] = "join" \/ at[w] = "joinStart"
      BY <2>2 DEF ParseJoin
    <3> QED
      BY <3>1, <2>2, <1>1, KeepsParseJoinRecovery, KeepsParseJoinStart
  <2>3. ASSUME ParseTimeout(w) PROVE CommandInv'
    <3>1. at[w] = "join" \/ at[w] = "joinStart"
      BY <2>3 DEF ParseTimeout
    <3> QED
      BY <3>1, <2>3, <1>1, KeepsParseTimeoutRecovery, KeepsParseTimeoutStart
  <2>4. ASSUME ParseFail(w) PROVE CommandInv'
    <3>1. at[w] = "prepare" \/ at[w] = "prepareStart"
      BY <2>4 DEF ParseFail
    <3> QED
      BY <3>1, <2>4, <1>1, KeepsParseFailRecovery, KeepsParseFailStart
  <2>5. ASSUME ParseCreate(w) PROVE CommandInv'
    <3>1. at[w] = "prepare" \/ at[w] = "prepareStart"
      BY <2>5 DEF ParseCreate
    <3> QED
      BY <3>1, <2>5, <1>1, KeepsParseCreateRecovery, KeepsParseCreateStart
  <2>6. ASSUME NEW ok \in BOOLEAN, StartFailed(w, ok) PROVE CommandInv'
    <3>1. at[w] = "failed" \/ at[w] = "failedStart"
      BY <2>6 DEF StartFailed
    <3> QED
      BY <3>1, <2>6, <1>1, KeepsStartFailedRecovery, KeepsStartFailedStart
  <2>7. ASSUME NEW ok \in BOOLEAN, StartUndone(w, ok) PROVE CommandInv'
    <3>1. at[w] = "undo" \/ at[w] = "undoStart"
      BY <2>7 DEF StartUndone
    <3> QED
      BY <3>1, <2>7, <1>1, KeepsStartUndoneRecovery, KeepsStartUndoneStart
  <2> QED
    BY <1>4, <1>1, KeepsStartSave, KeepsStartCopy, KeepsStartCurrent, <2>1, <2>2, <2>3, <2>4,
       <2>5, <2>6, <2>7, KeepsStartRuns, KeepsRecordPn, KeepsRecordValid DEF Starting
<1>5. ASSUME NEW w \in Tasks, Persisting(w) PROVE CommandInv'
  <2>1. ASSUME NEW ok \in BOOLEAN, PersistString(w, ok) PROVE CommandInv'
    <3>1. \/ at[w] = "setString" \/ at[w] = "undoString"
          \/ at[w] = "consumeString" \/ at[w] = "purgeString"
      BY <2>1 DEF PersistString, FlagPlace
    <3> QED
      BY <3>1, <2>1, <1>1, KeepsSetString, KeepsUndoString, KeepsConsumeString, KeepsPurgeString
  <2>2. ASSUME NEW ok \in BOOLEAN, PersistFlag(w, ok) PROVE CommandInv'
    <3>1. at[w] = "setFlag" \/ at[w] = "undoFlag" \/ at[w] = "consumeFlag" \/ at[w] = "purgeFlag"
      BY <2>2 DEF PersistFlag, FlagPlace
    <3> QED
      BY <3>1, <2>2, <1>1, KeepsSetFlag, KeepsUndoFlag, KeepsConsumeFlag, KeepsPurgeFlag
  <2>3. ASSUME NEW ok \in BOOLEAN, PersistPending(w, ok) PROVE CommandInv'
    <3>1. at[w] = "consumePending" \/ at[w] = "purgePending"
      BY <2>3 DEF PersistPending
    <3> QED
      BY <3>1, <2>3, <1>1, KeepsConsumePending, KeepsPurgePending
  <2> QED
    BY <1>5, <1>1, <2>1, <2>2, <2>3 DEF Persisting
<1>6. CASE Control
  BY <1>6, <1>1, KeepsCtrlExit, KeepsCtrlAbort, KeepsCtrlEraseAbort, KeepsCtrlEraseComplete,
     KeepsCtrlAbortClear, KeepsCtrlComplete, KeepsCtrlIdle, KeepsCtrlClear DEF Control
<1>7. CASE Restart
  <2>1. Place' = "ready" /\ OneAtATime'
    BY <1>7 DEF Restart, Place, OneAtATime, Booted
  <2>2. RoundKnown' /\ StartKnown' /\ ReadyKnown'
    BY <2>1, <1>7, CommandAssumption DEF Restart, RoundKnown, StartKnown, ReadyKnown, CommandInv,
       TypeOK
  <2>3. ASSUME InNvs PROVE InNvs'
    <3>1. ReadyInNvs'
      BY <2>1, <1>7 DEF Restart, ReadyInNvs
    <3>2. RoundInNvs'
      BY <2>1, <2>3, <1>7 DEF Restart, RoundInNvs, InNvs
    <3>3. Ended' /\ AckedInNvs'
      BY <2>3, <1>7, CommandAssumption DEF Restart, Ended, AckedInNvs, InNvs, CommandInv, TypeOK
    <3> QED
      BY <3>1, <3>2, <3>3 DEF InNvs
  <2>4. Handed'
    BY <2>3, <1>7 DEF Restart, Handed, CommandInv
  <2> QED
    BY <1>1, <2>1, <2>2, <2>4 DEF CommandInv
<1>8. CASE UNCHANGED vars
  <2>1. Place' = Place /\ OneAtATime'
    BY <1>8, SamePlace DEF vars, CommandInv
  <2>2. RoundKnown' /\ StartKnown' /\ ReadyKnown'
    BY <1>8, <2>1 DEF vars, RoundKnown, StartKnown, ReadyKnown, TargetFits, CommandInv
  <2>3. ReadyInNvs => ReadyInNvs'
    BY <1>8, <2>1 DEF vars, ReadyInNvs
  <2>4. RoundInNvs => RoundInNvs'
    BY <1>8, <2>1 DEF vars, RoundInNvs
  <2>5. (Ended => Ended') /\ (AckedInNvs => AckedInNvs')
    BY <1>8 DEF vars, Ended, AckedInNvs
  <2>6. Handed'
    BY <1>8, <2>3, <2>4, <2>5 DEF vars, Handed, InNvs, CommandInv
  <2> QED
    BY <1>1, <2>1, <2>2, <2>6 DEF CommandInv
<1> QED
  BY <1>1, <1>2, <1>3, <1>4, <1>5, <1>6, <1>7, <1>8 DEF Next

LEMMA CommandInit == ASSUME ~EarlyCommands, Init PROVE CommandInv
<1>1. TypeOK
  BY TypesInit
<1>2. Place = "ready" /\ OneAtATime
  BY DEF Init, Booted, Place, OneAtATime
<1>3. /\ nvs.ready = NoPN /\ nvs.current = NoPN /\ ~nvs.valid
      /\ pn = NoPN /\ ready = NoPN /\ session = NoPN /\ ctrl = "none"
      /\ acked = {} /\ over = {}
  BY DEF Init, EmptyNvs
<1>4. RoundKnown /\ StartKnown /\ ReadyKnown
  BY <1>2, <1>3 DEF RoundKnown, StartKnown, ReadyKnown
<1>5. ReadyInNvs /\ RoundInNvs
  BY <1>2, <1>3 DEF ReadyInNvs, RoundInNvs
<1>6. Ended /\ AckedInNvs
  BY <1>3 DEF Ended, AckedInNvs
<1> QED
  BY <1>1, <1>2, <1>4, <1>5, <1>6 DEF CommandInv, Handed, InNvs

LEMMA CommandAlways == ~EarlyCommands => (Spec => []CommandInv)
<1>1. ~EarlyCommands /\ Init => CommandInv
  BY CommandInit
<1> QED
  BY <1>1, CommandKept, PTL DEF Spec

-----------------------------------------------------------------------------
(* The theorems.  Commands that arrive while net_init still recovers break *)
(* every one of them: that is the subject of AgingCommandRecovery.cfg.     *)

\* While the control task tests a device, PN_Code is the PN it was created for
\* (aging_command_json_parse, clear_aging_command_runtime, AgingComplete).
THEOREM SessionKeepsItsPnAlways == ~EarlyCommands => (Spec => []SessionKeepsItsPn)
<1>1. CommandInv => SessionKeepsItsPn
  BY DEF CommandInv, RoundKnown, SessionKeepsItsPn
<1> QED
  BY <1>1, CommandAlways, PTL

\* A power loss during a recorded round finds the command file, the PN and a BLE
\* target of that PN, whichever writes failed (Init_ByNetwork_Flag,
\* start_aging_with_ready_pn).
THEOREM RecordedRoundRecoverableAlways == ~EarlyCommands => (Spec => []RecordedRoundRecoverable)
<1>1. CommandInv => RecordedRoundRecoverable
  BY DEF CommandInv, RoundKnown, RecordedRoundRecoverable
<1> QED
  BY <1>1, CommandAlways, PTL

\* The hand-over of a PN from ready to running is crash-safe while the writes to NVS
\* succeed (start_aging_with_ready_pn, persist_ready_pn_state).
THEOREM AckedPnInNvsAlways == ~EarlyCommands => (Spec => []AckedPnInNvs)
<1>1. CommandInv => AckedPnInNvs
  BY DEF CommandInv, Handed, InNvs, AckedInNvs, AckedPnInNvs
<1> QED
  BY <1>1, CommandAlways, PTL

\* A device is not tested again without a new scan, once its round was erased and
\* while the writes succeed (SelfRecovery_Erase_aging_valid).
THEOREM EndedRoundStaysEndedAlways == ~EarlyCommands => (Spec => []EndedRoundStaysEnded)
<1>1. CommandInv => EndedRoundStaysEnded
  BY DEF CommandInv, Handed, InNvs, Ended, EndedRoundStaysEnded
<1> QED
  BY <1>1, CommandAlways, PTL
=============================================================================
