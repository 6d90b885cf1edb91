---------------------------- MODULE AgingControl ----------------------------
(***************************************************************************)
(* A round of a Bluetooth device in main/Task/appTask.c: the control task  *)
(* aging_ctrl walks through the cycles and steps of the command, recovers  *)
(* the link to the device at its checkpoints (aging_ble_ensure_ready), and *)
(* quiesces and joins the sampling task aging_get.  Callbacks of the BLE   *)
(* driver report a lost link, mqtt_rx starts and stops rounds, a power     *)
(* loss leaves the cursor of the round in NVS.                             *)
(*                                                                         *)
(* ctrl is the place of aging_ctrl, recover its place in the recovery that *)
(* the checkpoint ctrl has called.  A session is the number of a           *)
(* connection.  A device on CAN or RS485 takes no step of the recovery.    *)
(*                                                                         *)
(* A definition commented `Fault' is a faulty variant of the one after it; *)
(* it is not part of the specification, and serves to check that the       *)
(* properties notice such a fault.                                         *)
(***************************************************************************)
EXTENDS Naturals, Sequences

CONSTANTS
    Steps,       \* the methods of the command's steps: "standing" or "work"
    Cycles,      \* CycleIndex of the command
    Modes,       \* the control modes of commands: "single" or "group" (AgingCMode = 2)
    Limit,       \* BLE_AGING_RECOVERY_TIMEOUT_MS, in ticks of the model
    MaxSession,  \* bound: connections
    MaxRound,    \* bound: rounds started
    MaxRestart   \* bound: power losses

ASSUME ControlAssumption ==
    /\ Steps \in Seq({"standing", "work"}) /\ Steps # <<>>
    /\ Cycles \in Nat \ {0}
    /\ Modes \subseteq {"single", "group"} /\ Modes # {}
    /\ Limit \in Nat \ {0}
    /\ MaxSession \in Nat
    /\ MaxRound \in Nat
    /\ MaxRestart \in Nat

VARIABLES
    ctrl,        \* place of aging_ctrl; "none" is s_aging_ctrl_exited
    recover,     \* its place in aging_ble_ensure_ready, "no" outside
    cycle, step, \* c and i of the loops of AgingAction
    current,     \* CurrentAgingStep, with the cycle
    mode,        \* agingDataAMode is not IdleState
    replay,      \* s_ble_replay_pre
    previous,    \* previous_session of aging_begin_step
    got,         \* session of the last good read of a condition, 0 if it failed
    retrying,    \* an after-action is being retried
    deadline,    \* the step whose deadline the standing step waits for
    link,        \* the current session, 0 if there is none
    lastSession,
    ready,       \* s_ble_ready_session
    recovering,  \* s_ble_recovering
    lost,        \* s_ble_disconnect_session if s_ble_abnormal_disconnect, else 0
    active,      \* s_ble_recovery_active
    age,         \* time since s_ble_recovery_start_tick
    lostAge,     \* time since s_ble_disconnect_tick
    failAge,     \* time since failure_tick
    sampler,     \* place of aging_get; "none" is s_aging_sample_exited
    reading,     \* s_sample_reading
    sample,      \* what the sample under way was stamped with, and what it read
    device,      \* whether Aging_device and agingcfg are allocated
    cancel,      \* s_aging_cancel
    rx,          \* place of mqtt_rx
    canNext,     \* Cannextstep
    group,       \* whether the command is for group control, AgingCMode = 2
    resume,      \* agingResumeState
    nvs,         \* aging_valid, CycleIndex, CR_Step, Deadline in NVS
    round,       \* the number of the round
    restarts,
    prepared,    \* session and step that the last complete pre-actions were for
    torn,        \* whether the after-actions of the step have begun
    done,        \* the steps completed in this round
    faulty,      \* whether the device has been out of reach, and
    outage,      \* for how long
    measured     \* what that good read was of: its connection, and the pre-actions then in force

stepVars   == <<cycle, step, current, mode, replay, previous, got, retrying, deadline>>
linkVars   == <<link, lastSession, ready, recovering, lost>>
windowVars == <<active, age, lostAge, failAge>>
sampleVars == <<sampler, reading, sample>>
restVars   == <<device, cancel, rx, canNext, group, resume, nvs, round, restarts>>
ghostVars  == <<prepared, torn, done, faulty, outage, measured>>
vars == <<ctrl, recover, stepVars, linkVars, windowVars, sampleVars, restVars, ghostVars>>

At       == <<cycle, step>>
Instance == <<round, cycle, step>>
NoStep   == <<0, 0>>
NoneYet  == <<0, 0, 0>>
NoCursor == [valid |-> FALSE, cycle |-> 0, step |-> 1, deadline |-> NoneYet]
NoSample == [session |-> 0, step |-> NoStep, seen |-> {}]
Untaken  == [session |-> 0, step |-> NoStep]
Unmeasured == [session |-> 0, prepared |-> Untaken]

Init ==
    /\ ctrl = "none" /\ recover = "no"
    /\ cycle = 0 /\ step = 1 /\ current = NoStep
    /\ mode = FALSE /\ replay = FALSE /\ previous = 0 /\ got = 0 /\ retrying = FALSE
    /\ deadline = NoneYet
    /\ link = 0 /\ lastSession = 0 /\ ready = 0 /\ recovering = FALSE /\ lost = 0
    /\ active = FALSE /\ age = 0 /\ lostAge = 0 /\ failAge = 0
    /\ sampler = "none" /\ reading = FALSE /\ sample = NoSample
    /\ device = FALSE /\ cancel = FALSE /\ rx = "idle" /\ canNext = FALSE /\ group = FALSE
    /\ resume = NoCursor /\ nvs = NoCursor
    /\ round = 0 /\ restarts = 0
    /\ prepared = Untaken /\ torn = FALSE /\ done = {}
    /\ faulty = FALSE /\ outage = 0 /\ measured = Unmeasured

-----------------------------------------------------------------------------
(***************************************************************************)
(* aging_ble_ensure_ready, called at each of these checkpoints; it goes on *)
(* at Then[ctrl] when it returns true and exits the round otherwise.       *)
(***************************************************************************)
Then == [prepare |-> "enter", enter |-> "entered", begin |-> "begun", rebegin |-> "rebegun",
         stand |-> "standing", poll |-> "read", judge |-> "judged", after |-> "write",
         closing |-> "closed", waiting |-> "barrier", released |-> "release"]

AtCheckpoint == ctrl \in DOMAIN Then /\ recover = "no"
Usable       == ready # 0 /\ ready = link /\ lost # ready

EnsureCancelled ==
    /\ AtCheckpoint
    /\ cancel
    /\ ctrl' = "exit"
    /\ UNCHANGED <<recover, stepVars, linkVars, windowVars, sampleVars, restVars, ghostVars>>

EnsurePass ==
    /\ AtCheckpoint
    /\ ~cancel
    /\ Usable
    /\ lost' = 0 /\ lostAge' = 0
    /\ ctrl' = Then[ctrl]
    /\ UNCHANGED <<recover, stepVars, link, lastSession, ready, recovering, active, age, failAge,
                   sampleVars, restVars, ghostVars>>

\* Fault: every call of the recovery opens a new window.
WindowAnew == 0

\* The window opens when the link was lost, or now; a window already open stays.
Window == IF active THEN age ELSE IF lost # 0 THEN lostAge ELSE 0

EnsureEnter ==
    /\ AtCheckpoint
    /\ ~cancel
    /\ ~Usable
    /\ recover' = "quiet"
    /\ age' = Window
    /\ active' = TRUE
    /\ recovering' = TRUE
    /\ ready' = 0
    /\ lost' = 0 /\ lostAge' = 0
    /\ faulty' = TRUE
    /\ outage' = IF faulty THEN outage ELSE 0
    /\ UNCHANGED <<ctrl, stepVars, link, lastSession, failAge, sampleVars, restVars,
                   prepared, torn, done, measured>>

\* The sample under way ends first.
RecoverQuiet ==
    /\ recover = "quiet"
    /\ ~reading
    /\ recover' = "attempt"
    /\ UNCHANGED <<ctrl, stepVars, linkVars, windowVars, sampleVars, restVars, ghostVars>>

\* Fault: a cancelled recovery goes on until its window closes.
GoesOnCancelled == age < Limit

GoesOn == ~cancel /\ age < Limit

\* aging_ble_connect_attempt: whatever link there is, is closed; a scan, a connection.
RecoverConnect(found) ==
    /\ recover = "attempt"
    /\ GoesOn
    /\ IF found
       THEN /\ lastSession < MaxSession
            /\ lastSession' = lastSession + 1
            /\ link' = lastSession + 1
            /\ recover' = "probe"
       ELSE /\ link' = 0
            /\ recover' = "pause"
            /\ UNCHANGED lastSession
    /\ UNCHANGED <<ctrl, stepVars, ready, recovering, lost, windowVars, sampleVars, restVars,
                   ghostVars>>

\* Fault: the pre-actions of the step are not repeated.
AfterProbeBare == "ready"

AfterProbe == IF replay THEN "actions" ELSE "ready"

\* A parameter of the device is read.
RecoverProbe(ok) ==
    /\ recover = "probe"
    /\ ok => link # 0 /\ ~cancel
    /\ recover' = IF ok THEN AfterProbe ELSE "pause"
    /\ UNCHANGED <<ctrl, stepVars, linkVars, windowVars, sampleVars, restVars, ghostVars>>

\* aging_step_pre_actions of the interrupted step.
RecoverActions(ok) ==
    /\ recover = "actions"
    /\ ok => link # 0 /\ ~cancel
    /\ recover' = IF ok THEN "ready" ELSE "pause"
    /\ prepared' = IF ok THEN [session |-> link, step |-> At] ELSE prepared
    /\ UNCHANGED <<ctrl, stepVars, linkVars, windowVars, sampleVars, restVars, torn, done,
                   faulty, outage, measured>>

RecoverReady ==
    /\ recover = "ready"
    /\ ready' = lastSession
    /\ recover' = "verify"
    /\ UNCHANGED <<ctrl, stepVars, link, lastSession, recovering, lost, windowVars, sampleVars,
                   restVars, ghostVars>>

RecoverVerify ==
    /\ recover = "verify"
    /\ recover' = IF ready = link /\ age < Limit THEN "over" ELSE "pause"
    /\ UNCHANGED <<ctrl, stepVars, linkVars, windowVars, sampleVars, restVars, ghostVars>>

\* The callback may have reported a loss since the session was verified.
RecoverOver ==
    /\ recover = "over"
    /\ recover' = "no"
    /\ ctrl' = Then[ctrl]
    /\ active' = FALSE
    /\ recovering' = FALSE
    /\ age' = 0
    /\ faulty' = (link # ready)
    /\ outage' = IF link # ready THEN lostAge ELSE 0
    /\ UNCHANGED <<stepVars, link, lastSession, ready, lost, lostAge, failAge, sampleVars,
                   restVars, prepared, torn, done, measured>>

RecoverPause ==
    /\ recover = "pause"
    /\ GoesOn
    /\ recover' = "attempt"
    /\ UNCHANGED <<ctrl, stepVars, linkVars, windowVars, sampleVars, restVars, ghostVars>>

\* The window closed, or the round was cancelled.
RecoverGiveUp ==
    /\ recover \in {"quiet", "attempt", "pause"}
    /\ ~GoesOn
    /\ recover' = "no"
    /\ ctrl' = "exit"
    /\ UNCHANGED <<stepVars, linkVars, windowVars, sampleVars, restVars, ghostVars>>

-----------------------------------------------------------------------------
(***************************************************************************)
(* The course of a round: Aging_Test_Task and the calls it makes.          *)
(***************************************************************************)
\* AgingStartCheck: the external devices answer, and aging_get is created.
StartCheck(ok) ==
    /\ ctrl = "check"
    /\ ok => ~cancel
    /\ ctrl' = IF ok THEN "prepare" ELSE "exit"
    /\ sampler' = IF ok THEN "idle" ELSE sampler
    /\ UNCHANGED <<recover, stepVars, linkVars, windowVars, reading, sample, restVars, ghostVars>>

\* AgingAction begins at the cursor of the interrupted round, or at the first step.
ActionBegin ==
    /\ ctrl = "entered"
    /\ ctrl' = "cycle"
    /\ cycle' = IF resume.valid THEN resume.cycle ELSE 0
    /\ step' = IF resume.valid THEN resume.step ELSE 1
    /\ UNCHANGED <<recover, current, mode, replay, previous, got, retrying, deadline, linkVars,
                   windowVars, sampleVars, restVars, ghostVars>>

CycleBegin ==
    /\ ctrl = "cycle"
    /\ IF cycle < Cycles
       THEN ctrl' = "step" /\ nvs' = [nvs EXCEPT !.cycle = cycle]
       ELSE ctrl' = "dataCheck" /\ UNCHANGED nvs
    /\ UNCHANGED <<recover, stepVars, linkVars, windowVars, sampleVars, device, cancel, rx, canNext,
                   group, resume, round, restarts, ghostVars>>

\* Fault: the cursor runs ahead of the step.
StepCursorAhead == step + 1

StepCursor == step

\* The step is recorded and the sampler is told to rest.
StepBegin ==
    /\ ctrl = "step"
    /\ step <= Len(Steps)
    /\ ctrl' = "quiesce"
    /\ nvs' = [nvs EXCEPT !.step = StepCursor]
    /\ mode' = FALSE
    /\ UNCHANGED <<recover, cycle, step, current, replay, previous, got, retrying, deadline,
                   linkVars, windowVars, sampleVars, device, cancel, rx, canNext, group, resume, round,
                   restarts, ghostVars>>

CycleEnd ==
    /\ ctrl = "step"
    /\ step > Len(Steps)
    /\ ctrl' = "cycle"
    /\ cycle' = cycle + 1
    /\ step' = 1
    /\ UNCHANGED <<recover, current, mode, replay, previous, got, retrying, deadline, linkVars,
                   windowVars, sampleVars, restVars, ghostVars>>

\* The sample under way has ended: aging_begin_step.
Quiesce ==
    /\ ctrl = "quiesce"
    /\ ~reading
    /\ ctrl' = "begin"
    /\ current' = At
    /\ replay' = TRUE
    /\ previous' = ready
    /\ UNCHANGED <<recover, cycle, step, mode, got, retrying, deadline, linkVars, windowVars,
                   sampleVars, restVars, ghostVars>>

QuiesceCancelled ==
    /\ ctrl = "quiesce"
    /\ cancel
    /\ ctrl' = "exit"
    /\ UNCHANGED <<recover, stepVars, linkVars, windowVars, sampleVars, restVars, ghostVars>>

\* If the checkpoint had to recover, the recovery has taken the pre-actions.
AlreadyPrepared ==
    /\ ctrl = "begun"
    /\ previous # ready
    /\ ctrl' = "work"
    /\ UNCHANGED <<recover, stepVars, linkVars, windowVars, sampleVars, restVars, ghostVars>>

PreActions(ok) ==
    /\ ctrl = "begun"
    /\ previous = ready
    /\ ok => link # 0 /\ ~cancel
    /\ ctrl' = IF ok THEN "work" ELSE "rebegin"
    /\ prepared' = IF ok THEN [session |-> link, step |-> At] ELSE prepared
    /\ ready' = IF ok THEN ready ELSE 0
    /\ UNCHANGED <<recover, stepVars, link, lastSession, recovering, lost, windowVars, sampleVars,
                   restVars, torn, done, faulty, outage, measured>>

PreparedAgain ==
    /\ ctrl = "rebegun"
    /\ ctrl' = IF cancel THEN "exit" ELSE "work"
    /\ UNCHANGED <<recover, stepVars, linkVars, windowVars, sampleVars, restVars, ghostVars>>

WorkBegin ==
    /\ ctrl = "work"
    /\ Steps[step] = "work"
    /\ ctrl' = "poll"
    /\ mode' = TRUE
    /\ UNCHANGED <<recover, cycle, step, current, replay, previous, got, retrying, deadline,
                   linkVars, windowVars, sampleVars, restVars, ghostVars>>

\* A round that was resumed keeps the deadline that its restart found.
StandingBegin ==
    /\ ctrl = "work"
    /\ Steps[step] = "standing"
    /\ ctrl' = "stand"
    /\ mode' = TRUE
    /\ IF resume.valid /\ resume.deadline # NoneYet
       THEN deadline' = resume.deadline /\ UNCHANGED nvs
       ELSE deadline' = Instance /\ nvs' = [nvs EXCEPT !.deadline = Instance]
    /\ UNCHANGED <<recover, cycle, step, current, replay, previous, got, retrying, linkVars,
                   windowVars, sampleVars, device, cancel, rx, canNext, group, resume, round, restarts,
                   ghostVars>>

StandingWait ==
    /\ ctrl = "standing"
    /\ ctrl' = "stand"
    /\ UNCHANGED <<recover, stepVars, linkVars, windowVars, sampleVars, restVars, ghostVars>>

ConditionRead(ok) ==
    /\ ctrl = "read"
    /\ ok => link # 0
    /\ ctrl' = "judge"
    /\ got' = IF ok THEN link ELSE 0
    /\ measured' = IF ok THEN [session |-> link, prepared |-> prepared] ELSE Unmeasured
    /\ UNCHANGED <<recover, cycle, step, current, mode, replay, previous, retrying, deadline,
                   linkVars, windowVars, sampleVars, restVars, prepared, torn, done, faulty,
                   outage>>

\* Fault: a reading survives the loss of its connection.
GoodReadingAnySession == got # 0

GoodReading == got # 0 /\ got = link

ConditionNotMet ==
    /\ ctrl = "judged"
    /\ ctrl' = "poll"
    /\ got' = 0
    /\ measured' = Unmeasured
    /\ UNCHANGED <<recover, cycle, step, current, mode, replay, previous, retrying, deadline,
                   linkVars, windowVars, sampleVars, restVars, prepared, torn, done, faulty,
                   outage>>

\* Fault: a reconnection may switch the load on again during the teardown.
ReplayKept == TRUE

ReplayOver == FALSE

\* The deadline has passed or the condition is met: the after-actions begin.
Tear ==
    /\ \/ ctrl = "standing"
       \/ ctrl = "judged" /\ GoodReading
    /\ ctrl' = "after"
    /\ replay' = ReplayOver
    /\ torn' = TRUE
    /\ measured' = Unmeasured
    /\ UNCHANGED <<recover, cycle, step, current, mode, previous, got, retrying, deadline,
                   linkVars, windowVars, sampleVars, restVars, prepared, done, faulty, outage>>

RetryWindow == IF retrying THEN failAge ELSE 0

\* aging_execute_actions: the after-actions of the step, each after a checkpoint.
AfterActions(ok) ==
    /\ ctrl = "write"
    /\ ok => link # 0
    /\ IF ok
       THEN /\ ctrl' = "closing"
            /\ retrying' = FALSE
            /\ failAge' = 0
            /\ UNCHANGED <<ready, active, age>>
       ELSE /\ ~cancel
            /\ ctrl' = "after"
            /\ retrying' = TRUE
            /\ failAge' = RetryWindow
            /\ active' = TRUE
            /\ age' = RetryWindow
            /\ ready' = 0
    /\ UNCHANGED <<recover, cycle, step, current, mode, replay, previous, got, deadline, link,
                   lastSession, recovering, lost, lostAge, sampleVars, restVars, ghostVars>>

AfterGivenUp ==
    /\ \/ ctrl = "write" /\ cancel
       \/ ctrl = "after" /\ retrying /\ recover = "no" /\ age >= Limit
    /\ ctrl' = "exit"
    /\ UNCHANGED <<recover, stepVars, linkVars, windowVars, sampleVars, restVars, ghostVars>>

\* A step is completed; in group mode the next one waits for the server.
StepEnd ==
    /\ ctrl = "closed"
    /\ done' = done \cup {At}
    /\ IF group
       THEN ctrl' = "barrier" /\ mode' = FALSE /\ UNCHANGED <<step, torn>>
       ELSE ctrl' = "step" /\ step' = step + 1 /\ torn' = FALSE /\ UNCHANGED mode
    /\ UNCHANGED <<recover, cycle, current, replay, previous, got, retrying, deadline, linkVars,
                   windowVars, sampleVars, restVars, prepared, faulty, outage, measured>>

Barrier ==
    /\ ctrl = "barrier"
    /\ ctrl' = IF canNext THEN "released" ELSE "waiting"
    /\ UNCHANGED <<recover, stepVars, linkVars, windowVars, sampleVars, restVars, ghostVars>>

Release ==
    /\ ctrl = "release"
    /\ ctrl' = "step"
    /\ canNext' = FALSE
    /\ step' = step + 1
    /\ torn' = FALSE
    /\ UNCHANGED <<recover, cycle, current, mode, replay, previous, got, retrying, deadline,
                   linkVars, windowVars, sampleVars, device, cancel, rx, group, resume, nvs, round,
                   restarts, prepared, done, faulty, outage, measured>>

\* AgingDataCheck, left when the last sample has ended.
DataCheck ==
    /\ ctrl = "dataCheck"
    /\ ~cancel
    /\ mode' = FALSE
    /\ ctrl' = IF reading THEN "dataCheck" ELSE "complete"
    /\ UNCHANGED <<recover, cycle, step, current, replay, previous, got, retrying, deadline,
                   linkVars, windowVars, sampleVars, restVars, ghostVars>>

CompletionCancelled ==
    /\ ctrl \in {"dataCheck", "complete"}
    /\ cancel
    /\ ctrl' = "exit"
    /\ UNCHANGED <<recover, stepVars, linkVars, windowVars, sampleVars, restVars, ghostVars>>

\* AgingComplete, or the cleanup of an abort: aging_finish_sampling.
Finish ==
    /\ ctrl \in {"complete", "exit"}
    /\ ~cancel
    /\ ctrl' = "join"
    /\ cancel' = TRUE
    /\ mode' = FALSE
    /\ UNCHANGED <<recover, cycle, step, current, replay, previous, got, retrying, deadline,
                   linkVars, windowVars, sampleVars, device, rx, canNext, group, resume, nvs, round,
                   restarts, ghostVars>>

\* Fault: the configuration is freed under the sampler.
JoinedAtOnce == TRUE

Joined == sampler = "none"

\* The sampler has ended: the link is closed, the round erased, the device freed.
Join ==
    /\ ctrl = "join"
    /\ Joined
    /\ ctrl' = "none"
    /\ mode' = FALSE
    /\ ready' = 0 /\ link' = 0
    /\ nvs' = [nvs EXCEPT !.valid = FALSE]
    /\ resume' = NoCursor
    /\ device' = FALSE
    /\ UNCHANGED <<recover, cycle, step, current, replay, previous, got, retrying, deadline,
                   lastSession, recovering, lost, windowVars, sampleVars, cancel, rx, canNext,
                   group, round, restarts, ghostVars>>

\* A cancelled task ends without a cleanup, which is mqtt_rx's.
ExitCancelled ==
    /\ ctrl = "exit"
    /\ cancel
    /\ ctrl' = "none"
    /\ UNCHANGED <<recover, stepVars, linkVars, windowVars, sampleVars, restVars, ghostVars>>

Ctrl ==
    \/ EnsureCancelled \/ EnsurePass \/ EnsureEnter
    \/ RecoverQuiet \/ RecoverReady \/ RecoverVerify \/ RecoverOver \/ RecoverPause
    \/ RecoverGiveUp
    \/ ActionBegin \/ CycleBegin \/ StepBegin \/ CycleEnd \/ Quiesce \/ QuiesceCancelled
    \/ AlreadyPrepared \/ PreparedAgain \/ WorkBegin \/ StandingBegin \/ StandingWait
    \/ ConditionNotMet \/ Tear \/ AfterGivenUp \/ StepEnd \/ Barrier \/ Release
    \/ DataCheck \/ CompletionCancelled \/ Finish \/ Join \/ ExitCancelled
    \/ \E ok \in BOOLEAN :
          \/ RecoverConnect(ok) \/ RecoverProbe(ok) \/ RecoverActions(ok)
          \/ StartCheck(ok) \/ PreActions(ok) \/ ConditionRead(ok) \/ AfterActions(ok)

-----------------------------------------------------------------------------
(***************************************************************************)
(* aging_get: arm, look again, stamp, read every parameter, look once      *)
(* more, submit.  Each of the two reads stands for a part of the list.     *)
(***************************************************************************)
SampleAllowed == ~cancel /\ ~recovering

SampleLook ==
    /\ sampler = "idle"
    /\ SampleAllowed /\ mode
    /\ sampler' = "looked"
    /\ UNCHANGED <<ctrl, recover, stepVars, linkVars, windowVars, reading, sample, restVars,
                   ghostVars>>

SampleArm ==
    /\ sampler = "looked"
    /\ sampler' = "armed"
    /\ reading' = TRUE
    /\ UNCHANGED <<ctrl, recover, stepVars, linkVars, windowVars, sample, restVars, ghostVars>>

\* Fault: the sampler does not look again after it has announced itself.
ArmedStill == TRUE

StillOn == SampleAllowed /\ mode

SampleRecheck ==
    /\ sampler = "armed"
    /\ sampler' = IF StillOn THEN "stamp" ELSE "idle"
    /\ reading' = StillOn
    /\ UNCHANGED <<ctrl, recover, stepVars, linkVars, windowVars, sample, restVars, ghostVars>>

SampleStamp ==
    /\ sampler = "stamp"
    /\ SampleAllowed
    /\ ready # 0 /\ ready = link
    /\ sampler' = "first"
    /\ sample' = [session |-> ready, step |-> current, seen |-> {}]
    /\ UNCHANGED <<ctrl, recover, stepVars, linkVars, windowVars, reading, restVars, ghostVars>>

\* A parameter is read from the device, as it is at this moment.
SampleRead ==
    /\ sampler \in {"first", "second"}
    /\ link # 0
    /\ sampler' = IF sampler = "first" THEN "second" ELSE "verify"
    /\ sample' = [sample EXCEPT !.seen = @ \cup {[session |-> link, step |-> prepared.step]}]
    /\ UNCHANGED <<ctrl, recover, stepVars, linkVars, windowVars, reading, restVars, ghostVars>>

SampleVerify ==
    /\ sampler = "verify"
    /\ SampleAllowed
    /\ sample.step = current
    /\ sample.session = link /\ sample.session = ready
    /\ sampler' = "submit"
    /\ UNCHANGED <<ctrl, recover, stepVars, linkVars, windowVars, reading, sample, restVars,
                   ghostVars>>

\* The packet is submitted, or dropped wherever a look or a read has failed.
SampleEnd ==
    /\ sampler \in {"stamp", "first", "second", "verify", "submit"}
    /\ sampler' = "idle"
    /\ reading' = FALSE
    /\ sample' = NoSample
    /\ UNCHANGED <<ctrl, recover, stepVars, linkVars, windowVars, restVars, ghostVars>>

SampleExit ==
    /\ sampler = "idle"
    /\ cancel
    /\ sampler' = "none"
    /\ UNCHANGED <<ctrl, recover, stepVars, linkVars, windowVars, reading, sample, restVars,
                   ghostVars>>

Sampler ==
    \/ SampleLook \/ SampleArm \/ SampleRecheck \/ SampleStamp \/ SampleRead \/ SampleVerify
    \/ SampleEnd \/ SampleExit

-----------------------------------------------------------------------------
(***************************************************************************)
(* mqtt_rx, the recovery after a restart, the BLE driver and time.         *)
(***************************************************************************)
\* aging_command_json_parse, once both tasks of the last round have ended.
StartTask ==
    /\ ctrl = "none" /\ sampler = "none"
    /\ ctrl' = "check"
    /\ device' = TRUE
    /\ cancel' = FALSE
    /\ mode' = FALSE /\ replay' = FALSE
    /\ got' = 0 /\ retrying' = FALSE /\ deadline' = NoneYet
    /\ link' = 0 /\ ready' = 0 /\ recovering' = FALSE /\ lost' = 0
    /\ active' = FALSE /\ age' = 0 /\ lostAge' = 0 /\ failAge' = 0
    /\ torn' = FALSE /\ faulty' = FALSE /\ outage' = 0 /\ measured' = Unmeasured
    /\ UNCHANGED <<recover, cycle, step, current, previous, lastSession, sampleVars, canNext,
                   restarts, prepared>>

\* A new round: it inherits no cursor, and is recorded as valid.
Start ==
    /\ rx = "idle"
    /\ ~device
    /\ round < MaxRound
    /\ StartTask
    /\ round' = round + 1
    /\ resume' = NoCursor
    /\ nvs' = [nvs EXCEPT !.valid = TRUE]
    /\ done' = {}
    /\ group' \in {m = "group" : m \in Modes}
    /\ UNCHANGED rx

\* After a restart the round goes on from what NVS holds.
Resume ==
    /\ rx = "boot"
    /\ StartTask
    /\ resume' = nvs
    /\ rx' = "idle"
    /\ UNCHANGED <<group, nvs, round, done>>

\* stop_aging: aging_cancel_tasks.
Stop ==
    /\ rx = "idle"
    /\ device
    /\ rx' = "stop"
    /\ cancel' = TRUE
    /\ recovering' = TRUE
    /\ UNCHANGED <<ctrl, recover, stepVars, link, lastSession, ready, lost, windowVars, sampleVars,
                   device, canNext, group, resume, nvs, round, restarts, ghostVars>>

StopJoin ==
    /\ rx = "stop"
    /\ ctrl = "none" /\ sampler = "none"
    /\ rx' = "idle"
    /\ ready' = 0 /\ link' = 0
    /\ nvs' = [nvs EXCEPT !.valid = FALSE]
    /\ device' = FALSE
    /\ mode' = FALSE
    /\ resume' = NoCursor
    /\ UNCHANGED <<ctrl, recover, cycle, step, current, replay, previous, got, retrying, deadline,
                   lastSession, recovering, lost, windowVars, sampleVars, cancel, canNext, group, round,
                   restarts, ghostVars>>

\* The tasks take longer than AGING_CANCEL_WAIT_MS; the cancellation stays.
StopTimeout ==
    /\ rx = "stop"
    /\ rx' = "idle"
    /\ UNCHANGED <<ctrl, recover, stepVars, linkVars, windowVars, sampleVars, device, cancel,
                   canNext, group, resume, nvs, round, restarts, ghostVars>>

\* The server lets the group go on to the next step.
CanNextstep ==
    /\ rx = "idle"
    /\ ctrl # "none"
    /\ canNext' = TRUE
    /\ UNCHANGED <<ctrl, recover, stepVars, linkVars, windowVars, sampleVars, device, cancel, rx,
                   group, resume, nvs, round, restarts, ghostVars>>

\* ble_disconnect_cb, for a link that nobody has closed.
LinkLost ==
    /\ link # 0
    /\ link' = 0
    /\ lost' = link /\ lostAge' = 0
    /\ recovering' = (recovering \/ link = ready)
    /\ faulty' = TRUE
    /\ outage' = IF faulty THEN outage ELSE 0
    /\ UNCHANGED <<ctrl, recover, stepVars, lastSession, ready, active, age, failAge, sampleVars,
                   restVars, prepared, torn, done, measured>>

Older(running, time) == IF running /\ time < Limit THEN time + 1 ELSE time

Tick ==
    /\ ctrl # "none"
    /\ age' = Older(active, age)
    /\ lostAge' = Older(lost # 0, lostAge)
    /\ failAge' = Older(retrying, failAge)
    /\ outage' = Older(faulty, outage)
    /\ <<age, lostAge, failAge, outage>>' # <<age, lostAge, failAge, outage>>
    /\ UNCHANGED <<ctrl, recover, stepVars, linkVars, active, sampleVars, restVars, prepared, torn,
                   done, faulty, measured>>

\* A power loss: everything but NVS is gone.
Restart ==
    /\ restarts < MaxRestart
    /\ ctrl # "none"
    /\ restarts' = restarts + 1
    /\ ctrl' = "none" /\ recover' = "no"
    /\ cycle' = 0 /\ step' = 1 /\ current' = NoStep
    /\ mode' = FALSE /\ replay' = FALSE /\ previous' = 0 /\ got' = 0 /\ retrying' = FALSE
    /\ deadline' = NoneYet
    /\ link' = 0 /\ ready' = 0 /\ recovering' = FALSE /\ lost' = 0
    /\ active' = FALSE /\ age' = 0 /\ lostAge' = 0 /\ failAge' = 0
    /\ sampler' = "none" /\ reading' = FALSE /\ sample' = NoSample
    /\ device' = FALSE /\ cancel' = FALSE /\ canNext' = FALSE /\ resume' = NoCursor
    /\ rx' = IF nvs.valid THEN "boot" ELSE "idle"
    /\ prepared' = Untaken /\ torn' = FALSE /\ faulty' = FALSE /\ outage' = 0
    /\ measured' = Unmeasured
    /\ UNCHANGED <<lastSession, group, nvs, round, done>>

Next ==
    \/ Ctrl \/ Sampler
    \/ Start \/ Resume \/ Stop \/ StopJoin \/ StopTimeout \/ CanNextstep
    \/ LinkLost \/ Tick \/ Restart

Spec == Init /\ [][Next]_vars

\* Each task of FreeRTOS goes on, and a device on the bus answers or times out.
FairSpec == Spec /\ WF_vars(Ctrl) /\ WF_vars(Sampler)

-----------------------------------------------------------------------------
(***************************************************************************)
(* Properties.                                                             *)
(***************************************************************************)
Places == DOMAIN Then \cup {Then[c] : c \in DOMAIN Then}
              \cup {"none", "check", "work", "cycle", "step", "quiesce", "dataCheck", "complete", "exit",
                    "join"}

Sessions == 0 .. MaxSession
Indices  == (0 .. Cycles) \X (0 .. Len(Steps) + 1)
Cursors  == [valid : BOOLEAN, cycle : 0 .. Cycles, step : 1 .. Len(Steps),
             deadline : (0 .. MaxRound) \X (0 .. Cycles) \X (0 .. Len(Steps))]

\* Every variable has its type; a cursor in NVS always names a step there is, as
\* Aging_Test_Task (5251-5265) writes it only inside its loops.
TypeOK ==
    /\ ctrl \in Places
    /\ recover \in {"no", "quiet", "attempt", "probe", "actions", "ready", "verify", "over",
                    "pause"}
    /\ recover # "no" => ctrl \in DOMAIN Then
    /\ At \in Indices /\ current \in Indices
    /\ {mode, replay, retrying, recovering, active, reading, device, cancel, canNext, group, torn,
        faulty} \subseteq BOOLEAN
    /\ {previous, got, link, lastSession, ready, lost} \subseteq Sessions
    /\ {age, lostAge, failAge, outage} \subseteq 0 .. Limit
    /\ sampler \in {"none", "idle", "looked", "armed", "stamp", "first", "second", "verify",
                    "submit"}
    /\ sample \in [session : Sessions, step : Indices,
                   seen : SUBSET [session : Sessions, step : Indices]]
    /\ rx \in {"idle", "boot", "stop"}
    /\ {resume, nvs} \subseteq Cursors
    /\ deadline \in (0 .. MaxRound) \X (0 .. Cycles) \X (0 .. Len(Steps))
    /\ round \in 0 .. MaxRound /\ restarts \in 0 .. MaxRestart
    /\ prepared \in [session : Sessions, step : Indices]
    /\ measured \in [session : Sessions, prepared : [session : Sessions, step : Indices]]
    /\ done \subseteq Indices

\* A packet that is submitted holds the values of one connection and of the step
\* it is stamped with, however the control task, the recovery and the sampler
\* interleave (5711-5716, 5853-5859, 5886-5893 against 4971-4979).
SampleFromOneStep ==
    sampler = "submit" =>
        \A value \in sample.seen : value = [session |-> sample.session, step |-> sample.step]

\* The configuration and the device are not freed while a task may use them
\* (aging_finish_sampling 4390-4396, aging_cancel_tasks 4373-4387).
DeviceOutlivesUse == ctrl # "none" \/ sampler # "none" => device

\* While a step works on a connection that is declared ready, its pre-actions
\* have been taken on that very connection (4896-4900, 4978-4988).
WorkPrepared ==
    /\ ctrl \in {"stand", "standing", "poll", "read", "judge", "judged"}
    /\ recover = "no"
    /\ ready # 0
    => prepared = [session |-> ready, step |-> At]

\* Once the after-actions of a step have begun, nothing takes its pre-actions
\* again, up to the barrier of the group (5440-5442, 5487-5490).
TeardownFinal ==
    [][prepared' # prepared /\ prepared'.session # 0 => ~torn]_vars

\* A step that its condition ends is ended by a reading of the connection that stands now,
\* taken when the pre-actions of this very step were in force on that connection: neither
\* a reading from before a link that was lost and recovered in the checkpoint between the
\* reading and its use, nor one of a device that was not prepared yet (5365-5383).
JudgedByOwnReading ==
    [][ctrl = "judged" /\ ctrl' = "after" =>
          measured = [session |-> link, prepared |-> [session |-> link, step |-> At]]]_vars

\* One continuous fault has one window: a recovery under way is at least as old
\* as the fault, or as the first failure of the after-action it is for
\* (4913-4919, 4958-4960).
FaultWindow == recover # "no" => age >= IF retrying THEN failAge ELSE outage

\* Every step of every cycle of the command has been completed when the round is
\* declared complete, also after restarts (5237-5286).
NoStepSkipped ==
    ctrl = "dataCheck" => (0 .. Cycles - 1) \X (1 .. Len(Steps)) \subseteq done

\* A standing step waits for the deadline that was set for it (5302-5318).
StandingOwnDeadline == ctrl = "standing" => deadline = Instance

\* A cancelled round comes to its end, in both tasks (4373-4396).
StopCompletes == cancel ~> (ctrl = "none" /\ sampler = "none")

=============================================================================
