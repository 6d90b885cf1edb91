------------------------- MODULE AgingControl_proofs -------------------------
(***************************************************************************)
(* A round of AgingControl, for any command, window, number of sessions,   *)
(* rounds and restarts.  The inductive invariant says, beside the types:   *)
(* what the loops of AgingAction hold at each place (Loops); which         *)
(* connection the control task stands on (Links); which step and which     *)
(* connection the last pre-actions were for (Actions); what the sampler    *)
(* has read (Samples); how old the window and the fault are (Windows);     *)
(* and, from these, what a condition was measured under (Measured), and    *)
(* which steps are completed (Completed).                                  *)
(***************************************************************************)
EXTENDS AgingControl, TLAPS

(***************************************************************************)
(* The places.                                                             *)
(***************************************************************************)
Checkpoints == {"prepare", "enter", "begin", "rebegin", "stand", "poll", "judge", "after",
                "closing", "waiting", "released"}
Between   == {"entered", "begun", "rebegun", "standing", "read", "judged", "write", "closed",
              "barrier", "release", "check", "work", "cycle", "step", "quiesce", "dataCheck",
              "complete"}
Ends      == {"exit", "join", "none"}
Preparing == {"begin", "begun", "rebegin", "rebegun", "work"}
Working   == {"stand", "standing", "poll", "read", "judge", "judged"}
Tearing   == {"after", "write", "closing", "closed", "barrier", "waiting", "released", "release"}
Ended     == {"barrier", "waiting", "released", "release"}
InStep    == {"quiesce"} \cup Preparing \cup Working \cup Tearing

Recoveries == {"no", "quiet", "attempt", "probe", "actions", "ready", "verify", "over", "pause"}
\* The recovery has a connection of its own.
Connected == {"probe", "actions", "ready", "verify", "over"}

Samplers == {"none", "idle", "looked", "armed", "stamp", "first", "second", "verify", "submit"}
\* The sampler holds a stamp.
Stamped == {"first", "second", "verify", "submit"}
Busy    == {"stamp"} \cup Stamped

(***************************************************************************)
(* The invariant.                                                          *)
(***************************************************************************)
Deadlines == (0 .. MaxRound) \X (0 .. Cycles) \X (0 .. Len(Steps))
Taken     == [session : Sessions, step : Indices]
Packets   == [session : Sessions, step : Indices, seen : SUBSET Taken]

\* The places of the tasks.
Flow ==
    /\ ctrl \in Checkpoints \cup Between \cup Ends /\ recover \in Recoveries
    /\ recover # "no" => ctrl \in Checkpoints
    /\ sampler \in Samplers /\ rx \in {"idle", "boot", "stop"}

Flags ==
    /\ mode \in BOOLEAN /\ replay \in BOOLEAN /\ retrying \in BOOLEAN
    /\ recovering \in BOOLEAN /\ active \in BOOLEAN /\ reading \in BOOLEAN
    /\ device \in BOOLEAN /\ cancel \in BOOLEAN /\ canNext \in BOOLEAN /\ group \in BOOLEAN
    /\ torn \in BOOLEAN /\ faulty \in BOOLEAN

Numbers ==
    /\ previous \in Sessions /\ got \in Sessions /\ link \in Sessions
    /\ lastSession \in Sessions /\ ready \in Sessions /\ lost \in Sessions
    /\ age \in 0 .. Limit /\ lostAge \in 0 .. Limit /\ failAge \in 0 .. Limit
    /\ outage \in 0 .. Limit
    /\ round \in 0 .. MaxRound /\ restarts \in 0 .. MaxRestart

Cursored ==
    /\ cycle \in 0 .. Cycles /\ step \in 1 .. Len(Steps) + 1 /\ current \in Indices
    /\ resume \in Cursors /\ nvs \in Cursors /\ deadline \in Deadlines
    /\ prepared \in Taken /\ done \subseteq Indices

Stamps == sample \in Packets

Types == Flow /\ Flags /\ Numbers /\ Cursored /\ Stamps

\* A cycle has begun, and the step is one of the command.
Loops ==
    /\ ctrl \in {"step"} \cup InStep => cycle < Cycles
    /\ ctrl \in InStep => step <= Len(Steps)

\* The device is there as long as a task is.
Owned == ctrl # "none" \/ sampler # "none" => device

\* A connection is the last one made; outside of a recovery the control task stands on
\* the one that it has declared ready, and finds out whether a recovery was needed by
\* comparing it with the previous one.
Links ==
    /\ link \in {0, lastSession}
    /\ ready <= lastSession /\ previous <= lastSession
    /\ recover \in Connected => lastSession # 0 /\ (ctrl = "begin" => previous < lastSession)
    /\ recover \in {"verify", "over"} => ready = lastSession
    /\ recover = "no" /\ ctrl \notin Ends => ready \in {0, lastSession}
    /\ recover = "no" /\ ctrl \in {"begun", "rebegun", "work"} \cup Working
         => ready = lastSession /\ ready # 0
    /\ recover = "no" /\ ctrl = "begin" => ready = previous
    /\ recover = "no" /\ ctrl = "rebegin" => ready = 0

\* The pre-actions that are in force.
Actions ==
    /\ ctrl \in Preparing \cup Working => replay
    /\ replay => current = At /\ ctrl \in Preparing \cup Working \cup Ends
    /\ torn => ctrl \in Tearing \cup Ends
    /\ torn => ~replay
    /\ recover = "actions" => replay
    /\ recover \in {"ready", "verify", "over"} /\ replay
         => prepared = [session |-> lastSession, step |-> At]
    /\ recover = "no" /\ ctrl = "begun" /\ previous # ready
         => prepared = [session |-> lastSession, step |-> At]
    /\ recover = "no" /\ ctrl \in {"rebegun", "work"} \cup Working
         => prepared = [session |-> lastSession, step |-> At]

\* The sampler at work keeps the control task out of the next step and the recovery
\* out of its attempts, so that what it reads belongs to its stamp.
Samples ==
    /\ ctrl \in {"quiesce"} \cup Preparing => ~mode
    /\ mode => prepared.step = current
    /\ recover # "no" => recovering
    /\ ctrl = "check" => sampler = "none"
    /\ reading <=> sampler \in {"armed"} \cup Busy
    /\ sampler \in Busy =>
         /\ recover \in {"no", "quiet"} /\ ctrl \notin Preparing
         /\ prepared.step = current
    /\ sampler \in Stamped =>
         /\ sample.session = lastSession /\ sample.step = current
         /\ \A value \in sample.seen : value = [session |-> lastSession, step |-> current]

\* A recovery has a window that is as old as the fault, or as the first failure of the
\* after-action it is for; before it, the time of the loss is kept.
Windows ==
    /\ recover # "no" => active /\ faulty
    /\ recover # "no" /\ ~retrying => age >= outage
    /\ retrying => ctrl \in {"after", "write"} \cup Ends
    /\ retrying /\ (recover # "no" \/ ctrl = "after") => active /\ age >= failAge
    /\ recover = "no" /\ active /\ ctrl \notin Ends => ctrl = "after" /\ retrying /\ ready = 0
    /\ recover = "no" /\ ~active /\ faulty => link = 0 /\ lost # 0 /\ lostAge >= outage
    /\ recover = "over" /\ link # ready => lost # 0

ControlInv == Types /\ Loops /\ Owned /\ Links /\ Actions /\ Samples /\ Windows

\* A good reading that is to be judged was of a connection whose pre-actions were in force.
Judging  == {"judge", "judged"}
Own(s)   == [session |-> s, prepared |-> [session |-> s, step |-> At]]
Measured ==
    /\ measured \in [session : Sessions, prepared : Taken]
    /\ ctrl \in Judging /\ got # 0 => measured = Own(got)

\* The steps before step s of cycle c are among those completed.
Before(c, s, completed) ==
    \A d \in 0 .. Cycles - 1, t \in 1 .. Len(Steps) :
        d < c \/ (d = c /\ t < s) => <<d, t>> \in completed

\* The loops are at a step.
Looping == {"cycle", "step"} \cup InStep

\* No step is missing before the one at hand, while a round is not resumed, or the one
\* cycle of the first round is.
Completed ==
    /\ ctrl \in Looping => Before(cycle, step, done)
    /\ ctrl \in Ended => <<cycle, step>> \in done
    /\ ctrl = "dataCheck" => Before(Cycles, 1, done)
    /\ resume.valid => Before(resume.cycle, resume.step, done)
    /\ MaxRestart = 0 => ~resume.valid /\ rx # "boot"
    /\ Cycles = 1 /\ MaxRound <= 1 =>
         /\ nvs.cycle = 0 /\ Before(0, nvs.step, done)
         /\ round = 0 => nvs.step = 1
    /\ round = 0 => ctrl = "none" /\ rx # "boot" /\ ~nvs.valid

-----------------------------------------------------------------------------
(***************************************************************************)
(* Steps that change no more than the places, and what they lead to.       *)
(***************************************************************************)
\* The control task gives up, or ends after a cancellation.
Leaves ==
    \/ EnsureCancelled \/ QuiesceCancelled \/ CompletionCancelled \/ RecoverGiveUp
    \/ AfterGivenUp \/ ExitCancelled

\* It goes on.
Goes ==
    \/ RecoverQuiet \/ RecoverPause \/ RecoverVerify \/ AlreadyPrepared \/ PreparedAgain
    \/ StandingWait \/ Barrier \/ \E ok \in BOOLEAN : RecoverProbe(ok)

\* mqtt_rx cancels, or passes on what the server says.
Signals == Stop \/ StopTimeout \/ CanNextstep

\* Where a checkpoint leads to.
LEMMA Onward ==
  /\ DOMAIN Then = Checkpoints
  /\ \A c \in Checkpoints : <<c, Then[c]>> \in
       {<<"prepare", "enter">>, <<"enter", "entered">>, <<"begin", "begun">>,
        <<"rebegin", "rebegun">>, <<"stand", "standing">>, <<"poll", "read">>,
        <<"judge", "judged">>, <<"after", "write">>, <<"closing", "closed">>,
        <<"waiting", "barrier">>, <<"released", "release">>}
BY DEF Then, Checkpoints

\* What names a step and a deadline.
LEMMA IndexFits ==
  /\ Len(Steps) \in Nat \ {0}
  /\ \A c \in 0 .. Cycles :
       /\ \A s \in 0 .. Len(Steps) + 1 : <<c, s>> \in Indices
       /\ \A r \in 0 .. MaxRound, s \in 0 .. Len(Steps) : <<r, c, s>> \in Deadlines
<1>1. Len(Steps) \in Nat \ {0}
  BY ControlAssumption
<1> QED
  BY <1>1 DEF Indices, Deadlines

\* A cursor keeps its type when one of its fields is written.
LEMMA CursorFits ==
  /\ NoCursor \in Cursors /\ NoneYet \in Deadlines
  /\ \A n \in Cursors :
       /\ n.valid \in BOOLEAN /\ n.cycle \in 0 .. Cycles /\ n.step \in 1 .. Len(Steps)
       /\ n.deadline \in Deadlines
       /\ \A c \in 0 .. Cycles : [n EXCEPT !.cycle = c] \in Cursors
       /\ \A s \in 1 .. Len(Steps) : [n EXCEPT !.step = s] \in Cursors
       /\ \A d \in Deadlines : [n EXCEPT !.deadline = d] \in Cursors
       /\ \A v \in BOOLEAN : [n EXCEPT !.valid = v] \in Cursors
<1>1. NoneYet \in Deadlines
  BY IndexFits, ControlAssumption DEF NoneYet
<1>2. 0 \in 0 .. Cycles /\ 1 \in 1 .. Len(Steps)
  BY IndexFits, ControlAssumption
<1>3. NoCursor \in Cursors
  BY <1>1, <1>2 DEF NoCursor, Cursors, Deadlines
<1>4. ASSUME NEW n \in Cursors
      PROVE  /\ n.valid \in BOOLEAN /\ n.cycle \in 0 .. Cycles /\ n.step \in 1 .. Len(Steps)
             /\ n.deadline \in Deadlines
             /\ \A c \in 0 .. Cycles : [n EXCEPT !.cycle = c] \in Cursors
             /\ \A s \in 1 .. Len(Steps) : [n EXCEPT !.step = s] \in Cursors
             /\ \A d \in Deadlines : [n EXCEPT !.deadline = d] \in Cursors
             /\ \A v \in BOOLEAN : [n EXCEPT !.valid = v] \in Cursors
  BY <1>4 DEF Cursors, Deadlines
<1> QED
  BY <1>1, <1>3, <1>4

\* A stamp has the type of what it is built of.
LEMMA StampFits ==
  /\ Untaken \in Taken /\ NoSample \in Packets /\ NoStep \in Indices
  /\ \A s \in Sessions, i \in Indices :
       /\ [session |-> s, step |-> i] \in Taken
       /\ [session |-> s, step |-> i, seen |-> {}] \in Packets
  /\ \A t \in Taken : t.session \in Sessions /\ t.step \in Indices
  /\ \A p \in Packets :
       /\ p.session \in Sessions /\ p.step \in Indices /\ p.seen \subseteq Taken
       /\ \A t \in Taken : [p EXCEPT !.seen = @ \cup {t}] \in Packets
<1>1. 0 \in Sessions /\ <<0, 0>> \in Indices
  BY ControlAssumption DEF Sessions, Indices
<1> QED
  BY <1>1 DEF Untaken, NoSample, NoStep, Taken, Packets

\* The places keep their types.
LEMMA FlowKept == Flow /\ Next => Flow'
<1> SUFFICES ASSUME Flow, Next PROVE Flow'
  OBVIOUS
<1> USE Onward DEF Flow, Checkpoints, Between, Ends, Preparing, Working, Tearing, InStep,
    Recoveries, Connected, Samplers, Stamped, Busy, stepVars, linkVars, windowVars, sampleVars,
    restVars, ghostVars
<1>1. CASE Leaves
  BY <1>1 DEF Leaves, EnsureCancelled, AtCheckpoint, QuiesceCancelled, CompletionCancelled,
    RecoverGiveUp, GoesOn, AfterGivenUp, ExitCancelled
<1>2. CASE Goes
  BY <1>2 DEF Goes, RecoverQuiet, RecoverPause, GoesOn, RecoverVerify, AlreadyPrepared,
    PreparedAgain, StandingWait, Barrier, RecoverProbe, AfterProbe
<1>3. CASE EnsurePass
  BY <1>3 DEF EnsurePass, AtCheckpoint, Usable
<1>4. CASE EnsureEnter
  BY <1>4 DEF EnsureEnter, AtCheckpoint, Usable, Window
<1>5. CASE RecoverReady
  BY <1>5 DEF RecoverReady
<1>6. CASE RecoverOver
  BY <1>6 DEF RecoverOver
<1>7. CASE ActionBegin
  BY <1>7 DEF ActionBegin
<1>8. CASE CycleBegin
  BY <1>8 DEF CycleBegin
<1>9. CASE StepBegin
  BY <1>9 DEF StepBegin, StepCursor
<1>10. CASE CycleEnd
  BY <1>10 DEF CycleEnd
<1>11. CASE Quiesce
  BY <1>11 DEF Quiesce
<1>12. CASE WorkBegin
  BY <1>12 DEF WorkBegin
<1>13. CASE StandingBegin
  BY <1>13 DEF StandingBegin, Instance
<1>14. CASE ConditionNotMet
  BY <1>14 DEF ConditionNotMet
<1>15. CASE Tear
  BY <1>15 DEF Tear, GoodReading, ReplayOver
<1>16. CASE StepEnd
  BY <1>16 DEF StepEnd
<1>17. CASE Release
  BY <1>17 DEF Release
<1>18. CASE DataCheck
  BY <1>18 DEF DataCheck
<1>19. CASE Finish
  BY <1>19 DEF Finish
<1>20. CASE Join
  BY <1>20 DEF Join, Joined, NoCursor
<1>21. CASE \E ok \in BOOLEAN : RecoverConnect(ok)
  BY <1>21 DEF RecoverConnect, GoesOn
<1>22. CASE \E ok \in BOOLEAN : RecoverActions(ok)
  BY <1>22 DEF RecoverActions
<1>23. CASE \E ok \in BOOLEAN : StartCheck(ok)
  BY <1>23 DEF StartCheck
<1>24. CASE \E ok \in BOOLEAN : PreActions(ok)
  BY <1>24 DEF PreActions
<1>25. CASE \E ok \in BOOLEAN : ConditionRead(ok)
  BY <1>25 DEF ConditionRead
<1>26. CASE \E ok \in BOOLEAN : AfterActions(ok)
  BY <1>26 DEF AfterActions, RetryWindow
<1>27. CASE SampleLook
  BY <1>27 DEF SampleLook, SampleAllowed
<1>28. CASE SampleArm
  BY <1>28 DEF SampleArm
<1>29. CASE SampleRecheck
  BY <1>29 DEF SampleRecheck, StillOn, SampleAllowed
<1>30. CASE SampleStamp
  BY <1>30 DEF SampleStamp, SampleAllowed
<1>31. CASE SampleRead
  BY <1>31 DEF SampleRead
<1>32. CASE SampleVerify
  BY <1>32 DEF SampleVerify, SampleAllowed
<1>33. CASE SampleEnd
  BY <1>33 DEF SampleEnd, NoSample
<1>34. CASE SampleExit
  BY <1>34 DEF SampleExit
<1>35. CASE Signals
  BY <1>35 DEF Signals, Stop, StopTimeout, CanNextstep
<1>36. CASE Start
  BY <1>36 DEF Start, StartTask, NoCursor
<1>37. CASE Resume
  BY <1>37 DEF Resume, StartTask
<1>38. CASE StopJoin
  BY <1>38 DEF StopJoin, NoCursor
<1>39. CASE LinkLost
  BY <1>39 DEF LinkLost
<1>40. CASE Tick
  BY <1>40 DEF Tick, Older
<1>41. CASE Restart
  BY <1>41 DEF Restart, NoCursor, NoSample, NoStep, Untaken
<1> QED
  BY <1>1, <1>2, <1>3, <1>4, <1>5, <1>6, <1>7, <1>8, <1>9, <1>10, <1>11, <1>12, <1>13, <1>14,
    <1>15, <1>16, <1>17, <1>18, <1>19, <1>20, <1>21, <1>22, <1>23, <1>24, <1>25, <1>26, <1>27,
    <1>28, <1>29, <1>30, <1>31, <1>32, <1>33, <1>34, <1>35, <1>36, <1>37, <1>38, <1>39, <1>40,
    <1>41 DEF Next, Ctrl, Leaves, Goes, Signals, Sampler

\* So do the flags,
LEMMA FlagsKept == Flags /\ Next => Flags'
<1> SUFFICES ASSUME Flags, Next PROVE Flags'
  OBVIOUS
<1> USE DEF Flags, stepVars, linkVars, windowVars, sampleVars, restVars, ghostVars
<1>1. CASE Leaves
  BY <1>1 DEF Leaves, EnsureCancelled, AtCheckpoint, QuiesceCancelled, CompletionCancelled,
    RecoverGiveUp, GoesOn, AfterGivenUp, ExitCancelled
<1>2. CASE Goes
  BY <1>2 DEF Goes, RecoverQuiet, RecoverPause, GoesOn, RecoverVerify, AlreadyPrepared,
    PreparedAgain, StandingWait, Barrier, RecoverProbe, AfterProbe
<1>3. CASE EnsurePass
  BY <1>3 DEF EnsurePass, AtCheckpoint, Usable
<1>4. CASE EnsureEnter
  BY <1>4 DEF EnsureEnter, AtCheckpoint, Usable, Window
<1>5. CASE RecoverReady
  BY <1>5 DEF RecoverReady
<1>6. CASE RecoverOver
  BY <1>6 DEF RecoverOver
<1>7. CASE ActionBegin
  BY <1>7 DEF ActionBegin
<1>8. CASE CycleBegin
  BY <1>8 DEF CycleBegin
<1>9. CASE StepBegin
  BY <1>9 DEF StepBegin, StepCursor
<1>10. CASE CycleEnd
  BY <1>10 DEF CycleEnd
<1>11. CASE Quiesce
  BY <1>11 DEF Quiesce
<1>12. CASE WorkBegin
  BY <1>12 DEF WorkBegin
<1>13. CASE StandingBegin
  BY <1>13 DEF StandingBegin, Instance
<1>14. CASE ConditionNotMet
  BY <1>14 DEF ConditionNotMet
<1>15. CASE Tear
  BY <1>15 DEF Tear, GoodReading, ReplayOver
<1>16. CASE StepEnd
  BY <1>16 DEF StepEnd
<1>17. CASE Release
  BY <1>17 DEF Release
<1>18. CASE DataCheck
  BY <1>18 DEF DataCheck
<1>19. CASE Finish
  BY <1>19 DEF Finish
<1>20. CASE Join
  BY <1>20 DEF Join, Joined, NoCursor
<1>21. CASE \E ok \in BOOLEAN : RecoverConnect(ok)
  BY <1>21 DEF RecoverConnect, GoesOn
<1>22. CASE \E ok \in BOOLEAN : RecoverActions(ok)
  BY <1>22 DEF RecoverActions
<1>23. CASE \E ok \in BOOLEAN : StartCheck(ok)
  BY <1>23 DEF StartCheck
<1>24. CASE \E ok \in BOOLEAN : PreActions(ok)
  BY <1>24 DEF PreActions
<1>25. CASE \E ok \in BOOLEAN : ConditionRead(ok)
  BY <1>25 DEF ConditionRead
<1>26. CASE \E ok \in BOOLEAN : AfterActions(ok)
  <2>1. PICK ok \in BOOLEAN : AfterActions(ok)
    BY <1>26
  <2>2. CASE ok
    BY <2>1, <2>2 DEF AfterActions
  <2>3. CASE ~ok
    BY <2>1, <2>3 DEF AfterActions
  <2> QED
    BY <2>2, <2>3
<1>27. CASE SampleLook
  BY <1>27 DEF SampleLook, SampleAllowed
<1>28. CASE SampleArm
  BY <1>28 DEF SampleArm
<1>29. CASE SampleRecheck
  BY <1>29 DEF SampleRecheck, StillOn, SampleAllowed
<1>30. CASE SampleStamp
  BY <1>30 DEF SampleStamp, SampleAllowed
<1>31. CASE SampleRead
  BY <1>31 DEF SampleRead
<1>32. CASE SampleVerify
  BY <1>32 DEF SampleVerify, SampleAllowed
<1>33. CASE SampleEnd
  BY <1>33 DEF SampleEnd, NoSample
<1>34. CASE SampleExit
  BY <1>34 DEF SampleExit
<1>35. CASE Stop
  BY <1>35 DEF Stop
<1>36. CASE StopTimeout
  BY <1>36 DEF StopTimeout
<1>37. CASE CanNextstep
  BY <1>37 DEF CanNextstep
<1>38. CASE Start
  BY <1>38 DEF Start, StartTask, NoCursor
<1>39. CASE Resume
  BY <1>39 DEF Resume, StartTask
<1>40. CASE StopJoin
  BY <1>40 DEF StopJoin, NoCursor
<1>41. CASE LinkLost
  BY <1>41 DEF LinkLost
<1>42. CASE Tick
  BY <1>42 DEF Tick, Older
<1>43. CASE Restart
  BY <1>43 DEF Restart, NoCursor, NoSample, NoStep, Untaken
<1> QED
  BY <1>1, <1>2, <1>3, <1>4, <1>5, <1>6, <1>7, <1>8, <1>9, <1>10, <1>11, <1>12, <1>13, <1>14,
    <1>15, <1>16, <1>17, <1>18, <1>19, <1>20, <1>21, <1>22, <1>23, <1>24, <1>25, <1>26, <1>27,
    <1>28, <1>29, <1>30, <1>31, <1>32, <1>33, <1>34, <1>35, <1>36, <1>37, <1>38, <1>39, <1>40,
    <1>41, <1>42, <1>43 DEF Next, Ctrl, Leaves, Goes, Signals, Sampler

\* the sessions, the times and the counters,
LEMMA NumbersKept == Flow /\ Numbers /\ Next => Numbers'
<1> SUFFICES ASSUME Flow, Numbers, Next PROVE Numbers'
  OBVIOUS
<1> USE ControlAssumption, Onward DEF Flow, Numbers, Sessions, stepVars, linkVars, windowVars,
    sampleVars, restVars, ghostVars
<1>1. CASE Leaves
  BY <1>1 DEF Leaves, EnsureCancelled, AtCheckpoint, QuiesceCancelled, CompletionCancelled,
    RecoverGiveUp, GoesOn, AfterGivenUp, ExitCancelled
<1>2. CASE Goes
  BY <1>2 DEF Goes, RecoverQuiet, RecoverPause, GoesOn, RecoverVerify, AlreadyPrepared,
    PreparedAgain, StandingWait, Barrier, RecoverProbe, AfterProbe
<1>3. CASE EnsurePass
  BY <1>3 DEF EnsurePass, AtCheckpoint, Usable
<1>4. CASE EnsureEnter
  BY <1>4 DEF EnsureEnter, AtCheckpoint, Usable, Window
<1>5. CASE RecoverReady
  BY <1>5 DEF RecoverReady
<1>6. CASE RecoverOver
  BY <1>6 DEF RecoverOver
<1>7. CASE ActionBegin
  BY <1>7 DEF ActionBegin
<1>8. CASE CycleBegin
  BY <1>8 DEF CycleBegin
<1>9. CASE StepBegin
  BY <1>9 DEF StepBegin, StepCursor
<1>10. CASE CycleEnd
  BY <1>10 DEF CycleEnd
<1>11. CASE Quiesce
  BY <1>11 DEF Quiesce
<1>12. CASE WorkBegin
  BY <1>12 DEF WorkBegin
<1>13. CASE StandingBegin
  BY <1>13 DEF StandingBegin, Instance
<1>14. CASE ConditionNotMet
  BY <1>14 DEF ConditionNotMet
<1>15. CASE Tear
  BY <1>15 DEF Tear, GoodReading, ReplayOver
<1>16. CASE StepEnd
  BY <1>16 DEF StepEnd
<1>17. CASE Release
  BY <1>17 DEF Release
<1>18. CASE DataCheck
  BY <1>18 DEF DataCheck
<1>19. CASE Finish
  BY <1>19 DEF Finish
<1>20. CASE Join
  BY <1>20 DEF Join, Joined, NoCursor
<1>21. CASE \E ok \in BOOLEAN : RecoverConnect(ok)
  BY <1>21 DEF RecoverConnect, GoesOn
<1>22. CASE \E ok \in BOOLEAN : RecoverActions(ok)
  BY <1>22 DEF RecoverActions
<1>23. CASE \E ok \in BOOLEAN : StartCheck(ok)
  BY <1>23 DEF StartCheck
<1>24. CASE \E ok \in BOOLEAN : PreActions(ok)
  BY <1>24 DEF PreActions
<1>25. CASE \E ok \in BOOLEAN : ConditionRead(ok)
  BY <1>25 DEF ConditionRead
<1>26. CASE \E ok \in BOOLEAN : AfterActions(ok)
  BY <1>26 DEF AfterActions, RetryWindow
<1>27. CASE Sampler
  BY <1>27 DEF Sampler, SampleLook, SampleAllowed, SampleArm, SampleRecheck, StillOn,
    SampleStamp, SampleRead, SampleVerify, SampleEnd, NoSample, SampleExit
<1>28. CASE Signals
  BY <1>28 DEF Signals, Stop, StopTimeout, CanNextstep
<1>29. CASE Start
  <2>1. StartTask /\ round < MaxRound /\ round' = round + 1
    BY <1>29 DEF Start
  <2> QED
    BY <2>1 DEF StartTask
<1>30. CASE Resume
  BY <1>30 DEF Resume, StartTask
<1>31. CASE StopJoin
  BY <1>31 DEF StopJoin, NoCursor
<1>32. CASE LinkLost
  BY <1>32 DEF LinkLost
<1>33. CASE Tick
  BY <1>33 DEF Tick, Older
<1>34. CASE Restart
  BY <1>34 DEF Restart, NoCursor, NoSample, NoStep, Untaken
<1> QED
  BY <1>1, <1>2, <1>3, <1>4, <1>5, <1>6, <1>7, <1>8, <1>9, <1>10, <1>11, <1>12, <1>13, <1>14,
    <1>15, <1>16, <1>17, <1>18, <1>19, <1>20, <1>21, <1>22, <1>23, <1>24, <1>25, <1>26, <1>27,
    <1>28, <1>29, <1>30, <1>31, <1>32, <1>33, <1>34 DEF Next, Ctrl, Leaves, Goes, Signals

\* the places in the command, and the cursors,
LEMMA CursoredKept == Flow /\ Numbers /\ Cursored /\ Loops /\ Next => Cursored'
<1> SUFFICES ASSUME Flow, Numbers, Cursored, Loops, Next PROVE Cursored'
  OBVIOUS
<1> USE ControlAssumption, Onward, IndexFits, CursorFits, StampFits DEF Flow, Numbers,
    Cursored, Loops, Checkpoints, Between, Ends, Preparing, Working, Tearing, InStep, At,
    stepVars, linkVars, windowVars, sampleVars, restVars, ghostVars
<1>1. CASE Leaves
  BY <1>1 DEF Leaves, EnsureCancelled, AtCheckpoint, QuiesceCancelled, CompletionCancelled,
    RecoverGiveUp, GoesOn, AfterGivenUp, ExitCancelled
<1>2. CASE Goes
  BY <1>2 DEF Goes, RecoverQuiet, RecoverPause, GoesOn, RecoverVerify, AlreadyPrepared,
    PreparedAgain, StandingWait, Barrier, RecoverProbe, AfterProbe
<1>3. CASE EnsurePass
  BY <1>3 DEF EnsurePass, AtCheckpoint, Usable
<1>4. CASE EnsureEnter
  BY <1>4 DEF EnsureEnter, AtCheckpoint, Usable, Window
<1>5. CASE RecoverReady
  BY <1>5 DEF RecoverReady
<1>6. CASE RecoverOver
  BY <1>6 DEF RecoverOver
<1>7. CASE ActionBegin
  <2>1. UNCHANGED <<current, resume, nvs, deadline, prepared, done>>
    BY ONLY <1>7 DEF ActionBegin, linkVars, windowVars, sampleVars, restVars, ghostVars
  <2>2. resume.cycle \in 0 .. Cycles /\ resume.step \in 1 .. Len(Steps)
    BY ONLY Cursored, CursorFits DEF Cursored
  <2>3. cycle' \in {0, resume.cycle} /\ step' \in {1, resume.step}
    BY ONLY <1>7 DEF ActionBegin
  <2>4. cycle' \in 0 .. Cycles /\ step' \in 1 .. Len(Steps) + 1
    BY ONLY <2>2, <2>3, ControlAssumption, IndexFits
  <2> QED
    BY ONLY <2>1, <2>4, Cursored DEF Cursored
<1>8. CASE CycleBegin
  BY <1>8 DEF CycleBegin
<1>9. CASE StepBegin
  BY <1>9 DEF StepBegin, StepCursor
<1>10. CASE CycleEnd
  BY <1>10 DEF CycleEnd
<1>11. CASE Quiesce
  BY <1>11 DEF Quiesce
<1>12. CASE WorkBegin
  BY <1>12 DEF WorkBegin
<1>13. CASE StandingBegin
  <2>1. UNCHANGED <<cycle, step, current, resume, prepared, done>>
    BY <1>13 DEF StandingBegin
  <2>2. Instance \in Deadlines
    BY <1>13 DEF StandingBegin, Instance
  <2>3. /\ deadline' \in {resume.deadline, Instance}
        /\ nvs' = nvs \/ nvs' = [nvs EXCEPT !.deadline = Instance]
    BY <1>13 DEF StandingBegin
  <2>4. deadline' \in Deadlines /\ nvs' \in Cursors
    BY <2>2, <2>3
  <2> QED
    BY <2>1, <2>4
<1>14. CASE ConditionNotMet
  BY <1>14 DEF ConditionNotMet
<1>15. CASE Tear
  BY <1>15 DEF Tear, GoodReading, ReplayOver
<1>16. CASE StepEnd
  <2>1. /\ UNCHANGED <<cycle, current, resume, nvs, deadline, prepared>>
        /\ ctrl = "closed" /\ step' \in {step, step + 1} /\ done' = done \cup {<<cycle, step>>}
    BY <1>16 DEF StepEnd
  <2>2. step <= Len(Steps)
    BY <2>1
  <2>3. <<cycle, step>> \in Indices
    OBVIOUS
  <2> QED
    BY <2>1, <2>2, <2>3
<1>17. CASE Release
  BY <1>17 DEF Release
<1>18. CASE DataCheck
  BY <1>18 DEF DataCheck
<1>19. CASE Finish
  BY <1>19 DEF Finish
<1>20. CASE Join
  BY <1>20 DEF Join, Joined, NoCursor
<1>21. CASE \E ok \in BOOLEAN : RecoverConnect(ok)
  BY <1>21 DEF RecoverConnect, GoesOn
<1>22. CASE \E ok \in BOOLEAN : RecoverActions(ok)
  <2>1. PICK ok \in BOOLEAN : RecoverActions(ok)
    BY <1>22
  <2>2. /\ UNCHANGED <<cycle, step, current, resume, nvs, deadline, done>>
        /\ prepared' \in {prepared, [session |-> link, step |-> <<cycle, step>>]}
    BY <2>1 DEF RecoverActions
  <2>3. [session |-> link, step |-> <<cycle, step>>] \in Taken
    <3>1. <<cycle, step>> \in Indices /\ link \in Sessions
      OBVIOUS
    <3> QED
      BY ONLY <3>1, StampFits
  <2> QED
    BY <2>2, <2>3
<1>23. CASE \E ok \in BOOLEAN : StartCheck(ok)
  BY <1>23 DEF StartCheck
<1>24. CASE \E ok \in BOOLEAN : PreActions(ok)
  <2>1. PICK ok \in BOOLEAN : PreActions(ok)
    BY <1>24
  <2>2. /\ UNCHANGED <<cycle, step, current, resume, nvs, deadline, done>>
        /\ prepared' \in {prepared, [session |-> link, step |-> <<cycle, step>>]}
    BY <2>1 DEF PreActions
  <2>3. [session |-> link, step |-> <<cycle, step>>] \in Taken
    <3>1. <<cycle, step>> \in Indices /\ link \in Sessions
      OBVIOUS
    <3> QED
      BY ONLY <3>1, StampFits
  <2> QED
    BY <2>2, <2>3
<1>25. CASE \E ok \in BOOLEAN : ConditionRead(ok)
  BY <1>25 DEF ConditionRead
<1>26. CASE \E ok \in BOOLEAN : AfterActions(ok)
  BY <1>26 DEF AfterActions, RetryWindow
<1>27. CASE Sampler
  BY <1>27 DEF Sampler, SampleLook, SampleAllowed, SampleArm, SampleRecheck, StillOn,
    SampleStamp, SampleRead, SampleVerify, SampleEnd, NoSample, SampleExit
<1>28. CASE Signals
  BY <1>28 DEF Signals, Stop, StopTimeout, CanNextstep
<1>29. CASE Start
  BY <1>29 DEF Start, StartTask, NoCursor
<1>30. CASE Resume
  BY <1>30 DEF Resume, StartTask
<1>31. CASE StopJoin
  BY <1>31 DEF StopJoin, NoCursor
<1>32. CASE LinkLost
  BY <1>32 DEF LinkLost
<1>33. CASE Tick
  BY <1>33 DEF Tick, Older
<1>34. CASE Restart
  <2>1. /\ cycle' = 0 /\ step' = 1 /\ current' = NoStep /\ resume' = NoCursor
        /\ deadline' = NoneYet /\ prepared' = Untaken /\ UNCHANGED <<nvs, done>>
    BY <1>34 DEF Restart
  <2> QED
    BY <2>1
<1> QED
  BY <1>1, <1>2, <1>3, <1>4, <1>5, <1>6, <1>7, <1>8, <1>9, <1>10, <1>11, <1>12, <1>13, <1>14,
    <1>15, <1>16, <1>17, <1>18, <1>19, <1>20, <1>21, <1>22, <1>23, <1>24, <1>25, <1>26, <1>27,
    <1>28, <1>29, <1>30, <1>31, <1>32, <1>33, <1>34 DEF Next, Ctrl, Leaves, Goes, Signals

\* and the stamp.
LEMMA StampsKept == Numbers /\ Cursored /\ Stamps /\ Next => Stamps'
<1> SUFFICES ASSUME Numbers, Cursored, Stamps, Next PROVE Stamps'
  OBVIOUS
<1> USE StampFits DEF Numbers, Cursored, Stamps, stepVars, linkVars, windowVars, sampleVars,
    restVars, ghostVars
<1>1. CASE Leaves
  BY <1>1 DEF Leaves, EnsureCancelled, AtCheckpoint, QuiesceCancelled, CompletionCancelled,
    RecoverGiveUp, GoesOn, AfterGivenUp, ExitCancelled
<1>2. CASE Goes
  BY <1>2 DEF Goes, RecoverQuiet, RecoverPause, GoesOn, RecoverVerify, AlreadyPrepared,
    PreparedAgain, StandingWait, Barrier, RecoverProbe, AfterProbe
<1>3. CASE EnsurePass
  BY <1>3 DEF EnsurePass, AtCheckpoint, Usable
<1>4. CASE EnsureEnter
  BY <1>4 DEF EnsureEnter, AtCheckpoint, Usable, Window
<1>5. CASE RecoverReady
  BY <1>5 DEF RecoverReady
<1>6. CASE RecoverOver
  BY <1>6 DEF RecoverOver
<1>7. CASE ActionBegin
  BY <1>7 DEF ActionBegin
<1>8. CASE CycleBegin
  BY <1>8 DEF CycleBegin
<1>9. CASE StepBegin
  BY <1>9 DEF StepBegin, StepCursor
<1>10. CASE CycleEnd
  BY <1>10 DEF CycleEnd
<1>11. CASE Quiesce
  BY <1>11 DEF Quiesce
<1>12. CASE WorkBegin
  BY <1>12 DEF WorkBegin
<1>13. CASE StandingBegin
  BY <1>13 DEF StandingBegin, Instance
<1>14. CASE ConditionNotMet
  BY <1>14 DEF ConditionNotMet
<1>15. CASE Tear
  BY <1>15 DEF Tear, GoodReading, ReplayOver
<1>16. CASE StepEnd
  BY <1>16 DEF StepEnd
<1>17. CASE Release
  BY <1>17 DEF Release
<1>18. CASE DataCheck
  BY <1>18 DEF DataCheck
<1>19. CASE Finish
  BY <1>19 DEF Finish
<1>20. CASE Join
  BY <1>20 DEF Join, Joined, NoCursor
<1>21. CASE \E ok \in BOOLEAN : RecoverConnect(ok)
  BY <1>21 DEF RecoverConnect, GoesOn
<1>22. CASE \E ok \in BOOLEAN : RecoverActions(ok)
  BY <1>22 DEF RecoverActions
<1>23. CASE \E ok \in BOOLEAN : StartCheck(ok)
  BY <1>23 DEF StartCheck
<1>24. CASE \E ok \in BOOLEAN : PreActions(ok)
  BY <1>24 DEF PreActions
<1>25. CASE \E ok \in BOOLEAN : ConditionRead(ok)
  BY <1>25 DEF ConditionRead
<1>26. CASE \E ok \in BOOLEAN : AfterActions(ok)
  BY <1>26 DEF AfterActions, RetryWindow
<1>27. CASE SampleLook
  BY <1>27 DEF SampleLook, SampleAllowed
<1>28. CASE SampleArm
  BY <1>28 DEF SampleArm
<1>29. CASE SampleRecheck
  BY <1>29 DEF SampleRecheck, StillOn, SampleAllowed
<1>30. CASE SampleStamp
  BY <1>30 DEF SampleStamp, SampleAllowed
<1>31. CASE SampleRead
  BY <1>31 DEF SampleRead
<1>32. CASE SampleVerify
  BY <1>32 DEF SampleVerify, SampleAllowed
<1>33. CASE SampleEnd
  BY <1>33 DEF SampleEnd, NoSample
<1>34. CASE SampleExit
  BY <1>34 DEF SampleExit
<1>35. CASE Signals
  BY <1>35 DEF Signals, Stop, StopTimeout, CanNextstep
<1>36. CASE Start
  BY <1>36 DEF Start, StartTask, NoCursor
<1>37. CASE Resume
  BY <1>37 DEF Resume, StartTask
<1>38. CASE StopJoin
  BY <1>38 DEF StopJoin, NoCursor
<1>39. CASE LinkLost
  BY <1>39 DEF LinkLost
<1>40. CASE Tick
  BY <1>40 DEF Tick, Older
<1>41. CASE Restart
  BY <1>41 DEF Restart, NoCursor, NoSample, NoStep, Untaken
<1> QED
  BY <1>1, <1>2, <1>3, <1>4, <1>5, <1>6, <1>7, <1>8, <1>9, <1>10, <1>11, <1>12, <1>13, <1>14,
    <1>15, <1>16, <1>17, <1>18, <1>19, <1>20, <1>21, <1>22, <1>23, <1>24, <1>25, <1>26, <1>27,
    <1>28, <1>29, <1>30, <1>31, <1>32, <1>33, <1>34, <1>35, <1>36, <1>37, <1>38, <1>39, <1>40,
    <1>41 DEF Next, Ctrl, Leaves, Goes, Signals, Sampler

\* The loops stay within the command.
LEMMA LoopsKept == Flow /\ Cursored /\ Loops /\ Next => Loops'
<1> SUFFICES ASSUME Flow, Cursored, Loops, Next PROVE Loops'
  OBVIOUS
<1> USE Onward DEF Flow, Cursored, Loops, Checkpoints, Between, Ends, Preparing, Working,
    Tearing, InStep, Recoveries, Connected, stepVars, linkVars, windowVars, sampleVars,
    restVars, ghostVars
<1>1. CASE Leaves
  BY <1>1 DEF Leaves, EnsureCancelled, AtCheckpoint, QuiesceCancelled, CompletionCancelled,
    RecoverGiveUp, GoesOn, AfterGivenUp, ExitCancelled
<1>2. CASE Goes
  BY <1>2 DEF Goes, RecoverQuiet, RecoverPause, GoesOn, RecoverVerify, AlreadyPrepared,
    PreparedAgain, StandingWait, Barrier, RecoverProbe, AfterProbe
<1>3. CASE EnsurePass
  BY <1>3 DEF EnsurePass, AtCheckpoint, Usable
<1>4. CASE EnsureEnter
  BY <1>4 DEF EnsureEnter, AtCheckpoint, Usable, Window
<1>5. CASE RecoverReady
  BY <1>5 DEF RecoverReady
<1>6. CASE RecoverOver
  BY <1>6 DEF RecoverOver
<1>7. CASE ActionBegin
  BY <1>7 DEF ActionBegin
<1>8. CASE CycleBegin
  BY <1>8 DEF CycleBegin
<1>9. CASE StepBegin
  BY <1>9 DEF StepBegin, StepCursor
<1>10. CASE CycleEnd
  BY <1>10 DEF CycleEnd
<1>11. CASE Quiesce
  BY <1>11 DEF Quiesce
<1>12. CASE WorkBegin
  BY <1>12 DEF WorkBegin
<1>13. CASE StandingBegin
  BY <1>13 DEF StandingBegin, Instance
<1>14. CASE ConditionNotMet
  BY <1>14 DEF ConditionNotMet
<1>15. CASE Tear
  BY <1>15 DEF Tear, GoodReading, ReplayOver
<1>16. CASE StepEnd
  BY <1>16 DEF StepEnd
<1>17. CASE Release
  BY <1>17 DEF Release
<1>18. CASE DataCheck
  BY <1>18 DEF DataCheck
<1>19. CASE Finish
  BY <1>19 DEF Finish
<1>20. CASE Join
  BY <1>20 DEF Join, Joined, NoCursor
<1>21. CASE \E ok \in BOOLEAN : RecoverConnect(ok)
  BY <1>21 DEF RecoverConnect, GoesOn
<1>22. CASE \E ok \in BOOLEAN : RecoverActions(ok)
  BY <1>22 DEF RecoverActions
<1>23. CASE \E ok \in BOOLEAN : StartCheck(ok)
  BY <1>23 DEF StartCheck
<1>24. CASE \E ok \in BOOLEAN : PreActions(ok)
  BY <1>24 DEF PreActions
<1>25. CASE \E ok \in BOOLEAN : ConditionRead(ok)
  BY <1>25 DEF ConditionRead
<1>26. CASE \E ok \in BOOLEAN : AfterActions(ok)
  BY <1>26 DEF AfterActions, RetryWindow
<1>27. CASE Sampler
  BY <1>27 DEF Sampler, SampleLook, SampleAllowed, SampleArm, SampleRecheck, StillOn,
    SampleStamp, SampleRead, SampleVerify, SampleEnd, NoSample, SampleExit
<1>28. CASE Signals
  BY <1>28 DEF Signals, Stop, StopTimeout, CanNextstep
<1>29. CASE Start
  BY <1>29 DEF Start, StartTask, NoCursor
<1>30. CASE Resume
  BY <1>30 DEF Resume, StartTask
<1>31. CASE StopJoin
  BY <1>31 DEF StopJoin, NoCursor
<1>32. CASE LinkLost
  BY <1>32 DEF LinkLost
<1>33. CASE Tick
  BY <1>33 DEF Tick, Older
<1>34. CASE Restart
  BY <1>34 DEF Restart, NoCursor, NoSample, NoStep, Untaken
<1> QED
  BY <1>1, <1>2, <1>3, <1>4, <1>5, <1>6, <1>7, <1>8, <1>9, <1>10, <1>11, <1>12, <1>13, <1>14,
    <1>15, <1>16, <1>17, <1>18, <1>19, <1>20, <1>21, <1>22, <1>23, <1>24, <1>25, <1>26, <1>27,
    <1>28, <1>29, <1>30, <1>31, <1>32, <1>33, <1>34 DEF Next, Ctrl, Leaves, Goes, Signals

\* The device stays allocated under its tasks.
LEMMA OwnedKept == Flow /\ Owned /\ Next => Owned'
<1> SUFFICES ASSUME Flow, Owned, Next PROVE Owned'
  OBVIOUS
<1> USE Onward DEF Flow, Owned, Checkpoints, Between, Ends, Preparing, Working, Tearing,
    InStep, Recoveries, Connected, Samplers, Stamped, Busy, stepVars, linkVars, windowVars,
    sampleVars, restVars, ghostVars
<1>1. CASE Leaves
  BY <1>1 DEF Leaves, EnsureCancelled, AtCheckpoint, QuiesceCancelled, CompletionCancelled,
    RecoverGiveUp, GoesOn, AfterGivenUp, ExitCancelled
<1>2. CASE Goes
  BY <1>2 DEF Goes, RecoverQuiet, RecoverPause, GoesOn, RecoverVerify, AlreadyPrepared,
    PreparedAgain, StandingWait, Barrier, RecoverProbe, AfterProbe
<1>3. CASE EnsurePass
  BY <1>3 DEF EnsurePass, AtCheckpoint, Usable
<1>4. CASE EnsureEnter
  BY <1>4 DEF EnsureEnter, AtCheckpoint, Usable, Window
<1>5. CASE RecoverReady
  BY <1>5 DEF RecoverReady
<1>6. CASE RecoverOver
  BY <1>6 DEF RecoverOver
<1>7. CASE ActionBegin
  BY <1>7 DEF ActionBegin
<1>8. CASE CycleBegin
  BY <1>8 DEF CycleBegin
<1>9. CASE StepBegin
  BY <1>9 DEF StepBegin, StepCursor
<1>10. CASE CycleEnd
  BY <1>10 DEF CycleEnd
<1>11. CASE Quiesce
  BY <1>11 DEF Quiesce
<1>12. CASE WorkBegin
  BY <1>12 DEF WorkBegin
<1>13. CASE StandingBegin
  BY <1>13 DEF StandingBegin, Instance
<1>14. CASE ConditionNotMet
  BY <1>14 DEF ConditionNotMet
<1>15. CASE Tear
  BY <1>15 DEF Tear, GoodReading, ReplayOver
<1>16. CASE StepEnd
  BY <1>16 DEF StepEnd
<1>17. CASE Release
  BY <1>17 DEF Release
<1>18. CASE DataCheck
  BY <1>18 DEF DataCheck
<1>19. CASE Finish
  BY <1>19 DEF Finish
<1>20. CASE Join
  BY <1>20 DEF Join, Joined, NoCursor
<1>21. CASE \E ok \in BOOLEAN : RecoverConnect(ok)
  BY <1>21 DEF RecoverConnect, GoesOn
<1>22. CASE \E ok \in BOOLEAN : RecoverActions(ok)
  BY <1>22 DEF RecoverActions
<1>23. CASE \E ok \in BOOLEAN : StartCheck(ok)
  BY <1>23 DEF StartCheck
<1>24. CASE \E ok \in BOOLEAN : PreActions(ok)
  BY <1>24 DEF PreActions
<1>25. CASE \E ok \in BOOLEAN : ConditionRead(ok)
  BY <1>25 DEF ConditionRead
<1>26. CASE \E ok \in BOOLEAN : AfterActions(ok)
  BY <1>26 DEF AfterActions, RetryWindow
<1>27. CASE Sampler
  BY <1>27 DEF Sampler, SampleLook, SampleAllowed, SampleArm, SampleRecheck, StillOn,
    SampleStamp, SampleRead, SampleVerify, SampleEnd, NoSample, SampleExit
<1>28. CASE Signals
  BY <1>28 DEF Signals, Stop, StopTimeout, CanNextstep
<1>29. CASE Start
  BY <1>29 DEF Start, StartTask, NoCursor
<1>30. CASE Resume
  BY <1>30 DEF Resume, StartTask
<1>31. CASE StopJoin
  BY <1>31 DEF StopJoin, NoCursor
<1>32. CASE LinkLost
  BY <1>32 DEF LinkLost
<1>33. CASE Tick
  BY <1>33 DEF Tick, Older
<1>34. CASE Restart
  BY <1>34 DEF Restart, NoCursor, NoSample, NoStep, Untaken
<1> QED
  BY <1>1, <1>2, <1>3, <1>4, <1>5, <1>6, <1>7, <1>8, <1>9, <1>10, <1>11, <1>12, <1>13, <1>14,
    <1>15, <1>16, <1>17, <1>18, <1>19, <1>20, <1>21, <1>22, <1>23, <1>24, <1>25, <1>26, <1>27,
    <1>28, <1>29, <1>30, <1>31, <1>32, <1>33, <1>34 DEF Next, Ctrl, Leaves, Goes, Signals

\* The control task stands on the last connection.
LEMMA LinksKept == Flow /\ Numbers /\ Links /\ Next => Links'
<1> SUFFICES ASSUME Flow, Numbers, Links, Next PROVE Links'
  OBVIOUS
<1> USE Onward DEF Flow, Numbers, Links, Checkpoints, Between, Ends, Preparing, Working,
    Tearing, InStep, Recoveries, Connected, Sessions, stepVars, linkVars, windowVars,
    sampleVars, restVars, ghostVars
<1>1. CASE Leaves
  BY <1>1 DEF Leaves, EnsureCancelled, AtCheckpoint, QuiesceCancelled, CompletionCancelled,
    RecoverGiveUp, GoesOn, AfterGivenUp, ExitCancelled
<1>2. CASE Goes
  BY <1>2 DEF Goes, RecoverQuiet, RecoverPause, GoesOn, RecoverVerify, AlreadyPrepared,
    PreparedAgain, StandingWait, Barrier, RecoverProbe, AfterProbe
<1>3. CASE EnsurePass
  BY <1>3 DEF EnsurePass, AtCheckpoint, Usable
<1>4. CASE EnsureEnter
  BY <1>4 DEF EnsureEnter, AtCheckpoint, Usable, Window
<1>5. CASE RecoverReady
  BY <1>5 DEF RecoverReady
<1>6. CASE RecoverOver
  BY <1>6 DEF RecoverOver
<1>7. CASE ActionBegin
  BY <1>7 DEF ActionBegin
<1>8. CASE CycleBegin
  BY <1>8 DEF CycleBegin
<1>9. CASE StepBegin
  BY <1>9 DEF StepBegin, StepCursor
<1>10. CASE CycleEnd
  BY <1>10 DEF CycleEnd
<1>11. CASE Quiesce
  BY <1>11 DEF Quiesce
<1>12. CASE WorkBegin
  BY <1>12 DEF WorkBegin
<1>13. CASE StandingBegin
  BY <1>13 DEF StandingBegin, Instance
<1>14. CASE ConditionNotMet
  BY <1>14 DEF ConditionNotMet
<1>15. CASE Tear
  BY <1>15 DEF Tear, GoodReading, ReplayOver
<1>16. CASE StepEnd
  BY <1>16 DEF StepEnd
<1>17. CASE Release
  BY <1>17 DEF Release
<1>18. CASE DataCheck
  BY <1>18 DEF DataCheck
<1>19. CASE Finish
  BY <1>19 DEF Finish
<1>20. CASE Join
  BY <1>20 DEF Join, Joined, NoCursor
<1>21. CASE \E ok \in BOOLEAN : RecoverConnect(ok)
  BY <1>21 DEF RecoverConnect, GoesOn
<1>22. CASE \E ok \in BOOLEAN : RecoverActions(ok)
  BY <1>22 DEF RecoverActions
<1>23. CASE \E ok \in BOOLEAN : StartCheck(ok)
  BY <1>23 DEF StartCheck
<1>24. CASE \E ok \in BOOLEAN : PreActions(ok)
  BY <1>24 DEF PreActions
<1>25. CASE \E ok \in BOOLEAN : ConditionRead(ok)
  BY <1>25 DEF ConditionRead
<1>26. CASE \E ok \in BOOLEAN : AfterActions(ok)
  BY <1>26 DEF AfterActions, RetryWindow
<1>27. CASE Sampler
  BY <1>27 DEF Sampler, SampleLook, SampleAllowed, SampleArm, SampleRecheck, StillOn,
    SampleStamp, SampleRead, SampleVerify, SampleEnd, NoSample, SampleExit
<1>28. CASE Signals
  BY <1>28 DEF Signals, Stop, StopTimeout, CanNextstep
<1>29. CASE Start
  BY <1>29 DEF Start, StartTask, NoCursor
<1>30. CASE Resume
  BY <1>30 DEF Resume, StartTask
<1>31. CASE StopJoin
  BY <1>31 DEF StopJoin, NoCursor
<1>32. CASE LinkLost
  BY <1>32 DEF LinkLost
<1>33. CASE Tick
  BY <1>33 DEF Tick, Older
<1>34. CASE Restart
  BY <1>34 DEF Restart, NoCursor, NoSample, NoStep, Untaken
<1> QED
  BY <1>1, <1>2, <1>3, <1>4, <1>5, <1>6, <1>7, <1>8, <1>9, <1>10, <1>11, <1>12, <1>13, <1>14,
    <1>15, <1>16, <1>17, <1>18, <1>19, <1>20, <1>21, <1>22, <1>23, <1>24, <1>25, <1>26, <1>27,
    <1>28, <1>29, <1>30, <1>31, <1>32, <1>33, <1>34 DEF Next, Ctrl, Leaves, Goes, Signals

\* The pre-actions in force are those of the step and the connection.
LEMMA ActionsKept == Flow /\ Flags /\ Links /\ Actions /\ Next => Actions'
<1> SUFFICES ASSUME Flow, Flags, Links, Actions, Next PROVE Actions'
  OBVIOUS
<1> USE Onward DEF Flow, Flags, Links, Actions, Checkpoints, Between, Ends, Preparing,
    Working, Tearing, InStep, Recoveries, Connected, At, stepVars, linkVars, windowVars,
    sampleVars, restVars, ghostVars
<1>1. CASE Leaves
  BY <1>1 DEF Leaves, EnsureCancelled, AtCheckpoint, QuiesceCancelled, CompletionCancelled,
    RecoverGiveUp, GoesOn, AfterGivenUp, ExitCancelled
<1>2. CASE Goes
  BY <1>2 DEF Goes, RecoverQuiet, RecoverPause, GoesOn, RecoverVerify, AlreadyPrepared,
    PreparedAgain, StandingWait, Barrier, RecoverProbe, AfterProbe
<1>3. CASE EnsurePass
  BY <1>3 DEF EnsurePass, AtCheckpoint, Usable
<1>4. CASE EnsureEnter
  BY <1>4 DEF EnsureEnter, AtCheckpoint, Usable, Window
<1>5. CASE RecoverReady
  BY <1>5 DEF RecoverReady
<1>6. CASE RecoverOver
  BY <1>6 DEF RecoverOver
<1>7. CASE ActionBegin
  BY <1>7 DEF ActionBegin
<1>8. CASE CycleBegin
  BY <1>8 DEF CycleBegin
<1>9. CASE StepBegin
  BY <1>9 DEF StepBegin, StepCursor
<1>10. CASE CycleEnd
  BY <1>10 DEF CycleEnd
<1>11. CASE Quiesce
  BY <1>11 DEF Quiesce
<1>12. CASE WorkBegin
  BY <1>12 DEF WorkBegin
<1>13. CASE StandingBegin
  BY <1>13 DEF StandingBegin, Instance
<1>14. CASE ConditionNotMet
  BY <1>14 DEF ConditionNotMet
<1>15. CASE Tear
  BY <1>15 DEF Tear, GoodReading, ReplayOver
<1>16. CASE StepEnd
  BY <1>16 DEF StepEnd
<1>17. CASE Release
  BY <1>17 DEF Release
<1>18. CASE DataCheck
  BY <1>18 DEF DataCheck
<1>19. CASE Finish
  BY <1>19 DEF Finish
<1>20. CASE Join
  BY <1>20 DEF Join, Joined, NoCursor
<1>21. CASE \E ok \in BOOLEAN : RecoverConnect(ok)
  BY <1>21 DEF RecoverConnect, GoesOn
<1>22. CASE \E ok \in BOOLEAN : RecoverActions(ok)
  BY <1>22 DEF RecoverActions
<1>23. CASE \E ok \in BOOLEAN : StartCheck(ok)
  BY <1>23 DEF StartCheck
<1>24. CASE \E ok \in BOOLEAN : PreActions(ok)
  BY <1>24 DEF PreActions
<1>25. CASE \E ok \in BOOLEAN : ConditionRead(ok)
  BY <1>25 DEF ConditionRead
<1>26. CASE \E ok \in BOOLEAN : AfterActions(ok)
  BY <1>26 DEF AfterActions, RetryWindow
<1>27. CASE Sampler
  BY <1>27 DEF Sampler, SampleLook, SampleAllowed, SampleArm, SampleRecheck, StillOn,
    SampleStamp, SampleRead, SampleVerify, SampleEnd, NoSample, SampleExit
<1>28. CASE Signals
  BY <1>28 DEF Signals, Stop, StopTimeout, CanNextstep
<1>29. CASE Start
  BY <1>29 DEF Start, StartTask, NoCursor
<1>30. CASE Resume
  BY <1>30 DEF Resume, StartTask
<1>31. CASE StopJoin
  BY <1>31 DEF StopJoin, NoCursor
<1>32. CASE LinkLost
  BY <1>32 DEF LinkLost
<1>33. CASE Tick
  BY <1>33 DEF Tick, Older
<1>34. CASE Restart
  BY <1>34 DEF Restart, NoCursor, NoSample, NoStep, Untaken
<1> QED
  BY <1>1, <1>2, <1>3, <1>4, <1>5, <1>6, <1>7, <1>8, <1>9, <1>10, <1>11, <1>12, <1>13, <1>14,
    <1>15, <1>16, <1>17, <1>18, <1>19, <1>20, <1>21, <1>22, <1>23, <1>24, <1>25, <1>26, <1>27,
    <1>28, <1>29, <1>30, <1>31, <1>32, <1>33, <1>34 DEF Next, Ctrl, Leaves, Goes, Signals

\* The sampler at work holds off the next step and the next connection.
LEMMA SamplesKept == Flow /\ Flags /\ Links /\ Actions /\ Samples /\ Next => Samples'
<1> SUFFICES ASSUME Flow, Flags, Links, Actions, Samples, Next PROVE Samples'
  OBVIOUS
<1> USE Onward DEF Flow, Flags, Links, Actions, Samples, Checkpoints, Between, Ends,
    Preparing, Working, Tearing, InStep, Recoveries, Connected, Samplers, Stamped, Busy, At,
    stepVars, linkVars, windowVars, sampleVars, restVars, ghostVars
<1>1. CASE Leaves
  BY <1>1 DEF Leaves, EnsureCancelled, AtCheckpoint, QuiesceCancelled, CompletionCancelled,
    RecoverGiveUp, GoesOn, AfterGivenUp, ExitCancelled
<1>2. CASE Goes
  BY <1>2 DEF Goes, RecoverQuiet, RecoverPause, GoesOn, RecoverVerify, AlreadyPrepared,
    PreparedAgain, StandingWait, Barrier, RecoverProbe, AfterProbe
<1>3. CASE EnsurePass
  BY <1>3 DEF EnsurePass, AtCheckpoint, Usable
<1>4. CASE EnsureEnter
  BY <1>4 DEF EnsureEnter, AtCheckpoint, Usable, Window
<1>5. CASE RecoverReady
  BY <1>5 DEF RecoverReady
<1>6. CASE RecoverOver
  BY <1>6 DEF RecoverOver
<1>7. CASE ActionBegin
  BY <1>7 DEF ActionBegin
<1>8. CASE CycleBegin
  BY <1>8 DEF CycleBegin
<1>9. CASE StepBegin
  BY <1>9 DEF StepBegin, StepCursor
<1>10. CASE CycleEnd
  BY <1>10 DEF CycleEnd
<1>11. CASE Quiesce
  BY <1>11 DEF Quiesce
<1>12. CASE WorkBegin
  BY <1>12 DEF WorkBegin
<1>13. CASE StandingBegin
  BY <1>13 DEF StandingBegin, Instance
<1>14. CASE ConditionNotMet
  BY <1>14 DEF ConditionNotMet
<1>15. CASE Tear
  BY <1>15 DEF Tear, GoodReading, ReplayOver
<1>16. CASE StepEnd
  BY <1>16 DEF StepEnd
<1>17. CASE Release
  BY <1>17 DEF Release
<1>18. CASE DataCheck
  BY <1>18 DEF DataCheck
<1>19. CASE Finish
  BY <1>19 DEF Finish
<1>20. CASE Join
  BY <1>20 DEF Join, Joined, NoCursor
<1>21. CASE \E ok \in BOOLEAN : RecoverConnect(ok)
  BY <1>21 DEF RecoverConnect, GoesOn
<1>22. CASE \E ok \in BOOLEAN : RecoverActions(ok)
  BY <1>22 DEF RecoverActions
<1>23. CASE \E ok \in BOOLEAN : StartCheck(ok)
  <2>1. PICK ok \in BOOLEAN : StartCheck(ok)
    BY <1>23
  <2>2. /\ ctrl = "check" /\ ctrl' \in {"prepare", "exit"} /\ recover' = recover
        /\ sampler' = sampler \/ sampler' = "idle"
    BY <2>1 DEF StartCheck
  <2>3. UNCHANGED <<mode, prepared, current, recovering, reading, sample, lastSession>>
    BY <2>1 DEF StartCheck
  <2> QED
    BY <2>2, <2>3
<1>24. CASE \E ok \in BOOLEAN : PreActions(ok)
  BY <1>24 DEF PreActions
<1>25. CASE \E ok \in BOOLEAN : ConditionRead(ok)
  BY <1>25 DEF ConditionRead
<1>26. CASE \E ok \in BOOLEAN : AfterActions(ok)
  BY <1>26 DEF AfterActions, RetryWindow
<1>27. CASE SampleLook
  BY <1>27 DEF SampleLook, SampleAllowed
<1>28. CASE SampleArm
  BY <1>28 DEF SampleArm
<1>29. CASE SampleRecheck
  BY <1>29 DEF SampleRecheck, StillOn, SampleAllowed
<1>30. CASE SampleStamp
  BY <1>30 DEF SampleStamp, SampleAllowed
<1>31. CASE SampleRead
  BY <1>31 DEF SampleRead
<1>32. CASE SampleVerify
  BY <1>32 DEF SampleVerify, SampleAllowed
<1>33. CASE SampleEnd
  BY <1>33 DEF SampleEnd, NoSample
<1>34. CASE SampleExit
  BY <1>34 DEF SampleExit
<1>35. CASE Signals
  BY <1>35 DEF Signals, Stop, StopTimeout, CanNextstep
<1>36. CASE Start
  BY <1>36 DEF Start, StartTask, NoCursor
<1>37. CASE Resume
  BY <1>37 DEF Resume, StartTask
<1>38. CASE StopJoin
  BY <1>38 DEF StopJoin, NoCursor
<1>39. CASE LinkLost
  BY <1>39 DEF LinkLost
<1>40. CASE Tick
  BY <1>40 DEF Tick, Older
<1>41. CASE Restart
  BY <1>41 DEF Restart, NoCursor, NoSample, NoStep, Untaken
<1> QED
  BY <1>1, <1>2, <1>3, <1>4, <1>5, <1>6, <1>7, <1>8, <1>9, <1>10, <1>11, <1>12, <1>13, <1>14,
    <1>15, <1>16, <1>17, <1>18, <1>19, <1>20, <1>21, <1>22, <1>23, <1>24, <1>25, <1>26, <1>27,
    <1>28, <1>29, <1>30, <1>31, <1>32, <1>33, <1>34, <1>35, <1>36, <1>37, <1>38, <1>39, <1>40,
    <1>41 DEF Next, Ctrl, Leaves, Goes, Signals, Sampler

\* The window grows with the fault.
LEMMA WindowsKept == Flow /\ Flags /\ Numbers /\ Links /\ Windows /\ Next => Windows'
<1> SUFFICES ASSUME Flow, Flags, Numbers, Links, Windows, Next PROVE Windows'
  OBVIOUS
<1> USE ControlAssumption, Onward DEF Flow, Flags, Numbers, Links, Windows, Checkpoints,
    Between, Ends, Preparing, Working, Tearing, InStep, Recoveries, Connected, Sessions,
    stepVars, linkVars, windowVars, sampleVars, restVars, ghostVars
<1>1. CASE Leaves
  BY <1>1 DEF Leaves, EnsureCancelled, AtCheckpoint, QuiesceCancelled, CompletionCancelled,
    RecoverGiveUp, GoesOn, AfterGivenUp, ExitCancelled
<1>2. CASE RecoverQuiet
  BY <1>2 DEF RecoverQuiet
<1>3. CASE RecoverPause
  BY <1>3 DEF RecoverPause, GoesOn
<1>4. CASE RecoverVerify
  BY <1>4 DEF RecoverVerify
<1>5. CASE AlreadyPrepared
  BY <1>5 DEF AlreadyPrepared
<1>6. CASE PreparedAgain
  BY <1>6 DEF PreparedAgain
<1>7. CASE StandingWait
  BY <1>7 DEF StandingWait
<1>8. CASE Barrier
  BY <1>8 DEF Barrier
<1>9. CASE \E ok \in BOOLEAN : RecoverProbe(ok)
  BY <1>9 DEF RecoverProbe, AfterProbe
<1>10. CASE EnsurePass
  BY <1>10 DEF EnsurePass, AtCheckpoint, Usable
<1>11. CASE EnsureEnter
  BY <1>11 DEF EnsureEnter, AtCheckpoint, Usable, Window
<1>12. CASE RecoverReady
  BY <1>12 DEF RecoverReady
<1>13. CASE RecoverOver
  <2>1. CASE link = ready
    <3>1. ~faulty'
      BY <1>13, <2>1 DEF RecoverOver
    <3> QED
      BY <1>13, <3>1 DEF RecoverOver
  <2>2. CASE link # ready
    <3>1. faulty' /\ outage' = lostAge
      BY <1>13, <2>2 DEF RecoverOver
    <3>2. link' = link /\ ready' = ready /\ lost' = lost /\ lostAge' = lostAge
      BY <1>13 DEF RecoverOver
    <3>3. link' = 0 /\ lost' # 0 /\ lostAge' >= outage'
      BY <1>13, <2>2, <3>1, <3>2 DEF RecoverOver
    <3> QED
      BY <1>13, <3>1, <3>3 DEF RecoverOver
  <2> QED
    BY <2>1, <2>2
<1>14. CASE ActionBegin
  BY <1>14 DEF ActionBegin
<1>15. CASE CycleBegin
  BY <1>15 DEF CycleBegin
<1>16. CASE StepBegin
  BY <1>16 DEF StepBegin, StepCursor
<1>17. CASE CycleEnd
  BY <1>17 DEF CycleEnd
<1>18. CASE Quiesce
  BY <1>18 DEF Quiesce
<1>19. CASE WorkBegin
  BY <1>19 DEF WorkBegin
<1>20. CASE StandingBegin
  BY <1>20 DEF StandingBegin, Instance
<1>21. CASE ConditionNotMet
  BY <1>21 DEF ConditionNotMet
<1>22. CASE Tear
  BY <1>22 DEF Tear, GoodReading, ReplayOver
<1>23. CASE StepEnd
  BY <1>23 DEF StepEnd
<1>24. CASE Release
  BY <1>24 DEF Release
<1>25. CASE DataCheck
  BY <1>25 DEF DataCheck
<1>26. CASE Finish
  BY <1>26 DEF Finish
<1>27. CASE Join
  BY <1>27 DEF Join, Joined, NoCursor
<1>28. CASE \E ok \in BOOLEAN : RecoverConnect(ok)
  BY <1>28 DEF RecoverConnect, GoesOn
<1>29. CASE \E ok \in BOOLEAN : RecoverActions(ok)
  BY <1>29 DEF RecoverActions
<1>30. CASE \E ok \in BOOLEAN : StartCheck(ok)
  BY <1>30 DEF StartCheck
<1>31. CASE \E ok \in BOOLEAN : PreActions(ok)
  BY <1>31 DEF PreActions
<1>32. CASE \E ok \in BOOLEAN : ConditionRead(ok)
  BY <1>32 DEF ConditionRead
<1>33. CASE \E ok \in BOOLEAN : AfterActions(ok)
  BY <1>33 DEF AfterActions, RetryWindow
<1>34. CASE SampleLook
  BY <1>34 DEF SampleLook, SampleAllowed
<1>35. CASE SampleArm
  BY <1>35 DEF SampleArm
<1>36. CASE SampleRecheck
  BY <1>36 DEF SampleRecheck, StillOn, SampleAllowed
<1>37. CASE SampleStamp
  BY <1>37 DEF SampleStamp, SampleAllowed
<1>38. CASE SampleRead
  BY <1>38 DEF SampleRead
<1>39. CASE SampleVerify
  BY <1>39 DEF SampleVerify, SampleAllowed
<1>40. CASE SampleEnd
  BY <1>40 DEF SampleEnd, NoSample
<1>41. CASE SampleExit
  BY <1>41 DEF SampleExit
<1>42. CASE Signals
  BY <1>42 DEF Signals, Stop, StopTimeout, CanNextstep
<1>43. CASE Start
  BY <1>43 DEF Start, StartTask, NoCursor
<1>44. CASE Resume
  BY <1>44 DEF Resume, StartTask
<1>45. CASE StopJoin
  BY <1>45 DEF StopJoin, NoCursor
<1>46. CASE LinkLost
  BY <1>46 DEF LinkLost
<1>47. CASE Tick
  BY <1>47 DEF Tick, Older
<1>48. CASE Restart
  BY <1>48 DEF Restart, NoCursor, NoSample, NoStep, Untaken
<1> QED
  BY <1>1, <1>2, <1>3, <1>4, <1>5, <1>6, <1>7, <1>8, <1>9, <1>10, <1>11, <1>12, <1>13, <1>14,
    <1>15, <1>16, <1>17, <1>18, <1>19, <1>20, <1>21, <1>22, <1>23, <1>24, <1>25, <1>26, <1>27,
    <1>28, <1>29, <1>30, <1>31, <1>32, <1>33, <1>34, <1>35, <1>36, <1>37, <1>38, <1>39, <1>40,
    <1>41, <1>42, <1>43, <1>44, <1>45, <1>46, <1>47, <1>48 DEF Next, Ctrl, Leaves, Goes,
    Signals, Sampler

-----------------------------------------------------------------------------
(***************************************************************************)
(* What the action properties rest on.                                     *)
(***************************************************************************)
\* What may take the pre-actions of a step, or forget them.
LEMMA PreparedBy ==
  Next /\ prepared' # prepared
    => \/ \E ok \in BOOLEAN : RecoverActions(ok) \/ PreActions(ok)
       \/ Restart
<1> SUFFICES ASSUME Next, ~(\E ok \in BOOLEAN : RecoverActions(ok) \/ PreActions(ok)), ~Restart
             PROVE  prepared' = prepared
  OBVIOUS
<1> USE DEF ghostVars
<1>1. CASE Leaves \/ Goes
  BY <1>1 DEF Leaves, EnsureCancelled, QuiesceCancelled, CompletionCancelled, RecoverGiveUp,
     AfterGivenUp, ExitCancelled, Goes, RecoverQuiet, RecoverPause, RecoverVerify,
     AlreadyPrepared, PreparedAgain, StandingWait, Barrier, RecoverProbe
<1>2. CASE EnsurePass \/ EnsureEnter \/ RecoverReady \/ RecoverOver
  BY <1>2 DEF EnsurePass, EnsureEnter, RecoverReady, RecoverOver
<1>3. CASE \E ok \in BOOLEAN :
             RecoverConnect(ok) \/ StartCheck(ok) \/ ConditionRead(ok) \/ AfterActions(ok)
  BY <1>3 DEF RecoverConnect, StartCheck, ConditionRead, AfterActions
<1>4. CASE \/ ActionBegin \/ CycleBegin \/ StepBegin \/ CycleEnd \/ Quiesce \/ WorkBegin
           \/ StandingBegin \/ ConditionNotMet
  BY <1>4 DEF ActionBegin, CycleBegin, StepBegin, CycleEnd, Quiesce, WorkBegin, StandingBegin,
     ConditionNotMet
<1>5. CASE Tear \/ StepEnd \/ Release \/ DataCheck \/ Finish \/ Join
  BY <1>5 DEF Tear, StepEnd, Release, DataCheck, Finish, Join
<1>6. CASE Sampler
  BY <1>6 DEF Sampler, SampleLook, SampleArm, SampleRecheck, SampleStamp, SampleRead,
     SampleVerify, SampleEnd, SampleExit
<1>7. CASE Start \/ Resume \/ Signals \/ StopJoin \/ LinkLost \/ Tick
  BY <1>7 DEF Start, Resume, StartTask, Signals, Stop, StopTimeout, CanNextstep, StopJoin,
     LinkLost, Tick
<1> QED
  BY <1>1, <1>2, <1>3, <1>4, <1>5, <1>6, <1>7 DEF Next, Ctrl, Leaves, Goes, Signals

\* What may begin the after-actions of a step whose condition has been judged.
LEMMA JudgedBy ==
  Next /\ recover = "no" /\ ctrl = "judged" /\ ctrl' = "after" => GoodReading
<1> SUFFICES ASSUME Next, recover = "no", ctrl = "judged", ctrl' = "after" PROVE GoodReading
  OBVIOUS
<1>1. ~Leaves /\ ~Goes
  BY Onward DEF Leaves, EnsureCancelled, AtCheckpoint, QuiesceCancelled, CompletionCancelled,
     RecoverGiveUp, AfterGivenUp, ExitCancelled, Goes, RecoverQuiet, RecoverPause,
     RecoverVerify, AlreadyPrepared, PreparedAgain, StandingWait, Barrier, RecoverProbe,
     Checkpoints
<1>2. ~EnsurePass /\ ~EnsureEnter /\ ~RecoverReady /\ ~RecoverOver
  BY Onward DEF EnsurePass, EnsureEnter, AtCheckpoint, RecoverReady, RecoverOver, Checkpoints
<1>3. ASSUME NEW ok \in BOOLEAN
      PROVE  /\ ~RecoverConnect(ok) /\ ~RecoverActions(ok) /\ ~StartCheck(ok)
             /\ ~PreActions(ok) /\ ~ConditionRead(ok) /\ ~AfterActions(ok)
  BY DEF RecoverConnect, RecoverActions, StartCheck, PreActions, ConditionRead, AfterActions
<1>4. /\ ~ActionBegin /\ ~CycleBegin /\ ~StepBegin /\ ~CycleEnd /\ ~Quiesce /\ ~WorkBegin
      /\ ~StandingBegin /\ ~ConditionNotMet /\ ~StepEnd /\ ~Release /\ ~DataCheck
      /\ ~Finish /\ ~Join
  BY DEF ActionBegin, CycleBegin, StepBegin, CycleEnd, Quiesce, WorkBegin, StandingBegin,
     ConditionNotMet, StepEnd, Release, DataCheck, Finish, Join
<1>5. ~Sampler
  BY DEF Sampler, SampleLook, SampleArm, SampleRecheck, SampleStamp, SampleRead, SampleVerify,
     SampleEnd, SampleExit
<1>6. ~Start /\ ~Resume /\ ~Signals /\ ~StopJoin /\ ~LinkLost /\ ~Tick /\ ~Restart
  BY DEF Start, Resume, StartTask, Signals, Stop, StopTimeout, CanNextstep, StopJoin, LinkLost,
     Tick, Restart
<1>7. Tear
  BY <1>1, <1>2, <1>3, <1>4, <1>5, <1>6 DEF Next, Ctrl, Leaves, Goes, Signals
<1> QED
  BY <1>7 DEF Tear

\* A reading is kept as it is until it is judged, or forgotten, or replaced by a new one.
LEMMA MeasuredBy ==
  Flow /\ Next
    => \/ \E ok \in BOOLEAN : ConditionRead(ok)
       \/ measured' = Unmeasured /\ ctrl' \notin Judging
       \/ /\ UNCHANGED measured
          /\ \/ UNCHANGED <<cycle, step, got>> /\ (ctrl' \in Judging => ctrl \in Judging)
             \/ ctrl' \notin Judging
<1> SUFFICES ASSUME Flow, Next, ~(\E ok \in BOOLEAN : ConditionRead(ok))
             PROVE  \/ measured' = Unmeasured /\ ctrl' \notin Judging
                    \/ /\ UNCHANGED measured
                       /\ \/ /\ UNCHANGED <<cycle, step, got>>
                             /\ ctrl' \in Judging => ctrl \in Judging
                          \/ ctrl' \notin Judging
  OBVIOUS
<1> USE DEF Judging, ghostVars, stepVars
<1>1. CASE Leaves \/ Goes
  BY <1>1 DEF Leaves, EnsureCancelled, QuiesceCancelled, CompletionCancelled, RecoverGiveUp,
     AfterGivenUp, ExitCancelled, Goes, RecoverQuiet, RecoverPause, RecoverVerify,
     AlreadyPrepared, PreparedAgain, StandingWait, Barrier, RecoverProbe
<1>2. CASE EnsurePass \/ EnsureEnter \/ RecoverReady
  BY <1>2, Onward DEF EnsurePass, AtCheckpoint, EnsureEnter, RecoverReady, Checkpoints
<1>3. CASE \E ok \in BOOLEAN :
             RecoverConnect(ok) \/ RecoverActions(ok) \/ StartCheck(ok) \/ PreActions(ok)
             \/ AfterActions(ok)
  BY <1>3 DEF RecoverConnect, RecoverActions, StartCheck, PreActions, AfterActions
<1>4. CASE \/ ActionBegin \/ CycleBegin \/ StepBegin \/ CycleEnd \/ Quiesce \/ WorkBegin
           \/ StandingBegin \/ ConditionNotMet
  BY <1>4 DEF ActionBegin, CycleBegin, StepBegin, CycleEnd, Quiesce, WorkBegin, StandingBegin,
     ConditionNotMet
<1>5. CASE Tear \/ StepEnd \/ Release \/ DataCheck \/ Finish \/ Join
  BY <1>5 DEF Tear, StepEnd, Release, DataCheck, Finish, Join
<1>6. CASE Sampler
  BY <1>6 DEF Sampler, SampleLook, SampleArm, SampleRecheck, SampleStamp, SampleRead,
     SampleVerify, SampleEnd, SampleExit
<1>7. CASE Start \/ Resume \/ Signals \/ StopJoin \/ LinkLost \/ Tick \/ Restart
  BY <1>7 DEF Start, Resume, StartTask, Signals, Stop, StopTimeout, CanNextstep, StopJoin,
     LinkLost, Tick, Restart
<1>8. CASE RecoverOver
  BY <1>8, Onward DEF RecoverOver, Flow, Checkpoints
<1> QED
  BY <1>1, <1>2, <1>3, <1>4, <1>5, <1>6, <1>7, <1>8 DEF Next, Ctrl, Leaves, Goes, Signals

LEMMA UnmeasuredFits == Unmeasured \in [session : Sessions, prepared : Taken]
BY StampFits, ControlAssumption DEF Unmeasured, Sessions

LEMMA MeasuredKept == ControlInv /\ Measured /\ Next => Measured'
<1> SUFFICES ASSUME ControlInv, Measured, Next PROVE Measured'
  OBVIOUS
<1>1. ASSUME NEW ok \in BOOLEAN, ConditionRead(ok)
      PROVE  Measured'
  <2>1. link \in Sessions /\ prepared \in Taken
    BY DEF ControlInv, Types, Numbers, Cursored
  <2>2. measured' \in [session : Sessions, prepared : Taken]
    <3>1. measured' \in {[session |-> link, prepared |-> prepared], Unmeasured}
      BY ONLY <1>1 DEF ConditionRead
    <3> QED
      BY ONLY <2>1, <3>1, UnmeasuredFits
  <2>3. CASE ok
    <3>1. ctrl = "read" /\ recover = "no"
      BY <1>1 DEF ConditionRead, ControlInv, Types, Flow, Checkpoints
    <3>2. /\ got' = link /\ measured' = [session |-> link, prepared |-> prepared]
          /\ link # 0 /\ UNCHANGED <<cycle, step>>
      BY <1>1, <2>3 DEF ConditionRead
    <3>3. prepared = [session |-> lastSession, step |-> At]
      BY ONLY <3>1, ControlInv DEF ControlInv, Actions, Working
    <3>4. link = lastSession
      BY ONLY <3>2, ControlInv DEF ControlInv, Links
    <3>5. measured' = Own(got)'
      BY <3>2, <3>3, <3>4 DEF Own, At
    <3> QED
      BY <2>2, <3>5 DEF Measured
  <2>4. CASE ~ok
    <3>1. got' = 0
      BY <1>1, <2>4 DEF ConditionRead
    <3> QED
      BY <2>2, <3>1 DEF Measured
  <2> QED
    BY <2>3, <2>4
<1>2. CASE measured' = Unmeasured /\ ctrl' \notin Judging
  BY ONLY <1>2, UnmeasuredFits DEF Measured
<1>3. CASE UNCHANGED measured /\ ctrl' \notin Judging
  BY ONLY <1>3, Measured DEF Measured
<1>4. CASE UNCHANGED <<measured, cycle, step, got>> /\ (ctrl' \in Judging => ctrl \in Judging)
  BY ONLY <1>4, Measured DEF Measured, Own, At
<1> QED
  BY <1>1, <1>2, <1>3, <1>4, MeasuredBy DEF ControlInv, Types

-----------------------------------------------------------------------------
(***************************************************************************)
(* The steps completed.                                                    *)
(***************************************************************************)
\* How the steps before a place grow.
LEMMA BeforeGrows ==
  ASSUME NEW c \in 0 .. Cycles, NEW s \in 1 .. Len(Steps) + 1, NEW completed, Before(c, s, completed)
  PROVE  /\ Before(c, s, completed \cup {<<c, s>>})
         /\ <<c, s>> \in completed => Before(c, s + 1, completed)
         /\ s > Len(Steps) => Before(c + 1, 1, completed)
         /\ c >= Cycles => Before(Cycles, 1, completed)
BY IndexFits, ControlAssumption DEF Before

\* Nothing is before the first step.
LEMMA BeforeFirst == \A completed : Before(0, 1, completed)
BY ControlAssumption DEF Before

\* A step that stays in the loops, or leaves them, and moves no cursor.
LEMMA CompletedStays ==
  ASSUME Completed, UNCHANGED <<cycle, step, round, done>>, rx' \in {rx, "idle", "stop"},
         resume' \in {resume, NoCursor}, nvs'.cycle = nvs.cycle, nvs'.step = nvs.step,
         nvs'.valid => nvs.valid, ctrl = "none" => ctrl' = "none",
         ctrl' \in Looping => ctrl \in Looping, ctrl' \in Ended => ctrl \in Ended,
         ctrl' = "dataCheck" => ctrl = "dataCheck"
  PROVE  Completed'
BY DEF Completed, NoCursor

\* A step keeps what is completed.
LEMMA CompletedKept ==
  ASSUME MaxRestart = 0 \/ (Cycles = 1 /\ MaxRound <= 1),
         Flow, Numbers, Cursored, Loops, Completed, Next
  PROVE  Completed'
<1> USE DEF stepVars, linkVars, windowVars, sampleVars, restVars, ghostVars
<1> DEFINE Still == UNCHANGED <<cycle, step, round, done, rx, resume, nvs>>
           Round == /\ ctrl' \in Looping => ctrl \in Looping
                    /\ ctrl' \in Ended => ctrl \in Ended
                    /\ ctrl' = "dataCheck" => ctrl = "dataCheck"
                    /\ ctrl = "none" => ctrl' = "none"
<1>1. ASSUME Still, Round PROVE Completed'
  BY <1>1, CompletedStays
<1> USE DEF Checkpoints, Between, Ends, Preparing, Working, Tearing, InStep, Looping, Ended
<1>2. CASE Leaves \/ Goes
  <2>1. Still /\ Round
    BY <1>2, Onward DEF Leaves, EnsureCancelled, AtCheckpoint, QuiesceCancelled,
       CompletionCancelled, RecoverGiveUp, GoesOn, AfterGivenUp, ExitCancelled, Goes,
       RecoverQuiet, RecoverPause, RecoverVerify, AlreadyPrepared, PreparedAgain, StandingWait,
       Barrier, RecoverProbe, Flow
  <2> QED
    BY <1>1, <2>1
<1>3. CASE EnsurePass \/ EnsureEnter \/ RecoverReady \/ RecoverOver
  <2>1. Still /\ Round
    BY <1>3, Onward DEF EnsurePass, EnsureEnter, AtCheckpoint, RecoverReady, RecoverOver, Flow
  <2> QED
    BY <1>1, <2>1
<1>4. CASE Quiesce \/ WorkBegin \/ ConditionNotMet \/ Tear \/ DataCheck \/ Finish
  <2>1. Still /\ Round
    BY <1>4 DEF Quiesce, WorkBegin, ConditionNotMet, Tear, DataCheck, Finish
  <2> QED
    BY <1>1, <2>1
<1>5. CASE \E ok \in BOOLEAN : \/ RecoverConnect(ok) \/ RecoverActions(ok) \/ StartCheck(ok)
                               \/ PreActions(ok) \/ ConditionRead(ok) \/ AfterActions(ok)
  <2>1. Still /\ Round
    BY <1>5 DEF RecoverConnect, RecoverActions, StartCheck, PreActions, ConditionRead,
       AfterActions
  <2> QED
    BY <1>1, <2>1
<1>6. CASE Sampler \/ CanNextstep \/ LinkLost \/ Tick
  <2>1. Still /\ Round
    BY <1>6 DEF Sampler, SampleLook, SampleArm, SampleRecheck, SampleStamp, SampleRead,
       SampleVerify, SampleEnd, SampleExit, CanNextstep, LinkLost, Tick
  <2> QED
    BY <1>1, <2>1
<1>7. CASE Stop \/ StopTimeout
  BY <1>7, CompletedStays DEF Stop, StopTimeout
<1>8. CASE Join \/ StopJoin
  <2>1. nvs'.cycle = nvs.cycle /\ nvs'.step = nvs.step /\ ~nvs'.valid
    BY <1>8 DEF Join, StopJoin, Cursored, Cursors
  <2>2. /\ UNCHANGED <<cycle, step, round, done>> /\ rx' \in {rx, "idle"}
        /\ resume' = NoCursor /\ ctrl' = "none"
    BY <1>8 DEF Join, StopJoin
  <2> QED
    BY <2>1, <2>2, CompletedStays
<1>9. CASE StandingBegin
  <2>1. nvs'.cycle = nvs.cycle /\ nvs'.step = nvs.step /\ (nvs'.valid => nvs.valid)
    BY <1>9 DEF StandingBegin, Cursored, Cursors
  <2>2. UNCHANGED <<cycle, step, round, done, rx, resume>> /\ Round
    BY <1>9 DEF StandingBegin
  <2> QED
    BY <2>1, <2>2, CompletedStays
<1>10. CASE ActionBegin
  <2>1. /\ UNCHANGED <<resume, nvs, round, done, rx>> /\ ctrl = "entered" /\ ctrl' = "cycle"
        /\ resume.valid => cycle' = resume.cycle /\ step' = resume.step
        /\ ~resume.valid => cycle' = 0 /\ step' = 1
    BY <1>10 DEF ActionBegin
  <2>2. Before(cycle', step', done)
    BY <2>1, BeforeFirst DEF Completed
  <2> QED
    BY <2>1, <2>2 DEF Completed
<1>11. CASE CycleBegin
  <2>1. /\ UNCHANGED <<cycle, step, resume, round, done, rx>> /\ ctrl = "cycle"
        /\ Before(cycle, step, done)
    BY <1>11 DEF CycleBegin, Completed
  <2>2. CASE cycle < Cycles
    <3>1. ctrl' = "step" /\ nvs' = [nvs EXCEPT !.cycle = cycle]
      BY <1>11, <2>2 DEF CycleBegin
    <3>2. nvs'.cycle = cycle /\ nvs'.step = nvs.step
      BY <3>1 DEF Cursored, Cursors
    <3>3. Cycles = 1 => nvs'.cycle = 0
      BY <2>2, <3>2 DEF Cursored
    <3> QED
      BY <2>1, <3>1, <3>2, <3>3 DEF Completed
  <2>3. CASE ~(cycle < Cycles)
    <3>1. ctrl' = "dataCheck" /\ nvs' = nvs
      BY <1>11, <2>3 DEF CycleBegin
    <3>2. cycle >= Cycles
      BY <2>3, ControlAssumption DEF Cursored
    <3>3. Before(Cycles, 1, done)
      BY <2>1, <3>2, BeforeGrows DEF Cursored
    <3> QED
      BY <2>1, <3>1, <3>3 DEF Completed
  <2> QED
    BY <2>2, <2>3
<1>12. CASE StepBegin
  <2>1. /\ UNCHANGED <<cycle, step, resume, round, done, rx>> /\ ctrl = "step"
        /\ ctrl' = "quiesce" /\ nvs' = [nvs EXCEPT !.step = step] /\ cycle < Cycles
    BY <1>12 DEF StepBegin, StepCursor, Loops
  <2>2. nvs'.cycle = nvs.cycle /\ nvs'.step = step
    BY <2>1 DEF Cursored, Cursors
  <2>3. Before(cycle, step, done) /\ (Cycles = 1 => cycle = 0)
    BY <2>1 DEF Completed, Cursored
  <2>4. round # 0
    BY <2>1 DEF Completed
  <2> QED
    BY <2>1, <2>2, <2>3, <2>4 DEF Completed
<1>13. CASE CycleEnd
  <2>1. /\ UNCHANGED <<resume, nvs, round, done, rx>> /\ ctrl = "step" /\ ctrl' = "cycle"
        /\ step > Len(Steps) /\ cycle' = cycle + 1 /\ step' = 1
    BY <1>13 DEF CycleEnd
  <2>2. Before(cycle + 1, 1, done)
    BY <2>1, BeforeGrows DEF Completed, Cursored
  <2> QED
    BY <2>1, <2>2 DEF Completed
<1>14. CASE StepEnd
  <2>1. PICK more : more = done \cup {<<cycle, step>>}
    OBVIOUS
  <2>2. /\ UNCHANGED <<cycle, resume, nvs, round, rx>> /\ ctrl = "closed" /\ done' = more
        /\ (ctrl' = "barrier" /\ step' = step) \/ (ctrl' = "step" /\ step' = step + 1)
    BY <1>14, <2>1 DEF StepEnd, At
  <2>3. Before(cycle, step, done)
    BY <2>2 DEF Completed
  <2>4. Before(cycle, step, more) /\ Before(cycle, step + 1, more)
    <3>1. Before(cycle, step, more)
      BY <2>1, <2>3, BeforeGrows DEF Cursored
    <3> QED
      BY <2>1, <3>1, BeforeGrows DEF Cursored
  <2>5. \A c, s : Before(c, s, done) => Before(c, s, more)
    BY <2>1 DEF Before
  <2>6. round # 0 /\ ctrl # "dataCheck"
    BY <2>2 DEF Completed
  <2> QED
    BY <2>1, <2>2, <2>4, <2>5, <2>6 DEF Completed
<1>15. CASE Release
  <2>1. /\ UNCHANGED <<cycle, resume, nvs, round, done, rx>> /\ ctrl = "release"
        /\ ctrl' = "step" /\ step' = step + 1
    BY <1>15 DEF Release
  <2>2. Before(cycle, step + 1, done)
    BY <2>1, BeforeGrows DEF Completed, Cursored
  <2> QED
    BY <2>1, <2>2 DEF Completed
<1>16. CASE Start
  <2>1. /\ ctrl' = "check" /\ rx = "idle" /\ rx' = rx /\ resume' = NoCursor
        /\ round < MaxRound /\ round' = round + 1 /\ done' = {}
        /\ nvs' = [nvs EXCEPT !.valid = TRUE]
    BY <1>16 DEF Start, StartTask
  <2>2. nvs'.cycle = nvs.cycle /\ nvs'.step = nvs.step
    BY <2>1 DEF Cursored, Cursors
  <2>3. round' # 0 /\ (MaxRound <= 1 => round = 0)
    BY <2>1, ControlAssumption DEF Numbers
  <2>4. Before(0, 1, done')
    BY BeforeFirst
  <2> QED
    BY <2>1, <2>2, <2>3, <2>4 DEF Completed, NoCursor
<1>17. CASE Resume
  <2>1. /\ rx = "boot" /\ resume' = nvs /\ rx' = "idle" /\ ctrl' = "check"
        /\ UNCHANGED <<nvs, round, done>>
    BY <1>17 DEF Resume, StartTask
  <2> QED
    BY <2>1 DEF Completed
<1>18. CASE Restart
  <2>1. /\ ctrl' = "none" /\ resume' = NoCursor /\ UNCHANGED <<nvs, round, done>>
        /\ restarts < MaxRestart /\ ctrl # "none"
    BY <1>18 DEF Restart
  <2>2. MaxRestart # 0 /\ round # 0
    BY <2>1, ControlAssumption DEF Numbers, Completed
  <2> QED
    BY <2>1, <2>2 DEF Completed, NoCursor
<1> QED
  BY <1>2, <1>3, <1>4, <1>5, <1>6, <1>7, <1>8, <1>9, <1>10, <1>11, <1>12, <1>13, <1>14, <1>15,
     <1>16, <1>17, <1>18 DEF Next, Ctrl, Leaves, Goes

-----------------------------------------------------------------------------
(***************************************************************************)
(* The theorems.                                                           *)
(***************************************************************************)
\* The invariant holds at the start,
LEMMA ControlStarts == Init => ControlInv
<1> SUFFICES ASSUME Init PROVE ControlInv
  OBVIOUS
<1> USE DEF Init
<1>1. Flow /\ Flags
  BY DEF Flow, Flags, Checkpoints, Between, Ends, Recoveries, Samplers
<1>2. Numbers
  BY ControlAssumption DEF Numbers, Sessions
<1>3. Cursored /\ Stamps
  BY ControlAssumption, IndexFits, CursorFits, StampFits DEF Cursored, Stamps
<1>4. Loops /\ Owned
  BY DEF Loops, Owned, InStep, Preparing, Working, Tearing
<1>5. Links /\ Actions
  BY DEF Links, Actions, Connected, Ends, Preparing, Working, Tearing
<1>6. Samples /\ Windows
  BY DEF Samples, Windows, Preparing, Busy, Stamped, Ends
<1> QED
  BY <1>1, <1>2, <1>3, <1>4, <1>5, <1>6 DEF ControlInv, Types

\* every step keeps it,
LEMMA ControlKept == ControlInv /\ [Next]_vars => ControlInv'
<1> SUFFICES ASSUME ControlInv, [Next]_vars PROVE ControlInv'
  OBVIOUS
<1>1. CASE Next
  BY <1>1, FlowKept, FlagsKept, NumbersKept, CursoredKept, StampsKept, LoopsKept, OwnedKept,
     LinksKept, ActionsKept, SamplesKept, WindowsKept DEF ControlInv, Types
<1>2. CASE UNCHANGED vars
  <2> USE <1>2 DEF ControlInv, Types, vars, stepVars, linkVars, windowVars, sampleVars,
        restVars, ghostVars, At
  <2>1. Flow' /\ Flags' /\ Numbers'
    BY DEF Flow, Flags, Numbers
  <2>2. Cursored' /\ Stamps' /\ Loops' /\ Owned'
    BY DEF Cursored, Stamps, Loops, Owned
  <2>3. Links' /\ Actions'
    BY DEF Links, Actions
  <2>4. Samples' /\ Windows'
    BY DEF Samples, Windows
  <2> QED
    BY <2>1, <2>2, <2>3, <2>4
<1> QED
  BY <1>1, <1>2

\* and so it holds always.
LEMMA ControlAlways == Spec => []ControlInv
BY ControlStarts, ControlKept, PTL DEF Spec

\* A condition was measured under its own pre-actions.
LEMMA MeasuredAlways == Spec => [](ControlInv /\ Measured)
<1>1. Init => Measured
  BY UnmeasuredFits DEF Init, Measured, Judging
<1>2. ControlInv /\ Measured /\ [Next]_vars => Measured'
  <2>1. Measured /\ UNCHANGED vars => Measured'
    BY DEF vars, stepVars, ghostVars, Measured, Judging, Own, At
  <2> QED
    BY <2>1, MeasuredKept
<1> QED
  BY <1>1, <1>2, ControlAlways, PTL DEF Spec

\* The types of the state, and where a cursor may point (Aging_Test_Task).
THEOREM TypeCorrect == Spec => []TypeOK
<1>1. ControlInv /\ Measured => TypeOK
  <2> SUFFICES ASSUME ControlInv, Measured PROVE TypeOK
    OBVIOUS
  <2> USE DEF ControlInv, Types
  <2>1. ctrl \in Places /\ (recover # "no" => ctrl \in DOMAIN Then)
    BY Onward DEF Flow, Places, Then, Checkpoints, Between, Ends
  <2>2. /\ recover \in Recoveries /\ sampler \in Samplers
        /\ rx \in {"idle", "boot", "stop"}
    BY DEF Flow
  <2>3. {mode, replay, retrying, recovering, active, reading, device, cancel, canNext, group,
         torn, faulty} \subseteq BOOLEAN
    BY DEF Flags
  <2>4. /\ {previous, got, link, lastSession, ready, lost} \subseteq Sessions
        /\ {age, lostAge, failAge, outage} \subseteq 0 .. Limit
        /\ round \in 0 .. MaxRound /\ restarts \in 0 .. MaxRestart
    BY DEF Numbers
  <2>5. At \in Indices /\ current \in Indices /\ done \subseteq Indices
    BY IndexFits DEF Cursored, At
  <2>6. {resume, nvs} \subseteq Cursors /\ deadline \in Deadlines /\ prepared \in Taken
    BY DEF Cursored
  <2>7. sample \in Packets
    BY DEF Stamps
  <2>8. measured \in [session : Sessions, prepared : Taken]
    BY ONLY Measured DEF Measured
  <2> QED
    BY <2>1, <2>2, <2>3, <2>4, <2>5, <2>6, <2>7, <2>8
       DEF TypeOK, Recoveries, Samplers, Deadlines, Taken, Packets
<1> QED
  BY <1>1, MeasuredAlways, PTL

\* A packet that is submitted holds the values of one connection and one step: the sampler
\* at work keeps the control task out of the next step and out of a reconnection
\* (app_AgingData_Get_handle, aging_begin_step).
THEOREM SampleFromOneStepAlways == Spec => []SampleFromOneStep
<1>1. ControlInv => SampleFromOneStep
  BY DEF ControlInv, Samples, Stamped, SampleFromOneStep
<1> QED
  BY <1>1, ControlAlways, PTL

\* The device and the configuration outlive the tasks that use them
\* (aging_finish_sampling, aging_cancel_tasks).
THEOREM DeviceOutlivesUseAlways == Spec => []DeviceOutlivesUse
<1>1. ControlInv => DeviceOutlivesUse
  BY DEF ControlInv, Owned, DeviceOutlivesUse
<1> QED
  BY <1>1, ControlAlways, PTL

\* A step works on a connection that has seen its pre-actions (aging_begin_step,
\* aging_ble_ensure_ready).
THEOREM WorkPreparedAlways == Spec => []WorkPrepared
<1>1. ControlInv => WorkPrepared
  BY DEF ControlInv, Links, Actions, Working, WorkPrepared
<1> QED
  BY <1>1, ControlAlways, PTL

\* One continuous fault has one window (aging_ble_ensure_ready, aging_execute_actions).
THEOREM FaultWindowAlways == Spec => []FaultWindow
<1>1. ControlInv => FaultWindow
  BY DEF ControlInv, Windows, FaultWindow
<1> QED
  BY <1>1, ControlAlways, PTL

\* Nothing repeats the pre-actions of a step whose after-actions have begun
\* (aging_ble_ensure_ready, s_ble_replay_pre).
THEOREM TeardownFinalAlways == Spec => TeardownFinal
<1>1. ControlInv /\ [Next]_vars
        => [prepared' # prepared /\ prepared'.session # 0 => ~torn]_vars
  <2> SUFFICES ASSUME ControlInv, Next, prepared' # prepared, prepared'.session # 0
               PROVE  ~torn
    BY DEF vars
  <2> USE DEF ControlInv, Actions
  <2>1. CASE \E ok \in BOOLEAN : RecoverActions(ok)
    BY <2>1 DEF RecoverActions
  <2>2. CASE \E ok \in BOOLEAN : PreActions(ok)
    BY <2>2 DEF PreActions, Tearing, Ends
  <2>3. CASE Restart
    BY <2>3 DEF Restart, Untaken
  <2> QED
    BY <2>1, <2>2, <2>3, PreparedBy
<1> QED
  BY <1>1, ControlAlways, PTL DEF Spec, TeardownFinal

\* The reading that ends a step was taken on the connection that stands now, when the
\* pre-actions of this step were in force on it (Aging_Test_Task).
THEOREM JudgedByOwnReadingAlways == Spec => JudgedByOwnReading
<1>1. ControlInv /\ Measured /\ [Next]_vars
        => [ctrl = "judged" /\ ctrl' = "after"
              => measured = [session |-> link, prepared |-> [session |-> link, step |-> At]]]_vars
  <2> SUFFICES ASSUME ControlInv, Measured, Next, ctrl = "judged", ctrl' = "after"
               PROVE  measured = [session |-> link, prepared |-> [session |-> link, step |-> At]]
    BY DEF vars
  <2>1. recover = "no"
    BY DEF ControlInv, Types, Flow, Checkpoints
  <2>2. got # 0 /\ got = link
    BY <2>1, JudgedBy DEF GoodReading
  <2>3. measured = Own(got)
    BY ONLY <2>2, ctrl = "judged", Measured DEF Measured, Judging
  <2> QED
    BY ONLY <2>2, <2>3 DEF Own
<1> QED
  BY <1>1, MeasuredAlways, PTL DEF Spec, JudgedByOwnReading

\* Every step of the command has been completed when the round is declared complete
\* (Aging_Test_Task), in a node that does not lose its power, and in the first round of a
\* command with one cycle.  Otherwise the cursor of the round before may be resumed
\* (AgingControlCursor.cfg), or, after a power loss between the writes of CycleIndex and
\* CR_Step, the last step of the new cycle.
THEOREM NoStepSkippedAlways ==
  MaxRestart = 0 \/ (Cycles = 1 /\ MaxRound <= 1) => (Spec => []NoStepSkipped)
<1> SUFFICES ASSUME MaxRestart = 0 \/ (Cycles = 1 /\ MaxRound <= 1)
             PROVE  Spec => []NoStepSkipped
  OBVIOUS
<1>1. Init => Completed
  BY BeforeFirst DEF Init, Completed, NoCursor, Looping, InStep, Preparing, Working, Tearing,
     Ended
<1>2. ControlInv /\ Completed /\ [Next]_vars => Completed'
  <2>1. ControlInv /\ Completed /\ Next => Completed'
    BY CompletedKept DEF ControlInv, Types
  <2>2. Completed /\ UNCHANGED vars => Completed'
    BY DEF Completed, vars, stepVars, restVars, ghostVars
  <2> QED
    BY <2>1, <2>2
<1>3. Completed => NoStepSkipped
  BY ControlAssumption DEF Completed, Before, NoStepSkipped
<1> QED
  BY <1>1, <1>2, <1>3, ControlAlways, PTL DEF Spec
=============================================================================
