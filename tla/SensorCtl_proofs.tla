-------------------------- MODULE SensorCtl_proofs --------------------------
(***************************************************************************)
(* Proofs about the control plane of the sensor driver, for any number of  *)
(* threads and CPUs: type correctness, the inductive invariant of module   *)
(* SensorCtl and the safety properties that follow from it.                *)
(***************************************************************************)
EXTENDS SensorCtl, TLAPS

USE DEF flagVars, timerVars, workVars, callVars, remVars

(* No step leaves the types of the variables. *)
LEMMA TypeStep == TypeOK /\ [Next]_vars => TypeOK'
<1> SUFFICES ASSUME TypeOK, [Next]_vars PROVE TypeOK'
  OBVIOUS
<1>1. CASE TimerFires
  BY <1>1 DEF TypeOK, TimerFires
<1>2. CASE CbCheck
  BY <1>2 DEF TypeOK, CbCheck, CbVerdict
<1>2a. CASE CbNoRestart
  BY <1>2a DEF TypeOK, CbNoRestart
<1>3. CASE CbSchedule
  BY <1>3 DEF TypeOK, CbSchedule, ScheduleWork, Cancelling
<1>4. CASE CbRestart
  BY <1>4 DEF TypeOK, CbRestart, Rearmed
<1>5. CASE WorkStarts
  BY <1>5 DEF TypeOK, WorkStarts
<1>6. CASE WorkEnds
  BY <1>6 DEF TypeOK, WorkEnds
<1>7. CASE Unbind
  BY <1>7 DEF TypeOK, Unbind, RStep, RGoto
<1>8. CASE RemoverLock
  BY <1>8 DEF TypeOK, RemoverLock, RGoto, Acquire
<1>9. CASE RemoverMark
  BY <1>9 DEF TypeOK, RemoverMark, RGoto
<1>10. CASE RemoverSpin
  BY <1>10 DEF TypeOK, RemoverSpin, RGoto
<1>11. CASE RemoverClear
  BY <1>11 DEF TypeOK, RemoverClear, RGoto
<1>12. CASE RemoverUnspin
  BY <1>12 DEF TypeOK, RemoverUnspin, RStep, RGoto
<1>13. CASE RemoverCancelTimer
  BY <1>13 DEF TypeOK, RemoverCancelTimer, RGoto, HrtimerCancel
<1>14. CASE RemoverCancelWork
  BY <1>14 DEF TypeOK, RemoverCancelWork, RGoto, CancelPending
<1>15. CASE RemoverFlushWork
  BY <1>15 DEF TypeOK, RemoverFlushWork, RStep, RGoto, WorkFlushed
<1>16. CASE RemoverUnlock
  BY <1>16 DEF TypeOK, RemoverUnlock, RGoto, Release
<1>17. ASSUME NEW c \in Callers, Call(c) PROVE TypeOK'
  BY <1>17 DEF TypeOK, Commands, Call, Goto
<1>18. ASSUME NEW c \in Callers, CheckDying(c) PROVE TypeOK'
  BY <1>18 DEF TypeOK, CheckDying, Step, Goto
<1>19. ASSUME NEW c \in Callers, LockControl(c) PROVE TypeOK'
  BY <1>19 DEF TypeOK, LockControl, Goto, Acquire
<1>20. ASSUME NEW c \in Callers, RecheckDying(c) PROVE TypeOK'
  BY <1>20 DEF TypeOK, RecheckDying, Step, Goto, StartAllowed
<1>21. ASSUME NEW c \in Callers, SetRunning(c) PROVE TypeOK'
  BY <1>21 DEF TypeOK, SetRunning, Goto, NeedStart
<1>22. ASSUME NEW c \in Callers, Arm(c) PROVE TypeOK'
  BY <1>22 DEF TypeOK, Arm, Goto, HrtimerStart
<1>23. ASSUME NEW c \in Callers, ClearRunning(c) PROVE TypeOK'
  BY <1>23 DEF TypeOK, ClearRunning, Goto
<1>24. ASSUME NEW c \in Callers, CancelTimer(c) PROVE TypeOK'
  BY <1>24 DEF TypeOK, CancelTimer, Goto, HrtimerCancel
<1>25. ASSUME NEW c \in Callers, CancelWork(c) PROVE TypeOK'
  BY <1>25 DEF TypeOK, CancelWork, Goto, CancelPending
<1>26. ASSUME NEW c \in Callers, FlushWork(c) PROVE TypeOK'
  BY <1>26 DEF TypeOK, FlushWork, Step, Goto, WorkFlushed
<1>27. ASSUME NEW c \in Callers, UnlockControl(c) PROVE TypeOK'
  BY <1>27 DEF TypeOK, UnlockControl, Goto, Release
<1>28. CASE UNCHANGED vars
  BY <1>28 DEF TypeOK, vars
<1> QED
  BY <1>1, <1>2, <1>2a, <1>3, <1>4, <1>5, <1>6, <1>7, <1>8, <1>9, <1>10, <1>11, <1>12,
     <1>13, <1>14, <1>15, <1>16, <1>17, <1>18, <1>19, <1>20, <1>21, <1>22, <1>23,
     <1>24, <1>25, <1>26, <1>27, <1>28 DEF Next, Callback, Work, Continue,
     RemoverContinue

(* The variables stay in their types: no action leaves the control points  *)
(* of the functions it models.                                             *)
THEOREM TypeCorrect == Spec => []TypeOK
<1>1. Init => TypeOK
  BY DEF Init, TypeOK
<1>2. QED
  BY <1>1, TypeStep, PTL DEF Spec

(* Every step preserves the inductive invariant. *)
LEMMA IInvStep == IInv /\ [Next]_vars => IInv'
<1> SUFFICES ASSUME IInv, [Next]_vars PROVE IInv'
  OBVIOUS
<1> USE ThreadAssumption
<1>1. TypeOK'
  BY TypeStep DEF IInv
<1> USE DEF IInv, TypeOK, LockOwner, DyingSince, HaltingIsOff, DrainedInOrder,
            AliveOrArming, Alive, StartFindsQuiet, RemovedStaysQuiet, Quiet, At,
            InControl, RInControl, Halting
<1>2. CASE TimerFires
  <2>1. /\ armed /\ cb = "idle" /\ ~armed' /\ cb' = "check"
        /\ UNCHANGED <<running, dying, controlLock, pending, work, pc, rpc>>
    BY <1>2 DEF TimerFires
  <2>2. LockOwner' /\ DyingSince' /\ HaltingIsOff'
    BY <2>1
  <2>3. DrainedInOrder'
    BY <2>1
  <2>4. AliveOrArming'
    BY <2>1
  <2>5. StartFindsQuiet' /\ RemovedStaysQuiet'
    BY <2>1
  <2>6. QED
    BY <1>1, <2>2, <2>3, <2>4, <2>5
<1>3. CASE CbCheck
  BY <1>1, <1>3 DEF CbCheck, CbVerdict, StateLockFree
<1>3a. CASE CbNoRestart
  BY <1>1, <1>3a DEF CbNoRestart
<1>4. CASE CbSchedule
  BY <1>1, <1>4 DEF CbSchedule, ScheduleWork, Cancelling
<1>5. CASE CbRestart
  BY <1>1, <1>5 DEF CbRestart, Rearmed
<1>6. CASE WorkStarts
  BY <1>1, <1>6 DEF WorkStarts
<1>7. CASE WorkEnds
  BY <1>1, <1>7 DEF WorkEnds
<1>8. CASE Unbind
  BY <1>1, <1>8 DEF Unbind, RStep, RGoto
<1>9. CASE RemoverLock
  BY <1>1, <1>9 DEF RemoverLock, RGoto, Acquire
<1>10. CASE RemoverMark
  BY <1>1, <1>10 DEF RemoverMark, RGoto
<1>11. CASE RemoverSpin
  BY <1>1, <1>11 DEF RemoverSpin, RGoto
<1>12. CASE RemoverClear
  BY <1>1, <1>12 DEF RemoverClear, RGoto
<1>13. CASE RemoverUnspin
  BY <1>1, <1>13 DEF RemoverUnspin, RStep, RGoto
<1>14. CASE RemoverCancelTimer
  BY <1>1, <1>14 DEF RemoverCancelTimer, RGoto, HrtimerCancel
<1>15. CASE RemoverCancelWork
  BY <1>1, <1>15 DEF RemoverCancelWork, RGoto, CancelPending
<1>16. CASE RemoverFlushWork
  BY <1>1, <1>16 DEF RemoverFlushWork, RStep, RGoto, WorkFlushed
<1>17. CASE RemoverUnlock
  BY <1>1, <1>17 DEF RemoverUnlock, RGoto, Release
<1>18. ASSUME NEW c \in Callers, Call(c) PROVE IInv'
  BY <1>1, <1>18 DEF Call, Goto
<1>19. ASSUME NEW c \in Callers, CheckDying(c) PROVE IInv'
  BY <1>1, <1>19 DEF CheckDying, Step, Goto
<1>20. ASSUME NEW c \in Callers, LockControl(c) PROVE IInv'
  BY <1>1, <1>20 DEF LockControl, Goto, Acquire
<1>21. ASSUME NEW c \in Callers, RecheckDying(c) PROVE IInv'
  BY <1>1, <1>21 DEF RecheckDying, Step, Goto, StartAllowed
<1>22. ASSUME NEW c \in Callers, SetRunning(c) PROVE IInv'
  BY <1>1, <1>22 DEF SetRunning, Goto, NeedStart
<1>23. ASSUME NEW c \in Callers, Arm(c) PROVE IInv'
  <2>1. /\ pc[c] = "arm" /\ controlLock = c
        /\ pc' = [pc EXCEPT ![c] = "unlock"] /\ armed' = TRUE
        /\ UNCHANGED <<running, dying, controlLock, cb, pending, work, rpc>>
    BY <1>23 DEF Arm, Goto, HrtimerStart
  <2>2. \A d \in Callers : d # c => pc[d] \notin InControl /\ pc'[d] = pc[d]
    BY <2>1
  <2>3. LockOwner' /\ DyingSince' /\ HaltingIsOff' /\ StartFindsQuiet'
    BY <2>1, <2>2
  <2>4. DrainedInOrder' /\ AliveOrArming'
    BY <2>1, <2>2
  <2>5. RemovedStaysQuiet'
    BY <2>1
  <2>6. QED
    BY <1>1, <2>3, <2>4, <2>5
<1>24. ASSUME NEW c \in Callers, ClearRunning(c) PROVE IInv'
  BY <1>1, <1>24 DEF ClearRunning, Goto
<1>25. ASSUME NEW c \in Callers, CancelTimer(c) PROVE IInv'
  BY <1>1, <1>25 DEF CancelTimer, Goto, HrtimerCancel
<1>26. ASSUME NEW c \in Callers, CancelWork(c) PROVE IInv'
  BY <1>1, <1>26 DEF CancelWork, Goto, CancelPending
<1>27. ASSUME NEW c \in Callers, FlushWork(c) PROVE IInv'
  BY <1>1, <1>27 DEF FlushWork, Step, Goto, WorkFlushed
<1>28. ASSUME NEW c \in Callers, UnlockControl(c) PROVE IInv'
  BY <1>1, <1>28 DEF UnlockControl, Goto, Release
<1>29. CASE UNCHANGED vars
  BY <1>1, <1>29 DEF vars
<1> QED
  BY <1>2, <1>3, <1>3a, <1>4, <1>5, <1>6, <1>7, <1>8, <1>9, <1>10, <1>11, <1>12, <1>13,
     <1>14, <1>15, <1>16, <1>17, <1>18, <1>19, <1>20, <1>21, <1>22, <1>23, <1>24,
     <1>25, <1>26, <1>27, <1>28, <1>29 DEF Next, Callback, Work, Continue,
     RemoverContinue

(* The inductive invariant holds in every reachable state. *)
THEOREM Invariance == Spec => []IInv
<1>1. Init => IInv
  BY ThreadAssumption DEF Init, IInv, TypeOK, LockOwner, DyingSince, HaltingIsOff,
     DrainedInOrder, AliveOrArming, Alive, StartFindsQuiet, RemovedStaysQuiet,
     InControl, RInControl, Halting
<1>2. QED
  BY <1>1, IInvStep, PTL DEF Spec

(* STOP and the removal leave nothing armed, queued or running behind when *)
(* they let go of control_lock.                                            *)
THEOREM StopIsQuiet == Spec => []StoppedIsQuiet
<1>1. IInv => StoppedIsQuiet
  BY ThreadAssumption DEF IInv, LockOwner, DrainedInOrder, At, StoppedIsQuiet,
     InControl, RInControl
<1>2. QED
  BY <1>1, Invariance, PTL

(* A device that is on keeps its timer alive. *)
THEOREM OnIsAlive == Spec => []RunningIsAlive
<1>1. IInv => RunningIsAlive
  BY ThreadAssumption DEF IInv, LockOwner, AliveOrArming, Alive, RunningIsAlive, InControl
<1>2. QED
  BY <1>1, Invariance, PTL

(* START arms only a timer that is at rest. *)
THEOREM StartIsExclusive == Spec => []StartFindsQuiet
<1>1. IInv => StartFindsQuiet
  BY DEF IInv
<1>2. QED
  BY <1>1, Invariance, PTL

(* A removed device never moves again. *)
THEOREM RemovalIsFinal == Spec => []RemovedStaysQuiet
<1>1. IInv => RemovedStaysQuiet
  BY DEF IInv
<1>2. QED
  BY <1>1, Invariance, PTL

(* The callback gives up sampling only while somebody holds control_lock   *)
(* to cancel the timer: when it tests running under state_lock, and still  *)
(* when it returns HRTIMER_NORESTART after the unlock.                     *)
THEOREM GivesUpOnlyWhenStopping == Spec => NoRestartOnlyWhenStopping
<1>1. ASSUME IInv, Next, cb' = "norestart" \/ CbNoRestart PROVE controlLock # NoOne
  <2>1. CASE CbNoRestart
    BY <1>1, <2>1, ThreadAssumption DEF CbNoRestart, IInv, LockOwner, AliveOrArming, At,
       InControl, RInControl
  <2>2. CASE cb = "norestart"
    BY <1>1, <2>2, ThreadAssumption DEF IInv, LockOwner, AliveOrArming, At, InControl,
       RInControl
  <2>3. CASE CbCheck /\ cb' = "norestart"
    BY <1>1, <2>3, ThreadAssumption DEF IInv, LockOwner, DrainedInOrder, At, Quiet, InControl,
       RInControl, CbCheck, CbVerdict
  <2>4. CASE cb # "norestart" /\ ~CbCheck
    <3>1. ASSUME TimerFires \/ CbSchedule \/ CbRestart PROVE cb' # "norestart"
      BY <2>4, <3>1 DEF TimerFires, CbSchedule, CbRestart
    <3>2. ASSUME Work \/ Unbind \/ RemoverLock PROVE cb' # "norestart"
      BY <2>4, <3>2 DEF Work, WorkStarts, WorkEnds, Unbind, RStep, RemoverLock
    <3>3. ASSUME RemoverContinue PROVE cb' # "norestart"
      BY <2>4, <3>3 DEF RemoverContinue, RStep, RemoverMark, RemoverSpin, RemoverClear,
         RemoverUnspin, RemoverCancelTimer, HrtimerCancel, RemoverCancelWork,
         RemoverFlushWork, RemoverUnlock
    <3>4. ASSUME NEW c \in Callers, Call(c) \/ LockControl(c) \/ Continue(c)
          PROVE  cb' # "norestart"
      BY <2>4, <3>4 DEF Call, LockControl, Continue, CheckDying, RecheckDying, SetRunning,
         Arm, HrtimerStart, ClearRunning, CancelTimer, HrtimerCancel, CancelWork,
         FlushWork, UnlockControl, Step
    <3>5. ASSUME CbNoRestart PROVE cb' # "norestart"
      BY <2>4, <3>5 DEF CbNoRestart
    <3>6. QED
      BY <1>1, <2>4, <3>1, <3>2, <3>3, <3>4, <3>5 DEF Next, Callback, CbNoRestart
  <2>5. QED
    BY <1>1, <2>1, <2>2, <2>3, <2>4
<1>2. IInv /\ [Next]_vars =>
          [cb' = "norestart" \/ CbNoRestart => controlLock # NoOne]_vars
  BY <1>1
<1>3. QED
  BY <1>2, Invariance, PTL DEF Spec, NoRestartOnlyWhenStopping

(* Every step of the control plane is a step of the switch of module       *)
(* Sampler or leaves it unchanged.                                         *)
LEMMA SwitchStep == IInv /\ [Next]_vars => [Switch!Next]_(Switch!vars)
<1> SUFFICES ASSUME IInv, [Next]_vars PROVE [Switch!Next]_(Switch!vars)
  OBVIOUS
<1> USE ThreadAssumption DEF IInv, TypeOK, LockOwner, DyingSince, HaltingIsOff,
        DrainedInOrder, AliveOrArming, Alive, StartFindsQuiet, RemovedStaysQuiet, Quiet, At,
        InControl, RInControl, Halting, SwitchMode, Switch!Next, Switch!vars,
        Switch!Start, Switch!Begin, Switch!Stop, Switch!Drain, Switch!Stopped
<1>1. CASE TimerFires
  BY <1>1 DEF TimerFires
<1>2. CASE CbCheck
  BY <1>2 DEF CbCheck, CbVerdict
<1>2a. CASE CbNoRestart
  BY <1>2a DEF CbNoRestart
<1>3. CASE CbSchedule
  BY <1>3 DEF CbSchedule, ScheduleWork, Cancelling
<1>4. CASE CbRestart
  BY <1>4 DEF CbRestart, Rearmed
<1>5. CASE WorkStarts
  BY <1>5 DEF WorkStarts
<1>6. CASE WorkEnds
  BY <1>6 DEF WorkEnds
<1>7. CASE Unbind
  BY <1>7 DEF Unbind, RStep, RGoto
<1>8. CASE RemoverLock
  BY <1>8 DEF RemoverLock, RGoto, Acquire
<1>9. CASE RemoverMark
  BY <1>9 DEF RemoverMark, RGoto
<1>10. CASE RemoverSpin
  BY <1>10 DEF RemoverSpin, RGoto
<1>11. CASE RemoverClear
  BY <1>11 DEF RemoverClear, RGoto
<1>12. CASE RemoverUnspin
  BY <1>12 DEF RemoverUnspin, RStep, RGoto
<1>13. CASE RemoverCancelTimer
  BY <1>13 DEF RemoverCancelTimer, RGoto, HrtimerCancel
<1>14. CASE RemoverCancelWork
  BY <1>14 DEF RemoverCancelWork, RGoto, CancelPending
<1>15. CASE RemoverFlushWork
  BY <1>15 DEF RemoverFlushWork, RStep, RGoto, WorkFlushed
<1>16. CASE RemoverUnlock
  BY <1>16 DEF RemoverUnlock, RGoto, Release
<1>17. ASSUME NEW c \in Callers, Call(c) PROVE [Switch!Next]_(Switch!vars)
  BY <1>17 DEF Call, Goto
<1>18. ASSUME NEW c \in Callers, CheckDying(c) PROVE [Switch!Next]_(Switch!vars)
  BY <1>18 DEF CheckDying, Step, Goto
<1>19. ASSUME NEW c \in Callers, LockControl(c) PROVE [Switch!Next]_(Switch!vars)
  BY <1>19 DEF LockControl, Goto, Acquire
<1>20. ASSUME NEW c \in Callers, RecheckDying(c) PROVE [Switch!Next]_(Switch!vars)
  BY <1>20 DEF RecheckDying, Step, Goto, StartAllowed
<1>21. ASSUME NEW c \in Callers, SetRunning(c) PROVE [Switch!Next]_(Switch!vars)
  BY <1>21 DEF SetRunning, Goto, NeedStart
<1>22. ASSUME NEW c \in Callers, Arm(c) PROVE [Switch!Next]_(Switch!vars)
  BY <1>22 DEF Arm, Goto, HrtimerStart
<1>23. ASSUME NEW c \in Callers, ClearRunning(c) PROVE [Switch!Next]_(Switch!vars)
  BY <1>23 DEF ClearRunning, Goto
<1>24. ASSUME NEW c \in Callers, CancelTimer(c) PROVE [Switch!Next]_(Switch!vars)
  BY <1>24 DEF CancelTimer, Goto, HrtimerCancel
<1>25. ASSUME NEW c \in Callers, CancelWork(c) PROVE [Switch!Next]_(Switch!vars)
  BY <1>25 DEF CancelWork, Goto, CancelPending
<1>26. ASSUME NEW c \in Callers, FlushWork(c) PROVE [Switch!Next]_(Switch!vars)
  BY <1>26 DEF FlushWork, Step, Goto, WorkFlushed
<1>27. ASSUME NEW c \in Callers, UnlockControl(c) PROVE [Switch!Next]_(Switch!vars)
  BY <1>27 DEF UnlockControl, Goto, Release
<1>28. CASE UNCHANGED vars
  BY <1>28 DEF vars
<1> QED
  BY <1>1, <1>2, <1>2a, <1>3, <1>4, <1>5, <1>6, <1>7, <1>8, <1>9, <1>10, <1>11, <1>12, <1>13,
     <1>14, <1>15, <1>16, <1>17, <1>18, <1>19, <1>20, <1>21, <1>22, <1>23, <1>24,
     <1>25, <1>26, <1>27, <1>28 DEF Next, Callback, Work, Continue, RemoverContinue

(* The control plane implements the switch, whatever the number of callers *)
(* and the CPUs on which the timer and the removal run.                    *)
THEOREM ImplementsSwitch == Spec => SwitchSpec
<1>1. Init => Switch!Init
  BY DEF Init, Switch!Init, SwitchMode, Quiet
<1>2. QED
  BY <1>1, SwitchStep, Invariance, PTL DEF Spec, SwitchSpec, Switch!Spec
=============================================================================
