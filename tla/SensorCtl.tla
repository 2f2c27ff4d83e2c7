------------------------------ MODULE SensorCtl ------------------------------
(***************************************************************************)
(* Control plane of sensor_sample_todo.c: the sampling timer, the work it  *)
(* queues, the START and STOP ioctls, and the removal of the device.       *)
(*                                                                         *)
(* A section under spin_lock_irqsave(state_lock) is one step: it cannot be *)
(* interrupted on its CPU and everybody else waits.  sensor_remove takes   *)
(* state_lock with plain spin_lock, so there the lock, the write and the   *)
(* unlock are three steps and the timer interrupt may come in between.     *)
(***************************************************************************)
CONSTANTS
    Callers,       \* threads that issue START and STOP
    Remover,       \* the thread that unbinds the driver
    NoOne,         \* control_lock is free
    TimerCpus,     \* CPUs whose hrtimer base may run the callback
    RemoverCpus    \* CPUs on which sensor_remove may run

ASSUME ThreadAssumption == /\ Remover \notin Callers
                           /\ NoOne \notin Callers \cup {Remover}
ASSUME CpuAssumption == TimerCpus # {} /\ RemoverCpus # {}

VARIABLES
    running,       \* dev->running
    dying,         \* dev->dying
    controlLock,   \* owner of dev->control_lock
    armed,         \* dev->sample_timer is queued
    timerCpu,      \* the CPU on which it is queued or was queued last
    cb,            \* where sample_timer_cb is
    pending,       \* dev->sample_work is queued
    work,          \* is sample_work_fn running
    op,            \* op[c]: the command c issued last
    pc,            \* pc[c]: where c is in sensor_ioctl
    rpc,           \* where the remover is in sensor_remove
    removerCpu     \* the CPU it runs on

flagVars  == <<running, dying, controlLock>>
timerVars == <<armed, timerCpu, cb>>
workVars  == <<pending, work>>
callVars  == <<op, pc>>
remVars   == <<rpc, removerCpu>>
vars == <<flagVars, timerVars, workVars, callVars, remVars>>

Commands == {"START", "STOP"}

TypeOK ==
    /\ running \in BOOLEAN /\ dying \in BOOLEAN
    /\ controlLock \in Callers \cup {Remover, NoOne}
    /\ armed \in BOOLEAN /\ timerCpu \in TimerCpus
    /\ cb \in {"idle", "check", "norestart", "schedule", "forward"}
    /\ pending \in BOOLEAN /\ work \in {"idle", "running"}
    /\ op \in [Callers -> Commands]
    /\ pc \in [Callers -> {"idle", "entry", "lock", "recheck", "set", "arm",
                           "clear", "cancel_timer", "cancel_work",
                           "flush_work", "unlock"}]
    /\ rpc \in {"bound", "lock", "mark", "spin", "clear", "unspin",
                "cancel_timer", "cancel_work", "flush_work", "unlock", "done"}
    /\ removerCpu \in RemoverCpus

(* The device as sensor_probe leaves it: sampling, timer armed. *)
Init ==
    /\ running = TRUE /\ dying = FALSE
    /\ controlLock = NoOne
    /\ armed = TRUE /\ timerCpu \in TimerCpus /\ cb = "idle"
    /\ pending = FALSE /\ work = "idle"
    /\ op \in [Callers -> Commands]
    /\ pc = [c \in Callers |-> "idle"]
    /\ rpc = "bound"
    /\ removerCpu \in RemoverCpus

(***************************************************************************)
(* Locks and the kernel services the driver calls.                         *)
(***************************************************************************)

(* Only sensor_remove holds state_lock for longer than a step. *)
StateLockFree == rpc \notin {"clear", "unspin"}

(* The interrupt runs on the CPU it interrupts until it is over. *)
Interrupted(cpu) == cb # "idle" /\ timerCpu = cpu

Acquire(t) == controlLock = NoOne /\ controlLock' = t
Release    == controlLock' = NoOne

(* hrtimer_start: queue the timer on a CPU of the kernel's choice. *)
HrtimerStart == armed' = TRUE /\ timerCpu' \in TimerCpus /\ UNCHANGED cb

(* Mutant: hrtimer_try_to_cancel, which does not wait for the callback. *)
HrtimerCancel_NoWait == armed' = FALSE /\ UNCHANGED <<timerCpu, cb>>

(* hrtimer_cancel: retry while the callback runs, then dequeue. *)
HrtimerCancel == cb = "idle" /\ armed' = FALSE /\ UNCHANGED <<timerCpu, cb>>

(* cancel_work_sync: take the work off the queue; schedule_work is without *)
(* effect until the cancellation is over; wait for a running sample_work_fn. *)
Cancelling == rpc = "flush_work" \/ \E c \in Callers : pc[c] = "flush_work"
CancelPending_FlushOnly == UNCHANGED <<pending, work>>    \* mutant: flush_work
CancelPending == pending' = FALSE /\ UNCHANGED work
WorkFlushed == work = "idle"

(* schedule_work: no effect if the work is queued already. *)
ScheduleWork == pending' = (pending \/ ~Cancelling) /\ UNCHANGED work

(***************************************************************************)
(* sample_timer_cb, in interrupt context, and sample_work_fn.              *)
(***************************************************************************)
TimerFires ==
    /\ armed /\ cb = "idle"
    /\ armed' = FALSE /\ cb' = "check"
    /\ UNCHANGED <<flagVars, timerCpu, workVars, callVars, remVars>>

CbVerdict_Always == "schedule"    \* mutant: the callback does not look at running

CbVerdict == IF running THEN "schedule" ELSE "norestart"

CbCheck ==
    /\ cb = "check" /\ StateLockFree
    /\ cb' = CbVerdict
    /\ UNCHANGED <<flagVars, armed, timerCpu, workVars, callVars, remVars>>

(* HRTIMER_NORESTART, some time after the unlock: whoever has queued the   *)
(* timer in between has queued it.                                         *)
CbNoRestart ==
    /\ cb = "norestart" /\ cb' = "idle"
    /\ UNCHANGED <<flagVars, armed, timerCpu, workVars, callVars, remVars>>

CbSchedule ==
    /\ cb = "schedule" /\ cb' = "forward"
    /\ ScheduleWork
    /\ UNCHANGED <<flagVars, armed, timerCpu, callVars, remVars>>

Rearmed_Never == armed    \* mutant: HRTIMER_NORESTART

(* hrtimer_forward_now and HRTIMER_RESTART: queued again for the next period. *)
Rearmed == TRUE

CbRestart ==
    /\ cb = "forward" /\ cb' = "idle"
    /\ armed' = Rearmed
    /\ UNCHANGED <<flagVars, timerCpu, workVars, callVars, remVars>>

Callback == CbCheck \/ CbNoRestart \/ CbSchedule \/ CbRestart

WorkStarts ==
    /\ pending /\ work = "idle"
    /\ pending' = FALSE /\ work' = "running"
    /\ UNCHANGED <<flagVars, timerVars, callVars, remVars>>

WorkEnds ==
    /\ work = "running" /\ work' = "idle"
    /\ UNCHANGED <<flagVars, timerVars, pending, callVars, remVars>>

Work == WorkStarts \/ WorkEnds

(***************************************************************************)
(* sensor_ioctl, commands START and STOP.                                  *)
(***************************************************************************)
Goto(c, from, to) == pc[c] = from /\ pc' = [pc EXCEPT ![c] = to]

(* A step of c that changes nothing but where it is. *)
Step(c, from, to) ==
    Goto(c, from, to) /\ UNCHANGED <<flagVars, timerVars, workVars, op, remVars>>

Call(c) ==
    /\ Goto(c, "idle", "entry")
    /\ \E o \in Commands : op' = [op EXCEPT ![c] = o]
    /\ UNCHANGED <<flagVars, timerVars, workVars, remVars>>

(* The test of dying before the switch: -ENODEV. *)
CheckDying(c) == Step(c, "entry", IF dying THEN "idle" ELSE "lock")

LockControl(c) ==
    /\ Goto(c, "lock", IF op[c] = "START" THEN "recheck" ELSE "clear")
    /\ Acquire(c)
    /\ UNCHANGED <<running, dying, timerVars, workVars, op, remVars>>

StartAllowed_Unchecked == TRUE    \* mutant: no second test of dying

(* START tests dying again once it holds the lock. *)
StartAllowed == ~dying

RecheckDying(c) == Step(c, "recheck", IF StartAllowed THEN "set" ELSE "unlock")

NeedStart_Inverted == running     \* mutant: the condition inverted
NeedStart == ~running

SetRunning(c) ==
    /\ StateLockFree
    /\ Goto(c, "set", IF NeedStart THEN "arm" ELSE "unlock")
    /\ running' = TRUE
    /\ UNCHANGED <<dying, controlLock, timerVars, workVars, op, remVars>>

Arm(c) ==
    /\ Goto(c, "arm", "unlock")
    /\ HrtimerStart
    /\ UNCHANGED <<flagVars, workVars, op, remVars>>

ClearRunning(c) ==
    /\ StateLockFree
    /\ Goto(c, "clear", "cancel_timer")
    /\ running' = FALSE
    /\ UNCHANGED <<dying, controlLock, timerVars, workVars, op, remVars>>

CancelTimer(c) ==
    /\ Goto(c, "cancel_timer", "cancel_work")
    /\ HrtimerCancel
    /\ UNCHANGED <<flagVars, workVars, op, remVars>>

CancelWork(c) ==
    /\ Goto(c, "cancel_work", "flush_work")
    /\ CancelPending
    /\ UNCHANGED <<flagVars, timerVars, op, remVars>>

FlushWork(c) == WorkFlushed /\ Step(c, "flush_work", "unlock")

UnlockControl(c) ==
    /\ Goto(c, "unlock", "idle")
    /\ Release
    /\ UNCHANGED <<running, dying, timerVars, workVars, op, remVars>>

Continue(c) ==
    \/ CheckDying(c) \/ RecheckDying(c) \/ SetRunning(c) \/ Arm(c)
    \/ ClearRunning(c) \/ CancelTimer(c) \/ CancelWork(c) \/ FlushWork(c)
    \/ UnlockControl(c)

(***************************************************************************)
(* sensor_remove, up to the release of control_lock.                       *)
(***************************************************************************)
RGoto(from, to) == rpc = from /\ rpc' = to

RStep(from, to) ==
    RGoto(from, to) /\ UNCHANGED <<flagVars, timerVars, workVars, callVars, removerCpu>>

Unbind == RStep("bound", "lock")

RemoverLock ==
    /\ RGoto("lock", "mark")
    /\ Acquire(Remover)
    /\ UNCHANGED <<running, dying, timerVars, workVars, callVars, removerCpu>>

RemoverMark ==
    /\ RGoto("mark", "spin")
    /\ dying' = TRUE
    /\ UNCHANGED <<running, controlLock, timerVars, workVars, callVars, removerCpu>>

(* spin_lock(&dev->state_lock): interrupts stay enabled.  The remover runs, *)
(* so it is not on a CPU on which the interrupt is being served.           *)
RemoverSpin ==
    /\ RGoto("spin", "clear")
    /\ \E cpu \in RemoverCpus : ~Interrupted(cpu) /\ removerCpu' = cpu
    /\ UNCHANGED <<flagVars, timerVars, workVars, callVars>>

RemoverClear ==
    /\ ~Interrupted(removerCpu)
    /\ RGoto("clear", "unspin")
    /\ running' = FALSE
    /\ UNCHANGED <<dying, controlLock, timerVars, workVars, callVars, removerCpu>>

RemoverUnspin == ~Interrupted(removerCpu) /\ RStep("unspin", "cancel_timer")

RemoverCancelTimer ==
    /\ RGoto("cancel_timer", "cancel_work")
    /\ HrtimerCancel
    /\ UNCHANGED <<flagVars, workVars, callVars, removerCpu>>

RemoverCancelWork ==
    /\ RGoto("cancel_work", "flush_work")
    /\ CancelPending
    /\ UNCHANGED <<flagVars, timerVars, callVars, removerCpu>>

RemoverFlushWork == WorkFlushed /\ RStep("flush_work", "unlock")

RemoverUnlock ==
    /\ RGoto("unlock", "done")
    /\ Release
    /\ UNCHANGED <<running, dying, timerVars, workVars, callVars, removerCpu>>

RemoverContinue ==
    \/ RemoverMark \/ RemoverSpin \/ RemoverClear \/ RemoverUnspin
    \/ RemoverCancelTimer \/ RemoverCancelWork \/ RemoverFlushWork \/ RemoverUnlock

Next ==
    \/ TimerFires \/ Callback \/ Work
    \/ \E c \in Callers : Call(c) \/ LockControl(c) \/ Continue(c)
    \/ Unbind \/ RemoverLock \/ RemoverContinue

(***************************************************************************)
(* A queued timer expires, the work queue runs what is queued and a thread *)
(* in the kernel keeps running; a mutex is handed to a waiter that keeps   *)
(* losing the race for it (MUTEX_FLAG_HANDOFF), hence strong fairness.     *)
(* Nobody is obliged to issue a command or to unbind the device.           *)
(***************************************************************************)
Fairness ==
    /\ WF_vars(TimerFires) /\ WF_vars(Callback) /\ WF_vars(Work)
    /\ \A c \in Callers : WF_vars(Continue(c)) /\ SF_vars(LockControl(c))
    /\ WF_vars(RemoverContinue) /\ SF_vars(RemoverLock)

Spec == Init /\ [][Next]_vars
FairSpec == Spec /\ Fairness

(***************************************************************************)
(* Properties.                                                             *)
(***************************************************************************)
Quiet == ~armed /\ cb = "idle" /\ ~pending /\ work = "idle"

(* Nothing is armed, queued or running once STOP or the removal has let go *)
(* of control_lock, and it stays so until somebody starts again.           *)
StoppedIsQuiet == (~running /\ controlLock = NoOne) => Quiet

(* The timer is queued, or its callback has not decided yet or is about to *)
(* queue it again.                                                         *)
Alive == armed \/ cb \in {"check", "schedule", "forward"}

(* While the device is on and nobody holds control_lock, sampling goes on: *)
(* a callback that saw running = FALSE, and returns HRTIMER_NORESTART some *)
(* time after it has let go of state_lock, never lets a device that was    *)
(* restarted meanwhile go silent.                                          *)
RunningIsAlive == (running /\ controlLock = NoOne) => Alive

(* START calls hrtimer_start only on a timer that is neither queued nor in *)
(* its callback, with no sample of the time before STOP still under way.   *)
StartFindsQuiet == \A c \in Callers : pc[c] = "arm" => Quiet

(* A callback that tells the timer not to restart has somebody waiting to  *)
(* cancel it, when it decides and still when it returns: sampling is given *)
(* up only under control_lock.                                             *)
NoRestartOnlyWhenStopping ==
    [][cb' = "norestart" \/ CbNoRestart => controlLock # NoOne]_vars

(* After the removal has passed cancel_work_sync nothing of the machinery  *)
(* moves any more: the device memory may be freed.                         *)
RemovedStaysQuiet == rpc \in {"unlock", "done"} => Quiet /\ ~running

(* The timer interrupt never waits for a lock whose holder is the thread   *)
(* it has interrupted.                                                     *)
IsrNeverSpinsOnItsVictim == ~(cb = "check" /\ ~StateLockFree /\ Interrupted(removerCpu))

(***************************************************************************)
(* The inductive invariant behind the safety properties.  Its parts say    *)
(* who owns control_lock, that dying is set under it before anything is    *)
(* torn down, that the owner who is about to arm found the machinery quiet,*)
(* and how far it is drained at each step of a cancellation.               *)
(***************************************************************************)
InControl  == {"recheck", "set", "arm", "clear", "cancel_timer", "cancel_work",
               "flush_work", "unlock"}
RInControl == {"mark", "spin", "clear", "unspin", "cancel_timer", "cancel_work",
               "flush_work", "unlock"}
Halting    == {"cancel_timer", "cancel_work", "flush_work"}

LockOwner ==
    /\ \A c \in Callers : pc[c] \in InControl <=> controlLock = c
    /\ rpc \in RInControl <=> controlLock = Remover

DyingSince ==
    /\ dying <=> rpc \notin {"bound", "lock", "mark"}
    /\ \A c \in Callers : pc[c] \in {"set", "arm"} => ~dying

HaltingIsOff ==
    /\ \A c \in Callers : pc[c] \in Halting => ~running
    /\ rpc \in Halting \cup {"unspin", "unlock", "done"} => ~running

(* x is how far somebody who halts the machinery has come. *)
At(x) == rpc = x \/ \E c \in Callers : pc[c] = x

DrainedInOrder ==
    ~running => \/ At("cancel_timer") \/ rpc = "unspin"
                \/ At("cancel_work") /\ ~armed /\ cb = "idle"
                \/ At("flush_work") /\ ~armed /\ cb = "idle" /\ ~pending
                \/ Quiet

AliveOrArming ==
    /\ running => Alive \/ \E c \in Callers : pc[c] = "arm"
    /\ \A c \in Callers : pc[c] = "arm" => running
    /\ cb = "norestart" => ~running /\ At("cancel_timer")

IInv == /\ TypeOK
        /\ LockOwner /\ DyingSince /\ HaltingIsOff /\ DrainedInOrder
        /\ AliveOrArming /\ StartFindsQuiet /\ RemovedStaysQuiet

(* The deadlock: the thread that removes the device holds state_lock and is*)
(* under the interrupt that spins on it.                                   *)
SelfDeadlock == ~IsrNeverSpinsOnItsVictim

(* START and STOP return and the removal gets past control_lock and both   *)
(* cancellations: the callers wait for one another, for the callback and   *)
(* for the work in no cycle but that of SelfDeadlock.                      *)
CallsReturn ==
    /\ \A c \in Callers : pc[c] # "idle" ~> (pc[c] = "idle" \/ SelfDeadlock)
    /\ rpc # "bound" ~> (rpc = "done" \/ SelfDeadlock)

(* As long as the device is on, samples are taken again and again: no race *)
(* of START, STOP and the callback leaves it on and silent.                *)
KeepsSampling == running ~> (work = "running" \/ ~running \/ SelfDeadlock)

(***************************************************************************)
(* Refinement: the switch of module Sampler.                               *)
(***************************************************************************)
SwitchMode ==
    IF running THEN "on"
    ELSE IF rpc \in {"unlock", "done"} THEN "gone"
    ELSE IF rpc \in Halting \cup {"unspin"} \/ \E c \in Callers : pc[c] \in Halting
         THEN "stopping"
    ELSE "off"

Switch == INSTANCE Sampler WITH mode <- SwitchMode, active <- ~Quiet
SwitchSpec == Switch!Spec
=============================================================================
