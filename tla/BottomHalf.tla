----------------------------- MODULE BottomHalf -----------------------------
(***************************************************************************)
(* The button interrupt of gpio_irq_demo.c, gpio_irq_tasklet.c and         *)
(* gpio_irq_threaded.c: a top half that counts and defers, a bottom half   *)
(* that counts and sleeps, and the unload that has to stop both.  The three*)
(* differ in who runs the bottom half, hence in what unloading does with   *)
(* one that is still pending:                                              *)
(*   "work"     cancel_work_sync takes it off the queue                    *)
(*   "tasklet"  tasklet_kill lets it run first                             *)
(*   "thread"   free_irq stops the thread, which runs a last time if woken *)
(***************************************************************************)
EXTENDS DemoConstants

VARIABLES
    kind,          \* which of the three modules is loaded
    top,           \* top_count
    bottom,        \* bottom_count
    isr,           \* where my_isr is
    pending,       \* the work is queued, the tasklet scheduled, the thread woken
    bh,            \* where the bottom half is
    served,        \* history: top_count when the bottom half was started last
    epc            \* where the unload is

vars == <<kind, top, bottom, isr, pending, bh, served, epc>>

TypeOK ==
    /\ kind \in {"work", "tasklet", "thread"}
    /\ top \in 0 .. MaxPresses /\ bottom \in Nat /\ served \in 0 .. MaxPresses
    /\ isr \in {"idle", "defer"}
    /\ pending \in BOOLEAN
    /\ bh \in {"idle", "count", "sleep"}
    /\ epc \in {"loaded", "free_irq", "kill", "wait", "unloaded"}

Init ==
    /\ kind \in {"work", "tasklet", "thread"}
    /\ top = 0 /\ bottom = 0 /\ served = 0
    /\ isr = "idle" /\ pending = FALSE /\ bh = "idle"
    /\ epc = "loaded"

(* The falling edge: my_isr counts it ...                                  *)
Press ==
    /\ epc = "loaded" /\ isr = "idle" /\ top < MaxPresses
    /\ top' = top + 1 /\ isr' = "defer"
    /\ UNCHANGED <<kind, bottom, pending, bh, served, epc>>

Deferred_IfIdle == pending \/ bh = "idle"    \* mutant: not while it is running

(* ... and defers: schedule_work, tasklet_schedule or IRQ_WAKE_THREAD sets *)
(* the pending bit, which may be set already.                              *)
Deferred == TRUE

Defer ==
    /\ isr = "defer" /\ isr' = "idle"
    /\ pending' = Deferred
    /\ UNCHANGED <<kind, top, bottom, bh, served, epc>>

(* The pending bit is cleared before the bottom half runs, so that a press *)
(* in the middle of it asks for another run.                               *)
StillPending == FALSE

StartBottom ==
    /\ pending /\ bh = "idle"
    /\ bh' = "count" /\ pending' = StillPending /\ served' = top
    /\ UNCHANGED <<kind, top, bottom, isr, epc>>

CountBottom ==
    /\ bh = "count" /\ bh' = "sleep"
    /\ bottom' = bottom + 1
    /\ UNCHANGED <<kind, top, isr, pending, served, epc>>

EndBottom ==
    /\ bh = "sleep" /\ bh' = "idle"
    /\ UNCHANGED <<kind, top, bottom, isr, pending, served, epc>>

(***************************************************************************)
(* gpio_irq_exit: stop the interrupt, then the bottom half.                *)
(***************************************************************************)
EGoto(from, to) == epc = from /\ epc' = to /\ UNCHANGED <<kind, top, bottom, isr, bh, served>>

Unload == EGoto("loaded", "free_irq") /\ UNCHANGED pending

IrqDone == isr = "idle" /\ (kind = "thread" => ~pending /\ bh = "idle")

(* free_irq returns when no handler runs any more; of a threaded interrupt *)
(* that includes the thread.                                               *)
FreeIrq == IrqDone /\ EGoto("free_irq", "kill") /\ UNCHANGED pending

(* cancel_work_sync dequeues; tasklet_kill waits for the pending run.      *)
Kill ==
    /\ kind = "tasklet" => ~pending
    /\ EGoto("kill", "wait")
    /\ pending' = FALSE

Finished == bh = "idle"

KillDone == Finished /\ EGoto("wait", "unloaded") /\ UNCHANGED pending

Next ==
    \/ Press \/ Defer
    \/ StartBottom \/ CountBottom \/ EndBottom
    \/ Unload \/ FreeIrq \/ Kill \/ KillDone

(* Interrupts return, what is pending is run, the unload goes on.          *)
Fairness ==
    /\ WF_vars(Defer)
    /\ WF_vars(StartBottom) /\ WF_vars(CountBottom \/ EndBottom)
    /\ WF_vars(FreeIrq \/ Kill \/ KillDone)

Spec == Init /\ [][Next]_vars

(***************************************************************************)
(* Properties.                                                             *)
(***************************************************************************)

(* Presses are merged (one bit) but none is forgotten: after each there is *)
(* a run of the bottom half that starts later, unless cancel_work_sync has *)
(* taken it back.                                                          *)
NoPressForgotten ==
    served < top => \/ pending \/ isr = "defer"
                    \/ kind = "work" /\ epc \in {"wait", "unloaded"}

(* The bottom half never runs more often than the button was pressed.      *)
Started == IF bh = "count" THEN bottom + 1 ELSE bottom
NoRunUnasked ==
    Started + (IF pending THEN 1 ELSE 0) + (IF isr = "defer" THEN 1 ELSE 0) <= top

(* When the module has gone nothing of it runs or is about to.             *)
UnloadedIsQuiet == epc = "unloaded" => isr = "idle" /\ bh = "idle" /\ ~pending

(* A bottom half that cannot be cancelled has run for the last press.      *)
LastPressServed == epc = "unloaded" /\ kind # "work" => served = top

(* The inductive invariant: the unload has left behind what it waited for. *)
IInv == /\ TypeOK /\ NoPressForgotten /\ NoRunUnasked /\ UnloadedIsQuiet
        /\ served <= top
        /\ epc \in {"kill", "wait", "unloaded"} => isr = "idle"
        /\ epc \in {"kill", "wait"} /\ kind = "thread" => ~pending /\ bh = "idle"
        /\ epc \in {"wait", "unloaded"} => ~pending

(* Every press is served, or the unload intervenes.                        *)
PressIsServed == served < top ~> (served = top \/ epc # "loaded")

(* rmmod returns.                                                          *)
UnloadCompletes == epc # "loaded" ~> epc = "unloaded"
=============================================================================
