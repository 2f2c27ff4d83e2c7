------------------------------ MODULE CompDemo ------------------------------
(***************************************************************************)
(* comp_demo.c: a button interrupt completes, a kernel thread waits for    *)
(* the completion, and the unload has to get the thread out of an          *)
(* uninterruptible wait.                                                   *)
(***************************************************************************)
EXTENDS Naturals

CONSTANT MaxPresses    \* bound: interrupts in a behaviour

VARIABLES
    presses,       \* history: interrupts so far
    isr,           \* my_isr is between its entry and complete()
    done,          \* my_comp.done
    wpc,           \* where waiter_fn is
    wake_count,
    stop,          \* kthread_stop has been called
    epc            \* where comp_init or comp_exit is; "absent" before insmod

vars == <<presses, isr, done, wpc, wake_count, stop, epc>>

Init ==
    /\ presses = 0 /\ isr = FALSE /\ done = 0
    /\ wpc = "none" /\ wake_count = 0
    /\ stop = FALSE /\ epc = "absent"

(* my_isr; the interrupt is on before the thread exists.                   *)
Requested == epc \in {"create", "undo", "loaded", "free_irq"}

Press ==
    /\ Requested /\ ~isr /\ presses < MaxPresses
    /\ presses' = presses + 1 /\ isr' = TRUE
    /\ UNCHANGED <<done, wpc, wake_count, stop, epc>>

Completed_Flag(n) == 1         \* mutant: a flag, not a count
Completed(n) == n + 1

IsrComplete ==
    /\ isr /\ isr' = FALSE
    /\ done' = Completed(done)
    /\ UNCHANGED <<presses, wpc, wake_count, stop, epc>>

(* waiter_fn: test, wait (consumes one completion), count.                 *)
WGoto(from, to) == wpc = from /\ wpc' = to /\ UNCHANGED <<presses, isr, stop, epc>>

WTest ==
    /\ WGoto("test", IF stop THEN "done" ELSE "wait")
    /\ UNCHANGED <<done, wake_count>>

Available(n) == n > 0

WWait ==
    /\ Available(done)
    /\ WGoto("wait", "count")
    /\ done' = done - 1
    /\ UNCHANGED wake_count

WCount ==
    /\ WGoto("count", "test")
    /\ wake_count' = wake_count + 1
    /\ UNCHANGED done

(***************************************************************************)
(* comp_init and comp_exit.                                                *)
(***************************************************************************)
EGoto(from, to) == epc = from /\ epc' = to /\ UNCHANGED <<presses, isr, wake_count>>

(* insmod, up to request_irq; then kthread_run succeeds or fails.          *)
Insmod == EGoto("absent", "create") /\ UNCHANGED <<done, wpc, stop>>

Load ==
    \/ EGoto("create", "loaded") /\ wpc' = "test" /\ UNCHANGED <<done, stop>>
    \/ EGoto("create", "undo") /\ UNCHANGED <<done, wpc, stop>>
    \/ ~isr /\ EGoto("undo", "failed") /\ UNCHANGED <<done, wpc, stop>>

Unload == EGoto("loaded", "free_irq") /\ UNCHANGED <<done, wpc, stop>>

IrqDone_NoSync == TRUE    \* mutant: does not wait for a running handler
IrqDone == ~isr

FreeIrq == IrqDone /\ EGoto("free_irq", "complete") /\ UNCHANGED <<done, wpc, stop>>

Extra_None(n) == n    \* mutant: no completion for the thread's sake
Extra(n) == Completed(n)

CompleteOnce ==
    /\ EGoto("complete", "stop")
    /\ done' = Extra(done)
    /\ UNCHANGED <<wpc, stop>>

SetStop ==
    /\ ~stop
    /\ epc = "stop" /\ stop' = TRUE
    /\ UNCHANGED <<presses, isr, done, wpc, wake_count, epc>>

Stopped == stop /\ wpc = "done" /\ EGoto("stop", "unloaded") /\ UNCHANGED <<done, wpc, stop>>

Next ==
    \/ Press \/ IsrComplete
    \/ WTest \/ WWait \/ WCount
    \/ Insmod \/ Load \/ Unload \/ FreeIrq \/ CompleteOnce \/ SetStop \/ Stopped

Fairness ==
    /\ WF_vars(IsrComplete) /\ WF_vars(WTest \/ WWait \/ WCount)
    /\ WF_vars(Load) /\ WF_vars(FreeIrq \/ CompleteOnce \/ SetStop \/ Stopped)

Spec == Init /\ [][Next]_vars
FairSpec == Spec /\ Fairness

-----------------------------------------------------------------------------
TypeOK ==
    /\ presses \in 0 .. MaxPresses
    /\ done \in 0 .. MaxPresses + 1 /\ wake_count \in 0 .. MaxPresses + 1
    /\ isr \in BOOLEAN /\ stop \in BOOLEAN
    /\ wpc \in {"none", "test", "wait", "count", "done"}
    /\ epc \in {"absent", "create", "undo", "failed", "loaded", "free_irq",
                "complete", "stop", "unloaded"}

(* Wake-ups so far, the one being counted included.                        *)
Woken == wake_count + (IF wpc = "count" THEN 1 ELSE 0)

(* Every press, also one before the thread runs, is one wake-up: counted,  *)
(* being counted, or still in the completion.  The unload adds one.        *)
EachPressWakes ==
    Woken + done + (IF isr THEN 1 ELSE 0)
        = presses + (IF epc \in {"stop", "unloaded"} THEN 1 ELSE 0)

(* Once free_irq has returned no interrupt handler uses the completion, and *)
(* when the unload is over no thread does.                                 *)
UnloadedIsQuiet ==
    /\ epc \in {"complete", "stop", "unloaded", "failed"} => ~isr
    /\ epc \in {"unloaded", "failed"} => wpc \in {"none", "done"}

(* What is inductive: before the thread exists, and when it does not come  *)
(* to exist, it has counted nothing.                                       *)
IInv == /\ TypeOK /\ EachPressWakes /\ UnloadedIsQuiet
        /\ epc \in {"absent", "create", "undo", "failed"} => wpc = "none"
        /\ epc = "absent" => ~isr

(* rmmod hangs in one way only: the thread uses the extra completion up    *)
(* and tests kthread_should_stop before kthread_stop sets it.  Otherwise   *)
(* comp_exit returns.                                                      *)
ExitIfNotConsumed ==
    [](epc = "stop" /\ ~stop => Woken <= presses)
        => (epc = "free_irq" ~> epc = "unloaded")

(* comp_exit returns: the extra completion gets the thread out of its wait.*)
ExitTerminates == epc = "free_irq" ~> epc = "unloaded"
=============================================================================
