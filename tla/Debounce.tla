------------------------------ MODULE Debounce ------------------------------
(***************************************************************************)
(* key_debounce.c: every edge of a bouncing button pushes a timer back;    *)
(* when it expires one press is counted.  Time goes in ticks; the softirq  *)
(* may run the callback any time after the timer has expired, and an edge  *)
(* that comes first pushes the timer back once more.                       *)
(***************************************************************************)
EXTENDS Naturals

CONSTANTS
    D,             \* DEBOUNCE_MS in ticks
    MaxEdges       \* bound: interrupts in a behaviour

VARIABLES
    raw_count,
    press_count,
    timer,         \* ticks until it expires, 0 when it has; Off: not armed
    callback,      \* debounce_timer_fn runs
    isr,           \* debounce_isr has counted and not yet called mod_timer
    quiet,         \* history: ticks since the last edge, at most D
    bursts,        \* history: edges after at least D quiet ticks
    epc            \* where dbnc_exit is; "absent" before insmod

vars == <<raw_count, press_count, timer, callback, isr, quiet, bursts, epc>>

Off == D + 1

TypeOK ==
    /\ raw_count \in 0 .. MaxEdges /\ bursts \in 0 .. MaxEdges
    /\ press_count \in 0 .. MaxEdges
    /\ timer \in 0 .. Off /\ quiet \in 0 .. D
    /\ callback \in BOOLEAN /\ isr \in BOOLEAN
    /\ epc \in {"absent", "loaded", "free_irq", "timer", "wait", "unloaded"}

Init ==
    /\ raw_count = 0 /\ press_count = 0 /\ bursts = 0
    /\ timer = Off /\ callback = FALSE /\ isr = FALSE
    /\ quiet = D
    /\ epc = "absent"

(* debounce_isr: count under the lock ...                                  *)
Edge ==
    /\ epc \in {"loaded", "free_irq"} /\ ~isr /\ raw_count < MaxEdges
    /\ raw_count' = raw_count + 1 /\ isr' = TRUE
    /\ bursts' = IF quiet = D THEN bursts + 1 ELSE bursts
    /\ quiet' = 0
    /\ UNCHANGED <<press_count, timer, callback, epc>>

Armed_Once(t) == IF t = Off THEN D ELSE t    \* mutant: an armed timer is left alone
Armed_Never(t) == Off                        \* mutant: no mod_timer
Armed(t) == D

(* ... and push the timer back.                                            *)
ModTimer ==
    /\ isr /\ isr' = FALSE
    /\ timer' = Armed(timer)
    /\ UNCHANGED <<raw_count, press_count, callback, quiet, bursts, epc>>

(* An interrupt handler does not last a tick.                              *)
Tick ==
    /\ ~isr
    /\ timer \in 1 .. D \/ quiet < D
    /\ timer' = IF timer \in 1 .. D THEN timer - 1 ELSE timer
    /\ quiet' = IF quiet < D THEN quiet + 1 ELSE quiet
    /\ UNCHANGED <<raw_count, press_count, callback, isr, bursts, epc>>

AfterExpiry == Off

Expire ==
    /\ timer = 0 /\ ~callback
    /\ timer' = AfterExpiry /\ callback' = TRUE
    /\ UNCHANGED <<raw_count, press_count, isr, quiet, bursts, epc>>

(* debounce_timer_fn.                                                      *)
Count ==
    /\ callback /\ callback' = FALSE
    /\ press_count' = press_count + 1
    /\ UNCHANGED <<raw_count, timer, isr, quiet, bursts, epc>>

(***************************************************************************)
(* dbnc_init, and dbnc_exit: free_irq, then timer_delete_sync.             *)
(***************************************************************************)
EGoto(from, to) ==
    /\ epc = from /\ epc' = to
    /\ UNCHANGED <<raw_count, press_count, callback, isr, quiet, bursts>>

Insmod == EGoto("absent", "loaded") /\ UNCHANGED timer

Unload == EGoto("loaded", "free_irq") /\ UNCHANGED timer

IrqDone == ~isr

FreeIrq == IrqDone /\ EGoto("free_irq", "timer") /\ UNCHANGED timer

DeleteTimer == EGoto("timer", "wait") /\ timer' = Off

CallbackDone == ~callback

TimerGone == CallbackDone /\ EGoto("wait", "unloaded") /\ UNCHANGED timer

Next ==
    \/ Edge \/ ModTimer \/ Tick \/ Expire \/ Count
    \/ Insmod \/ Unload \/ FreeIrq \/ DeleteTimer \/ TimerGone

Fairness ==
    /\ WF_vars(ModTimer) /\ WF_vars(Tick) /\ WF_vars(Expire) /\ WF_vars(Count)
    /\ WF_vars(FreeIrq \/ DeleteTimer \/ TimerGone)

Spec == Init /\ [][Next]_vars

-----------------------------------------------------------------------------
(* Bounces are never counted as presses: a count, also one to come, stands *)
(* for a burst of edges of its own.                                        *)
OnePerBurst ==
    press_count + (IF callback THEN 1 ELSE 0)
        + (IF timer # Off \/ isr THEN 1 ELSE 0) <= bursts

(* After the unload neither the handler nor the callback runs or can run.  *)
UnloadedIsQuiet == epc = "unloaded" => ~isr /\ ~callback /\ timer = Off

(* What is inductive: the timer has left what is missing of D quiet ticks, *)
(* so an edge that finds it expired begins a burst of its own.             *)
Expiring == IF isr /\ timer = 0 THEN 1 ELSE 0
TimerFollows ==
    /\ isr => quiet = 0
    /\ ~isr => timer = Off \/ timer = D - quiet
    /\ ~isr /\ quiet < D => timer # Off \/ epc \in {"wait", "unloaded"}

IInv == /\ TypeOK /\ TimerFollows /\ UnloadedIsQuiet
        /\ press_count + (IF callback THEN 1 ELSE 0)
               + (IF timer # Off \/ isr THEN 1 ELSE 0) + Expiring <= bursts
        /\ bursts <= raw_count
        /\ epc \in {"timer", "wait", "unloaded"} => ~isr
        /\ epc \in {"wait", "unloaded"} => timer = Off

(* After the last edge of a burst the callback comes, unless the module is *)
(* unloaded first.                                                         *)
BurstIsCounted ==
    \A n \in 1 .. MaxEdges :
        isr /\ raw_count = n ~> raw_count > n \/ callback \/ epc # "loaded"
=============================================================================
