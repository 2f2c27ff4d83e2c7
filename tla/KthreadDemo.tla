---------------------------- MODULE KthreadDemo -----------------------------
(***************************************************************************)
(* kthread_demo.c: a heartbeat thread sleeps interval_ms between beats,    *)
(* processes write /sys/kernel/kthread_demo/interval_ms, and kthread_stop  *)
(* waits for the sleep that is going on.  Every access to interval_ms is   *)
(* one critical section of interval_lock, hence one step.                  *)
(***************************************************************************)
EXTENDS Integers

CONSTANT Inputs    \* what is written to interval_ms, after kstrtoint

Default  == 1000
Shortest == 50
Longest  == 10000

VARIABLES
    interval_ms,
    hb,            \* where heartbeat_fn is
    local_interval,
    stop,          \* kthread_stop has been called
    epc            \* where kthread_demo_init or kthread_demo_exit is

vars == <<interval_ms, hb, local_interval, stop, epc>>

Init ==
    /\ interval_ms = Default /\ local_interval = Default
    /\ hb = "none" /\ stop = FALSE /\ epc = "create"

(* heartbeat_fn.                                                           *)
HGoto(from, to) == hb = from /\ hb' = to /\ UNCHANGED <<interval_ms, stop, epc>>

Beat == HGoto("test", IF stop THEN "done" ELSE "copy") /\ UNCHANGED local_interval
Copy == HGoto("copy", "sleep") /\ local_interval' = interval_ms

(* msleep takes an unsigned int: a negative interval is one of many days.  *)
Slept == local_interval \in 0 .. Longest
Wake == Slept /\ HGoto("sleep", "test") /\ UNCHANGED local_interval

(* interval_store.  The guard of the code holds of every number, what is   *)
(* not above 50 is below 10000: also `echo 200', which the load message    *)
(* invites to try, is refused.                                             *)
Refused(n) == n > Shortest \/ n < Longest

Write ==
    /\ epc \notin {"failed", "unloaded"}
    /\ \E n \in Inputs : interval_ms' = IF Refused(n) THEN interval_ms ELSE n
    /\ UNCHANGED <<hb, local_interval, stop, epc>>

(* kthread_demo_init: the attribute is there before the thread is, and is  *)
(* taken away when kthread_run fails.                                      *)
Load ==
    /\ epc = "create"
    /\ \/ epc' = "loaded" /\ hb' = "test"
       \/ epc' = "failed" /\ UNCHANGED hb
    /\ UNCHANGED <<interval_ms, local_interval, stop>>

(* kthread_demo_exit: kthread_stop, then the attribute goes.               *)
Exit ==
    /\ \/ epc = "loaded" /\ epc' = "stop" /\ stop' = TRUE
       \/ epc = "stop" /\ hb = "done" /\ epc' = "remove" /\ UNCHANGED stop
       \/ epc = "remove" /\ epc' = "unloaded" /\ UNCHANGED stop
    /\ UNCHANGED <<interval_ms, hb, local_interval>>

Heartbeat == Beat \/ Copy \/ Wake

Next == Heartbeat \/ Write \/ Load \/ Exit

Spec == Init /\ [][Next]_vars

-----------------------------------------------------------------------------
(* The thread never goes to sleep for longer than the longest interval, so *)
(* rmmod never waits longer than that.                                     *)
SleepIsBounded == hb = "sleep" => Slept

(* The inductive invariant: no write gets a number out of range in.        *)
IInv == interval_ms \in 0 .. Longest /\ local_interval \in 0 .. Longest /\ SleepIsBounded

(* rmmod returns, also when it comes in the middle of a beat or a write.   *)
UnloadCompletes == epc = "stop" ~> epc = "unloaded"
=============================================================================
