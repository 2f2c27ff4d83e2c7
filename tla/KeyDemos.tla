------------------------------ MODULE KeyDemos ------------------------------
(***************************************************************************)
(* comp_demo.c and key_debounce.c on one board.  Both ask gpio_request for *)
(* GPIO 129, so insmod of the second fails while the first is loaded: here *)
(* one of the two is loaded in a behaviour, and the other stays out.       *)
(***************************************************************************)
EXTENDS DemoConstants

VARIABLES
    presses, isr, done, wpc, wake_count, stop, cepc,                  \* CompDemo
    raw_count, press_count, timer, callback, disr, quiet, bursts, depc    \* Debounce

compVars == <<presses, isr, done, wpc, wake_count, stop, cepc>>
dbncVars == <<raw_count, press_count, timer, callback, disr, quiet, bursts, depc>>
vars == <<compVars, dbncVars>>

Comp == INSTANCE CompDemo WITH epc <- cepc
Dbnc == INSTANCE Debounce WITH isr <- disr, epc <- depc

(* gpio_request: the line has one owner.                                   *)
LineFree == cepc = "absent" /\ depc = "absent"

Init == Comp!Init /\ Dbnc!Init

Next ==
    \/ (cepc = "absent" => LineFree) /\ Comp!Next /\ UNCHANGED dbncVars
    \/ (depc = "absent" => LineFree) /\ Dbnc!Next /\ UNCHANGED compVars

Spec == Init /\ [][Next]_vars

-----------------------------------------------------------------------------
(* Every press is counted by waiter_fn, being counted, or kept in the      *)
(* completion; comp_exit adds one.                                         *)
EachPressWakes == Comp!EachPressWakes

(* rmmod of comp_demo hangs only if the waiter uses the extra completion   *)
(* up before kthread_stop sets the flag.                                   *)
ExitIfNotConsumed == Comp!ExitIfNotConsumed

(* key_debounce never counts a bounce as a press.                          *)
OnePerBurst == Dbnc!OnePerBurst

(* ... and after the last edge of a burst it does count one.               *)
BurstIsCounted == Dbnc!BurstIsCounted

(* Whichever of the two was loaded: when its exit function gives the line  *)
(* back, no handler, thread or timer of it is left.                        *)
LineGivenBack == Comp!TypeOK /\ Dbnc!TypeOK /\ Comp!UnloadedIsQuiet /\ Dbnc!UnloadedIsQuiet

(* The two inductive invariants.                                           *)
IInv == Comp!IInv /\ Dbnc!IInv
=============================================================================
