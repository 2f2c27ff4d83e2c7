------------------------------ MODULE IanGate -------------------------------
(***************************************************************************)
(* The clock of ian_clk.c and its attribute enable.  The clock framework   *)
(* takes its locks once for the prepare count and once for the enable      *)
(* count; what it refuses it only warns of, and enable_store looks at no   *)
(* result.  remove takes the attribute away and unregisters the clock.     *)
(***************************************************************************)
EXTENDS Naturals, FiniteSets

CONSTANTS
    Threads,       \* processes that write enable
    MaxOn          \* bound: how often the clock is on

VARIABLES
    prepare_count, enable_count,    \* of the clock, kept by the framework
    enabled,       \* ian_clk->enabled
    surplus,       \* history: somebody wrote 0 to a clock that was off
    step,          \* where each thread is in enable_store
    attr           \* the attribute: "there", "going", then the clock: "gone"

vars == <<prepare_count, enable_count, enabled, surplus, step, attr>>

Init ==
    /\ prepare_count = 0 /\ enable_count = 0
    /\ enabled = FALSE /\ surplus = FALSE
    /\ step = [t \in Threads |-> "out"] /\ attr = "there"

Goto(t, from, to) == step[t] = from /\ step' = [step EXCEPT ![t] = to] /\ UNCHANGED attr

At(steps) == {t \in Threads : step[t] \in steps}

(* echo 1: clk_prepare, then clk_enable.                                   *)
Prepare(t) ==
    /\ attr = "there" /\ enable_count + Cardinality(At({"enable"})) < MaxOn
    /\ Goto(t, "out", "enable")
    /\ prepare_count' = prepare_count + 1
    /\ UNCHANGED <<enable_count, enabled, surplus>>

(* ian_clk_enable, unless somebody has unprepared the clock; then the      *)
(* prepare is taken back.                                                  *)
Enable(t) ==
    \/ /\ prepare_count > 0 /\ Goto(t, "enable", "out")
       /\ enable_count' = enable_count + 1 /\ enabled' = TRUE
       /\ UNCHANGED <<prepare_count, surplus>>
    \/ /\ prepare_count = 0 /\ Goto(t, "enable", "undo")
       /\ UNCHANGED <<prepare_count, enable_count, enabled, surplus>>

OffFirst_Unprepare == FALSE    \* mutant: unprepare, then disable
OffFirst == TRUE

LessOne(n) == IF n = 0 THEN 0 ELSE n - 1

(* echo 0: clk_disable, hence ian_clk_disable when it is the last, then    *)
(* clk_unprepare.                                                          *)
Disable(t) ==
    /\ attr = "there" /\ Goto(t, "out", "unprepare")
    /\ IF OffFirst
       THEN /\ enable_count' = LessOne(enable_count)
            /\ enabled' = (enable_count > 1)
            /\ UNCHANGED prepare_count
       ELSE prepare_count' = LessOne(prepare_count) /\ UNCHANGED <<enable_count, enabled>>
    /\ surplus' = (surplus \/ enable_count = 0)

Unprepare(t) ==
    /\ Goto(t, "unprepare", "out") \/ Goto(t, "undo", "out")
    /\ prepare_count' = LessOne(prepare_count)
    /\ UNCHANGED <<enable_count, enabled, surplus>>

(* device_remove_file; clk_unregister once those inside have left.         *)
Remove ==
    /\ \/ attr = "there" /\ attr' = "going"
       \/ attr = "going" /\ At({"out"}) = Threads /\ attr' = "gone"
    /\ UNCHANGED <<prepare_count, enable_count, enabled, surplus, step>>

Next ==
    \/ \E t \in Threads : Prepare(t) \/ Enable(t) \/ Disable(t) \/ Unprepare(t)
    \/ Remove

-----------------------------------------------------------------------------
(* The flag follows the count; and as long as nobody writes 0 to a clock   *)
(* that is off, every enable stands on a prepare, under every interleaving *)
(* of the two halves of enable_store, and none is refused.                 *)
ClockBalanced ==
    /\ enabled = (enable_count > 0)
    /\ ~surplus => /\ prepare_count = enable_count + Cardinality(At({"enable", "unprepare"}))
                   /\ At({"undo"}) = {}
    /\ attr = "gone" => At({"out"}) = Threads

(* The inductive invariant.                                                *)
IInv ==
    /\ prepare_count \in Nat /\ enable_count \in Nat
    /\ enabled \in BOOLEAN /\ surplus \in BOOLEAN
    /\ step \in [Threads -> {"out", "enable", "undo", "unprepare"}]
    /\ attr \in {"there", "going", "gone"}
    /\ ClockBalanced
=============================================================================
