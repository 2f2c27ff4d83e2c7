---------------------------- MODULE Demos_proofs ----------------------------
(***************************************************************************)
(* What an unload of the gpio_irq_*.c leaves behind, for each of the three *)
(* kinds of bottom half; what comp_demo.c counts, what key_debounce.c does *)
(* not count, and what both leave behind when they give the line back, for *)
(* any number of presses and any length of the debounce time; mutual       *)
(* exclusion in mutex_demo.c, the counts of ian_clk.c for any number of    *)
(* writers, the sleep of kthread_demo.c; at the end, with the modules of   *)
(* Memory_proofs and Buffers_proofs, the invariant of the whole board.     *)
(***************************************************************************)
EXTENDS Demos, Memory_proofs, Buffers_proofs, FiniteSetTheorems, TLAPS

USE DEF Bh!vars, Bh!EGoto, Bh!NoPressForgotten, Bh!NoRunUnasked, Bh!UnloadedIsQuiet,
        Bh!Started

(* The initial state satisfies the invariant.                              *)
LEMMA BhInit == Bh!Init => Bh!IInv
<1> SUFFICES ASSUME Bh!Init PROVE Bh!IInv
  OBVIOUS
<1>0. bh_pending \in BOOLEAN
  BY DEF Bh!Init
<1>1. Bh!TypeOK
  BY <1>0, BoundAssumption DEF Bh!Init, Bh!TypeOK
<1>2. top = 0 /\ bottom = 0 /\ ~bh_pending /\ bh_isr # "defer" /\ bh # "count"
  BY DEF Bh!Init
<1>3. Bh!NoRunUnasked
  BY <1>2
<1>4. QED BY <1>1, <1>3 DEF Bh!Init, Bh!IInv

(* The interrupt and the three steps of the bottom half preserve it: the   *)
(* counts move from one place of NoRunUnasked to the next.                 *)
LEMMA RunStep ==
  ASSUME Bh!IInv,
         \/ Bh!Press \/ Bh!Defer
         \/ Bh!StartBottom \/ Bh!CountBottom \/ Bh!EndBottom
  PROVE  Bh!IInv'
<1> USE BoundAssumption
<1>1. CASE Bh!Press
  BY <1>1 DEF Bh!IInv, Bh!TypeOK, Bh!Press
<1>2. CASE Bh!Defer
  BY <1>2 DEF Bh!IInv, Bh!TypeOK, Bh!Defer, Bh!Deferred
<1>3. CASE Bh!StartBottom
  <2>1. bh_pending /\ ~bh_pending' /\ bh = "idle" /\ bh' = "count"
    BY <1>3 DEF Bh!StartBottom, Bh!StillPending
  <2>2. Bh!NoRunUnasked'
    BY <1>3, <2>1 DEF Bh!IInv, Bh!TypeOK, Bh!StartBottom
  <2>3. (bh_pending \in BOOLEAN)'
    BY <1>3 DEF Bh!StartBottom, Bh!StillPending
  <2>4. /\ Bh!TypeOK' /\ Bh!NoPressForgotten'
        /\ (served <= top)' /\ Bh!UnloadedIsQuiet'
    BY <1>3, <2>1, <2>3 DEF Bh!IInv, Bh!TypeOK, Bh!StartBottom
  <2>5. bh_epc' = bh_epc /\ bh_isr' = bh_isr /\ kind' = kind
    BY <1>3 DEF Bh!StartBottom
  <2>6. QED BY <2>1, <2>2, <2>4, <2>5 DEF Bh!IInv
<1>4. CASE Bh!CountBottom
  BY <1>4 DEF Bh!IInv, Bh!TypeOK, Bh!CountBottom
<1>5. CASE Bh!EndBottom
  BY <1>5 DEF Bh!IInv, Bh!TypeOK, Bh!EndBottom
<1>6. QED BY <1>1, <1>2, <1>3, <1>4, <1>5

(* The steps of gpio_irq_exit preserve it: each establishes the part of    *)
(* quietness it waits for, and no earlier part is undone.                  *)
LEMMA UnloadStep ==
  ASSUME Bh!IInv, Bh!Unload \/ Bh!FreeIrq \/ Bh!Kill \/ Bh!KillDone
  PROVE  Bh!IInv'
<1> USE BoundAssumption
<1>1. CASE Bh!Unload
  BY <1>1 DEF Bh!IInv, Bh!TypeOK, Bh!Unload
<1>2. CASE Bh!FreeIrq
  BY <1>2 DEF Bh!IInv, Bh!TypeOK, Bh!FreeIrq, Bh!IrqDone
<1>3. CASE Bh!Kill
  <2>1. ~bh_pending \/ kind = "work"
    BY <1>3 DEF Bh!IInv, Bh!TypeOK, Bh!Kill
  <2>2. Bh!NoPressForgotten'
    BY <1>3, <2>1 DEF Bh!IInv, Bh!TypeOK, Bh!Kill
  <2>3. Bh!NoRunUnasked'
    BY <1>3 DEF Bh!IInv, Bh!TypeOK, Bh!Kill
  <2>4. Bh!TypeOK' /\ (served <= top)' /\ Bh!UnloadedIsQuiet'
    BY <1>3 DEF Bh!IInv, Bh!TypeOK, Bh!Kill
  <2>5. /\ bh_isr' = "idle" /\ ~bh_pending'
        /\ bh_epc' = "wait" /\ (kind' = "thread" => bh' = "idle")
    BY <1>3 DEF Bh!IInv, Bh!TypeOK, Bh!Kill
  <2>6. QED BY <2>2, <2>3, <2>4, <2>5 DEF Bh!IInv
<1>4. CASE Bh!KillDone
  BY <1>4 DEF Bh!IInv, Bh!TypeOK, Bh!KillDone, Bh!Finished
<1>5. QED BY <1>1, <1>2, <1>3, <1>4

(* A behaviour of the board is one of these modules, or leaves them alone. *)
LEMMA BhRun ==
  /\ Init => Bh!Init
  /\ [Next]_vars => [Bh!Next]_(Bh!vars)
<1>1. Init => Bh!Init
  BY DEF Init
<1>2. [Next]_vars => [Bh!Next]_(Bh!vars)
  BY DEF Next, Runs, vars, bhVars, Bh!vars
<1>3. QED BY <1>1, <1>2

(* The invariant of the module, for each kind and every MaxPresses.      *)
THEOREM BhInvariance == Spec => []Bh!IInv
<1>1. ASSUME Bh!IInv, UNCHANGED Bh!vars PROVE Bh!IInv'
  BY <1>1 DEF Bh!IInv, Bh!TypeOK
<1>2. Bh!IInv /\ [Bh!Next]_(Bh!vars) => Bh!IInv'
  BY <1>1, RunStep, UnloadStep DEF Bh!Next
<1>3. QED BY BhInit, BhRun, <1>2, PTL DEF Spec

(* No press is forgotten by merging: the pending bit or the interrupt      *)
(* handler still holds it (my_isr, 86-105).                                *)
THEOREM PressesAreKept == Spec => []NoPressForgotten
<1>1. Bh!IInv => NoPressForgotten BY DEF Bh!IInv, NoPressForgotten
<1>2. QED BY <1>1, BhInvariance, PTL

(* After gpio_irq_exit nothing of the module runs or will run.             *)
THEOREM UnloadIsQuiet == Spec => []Bh!UnloadedIsQuiet
<1>1. Bh!IInv => Bh!UnloadedIsQuiet BY DEF Bh!IInv
<1>2. QED BY <1>1, BhInvariance, PTL

(* The tasklet and the thread have run for the last press when the unload  *)
(* returns; only the work queue can drop it.                               *)
THEOREM LastPressIsServed == Spec => []Bh!LastPressServed
<1>1. Bh!IInv => Bh!LastPressServed BY DEF Bh!IInv, Bh!TypeOK, Bh!LastPressServed
<1>2. QED BY <1>1, BhInvariance, PTL

-----------------------------------------------------------------------------
USE DEF Keys!compVars, Keys!dbncVars, Keys!Comp!vars, Keys!Comp!EGoto,
        Keys!Comp!WGoto, Keys!Comp!EachPressWakes,
        Keys!Comp!UnloadedIsQuiet, Keys!Comp!Woken, Keys!Dbnc!vars, Keys!Dbnc!EGoto, Keys!Dbnc!Off,
        Keys!Dbnc!OnePerBurst, Keys!Dbnc!UnloadedIsQuiet, Keys!Dbnc!TimerFollows, Keys!Dbnc!Expiring

(* The initial states satisfy the invariants.                              *)
LEMMA KeysInit == Keys!Init => Keys!IInv
<1> SUFFICES ASSUME Keys!Init PROVE Keys!IInv
  OBVIOUS
<1>1. Keys!Comp!IInv
  <2>1. ~key_isr /\ key_isr \in BOOLEAN /\ key_stop \in BOOLEAN
    BY DEF Keys!Init, Keys!Comp!Init
  <2>2. QED BY <2>1, BoundAssumption DEF Keys!Init, Keys!Comp!Init, Keys!Comp!IInv,
               Keys!Comp!TypeOK
<1>2. Keys!Dbnc!IInv
  <2>1. ~disr /\ disr \in BOOLEAN /\ ~callback /\ callback \in BOOLEAN
    BY DEF Keys!Init, Keys!Dbnc!Init
  <2>2. QED BY <2>1, BoundAssumption, TickAssumption
             DEF Keys!Init, Keys!Dbnc!Init, Keys!Dbnc!IInv, Keys!Dbnc!TypeOK
<1>3. QED BY <1>1, <1>2 DEF Keys!IInv

(* my_isr and waiter_fn: a press moves from the interrupt to the           *)
(* completion, to the waiter and into wake_count.                          *)
LEMMA WakeStep ==
  ASSUME Keys!Comp!IInv,
         \/ Keys!Comp!Press \/ Keys!Comp!IsrComplete
         \/ Keys!Comp!WTest \/ Keys!Comp!WWait \/ Keys!Comp!WCount
  PROVE  Keys!Comp!IInv'
<1> USE BoundAssumption DEF Keys!Comp!IInv, Keys!Comp!TypeOK
<1>1. CASE Keys!Comp!Press
  BY <1>1 DEF Keys!Comp!Press, Keys!Comp!Requested
<1>2. CASE Keys!Comp!IsrComplete
  <2>1. key_isr /\ ~key_isr' /\ key_isr' \in BOOLEAN
    BY <1>2 DEF Keys!Comp!IsrComplete
  <2>2. QED BY <1>2, <2>1 DEF Keys!Comp!IsrComplete, Keys!Comp!Completed
<1>3. CASE Keys!Comp!WTest
  BY <1>3 DEF Keys!Comp!WTest
<1>4. CASE Keys!Comp!WWait
  BY <1>4 DEF Keys!Comp!WWait, Keys!Comp!Available
<1>5. CASE Keys!Comp!WCount
  BY <1>5 DEF Keys!Comp!WCount
<1>6. QED BY <1>1, <1>2, <1>3, <1>4, <1>5

(* comp_init and comp_exit: one completion more, and each step leaves quiet*)
(* what it waited for.                                                     *)
LEMMA CompUnloadStep ==
  ASSUME Keys!Comp!IInv,
         \/ Keys!Comp!Insmod \/ Keys!Comp!Load \/ Keys!Comp!Unload \/ Keys!Comp!FreeIrq
         \/ Keys!Comp!CompleteOnce \/ Keys!Comp!SetStop \/ Keys!Comp!Stopped
  PROVE  Keys!Comp!IInv'
<1> USE BoundAssumption DEF Keys!Comp!IInv, Keys!Comp!TypeOK
<1>1. CASE Keys!Comp!Insmod
  BY <1>1 DEF Keys!Comp!Insmod
<1>2. CASE Keys!Comp!Load
  BY <1>2 DEF Keys!Comp!Load
<1>3. CASE Keys!Comp!Unload
  BY <1>3 DEF Keys!Comp!Unload
<1>4. CASE Keys!Comp!FreeIrq
  BY <1>4 DEF Keys!Comp!FreeIrq, Keys!Comp!IrqDone
<1>5. CASE Keys!Comp!CompleteOnce
  BY <1>5 DEF Keys!Comp!CompleteOnce, Keys!Comp!Extra, Keys!Comp!Completed
<1>6. CASE Keys!Comp!SetStop
  BY <1>6 DEF Keys!Comp!SetStop
<1>7. CASE Keys!Comp!Stopped
  BY <1>7 DEF Keys!Comp!Stopped
<1>8. QED BY <1>1, <1>2, <1>3, <1>4, <1>5, <1>6, <1>7

(* debounce_isr, time, the timer and its callback: an edge adds to what may*)
(* be counted only when it begins a burst.                                 *)
LEMMA BounceStep ==
  ASSUME Keys!Dbnc!IInv,
         \/ Keys!Dbnc!Edge \/ Keys!Dbnc!ModTimer \/ Keys!Dbnc!Tick \/ Keys!Dbnc!Expire \/ Keys!Dbnc!Count
  PROVE  Keys!Dbnc!IInv'
<1> USE BoundAssumption, TickAssumption DEF Keys!Dbnc!IInv, Keys!Dbnc!TypeOK
<1>1. CASE Keys!Dbnc!Edge
  BY <1>1 DEF Keys!Dbnc!Edge
<1>2. CASE Keys!Dbnc!ModTimer
  <2>1. disr /\ ~disr' /\ disr' \in BOOLEAN
    BY <1>2 DEF Keys!Dbnc!ModTimer
  <2>2. QED BY <1>2, <2>1 DEF Keys!Dbnc!ModTimer, Keys!Dbnc!Armed
<1>3. CASE Keys!Dbnc!Tick
  BY <1>3 DEF Keys!Dbnc!Tick
<1>4. CASE Keys!Dbnc!Expire
  BY <1>4 DEF Keys!Dbnc!Expire, Keys!Dbnc!AfterExpiry
<1>5. CASE Keys!Dbnc!Count
  <2>1. callback /\ ~callback' /\ callback' \in BOOLEAN
    BY <1>5 DEF Keys!Dbnc!Count
  <2>2. QED BY <1>5, <2>1 DEF Keys!Dbnc!Count
<1>6. QED BY <1>1, <1>2, <1>3, <1>4, <1>5

(* dbnc_init and dbnc_exit.                                                *)
LEMMA DbncUnloadStep ==
  ASSUME Keys!Dbnc!IInv,
         \/ Keys!Dbnc!Insmod \/ Keys!Dbnc!Unload \/ Keys!Dbnc!FreeIrq \/ Keys!Dbnc!DeleteTimer
         \/ Keys!Dbnc!TimerGone
  PROVE  Keys!Dbnc!IInv'
<1> USE BoundAssumption, TickAssumption DEF Keys!Dbnc!IInv, Keys!Dbnc!TypeOK
<1>1. CASE Keys!Dbnc!Insmod
  BY <1>1 DEF Keys!Dbnc!Insmod
<1>2. CASE Keys!Dbnc!Unload
  BY <1>2 DEF Keys!Dbnc!Unload
<1>3. CASE Keys!Dbnc!FreeIrq
  BY <1>3 DEF Keys!Dbnc!FreeIrq, Keys!Dbnc!IrqDone
<1>4. CASE Keys!Dbnc!DeleteTimer
  BY <1>4 DEF Keys!Dbnc!DeleteTimer
<1>5. CASE Keys!Dbnc!TimerGone
  BY <1>5 DEF Keys!Dbnc!TimerGone, Keys!Dbnc!CallbackDone
<1>6. QED BY <1>1, <1>2, <1>3, <1>4, <1>5

(* What does not move keeps its invariant.                                 *)
LEMMA Still ==
  /\ Keys!Comp!IInv /\ UNCHANGED Keys!compVars => Keys!Comp!IInv'
  /\ Keys!Dbnc!IInv /\ UNCHANGED Keys!dbncVars => Keys!Dbnc!IInv'
BY DEF Keys!Comp!IInv, Keys!Comp!TypeOK, Keys!Dbnc!IInv, Keys!Dbnc!TypeOK

(* A behaviour of the board is one of these two, or leaves them alone.     *)
LEMMA KeysRun ==
  /\ Init => Keys!Init
  /\ [Next]_vars => [Keys!Next]_(Keys!vars)
<1>1. Init => Keys!Init
  BY DEF Init
<1>2. [Next]_vars => [Keys!Next]_(Keys!vars)
  BY DEF Next, Runs, vars, keyVars, Keys!vars, Keys!compVars, Keys!dbncVars
<1>3. QED BY <1>1, <1>2

(* The two invariants, for any number of presses and edges and any D.      *)
THEOREM KeysInvariance == Spec => []Keys!IInv
<1>1. Keys!IInv /\ [Keys!Next]_(Keys!vars) => Keys!IInv'
  BY WakeStep, CompUnloadStep, BounceStep, DbncUnloadStep, Still
  DEF Keys!IInv, Keys!Next, Keys!Comp!Next, Keys!Dbnc!Next, Keys!vars
<1>2. QED BY KeysInit, KeysRun, <1>1, PTL DEF Spec

(* comp_demo.c: every press, also one before the thread exists, is one     *)
(* wake-up of waiter_fn (39-71); comp_exit adds one.                       *)
THEOREM WakeUpsAreCounted == Spec => []EachPressWakes
<1>1. Keys!IInv => EachPressWakes
  BY DEF Keys!IInv, Keys!Comp!IInv, Keys!EachPressWakes, EachPressWakes
<1>2. QED BY KeysInvariance, <1>1, PTL

(* key_debounce.c never counts two presses for one burst of edges, however *)
(* late the softirq runs the callback (38-82).                             *)
THEOREM BouncesAreNotCounted == Spec => []OnePerBurst
<1>1. Keys!IInv => OnePerBurst
  BY BoundAssumption, TickAssumption DEF Keys!IInv, Keys!Dbnc!IInv, Keys!Dbnc!TypeOK,
     Keys!OnePerBurst, OnePerBurst
<1>2. QED BY KeysInvariance, <1>1, PTL

(* When comp_exit or dbnc_exit gives the line back, neither an interrupt   *)
(* handler nor a thread nor a timer of it is left.                         *)
THEOREM LineIsClean == Spec => []LineGivenBack
<1>1. Keys!IInv => LineGivenBack
  BY DEF Keys!IInv, Keys!Comp!IInv, Keys!Dbnc!IInv, Keys!LineGivenBack, LineGivenBack
<1>2. QED BY KeysInvariance, <1>1, PTL

-----------------------------------------------------------------------------
(* The modules count with the same Cardinality as the library's theorems.  *)
LEMMA SameCardinality ==
  \A S : Mtx!Cardinality(S) = Cardinality(S) /\ Gate!Cardinality(S) = Cardinality(S)
BY DEF Mtx!Cardinality, Gate!Cardinality, Cardinality

(* A behaviour of the board is one of mutex_demo.c, or leaves it alone.    *)
LEMMA MutexRun ==
  /\ Init => Mtx!Init
  /\ [Next]_vars => [Mtx!Next]_(Mtx!vars)
BY DEF Init, Next, Runs, vars, mtxVars, Mtx!vars

(* Each step of worker_fn: who holds the mutex owns it, alone.             *)
LEMMA WorkerStep ==
  ASSUME Mtx!IInv, NEW w \in Mtx!Workers, Mtx!Work(w)
  PROVE  Mtx!IInv'
<1> USE DEF Mtx!Goto, Mtx!Workers, Mtx!Holds, Mtx!Inside
<1>0. Mtx!Steps = {"test", "lock", "enter", "cross", "leave", "unlock", "rest", "done"}
  BY DEF Mtx!Steps
<1>1. CASE Mtx!Test(w)
  BY <1>0, <1>1 DEF Mtx!Test, Mtx!IInv
<1>2. CASE Mtx!Lock(w)
  BY <1>0, <1>2 DEF Mtx!Lock, Mtx!Locked, Mtx!IInv
<1>3. CASE Mtx!Enter(w)
  BY <1>0, <1>3 DEF Mtx!Enter, Mtx!IInv
<1>4. CASE Mtx!Cross(w)
  BY <1>0, <1>4 DEF Mtx!Cross, Mtx!IInv
<1>5. CASE Mtx!Leave(w)
  BY <1>0, <1>5 DEF Mtx!Leave, Mtx!IInv
<1>6. CASE Mtx!Unlock(w)
  BY <1>0, <1>6 DEF Mtx!Unlock, Mtx!Unlocked, Mtx!IInv
<1>7. CASE Mtx!Rest(w)
  BY <1>0, <1>7 DEF Mtx!Rest, Mtx!IInv
<1>8. QED BY <1>1, <1>2, <1>3, <1>4, <1>5, <1>6, <1>7 DEF Mtx!Work

(* Mutual exclusion is inductive, also with evil written at any time.      *)
THEOREM MutexInvariance == Spec => []Mtx!IInv
<1>1. Mtx!Init => Mtx!IInv
  BY DEF Mtx!Init, Mtx!IInv, Mtx!Steps, Mtx!Holds, Mtx!Inside, Mtx!Workers
<1>2. ASSUME Mtx!IInv, Mtx!Next PROVE Mtx!IInv'
  <2>1. CASE Mtx!Toggle
    BY <1>2, <2>1 DEF Mtx!Toggle, Mtx!IInv, Mtx!Holds, Mtx!Inside
  <2>2. CASE Mtx!Exit
    BY <1>2, <2>2 DEF Mtx!Exit, Mtx!IInv, Mtx!Holds, Mtx!Inside, Mtx!Workers
  <2>3. QED BY <1>2, <2>1, <2>2, WorkerStep DEF Mtx!Next
<1>3. ASSUME Mtx!IInv, UNCHANGED Mtx!vars PROVE Mtx!IInv'
  BY <1>3 DEF Mtx!vars, Mtx!IInv, Mtx!Holds, Mtx!Inside
<1>4. QED BY MutexRun, <1>1, <1>2, <1>3, PTL DEF Spec

(* mutex_demo.c: in_cs is the number of workers inside and never above 1,  *)
(* rmmod leaves the mutex free, and a hang of both workers is worker1 on   *)
(* the cross_mutex it holds itself (worker_fn, mtx_exit).                  *)
THEOREM MutexExcludes == Spec => []MutexInv
<1>1. ASSUME Mtx!IInv PROVE MutexInv
  <2> USE DEF Mtx!Workers, Mtx!Holds, Mtx!Inside
  <2> DEFINE In == {w \in Mtx!Workers : Mtx!Inside(w)}
  <2>1. In = {} \/ In = {0} \/ In = {1}
    BY <1>1 DEF Mtx!IInv
  <2>2. in_cs = Cardinality(In)
    <3>1. CASE In = {}
      BY <1>1, <3>1, FS_EmptySet DEF Mtx!IInv
    <3>2. CASE In # {}
      BY <1>1, <2>1, <3>2, FS_Singleton DEF Mtx!IInv
    <3>3. QED BY <3>1, <3>2
  <2>3. Mtx!Exclusion
    BY <1>1, <2>2, SameCardinality DEF Mtx!IInv, Mtx!Exclusion
  <2>4. Mtx!StuckOnlyOnCross
    BY <1>1 DEF Mtx!IInv, Mtx!StuckOnlyOnCross, Mtx!Blocked, Mtx!Locked
  <2>5. QED BY <2>3, <2>4 DEF MutexInv, Mtx!MutexInv
<1>2. QED BY MutexInvariance, <1>1, PTL

-----------------------------------------------------------------------------
(* A behaviour of the board is one of ian_clk.c's clock, or leaves it      *)
(* alone.                                                                  *)
LEMMA GateRun ==
  /\ Init => Gate!Init
  /\ [Next]_vars => [Gate!Next]_(Gate!vars)
BY DEF Init, Next, Runs, vars, clkVars, Gate!vars

(* What one thread's step does to the number of threads at some steps.     *)
LEMMA CountMoves ==
  ASSUME Gate!IInv, NEW t \in Threads, NEW from,
         NEW to \in {"out", "enable", "undo", "unprepare"},
         Gate!Goto(t, from, to), NEW S \in SUBSET {"out", "enable", "undo", "unprepare"}
  PROVE  LET n == Cardinality(Gate!At(S))  m == Cardinality(Gate!At(S)')
         IN  /\ n \in Nat /\ m \in Nat
             /\ from \in S /\ to \notin S => m = n - 1 /\ n > 0
             /\ from \notin S /\ to \in S => m = n + 1
             /\ (from \in S <=> to \in S) => m = n
<1> DEFINE A == Gate!At(S)
           B == {x \in Threads : step'[x] \in S}
<1>1. B = Gate!At(S)'
  BY DEF Gate!At
<1>2. /\ step[t] = from /\ step'[t] = to
      /\ \A x \in Threads \ {t} : step'[x] = step[x]
  BY DEF Gate!Goto, Gate!IInv
<1>3. IsFiniteSet(A) /\ A \subseteq Threads
  BY ThreadsAssumption, FS_Subset DEF Gate!At
<1>4. t \in A <=> from \in S
  BY <1>2 DEF Gate!At
<1>5. Cardinality(A) \in Nat /\ (A # {} => Cardinality(A) > 0)
  BY <1>3, FS_CardinalityType, FS_EmptySet
<1>6. CASE from \in S /\ to \notin S
  <2>1. B = A \ {t}
    BY <1>2, <1>6 DEF Gate!At
  <2>2. QED BY <1>1, <1>3, <1>4, <1>5, <1>6, <2>1, FS_RemoveElement
<1>7. CASE from \notin S /\ to \in S
  <2>1. B = A \cup {t}
    BY <1>2, <1>7 DEF Gate!At
  <2>2. QED BY <1>1, <1>3, <1>4, <1>5, <1>7, <2>1, FS_AddElement
<1>8. CASE from \in S <=> to \in S
  <2>1. B = A
    BY <1>2, <1>8 DEF Gate!At
  <2>2. QED BY <1>1, <1>5, <1>8, <2>1
<1>9. QED BY <1>6, <1>7, <1>8

(* Under the invariant: whoever is inside is not at "out", and nobody has  *)
(* to undo anything before a surplus `echo 0'.                             *)
LEMMA ClockFacts ==
  ASSUME Gate!IInv
  PROVE  /\ surplus \/ prepare_count = enable_count + Cardinality(Gate!At({"enable", "unprepare"}))
         /\ surplus \/ \A x \in Threads : step[x] # "undo"
         /\ clk_attr = "gone" => \A x \in Threads : step[x] = "out"
         /\ enabled = (enable_count > 0)
BY SameCardinality DEF Gate!IInv, Gate!ClockBalanced, Gate!At

(* Each half of enable_store: the counts and the threads move together.    *)
LEMMA ClockStep ==
  ASSUME Gate!IInv, NEW t \in Threads,
         Gate!Prepare(t) \/ Gate!Enable(t) \/ Gate!Disable(t) \/ Gate!Unprepare(t)
  PROVE  Gate!IInv'
<1> DEFINE S == {"enable", "unprepare"}
           n == Cardinality(Gate!At(S))
           m == Cardinality(Gate!At(S)')
           Labels == {"out", "enable", "undo", "unprepare"}
           Counts(from, to) ==
                             /\ n \in Nat /\ m \in Nat
                             /\ from \in S /\ to \notin S => m = n - 1 /\ n > 0
                             /\ from \notin S /\ to \in S => m = n + 1
                             /\ (from \in S <=> to \in S) => m = n
<1>1. ASSUME NEW from, NEW to \in Labels, Gate!Goto(t, from, to)
      PROVE  /\ Counts(from, to) /\ clk_attr' = clk_attr
             /\ step' \in [Threads -> Labels] /\ step[t] = from /\ step'[t] = to
             /\ \A x \in Threads \ {t} : step'[x] = step[x]
  <2>1. Counts(from, to)
    BY <1>1, CountMoves
  <2>2. QED BY <1>1, <2>1 DEF Gate!Goto, Gate!IInv
<1>2. ASSUME /\ prepare_count' \in Nat /\ enable_count' \in Nat
             /\ enabled' = (enable_count' > 0)
             /\ surplus' \in BOOLEAN
             /\ step' \in [Threads -> Labels]
             /\ clk_attr' = clk_attr /\ clk_attr # "gone"
             /\ surplus' \/ prepare_count' = enable_count' + m
             /\ surplus' \/ \A x \in Threads : step'[x] # "undo"
      PROVE  Gate!IInv'
  BY <1>2, SameCardinality DEF Gate!IInv, Gate!ClockBalanced, Gate!At
<1>3. CASE Gate!Prepare(t)
  <2>1. Gate!Goto(t, "out", "enable") /\ clk_attr = "there"
    BY <1>3 DEF Gate!Prepare
  <2>2. m = n + 1 /\ Gate!Goto(t, "out", "enable")
    BY <2>1, <1>1
  <2>3. QED BY <1>1, <1>2, <1>3, <2>1, <2>2, ClockFacts DEF Gate!Prepare, Gate!IInv
<1>4. CASE Gate!Enable(t)
  <2>1. clk_attr # "gone"
    BY <1>4, ClockFacts DEF Gate!Enable, Gate!Goto
  <2>2. CASE prepare_count > 0
    <3>1. Gate!Goto(t, "enable", "out")
      BY <1>4, <2>2 DEF Gate!Enable
    <3>2. m = n - 1 /\ n \in Nat /\ m \in Nat
      BY <3>1, <1>1
    <3>3. /\ prepare_count' = prepare_count /\ enable_count' = enable_count + 1
          /\ enabled' = TRUE /\ surplus' = surplus
      BY <1>4, <2>2 DEF Gate!Enable
    <3>4. enabled' = (enable_count' > 0)
      <4>1. enable_count' > 0
        BY <3>3 DEF Gate!IInv
      <4>2. QED BY <3>3, <4>1
    <3>5. surplus' \/ prepare_count' = enable_count' + m
      BY <3>2, <3>3, ClockFacts DEF Gate!IInv
    <3>6. surplus' \/ \A x \in Threads : step'[x] # "undo"
      BY <1>1, <3>1, <3>3, ClockFacts
    <3>7. QED BY <1>1, <1>2, <2>1, <3>1, <3>3, <3>4, <3>5, <3>6 DEF Gate!IInv
  <2>3. CASE prepare_count = 0
    <3>1. Gate!Goto(t, "enable", "undo")
      BY <1>4, <2>3 DEF Gate!Enable
    <3>2. n > 0 /\ n \in Nat
      BY <3>1, <1>1
    <3>3. surplus
      BY <2>3, <3>2, ClockFacts DEF Gate!IInv
    <3>4. QED BY <1>1, <1>2, <1>4, <2>1, <2>3, <3>1, <3>3, ClockFacts DEF Gate!Enable,
                 Gate!IInv
  <2>4. QED BY <2>2, <2>3 DEF Gate!IInv
<1>5. CASE Gate!Disable(t)
  <2>1. Gate!Goto(t, "out", "unprepare") /\ clk_attr = "there"
    BY <1>5 DEF Gate!Disable
  <2>2. m = n + 1 /\ n \in Nat
    BY <2>1, <1>1
  <2>3. /\ enable_count' = Gate!LessOne(enable_count)
        /\ enabled' = (enable_count > 1)
        /\ prepare_count' = prepare_count
        /\ surplus' = (surplus \/ enable_count = 0)
    BY <1>5 DEF Gate!Disable, Gate!OffFirst
  <2>4. surplus' \in BOOLEAN /\ (surplus => surplus') /\ (surplus' \/ enable_count > 0)
    <3>1. enable_count = 0 \/ enable_count > 0
      BY DEF Gate!IInv
    <3>2. surplus' \in BOOLEAN /\ (surplus => surplus') /\ (enable_count = 0 => surplus')
      BY <2>3
    <3>3. QED BY <3>1, <3>2
  <2>5. enabled' = (enable_count' > 0) /\ enable_count' \in Nat
    <3>1. enable_count' \in Nat /\ (enable_count > 1 <=> enable_count' > 0)
      BY <2>3 DEF Gate!LessOne, Gate!IInv
    <3>2. enabled' = (enable_count > 1)
      BY <2>3
    <3>3. (enable_count > 1) = (enable_count' > 0)
      BY <3>1
    <3>4. QED BY <3>1, <3>2, <3>3
  <2>6. surplus' \/ prepare_count' = enable_count' + m
    BY <2>2, <2>3, <2>4, ClockFacts DEF Gate!LessOne, Gate!IInv
  <2>7. surplus' \/ \A x \in Threads : step'[x] # "undo"
    BY <1>1, <2>1, <2>4, ClockFacts
  <2>8. QED BY <1>1, <1>2, <2>1, <2>3, <2>4, <2>5, <2>6, <2>7 DEF Gate!IInv
<1>6. CASE Gate!Unprepare(t)
  <2>0. /\ prepare_count' = Gate!LessOne(prepare_count)
        /\ UNCHANGED <<enable_count, enabled, surplus>>
    BY <1>6 DEF Gate!Unprepare
  <2>1. clk_attr # "gone"
    BY <1>6, ClockFacts DEF Gate!Unprepare, Gate!Goto
  <2>2. CASE Gate!Goto(t, "unprepare", "out")
    <3>1. m = n - 1 /\ n > 0 /\ n \in Nat
      BY <2>2, <1>1
    <3>2. QED BY <1>1, <1>2, <2>0, <2>1, <2>2, <3>1, ClockFacts DEF Gate!LessOne,
                 Gate!IInv
  <2>3. CASE Gate!Goto(t, "undo", "out")
    <3>1. surplus
      BY <2>3, ClockFacts DEF Gate!Goto
    <3>2. QED BY <1>1, <1>2, <2>0, <2>1, <2>3, <3>1, ClockFacts DEF Gate!LessOne,
                 Gate!IInv
  <2>4. QED BY <1>6, <2>2, <2>3 DEF Gate!Unprepare
<1>7. QED BY <1>3, <1>4, <1>5, <1>6

(* The inductive invariant of the clock's counts, for any number of writers*)
(* of enable: the flag follows the count, and who is between two calls is  *)
(* counted (enable_store, ian_clk_remove).                                 *)
THEOREM ClockInvariance == Spec => []Gate!IInv
<1>1. Gate!Init => Gate!IInv
  <2> SUFFICES ASSUME Gate!Init PROVE Gate!IInv
    OBVIOUS
  <2>1. Gate!At({"enable", "unprepare"}) = {} /\ Gate!At({"undo"}) = {}
    BY DEF Gate!Init, Gate!At
  <2>2. Gate!Cardinality({}) = 0
    BY SameCardinality, FS_EmptySet
  <2>3. enabled = (enable_count > 0)
    <3>1. enabled = FALSE
      BY DEF Gate!Init
    <3>2. (enable_count > 0) = FALSE
      BY DEF Gate!Init
    <3>3. QED BY <3>1, <3>2
  <2>4. Gate!ClockBalanced
    BY <2>1, <2>2, <2>3 DEF Gate!Init, Gate!ClockBalanced
  <2>5. enabled \in BOOLEAN /\ surplus \in BOOLEAN
    BY DEF Gate!Init
  <2>6. /\ prepare_count \in Nat /\ enable_count \in Nat /\ clk_attr = "there"
        /\ step \in [Threads -> {"out", "enable", "undo", "unprepare"}]
    BY DEF Gate!Init
  <2>7. QED BY <2>4, <2>5, <2>6 DEF Gate!IInv
<1>2. ASSUME Gate!IInv, Gate!Next PROVE Gate!IInv'
  <2>1. CASE Gate!Remove
    BY <1>2, <2>1 DEF Gate!Remove, Gate!IInv, Gate!ClockBalanced, Gate!At
  <2>2. QED BY <1>2, <2>1, ClockStep DEF Gate!Next
<1>3. ASSUME Gate!IInv, UNCHANGED Gate!vars PROVE Gate!IInv'
  BY <1>3 DEF Gate!vars, Gate!IInv, Gate!ClockBalanced, Gate!At
<1>4. QED BY GateRun, <1>1, <1>2, <1>3, PTL DEF Spec

(* ian_clk.c: under every interleaving of the writers, for any number of   *)
(* them, the flag follows the count, an enable stands on a prepare until   *)
(* somebody switches off what is off, and clk_unregister comes when nobody *)
(* is inside (enable_store, ian_clk_remove).                               *)
THEOREM EnablesArePrepared == Spec => []ClockBalanced
<1>1. Gate!IInv => ClockBalanced
  BY DEF Gate!IInv, ClockBalanced
<1>2. QED BY ClockInvariance, <1>1, PTL

-----------------------------------------------------------------------------
(* A behaviour of the board is one of kthread_demo.c, or leaves it alone.  *)
LEMMA BeatRun ==
  /\ Init => Beat!Init
  /\ [Next]_vars => [Beat!Next]_(Beat!vars)
BY DEF Init, Next, Runs, vars, hbVars, Beat!vars

(* kthread_demo.c: heartbeat_fn never sleeps longer than ten seconds, what-*)
(* ever is written to interval_ms (heartbeat_fn, interval_store).          *)
THEOREM SleepsAreBounded == Spec => []Beat!IInv
<1> USE DEF Beat!IInv, Beat!SleepIsBounded, Beat!Slept
<1>1. Beat!Init => Beat!IInv
  <2>1. Beat!Longest \in Int /\ 0 <= Beat!Default /\ Beat!Default <= Beat!Longest
        /\ Beat!Default \in Int
    BY DEF Beat!Longest, Beat!Default
  <2>2. QED BY <2>1 DEF Beat!Init
<1>2. ASSUME Beat!IInv, Beat!Next PROVE Beat!IInv'
  <2>1. CASE Beat!Heartbeat
    BY <1>2, <2>1 DEF Beat!Heartbeat, Beat!Beat, Beat!Copy, Beat!Wake, Beat!HGoto
  <2>2. CASE Beat!Write
    <3>1. \A n \in {-1, 200, 20000} : Beat!Refused(n)
      BY DEF Beat!Refused, Beat!Shortest, Beat!Longest
    <3>2. UNCHANGED <<interval_ms, hb, local_interval>>
      BY <2>2, <3>1 DEF Beat!Write
    <3>3. QED BY <1>2, <3>2
  <2>3. CASE Beat!Load
    BY <1>2, <2>3 DEF Beat!Load
  <2>4. CASE Beat!Exit
    BY <1>2, <2>4 DEF Beat!Exit
  <2>5. QED BY <1>2, <2>1, <2>2, <2>3, <2>4 DEF Beat!Next
<1>3. ASSUME Beat!IInv, UNCHANGED Beat!vars PROVE Beat!IInv'
  BY <1>3 DEF Beat!vars
<1>4. QED BY BeatRun, <1>1, <1>2, <1>3, PTL DEF Spec

-----------------------------------------------------------------------------
(* The invariant of the whole board: whichever training module is loaded,  *)
(* all that is asked of it at every step holds.                            *)
THEOREM BoardInvariance == Spec => []IInv
<1>1. Spec => []Rec!IInv
  BY RecInvariance
<1>2. /\ Bh!IInv /\ Rec!IInv /\ Bar!IInv /\ Keys!IInv /\ Mtx!IInv /\ Gate!IInv /\ Beat!IInv
      /\ Kf!IInv /\ Smp!IInv /\ Smp!FreedIsQuiet
      => IInv
  BY DEF IInv
<1>3. QED BY <1>1, <1>2, BhInvariance, BarInvariance, KeysInvariance, MutexInvariance,
             ClockInvariance, SleepsAreBounded, FifoInvariance, FirstDriverInvariance, PTL
=============================================================================
