------------------------------- MODULE Demos --------------------------------
(***************************************************************************)
(* The training modules on one board, one of them loaded in a behaviour:   *)
(* the button modules ask for the same GPIO, the sensor's first version and*)
(* its second publish the same names, and the others share nothing.  What  *)
(* is not loaded stays as it was.  Each module has its own specification;  *)
(* here are their common run and what is asked of all of them.             *)
(***************************************************************************)
EXTENDS Integers, FiniteSets, DemoConstants

CONSTANTS
    Procs, Slots, Wrap, MaxPush,                 \* of FifoDemo
    Threads, MaxOn,                              \* of IanGate
    Readers, Nonblocking, FifoSize, SampleBytes, MaxSeq    \* of SensorSample

(* kfifo_alloc rounds the size to a power of two, so that the indices, which*)
(* run modulo 2^32, can be masked.                                         *)
ASSUME SlotsAssumption ==
    Slots \in Nat \ {0} /\ Wrap \in Nat /\ Slots < Wrap /\ Wrap % Slots = 0

ASSUME ThreadsAssumption == IsFiniteSet(Threads) /\ MaxOn \in Nat

ASSUME SampleAssumption ==
    /\ Nonblocking \subseteq Readers
    /\ FifoSize \in Nat \ {0} /\ SampleBytes \in Nat \ {0} /\ MaxSeq \in Nat

Modules == {"bottom_half", "shared_rec", "mem_barrier", "keys", "mutex", "kthread",
            "fifo", "gate", "sample"}

VARIABLES
    loaded,
    kind, top, bottom, bh_isr, bh_pending, bh, served, bh_epc,
    rec, rec_buf, copy, v, useLock, rec_lock, masked, rec_pc, todo, chose, raced, switched,
    module,
    mem, bar_buf, g_seq, ppc, clearing, bar_cpc, bar_f, early, mismatch, bar_epc,
    useBarrier, weak,
    presses, key_isr, done, key_wpc, wake_count, key_stop, cepc,
    raw_count, press_count, key_timer, callback, disr, quiet, bursts, depc,
    evil, owner, cross, in_cs, mtx_pc, mtx_stop, mtx_epc,
    interval_ms, hb, local_interval, hb_stop, hb_epc,
    data, in, out, kf_lock, kf_pc, kf_attr, val, pushed, popped, files, kf_epc,
    prepare_count, enable_count, enabled, surplus, step, clk_attr,
    smp_timer, tpc, smp_pending, smp_wpc, smp_seq, fifo, drop_count, running, smp_epc,
    waiting, smp_pc, smp_buf

bhVars  == <<kind, top, bottom, bh_isr, bh_pending, bh, served, bh_epc>>
recVars == <<rec, rec_buf, copy, v, useLock, rec_lock, masked, rec_pc, todo, chose, raced,
             switched, module>>
barVars == <<mem, bar_buf, g_seq, ppc, clearing, bar_cpc, bar_f, early, mismatch, bar_epc,
             useBarrier, weak>>
keyVars == <<presses, key_isr, done, key_wpc, wake_count, key_stop, cepc,
             raw_count, press_count, key_timer, callback, disr, quiet, bursts, depc>>
mtxVars == <<evil, owner, cross, in_cs, mtx_pc, mtx_stop, mtx_epc>>
hbVars  == <<interval_ms, hb, local_interval, hb_stop, hb_epc>>
kfVars  == <<data, in, out, kf_lock, kf_pc, kf_attr, val, pushed, popped, files, kf_epc>>
clkVars == <<prepare_count, enable_count, enabled, surplus, step, clk_attr>>
smpVars == <<smp_timer, tpc, smp_pending, smp_wpc, smp_seq, fifo, drop_count, running,
             smp_epc, waiting, smp_pc, smp_buf>>
vars == <<loaded, bhVars, recVars, barVars, keyVars, mtxVars, hbVars, kfVars, clkVars, smpVars>>

Bh   == INSTANCE BottomHalf WITH isr <- bh_isr, pending <- bh_pending, epc <- bh_epc
Rec  == INSTANCE SharedRec WITH buf <- rec_buf, lock <- rec_lock, pc <- rec_pc
Bar  == INSTANCE MemBarrier WITH buf <- bar_buf, seq <- g_seq, cpc <- bar_cpc, f <- bar_f,
            epc <- bar_epc
Keys == INSTANCE KeyDemos WITH isr <- key_isr, wpc <- key_wpc, stop <- key_stop,
            timer <- key_timer
Mtx  == INSTANCE MutexDemo WITH pc <- mtx_pc, stop <- mtx_stop, epc <- mtx_epc
Beat == INSTANCE KthreadDemo WITH Inputs <- {-1, 200, 20000}, stop <- hb_stop, epc <- hb_epc
Kf   == INSTANCE FifoDemo WITH lock <- kf_lock, pc <- kf_pc, attr <- kf_attr, epc <- kf_epc
Gate == INSTANCE IanGate WITH attr <- clk_attr
Smp  == INSTANCE SensorSample WITH timer <- smp_timer, pending <- smp_pending,
            wpc <- smp_wpc, seq <- smp_seq, epc <- smp_epc, pc <- smp_pc, buf <- smp_buf

(* A module that is not loaded has one initial state.                      *)
Init ==
    /\ loaded \in Modules
    /\ Bh!Init /\ (loaded # "bottom_half" => kind = "work")
    /\ Rec!Init /\ (loaded # "shared_rec" => v = 0 /\ module = "smp" /\ ~useLock)
    /\ Bar!Init /\ (loaded # "mem_barrier" => useBarrier)
    /\ Keys!Init
    /\ Mtx!Init /\ (loaded # "mutex" => ~evil)
    /\ Beat!Init /\ Kf!Init /\ Gate!Init /\ Smp!Init

Runs(m) == loaded = m /\ UNCHANGED loaded

Next ==
    \/ /\ Runs("bottom_half") /\ Bh!Next
       /\ UNCHANGED <<recVars, barVars, keyVars, mtxVars, hbVars, kfVars, clkVars, smpVars>>
    \/ /\ Runs("shared_rec") /\ Rec!Next
       /\ UNCHANGED <<bhVars, barVars, keyVars, mtxVars, hbVars, kfVars, clkVars, smpVars>>
    \/ /\ Runs("mem_barrier") /\ Bar!Next
       /\ UNCHANGED <<bhVars, recVars, keyVars, mtxVars, hbVars, kfVars, clkVars, smpVars>>
    \/ /\ Runs("keys") /\ Keys!Next
       /\ UNCHANGED <<bhVars, recVars, barVars, mtxVars, hbVars, kfVars, clkVars, smpVars>>
    \/ /\ Runs("mutex") /\ Mtx!Next
       /\ UNCHANGED <<bhVars, recVars, barVars, keyVars, hbVars, kfVars, clkVars, smpVars>>
    \/ /\ Runs("kthread") /\ Beat!Next
       /\ UNCHANGED <<bhVars, recVars, barVars, keyVars, mtxVars, kfVars, clkVars, smpVars>>
    \/ /\ Runs("fifo") /\ Kf!Next
       /\ UNCHANGED <<bhVars, recVars, barVars, keyVars, mtxVars, hbVars, clkVars, smpVars>>
    \/ /\ Runs("gate") /\ Gate!Next
       /\ UNCHANGED <<bhVars, recVars, barVars, keyVars, mtxVars, hbVars, kfVars, smpVars>>
    \/ /\ Runs("sample") /\ Smp!Next
       /\ UNCHANGED <<bhVars, recVars, barVars, keyVars, mtxVars, hbVars, kfVars, clkVars>>

(* What is not loaded owes nothing: in its initial state either none of its*)
(* fair actions is enabled, or the fairness here is asked of it only when  *)
(* it is loaded.                                                           *)
(*   - mem_barrier: both cores run, their stores leave the buffers;        *)
(*   - shared_rec, mutex: a section that has begun goes on, sleeps end, and*)
(*     the lock serves its waiters in turn; the button does not interrupt  *)
(*     the reader without end;                                             *)
(*   - kthread_stop, once called, goes on.                                 *)
Turn(w) ==
    \/ loaded = "shared_rec" /\ Rec!GoesOn(IF w = 0 THEN "writer" ELSE "reader")
       /\ UNCHANGED mtxVars
    \/ loaded = "mutex" /\ Mtx!Work(w) /\ UNCHANGED recVars

Fairness ==
    /\ Bh!Fairness /\ Keys!Comp!Fairness /\ Keys!Dbnc!Fairness
    /\ Smp!Fairness
    /\ WF_barVars(loaded = "mem_barrier" /\ Bar!Producer)
    /\ WF_barVars(loaded = "mem_barrier" /\ Bar!Consumer)
    /\ \A w \in {"data", "flag"} : WF_barVars(Bar!Drain(w))
    /\ WF_barVars(Bar!CDrain)
    /\ WF_barVars(bar_epc # "loaded" /\ Bar!Exit)
    /\ \A w \in {0, 1} : SF_<<recVars, mtxVars>>(Turn(w))
    /\ WF_mtxVars(mtx_epc # "loaded" /\ Mtx!Exit)
    /\ WF_hbVars(Beat!Heartbeat) /\ WF_hbVars(loaded = "kthread" /\ Beat!Load)
    /\ WF_hbVars(hb_epc # "loaded" /\ Beat!Exit)

Spec == Init /\ [][Next]_vars /\ Fairness

-----------------------------------------------------------------------------
(* The inductive invariants of the modules that have one, the bound on the *)
(* heartbeat's sleep, and the first sensor driver's two.                   *)
IInv == /\ Bh!IInv /\ Rec!IInv /\ Bar!IInv /\ Keys!IInv
        /\ Mtx!IInv /\ Gate!IInv /\ Beat!IInv /\ Kf!IInv
        /\ Smp!IInv /\ Smp!FreedIsQuiet

(* gpio_irq_*.c: presses are merged but none is forgotten.                 *)
NoPressForgotten == Bh!NoPressForgotten

(* tear_*.c, gpio_irq_threaded.c: nobody leaves with rec_lock or unlocks   *)
(* what it does not hold, whoever writes use_lock, except reader_fn of     *)
(* gpio_irq_threaded.c after a write between its two tests of one round.   *)
LockBalanced == Rec!LockBalanced

(* mem_barrier.c: with the barriers the consumer never sees a flag without *)
(* its data, and with or without them rounds come in order.                *)
NoMismatch == Bar!NoMismatch
RoundsInOrder == Bar!RoundsInOrder

(* comp_demo.c: each press is one wake-up, counted or still in the         *)
(* completion; key_debounce.c: never two presses for one burst; both: when *)
(* the line is given back nothing of them is left.                         *)
EachPressWakes == Keys!EachPressWakes
OnePerBurst    == Keys!OnePerBurst
LineGivenBack  == Keys!LineGivenBack

(* mutex_demo.c: the mutex excludes, and evil can hang it in one way only. *)
MutexInv == Mtx!MutexInv

(* fifo_demo.c: what is popped is what was pushed, in order.               *)
KfifoInOrder == Kf!KfifoInOrder

(* ian_clk.c: every enable of the clock stands on a prepare.               *)
ClockBalanced == Gate!ClockBalanced

(* sensor_sample.c: each number reaches at most one reader, in order.      *)
QueueSpec == Smp!QueueSpec

(* What is under way comes to its end: a press is served, the last burst   *)
(* counted, sections end, rounds go on, both workers get the mutex.        *)
WorkGoesOn ==
    /\ Bh!PressIsServed /\ Keys!BurstIsCounted
    /\ Rec!SectionsEnd
    /\ loaded = "mem_barrier" => Bar!RoundsGoOn
    /\ loaded = "mutex" => Mtx!BothEnter

(* rmmod returns: of mutex_demo.c while evil is 0, of comp_demo.c unless   *)
(* the waiter uses the extra completion up too early.                      *)
RmmodReturns ==
    /\ Bh!UnloadCompletes /\ Keys!ExitIfNotConsumed
    /\ Mtx!UnloadCompletes /\ Beat!UnloadCompletes /\ Smp!ExitReturns
=============================================================================
