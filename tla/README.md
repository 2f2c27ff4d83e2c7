# TLA+ models of the LKD kernel modules

The repository holds kernel modules written along *Linux Kernel Development*: a
sensor driver with its user programs, and smaller modules, each built around one
kernel facility (bottom halves, locks, completions, barriers, timers, threads,
containers).  This directory models them in TLA+, checks the models with TLC and
proves theorems about them with TLAPS.

To check a run: `tlc -config MCxxx.cfg Module` (the configurations are named after the
module; `MCItemStore.tla` and `MCSensorDevice.tla` only add the symmetry); to check
proofs: `tlapm Xxx_proofs.tla`.  `PROJECT.json` lists the components, the runs with their
properties, a mutation for each property that the run must notice, the source lines of
every definition, the hazards of the code, the findings and the theorems.

## 1. Inventory

### The sensor driver (`sensor_sample_todo.c`)

| part | state | operations | what is hard | what makes it correct |
|---|---|---|---|---|
| control plane | `running`, `dying`, `control_lock`, `state_lock`, the timer, the work | `sample_timer_cb`, `sample_work_fn` being queued, START, STOP, `sensor_remove` | an interrupt, a work queue and several processes; cancel functions that wait | STOP and unbind leave nothing running; a device that is on samples; calls return |
| data plane | the kfifo, `read_wq`, `seq`, counters, `async_queue` | `sample_work_fn`, `sensor_read`, `sensor_poll`, `sensor_fasync`, FLUSH, RESET_STATS | lost wakeups, several readers, overflow, the device dying under a reader | each sample at most once and in order, losses counted, nobody sleeps over a sample or in a dead device |
| life of the device | the memory, `ref`, what is registered | probe with its `goto` ladder, remove, open, release, attributes | failure at each rung, files that outlive the device | no call on an open file finds freed memory, the accesses that do are known; all comes back |
| period, statistics | `period_ms`, counters | SET/GET_PERIOD, GET_STATS, sysfs | non-atomic reads of several fields | nothing promised |
| programs | the flags of their signal handlers | `sensor_reader`, `sensor_poll_reader`, `sensor_sigio` | signals between a test and a system call | no sample, hangup or Ctrl-C is missed |

The timer interrupt queues the work; the work puts a sample into the kfifo, wakes
the readers and sends SIGIO; `sensor_remove` stops timer and work, wakes everybody
and drops its reference; the last close frees the memory.

### The other modules

| source | state | what is hard | what makes it correct | modelled in |
|---|---|---|---|---|
| `sensor_sample.c` | first version of the driver: timer, work, byte kfifo, one list of readers | the unit of the kfifo, the race for a byte, the exit against an open file | numbers in order and once each, no lost wakeup, exit leaves nothing running | `SensorSample` |
| `gpio_irq_demo.c`, `gpio_irq_tasklet.c`, `gpio_irq_threaded.c` | counters of two halves, a pending bit | a press while the bottom half runs, or while the module goes | no press is forgotten, the unload leaves nothing | `BottomHalf` |
| `tear_smp.c`, `tear_crash.c`, record of `gpio_irq_threaded.c` | a record of several words, `use_lock` | word-by-word copies out of order, a switch inside a section | a torn copy needs a race, the lock is balanced but for the one switch that breaks it | `SharedRec` |
| `mem_barrier.c` | data word and flag on two cores | stores and loads leave their order | the data belongs to the flag | `MemBarrier` |
| `comp_demo.c` | a completion | presses before, between and after the waits | one wake-up per press, rmmod returns | `CompDemo`, `KeyDemos` |
| `key_debounce.c` | a timer pushed back by interrupts | an edge at the expiry | one count per burst | `Debounce`, `KeyDemos` |
| `mutex_demo.c` | two mutexes, two threads, `evil` | an unlock by somebody else, two rounds in a row | exclusion, both enter, rmmod returns | `MutexDemo` |
| `kthread_demo.c` | `interval_ms`, a thread | the range test, a failed `kthread_run`, rmmod during a sleep | bounded sleep | `KthreadDemo` |
| `fifo_demo.c` | a kfifo behind two attributes, indices modulo 2^32 | the two halves of each kfifo call, wrap-around, full and empty | values come out whole, once and in order | `FifoDemo` |
| `idr_demo.c`, `rb_demo.c`, `list_demo.c` | a container of allocated items | use after the lock is released, removals that race, a load that fails half way | no item freed twice or lost, only the known uses find freed memory, keys unique but for a known race | `ItemStore` |
| `ian_clk.c` | a clock with an attribute, a timer with a list, a work item, a thread, `/dev/ian` | the order of probe and remove against all of them, failures that are only printed | every access finds what it uses, the list survives, remove leaves nothing running | `IanClk`, `IanGate` |
| `abba_deadlock.c`, `spin_deadlock.c`, `crash_interrupt.c`, `mutex_atomic.c` | - | - | they lock up or complain on purpose | not modelled |
| `false_sharing.c`, `preempt_scope.c`, `list_tasks.c`, `ptr_type_drills.c`, `test_container.c` | - | - | measurements and drills | not modelled |
| `mmap_demo.c`, `test_*.c`, `sensor_ioctl.c` | - | - | see section 6 | not modelled |

## 2. Modules

A step is what the code does between two points where somebody else can act: a
section under a spin lock that is taken with interrupts off is one step, a call
that waits is a step with a guard.  Where the lock is *not* taken that way
(`sensor_remove`, line 593) the section is several steps.

**`SensorCtl`** — control plane.  `pc[c]` walks `sensor_ioctl` (lines 305-344), `rpc`
walks `sensor_remove` (589-600), `cb` the callback (139-163); `armed`, `pending`,
`work` are the kernel's timer and work.  A callback that saw `running` = FALSE returns
`HRTIMER_NORESTART` in a step of its own (`CbNoRestart`), so that STOP and START may come
between its unlock and its return.  `timerCpu` and `removerCpu` say who can
interrupt whom: a thread does not move while the interrupt runs on its CPU.
`cancel_work_sync` is two steps, and `schedule_work` is without effect in between,
as in the kernel.  The model begins at the end of the probe.

**`Sampler`** — the promise of the control plane: sampling is a switch with modes
on, stopping, off and gone.  `SensorCtl!SwitchMode` is the mapping.

**`SensorRead`** — data plane.  A sample is its number.  `wait_event_interruptible`
is modelled down to `prepare_to_wait`, the test and the sleep, poll likewise, because
whether a wakeup is lost depends on their order.  `wpc` walks `sample_work_fn`, `rpc`
the removal.  **`SampleQueue`** is its promise: a bounded queue that loses what does
not fit and gives each sample to at most one call.

**`SensorDevice`** — the ladder.  `held` is the set of rungs in force, `k` where the
probe or the unwinding is, `ref` the count of `dev->ref`, `fpc` the files.  An open is
two steps, the kernel's lookup and `sensor_open`, and so is a close, `sensor_release` and
the kernel's `cdev_put`: `dev->cdev` is a member of the struct, so all of them touch its
memory.  A file whose next access finds it freed is followed no further (`Wild`), and its
state says which access that was.

**`SensorApps`** — EXTENDS `SensorRead` and joins each step of a program that enters
or leaves the kernel with the step of the driver.  Signal masks, pending signals and
the flags of the handlers are its state.

**`BottomHalf`** — the variable `kind` is the module that was loaded and stays what it
was; it says what unloading does with a pending bottom half (`cancel_work_sync` takes
it back, `tasklet_kill` and `free_irq` let it run).  The `msleep` in the tasklet, which
the file has as an exercise, is not a step.

**`SharedRec`** — `module` tells `gpio_irq_threaded.c` (the writer is an interrupt on
the reader's core, `use_lock` is read a second time at the unlock) from `tear_smp.c`
and `tear_crash.c` (two cores, one test).  `use_lock` is written at any time in all of
them, but not while interrupts are off on the only core that could run the write.  On two
cores a store waits in `buf` until it reaches the other core, and the words of a section
are stored, drained and loaded in any order; the unlock waits for the stores.  `switched`
remembers a write of `use_lock` between the two tests of `reader_fn`; after it the lock may
be "broken" (unlocked by who does not hold it) and the interrupt mask is anything.  The
module speaks of an SMP kernel on one core: on a kernel built without SMP there is no lock
word, and what is left of the switch is the interrupt mask restored from flags never saved.

**`MemBarrier`** — stores wait in a buffer per core and leave it in any order unless
a barrier stands between them; a load may be satisfied early.  That is what ARMv8, the
target of the Makefile, allows for these two words.  `use_barrier` may be written at
any time; `weak` remembers whether it has been 0.

**`CompDemo`, `Debounce`** — one module per file.  In `Debounce` time goes in ticks and
the softirq may be late.  **`KeyDemos`** puts both on one board: they ask for the same
GPIO, so only one is loaded, and its properties are those of the two.

**`MutexDemo`** — two workers, `owner` and `cross` the two mutexes; `evil` is read anew
in every round.  Worker0's unlock of a mutex it does not own does what it does without
`CONFIG_DEBUG_MUTEXES`: it unlocks.

**`KthreadDemo`** — the critical sections over `interval_ms`, the sleep, and an rmmod that
waits for it.  `Inputs` is what is written to the attribute.

**`FifoDemo`** — the kfifo as its two halves, the copy and the move of the index, with the
indices modulo `Wrap`; `pushed` and `popped` are what went in and came out.  The `goto`
ladder of the init function, and the two attributes that are drained by the exit.

**`IanGate`** — `enable_store` and the clock framework's two counts, each moved by a call of
its own; the exit unregisters the clock when the attribute has gone.

**`IanClk`** — `epc` walks `ian_clk_probe` and `ian_clk_remove`; `have` is what is there at
that point, `attrs` the attributes.  The timer callback and `nodelist_show` share
`node_list` under `list_lock`, on one CPU or on two (`cpu`, `BhOff`).  `pwm_get`,
`kthread_run` and `dma_alloc_coherent` fail in any combination.  `clk_register_clkdev` (481)
makes a lookup that remove never drops; `Consume` is another driver that asks for the clock.
One binding is modelled, from probe to the end of remove.  A first access to
something that is not there ends the behaviour with `oops`; that is what makes
`OopsesAreKnown` a complete list.

**`SensorSample`** — byte `k` of sample `n` is `<<n, k>>`, because `kfifo_in` is called with
length 1 on a `struct kfifo`.  It refines `SampleQueue` with the numbers alone, of which
the first byte is the part that survives.

**`ItemStore`** — `kind` is the module that is loaded: where the key of an item comes
from (`idr_alloc` under the lock, the user, `next_id++` outside the lock) and who frees.
`frees[i]` counts how often memory was given back.  What a function does to an item
after it has released the lock is the step `Touch`.  An insertion may fail, because the key
is taken (`Refuse`) or because `idr_alloc` finds no memory or no id (`IdrAllocFails`).  `raced`
remembers that two adds of `list_demo.c` were at `next_id++` at once.  `made` and `gone` are the rungs of
the init and exit functions.

**`Demos`** — the composition of `BottomHalf`, `SharedRec`, `MemBarrier`, `KeyDemos`,
`MutexDemo`, `KthreadDemo`, `FifoDemo`, `IanGate` and `SensorSample`: instances with their
variables renamed apart, of which `loaded` names the one that runs in a behaviour; the
others stay in their initial state.  They are never loaded together for a reason (the
same GPIO, the same device name) or share nothing, so one at a time is what there is to
see.  **`DemoConstants`** holds the parameters that proofs are about.

## 3. Runs

| run | bounds | what it shows |
|---|---|---|
| `control` | 2 callers, unbind on the timer's or another CPU | STOP and unbind leave nothing (`StoppedIsQuiet`, `RemovedStaysQuiet`), a device that is on is alive (`RunningIsAlive`, `KeepsSampling`), calls and removal return (`CallsReturn`), refinement of `Sampler` (`SwitchSpec`); the two liveness properties make an exception of the self-deadlock of the next run and of nothing else |
| `control_irq` (violation) | 1 caller, one CPU | line 593: the timer interrupt spins on the lock of the thread it interrupted |
| `read` | a blocking and a polling reader, kfifo of 2, 3 samples, FLUSH and RESET_STATS | no lost wakeup or hangup, no loss without a count, refinement of `SampleQueue` (`QueueSpec`) |
| `device` | 3 files, 2 attribute users, every `fail_step` | a call on an open file finds the memory, and the accesses that do not are those `CallsFindMemory` names; nothing leaks |
| `apps` | `sensor_reader` with `sensor_poll_reader` or `sensor_sigio`, kfifo of 2, 2 samples | `sensor_sigio` misses no sample (`AppInv`) and no Ctrl-C, a reader over a sample is woken, the removal ends every program |
| `demos` | per module: 4 presses; a record of 2 words over 2 values, `use_lock` switched at any time in each of the three modules; words of 3 values with `use_barrier` switched; 4 edges, debouncing for 2 ticks; a kfifo of 2 slots, indices modulo 4, 5 pushes by 2 processes; 3 writers of `enable`; the old driver with 2 readers, 2 bytes per sample and room for one, 3 samples; the values -1, 200 and 20000 written to the heartbeat | see the table below |
| `ian_clk` | 2 threads, 1 user of `/dev/ian`, 2 nodes, 2 CPUs, every combination of ignored failures | where something that is not there can be used (`OopsesAreKnown`), the list under timer and readers (`ListInv`), what is over after remove and what stays (`GoneIsQuiet`), and that it returns |
| `comp_demo_exit` (violation) | 5 presses | the extra completion can be consumed early: rmmod hangs |
| `use_lock_switch` (violation) | a record of 2 words over 2 values | `gpio_irq_threaded.c`: a write of `use_lock` inside the unlocked section makes `reader_fn` unlock a lock it does not hold |
| `sensor_sample_read` (violation) | 2 readers, a kfifo of 2 samples of 2 bytes, 5 samples | a read returns one byte of the sample |
| `item_store` | each container, 3 processes, 3 items, keys 0 to 3, init failing anywhere | live memory in the container, freed once, nothing lost, freed memory found only by the uses after the lock (`MemorySafe`, `LiveIsOwned`); a key leads to one item, but for two adds of `list_demo.c` at once at `next_id++` (`KeysUnique`) |
| `item_store_free` (violation) | 2 processes, 2 items | an item is freed while another process uses it |

What `demos` shows, module by module:

| property | about |
|---|---|
| `IInv` | the inductive invariants of `BottomHalf`, `SharedRec`, `MemBarrier`, `KeyDemos`, `MutexDemo`, `IanGate`, `KthreadDemo`, `FifoDemo`, `SensorSample` (each proved, section 4); a sleep of the heartbeat is never longer than the longest interval; in the old driver no wakeup is lost and nothing runs in freed memory |
| `NoPressForgotten` | the three bottom halves |
| `LockBalanced` | the torn record: who leaves a section does not hold the lock, who unlocks does, whoever writes `use_lock`; the one exception is `reader_fn` of `gpio_irq_threaded.c` once it was written between its two tests |
| `NoMismatch`, `RoundsInOrder` | the handshake: no flag without its data while the barriers have been on; rounds in order even without |
| `EachPressWakes`, `OnePerBurst`, `LineGivenBack` | completion and debouncing |
| `MutexInv` | exclusion, and that the one way to hang is worker1 twice in `cross_mutex` |
| `KfifoInOrder` | values popped are a prefix of values pushed, whole |
| `ClockBalanced` | every enable stands on a prepare; the counts match when nobody is inside |
| `QueueSpec` | the old driver implements `SampleQueue` as far as the numbers go |
| `WorkGoesOn`, `RmmodReturns` | presses served, bursts counted, sections ended, both workers in; and each rmmod returns but for `mutex_demo` with `evil` and `comp_demo` after an early consumption |

*Why the bounds are enough.*  Two callers and a remover give every pair of commands
and every order of the three over `control_lock`.  A kfifo of 2 with 3 samples fills,
overflows, is flushed and refilled; two readers lose and win races for a sample, and
the polling one has all its returns.  With 2 samples `sensor_sigio` gets one signal for
both, the case its inner loop is for.  Three files see an open before, during and after
the removal.  Values modulo 3, and indices modulo 4 over 2 slots, wrap around more than
once.  Four edges with two ticks give a burst, a bounce at the expiry, and a second
burst.  Three items and processes give a removal, a lookup and an insertion of one key
at once.  In `ian_clk` two threads meet on the list while the timer is on the CPU of
either or of neither, and one node is replaced while another is looked at.
The counters of history (`presses`, `bursts`, `frees`, samples, `pushed`) are bounded by
the guards that take the input (`Press`, `Edge`, `WorkStart`, `Alloc`, the pushes), never in
the code's own steps.

`CHECK_DEADLOCK FALSE` is set where the system may stop: everything is unloaded or the
bound on inputs is reached.

*Fairness.*  A thread in the kernel keeps running and the work queue, the tasklet, the
softirq and the interrupt that is raised are served: weak fairness of their steps.  A
mutex is handed to a waiter that keeps losing the race (strong fairness of the lock
steps in `SensorCtl`); in `SharedRec` and `MutexDemo` the lock serves its waiters in turn
and the button does not interrupt the reader without end (strong fairness of the steps of
each side, `Turn` in `Demos`).  In `IanClk` the callback is short (weak fairness) and runs once in 100 ms, so
`timer_delete_sync` finds a moment when it does not run, and `list_lock`, a queued lock on
arm64, serves its waiters in turn (strong fairness of those two).  A removal or an exit that has begun goes on.  No fairness for what users do:
commands, presses, Ctrl-C, unbind, rmmod, writes.

## 4. Proofs

| module | proved | by |
|---|---|---|
| `SensorCtl_proofs` | `IInv`, the three safety properties of `control`, that START finds the timer at rest (`StartFindsQuiet`), that the callback gives up, when it tests `running` and still when it returns, only for a cancellation (`NoRestartOnlyWhenStopping`), and the refinement of `Sampler` | who owns `control_lock` (`LockOwner`), when `dying` holds (`DyingSince`), how far a cancellation has drained the machinery (`DrainedInOrder`), who arms (`AliveOrArming`) |
| `SensorRead_proofs` | `IInv`, `NoLostWakeup`, `NoLostHangup`, `InOrder`, `Younger`, `DropsWithinSamples`, `NoSilentLoss`, refinement of `SampleQueue` | for any readers, kfifo size and number of samples; the invariant relates a sleeper's place on the wait queue to the kfifo and to a wake-up on its way |
| | the programs: `ProgramsKeepDriver` (the composition `SensorApps` implements `SensorRead`, so all of the above holds with the programs running) and `AppInv` | from the `kfifo_out` that finds nothing to `sigsuspend`, `sensor_sigio` stays on `async_queue` and no handler runs (`SigioWaits`); any number of programs of each kind |
| `SensorDevice_proofs` | `IInv`, `CallsFindMemory`, `AttrsFindMemory`, `RegisteredIsLive`, `NothingLeaks` | `ref` is the number of open files plus the driver's own; which accesses may come after the last reference (`Lifetime`); the rungs in force at each stage (`Ladder`); any finite set of files |
| `Memory_proofs` | of `SharedRec`: `IInv`, `TearNeedsRace`, `LockExcludes`, `LockBalanced`, `IsrNeverSpins` | for any number of words and values, `use_lock` written at any time; `LockBalanced` and `IsrNeverSpins` name `switched` as their exception, the other three have none: who chose to lock holds the lock inside (`Choices`), and what is copied without a race is what was stored (`CopyCurrent`) |
| | of `MemBarrier`: `IInv`, `NoMismatch`, `RoundsInOrder` | for every width of the word; `NoMismatch` as long as `use_barrier` has been 1, the order of the rounds with or without it: the flag in memory or in a store buffer is the round the consumer has had or the next one (`Rounds`) |
| `Buffers_proofs` | of `SensorSample`: `IInv` and `FreedIsQuiet` | for any readers, kfifo and number of samples: a sleeper found the kfifo empty after it had queued, what the work puts in is followed by its wake-up, and each step of the exit leaves quiet what it waited for |
| | refinement of `SampleQueue` by `SensorSample` (`QueueSpec`) | a reader has one byte in its hands between `kfifo_out` and `copy_to_user` and none elsewhere (`Held`); the numbers of the bytes follow what goes in and out (`NumbersAppend`, `NumbersTail`) |
| | of `FifoDemo`: `IInv`, `KfifoInOrder` | for any processes, any size and any `Wrap` that is a larger multiple of it; who is in the middle of a call is alone (`Locked`), the indices are the histories modulo `Wrap` (`Counted`), value `k` waits in slot `k - 1` modulo the size (`Stored`), and what a call has found stays so until it has used it (`Halfway`); the lemmas on `%` are proved first (`ModIs`, `ModAdd`, `ModOfMod`, `ModDiffers`) |
| `Demos_proofs` | of `BottomHalf`: `IInv`, `NoPressForgotten`, `UnloadedIsQuiet`, `LastPressServed` | for each kind and any number of presses |
| | `EachPressWakes`, `OnePerBurst`, `LineGivenBack` | for any number of presses and edges and any debounce time; where a press is between the interrupt and the count, and what the timer still owes (`TimerFollows`) |
| | `MutexInv` | who is between `mutex_lock` and `mutex_unlock` owns the mutex, alone, whatever is written to `evil` |
| | the bound on the sleep of `KthreadDemo` | for every number written to `interval_ms` of those modelled: a negative, one in range and one out of range |
| | `ClockBalanced` | for any finite set of writers of `enable`; a step of a thread moves the counts and the number of threads inside together (`CountMoves`) |
| | `IInv` of `Demos`, the invariants of all these modules at once | from the modules' own invariants |
| `IanClk_proofs` | `IInv`, `OopsesAreKnown`, `ListInv`, `GoneIsQuiet` | for any threads, users, nodes and CPUs; what probe has made and remove has taken away at each of their stages (`Made`, `Published`), what of the timer, the work and the thread may still run there (`Running`), and who is at `node_list` with which lock and CPU (`AtList`) |
| `ItemStore_proofs` | `IInv`, `MemorySafe`, `LiveIsOwned`, `KeysUnique` | for any processes, items and keys; who has an item outside the container has it alone (`Exclusive`), the ids of `list_demo.c` are apart and below `next_id` (`Numbered`), and nobody is inside behind a file that was removed (`Quiet`) |

Each follows the same line: the invariant holds at first, every action preserves it (one
step per action), and it implies the property.  The safety properties are seldom
inductive by themselves: `StoppedIsQuiet`, for instance, speaks only of moments when
`control_lock` is free, and what STOP has done so far has to be carried through the
steps in which it holds the lock; that is `DrainedInOrder`.  The assumptions are the
named `ASSUME`s of the modules, which TLC evaluates in the runs: sets of identities are apart
(`CpuAssumption`: a CPU is not a thread), sizes are positive, the range of the kfifo's indices
is a multiple of its size (`SlotsAssumption`: 2^32, a power of two).

Only model-checked: the liveness properties (`CallsReturn`, `KeepsSampling`,
`WakeupArrives`, `CtrlCStopsSigio`, `RemovalEndsPrograms`, `RemoveReturns`, `WorkGoesOn`,
`RmmodReturns`), for the prover has no rules for fairness and ENABLED here; and the
violations of section 5, which are counterexamples.  Every invariant, action property and
refinement of the passing runs is also a theorem.
The theorems about the training modules are about the
specification of `Demos`, the one the run `demos` checks: a step of the board is a step of
the module or leaves it alone (the lemmas `BhRun`, `RecRun`, `BarRun`, `KeysRun`, `MutexRun`, `GateRun`, `BeatRun`,
`FifoRun`, `SampleRun`),
and the module's own invariant does the rest.

## 5. Findings

Shown by a run:

1. `sensor_sample_todo.c:593` (`control_irq`): `sensor_remove` takes `state_lock` without
   disabling interrupts while the timer may fire; the notes of the repository require irqsave.
2. `comp_demo.c:112` (`comp_demo_exit`): the extra `complete` may be consumed before
   `kthread_stop` sets the flag.
3. `idr_demo.c:161` and `rb_demo.c:207` (`item_store_free`): the item is freed while
   `find_store` or the insertion still uses it.  `list_demo.c:130` uses its item after the
   unlock too, and del frees it inside the lock: `UseFindsMemory`, a part of `MemorySafe`,
   is the complete list of such uses.
4. `sensor_sample.c:258` (`sensor_sample_read`): the kfifo is one of bytes, and one byte of
   each sample goes in and out; the rest of what `sensor_read` returns is uninitialised.
5. `gpio_irq_threaded.c:154` (`use_lock_switch`): `use_lock` is read again at the unlock, and
   the header says that it may be written at any time.  A write of 1 while `reader_fn` is
   inside unlocked makes it unlock what it has not locked; a write of 0 between its first
   test and `spin_lock_irqsave` makes it keep the lock and leave interrupts off.  Both take a
   kernel that preempts `reader_fn`, or a second core.

Read off the code while modelling, and not among the violation runs:

6. `sensor_sample_todo.c:237`: the last `sensor_release` after an unbind frees the struct with
   `dev->cdev` (79) in it, and the kernel's `cdev_put` after it reads and counts down in that
   memory.  So does `sensor_open` in an open that found the cdev before `cdev_del`.  No
   comment of the code speaks of it; `CallsFindMemory` names both and excludes all others.
7. `sensor_reader.c:77`: Ctrl-C between the test of `running` and `read` only sets the
   flag; on a device that is stopped the read does not return, and a second Ctrl-C is
   needed.
8. `ian_clk.c`: the disjuncts of `OopsesAreKnown` are the accesses to something that
   is not there, among them the timer armed at 513 before `INIT_LIST_HEAD` at 576, the
   registers unmapped at 686 before the timer is deleted at 687, `/dev/ian` open across
   the removal, and the lookup registered at 481 that nothing in remove (676-709) drops and
   that points into the freed struct.
9. `rb_demo.c:274`, `idr_demo.c:191`, `list_demo.c:234`: an init that fails after its first
   attribute does not empty the container; what was inserted in between is lost.  It is the
   exception in `LiveIsOwned`.
10. `list_demo.c:99`: two adds at `next_id++` at once give one id to two items, the exception
   in `KeysUnique`.
11. `kthread_demo.c:63`: `v > 50 || v < 10000` holds of every int, so `interval_store`
   refuses every write, also the `echo 200` that the load message invites to.

`sensor_sample_todo.c:499` (`fail_step` 3 skips `cdev_del`) is an exception the
properties of `SensorDevice` name.

## 6. What is abstracted, and what is not modelled

The values and time stamps of samples, the lengths of sleeps and periods, log messages,
text formats, EFAULT, the order of items in a container, the order in which the kernel
serves waiters.  The kernel's own services (timers, work queues, kernfs, wait queues,
signals, the clock framework) are modelled from what the code relies on and marked
external in `PROJECT.json`.

Not modelled, and why:

- `mmap_demo.c` is a draft that does not compile (a missing semicolon, `vma->vm`, an
  undeclared variable in its exit function): it has no behaviour.
- `abba_deadlock.c`, `spin_deadlock.c`, `crash_interrupt.c`, `mutex_atomic.c` do one
  forbidden thing each at load time; a model would restate it.
- `false_sharing.c`, `preempt_scope.c`, `list_tasks.c`, `ptr_type_drills.c` and the `test_*.c`
  measure, print and do pointer arithmetic: no protocol.
- Of the driver: SET_PERIOD, GET_PERIOD, GET_STATS and their attributes copy fields under
  a lock; `sensor_ioctl` makes one call.  `SensorCtl` begins at the end of the probe, so the
  window between the publication of the device (496) and the set-up of the timer (546) is
  listed as a hazard and not covered.
- Of `ian_clk.c`: `set_rate` and the rate attributes, the netdev notifier, which prints,
  and the DMA measurements and the i2c read inside probe.

## 7. Order of the work

The driver first (`SensorCtl` with `Sampler`, `SensorRead` with `SampleQueue`,
`SensorDevice`), then the programs composed with it (`SensorApps`), then the modules of one
facility each and their composition (`Demos`), `ItemStore`, and the platform driver
(`IanClk`, `IanGate`); last the theorems, until every safety property of the passing runs
was one.  What would come next: the window of `sensor_probe` in composition with
`SensorCtl`, an abstract map that `ItemStore` implements but for the races of finding 3, and
`period_ms` as far as the probe overwrites it.
