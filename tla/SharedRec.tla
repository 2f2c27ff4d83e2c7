----------------------------- MODULE SharedRec ------------------------------
(***************************************************************************)
(* A record of several words that one side writes and one side reads, each *)
(* under a lock if use_lock says so: the ISR and reader_fn of              *)
(* gpio_irq_threaded.c on one core, writer_fn and reader_fn of tear_smp.c  *)
(* and tear_crash.c on two.  use_lock is a parameter of mode 0644: anybody *)
(* may write it at any time.                                               *)
(*                                                                         *)
(* gpio_irq_threaded.c reads use_lock again before it unlocks; the other   *)
(* two choose the locked or the unlocked section once.                     *)
(*                                                                         *)
(* On two cores a store is not visible to the other core at once: it waits *)
(* in buf, and neither the stores nor the loads of a section keep their    *)
(* order.  spin_lock is an acquire and spin_unlock a release.  What one    *)
(* core does on its own core it sees in order.                             *)
(***************************************************************************)
EXTENDS DemoConstants

Sides  == {"writer", "reader"}
Fields == 1 .. N
Values == 0 .. NumValues - 1

VARIABLES
    rec,           \* the shared words
    buf,           \* the stores of the writer that are not visible yet
    copy,          \* the reader's a, b, c
    v,             \* the writer's value
    useLock,       \* use_lock
    lock,          \* who holds rec_lock, "none" or "broken"
    masked,        \* the reader's core takes no interrupts
    pc,            \* where each side is
    todo,          \* the fields each side has still to access
    chose,         \* what each side read in use_lock before its section
    raced,         \* history: the writer met the reader's section, one unlocked
    switched,      \* history: use_lock was written between two tests of reader_fn
    module         \* "isr": gpio_irq_threaded.c; "smp": one of the other two

vars == <<rec, buf, copy, v, useLock, lock, masked, pc, todo, chose, raced, switched, module>>

Recheck    == module = "isr"
SingleCore == module = "isr"

TypeOK ==
    /\ rec \in [Fields -> Values] /\ copy \in [Fields -> Values] /\ v \in Values
    /\ buf \in [Fields -> SUBSET Values]
    /\ useLock \in BOOLEAN /\ masked \in BOOLEAN
    /\ lock \in Sides \cup {"none", "broken"}
    /\ pc \in [Sides -> {"out", "enter", "in", "check"}]
    /\ pc["writer"] # "check"
    /\ todo \in [Sides -> SUBSET Fields]
    /\ chose \in [Sides -> BOOLEAN]
    /\ raced \in BOOLEAN /\ switched \in BOOLEAN
    /\ module \in {"isr", "smp"}

(* tear_smp's writer counts on from an uninitialised v.                    *)
Init ==
    /\ rec = [f \in Fields |-> 0] /\ copy = [f \in Fields |-> 0]
    /\ buf = [f \in Fields |-> {}]
    /\ v \in Values
    /\ module \in {"isr", "smp"} /\ useLock \in BOOLEAN
    /\ lock = "none" /\ masked = FALSE
    /\ pc = [p \in Sides |-> "out"] /\ todo = [p \in Sides |-> {}]
    /\ chose = [p \in Sides |-> FALSE]
    /\ raced = FALSE /\ switched = FALSE

-----------------------------------------------------------------------------
(* spin_lock_irqsave keeps the interrupt off the core while the reader     *)
(* holds the lock; an interrupt handler runs to its end before the core    *)
(* does anything else.                                                     *)
IrqsOff == SingleCore /\ masked
InIsr   == SingleCore /\ pc["writer"] # "out"

Runs(p) == IF p = "writer" THEN InIsr \/ ~IrqsOff ELSE ~InIsr

(* A new round; `if (use_lock)' before the section.                        *)
Test(p) ==
    /\ pc[p] = "out" /\ Runs(p)
    /\ v' = IF p = "writer" THEN (v + 1) % NumValues ELSE v
    /\ chose' = [chose EXCEPT ![p] = useLock]
    /\ pc' = [pc EXCEPT ![p] = IF useLock THEN "enter" ELSE "in"]
    /\ todo' = [todo EXCEPT ![p] = Fields]
    /\ UNCHANGED <<rec, buf, copy, useLock, lock, masked>>

Free_Always == TRUE    \* mutant: the lock is not waited for
Free == lock = "none"

Lock(p) ==
    /\ pc[p] = "enter" /\ Runs(p) /\ Free
    /\ lock' = p
    /\ masked' = (masked \/ p = "reader")
    /\ pc' = [pc EXCEPT ![p] = "in"]
    /\ UNCHANGED <<rec, buf, copy, v, useLock, todo, chose>>

(* The writer stores v into a word, the reader copies one.                 *)
Access(p) ==
    /\ pc[p] = "in" /\ Runs(p)
    /\ \E f \in todo[p] :
           /\ todo' = [todo EXCEPT ![p] = todo[p] \ {f}]
           /\ CASE p = "reader" -> copy' = [copy EXCEPT ![f] = rec[f]] /\ UNCHANGED <<rec, buf>>
                [] p = "writer" /\ SingleCore ->
                       rec' = [rec EXCEPT ![f] = v] /\ UNCHANGED <<buf, copy>>
                [] OTHER -> buf' = [buf EXCEPT ![f] = {v}] /\ UNCHANGED <<rec, copy>>
    /\ UNCHANGED <<v, useLock, lock, masked, pc, chose>>

(* A store reaches the other core.                                         *)
Drain(f) ==
    /\ \E x \in buf[f] : rec' = [rec EXCEPT ![f] = x]
    /\ buf' = [buf EXCEPT ![f] = {}]
    /\ UNCHANGED <<copy, v, useLock, lock, masked, pc, todo, chose>>

Unlocks_Reread(p) == useLock    \* mutant: the form of gpio_irq_threaded.c
Unlocks(p) == IF Recheck THEN useLock ELSE chose[p]

Done(p) == todo[p] = {}

AllVisible == \A f \in Fields : buf[f] = {}

(* spin_unlock_irqrestore: the stores before it are visible.  A ticket lock*)
(* that is unlocked while nobody holds it is granted to nobody after that, *)
(* and flags that were not saved in this round may turn the interrupts off *)
(* or on.                                                                  *)
Release(p) ==
    /\ p = "writer" => AllVisible
    /\ lock' = IF lock = p THEN "none" ELSE "broken"
    /\ masked' \in CASE p = "writer" -> {masked}
                     [] p = "reader" /\ chose[p] /\ ~switched -> {FALSE}
                     [] OTHER -> BOOLEAN

Unlock(p) ==
    /\ pc[p] = "in" /\ Runs(p) /\ Done(p)
    /\ IF Unlocks(p) THEN Release(p) ELSE UNCHANGED <<lock, masked>>
    /\ pc' = [pc EXCEPT ![p] = IF p = "reader" THEN "check" ELSE "out"]
    /\ UNCHANGED <<rec, buf, copy, v, useLock, todo, chose>>

(* The reader compares what it copied.                                     *)
Torn == \E f, g \in Fields : copy[f] # copy[g]

(* After its 2000 rounds the reader of gpio_irq_threaded.c sleeps: whoever *)
(* runs then takes interrupts again.                                       *)
Check ==
    /\ pc["reader"] = "check" /\ Runs("reader")
    /\ pc' = [pc EXCEPT !["reader"] = "out"]
    /\ masked' \in {masked, FALSE}
    /\ UNCHANGED <<rec, buf, copy, v, useLock, lock, todo, chose>>

BetweenTests == Recheck /\ pc["reader"] \in {"enter", "in"}

(* echo 0|1 > /sys/module/.../parameters/use_lock.                         *)
Toggle ==
    /\ ~InIsr /\ ~IrqsOff
    /\ useLock' = ~useLock
    /\ UNCHANGED <<rec, buf, copy, v, lock, masked, pc, todo, chose>>

Step(p) == Test(p) \/ Lock(p) \/ Access(p) \/ Unlock(p)

Writing    == pc["writer"] = "in" \/ ~AllVisible
BothLocked == \A p \in Sides : pc[p] = "in" /\ chose[p]

(* Was the writer writing at some time since the reader went in, one of the*)
(* two without the lock?  Was use_lock written between the reader's tests? *)
Observe ==
    /\ raced' = /\ pc'["reader"] \in {"in", "check"}
                /\ raced \/ (pc'["reader"] = "in" /\ Writing' /\ ~BothLocked')
    /\ switched' = (switched \/ (BetweenTests /\ useLock' # useLock))
    /\ UNCHANGED module

Next == ((\E p \in Sides : Step(p)) \/ (\E f \in Fields : Drain(f)) \/ Check \/ Toggle)
        /\ Observe

(* What a side does once it has begun a round.                             *)
GoesOn(p) ==
    /\ \/ Lock(p) \/ Access(p) \/ Unlock(p)
       \/ p = "reader" /\ Check
       \/ p = "writer" /\ \E f \in Fields : Drain(f)
    /\ Observe

Spec == Init /\ [][Next]_vars

-----------------------------------------------------------------------------
(* A torn copy is never the lock's fault: the reader saw half a record only*)
(* if the writer was at it at the same time and one of them had not locked.*)
TearNeedsRace == pc["reader"] = "check" /\ Torn => raced

(* Two sections that both took the lock exclude each other, whoever writes *)
(* use_lock and when.                                                      *)
LockExcludes == ~BothLocked

(* The lock is held by who is inside with it: nobody unlocks what it does  *)
(* not hold, and nobody leaves with the lock.  It holds of tear_*.c and of *)
(* the ISR whoever writes use_lock and when, and of reader_fn of           *)
(* gpio_irq_threaded.c until use_lock is written between its two tests of  *)
(* one round (see SwitchIsSafe).                                           *)
LockBalanced ==
    \A p \in Sides :
        \/ p = "reader" /\ switched
        \/ /\ pc[p] # "in" => lock # p
           /\ pc[p] = "in" /\ Done(p) /\ Unlocks(p) => lock = p

(* gpio_irq_threaded.c, 22-23: use_lock can be switched at run time.  If   *)
(* that were so at any time, nobody would unlock what it has not locked.   *)
SwitchIsSafe == \A p \in Sides : pc[p] = "in" /\ Done(p) /\ Unlocks(p) => lock = p

(* Until then the interrupt never spins on a lock that its own core holds: *)
(* it would spin for ever.                                                 *)
IsrNeverSpins == InIsr /\ ~switched => lock # "reader"

(* What is inductive: the words agree between sections of the writer and   *)
(* as far as it has stored them inside one; without a race what the reader *)
(* has copied is what is there.                                            *)
Holds(f, x) == buf[f] = {x} \/ (buf[f] = {} /\ rec[f] = x)

CopyCurrent ==
    /\ SingleCore => AllVisible
    /\ pc["writer"] # "in" => \E x \in Values : \A f \in Fields : Holds(f, x)
    /\ pc["writer"] = "in" => \A f \in Fields \ todo["writer"] : Holds(f, v)
    /\ \A p \in Sides : pc[p] = "enter" => todo[p] = Fields
    /\ pc["reader"] = "in" /\ ~raced =>
           ~Writing /\ \A f \in Fields \ todo["reader"] : copy[f] = rec[f]

(* Who chose to lock holds the lock inside; without a switch nobody else.  *)
Choices ==
    /\ \A p \in Sides : pc[p] = "in" /\ chose[p] => lock = p
    /\ \A p \in Sides : pc[p] = "enter" => chose[p]
    /\ lock = "writer" => pc["writer"] = "in" /\ chose["writer"]
    /\ InIsr => chose["writer"] = useLock
    /\ SingleCore /\ pc["reader"] = "in" /\ chose["reader"] => masked
    /\ ~switched => /\ lock # "broken"
                    /\ lock = "reader" => pc["reader"] = "in" /\ chose["reader"]
                    /\ BetweenTests => chose["reader"] = useLock
    /\ switched => module = "isr"

IInv == TypeOK /\ Choices /\ CopyCurrent /\ TearNeedsRace /\ IsrNeverSpins

(* Every section ends: no side spins on the lock for ever, unless use_lock *)
(* was written between the two tests of reader_fn.                         *)
SectionsEnd == \A p \in Sides : pc[p] # "out" ~> (pc[p] = "out" \/ switched)
=============================================================================
