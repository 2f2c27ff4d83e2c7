------------------------------- MODULE IanClk -------------------------------
(***************************************************************************)
(* ian_clk.c: a platform driver that publishes sysfs attributes, a         *)
(* character device, a timer, a work item and a thread in probe, and takes *)
(* them back in remove.  What is checked is who may still use what at which*)
(* stage of the two, and the list that the timer and nodelist_show share.  *)
(* The clock itself, with the attribute enable, is module IanGate.         *)
(*                                                                         *)
(* An access to something that is not there (not yet, no more, or never    *)
(* because its allocation failed) ends the behaviour with oops = <<who,    *)
(* what>>.  Time is left out: probe may take longer than the second after  *)
(* which the timer expires, because i2c_transfer and pwm_get sleep.        *)
(***************************************************************************)
EXTENDS Naturals, FiniteSets

CONSTANTS
    Threads,       \* processes that use the attributes
    Users,         \* processes that use /dev/ian
    Nodes,         \* memory for struct ian_node
    Cpus,
    TimerCpu,      \* the CPU whose softirq runs ian_timer_callback
    Nobody

ASSUME CpuAssumption ==
    TimerCpu \in Cpus /\ Cpus \cap Threads = {} /\ Nobody \notin Threads \cup Nodes \cup Cpus

VARIABLES
    epc,           \* where ian_clk_probe or ian_clk_remove is
    have,          \* what probe has made and remove not yet taken back
    attrs,         \* the attributes that are there
    thread,        \* ian_thread_fn
    work,          \* ian_work_handler: "queued" until it returns
    open,          \* users with /dev/ian open
    oops,          \* <<who, what>>: the first access to something not there
    timer,         \* the timer is pending
    cb,            \* where ian_timer_callback is
    list,          \* the nodes in node_list
    live,          \* the nodes allocated
    lock,          \* who holds list_lock
    clobbered,     \* history: spin_lock_init while somebody held it
    step,          \* where each thread is in its sysfs call
    cpu,           \* where it runs nodelist_show
    cursor         \* the node it looks at

device  == <<epc, have, attrs, thread, work>>
nodes   == <<list, live, lock, clobbered>>
callers == <<step, cpu, cursor>>
vars    == <<device, open, oops, timer, cb, nodes, callers>>

Attributes == {"random", "duty_ns", "nodelist", "dma"}
Things     == {"mem", "hw", "lookup", "regs", "clk", "cdev", "pwm", "list", "dma"}

Probing  == {"clk", "regs", "timer", "cdev", "work", "list", "lock", "thread", "buffers"}
Removing == {"files", "unmapped", "timer_gone", "clk_gone", "freed", "cancel",
             "wait_work", "stop", "wait_thread"}

Init ==
    /\ epc = "unbound" /\ have = {} /\ attrs = {}
    /\ thread = "none" /\ work = "none"
    /\ open = {} /\ oops = <<>>
    /\ timer = FALSE /\ cb = "idle"
    /\ list = {} /\ live = {} /\ lock = Nobody /\ clobbered = FALSE
    /\ step = [t \in Threads |-> "out"] /\ cpu = [t \in Threads |-> TimerCpu]
    /\ cursor = [t \in Threads |-> Nobody]

(* who uses what; x may be there or not.                                   *)
Uses(who, x) == oops' = IF x \in have THEN <<>> ELSE <<who, x>>

-----------------------------------------------------------------------------
(***************************************************************************)
(* ian_clk_probe.                                                          *)
(***************************************************************************)
Goto(from, to) ==
    /\ epc = from /\ epc' = to
    /\ UNCHANGED <<open, cb, list, live, callers>>

Makes(things, files) ==
    /\ have' = have \cup things
    /\ attrs' = attrs \cup files

NoSideEffect == UNCHANGED <<thread, work, oops, timer, lock, clobbered>>

(* devm_kzalloc, clk_register of the clk_hw inside, clk_register_clkdev and*)
(* the first attributes.                                                   *)
Bind ==
    /\ Goto("unbound", "clk") /\ Makes({"mem", "hw", "lookup"}, {"random"})
    /\ NoSideEffect

(* clk_get, ioremap.                                                       *)
MapRng == Goto("clk", "regs") /\ Makes({"clk", "regs"}, {}) /\ NoSideEffect

ArmTimer ==
    /\ Goto("regs", "timer") /\ timer' = TRUE
    /\ UNCHANGED <<have, attrs, thread, work, oops, lock, clobbered>>

AddCdev == Goto("timer", "cdev") /\ Makes({"cdev"}, {}) /\ NoSideEffect

(* schedule_work; pwm_get may fail, the attribute is there all the same.   *)
StartWork ==
    /\ Goto("cdev", "work") /\ work' = "queued"
    /\ \E pwm \in SUBSET {"pwm"} : Makes(pwm, {"duty_ns"})
    /\ UNCHANGED <<thread, oops, timer, lock, clobbered>>

InitList == Goto("work", "list") /\ Makes({"list"}, {"nodelist"}) /\ NoSideEffect

InitLock ==
    /\ Goto("list", "lock")
    /\ lock' = Nobody /\ clobbered' = (lock # Nobody)
    /\ UNCHANGED <<have, attrs, thread, work, oops, timer>>

(* kthread_run may fail; that is printed and probe goes on.                *)
StartThread ==
    /\ Goto("lock", "thread")
    /\ thread' \in {"run", "failed"}
    /\ UNCHANGED <<have, attrs, work, oops, timer, lock, clobbered>>

AddDmaAttr == Goto("thread", "buffers") /\ Makes({}, {"dma"}) /\ NoSideEffect

(* dma_alloc_coherent may fail; that is printed and probe returns 0.       *)
AllocDma ==
    /\ Goto("buffers", "bound")
    /\ \E dma \in SUBSET {"dma"} : Makes(dma, {})
    /\ NoSideEffect

(* The results of clk_get, ioremap, i2c_get_adapter, class_create, kmalloc *)
(* and vmalloc are used unchecked.                                         *)
Unchecked ==
    /\ epc \in {"clk", "timer", "cdev", "thread", "buffers"}
    /\ oops' = <<"probe", "result">>
    /\ UNCHANGED <<device, open, timer, cb, nodes, callers>>

Probe ==
    \/ MapRng \/ ArmTimer \/ AddCdev \/ StartWork \/ InitList \/ InitLock
    \/ StartThread \/ AddDmaAttr \/ AllocDma

-----------------------------------------------------------------------------
(***************************************************************************)
(* ian_clk_remove, when the driver is unbound; open files do not hinder it.*)
(***************************************************************************)
Inside == \E t \in Threads : step[t] # "out"

Drops(things) == have' = have \ things /\ UNCHANGED attrs

Unbind == Goto("bound", "files") /\ UNCHANGED <<have, attrs>> /\ NoSideEffect

Drained == "nodelist" \in attrs \/ ~Inside

(* device_remove_file, one by one: no new callers, then wait for the old.  *)
RemoveFile ==
    /\ Goto("files", "files") /\ Drained
    /\ attrs' = CASE "random" \in attrs   -> attrs \ {"random"}
                  [] "duty_ns" \in attrs  -> attrs \ {"duty_ns"}
                  [] "nodelist" \in attrs -> attrs \ {"nodelist"}
                  [] OTHER                -> attrs \ {"dma"}
    /\ UNCHANGED have /\ NoSideEffect

FilesGone_Not == TRUE    \* mutant: iounmap before the attributes are removed
FilesGone == attrs = {}

Iounmap ==
    /\ FilesGone /\ Drained
    /\ Goto("files", "unmapped") /\ Drops({"regs"}) /\ NoSideEffect

CallbackDone_Not == TRUE    \* mutant: timer_delete
CallbackDone == cb = "idle"

TimerDeleteSync ==
    /\ CallbackDone
    /\ Goto("unmapped", "timer_gone") /\ timer' = FALSE
    /\ UNCHANGED <<have, attrs, thread, work, oops, lock, clobbered>>

(* clk_put, clk_unregister and pwm_put; nobody drops the lookup.           *)
PutClk  == Goto("timer_gone", "clk_gone") /\ Drops({"clk", "hw", "pwm"}) /\ NoSideEffect
FreeDma == Goto("clk_gone", "freed") /\ Drops({"dma"}) /\ NoSideEffect
DelCdev == Goto("freed", "cancel") /\ Drops({"cdev"}) /\ NoSideEffect

(* cancel_work_sync takes back what has not begun and waits for the rest.  *)
CancelWork ==
    /\ Goto("cancel", "wait_work") /\ work' \in {work, "done"}
    /\ UNCHANGED <<have, attrs, thread, oops, timer, lock, clobbered>>

WorkDone == work = "done" /\ Goto("wait_work", "stop") /\ UNCHANGED <<have, attrs>> /\ NoSideEffect

KthreadStop ==
    /\ Goto("stop", "wait_thread")
    /\ oops' = IF thread = "failed" THEN <<"remove", "thread">> ELSE <<>>
    /\ UNCHANGED <<have, attrs, thread, work, timer, lock, clobbered>>

(* The thread has gone, the notifier goes, devres frees struct ian_clk.    *)
Gone == thread = "done" /\ Goto("wait_thread", "gone") /\ Drops({"mem", "list"}) /\ NoSideEffect

Remove ==
    \/ RemoveFile \/ Iounmap \/ TimerDeleteSync \/ PutClk \/ FreeDma \/ DelCdev
    \/ CancelWork \/ WorkDone \/ KthreadStop \/ Gone

(* ian_work_handler and ian_thread_fn only sleep.                          *)
RunWork ==
    /\ work = "queued" /\ work' = "done"
    /\ UNCHANGED <<epc, have, attrs, thread, open, oops, timer, cb, nodes, callers>>

ShouldStop_Never == FALSE    \* mutant: the loop does not ask kthread_should_stop
ShouldStop == epc = "wait_thread"

RunThread ==
    /\ thread = "run" /\ ShouldStop /\ thread' = "done"
    /\ UNCHANGED <<epc, have, attrs, work, open, oops, timer, cb, nodes, callers>>

-----------------------------------------------------------------------------
(***************************************************************************)
(* ian_timer_callback, in the softirq of TimerCpu, and nodelist_show.      *)
(***************************************************************************)
BhOff_Never(c) == FALSE    \* mutant: spin_lock instead of spin_lock_bh
BhOff(c) == \E t \in Threads : step[t] \in {"lock", "walk", "unlock"} /\ cpu[t] = c

CbGoto(from, to) ==
    /\ cb = from /\ cb' = to
    /\ UNCHANGED <<device, open, clobbered, callers>>

Expire ==
    /\ timer /\ ~BhOff(TimerCpu)
    /\ CbGoto("idle", "lock")
    /\ timer' = FALSE
    /\ UNCHANGED <<oops, list, live, lock>>

CbLock ==
    /\ lock = Nobody /\ lock' = TimerCpu
    /\ CbGoto("lock", "free")
    /\ UNCHANGED <<oops, timer, list, live>>

(* Every node is taken off the list and freed.                             *)
CbFree ==
    /\ CbGoto("free", "add") /\ Uses("timer", "list")
    /\ list' = {} /\ live' = live \ list
    /\ UNCHANGED <<timer, lock>>

(* A new one, if there is memory.                                          *)
CbAdd ==
    /\ CbGoto("add", "unlock")
    /\ \/ UNCHANGED <<oops, list, live>>
       \/ \E n \in Nodes \ live :
              live' = live \cup {n} /\ list' = {n} /\ Uses("timer", "regs")
    /\ UNCHANGED <<timer, lock>>

CbUnlock ==
    /\ CbGoto("unlock", "rearm") /\ lock' = Nobody
    /\ UNCHANGED <<oops, timer, list, live>>

CbRearm ==
    /\ CbGoto("rearm", "idle") /\ timer' = TRUE
    /\ UNCHANGED <<oops, list, live, lock>>

Callback == CbLock \/ CbFree \/ CbAdd \/ CbUnlock \/ CbRearm

(* A thread makes no step while the softirq has its CPU.                   *)
Runs(t) == cpu[t] = TimerCpu => cb = "idle"

TGoto(t, from, to) ==
    /\ step[t] = from /\ step' = [step EXCEPT ![t] = to]
    /\ UNCHANGED <<device, open, timer, cb, list, live, clobbered>>

(* spin_lock_bh: first no softirq, then the lock.                          *)
ShowList(t) ==
    /\ "nodelist" \in attrs
    /\ \E c \in Cpus : (c = TimerCpu => cb = "idle") /\ cpu' = [cpu EXCEPT ![t] = c]
    /\ TGoto(t, "out", "lock")
    /\ UNCHANGED <<oops, lock, cursor>>

SpinLock(t) ==
    /\ Runs(t) /\ lock = Nobody
    /\ TGoto(t, "lock", "walk")
    /\ lock' = t
    /\ \E n \in IF list = {} THEN {Nobody} ELSE list : cursor' = [cursor EXCEPT ![t] = n]
    /\ UNCHANGED <<oops, cpu>>

(* node->val is read.                                                      *)
Walk(t) ==
    /\ Runs(t) /\ TGoto(t, "walk", "unlock")
    /\ oops' = IF cursor[t] \in live \cup {Nobody} THEN <<>> ELSE <<"attr", "node">>
    /\ cursor' = [cursor EXCEPT ![t] = Nobody]
    /\ UNCHANGED <<lock, cpu>>

Unlock(t) ==
    /\ Runs(t) /\ TGoto(t, "unlock", "out")
    /\ lock' = Nobody /\ cpu' = [cpu EXCEPT ![t] = TimerCpu]
    /\ UNCHANGED <<oops, cursor>>

Call(t) == SpinLock(t) \/ Walk(t) \/ Unlock(t)

-----------------------------------------------------------------------------
(***************************************************************************)
(* The other attributes and the file operations are one access each; they  *)
(* change nothing here unless it goes wrong.                               *)
(***************************************************************************)
Access(who, x) ==
    /\ Uses(who, x)
    /\ UNCHANGED <<device, open, timer, cb, nodes, callers>>

(* random_store, duty_ns_store (pwm_config of an ERR_PTR), dma_show.       *)
UseAttr ==
    \/ "random" \in attrs /\ Access("attr", "regs")
    \/ "duty_ns" \in attrs /\ Access("attr", "pwm")
    \/ "dma" \in attrs /\ Access("attr", "dma")

Open(u) ==
    /\ "cdev" \in have /\ open' = open \cup {u}
    /\ UNCHANGED <<device, oops, timer, cb, nodes, callers>>

(* ian_read, ian_write, ian_ioctl, ian_mmap: first the struct, then what it*)
(* points to.                                                              *)
UseFile(u) ==
    /\ u \in open
    /\ \E x \in {"regs", "clk", "dma"} : Access("file", IF "mem" \in have THEN x ELSE "mem")

(* The kernel puts the cdev, which is inside struct ian_clk.               *)
Close(u) ==
    /\ u \in open /\ open' = open \ {u} /\ Uses("file", "mem")
    /\ UNCHANGED <<device, timer, cb, nodes, callers>>

(* clk_get(NULL, "ian_clk") of another driver finds the clk_hw through the *)
(* lookup.                                                                 *)
Consume == "lookup" \in have /\ Access("consumer", "hw")

Next ==
    /\ oops = <<>>
    /\ \/ Bind \/ Probe \/ Unchecked \/ Unbind \/ Remove
       \/ RunWork \/ RunThread
       \/ Expire \/ Callback
       \/ \E t \in Threads : ShowList(t) \/ Call(t)
       \/ UseAttr \/ Consume
       \/ \E u \in Users : Open(u) \/ UseFile(u) \/ Close(u)

(* Calls go on, a callback is short, list_lock serves its waiters in turn, *)
(* and timer_delete_sync finds the 100 ms in which the callback is not     *)
(* running.                                                                *)
Fairness ==
    /\ WF_vars(oops = <<>> /\ (Remove \/ RunWork \/ RunThread))
    /\ WF_vars(oops = <<>> /\ Callback)
    /\ SF_vars(oops = <<>> /\ TimerDeleteSync)
    /\ SF_vars(oops = <<>> /\ \E t \in Threads : Call(t))

Spec == Init /\ [][Next]_vars
FairSpec == Spec /\ Fairness

-----------------------------------------------------------------------------
TypeOK ==
    /\ epc \in Probing \cup Removing \cup {"unbound", "bound", "gone"}
    /\ have \subseteq Things /\ attrs \subseteq Attributes
    /\ thread \in {"none", "run", "failed", "done"}
    /\ work \in {"none", "queued", "done"}
    /\ open \subseteq Users /\ timer \in BOOLEAN
    /\ cb \in {"idle", "lock", "free", "add", "unlock", "rearm"}
    /\ list \subseteq live /\ live \subseteq Nodes
    /\ lock \in Threads \cup {TimerCpu, Nobody} /\ clobbered \in BOOLEAN
    /\ step \in [Threads -> {"out", "lock", "walk", "unlock"}]
    /\ cpu \in [Threads -> Cpus] /\ cursor \in [Threads -> Nodes \cup {Nobody}]

(* The stages with the registers mapped, with the device node, with the    *)
(* attribute nodelist and the list behind it.                              *)
Mapped == (Probing \ {"clk"}) \cup {"bound", "files"}
HasDev == (Probing \ {"clk", "regs", "timer"}) \cup {"bound", "files", "unmapped", "timer_gone",
                                                    "clk_gone", "freed"}
Listed == {"list", "lock", "thread", "buffers", "bound"}

Unregistered == {"clk_gone", "freed", "cancel", "wait_work", "stop", "wait_thread", "gone"}

(* Every access to something that is not there, and where it can happen:   *)
(*   - random_store before ioremap, dma_show before dma_alloc_coherent;    *)
(*   - duty_ns_store, dma_show and kthread_stop when pwm_get,              *)
(*     dma_alloc_coherent or kthread_run failed;                           *)
(*   - the callback when probe takes more than a second to come to the     *)
(*     list, and in remove between iounmap and timer_delete_sync;          *)
(*   - a file operation after remove has begun, or without a DMA buffer;   *)
(*   - another driver's clk_get after clk_unregister, through the lookup   *)
(*     that stays;                                                         *)
(*   - nodelist_show only if spin_lock_init has taken its lock away.       *)
(* Nowhere else.                                                           *)
OopsesAreKnown ==
    oops # <<>> =>
        \/ oops = <<"probe", "result">> /\ epc \in Probing
        \/ oops = <<"attr", "regs">> /\ epc = "clk"
        \/ oops = <<"attr", "dma">> /\ epc \in {"buffers", "bound", "files"}
        \/ oops = <<"attr", "pwm">> /\ epc \in Listed \cup {"work", "files"}
        \/ oops = <<"attr", "node">> /\ epc \in Listed \cup {"files"} /\ clobbered
        \/ oops = <<"timer", "list">> /\ epc \in {"timer", "cdev", "work"}
        \/ oops = <<"timer", "regs">> /\ epc = "unmapped"
        \/ oops = <<"remove", "thread">> /\ thread = "failed"
        \/ oops = <<"file", "dma">>
        \/ oops = <<"file", "regs">> /\ epc \in Removing
        \/ oops = <<"file", "clk">> /\ epc \in Removing
        \/ oops = <<"file", "mem">> /\ epc = "gone"
        \/ oops = <<"consumer", "hw">> /\ epc \in Unregistered

(* The list and its lock: one node at most beside one being replaced, the  *)
(* holder of the lock is inside, and the softirq never spins on a lock     *)
(* that its own CPU holds.                                                 *)
ListInv ==
    /\ TypeOK
    /\ Cardinality(live) <= 1
    /\ ~clobbered => \A t \in Threads : step[t] \in {"walk", "unlock"} => lock = t
    /\ cb # "idle" => ~BhOff(TimerCpu)
    /\ cb = "lock" => \A t \in Threads : lock = t => cpu[t] # TimerCpu

(* When remove has returned, the timer, the work and the thread are over   *)
(* and nobody is in an attribute or can come in, whatever raced with it.   *)
(* What stays is at most one node that nobody frees and the lookup of the  *)
(* clock, which points into freed memory: the only ones that can still run *)
(* into the driver are who has /dev/ian open and who asks for the clock.   *)
GoneIsQuiet ==
    epc = "gone" =>
        /\ ~timer /\ cb = "idle" /\ work = "done" /\ thread = "done"
        /\ \A t \in Threads : step[t] = "out"
        /\ have = {"lookup"} /\ attrs = {} /\ lock = Nobody
        /\ Cardinality(live) <= 1
        /\ oops # <<>> => oops[1] \in {"file", "consumer"}

(***************************************************************************)
(* The inductive invariant: what probe has made and published at each      *)
(* stage and remove taken back, when the timer, the work and the callers   *)
(* of nodelist_show can be there, and who may be at the list.              *)
(***************************************************************************)
Made ==
    /\ "mem" \in have <=> epc \notin {"unbound", "gone"}
    /\ "hw" \in have <=> epc \notin {"unbound"} \cup Unregistered
    /\ "lookup" \in have <=> epc # "unbound"
    /\ "regs" \in have <=> epc \in Mapped
    /\ "clk" \in have <=> epc \in Mapped \cup {"unmapped", "timer_gone"}
    /\ "cdev" \in have <=> epc \in HasDev
    /\ "list" \in have <=> epc \in Listed \cup Removing
    /\ "pwm" \in have => epc \in {"work", "files", "unmapped", "timer_gone"} \cup Listed
    /\ "dma" \in have => epc \in {"bound", "files", "unmapped", "timer_gone", "clk_gone"}
    /\ open # {} => epc \in HasDev \cup Removing \cup {"gone"}

Published ==
    /\ "random" \in attrs => epc \in Mapped \cup {"clk"}
    /\ "duty_ns" \in attrs => epc \in {"work", "files"} \cup Listed
    /\ "nodelist" \in attrs => epc \in Listed \cup {"files"}
    /\ "dma" \in attrs => epc \in {"buffers", "bound", "files"}

Running ==
    /\ timer \/ cb # "idle" => epc \in (Mapped \ {"regs"}) \cup {"unmapped"}
    /\ Inside => epc \in Listed \cup {"files"}
    /\ epc \in {"stop", "wait_thread", "gone"} => work = "done"
    /\ epc = "gone" => thread = "done"

(* Only spin_lock_init, called while somebody is at the list, lets two in. *)
AtList ==
    /\ list = live /\ (live = {} \/ \E n \in Nodes : live = {n})
    /\ cb = "add" => live = {}
    /\ cb # "idle" => ~BhOff(TimerCpu)
    /\ lock = TimerCpu => cb \in {"free", "add", "unlock"}
    /\ \A t \in Threads : lock = t => step[t] \in {"walk", "unlock"}
    /\ clobbered => epc \notin {"unbound", "clk", "regs", "timer", "cdev", "work", "list"}
    /\ ~clobbered =>
           /\ cb \in {"free", "add", "unlock"} => lock = TimerCpu
           /\ \A t \in Threads : step[t] \in {"walk", "unlock"} => lock = t
           /\ \A t \in Threads : step[t] = "walk" => cursor[t] \in list \cup {Nobody}

IInv == TypeOK /\ Made /\ Published /\ Running /\ AtList /\ OopsesAreKnown

(* remove returns.                                                         *)
RemoveReturns == epc = "files" ~> epc = "gone" \/ oops # <<>>
=============================================================================
