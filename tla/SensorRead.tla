------------------------------ MODULE SensorRead ------------------------------
(***************************************************************************)
(* Data plane of sensor_sample_todo.c: sample_work_fn puts samples into the*)
(* kfifo and wakes the readers; sensor_read, sensor_poll and SIGIO take    *)
(* them to user space; FLUSH and RESET_STATS interfere; sensor_remove sets *)
(* dying, waits for the work and wakes everybody.                          *)
(*                                                                         *)
(* A sample is its sequence number.  A section under fifo_lock is one step;*)
(* between sections everything interleaves.  wait_event_interruptible and  *)
(* the poll loop of the kernel are modelled down to the wait queue, because*)
(* whether a wakeup can be lost depends on their order.                    *)
(***************************************************************************)
EXTENDS Integers, Sequences

CONSTANTS
    Readers,       \* threads with the device open
    Nonblocking,   \* those whose file has O_NONBLOCK
    FifoSize,      \* FIFO_SIZE
    MaxSeq,        \* bound: samples taken in a behaviour
    Ioctls         \* the commands issued, of "flush" and "reset"

ASSUME ReaderAssumption == Nonblocking \subseteq Readers
ASSUME IoctlAssumption  == Ioctls \subseteq {"flush", "reset"}
ASSUME SizeAssumption   == FifoSize \in Nat \ {0} /\ MaxSeq \in Nat

VARIABLES
    fifo,          \* dev->fifo
    seq,           \* dev->seq
    data,          \* data.seq of sample_work_fn
    wpc,           \* where sample_work_fn is
    sampleCount,   \* dev->sample_count
    dropCount,     \* dev->drop_count
    dying,         \* dev->dying
    rpc,           \* where sensor_remove is
    waiting,       \* threads on dev->read_wq nobody has woken yet
    async,         \* dev->async_queue
    sigio,         \* threads with a SIGIO pending (a signal does not count)
    pc,            \* pc[r]: where r is in read or poll, "user" outside
    buf,           \* buf[r]: the sample r took from the kfifo
    newest,        \* history: the youngest sample kfifo_out has handed out, -1 for none
    cpc            \* where FLUSH_FIFO or RESET_STATS is

workVars == <<seq, data, wpc>>
counters == <<sampleCount, dropCount>>
waitVars == <<waiting, async, sigio>>
readVars == <<pc, buf, newest>>
remVars  == <<dying, rpc>>
vars == <<fifo, workVars, counters, waitVars, readVars, remVars, cpc>>

Seqs == 0 .. MaxSeq - 1

ReadPoints == {"try", "empty", "fast", "fast_dying", "prepare", "test",
               "test_dying", "sleep", "copy"}
PollPoints == {"poll", "mask", "mask_in", "mask_none", "poll_sleep"}

TypeOK ==
    /\ fifo \in Seq(Seqs) /\ Len(fifo) <= FifoSize
    /\ seq \in 0 .. MaxSeq
    /\ data \in Seqs \cup {-1}
    /\ wpc \in {"idle", "fetch", "count", "put", "drop", "wake", "fasync"}
    /\ sampleCount \in 0 .. MaxSeq /\ dropCount \in 0 .. MaxSeq
    /\ dying \in BOOLEAN
    /\ rpc \in {"bound", "cancel", "wake", "hup", "done"}
    /\ waiting \subseteq Readers
    /\ async \subseteq Readers /\ sigio \subseteq Readers
    /\ pc \in [Readers -> {"user"} \cup ReadPoints \cup PollPoints]
    /\ buf \in [Readers -> Seqs \cup {-1}]
    /\ newest \in Seqs \cup {-1}
    /\ cpc \in {"idle", "flush", "reset", "reset_drops"}

Init ==
    /\ fifo = << >>
    /\ seq = 0 /\ data = -1 /\ wpc = "idle"
    /\ sampleCount = 0 /\ dropCount = 0
    /\ dying = FALSE /\ rpc = "bound"
    /\ waiting = {} /\ async = {} /\ sigio = {}
    /\ pc = [r \in Readers |-> "user"]
    /\ buf = [r \in Readers |-> -1]
    /\ newest = -1
    /\ cpc = "idle"

(***************************************************************************)
(* Kernel services.                                                        *)
(***************************************************************************)
WakeUp     == waiting' = {}                     \* wake_up_interruptible(&read_wq)
KillFasync == sigio' = sigio \cup async         \* kill_fasync(&async_queue, ..)

(***************************************************************************)
(* sample_work_fn.  Starting, stopping and pacing it is the control plane's*)
(* affair (SensorCtl); here it may run any time until it is cancelled.     *)
(***************************************************************************)
WGoto(from, to) == wpc = from /\ wpc' = to /\ UNCHANGED <<readVars, remVars, cpc>>

WorkStart ==
    /\ rpc \in {"bound", "cancel"} /\ seq < MaxSeq
    /\ WGoto("idle", "fetch")
    /\ UNCHANGED <<fifo, seq, data, counters, waitVars>>

NextSeq == seq + 1

WorkFetch ==
    /\ WGoto("fetch", "count")
    /\ data' = seq /\ seq' = NextSeq
    /\ UNCHANGED <<fifo, counters, waitVars>>

WorkCount ==
    /\ WGoto("count", "put")
    /\ sampleCount' = sampleCount + 1
    /\ UNCHANGED <<fifo, seq, data, dropCount, waitVars>>

FifoHasRoom_OffByOne == Len(fifo) <= FifoSize    \* mutant
FifoHasRoom == Len(fifo) < FifoSize

FifoIn_DropOldest == Append(IF FifoHasRoom THEN fifo ELSE Tail(fifo), data)    \* mutant
FifoIn == IF FifoHasRoom THEN Append(fifo, data) ELSE fifo

WorkPut ==
    /\ WGoto("put", IF FifoHasRoom THEN "wake" ELSE "drop")
    /\ fifo' = FifoIn
    /\ UNCHANGED <<seq, data, counters, waitVars>>

WorkDrop_Silent ==    \* mutant: drop_count is not incremented
    WGoto("drop", "idle") /\ UNCHANGED <<fifo, seq, data, counters, waitVars>>

WorkDrop ==
    /\ WGoto("drop", "idle")
    /\ dropCount' = dropCount + 1
    /\ UNCHANGED <<fifo, seq, data, sampleCount, waitVars>>

WorkWake_Nobody ==    \* mutant: no wake_up after kfifo_in
    WGoto("wake", "fasync") /\ UNCHANGED <<fifo, seq, data, counters, waitVars>>

WorkWake ==
    /\ WGoto("wake", "fasync")
    /\ WakeUp
    /\ UNCHANGED <<fifo, seq, data, counters, async, sigio>>

WorkFasync ==
    /\ WGoto("fasync", "idle")
    /\ KillFasync
    /\ UNCHANGED <<fifo, seq, data, counters, waiting, async>>

WorkRuns == WorkFetch \/ WorkCount \/ WorkPut \/ WorkDrop \/ WorkWake \/ WorkFasync

(***************************************************************************)
(* sensor_read.                                                            *)
(***************************************************************************)
Goto(r, from, to) == pc[r] = from /\ pc' = [pc EXCEPT ![r] = to]

(* A step of r that changes nothing but where r is, and one that besides   *)
(* puts it on the wait queue or takes it off.                              *)
QStep(r, from, to, queue) ==
    /\ Goto(r, from, to)
    /\ waiting' = queue
    /\ UNCHANGED <<fifo, workVars, counters, async, sigio, buf, newest, remVars, cpc>>

Step(r, from, to) == QStep(r, from, to, waiting)

ReadCall(r) == Step(r, "user", "try")

Rest == Tail(fifo)

(* kfifo_out under fifo_lock. *)
TryTake(r) ==
    /\ fifo # << >>
    /\ Goto(r, "try", "copy")
    /\ buf' = [buf EXCEPT ![r] = Head(fifo)] /\ newest' = Head(fifo)
    /\ fifo' = Rest
    /\ UNCHANGED <<workVars, counters, waitVars, remVars, cpc>>

TryEmpty(r) == fifo = << >> /\ Step(r, "try", "empty")

(* Nothing taken: dying ends the read, O_NONBLOCK ends it, or it waits. *)
ReturnEnodev(r) == dying /\ Step(r, "empty", "user")
ReturnEagain(r) == ~dying /\ r \in Nonblocking /\ Step(r, "empty", "user")
WaitEvent(r)    == ~dying /\ r \notin Nonblocking /\ Step(r, "empty", "fast")

(* wait_event_interruptible: the condition is sensor_fifo_has_data || dying, *)
(* read once before the thread is queued and once after.                   *)
HasData == fifo # << >>

StopWaiting_Never == FALSE    \* mutant: the condition without dying
StopWaiting == dying

FastTest(r)  == Step(r, "fast", IF HasData THEN "try" ELSE "fast_dying")
FastDying(r) == Step(r, "fast_dying", IF StopWaiting THEN "try" ELSE "prepare")

Prepare_NoRetest(r) == QStep(r, "prepare", "sleep", waiting \cup {r})    \* mutant
Prepare(r) == QStep(r, "prepare", "test", waiting \cup {r})

Test(r) ==
    \/ HasData  /\ QStep(r, "test", "try", waiting \ {r})
    \/ ~HasData /\ Step(r, "test", "test_dying")

TestDying(r) ==
    \/ StopWaiting  /\ QStep(r, "test_dying", "try", waiting \ {r})
    \/ ~StopWaiting /\ Step(r, "test_dying", "sleep")

(* Woken, or found woken before it slept: queue again and test again. *)
Woken(r) == r \notin waiting /\ Step(r, "sleep", "prepare")

(* A signal, Ctrl-C say, ends the sleep: -ERESTARTSYS. *)
Signalled(r) == QStep(r, "sleep", "user", waiting \ {r})

(* copy_to_user succeeds, or faults and the sample is lost: one step of the*)
(* model, for the driver forgets the sample either way.                    *)
Copy(r) ==
    /\ Goto(r, "copy", "user")
    /\ buf' = [buf EXCEPT ![r] = -1]
    /\ UNCHANGED <<fifo, workVars, counters, waitVars, newest, remVars, cpc>>

ReadRuns(r) ==
    \/ TryTake(r) \/ TryEmpty(r) \/ ReturnEnodev(r) \/ ReturnEagain(r) \/ WaitEvent(r)
    \/ FastTest(r) \/ FastDying(r) \/ Prepare(r) \/ Test(r) \/ TestDying(r) \/ Woken(r)
    \/ Copy(r)

(***************************************************************************)
(* poll(2) on the device: sensor_poll inside the loop of the kernel.       *)
(***************************************************************************)
PollCall(r) == Step(r, "user", "poll")

(* poll_wait queues the thread before anything is tested. *)
PollWait(r) == QStep(r, "poll", "mask", waiting \cup {r})

PollMaskIn(r) == Step(r, "mask", IF HasData THEN "mask_in" ELSE "mask_none")

(* The second test; poll returns as soon as the mask has a bit. *)
Hangup == IF dying THEN {"HUP"} ELSE {}
PollMask(r) == (IF pc[r] = "mask_in" THEN {"IN"} ELSE {}) \cup Hangup

PollReturn(r) ==
    /\ PollMask(r) # {}
    /\ \E from \in {"mask_in", "mask_none"} : QStep(r, from, "user", waiting \ {r})

PollSleep(r) == PollMask(r) = {} /\ Step(r, "mask_none", "poll_sleep")

(* The entry stays queued and triggered is reset before the next look. *)
PollWoken(r) == r \notin waiting /\ QStep(r, "poll_sleep", "mask", waiting \cup {r})

PollTimeout(r) == QStep(r, "poll_sleep", "user", waiting \ {r})

PollRuns(r) == PollWait(r) \/ PollMaskIn(r) \/ PollReturn(r) \/ PollSleep(r) \/ PollWoken(r)

(***************************************************************************)
(* sensor_fasync, called by fcntl(O_ASYNC), and the signal it asks for.    *)
(***************************************************************************)
Fasync(r) ==
    /\ pc[r] = "user"
    /\ async' \in {async \cup {r}, async \ {r}}
    /\ UNCHANGED <<fifo, workVars, counters, waiting, sigio, readVars, remVars, cpc>>

SigioDelivered(r) ==
    /\ pc[r] = "user" /\ r \in sigio
    /\ sigio' = sigio \ {r}
    /\ UNCHANGED <<fifo, workVars, counters, waiting, async, readVars, remVars, cpc>>

(***************************************************************************)
(* FLUSH_FIFO, and RESET_STATS with its two separate stores.               *)
(***************************************************************************)
CGoto(from, to) == cpc = from /\ cpc' = to /\ UNCHANGED <<workVars, waitVars, readVars, remVars>>

IoctlCall == /\ ~dying
             /\ \E cmd \in Ioctls : CGoto("idle", cmd)
             /\ UNCHANGED <<fifo, counters>>

Flush == /\ CGoto("flush", "idle")
         /\ fifo' = << >> /\ UNCHANGED counters

ResetSamples == /\ CGoto("reset", "reset_drops")
                /\ sampleCount' = 0 /\ UNCHANGED <<fifo, dropCount>>

Cleared == 0

ResetDrops == /\ CGoto("reset_drops", "idle")
              /\ dropCount' = Cleared /\ UNCHANGED <<fifo, sampleCount>>

IoctlRuns == Flush \/ ResetSamples \/ ResetDrops

(***************************************************************************)
(* sensor_remove, as far as the data plane sees it.                        *)
(***************************************************************************)
RGoto(from, to) ==
    rpc = from /\ rpc' = to /\ UNCHANGED <<fifo, workVars, counters, async, readVars, cpc>>

RemoveMark ==
    /\ RGoto("bound", "cancel")
    /\ dying' = TRUE /\ UNCHANGED <<waiting, sigio>>

(* cancel_work_sync returns: the work neither runs nor ever runs again. *)
RemoveCancelled ==
    /\ wpc = "idle"
    /\ RGoto("cancel", "wake")
    /\ UNCHANGED <<dying, waiting, sigio>>

RemoveWake == RGoto("wake", "hup") /\ WakeUp /\ UNCHANGED <<dying, sigio>>

RemoveHup == RGoto("hup", "done") /\ KillFasync /\ UNCHANGED <<dying, waiting>>

RemoveRuns == RemoveCancelled \/ RemoveWake \/ RemoveHup

Next ==
    \/ WorkStart \/ WorkRuns
    \/ \E r \in Readers : ReadCall(r) \/ ReadRuns(r) \/ Signalled(r)
    \/ \E r \in Nonblocking : \/ PollCall(r) \/ PollRuns(r) \/ PollTimeout(r)
                              \/ Fasync(r) \/ SigioDelivered(r)
    \/ IoctlCall \/ IoctlRuns
    \/ RemoveMark \/ RemoveRuns

Spec == Init /\ [][Next]_vars

(***************************************************************************)
(* Properties.                                                             *)
(***************************************************************************)
Asleep(r) == pc[r] \in {"sleep", "poll_sleep"} /\ r \in waiting

(* No lost wakeup: nobody sleeps while there is a sample, unless the work  *)
(* that put it there is about to wake them (waiter queues, then tests; work*)
(* puts, then wakes).                                                      *)
NoLostWakeup == \A r \in Readers : Asleep(r) /\ HasData => wpc = "wake"

(* No lost hangup: nobody sleeps on a dying device past its last wakeup.   *)
NoLostHangup == \A r \in Readers : Asleep(r) /\ dying => rpc \in {"cancel", "wake"}

(* Where a sample can be before it is delivered or lost. *)
AtWork     == IF wpc \in {"count", "put", "drop"} THEN {data} ELSE {}
InFifo     == {fifo[i] : i \in DOMAIN fifo}
AtReader(r) == IF pc[r] = "copy" THEN {buf[r]} ELSE {}
InSystem   == AtWork \cup InFifo \cup UNION {AtReader(r) : r \in Readers}

(* Samples are kept in the order in which they were taken, and no two      *)
(* readers hold the same one.                                              *)
InOrder ==
    /\ \A i, j \in DOMAIN fifo : i < j => fifo[i] < fifo[j]
    /\ \A r, s \in Readers : r # s => AtReader(r) \cap AtReader(s) = {}

(* Whoever takes a sample gets one younger than all that anybody got before:*)
(* nothing is delivered twice, and each reader sees increasing numbers.    *)
Younger == [][\A r \in Readers : TryTake(r) => buf'[r] > newest]_vars

(* A sample that was taken goes nowhere silently: it is handed to a reader *)
(* (or its reader is told EFAULT), counted as dropped, or flushed.         *)
NoSilentLoss ==
    [][\A x \in InSystem \ InSystem' :
          \/ \E r \in Readers : x = buf[r] /\ Copy(r)
          \/ x = data /\ dropCount' = dropCount + 1
          \/ x \in InFifo /\ cpc = "flush"]_vars

(* The two stores of RESET_STATS and the two increments of the work are not*)
(* one step.  All that can be read between resets is one drop too many.    *)
DropsWithinSamples == cpc # "reset_drops" => dropCount <= sampleCount + 1

(***************************************************************************)
(* The inductive invariant behind these.                                   *)
(***************************************************************************)
DyingSince == dying <=> rpc # "bound"
WorkBusy   == wpc # "idle" => rpc \in {"bound", "cancel"}

(* Who has queued and then seen no sample, or no hangup, was right when it *)
(* looked; whoever falsifies that afterwards is about to wake it.          *)
SawNoData == \A r \in Readers :
    r \in waiting /\ pc[r] \in {"test_dying", "sleep", "mask_none", "poll_sleep"} /\ HasData
        => wpc = "wake"

Numbered ==
    /\ wpc = "fetch" => seq < MaxSeq
    /\ wpc \in {"count", "put", "drop"} => data = seq - 1
    /\ wpc \notin {"idle", "fetch"} => data \in Seqs

Counted ==
    /\ sampleCount <= IF wpc = "count" THEN seq - 1 ELSE seq
    /\ dropCount <= IF wpc \in {"count", "put", "drop"} THEN seq - 1 ELSE seq
    /\ cpc # "reset_drops" =>
           dropCount <= IF wpc \in {"put", "drop"} THEN sampleCount ELSE sampleCount + 1

Ordered ==
    /\ \A i, j \in DOMAIN fifo : i < j => fifo[i] < fifo[j]
    /\ \A i \in DOMAIN fifo : newest < fifo[i] /\ fifo[i] < seq
    /\ wpc \in {"count", "put"} => \A i \in DOMAIN fifo : fifo[i] < seq - 1
    /\ newest < IF wpc \in {"count", "put"} THEN seq - 1 ELSE seq
    /\ \A r \in Readers : pc[r] = "copy" => buf[r] <= newest
    /\ \A r, s \in Readers : r # s /\ pc[r] = "copy" /\ pc[s] = "copy" => buf[r] # buf[s]
    /\ \A r \in Readers : pc[r] # "copy" => buf[r] = -1

IInv == /\ TypeOK /\ DyingSince /\ WorkBusy /\ SawNoData /\ NoLostHangup
        /\ Numbered /\ Counted /\ Ordered

(***************************************************************************)
(* Refinement: the queue of module SampleQueue.  A sample is in the queue  *)
(* from kfifo_in on; a number is used up when kfifo_in has been tried.     *)
(***************************************************************************)
CallState(r) == IF pc[r] \in {"user"} \cup PollPoints THEN "out"
                ELSE IF pc[r] = "try"  THEN "in"
                ELSE IF pc[r] = "copy" THEN "got"
                ELSE "empty"

Queue == INSTANCE SampleQueue WITH
            Clients <- Readers, Capacity <- FifoSize, queue <- fifo,
            next <- IF wpc \in {"count", "put"} THEN data ELSE seq,
            call <- [r \in Readers |-> CallState(r)], item <- buf
QueueSpec == Queue!Spec
=============================================================================
