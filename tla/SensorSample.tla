----------------------------- MODULE SensorSample ----------------------------
(***************************************************************************)
(* sensor_sample.c, the first version of the sensor driver: an hrtimer that*)
(* queues a work item, the work that puts a sample into a kfifo of bytes   *)
(* and wakes the readers, sensor_read, and the module's exit, which has no *)
(* `dying' and no reference count: the open file holds the module instead. *)
(*                                                                         *)
(* Byte k of sample n is <<n, k>>.  kfifo_in and kfifo_out are called with *)
(* length 1 on a struct kfifo, whose unit is the byte.                     *)
(***************************************************************************)
EXTENDS Integers, Sequences

CONSTANTS
    Readers,       \* threads that open the device
    Nonblocking,   \* those that open it with O_NONBLOCK
    FifoSize,      \* FIFO_SIZE
    SampleBytes,   \* sizeof(struct sample_data)
    MaxSeq         \* bound: samples taken in a behaviour

VARIABLES
    timer,         \* sample_timer is enqueued
    tpc,           \* where sample_timer_cb is
    pending,       \* sample_work is queued
    wpc,           \* where sample_work_fn is
    seq,           \* dev->seq
    fifo,          \* dev->fifo
    drop_count,
    running,       \* dev->running
    epc,           \* where sensor_init or sensor_exit is
    waiting,       \* threads on read_wq nobody has woken yet
    pc,            \* where each thread is; "closed" without the file
    buf            \* the bytes kfifo_out gave it

sampler == <<timer, tpc, pending, wpc, seq, drop_count>>
readers == <<waiting, pc, buf>>
vars == <<sampler, fifo, running, epc, readers>>

Init ==
    /\ timer = FALSE /\ tpc = "idle"
    /\ pending = FALSE /\ wpc = "idle"
    /\ seq = 0 /\ drop_count = 0 /\ fifo = << >>
    /\ running = FALSE /\ epc = "init"
    /\ waiting = {}
    /\ pc = [r \in Readers |-> "closed"] /\ buf = [r \in Readers |-> << >>]

-----------------------------------------------------------------------------
(***************************************************************************)
(* sample_timer_cb and sample_work_fn.  Bound: MaxSeq samples; then the    *)
(* work is queued no more.                                                 *)
(***************************************************************************)
Expire ==
    /\ timer /\ tpc = "idle"
    /\ timer' = FALSE /\ tpc' = "test"
    /\ UNCHANGED <<pending, wpc, seq, drop_count, fifo, running, epc, readers>>

(* HRTIMER_RESTART enqueues the timer once more when the callback ends.    *)
Callback ==
    /\ \/ tpc = "test" /\ running /\ tpc' = "sched" /\ UNCHANGED <<timer, pending>>
       \/ tpc = "test" /\ ~running /\ tpc' = "idle" /\ UNCHANGED <<timer, pending>>
       \/ tpc = "sched" /\ tpc' = "restart" /\ pending' = (seq < MaxSeq) /\ UNCHANGED timer
       \/ tpc = "restart" /\ tpc' = "idle" /\ timer' = TRUE /\ UNCHANGED pending
    /\ UNCHANGED <<wpc, seq, drop_count, fifo, running, epc, readers>>

WGoto(from, to) ==
    /\ wpc = from /\ wpc' = to
    /\ UNCHANGED <<timer, tpc, running, epc, pc, buf>>

WorkStart ==
    /\ pending /\ WGoto("idle", "put")
    /\ pending' = FALSE /\ seq' = seq + 1
    /\ UNCHANGED <<drop_count, fifo, waiting>>

InLen_Whole == SampleBytes    \* mutant: only kfifo_in gets the right length
InLen  == 1
OutLen == 1
Capacity == FifoSize * SampleBytes
Smaller(m, n) == IF m < n THEN m ELSE n
Room == Capacity - Len(fifo)
Bytes(n) == [k \in 1 .. SampleBytes |-> <<n, k>>]

(* kfifo_in puts in what there is room for and says how much.              *)
WorkPut ==
    LET n == Smaller(InLen, Room)
    IN  /\ WGoto("put", IF n = 0 THEN "drop" ELSE "wake")
        /\ fifo' = fifo \o SubSeq(Bytes(seq - 1), 1, n)
        /\ UNCHANGED <<pending, seq, drop_count, waiting>>

WorkDrop ==
    /\ WGoto("drop", "idle") /\ drop_count' = drop_count + 1
    /\ UNCHANGED <<pending, seq, fifo, waiting>>

WorkWake ==
    /\ WGoto("wake", "idle") /\ waiting' = {}
    /\ UNCHANGED <<pending, seq, drop_count, fifo>>

Work == WorkStart \/ WorkPut \/ WorkDrop \/ WorkWake

-----------------------------------------------------------------------------
(***************************************************************************)
(* sensor_open, sensor_read, sensor_release.                               *)
(***************************************************************************)
Step(r, from, to, queue) ==
    /\ pc[r] = from /\ pc' = [pc EXCEPT ![r] = to]
    /\ waiting' = queue
    /\ UNCHANGED <<sampler, running, epc>>

Plain(r, from, to, queue) == Step(r, from, to, queue) /\ UNCHANGED <<fifo, buf>>

(* device_create makes the device reachable before the timer is set up; the*)
(* exit starts when nobody has it open, and then nobody can open it.       *)
Open(r)  == epc \in {"node", "loaded"} /\ Plain(r, "closed", "user", waiting)
Close(r) == Plain(r, "user", "closed", waiting)

ReadCall(r) == Plain(r, "user", "check", waiting)

Check(r) ==
    Plain(r, "check", IF fifo # << >> THEN "out"
                      ELSE IF r \in Nonblocking THEN "eagain" ELSE "prepare", waiting)

Eagain(r) == Plain(r, "eagain", "user", waiting)

(* wait_event_interruptible.                                               *)
Prepare(r) == Plain(r, "prepare", "test", waiting \cup {r})

Test(r) ==
    \/ fifo # << >> /\ Plain(r, "test", "out", waiting \ {r})
    \/ fifo = << >> /\ Plain(r, "test", "sleep", waiting)

Woken(r)     == r \notin waiting /\ Plain(r, "sleep", "prepare", waiting)
Signalled(r) == Plain(r, "sleep", "user", waiting \ {r})

(* kfifo_out under fifo_lock; nothing: somebody else was first, return 0.  *)
Out(r) ==
    LET n == Smaller(OutLen, Len(fifo))
    IN  /\ Step(r, "out", IF n = 0 THEN "none" ELSE "copy", waiting)
        /\ buf' = [buf EXCEPT ![r] = SubSeq(fifo, 1, n)]
        /\ fifo' = SubSeq(fifo, n + 1, Len(fifo))

None(r) == Plain(r, "none", "user", waiting)

(* copy_to_user of the whole record.                                       *)
Copy(r) ==
    /\ Step(r, "copy", "user", waiting)
    /\ buf' = [buf EXCEPT ![r] = << >>]
    /\ UNCHANGED fifo

Read(r) ==
    \/ Check(r) \/ Eagain(r) \/ Prepare(r) \/ Test(r) \/ Woken(r)
    \/ Out(r) \/ None(r) \/ Copy(r)

-----------------------------------------------------------------------------
(***************************************************************************)
(* sensor_init and sensor_exit.                                            *)
(***************************************************************************)
EGoto(from, to) ==
    epc = from /\ epc' = to /\ UNCHANGED <<tpc, wpc, seq, drop_count, fifo, readers>>

(* Any allocation or registration may fail, but none after device_create.  *)
MakeNode ==
    /\ EGoto("init", "node") \/ EGoto("init", "failed")
    /\ UNCHANGED <<timer, pending, running>>

StartTimer ==
    /\ EGoto("node", "loaded") /\ running' = TRUE /\ timer' = TRUE
    /\ UNCHANGED pending

Unload ==
    /\ \A r \in Readers : pc[r] = "closed"
    /\ EGoto("loaded", "cancel") /\ running' = FALSE
    /\ UNCHANGED <<timer, pending>>

CallbackDone == tpc = "idle"

(* hrtimer_cancel: waits for the callback, then takes the timer off.       *)
HrtimerCancel ==
    /\ CallbackDone
    /\ EGoto("cancel", "work") /\ timer' = FALSE
    /\ UNCHANGED <<pending, running>>

CancelWork ==
    /\ wpc = "idle"
    /\ EGoto("work", "free") /\ pending' = FALSE
    /\ UNCHANGED <<timer, running>>

(* wake_up_interruptible, the device, kfifo_free, kfree.                   *)
Free == EGoto("free", "freed") /\ UNCHANGED <<timer, pending, running>>

Exit == HrtimerCancel \/ CancelWork \/ Free

Next ==
    \/ Expire \/ Callback \/ Work
    \/ \E r \in Readers : Open(r) \/ Close(r) \/ ReadCall(r) \/ Read(r) \/ Signalled(r)
    \/ MakeNode \/ StartTimer \/ Unload \/ Exit

Spec == Init /\ [][Next]_vars

(* The callback and the work end; rmmod, once begun, goes on.              *)
Fairness == WF_vars(Callback) /\ WF_vars(Work) /\ WF_vars(Exit)

-----------------------------------------------------------------------------
(* Nobody sleeps while there is something in the kfifo, unless the work    *)
(* that put it there is about to wake them.                                *)
NoLostWakeup ==
    \A r \in Readers : pc[r] = "sleep" /\ r \in waiting /\ fifo # << >> => wpc = "wake"

(* When the memory goes the timer and the work are quiet for good.         *)
FreedIsQuiet ==
    epc = "freed" => /\ ~timer /\ tpc = "idle" /\ ~pending /\ wpc = "idle"
                     /\ \A r \in Readers : pc[r] = "closed"

(* The inductive invariant: the exit leaves behind what it waited for, and *)
(* a reader has one byte in its hands or none.                             *)
Points == {"closed", "user", "check", "eagain", "prepare", "test", "sleep", "out", "none", "copy"}

TypeOK ==
    /\ timer \in BOOLEAN /\ pending \in BOOLEAN /\ running \in BOOLEAN
    /\ tpc \in {"idle", "test", "sched", "restart"} /\ wpc \in {"idle", "put", "drop", "wake"}
    /\ seq \in Nat
    /\ fifo \in Seq(Int \X Int) /\ Len(fifo) <= Capacity
    /\ epc \in {"init", "failed", "node", "loaded", "cancel", "work", "free", "freed"}
    /\ waiting \subseteq Readers /\ pc \in [Readers -> Points]

Orderly ==
    /\ TypeOK /\ NoLostWakeup
    /\ epc \in {"init", "failed", "cancel", "work", "free", "freed"} =>
           \A r \in Readers : pc[r] = "closed"
    /\ epc \in {"init", "failed", "node", "work", "free", "freed"} => ~timer /\ tpc = "idle"
    /\ epc \in {"init", "failed", "node", "free", "freed"} => ~pending /\ wpc = "idle"

Held ==
    /\ buf \in [Readers -> Seq(Int \X Int)]
    /\ \A r \in Readers : Len(buf[r]) = IF pc[r] = "copy" THEN 1 ELSE 0

IInv == Orderly /\ Held

(* Every number reaches at most one reader, in order, though of a sample   *)
(* only the first byte does: the kfifo implements the queue of module      *)
(* SampleQueue, for as many samples as it has bytes.                       *)
Number(b)  == b[1]
Numbers(q) == [i \in DOMAIN q |-> Number(q[i])]
Got(r)     == IF buf[r] = << >> THEN -1 ELSE Number(buf[r][1])
CallState(r) == CASE pc[r] \in {"closed", "user"}  -> "out"
                  [] pc[r] \in {"check", "out"}    -> "in"
                  [] pc[r] = "copy"                -> "got"
                  [] OTHER                         -> "empty"

Queue == INSTANCE SampleQueue WITH
            Clients <- Readers, Capacity <- Capacity,
            queue <- Numbers(fifo),
            next <- IF wpc = "put" THEN seq - 1 ELSE seq,
            call <- [r \in Readers |-> CallState(r)],
            item <- [r \in Readers |-> Got(r)]
QueueSpec == Queue!Spec

(* rmmod returns.                                                          *)
ExitReturns == epc = "cancel" ~> epc = "freed"

(* read returns the sample that was put in: `放一个 sample_data'.           *)
ReadIsWhole ==
    \A r \in Readers : pc[r] = "copy" => \E n \in 0 .. MaxSeq - 1 : buf[r] = Bytes(n)
=============================================================================
