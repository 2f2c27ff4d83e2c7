--------------------------- MODULE Buffers_proofs ----------------------------
(***************************************************************************)
(* The two kfifos.  sensor_sample.c: no wake-up is lost, the exit leaves   *)
(* nothing behind, and the driver implements the queue of SampleQueue, for *)
(* any readers, size and number of samples.  fifo_demo.c: what is popped is*)
(* what was pushed, in order, for any processes and size and through every *)
(* wrap-around of the indices.                                             *)
(***************************************************************************)
EXTENDS Demos, Sequences, SequenceTheorems, TLAPS

(* A behaviour of the board is one of sensor_sample.c, or leaves it alone. *)
LEMMA SampleRun ==
  /\ Init => Smp!Init
  /\ [Next]_vars => [Smp!Next]_(Smp!vars)
BY DEF Init, Next, Runs, vars, smpVars, Smp!vars, Smp!sampler, Smp!readers

(* The first state: nothing runs and nobody has the device open.           *)
LEMMA SampleInit == Smp!Init => Smp!Orderly
<1> SUFFICES ASSUME Smp!Init PROVE Smp!Orderly
  OBVIOUS
<1>1. Smp!Capacity \in Nat \ {0}
  BY SampleAssumption DEF Smp!Capacity
<1>2. fifo = << >> /\ Len(fifo) = 0 /\ fifo \in Seq(Int \X Int)
  BY DEF Smp!Init
<1>3. /\ smp_timer \in BOOLEAN /\ ~smp_timer /\ smp_pending \in BOOLEAN /\ ~smp_pending
      /\ running \in BOOLEAN
  BY DEF Smp!Init
<1>4. smp_pc = [r \in Readers |-> "closed"] /\ waiting = {}
      /\ tpc = "idle" /\ smp_wpc = "idle" /\ smp_epc = "init" /\ smp_seq = 0
  BY DEF Smp!Init
<1>5. QED BY <1>1, <1>2, <1>3, <1>4 DEF Smp!Orderly, Smp!TypeOK, Smp!NoLostWakeup, Smp!Points

(* sample_timer_cb: only a callback that has found `running' queues work.  *)
LEMMA TimerStep ==
  ASSUME Smp!Orderly, Smp!Expire \/ Smp!Callback
  PROVE  Smp!Orderly'
<1>1. CASE Smp!Expire
  <2>1. /\ smp_timer /\ tpc = "idle" /\ smp_timer' = FALSE /\ tpc' = "test"
        /\ UNCHANGED <<smp_pending, smp_wpc, smp_seq, fifo, running, smp_epc, waiting, smp_pc>>
    BY <1>1 DEF Smp!Expire, Smp!readers
  <2>2. Smp!TypeOK' /\ Smp!NoLostWakeup'
    BY <2>1 DEF Smp!Orderly, Smp!TypeOK, Smp!NoLostWakeup
  <2>3. smp_epc \in {"loaded", "cancel"}
    BY <2>1 DEF Smp!Orderly, Smp!TypeOK
  <2>4. QED BY <2>1, <2>2, <2>3 DEF Smp!Orderly
<1>2. CASE Smp!Callback
  <2>1. /\ smp_pending' \in BOOLEAN /\ smp_timer' \in BOOLEAN
        /\ tpc' \in {"idle", "test", "sched", "restart"}
        /\ tpc # "idle"
        /\ UNCHANGED <<smp_wpc, smp_seq, fifo, running, smp_epc, waiting, smp_pc>>
    <3>1. smp_pending \in BOOLEAN /\ smp_timer \in BOOLEAN
      BY DEF Smp!Orderly, Smp!TypeOK
    <3>2. smp_pending' \in BOOLEAN /\ smp_timer' \in BOOLEAN
      <4>1. (smp_seq < MaxSeq) \in BOOLEAN
        OBVIOUS
      <4>2. \/ UNCHANGED <<smp_timer, smp_pending>>
            \/ smp_pending' = (smp_seq < MaxSeq) /\ UNCHANGED smp_timer
            \/ smp_timer' = TRUE /\ UNCHANGED smp_pending
        BY <1>2, Zenon DEF Smp!Callback
      <4>3. QED BY <3>1, <4>1, <4>2, Zenon
    <3>3. tpc' \in {"idle", "test", "sched", "restart"} /\ tpc # "idle"
      BY <1>2 DEF Smp!Callback
    <3>4. QED BY <1>2, <3>2, <3>3 DEF Smp!Callback, Smp!readers
  <2>2. Smp!TypeOK' /\ Smp!NoLostWakeup'
    BY <2>1 DEF Smp!Orderly, Smp!TypeOK, Smp!NoLostWakeup
  <2>3. smp_epc \in {"loaded", "cancel"}
    BY <2>1 DEF Smp!Orderly, Smp!TypeOK
  <2>4. QED BY <2>1, <2>2, <2>3 DEF Smp!Orderly
<1>3. QED BY <1>1, <1>2

(* What kfifo_in and kfifo_out move is the lesser of what is asked for and *)
(* what there is.                                                          *)
LEMMA SmallerIsLeast ==
  ASSUME NEW m \in Int, NEW k \in Int
  PROVE  Smp!Smaller(m, k) \in {m, k} /\ Smp!Smaller(m, k) <= m /\ Smp!Smaller(m, k) <= k
BY DEF Smp!Smaller

(* sensor_open, sensor_read, sensor_release: who goes to sleep has found   *)
(* the kfifo empty after it had put itself on read_wq.                     *)
LEMMA ReaderStep ==
  ASSUME Smp!Orderly, NEW r \in Readers,
         \/ Smp!Open(r) \/ Smp!Close(r) \/ Smp!ReadCall(r) \/ Smp!Read(r) \/ Smp!Signalled(r)
  PROVE  Smp!Orderly'
<1> DEFINE Moves(from, to) ==
             /\ smp_pc[r] = from /\ smp_pc' = [smp_pc EXCEPT ![r] = to]
             /\ UNCHANGED <<smp_timer, tpc, smp_pending, smp_wpc, smp_seq, running, smp_epc>>
<1>1. ASSUME NEW from \in Smp!Points, NEW to \in Smp!Points, Moves(from, to),
             from # "closed" \/ smp_epc \in {"node", "loaded"},
             waiting' \subseteq waiting \cup {r},
             fifo' \in Seq(Int \X Int), Len(fifo') <= Len(fifo),
             to # "sleep" \/ fifo' = << >>
      PROVE  Smp!Orderly'
  <2>1. \A x \in Readers \ {r} : smp_pc'[x] = smp_pc[x] /\ (x \in waiting' => x \in waiting)
    BY <1>1 DEF Smp!Orderly, Smp!TypeOK
  <2>2. smp_pc'[r] = to /\ smp_pc' \in [Readers -> Smp!Points]
    BY <1>1 DEF Smp!Orderly, Smp!TypeOK
  <2>3. fifo = << >> => fifo' = << >>
    BY <1>1 DEF Smp!Orderly, Smp!TypeOK
  <2>4. Smp!NoLostWakeup'
    BY <1>1, <2>1, <2>2, <2>3 DEF Smp!Orderly, Smp!NoLostWakeup
  <2>5. smp_epc \in {"node", "loaded"}
    BY <1>1 DEF Smp!Orderly, Smp!TypeOK
  <2>6. Smp!TypeOK'
    <3>1. Len(fifo') <= Smp!Capacity
      BY <1>1, SampleAssumption DEF Smp!Orderly, Smp!TypeOK, Smp!Capacity
    <3>2. QED BY <1>1, <2>2, <3>1 DEF Smp!Orderly, Smp!TypeOK
  <2>7. QED BY <1>1, <2>4, <2>5, <2>6 DEF Smp!Orderly
<1>2. CASE Smp!Out(r)
  <2> DEFINE n == Smp!Smaller(Smp!OutLen, Len(fifo))
  <2>1. n \in {0, 1} /\ n <= Len(fifo) /\ fifo \in Seq(Int \X Int)
    <3>1. fifo \in Seq(Int \X Int)
      BY DEF Smp!Orderly, Smp!TypeOK
    <3>2. Len(fifo) \in Nat
      BY <3>1
    <3>3. n \in {1, Len(fifo)} /\ n <= 1 /\ n <= Len(fifo)
      BY <3>2, SmallerIsLeast DEF Smp!OutLen
    <3>4. QED BY <3>1, <3>2, <3>3
  <2>2. fifo' = SubSeq(fifo, n + 1, Len(fifo)) /\ waiting' = waiting
    BY <1>2 DEF Smp!Out, Smp!Step
  <2>3. fifo' \in Seq(Int \X Int) /\ Len(fifo') <= Len(fifo)
    BY <2>1, <2>2
  <2>4. Moves("out", IF n = 0 THEN "none" ELSE "copy")
    BY <1>2 DEF Smp!Out, Smp!Step, Smp!sampler
  <2>5. "out" \in Smp!Points /\ (IF n = 0 THEN "none" ELSE "copy") \in Smp!Points \ {"sleep"}
    BY DEF Smp!Points
  <2>6. QED BY <1>1, <2>2, <2>3, <2>4, <2>5
<1>3. CASE ~Smp!Out(r)
  <2>1. PICK from \in Smp!Points, to \in Smp!Points :
            /\ Moves(from, to) /\ fifo' = fifo /\ waiting' \subseteq waiting \cup {r}
            /\ from # "closed" \/ smp_epc \in {"node", "loaded"}
            /\ to # "sleep" \/ fifo = << >>
    <3> USE DEF Smp!Plain, Smp!Step, Smp!Points, Smp!sampler
    <3>1. CASE Smp!Open(r) \/ Smp!Close(r) \/ Smp!ReadCall(r) \/ Smp!Signalled(r)
      BY <3>1 DEF Smp!Open, Smp!Close, Smp!ReadCall, Smp!Signalled
    <3>2. CASE Smp!Check(r) \/ Smp!Eagain(r) \/ Smp!Prepare(r)
      BY <3>2 DEF Smp!Check, Smp!Eagain, Smp!Prepare
    <3>3. CASE Smp!Test(r) \/ Smp!Woken(r)
      BY <3>3 DEF Smp!Test, Smp!Woken
    <3>4. CASE Smp!None(r) \/ Smp!Copy(r)
      BY <3>4 DEF Smp!None, Smp!Copy
    <3>5. QED BY <1>3, <3>1, <3>2, <3>3, <3>4 DEF Smp!Read
  <2>2. fifo' \in Seq(Int \X Int) /\ Len(fifo') <= Len(fifo)
    BY <2>1 DEF Smp!Orderly, Smp!TypeOK
  <2>3. QED BY <1>1, <2>1, <2>2
<1>4. QED BY <1>2, <1>3

(* sample_work_fn: what goes into the kfifo is followed by a wake-up, and  *)
(* it finds no room only when the kfifo is not empty.                      *)
LEMMA WorkStep ==
  ASSUME Smp!Orderly, Smp!Work
  PROVE  Smp!Orderly'
<1>1. smp_pc' = smp_pc /\ UNCHANGED <<smp_timer, tpc, running, smp_epc>>
  BY DEF Smp!Work, Smp!WorkStart, Smp!WorkPut, Smp!WorkDrop, Smp!WorkWake, Smp!WGoto
<1>2. smp_epc \in {"loaded", "cancel", "work"}
  BY DEF Smp!Work, Smp!WorkStart, Smp!WorkPut, Smp!WorkDrop, Smp!WorkWake, Smp!WGoto,
         Smp!Orderly, Smp!TypeOK
<1>3. SUFFICES Smp!TypeOK' /\ Smp!NoLostWakeup'
  BY <1>1, <1>2 DEF Smp!Orderly
<1>4. CASE Smp!WorkStart
  <2>1. /\ smp_pending' = FALSE /\ smp_wpc = "idle" /\ smp_wpc' = "put"
        /\ smp_seq' = smp_seq + 1 /\ UNCHANGED <<fifo, waiting>>
    BY <1>4 DEF Smp!WorkStart, Smp!WGoto
  <2>2. Smp!TypeOK'
    <3>1. smp_pending' \in BOOLEAN
      BY <2>1
    <3>2. smp_seq' \in Nat /\ smp_wpc' \in {"idle", "put", "drop", "wake"}
      BY <2>1 DEF Smp!Orderly, Smp!TypeOK
    <3>3. QED BY <1>1, <2>1, <3>1, <3>2 DEF Smp!Orderly, Smp!TypeOK, Smp!Capacity
  <2>3. Smp!NoLostWakeup'
    BY <1>1, <2>1 DEF Smp!Orderly, Smp!NoLostWakeup
  <2>4. QED BY <2>2, <2>3
<1>5. CASE Smp!WorkPut
  <2> DEFINE n == Smp!Smaller(Smp!InLen, Smp!Room)
             b == SubSeq(Smp!Bytes(smp_seq - 1), 1, n)
  <2>0. Smp!Capacity \in Nat \ {0}
    BY SampleAssumption DEF Smp!Capacity
  <2>1. fifo \in Seq(Int \X Int) /\ Len(fifo) \in Nat /\ Len(fifo) <= Smp!Capacity
    BY DEF Smp!Orderly, Smp!TypeOK
  <2>2. /\ n \in {0, 1} /\ Len(fifo) + n <= Smp!Capacity
        /\ n = 0 => Len(fifo) # 0
    BY <2>0, <2>1 DEF Smp!Smaller, Smp!InLen, Smp!Room
  <2>3. /\ smp_wpc = "put" /\ smp_wpc' = (IF n = 0 THEN "drop" ELSE "wake")
        /\ fifo' = fifo \o b /\ UNCHANGED <<smp_pending, smp_seq, waiting>>
    BY <1>5 DEF Smp!WorkPut, Smp!WGoto
  <2>4. b \in Seq(Int \X Int) /\ Len(b) = n
    <3>1. Smp!Bytes(smp_seq - 1) \in Seq(Int \X Int) /\ Len(Smp!Bytes(smp_seq - 1)) = SampleBytes
      BY SampleAssumption DEF Smp!Bytes, Smp!Orderly, Smp!TypeOK
    <3>2. QED BY <2>2, <3>1, SampleAssumption
  <2>5. fifo' \in Seq(Int \X Int) /\ Len(fifo') = Len(fifo) + n
    BY <2>1, <2>3, <2>4
  <2>6. Smp!TypeOK'
    BY <1>1, <2>2, <2>3, <2>5 DEF Smp!Orderly, Smp!TypeOK, Smp!Capacity
  <2>7. Smp!NoLostWakeup'
    <3>1. CASE n = 0
      <4>1. fifo # << >>
        BY <2>2, <3>1
      <4>2. QED BY <1>1, <2>3, <4>1 DEF Smp!Orderly, Smp!NoLostWakeup
    <3>2. CASE n # 0
      BY <2>3, <3>2 DEF Smp!NoLostWakeup
    <3>3. QED BY <3>1, <3>2
  <2>8. QED BY <2>6, <2>7
<1>6. CASE Smp!WorkDrop
  <2>1. smp_wpc = "drop" /\ smp_wpc' = "idle" /\ UNCHANGED <<smp_pending, smp_seq, fifo, waiting>>
    BY <1>6 DEF Smp!WorkDrop, Smp!WGoto
  <2>2. QED BY <1>1, <2>1 DEF Smp!Orderly, Smp!TypeOK, Smp!NoLostWakeup
<1>7. CASE Smp!WorkWake
  <2>1. smp_wpc' = "idle" /\ waiting' = {} /\ UNCHANGED <<smp_pending, smp_seq, fifo>>
    BY <1>7 DEF Smp!WorkWake, Smp!WGoto
  <2>2. QED BY <1>1, <2>1 DEF Smp!Orderly, Smp!TypeOK, Smp!NoLostWakeup
<1>8. QED BY <1>4, <1>5, <1>6, <1>7 DEF Smp!Work

(* sensor_init and sensor_exit: the module goes when nobody has the device *)
(* open, hrtimer_cancel leaves no timer and no callback to queue work, and *)
(* cancel_work_sync then leaves no work.                                   *)
LEMMA SampleLoadStep ==
  ASSUME Smp!Orderly, Smp!MakeNode \/ Smp!StartTimer \/ Smp!Unload \/ Smp!Exit
  PROVE  Smp!Orderly'
<1>1. UNCHANGED <<tpc, smp_wpc, smp_seq, fifo, waiting, smp_pc>>
  BY DEF Smp!MakeNode, Smp!StartTimer, Smp!Unload, Smp!Exit, Smp!HrtimerCancel,
         Smp!CancelWork, Smp!Free, Smp!EGoto, Smp!readers
<1>2. Smp!NoLostWakeup'
  BY <1>1 DEF Smp!Orderly, Smp!NoLostWakeup
<1>3. smp_timer \in BOOLEAN /\ smp_pending \in BOOLEAN /\ running \in BOOLEAN
  BY DEF Smp!Orderly, Smp!TypeOK
<1>4. SUFFICES
        /\ smp_timer' \in BOOLEAN /\ smp_pending' \in BOOLEAN /\ running' \in BOOLEAN
        /\ smp_epc' \in {"init", "failed", "node", "loaded", "cancel", "work", "free", "freed"}
        /\ smp_epc' \in {"init", "failed", "cancel", "work", "free", "freed"} =>
               \A r \in Readers : smp_pc[r] = "closed"
        /\ smp_epc' \in {"init", "failed", "node", "work", "free", "freed"} =>
               ~smp_timer' /\ tpc = "idle"
        /\ smp_epc' \in {"init", "failed", "node", "free", "freed"} =>
               ~smp_pending' /\ smp_wpc = "idle"
  <2>1. Smp!TypeOK'
    BY <1>1, <1>4 DEF Smp!Orderly, Smp!TypeOK, Smp!Capacity
  <2>2. QED BY <1>1, <1>2, <1>4, <2>1 DEF Smp!Orderly
<1> USE DEF Smp!Orderly, Smp!EGoto
<1>5. CASE Smp!MakeNode
  BY <1>3, <1>5 DEF Smp!MakeNode
<1>6. CASE Smp!StartTimer
  BY <1>3, <1>6 DEF Smp!StartTimer
<1>7. CASE Smp!Unload
  BY <1>3, <1>7 DEF Smp!Unload
<1>8. CASE Smp!HrtimerCancel
  BY <1>3, <1>8 DEF Smp!HrtimerCancel, Smp!CallbackDone
<1>9. CASE Smp!CancelWork
  BY <1>3, <1>9 DEF Smp!CancelWork
<1>10. CASE Smp!Free
  BY <1>3, <1>10 DEF Smp!Free
<1>11. QED BY <1>5, <1>6, <1>7, <1>8, <1>9, <1>10 DEF Smp!Exit

(* What a sequence begins with.                                            *)
LEMMA FirstAlone ==
  ASSUME NEW S, NEW q \in Seq(S), Len(q) >= 1
  PROVE  SubSeq(q, 1, 1) = << q[1] >>
<1>1. \A k \in 1 .. 1 : q[k] \in S
  OBVIOUS
<1>2. /\ SubSeq(q, 1, 1) \in Seq(S) /\ Len(SubSeq(q, 1, 1)) = 1
      /\ SubSeq(q, 1, 1)[1] = q[1]
  BY <1>1, SubSeqProperties
<1>3. << q[1] >> \in Seq(S) /\ Len(<< q[1] >>) = 1 /\ << q[1] >>[1] = q[1]
  BY <1>1
<1>4. \A k \in 1 .. Len(SubSeq(q, 1, 1)) : SubSeq(q, 1, 1)[k] = << q[1] >>[k]
  BY <1>2, <1>3
<1>5. Len(SubSeq(q, 1, 1)) = Len(<< q[1] >>)
  BY <1>2, <1>3
<1>6. QED BY <1>2, <1>3, <1>4, <1>5, SeqEqual

(* kfifo_out takes the oldest byte, or finds none.                         *)
LEMMA OutTakes ==
  ASSUME Smp!Orderly, NEW r \in Readers, Smp!Out(r)
  PROVE  /\ smp_pc[r] = "out"
         /\ \/ /\ fifo = << >> /\ fifo' = fifo
               /\ smp_pc' = [smp_pc EXCEPT ![r] = "none"]
               /\ smp_buf' = [smp_buf EXCEPT ![r] = << >>]
            \/ /\ fifo # << >> /\ fifo' = Tail(fifo)
               /\ smp_pc' = [smp_pc EXCEPT ![r] = "copy"]
               /\ smp_buf' = [smp_buf EXCEPT ![r] = << Head(fifo) >>]
<1> DEFINE n == Smp!Smaller(Smp!OutLen, Len(fifo))
<1>1. fifo \in Seq(Int \X Int) /\ Len(fifo) \in Nat
  BY DEF Smp!Orderly, Smp!TypeOK
<1>2. /\ smp_pc[r] = "out" /\ smp_pc' = [smp_pc EXCEPT ![r] = IF n = 0 THEN "none" ELSE "copy"]
      /\ smp_buf' = [smp_buf EXCEPT ![r] = SubSeq(fifo, 1, n)]
      /\ fifo' = SubSeq(fifo, n + 1, Len(fifo))
  BY DEF Smp!Out, Smp!Step
<1>3. n = IF fifo = << >> THEN 0 ELSE 1
  <2>1. Len(fifo) = 0 <=> fifo = << >>
    BY <1>1
  <2>2. QED BY <1>1, <2>1 DEF Smp!Smaller, Smp!OutLen
<1> HIDE DEF n
<1>4. CASE fifo = << >>
  <2>1. /\ (IF n = 0 THEN "none" ELSE "copy") = "none"
        /\ SubSeq(fifo, 1, n) = << >> /\ SubSeq(fifo, n + 1, Len(fifo)) = fifo
    BY <1>3, <1>4
  <2>2. /\ smp_pc' = [smp_pc EXCEPT ![r] = "none"]
        /\ smp_buf' = [smp_buf EXCEPT ![r] = << >>]
        /\ fifo' = fifo
    BY <1>2, <2>1, Zenon
  <2>3. QED BY <1>2, <1>4, <2>2
<1>5. CASE fifo # << >>
  <2>1. n = 1 /\ Len(fifo) >= 1
    BY <1>1, <1>3, <1>5
  <2>2. SubSeq(fifo, 1, 1) = << fifo[1] >> /\ Head(fifo) = fifo[1]
    BY <1>1, <2>1, FirstAlone
  <2>3. SubSeq(fifo, 2, Len(fifo)) = Tail(fifo)
    BY <1>1, <1>5, TailIsSubSeq
  <2>4. /\ (IF n = 0 THEN "none" ELSE "copy") = "copy"
        /\ SubSeq(fifo, 1, n) = << Head(fifo) >> /\ SubSeq(fifo, n + 1, Len(fifo)) = Tail(fifo)
    BY <2>1, <2>2, <2>3
  <2>5. /\ smp_pc' = [smp_pc EXCEPT ![r] = "copy"]
        /\ smp_buf' = [smp_buf EXCEPT ![r] = << Head(fifo) >>]
        /\ fifo' = Tail(fifo)
    BY <1>2, <2>4, Zenon
  <2>6. QED BY <1>2, <1>5, <2>5
<1>6. QED BY <1>4, <1>5

(* kfifo_in puts in the first byte of the sample, or finds no room.        *)
LEMMA PutAppends ==
  ASSUME Smp!Orderly, Smp!WorkPut
  PROVE  /\ smp_wpc = "put" /\ smp_wpc' # "put"
         /\ fifo' = IF Len(fifo) < Smp!Capacity THEN Append(fifo, <<smp_seq - 1, 1>>) ELSE fifo
<1> DEFINE n == Smp!Smaller(Smp!InLen, Smp!Room)
           b == Smp!Bytes(smp_seq - 1)
<1>1. fifo \in Seq(Int \X Int) /\ Len(fifo) \in Nat /\ Len(fifo) <= Smp!Capacity
  BY DEF Smp!Orderly, Smp!TypeOK
<1>2. Smp!Capacity \in Nat
  BY SampleAssumption DEF Smp!Capacity
<1>3. /\ smp_wpc = "put" /\ smp_wpc' = (IF n = 0 THEN "drop" ELSE "wake")
      /\ fifo' = fifo \o SubSeq(b, 1, n)
  BY DEF Smp!WorkPut, Smp!WGoto
<1>4. n = IF Len(fifo) < Smp!Capacity THEN 1 ELSE 0
  BY <1>1, <1>2 DEF Smp!Smaller, Smp!InLen, Smp!Room
<1>5. b \in Seq(Int \X Int) /\ Len(b) = SampleBytes /\ b[1] = <<smp_seq - 1, 1>>
  BY SampleAssumption DEF Smp!Bytes, Smp!Orderly, Smp!TypeOK
<1>6. SubSeq(b, 1, 0) = << >> /\ SubSeq(b, 1, 1) = << b[1] >>
  BY <1>5, SampleAssumption, FirstAlone
<1>7. fifo \o << >> = fifo /\ fifo \o << b[1] >> = Append(fifo, b[1])
  BY <1>1, <1>5
<1>8. QED BY <1>3, <1>4, <1>5, <1>6, <1>7

(* A reader has one byte in its hands between kfifo_out and copy_to_user.  *)
LEMMA HeldStep ==
  ASSUME Smp!Orderly, Smp!Held, Smp!Next
  PROVE  Smp!Held'
<1>1. CASE UNCHANGED <<smp_pc, smp_buf>>
  BY <1>1 DEF Smp!Held
<1>2. ASSUME NEW r \in Readers, NEW to \in Smp!Points, NEW b \in Seq(Int \X Int),
             smp_pc' = [smp_pc EXCEPT ![r] = to], smp_buf' = [smp_buf EXCEPT ![r] = b],
             \/ to = "copy" /\ Len(b) = 1
             \/ to # "copy" /\ Len(b) = 0
      PROVE  Smp!Held'
  BY <1>2 DEF Smp!Held, Smp!Orderly, Smp!TypeOK
<1>3. /\ << >> \in Seq(Int \X Int) /\ Len(<< >>) = 0
      /\ "user" \in Smp!Points /\ "none" \in Smp!Points /\ "copy" \in Smp!Points
      /\ "user" # "copy" /\ "none" # "copy"
  BY DEF Smp!Points
<1>4. ASSUME NEW r \in Readers, Smp!Out(r)
      PROVE  Smp!Held'
  <2>1. CASE fifo = << >>
    <3>1. smp_pc' = [smp_pc EXCEPT ![r] = "none"] /\ smp_buf' = [smp_buf EXCEPT ![r] = << >>]
      BY <1>4, <2>1, OutTakes
    <3>2. QED BY <1>2, <1>3, <3>1, Zenon
  <2>2. CASE fifo # << >>
    <3>1. << Head(fifo) >> \in Seq(Int \X Int) /\ Len(<< Head(fifo) >>) = 1
      BY <2>2 DEF Smp!Orderly, Smp!TypeOK
    <3>2. /\ smp_pc' = [smp_pc EXCEPT ![r] = "copy"]
          /\ smp_buf' = [smp_buf EXCEPT ![r] = << Head(fifo) >>]
      BY <1>4, <2>2, OutTakes
    <3>3. QED BY <1>2, <1>3, <3>1, <3>2, Zenon
  <2>3. QED BY <2>1, <2>2
<1>5. ASSUME NEW r \in Readers, Smp!Copy(r)
      PROVE  Smp!Held'
  <2>1. smp_pc' = [smp_pc EXCEPT ![r] = "user"] /\ smp_buf' = [smp_buf EXCEPT ![r] = << >>]
    BY <1>5 DEF Smp!Copy, Smp!Step
  <2>2. QED BY <1>2, <1>3, <2>1, Zenon
<1>6. ASSUME NEW r \in Readers, NEW from \in Smp!Points, NEW to \in Smp!Points, NEW w,
             Smp!Plain(r, from, to, w), from # "copy", to # "copy"
      PROVE  Smp!Held'
  <2>1. smp_pc' = [smp_pc EXCEPT ![r] = to] /\ smp_pc[r] # "copy" /\ smp_buf' = smp_buf
    BY <1>6 DEF Smp!Plain, Smp!Step
  <2>2. QED BY <1>6, <2>1 DEF Smp!Held, Smp!Orderly, Smp!TypeOK
<1>7. ASSUME NEW r \in Readers,
             \/ Smp!Open(r) \/ Smp!Close(r) \/ Smp!ReadCall(r) \/ Smp!Signalled(r)
             \/ Smp!Check(r) \/ Smp!Eagain(r) \/ Smp!Prepare(r) \/ Smp!Test(r) \/ Smp!Woken(r)
             \/ Smp!None(r)
      PROVE  Smp!Held'
  <2>1. PICK from \in Smp!Points, to \in Smp!Points :
            from # "copy" /\ to # "copy" /\ \E w : Smp!Plain(r, from, to, w)
    <3> USE DEF Smp!Points
    <3>1. CASE Smp!Open(r) \/ Smp!Close(r) \/ Smp!ReadCall(r) \/ Smp!Signalled(r)
      BY <3>1, Zenon DEF Smp!Open, Smp!Close, Smp!ReadCall, Smp!Signalled
    <3>2. CASE Smp!Check(r) \/ Smp!Eagain(r) \/ Smp!Prepare(r)
      BY <3>2 DEF Smp!Check, Smp!Eagain, Smp!Prepare
    <3>3. CASE Smp!Test(r) \/ Smp!Woken(r) \/ Smp!None(r)
      BY <3>3 DEF Smp!Test, Smp!Woken, Smp!None
    <3>4. QED BY <1>7, <3>1, <3>2, <3>3
  <2>2. QED BY <1>6, <2>1
<1>8. CASE Smp!Expire \/ Smp!Callback \/ Smp!Work \/ Smp!MakeNode \/ Smp!StartTimer
           \/ Smp!Unload \/ Smp!Exit
  BY <1>1, <1>8 DEF Smp!Expire, Smp!Callback, Smp!Work, Smp!WorkStart, Smp!WorkPut, Smp!WorkDrop,
     Smp!WorkWake, Smp!WGoto, Smp!MakeNode, Smp!StartTimer, Smp!Unload, Smp!Exit,
     Smp!HrtimerCancel, Smp!CancelWork, Smp!Free, Smp!EGoto, Smp!readers
<1>9. QED BY <1>4, <1>5, <1>7, <1>8 DEF Smp!Next, Smp!Read

(* sensor_sample.c: no reader sleeps on data nobody will tell it of, and   *)
(* when the memory is freed the timer, the work and the readers are gone   *)
(* (sample_work_fn, sensor_read, sensor_exit).                             *)
THEOREM FirstDriverInvariance == Spec => [](Smp!IInv /\ Smp!FreedIsQuiet)
<1>1. Smp!Init => Smp!IInv
  <2>1. Smp!Init => Smp!Held
    BY DEF Smp!Init, Smp!Held
  <2>2. QED BY <2>1, SampleInit DEF Smp!IInv
<1>2. ASSUME Smp!IInv, Smp!Next PROVE Smp!IInv'
  <2>1. Smp!Orderly'
    BY <1>2, TimerStep, WorkStep, ReaderStep, SampleLoadStep DEF Smp!IInv, Smp!Next
  <2>2. QED BY <1>2, <2>1, HeldStep DEF Smp!IInv
<1>3. ASSUME Smp!IInv, UNCHANGED Smp!vars PROVE Smp!IInv'
  BY <1>3 DEF Smp!vars, Smp!sampler, Smp!readers, Smp!IInv, Smp!Orderly, Smp!TypeOK,
              Smp!NoLostWakeup, Smp!Capacity, Smp!Held
<1>4. Smp!IInv => Smp!FreedIsQuiet
  BY DEF Smp!IInv, Smp!Orderly, Smp!FreedIsQuiet
<1>5. QED BY SampleRun, <1>1, <1>2, <1>3, <1>4, PTL DEF Spec

-----------------------------------------------------------------------------
(* The numbers in a kfifo: one per byte, oldest first.                     *)
LEMMA NumbersOf ==
  ASSUME NEW q \in Seq(Int \X Int)
  PROVE  /\ Smp!Numbers(q) \in Seq(Int) /\ Len(Smp!Numbers(q)) = Len(q)
         /\ \A k \in 1 .. Len(q) : Smp!Numbers(q)[k] = q[k][1]
BY DEF Smp!Numbers, Smp!Number

(* What kfifo_in appends is numbered last.                                 *)
LEMMA NumbersAppend ==
  ASSUME NEW q \in Seq(Int \X Int), NEW x \in Int \X Int
  PROVE  Smp!Numbers(Append(q, x)) = Append(Smp!Numbers(q), x[1])
<1> DEFINE s == Smp!Numbers(Append(q, x))
           t == Append(Smp!Numbers(q), x[1])
<1>1. Append(q, x) \in Seq(Int \X Int) /\ Len(Append(q, x)) = Len(q) + 1 /\ x[1] \in Int
  OBVIOUS
<1>2. s \in Seq(Int) /\ Len(s) = Len(q) + 1
      /\ \A k \in 1 .. Len(q) + 1 : s[k] = Append(q, x)[k][1]
  BY <1>1, NumbersOf
<1>3. t \in Seq(Int) /\ Len(t) = Len(q) + 1
  BY <1>1, NumbersOf
<1>4. \A k \in 1 .. Len(s) : s[k] = t[k]
  <2>1. ASSUME NEW k \in 1 .. Len(q)
        PROVE  Append(q, x)[k] = q[k] /\ t[k] = q[k][1]
    BY <1>1, NumbersOf
  <2>2. Append(q, x)[Len(q) + 1] = x /\ t[Len(q) + 1] = x[1]
    BY <1>1, NumbersOf
  <2>3. \A k \in 1 .. Len(q) + 1 : k \in 1 .. Len(q) \/ k = Len(q) + 1
    OBVIOUS
  <2>4. ASSUME NEW k \in 1 .. Len(q) PROVE s[k] = t[k]
    <3>1. k \in 1 .. Len(q) + 1
      OBVIOUS
    <3>2. s[k] = Append(q, x)[k][1]
      BY <1>2, <3>1
    <3>3. QED BY <2>1, <3>2
  <2>5. s[Len(q) + 1] = t[Len(q) + 1]
    BY <1>2, <2>2
  <2> HIDE DEF s, t
  <2>6. QED BY <1>2, <2>3, <2>4, <2>5
<1>5. QED BY <1>2, <1>3, <1>4, SeqEqual

(* What kfifo_out takes was numbered first.                                *)
LEMMA NumbersTail ==
  ASSUME NEW q \in Seq(Int \X Int), q # << >>
  PROVE  /\ Smp!Numbers(q) # << >> /\ Head(Smp!Numbers(q)) = Head(q)[1]
         /\ Smp!Numbers(Tail(q)) = Tail(Smp!Numbers(q))
<1> DEFINE s == Smp!Numbers(Tail(q))
           t == Tail(Smp!Numbers(q))
<1>1. Len(q) \in Nat \ {0} /\ Tail(q) \in Seq(Int \X Int) /\ Len(Tail(q)) = Len(q) - 1
  OBVIOUS
<1>2. Smp!Numbers(q) # << >> /\ Head(Smp!Numbers(q)) = Head(q)[1]
  BY <1>1, NumbersOf
<1>3. s \in Seq(Int) /\ Len(s) = Len(q) - 1
      /\ \A k \in 1 .. Len(q) - 1 : s[k] = Tail(q)[k][1]
  BY <1>1, NumbersOf
<1>4. t \in Seq(Int) /\ Len(t) = Len(q) - 1
      /\ \A k \in 1 .. Len(q) - 1 : t[k] = Smp!Numbers(q)[k + 1]
  BY <1>1, <1>2, NumbersOf, HeadTailProperties
<1>5. \A k \in 1 .. Len(s) : s[k] = t[k]
  <2>1. ASSUME NEW k \in 1 .. Len(q) - 1
        PROVE  Tail(q)[k] = q[k + 1] /\ Smp!Numbers(q)[k + 1] = q[k + 1][1]
    BY <1>1, NumbersOf
  <2>2. QED BY <1>3, <1>4, <2>1
<1>6. QED BY <1>2, <1>3, <1>4, <1>5, SeqEqual

(* A thread that moves changes its own call and no other.                  *)
LEMMA SampleCallMoves ==
  ASSUME Smp!Orderly, NEW r \in Readers, NEW to, smp_pc' = [smp_pc EXCEPT ![r] = to]
  PROVE  /\ smp_pc'[r] = to
         /\ [s \in Readers |-> Smp!CallState(s)]' =
               [[s \in Readers |-> Smp!CallState(s)] EXCEPT ![r] = Smp!CallState(r)']
<1>1. smp_pc'[r] = to /\ \A s \in Readers : s # r => smp_pc'[s] = smp_pc[s]
  BY DEF Smp!Orderly, Smp!TypeOK
<1>2. \A s \in Readers : s # r => Smp!CallState(s)' = Smp!CallState(s)
  BY <1>1 DEF Smp!CallState
<1>3. QED BY <1>1, <1>2

(* It changes what it holds itself and nothing else.                       *)
LEMMA SampleItemMoves ==
  ASSUME Smp!Held, NEW r \in Readers, NEW b, smp_buf' = [smp_buf EXCEPT ![r] = b]
  PROVE  /\ smp_buf'[r] = b
         /\ [s \in Readers |-> Smp!Got(s)]' =
               [[s \in Readers |-> Smp!Got(s)] EXCEPT ![r] = Smp!Got(r)']
<1>1. smp_buf'[r] = b /\ \A s \in Readers : s # r => smp_buf'[s] = smp_buf[s]
  BY DEF Smp!Held
<1>2. \A s \in Readers : s # r => Smp!Got(s)' = Smp!Got(s)
  BY <1>1 DEF Smp!Got
<1>3. QED BY <1>1, <1>2

(* The work takes a sample in one step, kfifo_in.                          *)
LEMMA SampleWorkStep ==
  ASSUME Smp!Orderly, Smp!Work
  PROVE  [Smp!Queue!Next]_(Smp!Queue!vars)
<1>1. UNCHANGED <<[s \in Readers |-> Smp!CallState(s)], [s \in Readers |-> Smp!Got(s)]>>
  BY DEF Smp!Work, Smp!WorkStart, Smp!WorkPut, Smp!WorkDrop, Smp!WorkWake, Smp!WGoto,
         Smp!CallState, Smp!Got
<1>2. smp_seq \in Nat /\ fifo \in Seq(Int \X Int)
  BY DEF Smp!Orderly, Smp!TypeOK
<1>3. CASE Smp!WorkPut
  <2>1. /\ smp_wpc = "put" /\ smp_wpc' # "put" /\ smp_seq' = smp_seq
        /\ fifo' = IF Len(fifo) < Smp!Capacity THEN Append(fifo, <<smp_seq - 1, 1>>) ELSE fifo
    BY <1>3, PutAppends DEF Smp!WorkPut
  <2>2. Smp!Numbers(Append(fifo, <<smp_seq - 1, 1>>)) = Append(Smp!Numbers(fifo), smp_seq - 1)
    <3>1. <<smp_seq - 1, 1>> \in Int \X Int /\ <<smp_seq - 1, 1>>[1] = smp_seq - 1
      BY <1>2
    <3>2. Smp!Numbers(Append(fifo, <<smp_seq - 1, 1>>)) =
             Append(Smp!Numbers(fifo), <<smp_seq - 1, 1>>[1])
      BY <1>2, <3>1, NumbersAppend, Zenon
    <3>3. QED BY <3>1, <3>2
  <2>3. Smp!Numbers(fifo)' = IF Len(Smp!Numbers(fifo)) < Smp!Capacity
                             THEN Append(Smp!Numbers(fifo), smp_seq - 1) ELSE Smp!Numbers(fifo)
    <3>1. Len(Smp!Numbers(fifo)) = Len(fifo)
      BY <1>2, NumbersOf
    <3>2. CASE Len(fifo) < Smp!Capacity
      <4>1. fifo' = Append(fifo, <<smp_seq - 1, 1>>)
        BY <2>1, <3>2
      <4>2. Smp!Numbers(fifo)' = Smp!Numbers(Append(fifo, <<smp_seq - 1, 1>>))
        BY <4>1 DEF Smp!Numbers
      <4>3. QED BY <2>2, <3>1, <3>2, <4>2
    <3>3. CASE ~(Len(fifo) < Smp!Capacity)
      BY <2>1, <3>1, <3>3 DEF Smp!Numbers
    <3>4. QED BY <3>2, <3>3
  <2>4. (IF smp_wpc = "put" THEN smp_seq - 1 ELSE smp_seq) = smp_seq - 1
        /\ (IF smp_wpc' = "put" THEN smp_seq' - 1 ELSE smp_seq') = (smp_seq - 1) + 1
    BY <1>2, <2>1
  <2>5. Smp!Queue!Sample
    BY <1>1, <2>3, <2>4 DEF Smp!Queue!Sample
  <2>6. QED BY <2>5 DEF Smp!Queue!Next
<1>4. CASE Smp!WorkStart \/ Smp!WorkDrop \/ Smp!WorkWake
  <2>1. fifo' = fifo
        /\ (IF smp_wpc' = "put" THEN smp_seq' - 1 ELSE smp_seq') =
           (IF smp_wpc = "put" THEN smp_seq - 1 ELSE smp_seq)
    BY <1>2, <1>4 DEF Smp!WorkStart, Smp!WorkDrop, Smp!WorkWake, Smp!WGoto
  <2>2. Smp!Numbers(fifo)' = Smp!Numbers(fifo)
    BY <2>1 DEF Smp!Numbers
  <2>3. QED BY <1>1, <2>1, <2>2 DEF Smp!Queue!vars
<1>5. QED BY <1>3, <1>4 DEF Smp!Work

(* A step of a reader outside the kfifo is a step of its call.             *)
LEMMA SamplePlainStep ==
  ASSUME Smp!IInv, Smp!IInv', NEW r \in Readers, NEW from, NEW to, NEW w, Smp!Plain(r, from, to, w)
  PROVE  /\ UNCHANGED <<fifo, Smp!Numbers(fifo), smp_wpc, smp_seq, [s \in Readers |-> Smp!Got(s)]>>
         /\ smp_pc[r] = from /\ smp_pc'[r] = to
         /\ from # "copy" => Smp!Got(r) = -1
         /\ [s \in Readers |-> Smp!CallState(s)]' =
               [[s \in Readers |-> Smp!CallState(s)] EXCEPT ![r] = Smp!CallState(r)']
<1>1. /\ smp_pc[r] = from /\ smp_pc' = [smp_pc EXCEPT ![r] = to]
      /\ UNCHANGED <<fifo, smp_wpc, smp_seq, smp_buf>>
  BY DEF Smp!Plain, Smp!Step, Smp!sampler
<1>2. Smp!Numbers(fifo)' = Smp!Numbers(fifo)
      /\ [s \in Readers |-> Smp!Got(s)]' = [s \in Readers |-> Smp!Got(s)]
  BY <1>1 DEF Smp!Numbers, Smp!Got
<1>3. from # "copy" => Smp!Got(r) = -1
  <2>1. smp_buf[r] \in Seq(Int \X Int) /\ (from # "copy" => Len(smp_buf[r]) = 0)
    BY <1>1 DEF Smp!IInv, Smp!Held
  <2>2. from # "copy" => smp_buf[r] = << >>
    BY <2>1
  <2>3. QED BY <2>2 DEF Smp!Got
<1>4. QED BY <1>1, <1>2, <1>3, SampleCallMoves DEF Smp!IInv

(* sensor_read is a call of the queue: it looks, takes, and returns.       *)
LEMMA SampleReadStep ==
  ASSUME Smp!IInv, Smp!IInv', NEW r \in Readers,
         \/ Smp!Open(r) \/ Smp!Close(r) \/ Smp!ReadCall(r) \/ Smp!Read(r) \/ Smp!Signalled(r)
  PROVE  [Smp!Queue!Next]_(Smp!Queue!vars)
<1> DEFINE calls_ == [s \in Readers |-> Smp!CallState(s)]
           items == [s \in Readers |-> Smp!Got(s)]
<1>1. fifo \in Seq(Int \X Int) /\ (Smp!Numbers(fifo) = << >> <=> fifo = << >>)
  <2>1. fifo \in Seq(Int \X Int)
    BY DEF Smp!IInv, Smp!Orderly, Smp!TypeOK
  <2>2. Smp!Numbers(fifo) \in Seq(Int) /\ Len(Smp!Numbers(fifo)) = Len(fifo)
    BY <2>1, NumbersOf
  <2>3. QED BY <2>1, <2>2
<1>2. /\ calls_[r] = Smp!CallState(r) /\ items[r] = Smp!Got(r)
      /\ calls_ = [calls_ EXCEPT ![r] = calls_[r]] /\ items = [items EXCEPT ![r] = items[r]]
  OBVIOUS
<1>3. ASSUME NEW from, NEW to, NEW w, Smp!Plain(r, from, to, w), from # "copy",
             Smp!CallState(r)' = Smp!CallState(r)
      PROVE  UNCHANGED Smp!Queue!vars
  BY <1>2, <1>3, SamplePlainStep DEF Smp!Queue!vars
<1>4. ASSUME NEW from, NEW to, NEW w, Smp!Plain(r, from, to, w), from # "copy",
             Smp!CallState(r) = "out", Smp!CallState(r)' = "in"
      PROVE  Smp!Queue!Call(r)
  BY <1>2, <1>4, SamplePlainStep DEF Smp!Queue!Call, Smp!Queue!Move
<1>5. ASSUME NEW from, NEW to, NEW w, Smp!Plain(r, from, to, w), from # "copy", fifo = << >>,
             Smp!CallState(r) = "in", Smp!CallState(r)' = "empty"
      PROVE  Smp!Queue!SeeEmpty(r)
  BY <1>1, <1>2, <1>5, SamplePlainStep DEF Smp!Queue!SeeEmpty, Smp!Queue!Move
<1>6. ASSUME NEW from, NEW to, NEW w, Smp!Plain(r, from, to, w), from # "copy",
             Smp!CallState(r) = "empty", Smp!CallState(r)' = "in"
      PROVE  Smp!Queue!LookAgain(r)
  BY <1>2, <1>6, SamplePlainStep DEF Smp!Queue!LookAgain, Smp!Queue!Move
<1>7. ASSUME NEW from, NEW to, NEW w, Smp!Plain(r, from, to, w), from # "copy",
             Smp!CallState(r) = "empty", Smp!CallState(r)' = "out"
      PROVE  Smp!Queue!Return(r)
  <2>1. items' = [items EXCEPT ![r] = -1]
    BY <1>2, <1>7, SamplePlainStep
  <2>2. QED BY <1>2, <1>7, <2>1, SamplePlainStep DEF Smp!Queue!Return, Smp!Queue!Move
<1>8. CASE Smp!Copy(r)
  <2>1. /\ smp_pc[r] = "copy" /\ smp_pc' = [smp_pc EXCEPT ![r] = "user"]
        /\ smp_buf' = [smp_buf EXCEPT ![r] = << >>]
        /\ UNCHANGED <<fifo, smp_wpc, smp_seq>>
    BY <1>8 DEF Smp!Copy, Smp!Step, Smp!sampler
  <2>2. smp_pc'[r] = "user" /\ calls_' = [calls_ EXCEPT ![r] = Smp!CallState(r)']
    BY <2>1, SampleCallMoves DEF Smp!IInv
  <2>3. Smp!CallState(r) = "got" /\ Smp!CallState(r)' = "out"
    BY <2>1, <2>2 DEF Smp!CallState
  <2>4. smp_buf'[r] = << >> /\ items' = [items EXCEPT ![r] = Smp!Got(r)']
    BY <2>1, SampleItemMoves DEF Smp!IInv
  <2>5. Smp!Got(r)' = -1
    BY <2>4 DEF Smp!Got
  <2>6. UNCHANGED <<Smp!Numbers(fifo), IF smp_wpc = "put" THEN smp_seq - 1 ELSE smp_seq>>
    BY <2>1 DEF Smp!Numbers
  <2>7. Smp!Queue!Return(r)
    BY <1>2, <2>2, <2>3, <2>4, <2>5, <2>6 DEF Smp!Queue!Return, Smp!Queue!Move
  <2>8. QED BY <2>7 DEF Smp!Queue!Next
<1>9. CASE Smp!Out(r)
  <2>1. smp_pc[r] = "out" /\ UNCHANGED <<smp_wpc, smp_seq>>
    BY <1>9 DEF Smp!Out, Smp!Step, Smp!sampler
  <2>2. CASE fifo = << >>
    <3>1. /\ fifo' = fifo /\ smp_pc' = [smp_pc EXCEPT ![r] = "none"]
          /\ smp_buf' = [smp_buf EXCEPT ![r] = << >>]
      BY <1>9, <2>2, OutTakes DEF Smp!IInv
    <3>2. smp_pc'[r] = "none" /\ calls_' = [calls_ EXCEPT ![r] = Smp!CallState(r)']
      BY <3>1, SampleCallMoves DEF Smp!IInv
    <3>3. Smp!CallState(r) = "in" /\ Smp!CallState(r)' = "empty"
      BY <2>1, <3>2 DEF Smp!CallState
    <3>4. smp_buf[r] = << >>
      <4>1. smp_buf[r] \in Seq(Int \X Int) /\ Len(smp_buf[r]) = 0
        BY <2>1 DEF Smp!IInv, Smp!Held
      <4>2. QED BY <4>1
    <3>5. smp_buf' = smp_buf
      BY <3>1, <3>4 DEF Smp!IInv, Smp!Held
    <3>6. items' = items /\ Smp!Numbers(fifo)' = Smp!Numbers(fifo)
      BY <3>1, <3>5 DEF Smp!Got, Smp!Numbers
    <3>7. Smp!Queue!SeeEmpty(r)
      BY <1>1, <1>2, <2>1, <2>2, <3>2, <3>3, <3>6 DEF Smp!Queue!SeeEmpty, Smp!Queue!Move
    <3>8. QED BY <3>7 DEF Smp!Queue!Next
  <2>3. CASE fifo # << >>
    <3>1. /\ fifo' = Tail(fifo) /\ smp_pc' = [smp_pc EXCEPT ![r] = "copy"]
          /\ smp_buf' = [smp_buf EXCEPT ![r] = << Head(fifo) >>]
      BY <1>9, <2>3, OutTakes DEF Smp!IInv
    <3>2. smp_pc'[r] = "copy" /\ calls_' = [calls_ EXCEPT ![r] = Smp!CallState(r)']
      BY <3>1, SampleCallMoves DEF Smp!IInv
    <3>3. Smp!CallState(r) = "in" /\ Smp!CallState(r)' = "got"
      BY <2>1, <3>2 DEF Smp!CallState
    <3>4. smp_buf'[r] = << Head(fifo) >> /\ items' = [items EXCEPT ![r] = Smp!Got(r)']
      BY <3>1, SampleItemMoves DEF Smp!IInv
    <3>5. Smp!Got(r)' = Head(fifo)[1]
      BY <3>4 DEF Smp!Got, Smp!Number
    <3>6. /\ Smp!Numbers(fifo) # << >> /\ Head(Smp!Numbers(fifo)) = Head(fifo)[1]
          /\ Smp!Numbers(fifo)' = Tail(Smp!Numbers(fifo))
      <4>1. Smp!Numbers(fifo)' = Smp!Numbers(Tail(fifo))
        BY <3>1 DEF Smp!Numbers
      <4>2. QED BY <1>1, <2>3, <4>1, NumbersTail
    <3>7. Smp!Queue!Take(r)
      BY <1>2, <2>1, <3>2, <3>3, <3>4, <3>5, <3>6 DEF Smp!Queue!Take, Smp!Queue!Move
    <3>8. QED BY <3>7 DEF Smp!Queue!Next
  <2>4. QED BY <2>2, <2>3
<1>10. CASE ~Smp!Copy(r) /\ ~Smp!Out(r)
  <2>1. PICK from, to, w :
          /\ Smp!Plain(r, from, to, w) /\ from # "copy"
          /\ \/ {from, to} = {"closed", "user"}
             \/ from = "user" /\ to = "check"
             \/ from = "check" /\ to = "out"
             \/ from = "check" /\ to \in {"eagain", "prepare"} /\ fifo = << >>
             \/ from \in {"prepare", "test", "sleep"} /\ to \in {"prepare", "test", "sleep"}
             \/ from = "test" /\ to = "out"
             \/ from \in {"eagain", "sleep", "none"} /\ to = "user"
    <3>1. CASE Smp!Open(r) \/ Smp!Close(r) \/ Smp!ReadCall(r) \/ Smp!Signalled(r)
      BY <3>1 DEF Smp!Open, Smp!Close, Smp!ReadCall, Smp!Signalled
    <3>2. CASE Smp!Check(r)
      BY <3>2 DEF Smp!Check
    <3>3. CASE Smp!Eagain(r) \/ Smp!Prepare(r)
      BY <3>3 DEF Smp!Eagain, Smp!Prepare
    <3>4. CASE Smp!Test(r) \/ Smp!Woken(r) \/ Smp!None(r)
      BY <3>4 DEF Smp!Test, Smp!Woken, Smp!None
    <3>5. QED BY <1>10, <3>1, <3>2, <3>3, <3>4 DEF Smp!Read
  <2>2. smp_pc[r] = from /\ smp_pc'[r] = to
    BY <2>1, SamplePlainStep
  <2>3. CASE {from, to} = {"closed", "user"} \/ (from = "check" /\ to = "out")
             \/ (from \in {"prepare", "test", "sleep"} /\ to \in {"prepare", "test", "sleep"})
    <3>1. Smp!CallState(r)' = Smp!CallState(r)
      <4>1. CASE {from, to} = {"closed", "user"}
        <5>1. from \in {"closed", "user"} /\ to \in {"closed", "user"}
          BY <4>1
        <5>2. QED BY <2>2, <5>1 DEF Smp!CallState
      <4>2. CASE ~({from, to} = {"closed", "user"})
        BY <2>2, <2>3, <4>2 DEF Smp!CallState
      <4>3. QED BY <4>1, <4>2
    <3>2. QED BY <1>3, <2>1, <3>1
  <2>4. CASE from = "user" /\ to = "check"
    <3>1. Smp!CallState(r) = "out" /\ Smp!CallState(r)' = "in"
      BY <2>2, <2>4 DEF Smp!CallState
    <3>2. QED BY <1>4, <2>1, <3>1 DEF Smp!Queue!Next
  <2>5. CASE from = "check" /\ to \in {"eagain", "prepare"} /\ fifo = << >>
    <3>1. Smp!CallState(r) = "in" /\ Smp!CallState(r)' = "empty"
      BY <2>2, <2>5 DEF Smp!CallState
    <3>2. QED BY <1>5, <2>1, <2>5, <3>1 DEF Smp!Queue!Next
  <2>6. CASE from = "test" /\ to = "out"
    <3>1. Smp!CallState(r) = "empty" /\ Smp!CallState(r)' = "in"
      BY <2>2, <2>6 DEF Smp!CallState
    <3>2. QED BY <1>6, <2>1, <3>1 DEF Smp!Queue!Next
  <2>7. CASE from \in {"eagain", "sleep", "none"} /\ to = "user"
    <3>1. Smp!CallState(r) = "empty" /\ Smp!CallState(r)' = "out"
      BY <2>2, <2>7 DEF Smp!CallState
    <3>2. QED BY <1>7, <2>1, <3>1 DEF Smp!Queue!Next
  <2>8. QED BY <2>1, <2>3, <2>4, <2>5, <2>6, <2>7
<1>11. QED BY <1>8, <1>9, <1>10

(* sensor_sample.c, like its second version, implements the bounded queue: *)
(* every number reaches at most one read, in order, and a read that returns*)
(* nothing has seen the kfifo empty since it began (sample_work_fn,        *)
(* sensor_read).                                                           *)
THEOREM FirstDriverQueue == Spec => QueueSpec
<1>1. Smp!Init => Smp!Queue!Init
  <2> SUFFICES ASSUME Smp!Init PROVE Smp!Queue!Init
    OBVIOUS
  <2>1. fifo = << >> /\ smp_seq = 0 /\ smp_wpc = "idle"
        /\ smp_pc = [r \in Readers |-> "closed"] /\ smp_buf = [r \in Readers |-> << >>]
    BY DEF Smp!Init
  <2>2. Smp!Numbers(fifo) = << >>
    BY <2>1 DEF Smp!Numbers
  <2>3. [r \in Readers |-> Smp!CallState(r)] = [c \in Readers |-> "out"]
    BY <2>1 DEF Smp!CallState
  <2>4. [r \in Readers |-> Smp!Got(r)] = [c \in Readers |-> -1]
    BY <2>1 DEF Smp!Got
  <2>5. QED BY <2>1, <2>2, <2>3, <2>4 DEF Smp!Queue!Init
<1>2. ASSUME Smp!IInv, Smp!IInv', [Smp!Next]_(Smp!vars)
      PROVE  [Smp!Queue!Next]_(Smp!Queue!vars)
  <2>1. CASE UNCHANGED <<fifo, smp_wpc, smp_seq, smp_pc, smp_buf>>
    <3>1. UNCHANGED <<Smp!Numbers(fifo), [r \in Readers |-> Smp!CallState(r)],
                      [r \in Readers |-> Smp!Got(r)]>>
      BY <2>1 DEF Smp!Numbers, Smp!CallState, Smp!Got
    <3>2. QED BY <2>1, <3>1 DEF Smp!Queue!vars
  <2>2. CASE Smp!Expire \/ Smp!Callback \/ Smp!MakeNode \/ Smp!StartTimer \/ Smp!Unload
             \/ Smp!Exit \/ UNCHANGED Smp!vars
    BY <2>1, <2>2 DEF Smp!Expire, Smp!Callback, Smp!MakeNode, Smp!StartTimer, Smp!Unload, Smp!Exit,
       Smp!HrtimerCancel, Smp!CancelWork, Smp!Free, Smp!EGoto, Smp!vars, Smp!sampler, Smp!readers
  <2>3. CASE Smp!Work
    BY <1>2, <2>3, SampleWorkStep DEF Smp!IInv
  <2>4. QED BY <1>2, <2>2, <2>3, SampleReadStep DEF Smp!Next
<1>3. Spec => []Smp!IInv
  BY FirstDriverInvariance, PTL
<1>4. QED BY SampleRun, <1>1, <1>2, <1>3, PTL DEF Spec, QueueSpec, Smp!QueueSpec, Smp!Queue!Spec

-----------------------------------------------------------------------------
(* Quotient and remainder: the indices of a kfifo run modulo 2^32 and are  *)
(* masked to its size.                                                     *)
LEMMA DivMod ==
  ASSUME NEW a \in Int, NEW n \in Nat \ {0}
  PROVE  /\ a % n \in 0 .. n - 1 /\ a \div n \in Int
         /\ a = n * (a \div n) + (a % n)
<1>1. a % n \in 0 .. n - 1 /\ a \div n \in Int
  OBVIOUS
<1>2. a = n * (a \div n) + (a % n)
  OBVIOUS
<1>3. QED BY <1>1, <1>2

(* There is one way to divide.                                             *)
LEMMA QuotientsAreEqual ==
  ASSUME NEW n \in Nat \ {0}, NEW q \in Int, NEW d \in Int, NEW r \in 0 .. n - 1, NEW s \in 0 .. n - 1,
         n * q + r = n * d + s
  PROVE  q = d /\ r = s
<1>1. ASSUME q > d PROVE FALSE
  <2>1. q - d >= 1 /\ n >= 1
    BY <1>1
  <2>2. n * (q - d) >= n
    BY <2>1
  <2>3. n * (q - d) = n * q - n * d
    OBVIOUS
  <2>4. QED BY <2>2, <2>3
<1>2. ASSUME d > q PROVE FALSE
  <2>1. d - q >= 1 /\ n >= 1
    BY <1>2
  <2>2. n * (d - q) >= n
    BY <2>1
  <2>3. n * (d - q) = n * d - n * q
    OBVIOUS
  <2>4. QED BY <2>2, <2>3
<1>3. q = d
  BY <1>1, <1>2
<1>4. QED BY <1>3

(* a % n is the one r below n that differs from a by a multiple of n.      *)
LEMMA ModIs ==
  ASSUME NEW n \in Nat \ {0}, NEW a \in Int, NEW q \in Int, NEW r \in 0 .. n - 1, a = n * q + r
  PROVE  a % n = r
<1> DEFINE d == a \div n
           s == a % n
<1>1. s \in 0 .. n - 1 /\ d \in Int /\ a = n * d + s
  BY DivMod
<1> HIDE DEF d, s
<1>2. n * q + r = n * d + s
  BY <1>1
<1>3. r = s
  BY <1>1, <1>2, QuotientsAreEqual
<1>4. QED BY <1>3 DEF s

(* Adding before or after taking the remainder.                            *)
LEMMA ModAdd ==
  ASSUME NEW n \in Nat \ {0}, NEW a \in Int, NEW b \in Int
  PROVE  ((a % n) + b) % n = (a + b) % n
<1> DEFINE d == a \div n
           s == a % n
           e == (s + b) \div n
           t == (s + b) % n
<1>1. s \in 0 .. n - 1 /\ d \in Int /\ a = n * d + s
  BY DivMod
<1>2. t \in 0 .. n - 1 /\ e \in Int /\ s + b = n * e + t
  BY <1>1, DivMod
<1> HIDE DEF d, s, e, t
<1>3. a + b = n * (d + e) + t
  <2>1. n * (d + e) = n * d + n * e
    BY <1>1, <1>2
  <2>2. QED BY <1>1, <1>2, <2>1
<1>4. (a + b) % n = t
  <2>1. d + e \in Int /\ a + b \in Int
    BY <1>1, <1>2
  <2>2. QED BY <1>2, <1>3, <2>1, ModIs
<1>5. QED BY <1>4 DEF s, t

(* A multiple of the modulus does not show in the remainder.               *)
LEMMA ModOfMod ==
  ASSUME NEW n \in Nat \ {0}, NEW m \in Nat \ {0}, m % n = 0, NEW a \in Int
  PROVE  (a % m) % n = a % n
<1> DEFINE d == a \div m
           s == a % m
           k == m \div n
           e == s \div n
           t == s % n
<1>1. s \in 0 .. m - 1 /\ d \in Int /\ a = m * d + s
  BY DivMod
<1>2. k \in Int /\ m = n * k
  BY DivMod
<1>3. t \in 0 .. n - 1 /\ e \in Int /\ s = n * e + t
  BY <1>1, DivMod
<1> HIDE DEF d, s, k, e, t
<1>4. a = n * (k * d + e) + t
  <2>1. m * d = n * (k * d)
    BY <1>1, <1>2
  <2>2. k * d \in Int
    BY <1>1, <1>2
  <2>3. n * (k * d + e) = n * (k * d) + n * e
    BY <1>3, <2>2
  <2>4. QED BY <1>1, <1>3, <2>1, <2>3
<1>5. a % n = t
  <2>1. k * d + e \in Int
    BY <1>1, <1>2, <1>3
  <2>2. QED BY <1>3, <1>4, <2>1, ModIs
<1>6. QED BY <1>5 DEF s, t

(* Numbers less than n apart have different remainders.                    *)
LEMMA ModDiffers ==
  ASSUME NEW n \in Nat \ {0}, NEW a \in Int, NEW b \in Int, a < b, b - a < n
  PROVE  a % n # b % n
<1> SUFFICES ASSUME a % n = b % n PROVE FALSE
  OBVIOUS
<1> DEFINE d == a \div n
           e == b \div n
           s == a % n
<1>1. s \in 0 .. n - 1 /\ d \in Int /\ a = n * d + s
  BY DivMod
<1>2. e \in Int /\ b = n * e + s
  BY DivMod
<1> HIDE DEF d, e, s
<1>3. b - a = n * (e - d)
  <2>1. n * (e - d) = n * e - n * d
    BY <1>1, <1>2
  <2>2. QED BY <1>1, <1>2, <2>1
<1>4. b - a = n * (e - d) + 0 /\ b - a = n * 0 + (b - a)
  BY <1>3
<1>5. b - a = 0
  BY <1>1, <1>2, <1>4, QuotientsAreEqual
<1>6. QED BY <1>5

(* A behaviour of the board is one of fifo_demo.c, or leaves it alone.     *)
LEMMA FifoRun ==
  /\ Init => Kf!Init
  /\ [Next]_vars => [Kf!Next]_(Kf!vars)
BY DEF Init, Next, Runs, vars, kfVars, Kf!vars, Kf!kfifo, Kf!calls

(* The first state: an empty kfifo, no attribute, nobody inside.           *)
LEMMA FifoInit == Kf!Init => Kf!IInv
<1> SUFFICES ASSUME Kf!Init PROVE Kf!IInv
  OBVIOUS
<1>1. /\ data = [x \in 0 .. Slots - 1 |-> 0] /\ in = 0 /\ out = 0
      /\ kf_lock = {} /\ kf_pc = [p \in Procs |-> "idle"]
      /\ kf_attr = [p \in Procs |-> "status"] /\ val = [p \in Procs |-> 0]
      /\ pushed = 0 /\ popped = 0 /\ files = << >> /\ kf_epc = "init"
  BY DEF Kf!Init
<1>2. Kf!Locked
  BY <1>1 DEF Kf!Locked, Kf!Inside, Kf!Attrs
<1>3. 0 % Wrap = 0
  BY SlotsAssumption, ModIs
<1>4. Kf!Counted
  BY <1>1, <1>3, SlotsAssumption DEF Kf!Counted
<1>5. Kf!Stored
  BY <1>1 DEF Kf!Stored
<1>6. Kf!Halfway
  BY <1>1 DEF Kf!Halfway
<1>7. Kf!Loading
  BY <1>1 DEF Kf!Loading, Kf!Attrs, Kf!Order
<1>8. QED BY <1>2, <1>4, <1>5, <1>6, <1>7 DEF Kf!IInv

(* One holder at most: who is inside is alone there.                       *)
LEMMA Alone ==
  ASSUME Kf!Locked, NEW p \in Procs, kf_pc[p] \in Kf!Inside
  PROVE  /\ kf_lock = {p}
         /\ \A q \in Procs : q # p => kf_pc[q] \in {"idle", "lock"}
BY DEF Kf!Locked

(* A process enters an attribute that is there, and waits for fifo_lock.   *)
LEMMA FifoCallStep ==
  ASSUME Kf!IInv, NEW p \in Procs, Kf!Call(p)
  PROVE  Kf!IInv'
<1>1. PICK k \in DOMAIN files :
        /\ kf_attr' = [kf_attr EXCEPT ![p] = files[k]]
        /\ kf_pc[p] = "idle" /\ kf_pc' = [kf_pc EXCEPT ![p] = "lock"]
        /\ UNCHANGED <<data, in, out, kf_lock, val, pushed, popped, files, kf_epc>>
  BY DEF Kf!Call, Kf!Goto, Kf!kfifo
<1>2. files[k] \in Kf!Attrs /\ files # << >>
  BY DEF Kf!IInv, Kf!Loading
<1>3. \A q \in Procs : kf_pc'[q] \in Kf!Inside <=> kf_pc[q] \in Kf!Inside
  BY <1>1 DEF Kf!IInv, Kf!Locked, Kf!Inside
<1>4. Kf!Locked'
  BY <1>1, <1>2, <1>3 DEF Kf!IInv, Kf!Locked
<1>5. Kf!Counted' /\ Kf!Stored'
  BY <1>1 DEF Kf!IInv, Kf!Counted, Kf!Stored
<1>6. Kf!Halfway'
  BY <1>1 DEF Kf!IInv, Kf!Locked, Kf!Halfway
<1>7. Kf!Loading'
  BY <1>1, <1>2 DEF Kf!IInv, Kf!Loading
<1>8. QED BY <1>4, <1>5, <1>6, <1>7 DEF Kf!IInv

(* What Used says.                                                         *)
LEMMA UsedIs ==
  ASSUME Kf!Counted
  PROVE  Kf!Used = pushed - popped
<1> DEFINE s == pushed % Wrap
           t == popped % Wrap
           d == pushed \div Wrap
           e == popped \div Wrap
<1>1. Wrap \in Nat \ {0} /\ pushed \in Int /\ popped \in Int
      /\ pushed - popped \in 0 .. Wrap - 1
  BY SlotsAssumption DEF Kf!Counted
<1>2. s \in 0 .. Wrap - 1 /\ d \in Int /\ pushed = Wrap * d + s
  BY <1>1, DivMod
<1>3. t \in 0 .. Wrap - 1 /\ e \in Int /\ popped = Wrap * e + t
  BY <1>1, DivMod
<1>4. in = s /\ out = t
  BY DEF Kf!Counted
<1> HIDE DEF s, t, d, e
<1>5. in + Wrap - out = Wrap * (1 - d + e) + (pushed - popped)
  <2>1. Wrap * (1 - d + e) = Wrap - Wrap * d + Wrap * e
    BY <1>1, <1>2, <1>3
  <2>2. QED BY <1>1, <1>2, <1>3, <1>4, <2>1
<1>6. in + Wrap - out \in Int /\ 1 - d + e \in Int
  BY <1>1, <1>2, <1>3, <1>4
<1>7. QED BY <1>1, <1>5, <1>6, ModIs DEF Kf!Used

(* fifo_lock is taken when nobody has it; the room or the value found now  *)
(* is there until it is given back.                                        *)
LEMMA FifoLockStep ==
  ASSUME Kf!IInv, NEW p \in Procs, Kf!Lock(p)
  PROVE  Kf!IInv'
<1>1. PICK to \in {"copy", "unlock"} :
        /\ kf_lock = {} /\ kf_lock' = {p}
        /\ kf_pc[p] = "lock" /\ kf_pc' = [kf_pc EXCEPT ![p] = to]
        /\ to = "copy" => \/ kf_attr[p] = "in" /\ Kf!Used < Slots
                          \/ kf_attr[p] = "out" /\ Kf!Used > 0
        /\ UNCHANGED <<data, in, out, kf_attr, val, pushed, popped, files, kf_epc>>
  BY DEF Kf!Lock, Kf!Goto, Kf!kfifo, Kf!Held
<1>2. /\ kf_pc' \in [Procs -> {"idle", "lock"} \cup Kf!Inside] /\ kf_pc'[p] = to
      /\ \A q \in Procs : q # p => kf_pc'[q] = kf_pc[q] /\ kf_pc[q] \notin Kf!Inside
  BY <1>1 DEF Kf!IInv, Kf!Locked, Kf!Inside
<1>3. Kf!Locked'
  <2>1. kf_lock' = {q \in Procs : kf_pc'[q] \in Kf!Inside}
    BY <1>1, <1>2 DEF Kf!Inside
  <2>2. QED BY <1>1, <1>2, <2>1 DEF Kf!IInv, Kf!Locked
<1>4. Kf!Counted' /\ Kf!Stored'
  BY <1>1 DEF Kf!IInv, Kf!Counted, Kf!Stored
<1>5. Kf!Halfway'
  <2>1. to = "copy" => \/ kf_attr[p] = "in" /\ pushed - popped < Slots
                       \/ kf_attr[p] = "out" /\ popped < pushed
    BY <1>1, UsedIs DEF Kf!IInv, Kf!Counted
  <2>2. QED BY <1>1, <1>2, <2>1 DEF Kf!Halfway, Kf!Inside
<1>6. Kf!Loading'
  BY <1>1 DEF Kf!IInv, Kf!Loading
<1>7. QED BY <1>3, <1>4, <1>5, <1>6 DEF Kf!IInv

(* A process inside goes on alone; what it leaves to show is the rest.     *)
LEMMA InsideStep ==
  ASSUME Kf!IInv, NEW p \in Procs, kf_pc[p] \in Kf!Inside,
         NEW to \in Kf!Inside, kf_pc' = [kf_pc EXCEPT ![p] = to],
         val' \in [Procs -> Nat], UNCHANGED <<kf_lock, kf_attr, files, kf_epc>>,
         Kf!Counted', Kf!Stored',
         /\ to \in {"copy", "move"} =>
                \/ kf_attr[p] = "in" /\ pushed' - popped' < Slots
                \/ kf_attr[p] = "out" /\ popped' < pushed'
         /\ to = "move" => IF kf_attr[p] = "in" THEN data'[pushed' % Slots] = pushed' + 1
                                                ELSE val'[p] = popped' + 1
  PROVE  Kf!IInv'
<1>1. kf_lock = {p} /\ \A q \in Procs : q # p => kf_pc[q] \in {"idle", "lock"}
  BY Alone DEF Kf!IInv
<1>2. /\ kf_pc' \in [Procs -> {"idle", "lock"} \cup Kf!Inside] /\ kf_pc'[p] = to
      /\ \A q \in Procs : q # p => kf_pc'[q] \in {"idle", "lock"}
  BY <1>1 DEF Kf!IInv, Kf!Locked
<1>3. Kf!Locked'
  <2>1. kf_lock' = {q \in Procs : kf_pc'[q] \in Kf!Inside}
    BY <1>1, <1>2 DEF Kf!Inside
  <2>2. QED BY <1>1, <1>2, <2>1 DEF Kf!IInv, Kf!Locked
<1>4. Kf!Halfway'
  BY <1>2 DEF Kf!Halfway
<1>5. kf_epc # "freed"
  BY DEF Kf!IInv, Kf!Loading, Kf!Inside
<1>6. Kf!Loading'
  BY <1>5 DEF Kf!IInv, Kf!Loading
<1>7. QED BY <1>3, <1>4, <1>6 DEF Kf!IInv

(* Where the indices point once masked.                                    *)
LEMMA MaskedIndex ==
  ASSUME Kf!Counted
  PROVE  /\ in % Slots = pushed % Slots /\ out % Slots = popped % Slots
         /\ pushed % Slots \in 0 .. Slots - 1 /\ popped % Slots \in 0 .. Slots - 1
<1>1. Slots \in Nat \ {0} /\ Wrap \in Nat \ {0} /\ Wrap % Slots = 0
      /\ pushed \in Int /\ popped \in Int /\ in = pushed % Wrap /\ out = popped % Wrap
  BY SlotsAssumption DEF Kf!Counted
<1>2. QED BY <1>1, ModOfMod, DivMod

(* The copy: a push writes where no value waits, a pop reads the oldest.   *)
LEMMA FifoCopyStep ==
  ASSUME Kf!IInv, NEW p \in Procs, Kf!Copy(p)
  PROVE  Kf!IInv'
<1>1. /\ kf_pc[p] = "copy" /\ kf_pc' = [kf_pc EXCEPT ![p] = "move"]
      /\ UNCHANGED <<in, out, kf_lock, kf_attr, pushed, popped, files, kf_epc>>
      /\ "move" \in Kf!Inside /\ "copy" \in Kf!Inside
  BY DEF Kf!Copy, Kf!Goto, Kf!Inside
<1>2. \/ kf_attr[p] = "in" /\ pushed - popped < Slots
      \/ kf_attr[p] = "out" /\ popped < pushed
  BY <1>1 DEF Kf!IInv, Kf!Halfway
<1>3. Kf!Counted'
  BY <1>1 DEF Kf!IInv, Kf!Counted
<1>4. /\ Slots \in Nat \ {0} /\ pushed \in Nat /\ popped \in Nat
      /\ data \in [0 .. Slots - 1 -> Nat] /\ val \in [Procs -> Nat]
  BY SlotsAssumption DEF Kf!IInv, Kf!Counted, Kf!Stored, Kf!Locked
<1>5. CASE kf_attr[p] = "in"
  <2>1. data' = [data EXCEPT ![pushed % Slots] = pushed + 1] /\ val' = val
    BY <1>5, MaskedIndex DEF Kf!Copy, Kf!IInv
  <2>2. pushed % Slots \in 0 .. Slots - 1
    BY MaskedIndex DEF Kf!IInv
  <2>3. ASSUME NEW k \in popped + 1 .. pushed
        PROVE  data'[(k - 1) % Slots] = k
    <3>1. k - 1 \in Int /\ k - 1 < pushed /\ pushed - (k - 1) < Slots
      BY <1>2, <1>4, <1>5
    <3>2. (k - 1) % Slots # pushed % Slots /\ (k - 1) % Slots \in 0 .. Slots - 1
      <4>1. Slots \in Nat \ {0} /\ pushed \in Int
        BY <1>4
      <4>2. (k - 1) % Slots # pushed % Slots
        BY <3>1, <4>1, ModDiffers, Zenon
      <4>3. (k - 1) % Slots \in 0 .. Slots - 1
        BY <3>1, <4>1, DivMod, Zenon
      <4>4. QED BY <4>2, <4>3
    <3>3. data[(k - 1) % Slots] = k
      BY DEF Kf!IInv, Kf!Stored
    <3>4. QED BY <1>4, <2>1, <2>2, <3>2, <3>3
  <2>4. Kf!Stored'
    <3>1. data' \in [0 .. Slots - 1 -> Nat]
      BY <1>4, <2>1, <2>2
    <3>2. QED BY <1>1, <2>3, <3>1 DEF Kf!Stored
  <2>5. data'[pushed % Slots] = pushed + 1
    BY <1>4, <2>1, <2>2
  <2>6. /\ pushed' - popped' < Slots /\ val' \in [Procs -> Nat]
        /\ data'[pushed' % Slots] = pushed' + 1
    BY <1>1, <1>2, <1>4, <1>5, <2>1, <2>5
  <2>7. QED BY <1>1, <1>3, <1>5, <2>4, <2>6, InsideStep
<1>6. CASE kf_attr[p] = "out"
  <2>1. val' = [val EXCEPT ![p] = data[popped % Slots]] /\ data' = data
    BY <1>6, MaskedIndex DEF Kf!Copy, Kf!IInv
  <2>2. data[popped % Slots] = popped + 1
    <3>1. popped + 1 \in popped + 1 .. pushed /\ (popped + 1) - 1 = popped
      BY <1>2, <1>4, <1>6
    <3>2. QED BY <3>1 DEF Kf!IInv, Kf!Stored
  <2>3. Kf!Stored'
    BY <1>1, <2>1 DEF Kf!IInv, Kf!Stored
  <2>4. val'[p] = popped' + 1 /\ val' \in [Procs -> Nat] /\ popped' < pushed'
    BY <1>1, <1>2, <1>4, <1>6, <2>1, <2>2
  <2>5. QED BY <1>1, <1>3, <1>6, <2>3, <2>4, InsideStep
<1>7. QED BY <1>2, <1>5, <1>6

(* The move of the index: what was copied is now in, or out.               *)
LEMMA FifoMoveStep ==
  ASSUME Kf!IInv, NEW p \in Procs, Kf!Move(p)
  PROVE  Kf!IInv'
<1>1. /\ kf_pc[p] = "move" /\ kf_pc' = [kf_pc EXCEPT ![p] = "unlock"]
      /\ UNCHANGED <<data, val, kf_lock, kf_attr, files, kf_epc>>
      /\ "move" \in Kf!Inside /\ "unlock" \in Kf!Inside
  BY DEF Kf!Move, Kf!Goto, Kf!Inside
<1>2. \/ kf_attr[p] = "in" /\ pushed - popped < Slots
      \/ kf_attr[p] = "out" /\ popped < pushed
  BY <1>1 DEF Kf!IInv, Kf!Halfway
<1>3. /\ Slots \in Nat \ {0} /\ Wrap \in Nat \ {0}
      /\ pushed \in Nat /\ popped \in Nat /\ popped <= pushed /\ pushed - popped <= Slots
      /\ in = pushed % Wrap /\ out = popped % Wrap
      /\ data \in [0 .. Slots - 1 -> Nat] /\ val \in [Procs -> Nat]
  BY SlotsAssumption DEF Kf!IInv, Kf!Counted, Kf!Stored, Kf!Locked
<1>4. \A k \in popped + 1 .. pushed : data[(k - 1) % Slots] = k
  BY DEF Kf!IInv, Kf!Stored
<1>5. CASE kf_attr[p] = "in"
  <2>1. in' = (in + 1) % Wrap /\ pushed' = pushed + 1 /\ UNCHANGED <<out, popped>>
    BY <1>5 DEF Kf!Move
  <2>2. in' = (pushed + 1) % Wrap
    <3>1. Wrap \in Nat \ {0} /\ pushed \in Int /\ 1 \in Int
      BY <1>3
    <3>2. ((pushed % Wrap) + 1) % Wrap = (pushed + 1) % Wrap
      BY <3>1, ModAdd, Zenon
    <3>3. QED BY <1>3, <2>1, <3>2, Zenon
  <2>3. Kf!Counted'
    BY <1>2, <1>3, <1>5, <2>1, <2>2 DEF Kf!Counted
  <2>4. data[pushed % Slots] = pushed + 1
    BY <1>1, <1>5 DEF Kf!IInv, Kf!Halfway
  <2>5. ASSUME NEW k \in popped + 1 .. pushed + 1
        PROVE  data[(k - 1) % Slots] = k
    <3>1. CASE k \in popped + 1 .. pushed
      BY <1>4, <3>1
    <3>2. CASE k = pushed + 1
      <4>1. k - 1 = pushed
        BY <1>3, <3>2
      <4>2. QED BY <2>4, <3>2, <4>1
    <3>3. QED BY <1>3, <3>1, <3>2
  <2>6. Kf!Stored'
    BY <1>1, <1>3, <2>1, <2>5 DEF Kf!Stored
  <2>7. QED BY <1>1, <1>3, <2>3, <2>6, InsideStep
<1>6. CASE kf_attr[p] = "out"
  <2>1. out' = (out + 1) % Wrap /\ popped' = popped + 1 /\ UNCHANGED <<in, pushed>>
    BY <1>6 DEF Kf!Move
  <2>2. out' = (popped + 1) % Wrap
    <3>1. Wrap \in Nat \ {0} /\ popped \in Int /\ 1 \in Int
      BY <1>3
    <3>2. ((popped % Wrap) + 1) % Wrap = (popped + 1) % Wrap
      BY <3>1, ModAdd, Zenon
    <3>3. QED BY <1>3, <2>1, <3>2, Zenon
  <2>3. Kf!Counted'
    <3>1. pushed' \in Nat /\ popped' \in Nat /\ popped' <= pushed' /\ pushed' - popped' <= Slots
      BY <1>2, <1>3, <1>6, <2>1
    <3>2. in' = pushed' % Wrap /\ out' = popped' % Wrap
      BY <1>3, <2>1, <2>2, Zenon
    <3>3. QED BY <3>1, <3>2 DEF Kf!Counted
  <2>4. Kf!Stored'
    BY <1>1, <1>3, <1>4, <2>1 DEF Kf!Stored
  <2>5. QED BY <1>1, <1>3, <2>3, <2>4, InsideStep
<1>7. QED BY <1>2, <1>5, <1>6

(* fifo_lock is given back by its holder.                                  *)
LEMMA FifoUnlockStep ==
  ASSUME Kf!IInv, NEW p \in Procs, Kf!Unlock(p)
  PROVE  Kf!IInv'
<1>1. /\ kf_pc[p] = "unlock" /\ kf_pc' = [kf_pc EXCEPT ![p] = "idle"]
      /\ kf_lock' = kf_lock \ {p} /\ val' = [val EXCEPT ![p] = 0]
      /\ UNCHANGED <<data, in, out, kf_attr, pushed, popped, files, kf_epc>>
  BY DEF Kf!Unlock, Kf!Goto, Kf!kfifo
<1>2. kf_lock = {p} /\ \A q \in Procs : q # p => kf_pc[q] \in {"idle", "lock"}
  <2>1. kf_pc[p] \in Kf!Inside
    BY <1>1 DEF Kf!Inside
  <2>2. QED BY <2>1, Alone DEF Kf!IInv
<1>3. /\ kf_pc' \in [Procs -> {"idle", "lock"} \cup Kf!Inside]
      /\ \A q \in Procs : kf_pc'[q] \in {"idle", "lock"}
  BY <1>1, <1>2 DEF Kf!IInv, Kf!Locked
<1>4. Kf!Locked'
  <2>1. kf_lock' = {} /\ {q \in Procs : kf_pc'[q] \in Kf!Inside} = {}
    BY <1>1, <1>2, <1>3 DEF Kf!Inside
  <2>2. QED BY <1>1, <1>3, <2>1 DEF Kf!IInv, Kf!Locked
<1>5. Kf!Counted' /\ Kf!Stored'
  BY <1>1 DEF Kf!IInv, Kf!Counted, Kf!Stored
<1>6. Kf!Halfway'
  BY <1>3 DEF Kf!Halfway
<1>7. Kf!Loading'
  BY <1>1 DEF Kf!IInv, Kf!Loading
<1>8. QED BY <1>4, <1>5, <1>6, <1>7 DEF Kf!IInv

(* kfifo_demo_init makes the attributes in order; kfifo_demo_exit frees the*)
(* kfifo when they are gone and nobody is inside.                          *)
LEMMA FifoLoadStep ==
  ASSUME Kf!IInv, Kf!Load \/ Kf!Unload \/ Kf!RemoveFile \/ Kf!KfifoFree
  PROVE  Kf!IInv'
<1>1. UNCHANGED <<data, in, out, kf_lock, kf_pc, kf_attr, val, pushed, popped>>
  BY DEF Kf!Load, Kf!Unload, Kf!RemoveFile, Kf!KfifoFree, Kf!kfifo, Kf!calls
<1>2. Kf!Locked' /\ Kf!Counted' /\ Kf!Stored' /\ Kf!Halfway'
  BY <1>1 DEF Kf!IInv, Kf!Locked, Kf!Counted, Kf!Stored, Kf!Halfway
<1>3. files \in Seq(Kf!Attrs)
  BY DEF Kf!IInv, Kf!Loading
<1>4. CASE Kf!Load
  <2>1. kf_epc = "init" /\ Len(files) <= 3 /\ files = SubSeq(Kf!Order, 1, Len(files))
    BY <1>4 DEF Kf!Load, Kf!IInv, Kf!Loading, Kf!Order
  <2>2. Kf!Order \in Seq(Kf!Attrs) /\ Len(Kf!Order) = 3
    BY DEF Kf!Order, Kf!Attrs
  <2>3. CASE files # Kf!Order /\ files' = Append(files, Kf!Order[Len(files) + 1]) /\ UNCHANGED kf_epc
    <3>1. SubSeq(Kf!Order, 1, 3) = Kf!Order
      BY <2>2, SubSeqFull
    <3>2. Len(files) \in Nat /\ Len(files) <= 2
      BY <1>3, <2>1, <2>3, <3>1
    <3> DEFINE n == Len(files) + 1
    <3>3. n \in 1 .. 3 /\ n - 1 = Len(files)
      BY <3>2
    <3> HIDE DEF n
    <3>4. SubSeq(Kf!Order, 1, n) = SubSeq(Kf!Order, 1, n - 1) \o << Kf!Order[n] >>
      <4>1. 1 \in 1 .. Len(Kf!Order) /\ n \in 1 .. Len(Kf!Order)
        BY <2>2, <3>3
      <4>2. QED BY <2>2, <4>1, SubSeqRecursiveSecond
    <3>5. Kf!Order[n] \in Kf!Attrs
      BY <2>2, <3>3, ElementOfSeq
    <3>6. files' = Append(files, Kf!Order[n])
      BY <2>3 DEF n
    <3>7. files' \in Seq(Kf!Attrs) /\ Len(files') = n
      BY <1>3, <3>3, <3>5, <3>6, AppendProperties
    <3>8. files' = SubSeq(Kf!Order, 1, n)
      BY <1>3, <2>1, <3>3, <3>4, <3>5, <3>6, AppendIsConcat
    <3>9. Kf!Loading'
      BY <2>1, <2>2, <2>3, <3>3, <3>7, <3>8 DEF Kf!Loading
    <3>10. QED BY <1>2, <3>9 DEF Kf!IInv
  <2>4. CASE kf_epc' = (IF files = Kf!Order THEN "loaded" ELSE "undo") /\ UNCHANGED files
    <3>1. Kf!Loading'
      BY <1>3, <2>4 DEF Kf!Loading
    <3>2. QED BY <1>2, <3>1 DEF Kf!IInv
  <2>5. QED BY <1>4, <2>3, <2>4 DEF Kf!Load
<1>5. CASE Kf!Unload
  <2>1. Kf!Loading'
    BY <1>3, <1>5 DEF Kf!Unload, Kf!Loading
  <2>2. QED BY <1>2, <2>1 DEF Kf!IInv
<1>6. CASE Kf!RemoveFile
  <2>1. files # << >> /\ kf_epc \in {"exit", "undo"} /\ kf_epc' = kf_epc
        /\ (files' = Tail(files) \/ files' = SubSeq(files, 1, Len(files) - 1))
    BY <1>6 DEF Kf!RemoveFile
  <2>2. files' \in Seq(Kf!Attrs)
    <3>1. Tail(files) \in Seq(Kf!Attrs)
      BY <1>3, <2>1
    <3>2. SubSeq(files, 1, Len(files) - 1) \in Seq(Kf!Attrs)
      <4>1. Len(files) \in Nat /\ \A k \in 1 .. Len(files) - 1 : files[k] \in Kf!Attrs
        BY <1>3
      <4>2. QED BY <4>1, SubSeqProperties
    <3>3. QED BY <2>1, <3>1, <3>2
  <2>3. Kf!Loading'
    BY <2>1, <2>2 DEF Kf!Loading
  <2>4. QED BY <1>2, <2>3 DEF Kf!IInv
<1>7. CASE Kf!KfifoFree
  <2>1. kf_epc' = "freed" /\ files = << >> /\ files' = files /\ Kf!Drained
    BY <1>7 DEF Kf!KfifoFree
  <2>2. \A p \in Procs : kf_pc[p] = "idle"
    BY <2>1 DEF Kf!Drained
  <2>3. Kf!Loading'
    BY <1>1, <1>3, <2>1, <2>2 DEF Kf!Loading
  <2>4. QED BY <1>2, <2>3 DEF Kf!IInv
<1>8. QED BY <1>4, <1>5, <1>6, <1>7

(* fifo_demo.c: in_store and out_show interleave as they may, the indices  *)
(* wrap as they may (in_store, out_show, kfifo_demo_init, kfifo_demo_exit).*)
THEOREM FifoInvariance == Spec => []Kf!IInv
<1>1. ASSUME Kf!IInv, Kf!Next PROVE Kf!IInv'
  BY <1>1, FifoCallStep, FifoLockStep, FifoCopyStep, FifoMoveStep, FifoUnlockStep, FifoLoadStep
     DEF Kf!Next
<1>2. ASSUME Kf!IInv, UNCHANGED Kf!vars PROVE Kf!IInv'
  BY <1>2 DEF Kf!vars, Kf!kfifo, Kf!calls, Kf!IInv, Kf!Locked, Kf!Counted, Kf!Stored,
              Kf!Halfway, Kf!Loading
<1>3. QED BY FifoRun, FifoInit, <1>1, <1>2, PTL DEF Spec

(* fifo_demo.c: a pop returns the oldest value pushed and not yet popped,  *)
(* also when the indices wrap around, for any size of the kfifo and any    *)
(* number of processes; and kfifo_free comes when nobody is inside.        *)
THEOREM FifoKeepsOrder == Spec => []KfifoInOrder
<1>1. ASSUME Kf!IInv PROVE KfifoInOrder
  <2>1. \A p \in Procs : kf_pc[p] = "move" /\ kf_attr[p] = "out" => val[p] = popped + 1
    BY <1>1 DEF Kf!IInv, Kf!Halfway
  <2>2. Kf!Used = pushed - popped /\ Kf!Used <= Slots
    BY <1>1, UsedIs DEF Kf!IInv, Kf!Counted
  <2>3. ASSUME NEW k \in 1 .. Kf!Used
        PROVE  data[(out + k - 1) % Slots] = popped + k
    <3>1. /\ Slots \in Nat \ {0} /\ popped \in Nat /\ pushed \in Nat /\ out \in Int /\ k \in Int
          /\ popped + k \in popped + 1 .. pushed
      <4>1. popped \in Nat /\ pushed \in Nat /\ out = popped % Wrap
        BY <1>1 DEF Kf!IInv, Kf!Counted
      <4>2. out \in Int
        BY <4>1, SlotsAssumption, DivMod
      <4>3. QED BY <2>2, <4>1, <4>2, SlotsAssumption
    <3>2. out + k - 1 = out + (k - 1) /\ popped + k - 1 = popped + (k - 1) /\ k - 1 \in Int
      BY <3>1
    <3>3. (out + (k - 1)) % Slots = (popped + (k - 1)) % Slots
      <4>1. Slots \in Nat \ {0} /\ out \in Int /\ popped \in Int /\ k - 1 \in Int
        BY <3>1, <3>2
      <4>2. ((out % Slots) + (k - 1)) % Slots = (out + (k - 1)) % Slots
        BY <4>1, ModAdd, Zenon
      <4>3. ((popped % Slots) + (k - 1)) % Slots = (popped + (k - 1)) % Slots
        BY <4>1, ModAdd, Zenon
      <4>4. out % Slots = popped % Slots
        BY <1>1, MaskedIndex DEF Kf!IInv
      <4>5. QED BY <4>2, <4>3, <4>4, Zenon
    <3>4. data[(popped + k - 1) % Slots] = popped + k
      BY <1>1, <3>1 DEF Kf!IInv, Kf!Stored
    <3>5. QED BY <3>2, <3>3, <3>4
  <2>4. kf_epc = "freed" => \A p \in Procs : kf_pc[p] = "idle"
    BY <1>1 DEF Kf!IInv, Kf!Loading
  <2>5. QED BY <2>1, <2>2, <2>3, <2>4 DEF KfifoInOrder, Kf!KfifoInOrder
<1>2. QED BY FifoInvariance, <1>1, PTL
=============================================================================
