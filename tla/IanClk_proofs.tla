---------------------------- MODULE IanClk_proofs ----------------------------
(***************************************************************************)
(* The races of ian_clk.c: which accesses can find something that is not   *)
(* there, at which stage of probe and remove, and that there are no others,*)
(* for any number of processes, CPUs and nodes.                            *)
(***************************************************************************)
EXTENDS IanClk, FiniteSetTheorems, TLAPS

USE CpuAssumption DEF vars, device, nodes, callers, Attributes, Things, Probing, Removing,
    Unregistered

(* What the steps of probe and remove, the work and the thread do not touch.*)
LEMMA DeviceFrame ==
  ASSUME Bind \/ Probe \/ Unbind \/ Remove \/ RunWork \/ RunThread
  PROVE  UNCHANGED <<open, cb, list, live, callers>>
BY DEF Bind, Probe, MapRng, ArmTimer, AddCdev, StartWork, InitList, InitLock, StartThread,
       AddDmaAttr, AllocDma, Unbind, Remove, RemoveFile, Iounmap, TimerDeleteSync, PutClk,
       FreeDma, DelCdev, CancelWork, WorkDone, KthreadStop, Gone, RunWork, RunThread, Goto

(* What the callback, nodelist_show and the other calls do not touch.      *)
LEMMA CallFrame ==
  ASSUME \/ Unchecked \/ Expire \/ Callback \/ UseAttr \/ Consume
         \/ \E t \in Threads : ShowList(t) \/ Call(t)
         \/ \E u \in Users : Open(u) \/ UseFile(u) \/ Close(u)
  PROVE  UNCHANGED <<device, clobbered>>
BY DEF Unchecked, Expire, Callback, CbGoto, CbLock, CbFree, CbAdd, CbUnlock, CbRearm,
       UseAttr, Consume, Access, ShowList, Call, SpinLock, Walk, Unlock, TGoto, Open, UseFile, Close

(* ian_clk_probe makes and publishes one thing after the other.            *)
LEMMA ProbeStep ==
  ASSUME TypeOK, Made, Published, Bind \/ Probe \/ Unbind
  PROVE  /\ epc' \in Probing \cup {"bound", "files"} /\ have' \subseteq Things
         /\ attrs' \subseteq Attributes /\ Made' /\ Published'
<1> USE DEF TypeOK, Made, Published, Mapped, HasDev, Listed, Goto, Makes, NoSideEffect
<1>1. CASE Bind BY <1>1 DEF Bind
<1>2. CASE MapRng BY <1>2 DEF MapRng
<1>3. CASE ArmTimer BY <1>3 DEF ArmTimer
<1>4. CASE AddCdev BY <1>4 DEF AddCdev
<1>5. CASE StartWork
  <2>1. PICK pwm \in SUBSET {"pwm"} : Makes(pwm, {"duty_ns"})
    BY <1>5 DEF StartWork
  <2>2. QED BY <1>5, <2>1 DEF StartWork
<1>6. CASE InitList BY <1>6 DEF InitList
<1>7. CASE InitLock BY <1>7 DEF InitLock
<1>8. CASE StartThread BY <1>8 DEF StartThread
<1>9. CASE AddDmaAttr BY <1>9 DEF AddDmaAttr
<1>10. CASE AllocDma BY <1>10 DEF AllocDma
<1>11. CASE Unbind BY <1>11 DEF Unbind
<1>12. QED BY <1>1, <1>2, <1>3, <1>4, <1>5, <1>6, <1>7, <1>8, <1>9, <1>10, <1>11 DEF Probe

(* ian_clk_remove takes back what probe has made, the attributes first.    *)
LEMMA RemoveStep ==
  ASSUME TypeOK, Made, Published, Remove
  PROVE  /\ epc' \in Removing \cup {"gone"} /\ have' \subseteq Things
         /\ attrs' \subseteq Attributes /\ Made' /\ Published'
<1> USE DEF TypeOK, Made, Published, Mapped, HasDev, Listed, Goto, Drops, NoSideEffect
<1>1. CASE RemoveFile BY <1>1 DEF RemoveFile
<1>2. CASE Iounmap BY <1>2 DEF Iounmap, FilesGone
<1>3. CASE TimerDeleteSync BY <1>3 DEF TimerDeleteSync
<1>4. CASE PutClk BY <1>4 DEF PutClk
<1>5. CASE FreeDma BY <1>5 DEF FreeDma
<1>6. CASE DelCdev BY <1>6 DEF DelCdev
<1>7. CASE CancelWork BY <1>7 DEF CancelWork
<1>8. CASE WorkDone BY <1>8 DEF WorkDone
<1>9. CASE KthreadStop BY <1>9 DEF KthreadStop
<1>10. CASE Gone BY <1>10 DEF Gone
<1>11. QED BY <1>1, <1>2, <1>3, <1>4, <1>5, <1>6, <1>7, <1>8, <1>9, <1>10 DEF Remove

(* A file that is open has been opened through a cdev that was there.      *)
LEMMA MadeStep ==
  ASSUME IInv, Next
  PROVE  Made' /\ Published'
<1>1. CASE Bind \/ Probe \/ Unbind \/ Remove
  BY <1>1, ProbeStep, RemoveStep DEF IInv
<1>2. CASE RunWork \/ RunThread
  BY <1>2 DEF RunWork, RunThread, IInv, Made, Published, Mapped, HasDev, Listed
<1>3. CASE \E u \in Users : Open(u)
  BY <1>3 DEF Open, IInv, Made, Published, Mapped, HasDev, Listed
<1>4. CASE \E u \in Users : UseFile(u) \/ Close(u)
  BY <1>4 DEF UseFile, Access, Close, IInv, Made, Published, Mapped, HasDev, Listed
<1>5. CASE \/ Unchecked \/ Expire \/ Callback \/ UseAttr \/ Consume
           \/ \E t \in Threads : ShowList(t) \/ Call(t)
  <2>1. UNCHANGED <<epc, have, attrs, open>>
    BY <1>5 DEF Unchecked, Expire, Callback, CbGoto, CbLock, CbFree, CbAdd, CbUnlock, CbRearm,
       UseAttr, Consume, Access, ShowList, Call, SpinLock, Walk, Unlock, TGoto
  <2>2. QED BY <2>1 DEF IInv, Made, Published
<1>6. QED BY <1>1, <1>2, <1>3, <1>4, <1>5 DEF Next

(* A timer that runs has been armed and not yet deleted, a caller is inside*)
(* only while nodelist can be there, and what remove has waited for is     *)
(* over: each step of remove leaves quiet what it waited for.              *)
LEMMA RunningStep ==
  ASSUME IInv, Next
  PROVE  Running'
<1> USE DEF IInv, Running, Mapped, Listed, Inside
<1>1. CASE Bind \/ Probe \/ Unbind
  BY <1>1 DEF Bind, Probe, MapRng, ArmTimer, AddCdev, StartWork, InitList, InitLock,
     StartThread, AddDmaAttr, AllocDma, Unbind, Goto, NoSideEffect, Made
<1>2. CASE Remove
  <2> USE DEF Goto, NoSideEffect
  <2>1. CASE RemoveFile BY <2>1 DEF RemoveFile
  <2>2. CASE Iounmap BY <2>2 DEF Iounmap, FilesGone, Drained
  <2>3. CASE TimerDeleteSync BY <2>3 DEF TimerDeleteSync, CallbackDone
  <2>4. CASE PutClk \/ FreeDma \/ DelCdev BY <2>4 DEF PutClk, FreeDma, DelCdev
  <2>5. CASE CancelWork \/ WorkDone BY <2>5 DEF CancelWork, WorkDone
  <2>6. CASE KthreadStop \/ Gone BY <2>6 DEF KthreadStop, Gone
  <2>7. QED BY <1>2, <2>1, <2>2, <2>3, <2>4, <2>5, <2>6 DEF Remove
<1>3. CASE RunWork \/ RunThread
  BY <1>3 DEF RunWork, RunThread
<1>4. CASE Expire \/ Callback
  BY <1>4 DEF Expire, Callback, CbGoto, CbLock, CbFree, CbAdd, CbUnlock, CbRearm
<1>5. ASSUME NEW t \in Threads, ShowList(t) \/ Call(t) PROVE Running'
  <2>1. UNCHANGED <<epc, thread, work, timer, cb>>
    BY <1>5 DEF ShowList, Call, SpinLock, Walk, Unlock, TGoto
  <2>2. CASE ShowList(t)
    BY <2>1, <2>2 DEF ShowList, Published
  <2>3. CASE Call(t)
    <3>1. Inside
      BY <2>3 DEF Call, SpinLock, Walk, Unlock, TGoto
    <3>2. QED BY <2>1, <3>1
  <2>4. QED BY <1>5, <2>2, <2>3
<1>6. CASE Unchecked \/ UseAttr \/ Consume \/ \E u \in Users : Open(u) \/ UseFile(u) \/ Close(u)
  BY <1>6 DEF Unchecked, UseAttr, Consume, Access, Open, UseFile, Close
<1>7. QED BY <1>1, <1>2, <1>3, <1>4, <1>5, <1>6 DEF Next

(* The two that ask at the list for the lock first: what the timer callback*)
(* does there, alone unless spin_lock_init let somebody in.                *)
LEMMA CallbackAtList ==
  ASSUME IInv, Expire \/ Callback
  PROVE  AtList'
<1> USE DEF IInv, TypeOK, AtList, CbGoto
<1>1. CASE Expire
  BY <1>1 DEF Expire, BhOff
<1>2. CASE CbLock
  BY <1>2 DEF CbLock, BhOff
<1>3. CASE CbFree
  <2>1. list' = {} /\ live' = {} /\ cb = "free" /\ cb' = "add" /\ UNCHANGED <<lock, clobbered, epc, callers>>
    BY <1>3 DEF CbFree
  <2>2. ~clobbered => \A t \in Threads : step[t] # "walk"
    BY <2>1
  <2>3. QED BY <2>1, <2>2 DEF BhOff
<1>4. CASE CbAdd
  <2>1. cb = "add" /\ cb' = "unlock" /\ UNCHANGED <<lock, clobbered, epc, callers>>
    BY <1>4 DEF CbAdd
  <2>2. list' = live' /\ (live' = {} \/ \E n \in Nodes : live' = {n})
    BY <1>4 DEF CbAdd
  <2>3. ~clobbered => \A t \in Threads : step[t] # "walk"
    BY <2>1
  <2>4. QED BY <2>1, <2>2, <2>3 DEF BhOff
<1>5. CASE CbUnlock
  BY <1>5 DEF CbUnlock, BhOff
<1>6. CASE CbRearm
  BY <1>6 DEF CbRearm, BhOff
<1>7. QED BY <1>1, <1>2, <1>3, <1>4, <1>5, <1>6 DEF Callback

(* nodelist_show: softirqs are off on its CPU from before it asks for the  *)
(* lock until after it has given it back.                                  *)
LEMMA ShowAtList ==
  ASSUME IInv, NEW t \in Threads, ShowList(t) \/ Call(t)
  PROVE  AtList'
<1> USE DEF IInv, TypeOK, AtList, TGoto
<1>0. \A x \in Threads \ {t} : step'[x] = step[x] /\ cpu'[x] = cpu[x] /\ cursor'[x] = cursor[x]
  BY DEF ShowList, Call, SpinLock, Walk, Unlock
<1>1. UNCHANGED <<cb, list, live, clobbered, epc>>
  BY DEF ShowList, Call, SpinLock, Walk, Unlock
<1>2. cb # "idle" => ~BhOff(TimerCpu)'
  <2>1. CASE ShowList(t)
    BY <1>0, <1>1, <2>1 DEF ShowList, BhOff
  <2>2. CASE Call(t)
    <3>1. cpu'[t] = cpu[t] \/ step'[t] = "out"
      BY <2>2 DEF Call, SpinLock, Walk, Unlock
    <3>2. step[t] \in {"lock", "walk", "unlock"}
      BY <2>2 DEF Call, SpinLock, Walk, Unlock
    <3>3. QED BY <1>0, <3>1, <3>2 DEF BhOff
  <2>3. QED BY <2>1, <2>2
<1>3. CASE ShowList(t)
  <2>1. step[t] = "out" /\ step'[t] = "lock" /\ UNCHANGED <<lock, cursor>>
    BY <1>3 DEF ShowList
  <2>2. QED BY <1>0, <1>1, <1>2, <2>1
<1>4. CASE SpinLock(t)
  <2>1. step'[t] = "walk" /\ lock = Nobody /\ lock' = t /\ cursor'[t] \in list \cup {Nobody}
    BY <1>4 DEF SpinLock
  <2>2. ~clobbered => cb \notin {"free", "add", "unlock"}
                      /\ \A x \in Threads : step[x] \notin {"walk", "unlock"}
    BY <2>1
  <2>3. lock' # TimerCpu
    BY <2>1
  <2>4. QED BY <1>0, <1>1, <1>2, <2>1, <2>2, <2>3
<1>5. CASE Walk(t)
  <2>1. step[t] = "walk" /\ step'[t] = "unlock" /\ lock' = lock
    BY <1>5 DEF Walk
  <2>2. QED BY <1>0, <1>1, <1>2, <2>1
<1>6. CASE Unlock(t)
  <2>1. step[t] = "unlock" /\ step'[t] = "out" /\ lock' = Nobody
    BY <1>6 DEF Unlock
  <2>2. ~clobbered => /\ lock = t /\ cb \notin {"free", "add", "unlock"}
                      /\ \A x \in Threads \ {t} : step[x] \notin {"walk", "unlock"}
    BY <2>1
  <2>3. QED BY <1>0, <1>1, <1>2, <2>1, <2>2
<1>7. QED BY <1>3, <1>4, <1>5, <1>6 DEF Call

(* spin_lock_init takes the lock away from who holds it; that is recorded. *)
LEMMA ListStep ==
  ASSUME IInv, Next
  PROVE  AtList'
<1>1. CASE Bind \/ Probe \/ Unbind \/ Remove \/ RunWork \/ RunThread
  <2>1. UNCHANGED <<cb, list, live, callers>>
    BY <1>1, DeviceFrame
  <2>2. CASE InitLock
    <3>1. epc = "list" /\ epc' = "lock" /\ lock' = Nobody /\ (clobbered' <=> lock # Nobody)
      BY <2>2 DEF InitLock, Goto
    <3>2. lock # Nobody \/ /\ cb \notin {"free", "add", "unlock"}
                           /\ \A t \in Threads : step[t] \notin {"walk", "unlock"}
      BY <3>1 DEF IInv, AtList
    <3>3. QED BY <2>1, <3>1, <3>2 DEF IInv, AtList, BhOff
  <2>3. CASE ~InitLock
    <3>1. UNCHANGED <<lock, clobbered>>
      BY <1>1, <2>3 DEF Bind, Probe, MapRng, ArmTimer, AddCdev, StartWork, InitList, StartThread,
         AddDmaAttr, AllocDma, Unbind, Remove, RemoveFile, Iounmap, TimerDeleteSync, PutClk,
         FreeDma, DelCdev, CancelWork, WorkDone, KthreadStop, Gone, RunWork, RunThread,
         NoSideEffect
    <3>2. epc \notin {"unbound", "clk", "regs", "timer", "cdev", "work", "list"} =>
              epc' \notin {"unbound", "clk", "regs", "timer", "cdev", "work", "list"}
      BY <1>1 DEF Bind, Probe, MapRng, ArmTimer, AddCdev, StartWork, InitList, InitLock,
         StartThread, AddDmaAttr, AllocDma, Unbind, Remove, RemoveFile, Iounmap,
         TimerDeleteSync, PutClk, FreeDma, DelCdev, CancelWork, WorkDone, KthreadStop, Gone,
         RunWork, RunThread, Goto
    <3>3. QED BY <2>1, <3>1, <3>2 DEF IInv, AtList, BhOff
  <2>4. QED BY <2>2, <2>3
<1>2. CASE Unchecked \/ UseAttr \/ Consume \/ \E u \in Users : Open(u) \/ UseFile(u) \/ Close(u)
  <2>1. UNCHANGED <<epc, cb, nodes, callers>>
    BY <1>2 DEF Unchecked, UseAttr, Consume, Access, Open, UseFile, Close
  <2>2. QED BY <2>1 DEF IInv, AtList, BhOff
<1>3. QED BY <1>1, <1>2, CallbackAtList, ShowAtList DEF Next

-----------------------------------------------------------------------------
(* Every step leaves the variables in their types.                         *)
LEMMA DeviceTypes ==
  ASSUME IInv, Bind \/ Probe \/ Unbind \/ Remove \/ RunWork \/ RunThread
  PROVE  TypeOK'
<1>1. UNCHANGED <<open, cb, list, live, callers>>
  BY DeviceFrame
<1>2. /\ epc' \in Probing \cup Removing \cup {"unbound", "bound", "gone"}
      /\ have' \subseteq Things /\ attrs' \subseteq Attributes
  BY ProbeStep, RemoveStep DEF IInv, TypeOK, RunWork, RunThread
<1> USE DEF Bind, Probe, MapRng, ArmTimer, AddCdev, StartWork, InitList, InitLock, StartThread,
            AddDmaAttr, AllocDma, Unbind, Remove, RemoveFile, Iounmap, TimerDeleteSync,
            PutClk, FreeDma, DelCdev, CancelWork, WorkDone, KthreadStop, Gone, RunWork,
            RunThread, NoSideEffect
<1>3. thread' \in {"none", "run", "failed", "done"}
  BY DEF IInv, TypeOK
<1>4. work' \in {"none", "queued", "done"}
  BY DEF IInv, TypeOK
<1>5. timer' = timer \/ timer' = TRUE \/ timer' = FALSE
  OBVIOUS
<1>6. lock' \in {lock, Nobody} /\ (clobbered' = clobbered \/ clobbered' = (lock # Nobody))
  OBVIOUS
<1>7. timer' \in BOOLEAN /\ clobbered' \in BOOLEAN
  BY <1>5, <1>6 DEF IInv, TypeOK
<1>8. QED BY <1>1, <1>2, <1>3, <1>4, <1>6, <1>7 DEF IInv, TypeOK

LEMMA CallTypes ==
  ASSUME IInv,
         \/ Unchecked \/ Expire \/ Callback \/ UseAttr \/ Consume
         \/ \E t \in Threads : ShowList(t) \/ Call(t)
         \/ \E u \in Users : Open(u) \/ UseFile(u) \/ Close(u)
  PROVE  TypeOK'
<1>1. UNCHANGED <<device, clobbered>>
  BY CallFrame
<1> USE DEF IInv, TypeOK
<1>2. CASE Unchecked \/ UseAttr \/ Consume \/ \E u \in Users : Open(u) \/ UseFile(u) \/ Close(u)
  <2>1. UNCHANGED <<timer, cb, nodes, callers>> /\ open' \subseteq Users
    BY <1>2 DEF Unchecked, UseAttr, Consume, Access, Open, UseFile, Close
  <2>2. QED BY <1>1, <2>1
<1>3. CASE Expire \/ Callback
  <2>1. /\ UNCHANGED <<open, callers>> /\ cb' \in {"idle", "lock", "free", "add", "unlock", "rearm"}
        /\ lock' \in {lock, TimerCpu, Nobody}
    BY <1>3 DEF Expire, Callback, CbGoto, CbLock, CbFree, CbAdd, CbUnlock, CbRearm
  <2>2. timer' = timer \/ timer' = TRUE \/ timer' = FALSE
    BY <1>3 DEF Expire, Callback, CbLock, CbFree, CbAdd, CbUnlock, CbRearm
  <2>3. list' \subseteq live' /\ live' \subseteq Nodes
    <3>1. CASE CbFree
      BY <3>1 DEF CbFree
    <3>2. CASE CbAdd
      BY <3>2 DEF CbAdd
    <3>3. CASE Expire \/ CbLock \/ CbUnlock \/ CbRearm
      BY <3>3 DEF Expire, CbLock, CbUnlock, CbRearm
    <3>4. QED BY <1>3, <3>1, <3>2, <3>3 DEF Callback
  <2>4. timer' \in BOOLEAN
    BY <2>2
  <2>5. lock' \in Threads \cup {TimerCpu, Nobody}
    BY <2>1
  <2>6. QED BY <1>1, <2>1, <2>3, <2>4, <2>5
<1>4. ASSUME NEW t \in Threads, ShowList(t) \/ Call(t) PROVE TypeOK'
  <2>1. UNCHANGED <<open, timer, cb, list, live>>
    BY <1>4 DEF ShowList, Call, SpinLock, Walk, Unlock, TGoto
  <2>2. step' \in [Threads -> {"out", "lock", "walk", "unlock"}]
    BY <1>4 DEF ShowList, Call, SpinLock, Walk, Unlock, TGoto
  <2>3. cpu' \in [Threads -> Cpus] /\ lock' \in {lock, t, Nobody}
    BY <1>4 DEF ShowList, Call, SpinLock, Walk, Unlock
  <2>4. cursor' \in [Threads -> Nodes \cup {Nobody}]
    BY <1>4 DEF ShowList, Call, SpinLock, Walk, Unlock
  <2>5. QED BY <1>1, <2>1, <2>2, <2>3, <2>4
<1>5. QED BY <1>2, <1>3, <1>4

(* Each access that goes wrong is one of those known.                      *)
LEMMA OopsStep ==
  ASSUME IInv, Next
  PROVE  OopsesAreKnown'
<1>0. oops = <<>>
  BY DEF Next
<1> USE DEF IInv, Uses
<1>1. CASE oops' = <<>>
  BY <1>1 DEF OopsesAreKnown
<1>2. CASE Bind \/ Probe \/ Unbind \/ Remove \/ RunWork \/ RunThread
  <2>1. CASE KthreadStop
    BY <1>1, <2>1 DEF KthreadStop, OopsesAreKnown
  <2>2. CASE ~KthreadStop
    BY <1>0, <1>1, <1>2, <2>2 DEF Bind, Probe, MapRng, ArmTimer, AddCdev, StartWork, InitList,
       InitLock, StartThread, AddDmaAttr, AllocDma, Unbind, Remove, RemoveFile, Iounmap,
       TimerDeleteSync, PutClk, FreeDma, DelCdev, CancelWork, WorkDone, Gone, RunWork,
       RunThread, NoSideEffect
  <2>3. QED BY <2>1, <2>2
<1>3. CASE Unchecked
  BY <1>3 DEF Unchecked, OopsesAreKnown
<1>4. CASE Expire \/ Callback
  <2>1. CASE CbFree
    <3>1. epc \in (Mapped \ {"regs"}) \cup {"unmapped"}
      BY <2>1 DEF CbFree, CbGoto, Running
    <3>2. oops' # <<>> => oops' = <<"timer", "list">> /\ epc \in {"timer", "cdev", "work"}
      BY <2>1, <3>1 DEF CbFree, Made, Mapped, Listed
    <3>3. QED BY <2>1, <3>2 DEF CbFree, CbGoto, OopsesAreKnown
  <2>2. CASE CbAdd
    <3>1. epc \in (Mapped \ {"regs"}) \cup {"unmapped"}
      BY <2>2 DEF CbAdd, CbGoto, Running
    <3>2. oops' # <<>> => oops' = <<"timer", "regs">> /\ epc = "unmapped"
      BY <1>0, <2>2, <3>1 DEF CbAdd, Made, Mapped
    <3>3. QED BY <2>2, <3>2 DEF CbAdd, CbGoto, OopsesAreKnown
  <2>3. CASE Expire \/ CbLock \/ CbUnlock \/ CbRearm
    BY <1>0, <1>1, <2>3 DEF Expire, CbLock, CbUnlock, CbRearm
  <2>4. QED BY <1>4, <2>1, <2>2, <2>3 DEF Callback
<1>5. ASSUME NEW t \in Threads, ShowList(t) \/ Call(t) PROVE OopsesAreKnown'
  <2>1. CASE Walk(t)
    <3>1. ~clobbered => cursor[t] \in live \cup {Nobody}
      BY <2>1 DEF Walk, TGoto, AtList
    <3>2. clobbered' = clobbered
      BY <2>1 DEF Walk, TGoto
    <3>3. oops' # <<>> => oops' = <<"attr", "node">> /\ clobbered'
      BY <2>1, <3>1, <3>2 DEF Walk, TypeOK
    <3>4. epc' \in Listed \cup {"files"}
      BY <2>1 DEF Walk, TGoto, Running, Inside
    <3>5. QED BY <3>3, <3>4 DEF OopsesAreKnown
  <2>2. CASE ShowList(t) \/ SpinLock(t) \/ Unlock(t)
    BY <1>0, <1>1, <2>2 DEF ShowList, SpinLock, Unlock
  <2>3. QED BY <1>5, <2>1, <2>2 DEF Call
<1>6. CASE UseAttr
  <2>1. epc' = epc
    BY <1>6 DEF UseAttr, Access
  <2>2. \/ oops' = <<"attr", "regs">> /\ "random" \in attrs /\ "regs" \notin have
        \/ oops' = <<"attr", "pwm">> /\ "duty_ns" \in attrs
        \/ oops' = <<"attr", "dma">> /\ "dma" \in attrs
        \/ oops' = <<>>
    BY <1>6 DEF UseAttr, Access
  <2>3. QED BY <1>1, <2>1, <2>2 DEF OopsesAreKnown, Made, Published, Mapped, Listed
<1>7. CASE Consume
  <2>1. oops' = <<>> \/ (oops' = <<"consumer", "hw">> /\ "hw" \notin have /\ "lookup" \in have)
    BY <1>7 DEF Consume, Access
  <2>2. epc' = epc
    BY <1>7 DEF Consume, Access
  <2>3. QED BY <1>1, <2>1, <2>2 DEF OopsesAreKnown, Made
<1>8. CASE \E u \in Users : Open(u) \/ UseFile(u) \/ Close(u)
  <2>1. CASE \E u \in Users : Open(u)
    BY <1>0, <1>1, <2>1 DEF Open
  <2>2. CASE \E u \in Users : UseFile(u) \/ Close(u)
    <3>1. PICK x \in {"mem", "regs", "clk", "dma"} :
              \/ oops' = <<>>
              \/ /\ oops' = <<"file", x>> /\ x \notin have
                 /\ x # "mem" => "mem" \in have
      BY <2>2 DEF UseFile, Access, Close
    <3>2. open # {} /\ epc' = epc
      BY <2>2 DEF UseFile, Access, Close
    <3>3. QED BY <1>1, <3>1, <3>2 DEF OopsesAreKnown, Made, Mapped, HasDev, Listed, TypeOK
  <2>3. QED BY <1>8, <2>1, <2>2
<1>9. QED BY <1>2, <1>3, <1>4, <1>5, <1>6, <1>7, <1>8 DEF Next

-----------------------------------------------------------------------------
(* The inductive invariant, for any number of processes, CPUs and nodes:   *)
(* what ian_clk_probe has made and ian_clk_remove has taken away at each of*)
(* their stages, and who may be inside at that stage.                      *)
THEOREM Invariance == Spec => []IInv
<1>1. Init => IInv
  <2> SUFFICES ASSUME Init PROVE IInv
    OBVIOUS
  <2>1. timer = FALSE /\ clobbered = FALSE
    BY DEF Init
  <2>2. TypeOK
    BY <2>1 DEF Init, TypeOK
  <2>3. Made /\ Published /\ Running /\ OopsesAreKnown
    BY <2>1 DEF Init, Made, Published, Running, Inside, OopsesAreKnown, Mapped, HasDev, Listed
  <2>4. AtList
    BY <2>1 DEF Init, AtList, BhOff
  <2>5. QED BY <2>2, <2>3, <2>4 DEF IInv
<1>2. ASSUME IInv, Next PROVE IInv'
  <2>1. TypeOK'
    BY <1>2, DeviceTypes, CallTypes DEF Next
  <2>2. QED BY <1>2, <2>1, MadeStep, RunningStep, ListStep, OopsStep DEF IInv
<1>3. ASSUME IInv, UNCHANGED vars PROVE IInv'
  BY <1>3 DEF IInv, TypeOK, Made, Published, Running, Inside, AtList, BhOff, OopsesAreKnown
<1>4. QED BY <1>1, <1>2, <1>3, PTL DEF Spec

(* ian_clk.c uses what is not there in the races listed with the property, *)
(* and in no others (ian_clk_probe, ian_clk_remove, ian_timer_callback and *)
(* the file operations).                                                   *)
THEOREM AccessesAreSafeElsewhere == Spec => []OopsesAreKnown
<1>1. IInv => OopsesAreKnown
  BY DEF IInv
<1>2. QED BY Invariance, <1>1, PTL

(* ian_timer_callback and nodelist_show share the list without freeing what*)
(* the other reads and without a deadlock on one CPU, unless spin_lock_init*)
(* comes while somebody is there.                                          *)
THEOREM ListIsShared == Spec => []ListInv
<1>1. ASSUME IInv PROVE ListInv
  <2>1. Cardinality(live) <= 1
    <3>1. CASE live = {}
      <4>1. Cardinality(live) = 0
        BY <3>1, FS_EmptySet, Zenon
      <4>2. QED BY <4>1
    <3>2. ASSUME NEW n \in Nodes, live = {n} PROVE Cardinality(live) <= 1
      <4>1. Cardinality(live) = 1
        BY <3>2, FS_Singleton, Zenon
      <4>2. QED BY <4>1
    <3>3. QED BY <1>1, <3>1, <3>2 DEF IInv, AtList
  <2>2. cb # "idle" => ~BhOff(TimerCpu)
    BY <1>1 DEF IInv, AtList
  <2>3. cb = "lock" => \A t \in Threads : lock = t => cpu[t] # TimerCpu
    BY <1>1, <2>2 DEF IInv, AtList, BhOff
  <2>4. ~clobbered => \A t \in Threads : step[t] \in {"walk", "unlock"} => lock = t
    BY <1>1 DEF IInv, AtList
  <2>5. QED BY <1>1, <2>1, <2>2, <2>3, <2>4 DEF IInv, ListInv
<1>2. QED BY Invariance, <1>1, PTL

(* When ian_clk_remove returns, the timer, the work, the thread and the    *)
(* callers of nodelist_show are over; what stays is at most one node and   *)
(* the lookup of the clock.  Whoever still runs into the driver has        *)
(* /dev/ian open or asks for that clock.                                   *)
THEOREM RemoveLeavesNothing == Spec => []GoneIsQuiet
<1>1. ASSUME IInv, epc = "gone"
      PROVE  /\ ~timer /\ cb = "idle" /\ work = "done" /\ thread = "done"
             /\ \A t \in Threads : step[t] = "out"
             /\ have = {"lookup"} /\ attrs = {} /\ lock = Nobody
             /\ oops # <<>> => oops[1] \in {"file", "consumer"}
  <2>1. ~timer /\ cb = "idle" /\ work = "done" /\ thread = "done"
    BY <1>1 DEF IInv, Running, Mapped
  <2>2. \A t \in Threads : step[t] = "out"
    BY <1>1 DEF IInv, Running, Inside, Listed
  <2>3. lock = Nobody
    BY <1>1, <2>1, <2>2 DEF IInv, TypeOK, AtList
  <2>4. have = {"lookup"} /\ attrs = {}
    <3>1. /\ "lookup" \in have /\ "mem" \notin have /\ "hw" \notin have /\ "regs" \notin have
          /\ "clk" \notin have /\ "cdev" \notin have /\ "list" \notin have
          /\ "pwm" \notin have /\ "dma" \notin have
      BY <1>1 DEF IInv, Made, Mapped, HasDev, Listed
    <3>2. have \subseteq Things /\ attrs \subseteq Attributes
      BY <1>1 DEF IInv, TypeOK
    <3>3. attrs = {}
      BY <1>1, <3>2 DEF IInv, Published, Mapped, Listed
    <3>4. QED BY <3>1, <3>2, <3>3
  <2>5. oops # <<>> => oops[1] \in {"file", "consumer"}
    <3>1. oops # <<>> =>
            oops \in {<<"file", "dma">>, <<"file", "mem">>, <<"consumer", "hw">>}
      BY <1>1, <2>1 DEF IInv, OopsesAreKnown, Listed
    <3>2. QED BY <3>1
  <2>6. QED BY <2>1, <2>2, <2>3, <2>4, <2>5
<1>2. IInv /\ ListInv => GoneIsQuiet
  BY <1>1 DEF GoneIsQuiet, ListInv
<1>3. QED BY Invariance, ListIsShared, <1>2, PTL
=============================================================================
