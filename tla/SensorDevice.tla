---------------------------- MODULE SensorDevice ----------------------------
(***************************************************************************)
(* The life of struct sensor_dev in sensor_sample_todo.c: what sensor_probe*)
(* acquires and its goto ladder gives back, who holds dev->ref, and which  *)
(* threads may still use the memory when sensor_remove or the last         *)
(* sensor_release frees it.                                                *)
(*                                                                         *)
(* The driver core runs probe and remove one after the other.  Files are   *)
(* opened and closed, and the sysfs attributes read and written, at any    *)
(* time.  An open takes two steps: the kernel finds the cdev, then calls   *)
(* sensor_open.  So does the last close: sensor_release, then the kernel's *)
(* cdev_put.  dev->cdev is a member of the struct, so all four touch its   *)
(* memory; a file that touches it after it was freed has strayed, and the  *)
(* model follows that file no further.                                     *)
(***************************************************************************)
EXTENDS Integers, FiniteSets

CONSTANTS
    Files,         \* open files of /dev/sensor_sample
    Showers,       \* threads that read or write period_ms or stats
    FailSteps      \* values the module parameter fail_step may take

ASSUME FilesAssumption == IsFiniteSet(Files)
ASSUME FailAssumption  == FailSteps \subseteq 1 .. 5

VARIABLES
    stage,         \* where the driver core is with the device
    k,             \* rungs of the ladder acquired, or still to be given back
    held,          \* rungs in force
    failedAt,      \* fail_step that ended the probe, 0 for none
    mem,           \* the memory of struct sensor_dev
    ref,           \* dev->ref
    fpc,           \* fpc[f]: where f is between open and close
    showing        \* threads inside period_ms_show, period_ms_store, stats_show

ladderVars == <<k, held, failedAt>>
memVars    == <<mem, ref>>
vars == <<stage, ladderVars, memVars, fpc, showing>>

(* The rungs of the probe's ladder by number. *)
FIFO == 1
CDEV == 3
Rungs == 1 .. 7       \* fifo, region, cdev, class, node, period_ms, stats
Attrs == {6, 7}

TypeOK ==
    /\ stage \in {"probe", "bound", "unwind", "remove", "failed", "gone"}
    /\ k \in 0 .. 7 /\ held \subseteq Rungs
    /\ failedAt \in 0 .. 5
    /\ mem \in {"live", "freed"} /\ ref \in Nat
    /\ fpc \in [Files -> {"closed", "found", "open", "released",
                          "wild_open", "wild_call", "wild_put"}]
    /\ showing \subseteq Showers \X Attrs

(* The probe has its memory and has run kref_init. *)
Init ==
    /\ stage = "probe" /\ k = 0 /\ held = {} /\ failedAt = 0
    /\ mem = "live" /\ ref = 1
    /\ fpc = [f \in Files |-> "closed"]
    /\ showing = {}

(***************************************************************************)
(* sensor_probe.                                                           *)
(***************************************************************************)
Acquire ==
    /\ stage = "probe" /\ k < 7
    /\ k' = k + 1 /\ held' = held \cup {k + 1}
    /\ UNCHANGED <<stage, failedAt, memVars, fpc, showing>>

(* The next call fails, or the device property is bad: back from rung k. *)
ProbeFails ==
    /\ stage = "probe" /\ stage' = "unwind"
    /\ UNCHANGED <<ladderVars, memVars, fpc, showing>>

LabelOf_RungBelow(n) == IF n = 3 THEN 2 ELSE n - 1    \* mutant: one label too low

(* The label to which fail_step = n jumps, as the rung it gives back first: *)
(* fail_step = 3 goes to err_region, although the cdev has been added.     *)
LabelOf(n) == IF n = 3 THEN 2 ELSE n

InjectFailure ==
    /\ stage = "probe" /\ k \in FailSteps
    /\ stage' = "unwind" /\ failedAt' = k /\ k' = LabelOf(k)
    /\ UNCHANGED <<held, memVars, fpc, showing>>

ProbeSucceeds ==
    /\ stage = "probe" /\ k = 7
    /\ stage' = "bound"
    /\ UNCHANGED <<ladderVars, memVars, fpc, showing>>

(***************************************************************************)
(* Giving back, on the ladder of the probe and in sensor_remove.           *)
(***************************************************************************)
Drained_NoWait(rung) == TRUE    \* mutant: nobody waits for the attribute's users

(* device_remove_file waits until nobody is inside the attribute. *)
Drained(rung) == \A s \in Showers : <<s, rung>> \notin showing

GiveBack ==
    /\ \/ stage = "unwind" /\ k > 0
       \/ stage = "remove" /\ k > FIFO    \* the kfifo goes with the memory
    /\ Drained(k)
    /\ k' = k - 1 /\ held' = held \ {k}
    /\ UNCHANGED <<stage, failedAt, memVars, fpc, showing>>

(* err_free: kfree, whoever else has a reference. *)
UnwindEnds ==
    /\ stage = "unwind" /\ k = 0
    /\ stage' = "failed" /\ mem' = "freed"
    /\ UNCHANGED <<ladderVars, ref, fpc, showing>>

Unbind ==
    /\ stage = "bound" /\ stage' = "remove"
    /\ UNCHANGED <<ladderVars, memVars, fpc, showing>>

(* kref_put(&dev->ref, sensor_dev_free): the last one frees kfifo and memory. *)
KrefPut ==
    /\ ref' = ref - 1
    /\ mem' = IF ref = 1 THEN "freed" ELSE mem
    /\ held' = IF ref = 1 THEN held \ {FIFO} ELSE held

LastRung == FIFO

RemoveEnds ==
    /\ stage = "remove" /\ k = LastRung
    /\ stage' = "gone"
    /\ KrefPut
    /\ UNCHANGED <<k, failedAt, fpc, showing>>

(***************************************************************************)
(* open, close, and the attributes.                                        *)
(***************************************************************************)
FGoto(f, from, to) == fpc[f] = from /\ fpc' = [fpc EXCEPT ![f] = to]

(* chrdev_open finds the cdev and takes a reference on the cdev alone. *)
FindCdev(f) ==
    /\ CDEV \in held
    /\ FGoto(f, "closed", "found")
    /\ UNCHANGED <<stage, ladderVars, memVars, showing>>

RefAfterGet_None == ref    \* mutant: no kref_get
RefAfterGet == ref + 1

SensorOpen(f) ==
    /\ mem = "live"
    /\ FGoto(f, "found", "open")
    /\ ref' = RefAfterGet
    /\ UNCHANGED <<stage, ladderVars, mem, showing>>

Strayed == [found |-> "wild_open", open |-> "wild_call", released |-> "wild_put"]

(* The next access of f to the memory, when that is gone: undefined from   *)
(* here.  found: sensor_open's kref_get; open: sensor_release or another   *)
(* call; released: cdev_put of the cdev in the struct.                     *)
Wild(f) ==
    /\ mem = "freed"
    /\ \E from \in DOMAIN Strayed : FGoto(f, from, Strayed[from])
    /\ UNCHANGED <<stage, ladderVars, memVars, showing>>

SensorRelease(f) ==
    /\ mem = "live"
    /\ FGoto(f, "open", "released")
    /\ KrefPut
    /\ UNCHANGED <<stage, k, failedAt, showing>>

(* __fput: cdev_put(inode->i_cdev) after sensor_release. *)
CdevPut(f) ==
    /\ mem = "live"
    /\ FGoto(f, "released", "closed")
    /\ UNCHANGED <<stage, ladderVars, memVars, showing>>

EnterAttr(s) ==
    /\ \A a \in Attrs : <<s, a>> \notin showing
    /\ \E a \in Attrs \cap held : showing' = showing \cup {<<s, a>>}
    /\ UNCHANGED <<stage, ladderVars, memVars, fpc>>

LeaveAttr(s) ==
    /\ \E a \in Attrs : <<s, a>> \in showing /\ showing' = showing \ {<<s, a>>}
    /\ UNCHANGED <<stage, ladderVars, memVars, fpc>>

Next ==
    \/ Acquire \/ ProbeFails \/ InjectFailure \/ ProbeSucceeds
    \/ GiveBack \/ UnwindEnds \/ Unbind \/ RemoveEnds
    \/ \E f \in Files : \/ FindCdev(f) \/ SensorOpen(f) \/ Wild(f)
                        \/ SensorRelease(f) \/ CdevPut(f)
    \/ \E s \in Showers : EnterAttr(s) \/ LeaveAttr(s)

Spec == Init /\ [][Next]_vars

(***************************************************************************)
(* Properties.                                                             *)
(***************************************************************************)

Opened == {f \in Files : fpc[f] = "open"}

(* read, poll, ioctl, fasync and release of an open file find the memory,  *)
(* however long the device has been unbound, and as long as any file is    *)
(* open an open or a close that is half done finds it too.  The exceptions *)
(* are all there are: the files of a probe that failed, for err_free frees *)
(* without looking at ref; and, once the device is gone and no file is     *)
(* open, an open that found the cdev before cdev_del and calls sensor_open *)
(* now, and the cdev_put after the sensor_release (or beside the removal)  *)
(* that dropped the last reference.                                        *)
CallsFindMemory ==
    \A f \in Files :
        /\ fpc[f] \in {"open", "wild_call"} => mem = "live" \/ stage = "failed"
        /\ fpc[f] \in {"wild_open", "wild_put"} =>
              stage = "failed" \/ (stage = "gone" /\ Opened = {})

(* An attribute is never shown or stored after the memory has gone. *)
AttrsFindMemory == showing # {} => mem = "live"

(* What is registered with the kernel points into live memory, and stands  *)
(* on the registrations made before it: teardown is the reverse of setup.  *)
(* The exception is fail_step = 3, which leaves the cdev behind.           *)
RegisteredIsLive ==
    failedAt # 3 => /\ held # {} => mem = "live"
                    /\ \A i \in held : 1 .. i \subseteq held

(* A device that is gone, or was never bound, has given back everything as *)
(* soon as the last file is closed.                                        *)
NothingLeaks ==
    /\ stage = "failed" => mem = "freed" /\ (held = {} \/ failedAt = 3)
    /\ stage = "gone" /\ (\A f \in Files : fpc[f] # "open") => mem = "freed" /\ held = {}

(* The memory is freed by one thread only: the references are the driver's *)
(* own and one of every open file.                                         *)
Counted == mem = "live" => ref = Cardinality(Opened) + (IF stage = "gone" THEN 0 ELSE 1)

(***************************************************************************)
(* The inductive invariant: which rungs are in force at each stage.        *)
(***************************************************************************)
Ladder ==
    /\ stage \in {"probe", "bound", "remove"} => held = 1 .. k /\ failedAt = 0
    /\ stage = "bound" => k = 7
    /\ stage = "remove" => k >= 1
    /\ stage = "unwind" => held = (1 .. k) \cup IF failedAt = 3 THEN {CDEV} ELSE {}
    /\ stage = "unwind" /\ failedAt = 3 => k <= 2
    /\ stage = "failed" => held = IF failedAt = 3 THEN {CDEV} ELSE {}
    /\ stage = "gone" => held = (IF mem = "live" THEN {FIFO} ELSE {}) /\ failedAt = 0

Lifetime ==
    /\ stage = "failed" => mem = "freed"
    /\ mem = "freed" => stage \in {"failed", "gone"}
    /\ mem = "live" => ref > 0
    /\ stage = "gone" /\ mem = "freed" => \A f \in Files : fpc[f] # "open"
    /\ \A f \in Files : fpc[f] \in {"wild_open", "wild_call", "wild_put"} => mem = "freed"
    /\ \A f \in Files : fpc[f] = "wild_call" => stage = "failed"

Inside == \A s \in Showers, a \in Attrs : <<s, a>> \in showing => a \in held

IInv == TypeOK /\ Counted /\ Ladder /\ Lifetime /\ Inside
=============================================================================
