------------------------------ MODULE FifoDemo ------------------------------
(***************************************************************************)
(* fifo_demo.c: processes push and pop through sysfs attributes; the kfifo *)
(* itself knows no locking, so fifo_lock is around its two halves: the copy*)
(* of the data and the move of the index.  One unsigned int is the unit:   *)
(* the 128 bytes hold a whole number of them, so no access is partial.     *)
(***************************************************************************)
EXTENDS Naturals, Sequences

CONSTANTS
    Procs,
    Slots,         \* FIFO_SIZE / sizeof(unsigned int)
    Wrap,          \* the indices are counted modulo 2^32, a multiple of Slots
    MaxPush        \* bound: values pushed in a behaviour

VARIABLES
    data,          \* the buffer
    in, out,       \* kfifo->in, kfifo->out
    lock,          \* who holds fifo_lock
    pc,            \* where each process is in in_store, out_show or status_show
    attr,          \* the attribute it is in
    val,           \* what it pushes or has popped
    pushed, popped,    \* history: accepted by in_store, returned by out_show
    files,         \* the attributes that are there
    epc            \* where kfifo_demo_init or kfifo_demo_exit is

kfifo == <<data, in, out>>
calls == <<lock, pc, attr, val, pushed, popped>>
vars  == <<kfifo, calls, files, epc>>

Order == <<"in", "out", "status">>

Init ==
    /\ data = [s \in 0 .. Slots - 1 |-> 0] /\ in = 0 /\ out = 0
    /\ lock = {} /\ pc = [p \in Procs |-> "idle"]
    /\ attr = [p \in Procs |-> "status"] /\ val = [p \in Procs |-> 0]
    /\ pushed = 0 /\ popped = 0
    /\ files = << >> /\ epc = "init"

Used == (in + Wrap - out) % Wrap

Goto(p, from, to) ==
    /\ pc[p] = from /\ pc' = [pc EXCEPT ![p] = to]
    /\ UNCHANGED <<files, epc>>

Call(p) ==
    /\ \E i \in DOMAIN files :
           /\ files[i] = "in" => pushed < MaxPush
           /\ attr' = [attr EXCEPT ![p] = files[i]]
    /\ Goto(p, "idle", "lock")
    /\ UNCHANGED <<kfifo, lock, val, pushed, popped>>

Held_Not == FALSE    \* mutant: no lock
Held == lock # {}

(* spin_lock; kfifo_in finds room or not, kfifo_out a value or not.        *)
Lock(p) ==
    /\ ~Held /\ lock' = lock \cup {p}
    /\ Goto(p, "lock", CASE attr[p] = "in" /\ Used < Slots -> "copy"
                         [] attr[p] = "out" /\ Used > 0    -> "copy"
                         [] OTHER                          -> "unlock")
    /\ UNCHANGED <<kfifo, attr, val, pushed, popped>>

(* __kfifo_in and __kfifo_out: the data first, at the index masked.        *)
Copy(p) ==
    /\ Goto(p, "copy", "move")
    /\ IF attr[p] = "in"
       THEN data' = [data EXCEPT ![in % Slots] = pushed + 1] /\ UNCHANGED val
       ELSE val' = [val EXCEPT ![p] = data[out % Slots]] /\ UNCHANGED data
    /\ UNCHANGED <<in, out, lock, attr, pushed, popped>>

Move(p) ==
    /\ Goto(p, "move", "unlock")
    /\ IF attr[p] = "in"
       THEN in' = (in + 1) % Wrap /\ pushed' = pushed + 1 /\ UNCHANGED <<out, popped>>
       ELSE out' = (out + 1) % Wrap /\ popped' = popped + 1 /\ UNCHANGED <<in, pushed>>
    /\ UNCHANGED <<data, lock, attr, val>>

(* ENOSPC, `(empty)' or the value.                                         *)
Unlock(p) ==
    /\ Goto(p, "unlock", "idle")
    /\ lock' = lock \ {p} /\ val' = [val EXCEPT ![p] = 0]
    /\ UNCHANGED <<kfifo, attr, pushed, popped>>

(* kfifo_demo_init; sysfs_create_file may fail.                            *)
Load ==
    /\ epc = "init"
    /\ \/ files # Order /\ files' = Append(files, Order[Len(files) + 1]) /\ UNCHANGED epc
       \/ epc' = (IF files = Order THEN "loaded" ELSE "undo") /\ UNCHANGED files
    /\ UNCHANGED <<kfifo, calls>>

Unload == epc = "loaded" /\ epc' = "exit" /\ UNCHANGED <<kfifo, calls, files>>

(* sysfs_remove_file: nobody gets in any more, then wait for those inside. *)
Drained == \A p \in Procs : pc[p] = "idle" \/ \E i \in DOMAIN files : files[i] = attr[p]

RemoveFile ==
    /\ files # << >> /\ Drained
    /\ \/ epc = "exit" /\ files' = Tail(files)
       \/ epc = "undo" /\ files' = SubSeq(files, 1, Len(files) - 1)
    /\ UNCHANGED <<kfifo, calls, epc>>

KfifoFree ==
    /\ epc \in {"exit", "undo"} /\ files = << >> /\ Drained
    /\ epc' = "freed"
    /\ UNCHANGED <<kfifo, calls, files>>

Next ==
    \/ \E p \in Procs : Call(p) \/ Lock(p) \/ Copy(p) \/ Move(p) \/ Unlock(p)
    \/ Load \/ Unload \/ RemoveFile \/ KfifoFree

-----------------------------------------------------------------------------
(* What is in the kfifo is what was pushed and not yet popped, in order,   *)
(* also when the indices wrap around; a pop returns the oldest; and        *)
(* kfifo_free comes when nobody is inside.                                 *)
KfifoInOrder ==
    /\ \A p \in Procs : pc[p] = "move" /\ attr[p] = "out" => val[p] = popped + 1
    /\ lock = {} =>
           /\ Used = pushed - popped /\ Used <= Slots
           /\ \A k \in 1 .. Used : data[(out + k - 1) % Slots] = popped + k
    /\ epc = "freed" => \A p \in Procs : pc[p] = "idle"

(* The inductive invariant: whoever is in the middle of kfifo_in or        *)
(* kfifo_out holds fifo_lock, alone; the indices are the histories modulo  *)
(* Wrap; every value not yet popped lies where its number says; and a half *)
(* done call finds the room or the value it has counted on.                *)
Attrs  == {"in", "out", "status"}
Inside == {"copy", "move", "unlock"}

Locked ==
    /\ pc \in [Procs -> {"idle", "lock"} \cup Inside] /\ attr \in [Procs -> Attrs]
    /\ val \in [Procs -> Nat]
    /\ lock = {p \in Procs : pc[p] \in Inside}
    /\ \A p, q \in lock : p = q

Counted ==
    /\ pushed \in Nat /\ popped \in Nat /\ popped <= pushed /\ pushed - popped <= Slots
    /\ in = pushed % Wrap /\ out = popped % Wrap

Stored ==
    /\ data \in [0 .. Slots - 1 -> Nat]
    /\ \A k \in popped + 1 .. pushed : data[(k - 1) % Slots] = k

Halfway ==
    \A p \in Procs :
        /\ pc[p] \in {"copy", "move"} =>
               \/ attr[p] = "in" /\ pushed - popped < Slots
               \/ attr[p] = "out" /\ popped < pushed
        /\ pc[p] = "move" => IF attr[p] = "in" THEN data[pushed % Slots] = pushed + 1
                                              ELSE val[p] = popped + 1

Loading ==
    /\ epc \in {"init", "loaded", "undo", "exit", "freed"} /\ files \in Seq(Attrs)
    /\ epc = "init" => Len(files) <= Len(Order) /\ files = SubSeq(Order, 1, Len(files))
    /\ epc = "freed" => files = << >> /\ \A p \in Procs : pc[p] = "idle"

IInv == Locked /\ Counted /\ Stored /\ Halfway /\ Loading
=============================================================================
