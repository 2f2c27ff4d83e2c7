----------------------------- MODULE MutexDemo ------------------------------
(***************************************************************************)
(* mutex_demo.c: two threads sleep inside a mutex; with evil=1 worker1     *)
(* also takes cross_mutex and worker0 gives it back.                       *)
(***************************************************************************)
EXTENDS Naturals, FiniteSets

Workers == {0, 1}

VARIABLES
    evil,          \* the parameter, written at any time
    owner,         \* of my_mutex: a set of at most one worker
    cross,         \* cross_mutex is locked
    in_cs,
    pc,            \* where each worker_fn is
    stop,          \* who has been told to stop
    epc            \* where mtx_exit is

vars == <<evil, owner, cross, in_cs, pc, stop, epc>>

Init ==
    /\ evil \in BOOLEAN /\ cross = FALSE
    /\ owner = {} /\ in_cs = 0
    /\ pc = [w \in Workers |-> "test"]
    /\ stop = {} /\ epc = "loaded"

Goto(w, from, to) ==
    /\ pc[w] = from /\ pc' = [pc EXCEPT ![w] = to]
    /\ UNCHANGED <<evil, stop, epc>>

Test(w) ==
    /\ Goto(w, "test", IF w \in stop THEN "done" ELSE "lock")
    /\ UNCHANGED <<owner, cross, in_cs>>

Locked_Not == FALSE    \* mutant: no lock
Locked == owner # {}

Lock(w) ==
    /\ ~Locked
    /\ Goto(w, "lock", "enter")
    /\ owner' = owner \cup {w}
    /\ UNCHANGED <<cross, in_cs>>

(* in_cs goes up; then `if (evil)'.                                        *)
Enter(w) ==
    /\ Goto(w, "enter", IF evil THEN "cross" ELSE "leave")
    /\ in_cs' = in_cs + 1
    /\ UNCHANGED <<owner, cross>>

(* worker1 locks, worker0 unlocks what it does not own: the fast path      *)
(* fails, the slow path clears the owner without DEBUG_MUTEXES.            *)
Cross(w) ==
    /\ w = 1 => ~cross
    /\ Goto(w, "cross", "leave")
    /\ cross' = (w = 1)
    /\ UNCHANGED <<owner, in_cs>>

Leave(w) ==
    /\ Goto(w, "leave", "unlock")
    /\ in_cs' = in_cs - 1
    /\ UNCHANGED <<owner, cross>>

Unlocked(w) == owner \ {w}

Unlock(w) ==
    /\ Goto(w, "unlock", "rest")
    /\ owner' = Unlocked(w)
    /\ UNCHANGED <<cross, in_cs>>

Rest(w) == Goto(w, "rest", "test") /\ UNCHANGED <<owner, cross, in_cs>>

Toggle == evil' = ~evil /\ UNCHANGED <<owner, cross, in_cs, pc, stop, epc>>

(* mtx_exit: kthread_stop one after the other.                             *)
Exit ==
    /\ \/ epc = "loaded" /\ epc' = "stopping0" /\ stop' = {0}
       \/ epc = "stopping0" /\ pc[0] = "done" /\ epc' = "stopping1" /\ stop' = {0, 1}
       \/ epc = "stopping1" /\ pc[1] = "done" /\ epc' = "unloaded" /\ UNCHANGED stop
    /\ UNCHANGED <<evil, owner, cross, in_cs, pc>>

Work(w) ==
    \/ Test(w) \/ Lock(w) \/ Enter(w) \/ Cross(w) \/ Leave(w) \/ Unlock(w) \/ Rest(w)

Next == (\E w \in Workers : Work(w)) \/ Toggle \/ Exit

-----------------------------------------------------------------------------
Inside(w) == pc[w] \in {"cross", "leave"}

(* in_cs is never above 1, whatever is done to cross_mutex, and it is the  *)
(* number of workers inside; after rmmod my_mutex is free.                 *)
Exclusion ==
    /\ in_cs <= 1 /\ in_cs = Cardinality({w \in Workers : Inside(w)})
    /\ epc = "unloaded" => owner = {} /\ in_cs = 0

(* The evil mode can hang in one way only: worker1 comes twice in a row    *)
(* and sleeps on the cross_mutex it holds itself, inside my_mutex.         *)
Blocked(w) ==
    \/ pc[w] = "done"
    \/ pc[w] = "lock" /\ Locked
    \/ pc[w] = "cross" /\ w = 1 /\ cross
StuckOnlyOnCross ==
    (\A w \in Workers : Blocked(w)) =>
        \/ \A w \in Workers : pc[w] = "done"
        \/ pc[1] = "cross" /\ cross /\ owner = {1}

MutexInv == Exclusion /\ StuckOnlyOnCross

(* What is inductive: who is between mutex_lock and mutex_unlock owns the  *)
(* mutex, and mtx_exit has passed only who is done.                        *)
Steps == {"test", "lock", "enter", "cross", "leave", "unlock", "rest", "done"}
Holds(w) == pc[w] \in {"enter", "cross", "leave", "unlock"}

IInv ==
    /\ evil \in BOOLEAN /\ cross \in BOOLEAN
    /\ pc \in [Workers -> Steps] /\ stop \subseteq Workers
    /\ epc \in {"loaded", "stopping0", "stopping1", "unloaded"}
    /\ owner \subseteq Workers /\ \A w \in Workers : w \in owner <=> Holds(w)
    /\ ~(Holds(0) /\ Holds(1))
    /\ in_cs = (IF \E w \in Workers : Inside(w) THEN 1 ELSE 0)
    /\ epc \in {"stopping1", "unloaded"} => pc[0] = "done"
    /\ epc = "unloaded" => pc[1] = "done"

(* As long as evil is 0 both workers get the mutex again and again until   *)
(* they are stopped ...                                                    *)
BothEnter == []~evil => \A w \in Workers : []<>(Inside(w) \/ w \in stop)

(* ... and rmmod returns.                                                  *)
UnloadCompletes == []~evil => (epc # "loaded" ~> epc = "unloaded")
=============================================================================
