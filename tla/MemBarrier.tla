----------------------------- MODULE MemBarrier -----------------------------
(***************************************************************************)
(* mem_barrier.c: a producer and a consumer on two weakly ordered cores    *)
(* hand one word over, round after round, through shared_flag.             *)
(*                                                                         *)
(* The memory is that of the target (ARMv8): a store waits in its core's   *)
(* buffer and the stores to different words leave it in any order unless a *)
(* barrier stands between them; a load may be satisfied before an earlier  *)
(* load of another word.  A core sees its own stores; a store after a      *)
(* branch on a load is not made before that load (producer 45-51, consumer *)
(* 85-89).                                                                 *)
(***************************************************************************)
EXTENDS DemoConstants

Words  == {"data", "flag"}
Values == 0 .. W - 1

VARIABLES
    mem,           \* shared_data and shared_flag in memory
    buf,           \* the producer's stores on their way: none or one per word
    seq,           \* g_seq
    ppc,           \* where the producer is
    clearing,      \* the consumer's shared_flag = 0 is on its way
    cpc,           \* where the consumer is
    f,             \* the consumer's f
    early,         \* a value of shared_data loaded ahead of shared_flag
    mismatch,      \* mismatch # 0
    epc,           \* where mb_exit is
    useBarrier,    \* use_barrier
    weak           \* history: it has been 0

prod == <<seq, ppc>>
cons == <<cpc, f, early, mismatch>>
bars == <<useBarrier, weak>>
vars == <<mem, buf, prod, clearing, cons, epc, bars>>

TypeOK ==
    /\ mem \in [Words -> Values]
    /\ buf \in [Words -> SUBSET Values]
    /\ seq \in Values /\ f \in Values
    /\ ppc \in {"test", "spin", "store", "wmb", "flag", "done"}
    /\ cpc \in {"test", "spin", "read", "clear", "done"}
    /\ clearing \in BOOLEAN /\ mismatch \in BOOLEAN
    /\ early \in SUBSET Values
    /\ epc \in {"loaded", "producer", "consumer", "unloaded"}
    /\ useBarrier \in BOOLEAN /\ weak \in BOOLEAN

Init ==
    /\ mem = [w \in Words |-> 0] /\ buf = [w \in Words |-> {}]
    /\ seq = 0 /\ f = 0
    /\ ppc = "test" /\ cpc = "test"
    /\ clearing = FALSE /\ mismatch = FALSE /\ early = {}
    /\ epc = "loaded"
    /\ useBarrier \in BOOLEAN /\ weak = ~useBarrier

-----------------------------------------------------------------------------
(***************************************************************************)
(* producer_fn.                                                            *)
(***************************************************************************)
PStop == epc = "producer"

PGoto(from, to) ==
    /\ ppc = from /\ ppc' = to
    /\ UNCHANGED <<mem, clearing, cons, epc, bars>>

PFlagSeen == IF buf["flag"] = {} THEN {mem["flag"]} ELSE buf["flag"]

Answered == PFlagSeen = {0}

GivesUp(stop) == stop

PTest == PGoto("test", IF PStop THEN "done" ELSE "spin") /\ UNCHANGED <<seq, buf>>

PSpin ==
    \/ Answered /\ PGoto("spin", "store") /\ UNCHANGED <<seq, buf>>
    \/ ~Answered /\ GivesUp(PStop) /\ PGoto("spin", "done") /\ UNCHANGED <<seq, buf>>

NextSeq(s) == (s + 1) % W

PStore ==
    /\ buf["data"] = {}
    /\ PGoto("store", "wmb")
    /\ seq' = NextSeq(seq)
    /\ buf' = [buf EXCEPT !["data"] = {NextSeq(seq)}]

Wmb_Missing == FALSE    \* mutant: no smp_wmb
Wmb == useBarrier

PWmb ==
    /\ Wmb => \A w \in Words : buf[w] = {}
    /\ PGoto("wmb", "flag")
    /\ UNCHANGED <<seq, buf>>

PFlag ==
    /\ buf["flag"] = {}
    /\ PGoto("flag", "test")
    /\ buf' = [buf EXCEPT !["flag"] = {seq}]
    /\ UNCHANGED seq

(* One of the producer's stores reaches the memory.                        *)
Drain(w) ==
    /\ \E x \in buf[w] : mem' = [mem EXCEPT ![w] = x]
    /\ buf' = [buf EXCEPT ![w] = {}]
    /\ UNCHANGED <<prod, clearing, cons, epc, bars>>

-----------------------------------------------------------------------------
(***************************************************************************)
(* consumer_fn.                                                            *)
(***************************************************************************)
CStop == epc = "consumer"

CGoto(from, to) == cpc = from /\ cpc' = to /\ UNCHANGED <<mem, buf, prod, epc, bars>>

CFlagSeen == IF clearing THEN 0 ELSE mem["flag"]

CTest ==
    /\ CGoto("test", IF CStop THEN "done" ELSE "spin")
    /\ UNCHANGED <<clearing, f, early, mismatch>>

CSpin ==
    \/ /\ CFlagSeen # 0
       /\ CGoto("spin", "read")
       /\ f' = CFlagSeen
       /\ UNCHANGED <<clearing, early, mismatch>>
    \/ /\ CFlagSeen = 0 /\ GivesUp(CStop)
       /\ CGoto("spin", "done")
       /\ UNCHANGED <<clearing, f, early, mismatch>>

Rmb == useBarrier

(* Without the barrier shared_data may be loaded before the loop ends.     *)
CEarly ==
    /\ ~Rmb
    /\ CGoto("spin", "spin")
    /\ early' = {mem["data"]}
    /\ UNCHANGED <<clearing, f, mismatch>>

CRead ==
    /\ CGoto("read", "clear")
    /\ \E d \in {mem["data"]} \cup early : mismatch' = (mismatch \/ d # f)
    /\ early' = {}
    /\ UNCHANGED <<clearing, f>>

Cleared_Not == FALSE    \* mutant: the flag is not cleared
Cleared == TRUE

CClear ==
    /\ CGoto("clear", "test")
    /\ clearing' = Cleared
    /\ UNCHANGED <<f, early, mismatch>>

CDrain ==
    /\ clearing
    /\ clearing' = FALSE /\ mem' = [mem EXCEPT !["flag"] = 0]
    /\ UNCHANGED <<buf, prod, cons, epc, bars>>

-----------------------------------------------------------------------------
(***************************************************************************)
(* mb_exit: kthread_stop of the producer, then of the consumer.            *)
(***************************************************************************)
Exit ==
    /\ \/ epc = "loaded" /\ epc' = "producer"
       \/ epc = "producer" /\ ppc = "done" /\ epc' = "consumer"
       \/ epc = "consumer" /\ cpc = "done" /\ epc' = "unloaded"
    /\ UNCHANGED <<mem, buf, prod, clearing, cons, bars>>

(* Somebody writes /sys/module/mem_barrier/parameters/use_barrier.          *)
Toggle ==
    /\ epc # "unloaded"
    /\ useBarrier' = ~useBarrier /\ weak' = TRUE
    /\ UNCHANGED <<mem, buf, prod, clearing, cons, epc>>

Producer == PTest \/ PSpin \/ PStore \/ PWmb \/ PFlag
Consumer == CTest \/ CSpin \/ CRead \/ CClear

Next ==
    \/ Producer \/ \E w \in Words : Drain(w)
    \/ Consumer \/ CEarly \/ CDrain
    \/ Exit \/ Toggle

Spec == Init /\ [][Next]_vars

-----------------------------------------------------------------------------
(* As long as the barriers have been on the consumer never sees a flag     *)
(* without its data.                                                       *)
NoMismatch == ~weak => ~mismatch

(* No round is lost or seen twice, with or without barriers: after f comes *)
(* the next number, and 0, which cannot be told from `no round', is left   *)
(* out when g_seq wraps around.                                            *)
Successor(s) == IF s = W - 1 THEN 1 ELSE s + 1
RoundsInOrder ==
    [][cpc = "spin" /\ cpc' = "read" => f' = Successor(f)]_vars

(* Rounds go on, also over the wrap-around, until the module is unloaded;  *)
(* then both threads hear kthread_stop wherever they are, in the inner     *)
(* loops too, and mb_exit returns.                                         *)
RoundsGoOn ==
    /\ []<>(cpc = "clear" \/ epc # "loaded")
    /\ epc # "loaded" ~> epc = "unloaded"

(* The handshake: who may have a store on its way, and what the words are  *)
(* when the other side looks at them.                                      *)
Quiet == mem["flag"] = 0 /\ ~clearing /\ buf["flag"] \subseteq {0}

Handover ==
    /\ ppc \in {"store", "wmb", "flag"} => Quiet
    /\ ppc \in {"wmb", "flag"} =>
           buf["data"] = {seq} \/ (buf["data"] = {} /\ mem["data"] = seq)
    /\ ppc = "flag" => \A w \in Words : buf[w] = {}
    /\ mem["flag"] # 0 \/ ~(buf["flag"] \subseteq {0}) =>
           /\ mem["data"] = seq /\ buf["data"] = {}
           /\ ppc \in {"test", "spin", "done"}
    /\ ~(buf["flag"] \subseteq {0}) => mem["flag"] = 0 /\ buf["flag"] = {seq}
    /\ mem["flag"] # 0 => mem["flag"] = seq /\ buf["flag"] = {}

Reader ==
    /\ clearing => mem["flag"] # 0 /\ cpc \notin {"read", "clear"}
    /\ cpc \in {"read", "clear"} => f # 0 /\ f = mem["flag"]
    /\ early = {}

(* With or without barriers: the flag goes to and fro, and seq is the round*)
(* after the one in f while there is something the consumer has not seen.  *)
Unread ==
    \/ ~(buf["flag"] \subseteq {0})
    \/ mem["flag"] # 0 /\ ~clearing /\ cpc \notin {"read", "clear"}

Wrapped == seq = 0 /\ f = W - 1

Rounds ==
    /\ ppc \in {"store", "wmb", "flag"} => Quiet
    /\ buf["flag"] # {} => mem["flag"] = 0 /\ buf["flag"] \in {{0}, {seq}}
    /\ mem["flag"] # 0 => mem["flag"] = seq
    /\ clearing => mem["flag"] # 0 /\ cpc \notin {"read", "clear"}
    /\ cpc \in {"read", "clear"} => f # 0 /\ f = mem["flag"]
    /\ ppc \in {"wmb", "flag"} => seq = Successor(f) \/ Wrapped
    /\ ppc \notin {"wmb", "flag"} => IF Unread THEN seq = Successor(f) ELSE seq = f \/ Wrapped

IInv == TypeOK /\ Rounds /\ (~weak => useBarrier /\ Handover /\ Reader /\ ~mismatch)
=============================================================================
