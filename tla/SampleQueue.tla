----------------------------- MODULE SampleQueue -----------------------------
(***************************************************************************)
(* What read(2) on /dev/sensor_sample promises: a bounded queue that loses *)
(* what does not fit, numbers the samples in the order in which they were  *)
(* taken, hands each to at most one call, the oldest first, and lets a call*)
(* end without a sample only if it has seen the queue empty since it began.*)
(***************************************************************************)
EXTENDS Integers, Sequences

CONSTANTS Clients, Capacity

VARIABLES
    queue,    \* the samples that wait to be read
    next,     \* the number of the next sample
    call,     \* call[c]: "out", "in", "empty" (has just seen no sample) or "got"
    item      \* item[c]: the sample a call has got, -1 for none

vars == <<queue, next, call, item>>

Init == /\ queue = << >> /\ next = 0
        /\ call = [c \in Clients |-> "out"]
        /\ item = [c \in Clients |-> -1]

Move(c, from, to) == call[c] \in from /\ call' = [call EXCEPT ![c] = to]

(* A sample is taken; without room it is lost, its number is used up. *)
Sample == /\ next' = next + 1
          /\ queue' = IF Len(queue) < Capacity THEN Append(queue, next) ELSE queue
          /\ UNCHANGED <<call, item>>

Flush == queue' = << >> /\ UNCHANGED <<next, call, item>>

Call(c) == Move(c, {"out"}, "in") /\ UNCHANGED <<queue, next, item>>

Take(c) == /\ queue # << >>
           /\ Move(c, {"in"}, "got")
           /\ item' = [item EXCEPT ![c] = Head(queue)]
           /\ queue' = Tail(queue)
           /\ UNCHANGED next

SeeEmpty(c)  == queue = << >> /\ Move(c, {"in"}, "empty") /\ UNCHANGED <<queue, next, item>>
LookAgain(c) == Move(c, {"empty"}, "in") /\ UNCHANGED <<queue, next, item>>

(* The call ends: with its sample, or without one after "empty". *)
Return(c) == /\ Move(c, {"empty", "got"}, "out")
             /\ item' = [item EXCEPT ![c] = -1]
             /\ UNCHANGED <<queue, next>>

Next == \/ Sample \/ Flush
        \/ \E c \in Clients : \/ Call(c) \/ Take(c) \/ SeeEmpty(c) \/ LookAgain(c)
                              \/ Return(c)

Spec == Init /\ [][Next]_vars
=============================================================================
