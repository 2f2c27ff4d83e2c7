---------------------------- MODULE DemoConstants ---------------------------
(***************************************************************************)
(* The parameters of the training modules about which something is proved, *)
(* and what the proofs assume of them.                                     *)
(***************************************************************************)
EXTENDS Naturals

CONSTANTS
    MaxPresses,    \* bound: interrupts in a behaviour of BottomHalf, CompDemo
    MaxEdges,      \* bound: interrupts in a behaviour of Debounce
    D,             \* DEBOUNCE_MS in ticks
    N,             \* words of the record of SharedRec: a, b, c; ptr, len
    NumValues,     \* its v cycles through so many values: ULONG_MAX + 1; 2
    W              \* the values of an int of MemBarrier: 2^32

ASSUME BoundAssumption    == MaxPresses \in Nat /\ MaxEdges \in Nat
ASSUME TickAssumption     == D \in Nat \ {0}
ASSUME SizesAssumption    == N \in Nat \ {0} /\ NumValues \in Nat \ {0}
ASSUME WordAssumption     == W \in Nat /\ W > 1
=============================================================================
