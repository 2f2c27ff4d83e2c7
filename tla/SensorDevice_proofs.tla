------------------------- MODULE SensorDevice_proofs -------------------------
(***************************************************************************)
(* Theorems about the life of struct sensor_dev, for any finite number of  *)
(* files, any threads in the attributes and any values of fail_step.       *)
(***************************************************************************)
EXTENDS SensorDevice, FiniteSetTheorems, TLAPS

(* The set of open files is finite, and opening or closing one file        *)
(* changes its size by one.                                                *)
LEMMA OpenedCounts ==
    ASSUME TypeOK
    PROVE  /\ IsFiniteSet(Opened) /\ Cardinality(Opened) \in Nat
           /\ \A f \in Files : fpc[f] = "open" => Cardinality(Opened) >= 1
           /\ (\A f \in Files : fpc[f] # "open") => Cardinality(Opened) = 0
           /\ Cardinality(Opened) = 0 => \A f \in Files : fpc[f] # "open"
<1>1. IsFiniteSet(Opened)
  BY FilesAssumption, FS_Subset, Opened \subseteq Files DEF Opened
<1>2. Cardinality(Opened) \in Nat
  BY <1>1, FS_CardinalityType
<1>3. Cardinality(Opened) = 0 <=> Opened = {}
  BY <1>1, FS_EmptySet
<1> QED
  BY <1>1, <1>2, <1>3 DEF Opened

(* A step that opens f adds one to the count. *)
LEMMA OneMore ==
    ASSUME TypeOK, NEW f \in Files, NEW from \in {"closed", "found", "released"},
           FGoto(f, from, "open")
    PROVE  Cardinality(Opened)' = Cardinality(Opened) + 1
<1>1. Opened' = Opened \cup {f} /\ f \notin Opened
  BY DEF Opened, FGoto, TypeOK
<1>2. IsFiniteSet(Opened)
  BY OpenedCounts
<1> QED
  BY <1>1, <1>2, FS_AddElement

(* A step that closes f takes one off. *)
LEMMA OneLess ==
    ASSUME TypeOK, NEW f \in Files, NEW to \in {"closed", "found", "released"},
           FGoto(f, "open", to)
    PROVE  Cardinality(Opened)' = Cardinality(Opened) - 1
<1>1. Opened' = Opened \ {f} /\ f \in Opened
  BY DEF Opened, FGoto, TypeOK
<1>2. IsFiniteSet(Opened)
  BY OpenedCounts
<1> QED
  BY <1>1, <1>2, FS_RemoveElement

(* A step between other places leaves the open files alone. *)
LEMMA SameCount ==
    ASSUME TypeOK, NEW f \in Files, NEW from \in {"closed", "found", "released"},
           NEW to \in {"closed", "found", "released", "wild_open", "wild_put"},
           FGoto(f, from, to)
    PROVE  Opened' = Opened
BY DEF Opened, FGoto, TypeOK

(* The initial state satisfies the inductive invariant. *)
LEMMA InitIInv == Init => IInv
<1> SUFFICES ASSUME Init PROVE IInv
  OBVIOUS
<1>1. TypeOK
  BY DEF Init, TypeOK, Rungs
<1>2. Cardinality(Opened) = 0
  BY <1>1, OpenedCounts DEF Init
<1> QED
  BY <1>1, <1>2 DEF Init, IInv, Counted, Ladder, Lifetime, Inside, Rungs, CDEV, FIFO, Attrs

USE DEF ladderVars, memVars, vars, FIFO, CDEV, Rungs, Attrs

(* Without an attribute in force nobody is inside one. *)
LEMMA NobodyInside ==
    ASSUME TypeOK, Inside, held \cap Attrs = {}
    PROVE  showing = {}
<1>1. ASSUME NEW p \in showing PROVE FALSE
  <2>1. PICK s \in Showers, a \in Attrs : p = <<s, a>>
    BY DEF TypeOK
  <2> QED
    BY <1>1, <2>1 DEF Inside
<1> QED
  BY <1>1

(* Every step preserves the inductive invariant. *)
LEMMA IInvStep == ASSUME IInv, [Next]_vars PROVE IInv'
<1> USE DEF IInv
<1> DEFINE n == Cardinality(Opened)
<1>0. /\ TypeOK /\ n \in Nat
      /\ \A f \in Files : fpc[f] = "open" => n >= 1
      /\ n = 0 => \A f \in Files : fpc[f] # "open"
  BY OpenedCounts
<1> HIDE DEF n
<1>core. ASSUME UNCHANGED fpc PROVE n' = n
  BY <1>core DEF n, Opened
<1>1. CASE Acquire
  <2>1. n' = n
    BY <1>1, <1>core DEF Acquire
  <2> QED
    BY <1>0, <1>1, <2>1 DEF Acquire, TypeOK, Counted, Ladder, Lifetime, Inside, n
<1>2. CASE ProbeFails
  <2>1. n' = n
    BY <1>2, <1>core DEF ProbeFails
  <2> QED
    BY <1>0, <1>2, <2>1 DEF ProbeFails, TypeOK, Counted, Ladder, Lifetime, Inside, n
<1>3. CASE InjectFailure
  <2>1. n' = n
    BY <1>3, <1>core DEF InjectFailure
  <2>2. k \in 1 .. 5
    BY <1>3, FailAssumption DEF InjectFailure
  <2> QED
    BY <1>0, <1>3, <2>1, <2>2
    DEF InjectFailure, LabelOf, TypeOK, Counted, Ladder, Lifetime, Inside, n
<1>4. CASE ProbeSucceeds
  <2>1. n' = n
    BY <1>4, <1>core DEF ProbeSucceeds
  <2> QED
    BY <1>0, <1>4, <2>1 DEF ProbeSucceeds, TypeOK, Counted, Ladder, Lifetime, Inside, n
<1>5. CASE GiveBack
  <2>1. n' = n
    BY <1>5, <1>core DEF GiveBack
  <2>2. TypeOK' /\ Counted' /\ Lifetime'
    BY <1>0, <1>5, <2>1 DEF GiveBack, TypeOK, Counted, Lifetime, n
  <2>3. Ladder'
    BY <1>0, <1>5 DEF GiveBack, TypeOK, Ladder
  <2>4. Inside'
    BY <1>0, <1>5 DEF GiveBack, Drained, TypeOK, Inside
  <2> QED
    BY <2>2, <2>3, <2>4
<1>6. CASE UnwindEnds
  <2>1. n' = n
    BY <1>6, <1>core DEF UnwindEnds
  <2> QED
    BY <1>0, <1>6, <2>1 DEF UnwindEnds, TypeOK, Counted, Ladder, Lifetime, Inside, n
<1>7. CASE Unbind
  <2>1. n' = n
    BY <1>7, <1>core DEF Unbind
  <2> QED
    BY <1>0, <1>7, <2>1 DEF Unbind, TypeOK, Counted, Ladder, Lifetime, Inside, n
<1>8. CASE RemoveEnds
  <2>1. n' = n
    BY <1>8, <1>core DEF RemoveEnds
  <2>2. ref = n + 1 /\ mem = "live" /\ held = {1}
    BY <1>0, <1>8 DEF RemoveEnds, LastRung, TypeOK, Counted, Ladder, Lifetime, n
  <2>3. ref' = n' /\ (mem' = "freed" <=> n = 0)
    BY <1>0, <1>8, <2>1, <2>2 DEF RemoveEnds, KrefPut
  <2>4. TypeOK' /\ Counted' /\ Lifetime'
    BY <1>0, <1>8, <2>1, <2>2, <2>3 DEF RemoveEnds, KrefPut, TypeOK, Counted, Lifetime, n
  <2>5. held' = (IF mem' = "live" THEN {1} ELSE {}) /\ stage' = "gone" /\ failedAt' = 0
    BY <1>8, <2>2 DEF RemoveEnds, KrefPut, Ladder
  <2>6. showing = {} /\ showing' = {}
    BY <1>8, <2>2, NobodyInside DEF RemoveEnds
  <2>7. Ladder' /\ Inside'
    BY <2>5, <2>6 DEF Ladder, Inside
  <2> QED
    BY <2>4, <2>7
<1>9. ASSUME NEW f \in Files, FindCdev(f) \/ CdevPut(f) \/ Wild(f) PROVE IInv'
  <2>2. CASE FindCdev(f) \/ CdevPut(f)
    <3>1. n' = n
      BY <1>0, <2>2, SameCount DEF FindCdev, CdevPut, n
    <3> QED
      BY <1>0, <2>2, <3>1 DEF FindCdev, CdevPut, FGoto, TypeOK, Counted, Ladder, Lifetime, Inside, n
  <2>3. CASE Wild(f)
    <3>1. PICK from \in {"found", "open", "released"} : FGoto(f, from, Strayed[from])
      BY <2>3 DEF Wild, Strayed
    <3>2. /\ fpc[f] = from /\ fpc' = [fpc EXCEPT ![f] = Strayed[from]]
          /\ Strayed[from] \in {"wild_open", "wild_call", "wild_put"}
          /\ Strayed[from] = "wild_call" <=> from = "open"
      BY <3>1 DEF FGoto, Strayed
    <3>3. mem = "freed" /\ UNCHANGED <<stage, k, held, failedAt, mem, ref, showing>>
      BY <2>3 DEF Wild
    <3>4. TypeOK' /\ Counted' /\ Ladder' /\ Inside'
      BY <1>0, <3>2, <3>3 DEF TypeOK, Counted, Ladder, Inside
    <3>5. Lifetime'
      BY <1>0, <3>2, <3>3 DEF TypeOK, Lifetime
    <3> QED
      BY <3>4, <3>5
  <2> QED
    BY <1>9, <2>2, <2>3
<1>10. ASSUME NEW f \in Files, SensorOpen(f) PROVE IInv'
  <2>1. n' = n + 1
    BY <1>0, <1>10, OneMore DEF SensorOpen, n
  <2>2. TypeOK' /\ Counted' /\ Lifetime'
    BY <1>0, <1>10, <2>1 DEF SensorOpen, RefAfterGet, FGoto, TypeOK, Counted, Lifetime, n
  <2>3. Ladder' /\ Inside'
    BY <1>0, <1>10 DEF SensorOpen, Ladder, Inside
  <2> QED
    BY <2>2, <2>3
<1>11. ASSUME NEW f \in Files, SensorRelease(f) PROVE IInv'
  <2>1. n' = n - 1 /\ n >= 1
    BY <1>0, <1>11, OneLess DEF SensorRelease, FGoto, n
  <2>2. TypeOK'
    BY <1>0, <1>11 DEF SensorRelease, KrefPut, FGoto, TypeOK, Lifetime
  <2>3. ref = n + IF stage = "gone" THEN 0 ELSE 1
    BY <1>0, <1>11 DEF SensorRelease, Counted, n
  <2>4. mem' = "freed" <=> (stage = "gone" /\ n = 1)
    BY <1>0, <1>11, <2>1, <2>3 DEF SensorRelease, KrefPut
  <2>5. n' = 0 => \A g \in Files : fpc'[g] # "open"
    <3>1. Opened' = Opened \ {f}
      BY <1>0, <1>11 DEF SensorRelease, FGoto, Opened, TypeOK
    <3>2. IsFiniteSet(Opened')
      BY <1>0, <3>1, OpenedCounts, FS_RemoveElement
    <3>3. Cardinality(Opened') = 0 => Opened' = {}
      BY <3>2, FS_EmptySet
    <3> QED
      BY <3>3 DEF n, Opened
  <2>6a. \A g \in Files : fpc'[g] \notin {"wild_open", "wild_call", "wild_put"}
    BY <1>0, <1>11 DEF SensorRelease, FGoto, TypeOK, Lifetime
  <2>6b. Counted'
    BY <1>0, <1>11, <2>1, <2>3, <2>4 DEF SensorRelease, KrefPut, Counted, n
  <2>6c. Lifetime'
    BY <1>0, <1>11, <2>1, <2>2, <2>3, <2>4, <2>5, <2>6a
    DEF SensorRelease, KrefPut, Lifetime
  <2>6. Counted' /\ Lifetime'
    BY <2>6b, <2>6c
  <2>7. ref = 1 => stage = "gone" /\ held = {1} /\ showing = {}
    <3>1. ref = 1 => stage = "gone" /\ held = {1}
      BY <1>0, <1>11, <2>1, <2>3 DEF SensorRelease, Ladder
    <3> QED
      BY <3>1, NobodyInside
  <2>8. ASSUME ref = 1 PROVE Ladder' /\ Inside'
    BY <1>0, <1>11, <2>7, <2>8 DEF SensorRelease, KrefPut, Ladder, Inside
  <2>9. ASSUME ref # 1 PROVE Ladder' /\ Inside'
    BY <1>0, <1>11, <2>9 DEF SensorRelease, KrefPut, Ladder, Inside
  <2>10. Ladder' /\ Inside'
    BY <2>8, <2>9
  <2> QED
    BY <2>2, <2>6, <2>10
<1>12. ASSUME NEW s \in Showers, EnterAttr(s) PROVE IInv'
  <2>1. n' = n
    BY <1>12, <1>core DEF EnterAttr
  <2> QED
    BY <1>0, <1>12, <2>1 DEF EnterAttr, TypeOK, Counted, Ladder, Lifetime, Inside, n
<1>13. ASSUME NEW s \in Showers, LeaveAttr(s) PROVE IInv'
  <2>1. n' = n
    BY <1>13, <1>core DEF LeaveAttr
  <2> QED
    BY <1>0, <1>13, <2>1 DEF LeaveAttr, TypeOK, Counted, Ladder, Lifetime, Inside, n
<1>14. CASE UNCHANGED vars
  <2>1. n' = n
    BY <1>14, <1>core
  <2> QED
    BY <1>0, <1>14, <2>1 DEF TypeOK, Counted, Ladder, Lifetime, Inside, n
<1> QED
  BY <1>1, <1>2, <1>3, <1>4, <1>5, <1>6, <1>7, <1>8, <1>9, <1>10, <1>11, <1>12, <1>13, <1>14
  DEF Next

(* The inductive invariant holds in every reachable state. *)
THEOREM Invariance == Spec => []IInv
BY InitIInv, IInvStep, PTL DEF Spec

(* The driver calls of an open file find the memory of the device, however *)
(* late after the unbind they come (sensor_open's kref_get); only an open  *)
(* or a close half done when the last reference goes does not.             *)
THEOREM CallsAreSafe == Spec => []CallsFindMemory
<1>1. IInv => CallsFindMemory
  BY DEF IInv, CallsFindMemory, TypeOK, Lifetime, Opened
<1> QED
  BY <1>1, Invariance, PTL

(* Nobody is inside an attribute when the memory goes (device_remove_file). *)
THEOREM AttrsAreSafe == Spec => []AttrsFindMemory
<1>1. ASSUME IInv, mem = "freed" PROVE showing = {}
  <2>1. held \cap Attrs = {}
    BY <1>1 DEF IInv, Lifetime, Ladder
  <2> QED
    BY <1>1, <2>1, NobodyInside DEF IInv
<1>2. IInv => AttrsFindMemory
  BY <1>1 DEF IInv, TypeOK, AttrsFindMemory
<1> QED
  BY <1>2, Invariance, PTL

(* What the kernel can reach is alive, and torn down in reverse, unless    *)
(* fail_step was 3.                                                        *)
THEOREM RegistrationsAreSafe == Spec => []RegisteredIsLive
<1>1. ASSUME IInv, failedAt # 3 PROVE held # {} => mem = "live"
  BY <1>1 DEF IInv, TypeOK, Lifetime, Ladder
<1>2. ASSUME IInv, failedAt # 3, NEW i \in held PROVE 1 .. i \subseteq held
  <2>1. held = 1 .. k \/ held = {1}
    BY <1>2 DEF IInv, TypeOK, Ladder
  <2> QED
    BY <1>2, <2>1 DEF IInv, TypeOK
<1>3. IInv => RegisteredIsLive
  BY <1>1, <1>2 DEF RegisteredIsLive
<1> QED
  BY <1>3, Invariance, PTL

(* Unbinding and the goto ladder give back everything, the memory with the *)
(* last close.                                                             *)
THEOREM LeakFreedom == Spec => []NothingLeaks
<1>1. ASSUME IInv PROVE NothingLeaks
  <2>1. (\A f \in Files : fpc[f] # "open") => Cardinality(Opened) = 0
    BY <1>1, OpenedCounts DEF IInv
  <2> QED
    BY <1>1, <2>1 DEF IInv, NothingLeaks, TypeOK, Counted, Lifetime, Ladder
<1> QED
  BY <1>1, Invariance, PTL
=============================================================================
