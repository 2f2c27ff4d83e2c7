---------------------------- MODULE Memory_proofs -----------------------------
(***************************************************************************)
(* Memory shared by two sides.  First the locked record, for every number  *)
(* of words and values, on one core and on two, whoever writes use_lock    *)
(* and when: a torn copy needs a race, sections that locked exclude each   *)
(* other, and what is unlocked is held, except by a reader_fn of           *)
(* gpio_irq_threaded.c between whose two tests use_lock was written.       *)
(* Then the handshake of mem_barrier.c, for every width of g_seq and       *)
(* through every wrap-around: while use_barrier stays 1 the consumer never *)
(* reads stale data, and with or without it no round is skipped.           *)
(***************************************************************************)
EXTENDS Demos, TLAPS

USE SizesAssumption DEF Rec!vars, Rec!Sides

(* Which module is loaded never changes, and a switch is not forgotten.    *)
LEMMA History ==
  ASSUME Rec!Next
  PROVE  /\ module' = module /\ (switched => switched')
         /\ raced' = /\ rec_pc'["reader"] \in {"in", "check"}
                     /\ raced \/ (rec_pc'["reader"] = "in" /\ Rec!Writing' /\ ~Rec!BothLocked')
         /\ switched' = (switched \/ (Rec!BetweenTests /\ useLock' # useLock))
BY DEF Rec!Next, Rec!Observe

(* The words agree at first.                                               *)
LEMMA RecInit == Rec!Init => Rec!IInv
<1> SUFFICES ASSUME Rec!Init PROVE Rec!IInv
  OBVIOUS
<1>1. 0 \in Rec!Values
  BY DEF Rec!Values
<1>2. Rec!TypeOK
  BY <1>1 DEF Rec!Init, Rec!TypeOK
<1>3. Rec!Choices
  BY DEF Rec!Init, Rec!Choices, Rec!InIsr, Rec!SingleCore, Rec!BetweenTests
<1>4. Rec!CopyCurrent /\ Rec!TearNeedsRace
  BY <1>1 DEF Rec!Init, Rec!CopyCurrent, Rec!TearNeedsRace, Rec!Holds, Rec!AllVisible
<1>5. Rec!IsrNeverSpins
  BY DEF Rec!Init, Rec!IsrNeverSpins, Rec!InIsr
<1>6. QED BY <1>2, <1>3, <1>4, <1>5 DEF Rec!IInv

(* Every step leaves the variables in their types.                         *)
LEMMA RecTypeStep ==
  ASSUME Rec!TypeOK, Rec!Next
  PROVE  Rec!TypeOK'
<1>0. raced' \in BOOLEAN /\ switched' \in BOOLEAN /\ module' = module
  BY History DEF Rec!TypeOK
<1>1. ASSUME NEW p \in Rec!Sides, Rec!Test(p) PROVE Rec!TypeOK'
  <2>1. v' \in Rec!Values
    BY <1>1 DEF Rec!Test, Rec!TypeOK, Rec!Values
  <2>2. QED BY <1>0, <1>1, <2>1 DEF Rec!Test, Rec!TypeOK
<1>2. ASSUME NEW p \in Rec!Sides, Rec!Lock(p) PROVE Rec!TypeOK'
  BY <1>0, <1>2 DEF Rec!Lock, Rec!TypeOK
<1>3. ASSUME NEW p \in Rec!Sides, Rec!Access(p) PROVE Rec!TypeOK'
  <2>1. todo' \in [Rec!Sides -> SUBSET Rec!Fields]
    BY <1>3 DEF Rec!Access, Rec!TypeOK
  <2>2. /\ rec' \in [Rec!Fields -> Rec!Values] /\ copy' \in [Rec!Fields -> Rec!Values]
        /\ rec_buf' \in [Rec!Fields -> SUBSET Rec!Values]
    BY <1>3 DEF Rec!Access, Rec!TypeOK
  <2>3. QED BY <1>0, <1>3, <2>1, <2>2 DEF Rec!Access, Rec!TypeOK
<1>4. ASSUME NEW p \in Rec!Sides, Rec!Unlock(p) PROVE Rec!TypeOK'
  <2>1. rec_lock' \in Rec!Sides \cup {"none", "broken"} /\ masked' \in BOOLEAN
    BY <1>4 DEF Rec!Unlock, Rec!Release, Rec!TypeOK
  <2>2. QED BY <1>0, <1>4, <2>1 DEF Rec!Unlock, Rec!TypeOK
<1>5. ASSUME NEW f \in Rec!Fields, Rec!Drain(f) PROVE Rec!TypeOK'
  BY <1>0, <1>5 DEF Rec!Drain, Rec!TypeOK
<1>6. ASSUME Rec!Check PROVE Rec!TypeOK'
  BY <1>0, <1>6 DEF Rec!Check, Rec!TypeOK
<1>7. ASSUME Rec!Toggle PROVE Rec!TypeOK'
  <2>1. useLock' \in BOOLEAN
    BY <1>7 DEF Rec!Toggle
  <2>2. QED BY <1>0, <1>7, <2>1 DEF Rec!Toggle, Rec!TypeOK
<1>8. QED BY <1>1, <1>2, <1>3, <1>4, <1>5, <1>6, <1>7 DEF Rec!Next, Rec!Step

(* Who unlocks holds the lock, unless use_lock was switched on the reader. *)
LEMMA UnlocksWhatItHolds ==
  ASSUME Rec!TypeOK, Rec!Choices, NEW p \in Rec!Sides, rec_pc[p] = "in", Rec!Unlocks(p),
         p = "writer" \/ ~switched
  PROVE  chose[p] /\ rec_lock = p
<1>1. CASE ~Rec!Recheck
  BY <1>1 DEF Rec!Unlocks, Rec!Choices
<1>2. CASE Rec!Recheck /\ p = "writer"
  BY <1>2 DEF Rec!Unlocks, Rec!Choices, Rec!Recheck, Rec!InIsr, Rec!SingleCore
<1>3. CASE Rec!Recheck /\ p = "reader"
  BY <1>3 DEF Rec!Unlocks, Rec!Choices, Rec!BetweenTests
<1>4. QED BY <1>1, <1>2, <1>3

(* Every step keeps the lock with the section that took it.                *)
LEMMA ChoicesStep ==
  ASSUME Rec!TypeOK, Rec!Choices, Rec!Next
  PROVE  Rec!Choices'
<1> USE DEF Rec!Choices, Rec!InIsr, Rec!SingleCore, Rec!BetweenTests, Rec!Recheck
<1>0. switched' => switched \/ (Rec!BetweenTests /\ useLock' # useLock)
  BY History
<1>1. ASSUME NEW p \in Rec!Sides, Rec!Test(p) PROVE Rec!Choices'
  BY <1>0, <1>1, History DEF Rec!Test, Rec!TypeOK
<1>2. ASSUME NEW p \in Rec!Sides, Rec!Lock(p) PROVE Rec!Choices'
  <2>1. CASE p = "writer"
    BY <1>0, <1>2, <2>1, History DEF Rec!Lock, Rec!Free, Rec!TypeOK
  <2>2. CASE p = "reader"
    BY <1>0, <1>2, <2>2, History DEF Rec!Lock, Rec!Free, Rec!TypeOK
  <2>3. QED BY <2>1, <2>2
<1>3. ASSUME NEW p \in Rec!Sides, Rec!Access(p) PROVE Rec!Choices'
  BY <1>0, <1>3, History DEF Rec!Access
<1>4. ASSUME NEW p \in Rec!Sides, Rec!Unlock(p) PROVE Rec!Choices'
  <2>1. CASE p = "writer"
    <3>1. CASE Rec!Unlocks(p)
      <4>1. chose[p] /\ rec_lock = p
        BY <1>4, <2>1, <3>1, UnlocksWhatItHolds DEF Rec!Unlock
      <4>2. QED BY <1>0, <1>4, <2>1, <3>1, <4>1, History DEF Rec!Unlock, Rec!Release, Rec!TypeOK
    <3>2. CASE ~Rec!Unlocks(p)
      BY <1>0, <1>4, <2>1, <3>2, History DEF Rec!Unlock, Rec!Unlocks, Rec!TypeOK
    <3>3. QED BY <3>1, <3>2
  <2>2. CASE p = "reader"
    <3>1. ~Rec!InIsr
      BY <1>4, <2>2 DEF Rec!Unlock, Rec!Runs
    <3>2. CASE Rec!Unlocks(p) /\ ~switched
      <4>1. chose[p] /\ rec_lock = p
        BY <1>4, <3>2, UnlocksWhatItHolds DEF Rec!Unlock
      <4>2. QED BY <1>0, <1>4, <2>2, <3>2, <4>1, History DEF Rec!Unlock, Rec!Release, Rec!TypeOK
    <3>3. CASE Rec!Unlocks(p) /\ switched
      BY <1>0, <1>4, <2>2, <3>1, <3>3, History DEF Rec!Unlock, Rec!Release, Rec!TypeOK
    <3>4. CASE ~Rec!Unlocks(p)
      BY <1>0, <1>4, <2>2, <3>4, History DEF Rec!Unlock, Rec!Unlocks, Rec!TypeOK
    <3>5. QED BY <3>2, <3>3, <3>4
  <2>3. QED BY <2>1, <2>2
<1>5. ASSUME NEW f \in Rec!Fields, Rec!Drain(f) PROVE Rec!Choices'
  BY <1>0, <1>5, History DEF Rec!Drain
<1>6. ASSUME Rec!Check PROVE Rec!Choices'
  BY <1>0, <1>6, History DEF Rec!Check, Rec!TypeOK
<1>7. ASSUME Rec!Toggle PROVE Rec!Choices'
  BY <1>0, <1>7, History DEF Rec!Toggle
<1>8. QED BY <1>1, <1>2, <1>3, <1>4, <1>5, <1>6, <1>7 DEF Rec!Next, Rec!Step

(* Two sides inside with the lock would both be its holder.                *)
LEMMA ChoicesExclude == Rec!Choices => Rec!LockExcludes
BY DEF Rec!Choices, Rec!LockExcludes, Rec!BothLocked

(* A step into or inside the sections either races or leaves what the      *)
(* reader has copied current.                                              *)
LEMMA CopyStep ==
  ASSUME Rec!TypeOK, Rec!CopyCurrent, Rec!TearNeedsRace, Rec!LockExcludes', Rec!Next
  PROVE  Rec!CopyCurrent' /\ Rec!TearNeedsRace'
<1> USE DEF Rec!CopyCurrent, Rec!TearNeedsRace, Rec!Torn, Rec!Writing, Rec!AllVisible, Rec!Holds,
            Rec!SingleCore
<1>1. /\ rec_pc'["reader"] = "in" /\ ~raced' => ~Rec!Writing'
      /\ rec_pc'["reader"] \in {"in", "check"} /\ ~raced' => ~raced
      /\ rec_pc'["reader"] = "check" /\ raced => raced'
      /\ module' = module
  BY History DEF Rec!LockExcludes
<1>2. ASSUME Rec!Test("writer") PROVE Rec!CopyCurrent' /\ Rec!TearNeedsRace'
  BY <1>1, <1>2 DEF Rec!Test, Rec!TypeOK
<1>3. ASSUME Rec!Test("reader") PROVE Rec!CopyCurrent' /\ Rec!TearNeedsRace'
  BY <1>1, <1>3 DEF Rec!Test, Rec!TypeOK
<1>4. ASSUME Rec!Lock("writer") PROVE Rec!CopyCurrent' /\ Rec!TearNeedsRace'
  BY <1>1, <1>4 DEF Rec!Lock, Rec!TypeOK
<1>5. ASSUME Rec!Lock("reader") PROVE Rec!CopyCurrent' /\ Rec!TearNeedsRace'
  BY <1>1, <1>5 DEF Rec!Lock, Rec!TypeOK
<1>6. ASSUME Rec!Access("writer") PROVE Rec!CopyCurrent' /\ Rec!TearNeedsRace'
  <2>1. PICK f \in todo["writer"] :
          /\ todo' = [todo EXCEPT !["writer"] = todo["writer"] \ {f}]
          /\ copy' = copy
          /\ IF module = "isr" THEN rec' = [rec EXCEPT ![f] = v] /\ rec_buf' = rec_buf
                               ELSE rec_buf' = [rec_buf EXCEPT ![f] = {v}] /\ rec' = rec
    BY <1>6 DEF Rec!Access
  <2>2. f \in Rec!Fields /\ Rec!Holds(f, v)'
    BY <1>6, <2>1 DEF Rec!Access, Rec!TypeOK
  <2>3. \A g \in Rec!Fields \ {f} : rec'[g] = rec[g] /\ rec_buf'[g] = rec_buf[g]
    BY <2>1, <2>2 DEF Rec!TypeOK
  <2>4. rec_pc'["writer"] = "in" /\ \A g \in Rec!Fields \ todo'["writer"] : Rec!Holds(g, v)'
    BY <1>6, <2>1, <2>2, <2>3 DEF Rec!Access, Rec!TypeOK
  <2>5. (Rec!SingleCore => Rec!AllVisible)'
    BY <1>1, <2>1
  <2>6. QED BY <1>1, <1>6, <2>1, <2>4, <2>5 DEF Rec!Access, Rec!TypeOK
<1>7. ASSUME Rec!Access("reader") PROVE Rec!CopyCurrent' /\ Rec!TearNeedsRace'
  BY <1>1, <1>7 DEF Rec!Access, Rec!TypeOK
<1>8. ASSUME Rec!Unlock("writer") PROVE Rec!CopyCurrent' /\ Rec!TearNeedsRace'
  <2>1. v \in Rec!Values /\ \A f \in Rec!Fields : Rec!Holds(f, v)
    BY <1>8 DEF Rec!Unlock, Rec!Done, Rec!TypeOK
  <2>2. QED BY <1>1, <1>8, <2>1 DEF Rec!Unlock, Rec!TypeOK
<1>9. ASSUME Rec!Unlock("reader") PROVE Rec!CopyCurrent' /\ Rec!TearNeedsRace'
  <2>1. ~raced => /\ rec_pc["writer"] # "in" /\ Rec!AllVisible
                  /\ \A f \in Rec!Fields : copy[f] = rec[f]
    BY <1>9 DEF Rec!Unlock, Rec!Done
  <2>2. ~raced => ~Rec!Torn
    BY <2>1
  <2>3. QED BY <1>1, <1>9, <2>2 DEF Rec!Unlock, Rec!TypeOK
<1>10. ASSUME NEW f \in Rec!Fields, Rec!Drain(f) PROVE Rec!CopyCurrent' /\ Rec!TearNeedsRace'
  <2>1. PICK x \in rec_buf[f] : rec' = [rec EXCEPT ![f] = x]
    BY <1>10 DEF Rec!Drain
  <2>2. /\ rec'[f] = x /\ rec_buf'[f] = {}
        /\ \A g \in Rec!Fields \ {f} : rec'[g] = rec[g] /\ rec_buf'[g] = rec_buf[g]
    BY <1>10, <2>1 DEF Rec!Drain, Rec!TypeOK
  <2>3. \A g \in Rec!Fields : \A y : Rec!Holds(g, y) =>
          rec_buf'[g] = {y} \/ (rec_buf'[g] = {} /\ rec'[g] = y)
    BY <2>1, <2>2
  <2>4. rec_pc["reader"] = "in" => raced
    BY <2>1
  <2>5. module # "isr"
    BY <2>1
  <2>6. QED BY <1>1, <1>10, <2>3, <2>4, <2>5 DEF Rec!Drain, Rec!TypeOK
<1>11. ASSUME Rec!Check PROVE Rec!CopyCurrent' /\ Rec!TearNeedsRace'
  BY <1>1, <1>11 DEF Rec!Check, Rec!TypeOK
<1>12. ASSUME Rec!Toggle PROVE Rec!CopyCurrent' /\ Rec!TearNeedsRace'
  BY <1>1, <1>12 DEF Rec!Toggle
<1>13. QED BY <1>2, <1>3, <1>4, <1>5, <1>6, <1>7, <1>8, <1>9, <1>10, <1>11, <1>12
           DEF Rec!Next, Rec!Step

(* The interrupt starts only while the reader does not hold the lock, and  *)
(* until it has returned the reader does nothing.                          *)
LEMMA IsrStep ==
  ASSUME Rec!TypeOK, Rec!Choices, Rec!IsrNeverSpins, Rec!Next
  PROVE  Rec!IsrNeverSpins'
<1> USE DEF Rec!IsrNeverSpins, Rec!InIsr, Rec!SingleCore
<1>0. module' = module /\ (switched => switched')
  BY History
<1>1. ASSUME \/ Rec!Test("reader") \/ Rec!Lock("reader") \/ Rec!Access("reader")
             \/ Rec!Unlock("reader") \/ Rec!Check
      PROVE  Rec!IsrNeverSpins'
  <2>1. ~Rec!InIsr
    BY <1>1 DEF Rec!Test, Rec!Lock, Rec!Access, Rec!Unlock, Rec!Check, Rec!Runs
  <2>2. rec_pc'["writer"] = rec_pc["writer"]
    BY <1>1 DEF Rec!Test, Rec!Lock, Rec!Access, Rec!Unlock, Rec!Check, Rec!TypeOK
  <2>3. QED BY <1>0, <2>1, <2>2
<1>2. ASSUME Rec!Test("writer") PROVE Rec!IsrNeverSpins'
  <2>1. Rec!InIsr \/ ~Rec!IrqsOff
    BY <1>2 DEF Rec!Test, Rec!Runs
  <2>2. Rec!SingleCore => ~masked
    BY <1>2, <2>1 DEF Rec!IrqsOff, Rec!Test
  <2>3. Rec!SingleCore /\ ~switched => rec_lock # "reader"
    BY <2>2 DEF Rec!Choices
  <2>4. QED BY <1>0, <1>2, <2>3 DEF Rec!Test
<1>3. ASSUME Rec!Lock("writer") \/ Rec!Access("writer") \/ Rec!Unlock("writer")
      PROVE  Rec!IsrNeverSpins'
  <2>1. rec_lock' \in {rec_lock, "writer", "none", "broken"} /\ rec_pc["writer"] # "out"
    BY <1>3 DEF Rec!Lock, Rec!Access, Rec!Unlock, Rec!Release
  <2>2. QED BY <1>0, <2>1
<1>4. ASSUME NEW f \in Rec!Fields, Rec!Drain(f) PROVE Rec!IsrNeverSpins'
  BY <1>0, <1>4 DEF Rec!Drain
<1>5. ASSUME Rec!Toggle PROVE Rec!IsrNeverSpins'
  BY <1>0, <1>5 DEF Rec!Toggle
<1>6. QED BY <1>1, <1>2, <1>3, <1>4, <1>5 DEF Rec!Next, Rec!Step

(* A behaviour of the board is one of these modules, or leaves them alone. *)
LEMMA RecRun ==
  /\ Init => Rec!Init
  /\ [Next]_vars => [Rec!Next]_(Rec!vars)
<1>1. Init => Rec!Init
  BY DEF Init
<1>2. [Next]_vars => [Rec!Next]_(Rec!vars)
  BY DEF Next, Runs, vars, recVars, Rec!vars
<1>3. QED BY <1>1, <1>2

(* The inductive invariant, whoever writes use_lock and when.              *)
THEOREM RecInvariance == Spec => []Rec!IInv
<1>1. Rec!IInv /\ [Rec!Next]_(Rec!vars) => Rec!IInv'
  <2>1. ASSUME Rec!IInv, Rec!Next PROVE Rec!IInv'
    <3>1. Rec!TypeOK' /\ Rec!Choices'
      BY <2>1, RecTypeStep, ChoicesStep DEF Rec!IInv
    <3>2. Rec!LockExcludes'
      BY <3>1 DEF Rec!Choices, Rec!LockExcludes, Rec!BothLocked
    <3>3. QED BY <2>1, <3>1, <3>2, CopyStep, IsrStep DEF Rec!IInv
  <2>2. ASSUME Rec!IInv, UNCHANGED Rec!vars PROVE Rec!IInv'
    BY <2>2 DEF Rec!IInv, Rec!TypeOK, Rec!Choices, Rec!CopyCurrent, Rec!TearNeedsRace,
       Rec!Torn, Rec!Writing, Rec!AllVisible, Rec!Holds, Rec!BetweenTests, Rec!Recheck,
                Rec!IsrNeverSpins, Rec!InIsr, Rec!SingleCore
  <2>3. QED BY <2>1, <2>2
<1>2. QED BY RecInit, RecRun, <1>1, PTL DEF Spec

(* A torn record means that the writer was writing while the reader was    *)
(* inside, and that one of the two had not locked: the test a != b || b != c*)
(* of reader_fn never accuses the lock, on one core or on two, however the *)
(* stores and loads are reordered and whoever writes use_lock.             *)
THEOREM TearsAreRaces == Spec => []Rec!TearNeedsRace
<1>1. Rec!IInv => Rec!TearNeedsRace BY DEF Rec!IInv
<1>2. QED BY <1>1, RecInvariance, PTL

(* The interrupt of gpio_irq_threaded.c does not wait for a lock that its  *)
(* own core holds, as long as use_lock was not written between the two     *)
(* tests of reader_fn (the condition ~switched of the property): until     *)
(* then spin_lock_irqsave keeps it away.                                   *)
THEOREM IsrIsServed == Spec => []Rec!IsrNeverSpins
<1>1. Rec!IInv => Rec!IsrNeverSpins BY DEF Rec!IInv
<1>2. QED BY <1>1, RecInvariance, PTL

(* Sections that both took the lock exclude each other, also after use_lock*)
(* was switched on the reader and rec_lock was unlocked by who did not     *)
(* hold it.                                                                *)
THEOREM LockedSectionsExclude == Spec => []Rec!LockExcludes
<1>1. Rec!IInv => Rec!LockExcludes
  BY ChoicesExclude DEF Rec!IInv
<1>2. QED BY <1>1, RecInvariance, PTL

(* Every unlock is of a lock that is held, and no section leaves with it:  *)
(* always for the writers and for tear_*.c, and for reader_fn of           *)
(* gpio_irq_threaded.c until use_lock is written between its two tests.    *)
THEOREM LocksAreBalanced == Spec => []LockBalanced
<1>1. ASSUME Rec!IInv, NEW p \in Rec!Sides, ~(p = "reader" /\ switched)
      PROVE  /\ rec_pc[p] # "in" => rec_lock # p
             /\ rec_pc[p] = "in" /\ Rec!Unlocks(p) => rec_lock = p
  <2>1. rec_pc[p] # "in" => rec_lock # p
    BY <1>1 DEF Rec!IInv, Rec!Choices
  <2>2. rec_pc[p] = "in" /\ Rec!Unlocks(p) => rec_lock = p
    BY <1>1, UnlocksWhatItHolds DEF Rec!IInv
  <2>3. QED BY <2>1, <2>2
<1>2. Rec!IInv => LockBalanced
  BY <1>1 DEF Rec!LockBalanced, LockBalanced
<1>3. QED BY <1>2, RecInvariance, PTL

-----------------------------------------------------------------------------
USE WordAssumption DEF Bar!vars, Bar!prod, Bar!cons, Bar!Words

(* The first state: nothing is on its way.                                 *)
LEMMA BarInit == Bar!Init => Bar!IInv
<1> SUFFICES ASSUME Bar!Init PROVE Bar!IInv
  OBVIOUS
<1>1. 0 \in Bar!Values
  BY DEF Bar!Values
<1>2. Bar!TypeOK
  BY <1>1 DEF Bar!Init, Bar!TypeOK
<1>3. Bar!Handover /\ Bar!Reader /\ ~mismatch
  BY DEF Bar!Init, Bar!Handover, Bar!Reader, Bar!Quiet
<1>4. ~weak => useBarrier
  BY DEF Bar!Init
<1>5. Bar!Rounds
  BY DEF Bar!Init, Bar!Rounds, Bar!Unread, Bar!Wrapped
<1>6. QED BY <1>2, <1>3, <1>4, <1>5 DEF Bar!IInv

(* Every step leaves the variables in their types.                         *)
LEMMA BarTypeStep ==
  ASSUME Bar!TypeOK, Bar!Next
  PROVE  Bar!TypeOK'
<1> USE DEF Bar!bars
<1>1. CASE Bar!Producer
  <2>1. CASE Bar!PTest BY <2>1 DEF Bar!PTest, Bar!PGoto, Bar!TypeOK
  <2>2. CASE Bar!PSpin BY <2>2 DEF Bar!PSpin, Bar!PGoto, Bar!TypeOK
  <2>3. CASE Bar!PStore
    <3>1. Bar!NextSeq(g_seq) \in Bar!Values
      BY DEF Bar!NextSeq, Bar!Values, Bar!TypeOK
    <3>2. QED BY <2>3, <3>1 DEF Bar!PStore, Bar!PGoto, Bar!TypeOK
  <2>4. CASE Bar!PWmb BY <2>4 DEF Bar!PWmb, Bar!PGoto, Bar!TypeOK
  <2>5. CASE Bar!PFlag BY <2>5 DEF Bar!PFlag, Bar!PGoto, Bar!TypeOK
  <2>6. QED BY <1>1, <2>1, <2>2, <2>3, <2>4, <2>5 DEF Bar!Producer
<1>2. ASSUME NEW w \in Bar!Words, Bar!Drain(w) PROVE Bar!TypeOK'
  BY <1>2 DEF Bar!Drain, Bar!TypeOK
<1>3. CASE Bar!Consumer
  <2>1. CASE Bar!CTest BY <2>1 DEF Bar!CTest, Bar!CGoto, Bar!TypeOK
  <2>2. CASE Bar!CSpin
    <3>1. Bar!CFlagSeen \in Bar!Values
      BY DEF Bar!CFlagSeen, Bar!TypeOK, Bar!Values
    <3>2. QED BY <2>2, <3>1 DEF Bar!CSpin, Bar!CGoto, Bar!TypeOK
  <2>3. CASE Bar!CRead
    <3>1. mismatch' \in BOOLEAN
      BY <2>3 DEF Bar!CRead
    <3>2. QED BY <2>3, <3>1 DEF Bar!CRead, Bar!CGoto, Bar!TypeOK
  <2>4. CASE Bar!CClear BY <2>4 DEF Bar!CClear, Bar!CGoto, Bar!TypeOK, Bar!Cleared
  <2>5. QED BY <1>3, <2>1, <2>2, <2>3, <2>4 DEF Bar!Consumer
<1>4. CASE Bar!CEarly
  BY <1>4 DEF Bar!CEarly, Bar!CGoto, Bar!TypeOK
<1>5. CASE Bar!CDrain
  <2>1. 0 \in Bar!Values
    BY DEF Bar!Values
  <2>2. QED BY <1>5, <2>1 DEF Bar!CDrain, Bar!TypeOK
<1>6. CASE Bar!Exit
  BY <1>6 DEF Bar!Exit, Bar!TypeOK
<1>7. CASE Bar!Toggle
  <2>1. useBarrier' \in BOOLEAN /\ weak' \in BOOLEAN
    BY <1>7 DEF Bar!Toggle
  <2>2. QED BY <1>7, <2>1 DEF Bar!Toggle, Bar!TypeOK
<1>8. QED BY <1>1, <1>2, <1>3, <1>4, <1>5, <1>6, <1>7 DEF Bar!Next

(* The producer's steps: it stores only while the other side is quiet and  *)
(* the barrier keeps the flag behind the data.                             *)
LEMMA ProducerStep ==
  ASSUME Bar!TypeOK, useBarrier, Bar!Handover, Bar!Reader, ~mismatch, Bar!Producer
  PROVE  (Bar!Handover /\ Bar!Reader /\ ~mismatch)'
<1>1. CASE Bar!PTest
  BY <1>1 DEF Bar!PTest, Bar!PGoto, Bar!Handover, Bar!Reader, Bar!Quiet
<1>2. CASE Bar!PSpin
  <2>1. CASE ~Bar!Answered
    BY <1>2, <2>1 DEF Bar!PSpin, Bar!PGoto, Bar!Handover, Bar!Reader, Bar!Quiet
  <2>2. CASE Bar!Answered
    <3>1. bar_buf["flag"] = {} => mem["flag"] = 0
      BY <2>2 DEF Bar!Answered, Bar!PFlagSeen
    <3>2. bar_buf["flag"] # {} => bar_buf["flag"] = {0}
      BY <2>2 DEF Bar!Answered, Bar!PFlagSeen
    <3>3. Bar!Quiet
      BY <3>1, <3>2 DEF Bar!Handover, Bar!Reader, Bar!Quiet
    <3>4. QED BY <1>2, <2>2, <3>3 DEF Bar!PSpin, Bar!PGoto, Bar!Handover, Bar!Reader,
                 Bar!Quiet
  <2>3. QED BY <2>1, <2>2
<1>3. CASE Bar!PStore
  <2>1. /\ ppc = "store" /\ ppc' = "wmb" /\ mem' = mem /\ clearing' = clearing
        /\ g_seq' = Bar!NextSeq(g_seq) /\ bar_buf'["data"] = {g_seq'} /\ bar_buf'["flag"] = bar_buf["flag"]
    BY <1>3 DEF Bar!PStore, Bar!PGoto, Bar!TypeOK
  <2>2. QED BY <1>3, <2>1 DEF Bar!PStore, Bar!PGoto, Bar!Handover, Bar!Reader, Bar!Quiet
<1>4. CASE Bar!PWmb
  BY <1>4 DEF Bar!PWmb, Bar!PGoto, Bar!Wmb, Bar!Handover, Bar!Reader, Bar!Quiet
<1>5. CASE Bar!PFlag
  <2>1. /\ ppc = "flag" /\ ppc' = "test" /\ mem' = mem /\ clearing' = clearing
        /\ g_seq' = g_seq /\ bar_buf'["flag"] = {g_seq} /\ bar_buf'["data"] = bar_buf["data"]
    BY <1>5 DEF Bar!PFlag, Bar!PGoto, Bar!TypeOK
  <2>2. mem["flag"] = 0 /\ mem["data"] = g_seq /\ bar_buf["data"] = {} /\ ~clearing
    BY <2>1 DEF Bar!Handover, Bar!Quiet
  <2>3. QED BY <1>5, <2>1, <2>2 DEF Bar!PFlag, Bar!PGoto, Bar!Handover, Bar!Reader,
               Bar!Quiet
<1>6. QED BY <1>1, <1>2, <1>3, <1>4, <1>5 DEF Bar!Producer

(* A store that reaches the memory.                                        *)
LEMMA DrainStep ==
  ASSUME Bar!TypeOK, useBarrier, Bar!Handover, Bar!Reader, ~mismatch,
         NEW w \in Bar!Words, Bar!Drain(w)
  PROVE  (Bar!Handover /\ Bar!Reader /\ ~mismatch)'
<1>1. CASE w = "data"
  <2>1. PICK x \in bar_buf["data"] : mem' = [mem EXCEPT !["data"] = x]
    BY <1>1 DEF Bar!Drain
  <2>2. /\ mem'["data"] = x /\ mem'["flag"] = mem["flag"]
        /\ bar_buf'["data"] = {} /\ bar_buf'["flag"] = bar_buf["flag"]
    BY <1>1, <2>1 DEF Bar!Drain, Bar!TypeOK
  <2>3. mem["flag"] = 0 /\ bar_buf["flag"] \subseteq {0} /\ ppc # "flag"
    <3>1. bar_buf["data"] # {}
      BY <2>1
    <3>2. QED BY <3>1 DEF Bar!Handover
  <2>4. ppc = "wmb" => x = g_seq
    BY <2>1 DEF Bar!Handover
  <2>5. QED BY <1>1, <2>2, <2>3, <2>4 DEF Bar!Drain, Bar!Handover, Bar!Reader, Bar!Quiet
<1>2. CASE w = "flag"
  <2>1. PICK x \in bar_buf["flag"] : mem' = [mem EXCEPT !["flag"] = x]
    BY <1>2 DEF Bar!Drain
  <2>2. /\ mem'["flag"] = x /\ mem'["data"] = mem["data"]
        /\ bar_buf'["flag"] = {} /\ bar_buf'["data"] = bar_buf["data"]
    BY <1>2, <2>1 DEF Bar!Drain, Bar!TypeOK
  <2>3. mem["flag"] = 0 /\ ~clearing /\ bar_cpc \notin {"read", "clear"}
    BY <2>1 DEF Bar!Handover, Bar!Reader
  <2>4. x # 0 => x = g_seq
    BY <2>1 DEF Bar!Handover
  <2>5. QED BY <1>2, <2>1, <2>2, <2>3, <2>4 DEF Bar!Drain, Bar!Handover, Bar!Reader,
               Bar!Quiet
<1>3. QED BY <1>1, <1>2

(* The consumer's steps: what it reads is the data of its flag.            *)
LEMMA ConsumerStep ==
  ASSUME Bar!TypeOK, useBarrier, Bar!Handover, Bar!Reader, ~mismatch,
         Bar!Consumer \/ Bar!CEarly \/ Bar!CDrain \/ Bar!Exit
  PROVE  (Bar!Handover /\ Bar!Reader /\ ~mismatch)'
<1>1. CASE Bar!CTest
  BY <1>1 DEF Bar!CTest, Bar!CGoto, Bar!Handover, Bar!Reader, Bar!Quiet
<1>2. CASE Bar!CSpin
  BY <1>2 DEF Bar!CSpin, Bar!CGoto, Bar!CFlagSeen, Bar!Handover, Bar!Reader, Bar!Quiet
<1>3. CASE Bar!CRead
  <2>1. mem["data"] = bar_f /\ early = {}
    BY <1>3 DEF Bar!CRead, Bar!CGoto, Bar!Handover, Bar!Reader
  <2>2. ~mismatch'
    BY <1>3, <2>1 DEF Bar!CRead
  <2>3. QED BY <1>3, <2>1, <2>2 DEF Bar!CRead, Bar!CGoto, Bar!Handover, Bar!Reader,
               Bar!Quiet
<1>4. CASE Bar!CClear
  BY <1>4 DEF Bar!CClear, Bar!CGoto, Bar!Cleared, Bar!Handover, Bar!Reader, Bar!Quiet
<1>5. CASE Bar!CEarly
  BY <1>5 DEF Bar!CEarly, Bar!Rmb
<1>6. CASE Bar!CDrain
  <2>1. mem'["flag"] = 0 /\ mem'["data"] = mem["data"] /\ ~clearing'
    BY <1>6 DEF Bar!CDrain, Bar!TypeOK
  <2>2. mem["flag"] # 0 /\ bar_cpc \notin {"read", "clear"}
    BY <1>6 DEF Bar!CDrain, Bar!Reader
  <2>3. QED BY <1>6, <2>1, <2>2 DEF Bar!CDrain, Bar!Handover, Bar!Reader, Bar!Quiet
<1>7. CASE Bar!Exit
  BY <1>7 DEF Bar!Exit, Bar!Handover, Bar!Reader, Bar!Quiet
<1>8. QED BY <1>1, <1>2, <1>3, <1>4, <1>5, <1>6, <1>7 DEF Bar!Consumer

(* The flag goes to and fro whatever the barriers do: the producer raises  *)
(* it only after it has seen it lowered, one round further each time.      *)
LEMMA RoundsStep ==
  ASSUME Bar!TypeOK, Bar!Rounds, Bar!Next
  PROVE  Bar!Rounds'
<1> USE DEF Bar!TypeOK, Bar!Rounds, Bar!Unread, Bar!Wrapped, Bar!Quiet, Bar!Successor, Bar!Values
<1>1. CASE Bar!Producer
  <2> USE DEF Bar!PGoto
  <2>1. CASE Bar!PTest
    BY <2>1 DEF Bar!PTest
  <2>2. CASE Bar!PSpin
    BY <2>2 DEF Bar!PSpin, Bar!Answered, Bar!PFlagSeen
  <2>3. CASE Bar!PStore
    BY <2>3 DEF Bar!PStore, Bar!NextSeq
  <2>4. CASE Bar!PWmb
    BY <2>4 DEF Bar!PWmb
  <2>5. CASE Bar!PFlag
    BY <2>5 DEF Bar!PFlag
  <2>6. QED BY <1>1, <2>1, <2>2, <2>3, <2>4, <2>5 DEF Bar!Producer
<1>2. ASSUME NEW w \in Bar!Words, Bar!Drain(w) PROVE Bar!Rounds'
  BY <1>2 DEF Bar!Drain
<1>3. CASE Bar!Consumer \/ Bar!CEarly \/ Bar!CDrain
  <2> USE DEF Bar!CGoto
  <2>1. CASE Bar!CTest
    BY <2>1 DEF Bar!CTest
  <2>2. CASE Bar!CSpin
    BY <2>2 DEF Bar!CSpin, Bar!CFlagSeen
  <2>3. CASE Bar!CRead
    BY <2>3 DEF Bar!CRead
  <2>4. CASE Bar!CClear
    BY <2>4 DEF Bar!CClear, Bar!Cleared
  <2>5. CASE Bar!CEarly
    BY <2>5 DEF Bar!CEarly
  <2>6. CASE Bar!CDrain
    BY <2>6 DEF Bar!CDrain
  <2>7. QED BY <1>3, <2>1, <2>2, <2>3, <2>4, <2>5, <2>6 DEF Bar!Consumer
<1>4. CASE Bar!Exit \/ Bar!Toggle
  BY <1>4 DEF Bar!Exit, Bar!Toggle
<1>5. QED BY <1>1, <1>2, <1>3, <1>4 DEF Bar!Next

(* A behaviour of the board is one of this module, or leaves it alone.     *)
LEMMA BarRun ==
  /\ Init => Bar!Init
  /\ [Next]_vars => [Bar!Next]_(Bar!vars)
<1>1. Init => Bar!Init
  BY DEF Init
<1>2. [Next]_vars => [Bar!Next]_(Bar!vars)
  BY DEF Next, Runs, vars, barVars, Bar!vars, Bar!prod, Bar!cons, Bar!bars
<1>3. QED BY <1>1, <1>2

(* The inductive invariant.                                                *)
THEOREM BarInvariance == Spec => []Bar!IInv
<1>1. ASSUME Bar!IInv, Bar!Next PROVE Bar!IInv'
  <2>1. Bar!TypeOK' /\ Bar!Rounds'
    BY <1>1, BarTypeStep, RoundsStep DEF Bar!IInv
  <2>2. CASE Bar!Toggle
    <3>1. weak'
      BY <2>2 DEF Bar!Toggle
    <3>2. QED BY <2>1, <3>1 DEF Bar!IInv
  <2>3. ASSUME ~Bar!Toggle, ~weak' PROVE (useBarrier /\ Bar!Handover /\ Bar!Reader /\ ~mismatch)'
    <3>1. UNCHANGED Bar!bars
      BY <1>1, <2>3 DEF Bar!Next, Bar!Producer, Bar!Consumer, Bar!PTest, Bar!PSpin,
         Bar!PStore, Bar!PWmb, Bar!PFlag,
         Bar!CTest, Bar!CSpin, Bar!CRead, Bar!CClear, Bar!CEarly, Bar!CDrain, Bar!Drain, Bar!Exit, Bar!PGoto, Bar!CGoto
    <3>2. Bar!TypeOK /\ useBarrier /\ Bar!Handover /\ Bar!Reader /\ ~mismatch
      BY <1>1, <2>3, <3>1 DEF Bar!IInv, Bar!bars
    <3>3. (Bar!Handover /\ Bar!Reader /\ ~mismatch)'
      BY <1>1, <2>3, <3>2, ProducerStep, DrainStep, ConsumerStep DEF Bar!Next
    <3>4. QED BY <3>1, <3>2, <3>3 DEF Bar!bars
  <2>4. QED BY <2>1, <2>2, <2>3 DEF Bar!IInv
<1>2. ASSUME Bar!IInv, UNCHANGED Bar!vars PROVE Bar!IInv'
  BY <1>2 DEF Bar!IInv, Bar!TypeOK, Bar!Handover, Bar!Reader, Bar!Quiet, Bar!bars,
     Bar!Rounds, Bar!Unread, Bar!Wrapped, Bar!Successor
<1>3. QED BY BarInit, BarRun, <1>1, <1>2, PTL DEF Spec

(* use_barrier = 1: the count of mismatches stays 0 (mem_barrier.c, 85).   *)
THEOREM BarriersSuffice == Spec => []NoMismatch
<1>1. Bar!IInv => NoMismatch
  BY DEF Bar!IInv, Bar!NoMismatch, NoMismatch
<1>2. QED BY <1>1, BarInvariance, PTL

(* With or without barriers the consumer sees the rounds one after the     *)
(* other, also when g_seq wraps around (producer_fn, consumer_fn).         *)
THEOREM RoundsComeInOrder == Spec => RoundsInOrder
<1>1. ASSUME Bar!IInv, Bar!Next, bar_cpc = "spin", bar_cpc' = "read"
      PROVE  bar_f' = Bar!Successor(bar_f)
  <2>1. Bar!CSpin
    BY <1>1 DEF Bar!Next, Bar!Producer, Bar!Consumer, Bar!PTest, Bar!PSpin, Bar!PStore, Bar!PWmb,
       Bar!PFlag, Bar!CTest, Bar!CRead, Bar!CClear, Bar!CEarly, Bar!CDrain, Bar!Drain,
       Bar!Exit, Bar!Toggle, Bar!PGoto, Bar!CGoto
  <2>2. bar_f' = mem["flag"] /\ mem["flag"] # 0 /\ ~clearing
    BY <1>1, <2>1 DEF Bar!CSpin, Bar!CGoto, Bar!CFlagSeen
  <2>3. Bar!Unread /\ mem["flag"] = g_seq
    BY <1>1, <2>2 DEF Bar!IInv, Bar!Rounds, Bar!Unread
  <2>4. ppc \notin {"wmb", "flag"}
    BY <1>1, <2>2 DEF Bar!IInv, Bar!Rounds, Bar!Quiet
  <2>5. QED BY <1>1, <2>2, <2>3, <2>4 DEF Bar!IInv, Bar!Rounds
<1>2. Bar!IInv /\ [Bar!Next]_(Bar!vars) =>
          [bar_cpc = "spin" /\ bar_cpc' = "read" => bar_f' = Bar!Successor(bar_f)]_(Bar!vars)
  BY <1>1
<1>3. QED BY <1>2, BarRun, BarInvariance, PTL DEF Spec, RoundsInOrder, Bar!RoundsInOrder
=============================================================================
