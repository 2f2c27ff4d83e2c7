-------------------------- MODULE ItemStore_proofs --------------------------
(***************************************************************************)
(* The memory of the items of idr_demo.c, rb_demo.c and list_demo.c, for   *)
(* any number of processes, pieces of memory and keys.                     *)
(***************************************************************************)
EXTENDS ItemStore, TLAPS

USE DEF itemVars, lifeVars, Goto, Kfree, Owns

(* Which files must be there for a process to enter.                       *)
LEMMA PresentOf ==
  ASSUME gone \in 0 .. 3, made \in 0 .. 3
  PROVE  /\ Present("insert") => gone = 0 /\ made >= 1
         /\ Present("find") => gone < 2 /\ made >= 2
         /\ Present("remove") => gone < 3 /\ made >= 3
  BY DEF Present, Attrs

(* What sysfs_remove_file has waited for, file by file.                    *)
LEMMA DrainedOf ==
  ASSUME gone \in 0 .. 3, made \in 0 .. 3, Drained
  PROVE  /\ gone = 1 \/ made = 0 => \A p \in Procs : pc[p] \notin PcOf.insert
         /\ gone = 2 \/ made = 1 => \A p \in Procs : pc[p] \notin PcOf.find
         /\ gone = 3 \/ made = 2 => \A p \in Procs : pc[p] \notin PcOf.remove
  BY DEF Drained, Attrs, PcOf

(* Nobody is inside any more.                                              *)
LEMMA AllOut ==
  ASSUME IInv, gone = 3 \/ (made = 0 /\ gone = 0), Drained
  PROVE  \A p \in Procs : pc[p] = "idle"
<1>1. gone \in 0 .. 3 /\ made \in 0 .. 3
  BY DEF IInv, MemorySafe, TypeOK
<1>2. /\ made = 0 => \A p \in Procs : pc[p] \notin PcOf.insert
      /\ gone = 3 => \A p \in Procs : pc[p] \notin PcOf.remove
  BY <1>1, DrainedOf
<1> SUFFICES ASSUME NEW p \in Procs PROVE pc[p] = "idle"
  OBVIOUS
<1>3. /\ pc[p] \in PcOf.insert => gone <= 1
      /\ pc[p] \in PcOf.find => gone <= 2 /\ made >= 1
      /\ pc[p] \in PcOf.remove => made >= 2
  BY DEF IInv, Quiet
<1>4. pc[p] \notin PcOf.insert
  BY <1>2, <1>3
<1>5. pc[p] \notin PcOf.find
  BY <1>3
<1>6. pc[p] \notin PcOf.remove
  BY <1>2, <1>3
<1>7. QED BY <1>4, <1>5, <1>6 DEF IInv, MemorySafe, TypeOK, PcOf

(* The initial states satisfy the invariant.                               *)
LEMMA InitIInv == Init => IInv
<1> SUFFICES ASSUME Init PROVE IInv
  OBVIOUS
<1>1. /\ \A p \in Procs : pc[p] = "idle"
      /\ stored = {} /\ raced = FALSE /\ made = 0 /\ stage = "loading"
  BY DEF Init
<1>2. Numbered
  BY <1>1 DEF Numbered, HasId
<1>3. TypeOK
  <2>1. 0 \in Keys /\ next_id \in 0 .. MaxKey + 1
    BY StoreAssumption DEF Init, Keys
  <2>2. /\ key \in [Items -> Keys] /\ frees \in [Items -> 0 .. 3]
        /\ pc \in [Procs -> {"idle", "id", "bump", "insert", "inserted", "found", "free"}]
        /\ item \in [Procs -> Items \cup {Nothing}]
    BY <2>1 DEF Init
  <2>3. /\ kind \in {"idr", "rb", "list"} /\ gone \in 0 .. 3 /\ made \in 0 .. 3
    BY DEF Init
  <2>4. raced \in BOOLEAN /\ stored \subseteq Items
    BY <1>1
  <2>5. QED BY <1>1, <2>1, <2>2, <2>3, <2>4 DEF TypeOK
<1>4. MemorySafe
  BY <1>1, <1>3 DEF Init, MemorySafe, UseFindsMemory
<1>5. LiveIsOwned /\ KeysUnique
  BY <1>1 DEF Init, LiveIsOwned, KeysUnique
<1>6. Exclusive /\ Quiet
  BY <1>1 DEF Init, Exclusive, Quiet, PcOf
<1>7. QED
  BY <1>2, <1>4, <1>5, <1>6 DEF IInv

(* A process that allocates, numbers, inserts, refuses, finds or frees an  *)
(* item: each part of the invariant holds after its step.                  *)
LEMMA AllocStep ==
  ASSUME IInv, NEW p \in Procs, Alloc(p)
  PROVE  IInv'
<1> USE StoreAssumption DEF IInv
<1>1. gone = 0 /\ made >= 1 /\ made \in 0 .. 3
  BY PresentOf DEF Alloc, MemorySafe, TypeOK
<1>2. PICK i \in Items :
        /\ frees[i] = 0 /\ frees' = [frees EXCEPT ![i] = 1]
        /\ \/ key' = key
           \/ \E k \in Keys : key' = [key EXCEPT ![i] = k]
        /\ Goto(p, "idle", IF kind = "list" THEN "id" ELSE "insert", i)
  BY DEF Alloc
<1>3. /\ stage \notin {"failed", "unloaded"} /\ stage' = stage /\ gone' = gone
      /\ made' = made /\ kind' = kind
  BY <1>1, <1>2 DEF Quiet
<1>4. stored' = stored /\ next_id' = next_id /\ raced' = raced /\ i \notin stored
  BY <1>2 DEF Alloc, MemorySafe, TypeOK
<1>5. /\ pc[p] = "idle" /\ ~Owns(p) /\ Owns(p)' /\ item'[p] = i
      /\ \A q \in Procs \ {p} : pc'[q] = pc[q] /\ item'[q] = item[q]
  BY <1>2 DEF MemorySafe, TypeOK
<1>5a. \A q \in Procs : pc[q] # "idle" => item[q] # i
  BY <1>2 DEF Exclusive
<1>5b. UseFindsMemory'
  BY <1>2, <1>3, <1>5, <1>5a DEF MemorySafe, UseFindsMemory, Removable, TypeOK
<1>6. MemorySafe'
  BY <1>2, <1>3, <1>4, <1>5, <1>5b DEF MemorySafe, TypeOK
<1>7. LiveIsOwned'
  BY <1>2, <1>3, <1>4, <1>5 DEF LiveIsOwned, MemorySafe, TypeOK
<1>8. KeysUnique'
  BY <1>2, <1>3, <1>4 DEF KeysUnique, MemorySafe, TypeOK
<1>9. Exclusive'
  BY <1>2, <1>4, <1>5, <1>5a DEF Exclusive, MemorySafe, TypeOK
<1>10. Quiet'
  BY <1>1, <1>2, <1>3, <1>5 DEF Quiet, PcOf, Removable
<1>11. Numbered'
  <2>1. \A j \in Items : kind = "list" /\ HasId(j)' => HasId(j) /\ key'[j] = key[j] /\ j # i
    BY <1>2, <1>4, <1>5, <1>5a DEF HasId, MemorySafe, TypeOK
  <2>2. \A q \in Procs : pc'[q] = "bump" =>
            pc[q] = "bump" /\ item'[q] = item[q] /\ key'[item[q]] = key[item[q]]
    BY <1>2, <1>5, <1>5a DEF Exclusive, MemorySafe, TypeOK
  <2>3. QED BY <1>3, <1>4, <2>1, <2>2 DEF Numbered
<1>12. QED BY <1>6, <1>7, <1>8, <1>9, <1>10, <1>11

(* list_demo.c numbers its item outside the lock: nobody else sees it yet. *)
LEMMA NumberStep ==
  ASSUME IInv, NEW p \in Procs, LoadId(p) \/ BumpId(p)
  PROVE  IInv'
<1> USE StoreAssumption DEF IInv, MemorySafe, TypeOK
<1>1. /\ Owns(p) /\ Owns(p)' /\ item[p] \in Items /\ item' = item
      /\ \A q \in Procs \ {p} : pc'[q] = pc[q]
      /\ pc[p] \in PcOf.insert /\ pc[p] \in {"id", "bump"} /\ pc'[p] \in {"bump", "insert"}
  BY DEF LoadId, BumpId, Exclusive, PcOf
<1>2. stored' = stored /\ frees' = frees /\ stage' = stage /\ gone' = gone /\ made' = made /\ kind' = kind
  BY DEF LoadId, BumpId
<1>3. stage \notin {"failed", "unloaded"}
  BY <1>1
<1>4. key' \in [Items -> Keys] /\ next_id' \in 0 .. MaxKey + 1
      /\ \A i \in Items \ {item[p]} : key'[i] = key[i]
  BY <1>1 DEF LoadId, BumpId, Keys
<1>4a. raced' \in BOOLEAN /\ (raced => raced')
  <2>1. CASE LoadId(p)
    BY <2>1, Zenon DEF LoadId
  <2>2. CASE BumpId(p)
    BY <2>2 DEF BumpId
  <2>3. QED BY <2>1, <2>2
<1>5. MemorySafe'
  <2>1. pc' \in [Procs -> {"idle", "id", "bump", "insert", "inserted", "found", "free"}]
    BY DEF LoadId, BumpId
  <2>2. UseFindsMemory'
    BY <1>1, <1>2 DEF UseFindsMemory, Removable, Exclusive
  <2>3. QED BY <1>1, <1>2, <1>3, <1>4, <1>4a, <2>1, <2>2
<1>6. LiveIsOwned'
  BY <1>1, <1>2 DEF LiveIsOwned
<1>7. KeysUnique'
  BY <1>1, <1>2, <1>4, <1>4a DEF KeysUnique, Exclusive
<1>8. Exclusive'
  BY <1>1, <1>2 DEF Exclusive
<1>9. Quiet'
  BY <1>1, <1>2, <1>3 DEF Quiet, PcOf, Removable
<1>10. Numbered'
  <2> SUFFICES ASSUME kind = "list", ~raced' PROVE Numbered'
    BY <1>2 DEF Numbered
  <2>0. ~raced
    BY <1>4a
  <2> USE <2>0 DEF Numbered
  <2>1. CASE LoadId(p)
    <3>1. /\ pc[p] = "id" /\ pc'[p] = "bump" /\ key'[item[p]] = next_id /\ next_id' = next_id
      BY <1>1, <2>1 DEF LoadId
    <3>1a. \A q \in Procs : pc[q] # "bump"
      BY <2>1, Zenon DEF LoadId
    <3>2. \A j \in Items : HasId(j)' => HasId(j) /\ j # item[p]
      BY <1>1, <1>2, <3>1 DEF HasId, Exclusive
    <3>3. QED BY <1>1, <1>2, <1>4, <3>1, <3>1a, <3>2
  <2>2. CASE BumpId(p)
    <3>1. /\ pc[p] = "bump" /\ pc'[p] = "insert" /\ key' = key
          /\ next_id = key[item[p]] /\ next_id' = next_id + 1
          /\ \A q \in Procs : pc'[q] # "bump"
      BY <1>1, <2>2 DEF BumpId
    <3>2. \A j \in Items : HasId(j)' => HasId(j) \/ j = item[p]
      BY <1>1, <1>2, <3>1 DEF HasId
    <3>3. \A j \in Items : HasId(j) => key[j] < next_id /\ key[j] \in Nat
      BY DEF Keys
    <3>4. next_id \in Nat
      OBVIOUS
    <3>5. \A j \in Items : HasId(j)' => key'[j] < next_id'
      BY <1>1, <3>1, <3>2, <3>3, <3>4
    <3>6. \A i, j \in Items : HasId(i)' /\ HasId(j)' /\ key'[i] = key'[j] => i = j
      <4> SUFFICES ASSUME NEW i \in Items, NEW j \in Items, HasId(i)', HasId(j)', key[i] = key[j]
                   PROVE  i = j
        BY <3>1
      <4>1. CASE HasId(i) /\ HasId(j)
        BY <4>1
      <4>2. CASE ~HasId(i)
        BY <1>1, <3>1, <3>2, <3>3, <3>4, <4>2
      <4>3. CASE ~HasId(j)
        BY <1>1, <3>1, <3>2, <3>3, <3>4, <4>3
      <4>4. QED BY <4>1, <4>2, <4>3
    <3>7. QED BY <1>1, <3>1, <3>5, <3>6
  <2>3. QED BY <2>1, <2>2
<1>11. QED BY <1>5, <1>6, <1>7, <1>8, <1>9, <1>10

(* The critical section of insert, where the key is found to be free.      *)
LEMMA InsertStep ==
  ASSUME IInv, NEW p \in Procs, Insert(p)
  PROVE  IInv'
<1> USE StoreAssumption DEF IInv, MemorySafe, TypeOK
<1>1. /\ Owns(p) /\ ~Owns(p)' /\ item[p] \in Items /\ item' = item
      /\ \A q \in Procs \ {p} : pc'[q] = pc[q]
      /\ pc[p] \in PcOf.insert /\ pc'[p] = "inserted"
  BY DEF Insert, Exclusive, PcOf
<1>2. /\ stored' = stored \cup {item[p]} /\ frees' = frees
      /\ next_id' = next_id /\ raced' = raced
      /\ stage' = stage /\ gone' = gone /\ made' = made /\ kind' = kind
      /\ item[p] \notin stored /\ frees[item[p]] = 1
  BY <1>1 DEF Insert, Exclusive
<1>3. stage \notin {"failed", "unloaded"}
  BY <1>1
<1>4. /\ key' \in [Items -> Keys]
      /\ \A i \in Items \ {item[p]} : key'[i] = key[i]
  BY <1>1 DEF Insert, Fresh
<1>5. kind # "list" => ~Taken(key'[item[p]])
  <2>1. CASE kind = "idr"
    BY <1>1, <2>1 DEF Insert, Fresh
  <2>2. CASE kind = "rb"
    BY <1>1, <2>2 DEF Insert, Duplicate
  <2>3. QED BY <2>1, <2>2
<1>6. MemorySafe'
  <2>1. pc' \in [Procs -> {"idle", "id", "bump", "insert", "inserted", "found", "free"}]
    BY DEF Insert
  <2>2. UseFindsMemory'
    BY <1>1, <1>2 DEF UseFindsMemory, Removable
  <2>3. QED BY <1>1, <1>2, <1>3, <1>4, <2>1, <2>2
<1>7. LiveIsOwned'
  BY <1>1, <1>2 DEF LiveIsOwned
<1>7a. ASSUME kind = "list" PROVE key' = key /\ \A j \in Items : HasId(j)' => HasId(j)
  BY <1>1, <1>2, <1>7a DEF Insert, HasId
<1>8. KeysUnique'
  <2>1. CASE kind = "list"
    <3>1. ASSUME ~raced, NEW i \in stored', NEW j \in stored', key'[i] = key'[j]
          PROVE  i = j
      <4>1. i \in Items /\ j \in Items /\ HasId(i) /\ HasId(j)
        BY <1>1, <1>2, <2>1, <3>1 DEF HasId, Insert
      <4>2. QED BY <1>7a, <2>1, <3>1, <4>1 DEF Numbered
    <3>2. QED BY <1>2, <2>1, <3>1 DEF KeysUnique
  <2>2. CASE kind # "list"
    BY <1>1, <1>2, <1>4, <1>5, <2>2 DEF KeysUnique, Taken
  <2>3. QED BY <2>1, <2>2
<1>9. Exclusive'
  BY <1>1, <1>2 DEF Exclusive
<1>10. Quiet'
  BY <1>1, <1>2, <1>3 DEF Quiet, PcOf, Removable
<1>11. Numbered'
  BY <1>1, <1>2, <1>7a DEF Numbered
<1>12. QED BY <1>6, <1>7, <1>8, <1>9, <1>10, <1>11

(* An item is given back by its owner, after a refusal or a removal.       *)
LEMMA GiveBackStep ==
  ASSUME IInv, NEW p \in Procs, Refuse(p) \/ IdrAllocFails(p) \/ Free(p)
  PROVE  IInv'
<1> USE StoreAssumption DEF IInv, MemorySafe, TypeOK
<1>1. /\ Owns(p) /\ ~Owns(p)' /\ item[p] \in Items
      /\ \A q \in Procs \ {p} : pc'[q] = pc[q] /\ item'[q] = item[q]
      /\ pc'[p] = "idle"
  BY DEF Refuse, IdrAllocFails, GiveBack, Free, Exclusive
<1>2. /\ frees' = [frees EXCEPT ![item[p]] = 2]
      /\ item[p] \notin stored /\ frees[item[p]] = 1
      /\ stored' = stored /\ key' = key /\ next_id' = next_id /\ raced' = raced
      /\ stage' = stage /\ gone' = gone /\ made' = made /\ kind' = kind
  BY <1>1 DEF Refuse, IdrAllocFails, GiveBack, Free, GivenBack, Exclusive
<1>3. stage \notin {"failed", "unloaded"}
  BY <1>1
<1>4. MemorySafe'
  <2>1. /\ pc' \in [Procs -> {"idle", "id", "bump", "insert", "inserted", "found", "free"}]
        /\ item' \in [Procs -> Items \cup {Nothing}]
    BY DEF Refuse, IdrAllocFails, GiveBack, Free
  <2>2. UseFindsMemory'
    <3> SUFFICES ASSUME NEW q \in Procs, pc'[q] # "idle", frees'[item'[q]] # 1
                 PROVE  /\ pc'[q] \in {"inserted", "found"} /\ Removable'
                        /\ kind' = "list" => pc'[q] = "inserted"
      BY DEF UseFindsMemory
    <3>1. /\ q # p /\ pc'[q] = pc[q] /\ item'[q] = item[q]
          /\ Removable' = Removable /\ kind' = kind
      BY <1>1, <1>2 DEF Removable
    <3>2. CASE item[q] # item[p]
      BY <1>1, <1>2, <3>1, <3>2 DEF UseFindsMemory, Exclusive
    <3>3. CASE item[q] = item[p]
      <4>1. pc[p] = "free" /\ ~Owns(q)
        BY <1>1, <3>1, <3>3 DEF Exclusive
      <4>2. pc[q] \in {"inserted", "found"} /\ Removable /\ kind # "list"
        BY <3>1, <4>1 DEF Quiet
      <4>3. QED BY <3>1, <4>2
    <3>4. QED BY <3>2, <3>3
  <2>3. QED BY <1>1, <1>2, <1>3, <2>1, <2>2
<1>5. LiveIsOwned'
  BY <1>1, <1>2 DEF LiveIsOwned
<1>6. KeysUnique'
  BY <1>2 DEF KeysUnique
<1>7. Exclusive'
  BY <1>1, <1>2 DEF Exclusive
<1>8. Quiet'
  BY <1>1, <1>2, <1>3 DEF Quiet, PcOf, Removable
<1>9. Numbered'
  <2>1. \A j \in Items : HasId(j)' => HasId(j)
    BY <1>1, <1>2 DEF HasId
  <2>2. QED BY <1>1, <1>2, <2>1 DEF Numbered
<1>10. QED BY <1>4, <1>5, <1>6, <1>7, <1>8, <1>9

(* find enters, and find and insert leave: the container stays as it is.   *)
LEMMA LookStep ==
  ASSUME IInv, NEW p \in Procs, Find(p) \/ Touch(p)
  PROVE  IInv'
<1> USE StoreAssumption DEF IInv, MemorySafe, TypeOK
<1>1. /\ ~Owns(p) /\ ~Owns(p)' /\ pc'[p] \in {"idle", "found"}
      /\ pc'[p] = "found" => item'[p] \in stored /\ item'[p] \in Items /\ kind # "list"
      /\ \A q \in Procs \ {p} : pc'[q] = pc[q] /\ item'[q] = item[q]
  BY DEF Find, Touch
<1>2. /\ stored' = stored /\ frees' = frees /\ key' = key /\ next_id' = next_id /\ raced' = raced
      /\ stage' = stage /\ gone' = gone /\ made' = made /\ kind' = kind
  BY DEF Find, Touch
<1>3. pc'[p] = "found" => gone <= 2 /\ made >= 1 /\ stage \notin {"failed", "unloaded"}
  BY <1>1, PresentOf DEF Find, Touch, Quiet
<1>4. MemorySafe'
  <2>1. /\ pc' \in [Procs -> {"idle", "id", "bump", "insert", "inserted", "found", "free"}]
        /\ item' \in [Procs -> Items \cup {Nothing}]
    BY DEF Find, Touch
  <2>2. UseFindsMemory'
    BY <1>1, <1>2 DEF UseFindsMemory, Removable
  <2>3. QED BY <1>1, <1>2, <1>3, <2>1, <2>2
<1>5. LiveIsOwned'
  BY <1>1, <1>2 DEF LiveIsOwned
<1>6. KeysUnique'
  BY <1>2 DEF KeysUnique
<1>7. Exclusive'
  BY <1>1, <1>2 DEF Exclusive
<1>8. Quiet'
  BY <1>1, <1>2, <1>3 DEF Quiet, PcOf, Removable
<1>9. Numbered'
  <2>1. \A j \in Items : HasId(j)' => HasId(j)
    BY <1>1, <1>2 DEF HasId
  <2>2. QED BY <1>1, <1>2, <2>1 DEF Numbered
<1>10. QED BY <1>4, <1>5, <1>6, <1>7, <1>8, <1>9

(* The critical section of del: the item leaves with one process, or is    *)
(* freed on the spot.                                                      *)
LEMMA RemoveStep ==
  ASSUME IInv, NEW p \in Procs, Remove(p)
  PROVE  IInv'
<1> USE StoreAssumption DEF IInv, MemorySafe, TypeOK
<1>1. PICK i \in stored :
        /\ stored' = stored \ {i}
        /\ IF kind = "list"
           THEN Goto(p, "idle", "idle", Nothing) /\ Kfree(i)
           ELSE Goto(p, "idle", "free", i) /\ UNCHANGED frees
  BY DEF Remove, Unlinked
<1>2. gone < 3 /\ made = 3 /\ stage \notin {"failed", "unloaded"} /\ Removable
  BY PresentOf DEF Remove, Quiet, Removable
<1>3. /\ i \in Items /\ frees[i] = 1 /\ ~Owns(p) /\ pc'[p] \in {"idle", "free"}
      /\ \A q \in Procs : Owns(q) => item[q] # i
      /\ \A q \in Procs \ {p} : pc'[q] = pc[q] /\ item'[q] = item[q]
      /\ key' = key /\ next_id' = next_id /\ raced' = raced
      /\ stage' = stage /\ gone' = gone
      /\ made' = made /\ kind' = kind
  BY <1>1 DEF Remove, Exclusive
<1>4. \/ pc'[p] = "idle" /\ frees' = [frees EXCEPT ![i] = 2] /\ kind = "list"
      \/ pc'[p] = "free" /\ item'[p] = i /\ frees' = frees /\ kind # "list"
  BY <1>1, <1>3
<1>5. MemorySafe'
  <2>1. /\ pc' \in [Procs -> {"idle", "id", "bump", "insert", "inserted", "found", "free"}]
        /\ item' \in [Procs -> Items \cup {Nothing}]
    BY <1>1, <1>3
  <2>2. UseFindsMemory'
    <3> SUFFICES ASSUME NEW q \in Procs, pc'[q] # "idle", frees'[item'[q]] # 1
                 PROVE  /\ pc'[q] \in {"inserted", "found"} /\ Removable'
                        /\ kind' = "list" => pc'[q] = "inserted"
      BY DEF UseFindsMemory
    <3>1. Removable' /\ q # p /\ pc'[q] = pc[q] /\ item'[q] = item[q]
      BY <1>2, <1>3, <1>4 DEF Removable
    <3>2. item[q] = i => pc[q] \in {"inserted", "found"}
      BY <1>3, <3>1
    <3>3. kind = "list" => pc[q] \notin {"found", "free"}
      BY DEF Quiet
    <3>4. item[q] # i => frees[item[q]] # 1
      BY <1>3, <1>4, <3>1 DEF Exclusive
    <3>5. QED BY <1>3, <3>1, <3>2, <3>3, <3>4 DEF UseFindsMemory
  <2>3. QED BY <1>1, <1>2, <1>3, <1>4, <2>1, <2>2
<1>6. LiveIsOwned'
  BY <1>1, <1>3, <1>4 DEF LiveIsOwned
<1>7. KeysUnique'
  BY <1>1, <1>3 DEF KeysUnique
<1>8. Exclusive'
  BY <1>1, <1>3, <1>4 DEF Exclusive
<1>9. Quiet'
  BY <1>2, <1>3, <1>4 DEF Quiet, PcOf, Removable
<1>10. Numbered'
  <2>1. \A j \in Items : HasId(j)' => HasId(j)
    BY <1>1, <1>3 DEF HasId
  <2>2. QED BY <1>3, <2>1 DEF Numbered
<1>11. QED BY <1>5, <1>6, <1>7, <1>8, <1>9, <1>10

(* Init makes one file after the other, or takes them away again; the exit *)
(* function takes them away and empties the container.                     *)
LEMMA InitFunctionStep ==
  ASSUME IInv, CreateFile \/ InitDone \/ InitFails \/ UndoFile \/ Undone
  PROVE  IInv'
<1> USE StoreAssumption DEF IInv, MemorySafe, TypeOK
<1>1. /\ itemVars' = itemVars /\ kind' = kind /\ gone' = gone /\ gone = 0
      /\ made' \in 0 .. 3 /\ stage \notin {"unloaded", "failed"} /\ stage' # "unloaded"
      /\ stage' \in {"loading", "loaded", "undoing", "failed"}
  BY DEF CreateFile, InitDone, InitFails, UndoFile, Undone, Quiet
<1>2. stage' = "failed" => made = 0 /\ Drained
  BY <1>1 DEF CreateFile, InitDone, InitFails, UndoFile, Undone
<1>2a. Removable => \/ Removable'
                     \/ \A p \in Procs : pc[p] = "idle"
  BY <1>1, <1>2, AllOut DEF CreateFile, InitDone, InitFails, UndoFile, Undone, Removable
<1>2b. UseFindsMemory'
  BY <1>1, <1>2a DEF UseFindsMemory
<1>3. MemorySafe'
  BY <1>1, <1>2, <1>2b, AllOut
<1>4. LiveIsOwned' /\ KeysUnique' /\ Exclusive' /\ Numbered'
  BY <1>1 DEF LiveIsOwned, KeysUnique, Exclusive, Numbered, HasId
<1>5. Quiet'
  <2>1. made' < made => made' = made - 1 /\ Drained
    BY <1>1 DEF CreateFile, InitDone, InitFails, UndoFile, Undone
  <2>2. \A p \in Procs : pc[p] \in PcOf.find => made' >= 1
    BY <1>1, <2>1, DrainedOf DEF Quiet
  <2>3. \A p \in Procs : pc[p] \in PcOf.remove => made' >= 2
    BY <1>1, <2>1, DrainedOf DEF Quiet
  <2>4. /\ stage' = "loaded" => made' = 3
        /\ stage' = "failed" => made' = 0
    BY <1>1 DEF CreateFile, InitDone, InitFails, UndoFile, Undone, Quiet
  <2>5. stage' = "undoing" /\ made' = 3 => kind = "rb"
    BY <1>1 DEF CreateFile, InitDone, InitFails, UndoFile, Undone, Quiet
  <2>6. QED BY <1>1, <1>2a, <2>2, <2>3, <2>4, <2>5 DEF Quiet, PcOf
<1>6. QED BY <1>3, <1>4, <1>5

LEMMA ExitStep ==
  ASSUME IInv, RemoveFile \/ Sweep
  PROVE  IInv'
<1> USE StoreAssumption DEF IInv, MemorySafe, TypeOK
<1>1. CASE RemoveFile
  <2>1. /\ itemVars' = itemVars /\ kind' = kind /\ made' = made /\ stage' = stage
        /\ stage = "loaded" /\ made = 3 /\ gone' = gone + 1 /\ gone' \in 1 .. 3
    BY <1>1 DEF RemoveFile, Quiet
  <2>2. MemorySafe' /\ LiveIsOwned' /\ KeysUnique' /\ Exclusive' /\ Numbered'
    BY <2>1 DEF LiveIsOwned, KeysUnique, Exclusive, Numbered, HasId, UseFindsMemory, Removable
  <2>3. /\ \A p \in Procs : pc[p] \in PcOf.insert => gone' <= 1
        /\ \A p \in Procs : pc[p] \in PcOf.find => gone' <= 2
    BY <1>1, <2>1, DrainedOf DEF RemoveFile, Quiet
  <2>4. Quiet'
    BY <2>1, <2>3 DEF Quiet, PcOf, Removable
  <2>5. QED BY <2>2, <2>4
<1>2. CASE Sweep
  <2>1. /\ gone = 3 /\ gone' = 3 /\ stored' = {} /\ key' = key
        /\ next_id' = next_id /\ raced' = raced
        /\ frees' = [i \in Items |-> IF i \in stored THEN 2 ELSE frees[i]]
        /\ pc' = pc /\ item' = item /\ kind' = kind /\ made' = made /\ made = 3
        /\ stage' = "unloaded"
    BY <1>2 DEF Sweep, Left, Quiet
  <2>2. \A p \in Procs : pc[p] = "idle"
    BY <1>2, <2>1, AllOut DEF Sweep
  <2>3. MemorySafe'
    BY <2>1, <2>2 DEF UseFindsMemory
  <2>4. LiveIsOwned' /\ KeysUnique' /\ Exclusive' /\ Numbered'
    BY <2>1, <2>2 DEF LiveIsOwned, KeysUnique, Exclusive, Numbered, HasId
  <2>5. Quiet'
    BY <2>1, <2>2 DEF Quiet, PcOf
  <2>6. QED BY <2>3, <2>4, <2>5
<1>3. QED BY <1>1, <1>2

(* Stuttering changes nothing.                                             *)
LEMMA StutterStep == IInv /\ UNCHANGED vars => IInv'
<1> SUFFICES ASSUME IInv, UNCHANGED vars PROVE IInv'
  OBVIOUS
<1>1. QED
  BY DEF vars, IInv, MemorySafe, TypeOK, UseFindsMemory, Removable, LiveIsOwned,
     KeysUnique, Exclusive, Numbered, HasId, Quiet

(* The invariant holds in every state of every execution.                  *)
THEOREM Invariance == Spec => []IInv
<1>1. IInv /\ [Next]_vars => IInv'
  <2> SUFFICES ASSUME IInv, [Next]_vars PROVE IInv'
    OBVIOUS
  <2>1. ASSUME NEW p \in Procs,
               \/ Alloc(p) \/ LoadId(p) \/ BumpId(p) \/ Insert(p) \/ Refuse(p)
               \/ IdrAllocFails(p) \/ Find(p) \/ Touch(p) \/ Remove(p) \/ Free(p)
        PROVE  IInv'
    BY <2>1, AllocStep, NumberStep, InsertStep, GiveBackStep, LookStep, RemoveStep
  <2>2. CASE \/ CreateFile \/ InitDone \/ InitFails \/ UndoFile \/ Undone
             \/ RemoveFile \/ Sweep
    BY <2>2, InitFunctionStep, ExitStep
  <2>3. CASE UNCHANGED vars
    BY <2>3, StutterStep
  <2>4. QED BY <2>1, <2>2, <2>3 DEF Next
<1>2. QED BY InitIInv, <1>1, PTL DEF Spec

(* Nothing in the container was given back and nothing is freed twice,     *)
(* however the removals of one key race.                                   *)
THEOREM MemoryIsSafe == Spec => []MemorySafe
<1>1. IInv => MemorySafe
  BY DEF IInv
<1>2. QED BY Invariance, <1>1, PTL

(* Live memory is in the container or has an owner that will store or free *)
(* it: neither a refused insert nor the exit function leaks.               *)
THEOREM NothingLeaks == Spec => []LiveIsOwned
<1>1. IInv => LiveIsOwned
  BY DEF IInv
<1>2. QED BY Invariance, <1>1, PTL

(* A key leads to one item: of the map and of the tree always, of the list *)
(* until two adds have met at next_id++.                                   *)
THEOREM OneItemPerKey == Spec => []KeysUnique
<1>1. IInv => KeysUnique
  BY DEF IInv
<1>2. QED BY Invariance, <1>1, PTL
=============================================================================
