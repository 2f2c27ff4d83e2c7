----------------------------- MODULE ItemStore ------------------------------
(***************************************************************************)
(* idr_demo.c, rb_demo.c and list_demo.c: items that processes insert,     *)
(* find and remove through sysfs attributes, in a container under a lock.  *)
(* The three differ in where the key comes from and in who frees.  A       *)
(* critical section is one step; what the code does to an item before it   *)
(* takes the lock or after it has released it is a step of its own.  The   *)
(* order of the items is left out: where a list holds one key twice, del   *)
(* takes either.                                                           *)
(***************************************************************************)
EXTENDS Naturals

CONSTANTS
    Procs,
    Items,         \* pieces of memory kmalloc can return
    MaxKey,        \* bound: the keys are 0 .. MaxKey
    Nothing

ASSUME StoreAssumption == MaxKey \in Nat /\ Nothing \notin Items

Keys == 0 .. MaxKey
Attrs == <<"insert", "find", "remove">>    \* in the order of the exit functions

VARIABLES
    kind,          \* the module that is loaded: "idr", "rb" or "list"
    stored,        \* the items in the container
    key,           \* item->key, or the id it is stored under
    frees,         \* history: 0 never allocated, 1 live, 2 freed, 3 freed twice
    next_id,       \* of list_demo.c
    raced,         \* history: two of its adds were at next_id++ at once
    pc, item,      \* of each process inside a store or show function
    made, gone,    \* how many of Attrs are created, and removed by the exit
    stage          \* of the module's life

itemVars == <<stored, key, frees, next_id, raced, pc, item>>
lifeVars == <<kind, made, gone, stage>>
vars == <<itemVars, lifeVars>>

PcOf == [insert |-> {"id", "bump", "insert", "inserted"}, find |-> {"found"},
         remove |-> {"free"}]

TypeOK ==
    /\ kind \in {"idr", "rb", "list"}
    /\ stored \subseteq Items
    /\ key \in [Items -> Keys]
    /\ frees \in [Items -> 0 .. 3]
    /\ next_id \in 0 .. MaxKey + 1 /\ raced \in BOOLEAN
    /\ pc \in [Procs -> {"idle", "id", "bump", "insert", "inserted", "found", "free"}]
    /\ item \in [Procs -> Items \cup {Nothing}]
    /\ made \in 0 .. 3 /\ gone \in 0 .. 3
    /\ stage \in {"loading", "loaded", "undoing", "failed", "unloaded"}

Init ==
    /\ kind \in {"idr", "rb", "list"}
    /\ stored = {}
    /\ key = [i \in Items |-> 0] /\ frees = [i \in Items |-> 0]
    /\ next_id = 1 /\ raced = FALSE
    /\ pc = [p \in Procs |-> "idle"] /\ item = [p \in Procs |-> Nothing]
    /\ made = 0 /\ gone = 0 /\ stage = "loading"

Present(a) == \E n \in gone + 1 .. made : Attrs[n] = a

Goto(p, from, to, i) ==
    /\ pc[p] = from /\ pc' = [pc EXCEPT ![p] = to]
    /\ item' = [item EXCEPT ![p] = i]
    /\ UNCHANGED lifeVars

Kfree(i) == frees' = [frees EXCEPT ![i] = @ + 1]

(* kmalloc; the key is the user's in rb_demo.c only.                       *)
Alloc(p) ==
    /\ Present("insert")
    /\ \E i \in Items :
           /\ frees[i] = 0
           /\ frees' = [frees EXCEPT ![i] = 1]
           /\ IF kind = "rb"
              THEN \E k \in Keys : key' = [key EXCEPT ![i] = k]
              ELSE UNCHANGED key
           /\ Goto(p, "idle", IF kind = "list" THEN "id" ELSE "insert", i)
    /\ UNCHANGED <<stored, next_id, raced>>

(* it->id = next_id++ of list_demo.c, before the lock.                     *)
LoadId(p) ==
    /\ next_id \in Keys
    /\ Goto(p, "id", "bump", item[p])
    /\ key' = [key EXCEPT ![item[p]] = next_id]
    /\ raced' = (raced \/ \E q \in Procs : pc[q] = "bump")
    /\ UNCHANGED <<stored, frees, next_id>>

BumpId(p) ==
    /\ Goto(p, "bump", "insert", item[p])
    /\ next_id' = key[item[p]] + 1
    /\ UNCHANGED <<stored, key, frees, raced>>

Taken(k) == \E i \in stored : key[i] = k

(* idr_alloc gives the smallest id that is free.                           *)
Fresh(k) == ~Taken(k) /\ \A j \in Keys : j < k => Taken(j)

Duplicate_Never(k) == FALSE    \* mutant: rb_insert does not compare
Duplicate(k) == kind = "rb" /\ Taken(k)

Insert(p) ==
    LET i == item[p]
    IN  /\ Goto(p, "insert", "inserted", i)
        /\ ~Duplicate(key[i])
        /\ stored' = stored \cup {i}
        /\ IF kind = "idr"
           THEN \E k \in Keys : Fresh(k) /\ key' = [key EXCEPT ![i] = k]
           ELSE UNCHANGED key
        /\ UNCHANGED <<frees, next_id, raced>>

GivenBack_Leaked(i) == 1    \* mutant: no kfree on the error path
GivenBack(i) == frees[i] + 1

(* An insertion that fails gives its item back after the lock.             *)
GiveBack(p) ==
    /\ Goto(p, "insert", "idle", Nothing)
    /\ frees' = [frees EXCEPT ![item[p]] = GivenBack(item[p])]
    /\ UNCHANGED <<stored, key, next_id, raced>>

(* -EEXIST of rb_demo.c.                                                   *)
Refuse(p) == GiveBack(p) /\ Duplicate(key[item[p]])

(* -ENOMEM or -ENOSPC of idr_alloc, at any time.                           *)
IdrAllocFails(p) == kind = "idr" /\ GiveBack(p)

Find(p) ==
    /\ kind # "list" /\ Present("find")
    /\ \E i \in stored : Goto(p, "idle", "found", i)
    /\ UNCHANGED <<stored, key, frees, next_id, raced>>

(* After the lock: find prints the name, insert stores the id and prints.  *)
Touch(p) ==
    /\ \E pt \in {"inserted", "found"} : Goto(p, pt, "idle", Nothing)
    /\ UNCHANGED <<stored, key, frees, next_id, raced>>

(* Removal: list_demo.c frees inside the lock, the others after it.        *)
Unlinked_Kept(i) == stored    \* mutant: no idr_remove, rb_erase, list_del
Unlinked(i) == stored \ {i}

Remove(p) ==
    /\ Present("remove")
    /\ \E i \in stored :
           /\ stored' = Unlinked(i)
           /\ IF kind = "list"
              THEN Goto(p, "idle", "idle", Nothing) /\ Kfree(i)
              ELSE Goto(p, "idle", "free", i) /\ UNCHANGED frees
    /\ UNCHANGED <<key, next_id, raced>>

Free(p) ==
    /\ Goto(p, "free", "idle", Nothing)
    /\ Kfree(item[p])
    /\ UNCHANGED <<stored, key, next_id, raced>>

(***************************************************************************)
(* The init and exit functions.  sysfs_remove_file lets nobody in any more *)
(* and waits for those inside, one attribute after the other.  The fourth  *)
(* file of rb_demo.c, dump, only reads; list_demo.c has no find, so that   *)
(* rung is empty there, and its seeds are adds like any other.             *)
(***************************************************************************)
Drained ==
    /\ gone > 0 => \A p \in Procs : pc[p] \notin PcOf[Attrs[gone]]
    /\ made < 3 => \A p \in Procs : pc[p] \notin PcOf[Attrs[made + 1]]

CreateFile ==
    /\ stage = "loading" /\ made < 3 /\ made' = made + 1
    /\ UNCHANGED <<itemVars, kind, gone, stage>>

InitDone ==
    /\ stage = "loading" /\ made = 3 /\ stage' = "loaded"
    /\ UNCHANGED <<itemVars, kind, made, gone>>

(* A file cannot be created; the labels remove those that were.            *)
InitFails ==
    /\ stage = "loading" /\ (made < 3 \/ kind = "rb") /\ stage' = "undoing"
    /\ UNCHANGED <<itemVars, kind, made, gone>>

UndoFile ==
    /\ stage = "undoing" /\ made > 0 /\ Drained /\ made' = made - 1
    /\ UNCHANGED <<itemVars, kind, gone, stage>>

(* The error path returns without a look at the container.                 *)
Undone ==
    /\ stage = "undoing" /\ made = 0 /\ Drained /\ stage' = "failed"
    /\ UNCHANGED <<itemVars, kind, made, gone>>

RemoveFile ==
    /\ stage = "loaded" /\ gone < 3 /\ Drained /\ gone' = gone + 1
    /\ UNCHANGED <<itemVars, kind, made, stage>>

Left(i) == frees[i] + 1

Sweep ==
    /\ stage = "loaded" /\ gone = 3 /\ Drained
    /\ stage' = "unloaded" /\ stored' = {}
    /\ frees' = [i \in Items |-> IF i \in stored THEN Left(i) ELSE frees[i]]
    /\ UNCHANGED <<key, next_id, raced, pc, item, kind, made, gone>>

Next ==
    \/ \E p \in Procs :
           \/ Alloc(p) \/ LoadId(p) \/ BumpId(p) \/ Insert(p) \/ Refuse(p)
           \/ IdrAllocFails(p) \/ Find(p) \/ Touch(p) \/ Remove(p) \/ Free(p)
    \/ CreateFile \/ InitDone \/ InitFails \/ UndoFile \/ Undone
    \/ RemoveFile \/ Sweep

Spec == Init /\ [][Next]_vars

-----------------------------------------------------------------------------
(* remove_store or del_store has been there to be called.                  *)
Removable == \/ stage = "loaded" \/ (stage = "loading" /\ made = 3)
             \/ (stage = "undoing" /\ kind = "rb")

(* Whoever is inside uses live memory.  The exceptions are the uses after  *)
(* the lock, by which time a removal may have freed the item: those of     *)
(* insert (idr_demo.c:92, rb_demo.c:148, list_demo.c:130) and of find      *)
(* (idr_demo.c:123, rb_demo.c:169).  No other access, and none of these    *)
(* without a removal by a user, finds freed memory.                        *)
UseFindsMemory ==
    \A p \in Procs :
        pc[p] # "idle" /\ frees[item[p]] # 1 =>
            /\ pc[p] \in {"inserted", "found"} /\ Removable
            /\ kind = "list" => pc[p] = "inserted"

(* The container never points at memory that was given back, no item is    *)
(* freed twice however removals of one key race, nothing but the uses that *)
(* UseFindsMemory names finds freed memory, and when the exit function     *)
(* empties the container, or init gives up, nobody is inside a store or    *)
(* show function.                                                          *)
MemorySafe ==
    /\ TypeOK
    /\ \A i \in stored : frees[i] = 1
    /\ \A i \in Items : frees[i] <= 2
    /\ stage \in {"failed", "unloaded"} => \A p \in Procs : pc[p] = "idle"
    /\ UseFindsMemory

Owns(p) == pc[p] \in {"id", "bump", "insert", "free"}

(* Nothing leaks while the module is there: memory is in the container or  *)
(* in the hands of a process that will insert or free it; after rmmod all  *)
(* of it is back.  What was inserted before an init that fails stays       *)
(* behind: that is all that can leak.                                      *)
LiveIsOwned ==
    \A i \in Items : frees[i] = 1 =>
        \/ i \in stored /\ stage # "unloaded"
        \/ \E p \in Procs : item[p] = i /\ Owns(p)

(* A key leads to one item.  The exception is list_demo.c once two adds    *)
(* have been at next_id++ at the same time; without that its ids are       *)
(* unique too, whatever is removed in between.                             *)
KeysUnique ==
    \A i, j \in stored : key[i] = key[j] => i = j \/ (kind = "list" /\ raced)

(* The inductive invariant.  A process before its insertion or its kfree   *)
(* holds live memory that nobody else holds and the container has not got; *)
(* behind a removed attribute nobody is inside.                            *)
Exclusive ==
    /\ \A p \in Procs : pc[p] # "idle" => item[p] \in Items /\ frees[item[p]] # 0
    /\ \A p \in Procs : Owns(p) => item[p] \notin stored /\ frees[item[p]] = 1
    /\ \A p, q \in Procs : Owns(p) /\ Owns(q) /\ item[p] = item[q] => p = q
    /\ \A p, q \in Procs : /\ pc[p] \in {"id", "bump", "insert"} /\ pc[q] # "idle"
                            /\ item[p] = item[q] => p = q

(* As long as the adds of list_demo.c number one after the other, the ids  *)
(* in the list and on their way into it are apart and below next_id.       *)
HasId(i) == i \in stored \/ \E p \in Procs : pc[p] = "insert" /\ item[p] = i

Numbered ==
    kind = "list" /\ ~raced =>
        /\ \A p, q \in Procs : pc[p] = "bump" /\ pc[q] = "bump" => p = q
        /\ \A p \in Procs : pc[p] = "bump" => key[item[p]] = next_id
        /\ \A i \in Items : HasId(i) => key[i] < next_id
        /\ \A i, j \in Items : HasId(i) /\ HasId(j) /\ key[i] = key[j] => i = j

Quiet ==
    /\ \A p \in Procs : pc[p] \in PcOf.insert => gone <= 1
    /\ \A p \in Procs : pc[p] \in PcOf.find => gone <= 2 /\ made >= 1
    /\ \A p \in Procs : pc[p] \in PcOf.remove => made >= 2
    /\ stage \in {"loaded", "unloaded"} => made = 3
    /\ stage \in {"loading", "undoing", "failed"} => gone = 0
    /\ stage = "unloaded" => gone = 3
    /\ stage = "failed" => made = 0
    /\ \A p \in Procs : pc[p] = "free" => Removable
    /\ \A p \in Procs : pc[p] = "found" => kind # "list"
    /\ \A p \in Procs : pc[p] = "free" => kind # "list"
    /\ \A p \in Procs : pc[p] \in {"id", "bump"} => kind = "list"
    /\ stage = "undoing" /\ made = 3 => kind = "rb"

IInv == /\ MemorySafe /\ LiveIsOwned /\ KeysUnique
        /\ Exclusive /\ Numbered /\ Quiet

(* idr_demo.c and rb_demo.c free the item after the lock, because `it is   *)
(* out of the map, nobody can get the pointer any more, so kfree outside   *)
(* the lock is safe': then no other process is about to use it.            *)
KfreeIsSafe ==
    \A p, q \in Procs :
        pc[p] = "free" /\ item[q] = item[p] => pc[q] \notin {"inserted", "found"}
=============================================================================
