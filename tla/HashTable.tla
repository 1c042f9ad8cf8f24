------------------------------ MODULE HashTable ------------------------------
(***************************************************************************)
(* The table of dllhashtable.c over hashtable.c and dll.c, pointer by      *)
(* pointer, as the daemon uses it: the bundle list under its mutex, with   *)
(* insertion, deletion and scans; the replica list, where a search takes   *)
(* no mutex, an insertion follows a search in vain, and nothing is ever    *)
(* deleted.  A chain is walked one comparison at a time.                   *)
(*                                                                         *)
(* A cell stands for the three structs an entry has: HASHITEM, the value   *)
(* that points to the list item, and the list item.  They are allocated    *)
(* together and refer to each other.                                       *)
(***************************************************************************)
EXTENDS Integers, FiniteSets

CONSTANTS
    Cell,       \* memory for entries
    Key,
    Slot,
    Hash,       \* hashfunc, as a function from keys to slots
    NULL,
    Wild,       \* a pointer to memory that is no entry of this table
    Junk,       \* what memory from malloc may hold where a pointer is read
    Anchor,     \* the item that dll_create makes, the list's head
    Thread,
    Nobody,
    Shared,     \* TRUE for the replica list, FALSE for the bundle list
    MaxInserts  \* insertions in a run; there is a cell for each entry

ASSUME PointerAssumption ==
    /\ NULL \notin Cell /\ Wild \notin Cell /\ Anchor \notin Cell
    /\ NULL # Wild /\ NULL # Anchor /\ Wild # Anchor
    /\ Junk \subseteq Cell \cup {NULL, Wild} /\ Junk # {}
ASSUME TableAssumption ==
    /\ Hash \in [Key -> Slot] /\ Key # {}
    /\ Nobody \notin Thread
    /\ MaxInserts \in Nat
    /\ Shared \in BOOLEAN

\* Nothing is deleted from the replica list, so its memory is never handed out
\* again: a stale pointer does not lead to an entry.
ASSUME SharedAssumption == Shared => Junk \cap Cell = {}

\* The key a thread that has not been called has.
NoKey == CHOOSE k \in Key : TRUE

VARIABLES
    items,      \* hashtable_ptr->items: the head of each slot's chain
    keyOf,      \* HASHITEM.key and
    next,       \* HASHITEM.next, of allocated and of freed cells
    left,       \* DLLITEM.left and
    right,      \* DLLITEM.right
    live,       \* the cells that are allocated
    mutex,      \* who holds the mutex around the table
    pc,         \* where each thread is
    arg,        \* the key it was called with
    at,         \* item_ptr of a search, or the place of a scan
    prev,       \* prev_ptr of hashtable_delete
    hashitem,   \* hashitem_ptr of dllhashtable_insert and dllhashtable_delete
    clock,      \* history: the insertions so far,
    born,       \* the insertion that filled a cell,
    asked       \* the clock when a search began

heap == <<items, keyOf, next, left, right, live>>
history == <<clock, born, asked>>
locals == <<arg, at, prev, hashitem>>
vars == <<heap, mutex, pc, locals, history>>

Pointer == Cell \cup {NULL, Wild}

Walking == {"search", "find", "remove"}

Init ==
    /\ items = [s \in Slot |-> NULL]
    /\ keyOf = [c \in Cell |-> NoKey]
    /\ next = [c \in Cell |-> NULL]
    /\ left = [i \in Cell \cup {Anchor} |-> Anchor]
    /\ right = [i \in Cell \cup {Anchor} |-> Anchor]
    /\ live = {}
    /\ mutex = Nobody
    /\ pc = [t \in Thread |-> "idle"]
    /\ arg = [t \in Thread |-> NoKey]
    /\ at = [t \in Thread |-> NULL]
    /\ prev = [t \in Thread |-> NULL]
    /\ hashitem = [t \in Thread |-> NULL]
    /\ clock = 0
    /\ born = [c \in Cell |-> 0]
    /\ asked = [t \in Thread |-> 0]

-----------------------------------------------------------------------------
\* A bad pointer ends the process, and with it every thread.
At(t, label) == pc[t] = label /\ \A u \in Thread : pc[u] # "fault"
Goto(t, label) == pc' = [pc EXCEPT ![t] = label]

\* The call returns, and its local variables are gone.
Return(t) ==
    /\ Goto(t, "idle")
    /\ arg' = [arg EXCEPT ![t] = NoKey]
    /\ at' = [at EXCEPT ![t] = NULL]
    /\ prev' = [prev EXCEPT ![t] = NULL]
    /\ hashitem' = [hashitem EXCEPT ![t] = NULL]
    /\ asked' = [asked EXCEPT ![t] = 0]

Lock(t) == mutex = Nobody /\ mutex' = t
Unlock == mutex' = Nobody

SlotHead(k) == items[Hash[k]]

-----------------------------------------------------------------------------
(***************************************************************************)
(* dllhashtable_search, and a thread's walk along a chain.                 *)
(***************************************************************************)

\* bpd_bundle_list_delete and the replica filter begin with a search.
Search(t, k) ==
    /\ At(t, "idle")
    /\ IF Shared THEN UNCHANGED mutex ELSE Lock(t)
    /\ Goto(t, "search")
    /\ arg' = [arg EXCEPT ![t] = k]
    /\ at' = [at EXCEPT ![t] = SlotHead(k)]
    /\ prev' = [prev EXCEPT ![t] = NULL]
    /\ asked' = [asked EXCEPT ![t] = clock]
    /\ UNCHANGED <<heap, hashitem, clock, born>>

\* hashtable_search of an empty slot.
SearchNull(t) ==
    /\ At(t, "search")
    /\ at[t] = NULL /\ prev[t] = NULL
    /\ IF Shared THEN Goto(t, "insert") /\ UNCHANGED <<mutex, locals, asked>>
                 ELSE Return(t) /\ Unlock
    /\ UNCHANGED <<heap, clock, born>>

\* Mutant of Matches: keys are not compared.
MatchesAny(t) == at[t] \in live

Matches(t) == at[t] \in live /\ keyOf[at[t]] = arg[t]

\* Mutant of Walk: item_ptr does not advance.
WalkInPlace(t) ==
    /\ \E label \in Walking : At(t, label)
    /\ at[t] \in live /\ ~Matches(t)
    /\ prev' = [prev EXCEPT ![t] = at[t]]
    /\ UNCHANGED <<heap, mutex, pc, arg, at, hashitem, history>>

\* Another key: on to the next item.
Walk(t) ==
    /\ \E label \in Walking : At(t, label)
    /\ at[t] \in live /\ ~Matches(t)
    /\ at' = [at EXCEPT ![t] = next[at[t]]]
    /\ prev' = [prev EXCEPT ![t] = at[t]]
    /\ UNCHANGED <<heap, mutex, pc, arg, hashitem, history>>

\* item_ptr->key where item_ptr is no item: undefined, and the model ends here.
WalkOff(t) ==
    /\ \E label \in Walking : At(t, label)
    /\ at[t] \notin live
    /\ pc[t] = "search" => at[t] # NULL \/ prev[t] # NULL
    /\ Goto(t, "fault")
    /\ UNCHANGED <<heap, mutex, arg, at, prev, hashitem, history>>

\* A replica is recognised; what is to be deleted is searched for again.
SearchFound(t) ==
    /\ At(t, "search") /\ Matches(t)
    /\ IF Shared THEN Return(t)
                 ELSE /\ Goto(t, "find")
                      /\ at' = [at EXCEPT ![t] = SlotHead(arg[t])]
                      /\ prev' = [prev EXCEPT ![t] = NULL]
                      /\ UNCHANGED <<arg, hashitem, asked>>
    /\ UNCHANGED <<heap, mutex, clock, born>>

-----------------------------------------------------------------------------
(***************************************************************************)
(* dllhashtable_insert: hashtable_insert, then dll_insert.                 *)
(***************************************************************************)
InsertLock(t, k) ==
    /\ At(t, IF Shared THEN "insert" ELSE "idle")
    /\ Shared => k = arg[t]
    /\ clock < MaxInserts /\ live # Cell
    /\ Lock(t)
    /\ Goto(t, "hash_insert")
    /\ arg' = [arg EXCEPT ![t] = k]
    /\ UNCHANGED <<heap, at, prev, hashitem, history>>

\* Mutant of Link: the new item hides the rest of the chain.
LinkNothing(c, k, w) == [next EXCEPT ![c] = w]

\* Only an item that is put before another one gets a next: the first item of a
\* slot keeps what was in its memory.
Link(c, k, w) == [next EXCEPT ![c] = IF SlotHead(k) = NULL THEN w ELSE SlotHead(k)]

HashInsert(t) ==
    /\ At(t, "hash_insert")
    /\ \E c \in Cell \ live, w \in Junk :
          /\ next' = Link(c, arg[t], w)
          /\ keyOf' = [keyOf EXCEPT ![c] = arg[t]]
          /\ items' = [items EXCEPT ![Hash[arg[t]]] = c]
          /\ live' = live \cup {c}
          /\ hashitem' = [hashitem EXCEPT ![t] = c]
          /\ born' = [born EXCEPT ![c] = clock]
    /\ clock' = clock + 1
    /\ Goto(t, "list_insert")
    /\ UNCHANGED <<left, right, mutex, arg, at, prev, asked>>

ListInsert(t) ==
    /\ At(t, "list_insert")
    /\ LET c == hashitem[t] IN
       /\ right' = [right EXCEPT ![c] = right[Anchor], ![Anchor] = c]
       /\ left' = [left EXCEPT ![c] = Anchor, ![right[Anchor]] = c]
    /\ Return(t)
    /\ Unlock
    /\ UNCHANGED <<items, keyOf, next, live, clock, born>>

-----------------------------------------------------------------------------
(***************************************************************************)
(* dllhashtable_delete: the item is found again, dll_delete takes it out   *)
(* of the list, and hashtable_delete walks to it a third time.             *)
(***************************************************************************)
Find(t) ==
    /\ At(t, "find") /\ Matches(t)
    /\ hashitem' = [hashitem EXCEPT ![t] = at[t]]
    /\ Goto(t, "list_delete")
    /\ UNCHANGED <<heap, mutex, arg, at, prev, history>>

\* Mutant of Bypass: the predecessor's pointer is cleared.
BypassClear(c) ==
    /\ right' = [right EXCEPT ![left[c]] = NULL]
    /\ left' = [left EXCEPT ![right[c]] = left[c]]

\* Mutant of Bypass: the list is mended in one direction only.
BypassLeft(c) == UNCHANGED right /\ left' = [left EXCEPT ![right[c]] = left[c]]

Bypass(c) ==
    /\ right' = [right EXCEPT ![left[c]] = right[c]]
    /\ left' = [left EXCEPT ![right[c]] = left[c]]

ListIsEmpty == left[Anchor] = Anchor /\ right[Anchor] = Anchor

ListDelete(t) ==
    /\ At(t, "list_delete")
    /\ IF ListIsEmpty THEN UNCHANGED <<left, right>> ELSE Bypass(hashitem[t])
    /\ Goto(t, "remove")
    /\ at' = [at EXCEPT ![t] = SlotHead(arg[t])]
    /\ prev' = [prev EXCEPT ![t] = NULL]
    /\ UNCHANGED <<items, keyOf, next, live, mutex, arg, hashitem, history>>

\* Mutant of Unlink: the predecessor is not told.
UnlinkHead(t) ==
    /\ items' = [items EXCEPT ![Hash[arg[t]]] = next[at[t]]]
    /\ next' = next

Unlink(t) ==
    IF at[t] = SlotHead(arg[t])
    THEN /\ items' = [items EXCEPT ![Hash[arg[t]]] = next[at[t]]]
         /\ next' = next
    ELSE /\ next' = [next EXCEPT ![prev[t]] = next[at[t]]]
         /\ items' = items

HashDelete(t) ==
    /\ At(t, "remove") /\ Matches(t)
    /\ Unlink(t)
    /\ live' = live \ {at[t]}
    /\ Return(t)
    /\ Unlock
    /\ UNCHANGED <<keyOf, left, right, clock, born>>

-----------------------------------------------------------------------------
(***************************************************************************)
(* The scan: dllhashtable_next until it returns NULL.                      *)
(***************************************************************************)
ScanLock(t) ==
    /\ ~Shared
    /\ At(t, "idle")
    /\ Lock(t)
    /\ Goto(t, "scan")
    /\ at' = [at EXCEPT ![t] = Anchor]
    /\ UNCHANGED <<heap, arg, prev, hashitem, history>>

ScanNext(t) ==
    /\ At(t, "scan")
    /\ right[at[t]] # Anchor
    /\ at' = [at EXCEPT ![t] = right[at[t]]]
    /\ UNCHANGED <<heap, mutex, pc, arg, prev, hashitem, history>>

ScanEnd(t) ==
    /\ At(t, "scan")
    /\ right[at[t]] = Anchor
    /\ Return(t)
    /\ Unlock
    /\ UNCHANGED <<heap, clock, born>>

-----------------------------------------------------------------------------
Looking(t) == SearchNull(t) \/ Walk(t) \/ WalkOff(t) \/ SearchFound(t)
Inserting(t) == HashInsert(t) \/ ListInsert(t)
Deleting(t) == Find(t) \/ ListDelete(t) \/ HashDelete(t)
Scanning(t) == ScanNext(t) \/ ScanEnd(t)

Next == \E t \in Thread :
    \/ \E k \in Key : Search(t, k) \/ InsertLock(t, k)
    \/ ScanLock(t)
    \/ Looking(t) \/ Inserting(t) \/ Deleting(t) \/ Scanning(t)

Spec == Init /\ [][Next]_vars

\* A thread that has begun an operation is scheduled until it is through.
FairSpec ==
    Spec /\ \A t \in Thread :
        WF_vars(Looking(t) \/ Inserting(t) \/ Deleting(t) \/ Scanning(t))

-----------------------------------------------------------------------------
(***************************************************************************)
(* Properties.                                                             *)
(***************************************************************************)
Labels == Walking \cup {"idle", "insert", "hash_insert", "list_insert",
                        "list_delete", "scan", "fault"}

\* Every variable holds a value of its type.
TypeOK ==
    /\ items \in [Slot -> Pointer]
    /\ keyOf \in [Cell -> Key]
    /\ next \in [Cell -> Pointer]
    /\ left \in [Cell \cup {Anchor} -> Cell \cup {Anchor}]
    /\ right \in [Cell \cup {Anchor} -> Cell \cup {Anchor}]
    /\ live \subseteq Cell
    /\ mutex \in Thread \cup {Nobody}
    /\ pc \in [Thread -> Labels]
    /\ arg \in [Thread -> Key]
    /\ at \in [Thread -> Pointer \cup {Anchor}]
    /\ prev \in [Thread -> Pointer]
    /\ hashitem \in [Thread -> Pointer]
    /\ clock \in Nat
    /\ born \in [Cell -> Nat]
    /\ asked \in [Thread -> Nat]

SlotOf(c) == Hash[keyOf[c]]
Chain(s) == {c \in live : SlotOf(c) = s}
Before(c) == {d \in Chain(SlotOf(c)) : born[d] < born[c]}
IsNewest(c, C) == c \in C /\ \A d \in C : born[d] <= born[c]

\* Every entry of a slot is reached from its head, newest first, whatever the
\* uninitialised next of a slot's first entry holds: the last link alone is junk
\* (hashtable_insert, hashtable_delete).
ChainsHold ==
    /\ \A s \in Slot : Chain(s) # {} => IsNewest(items[s], Chain(s))
    /\ \A c \in live : Before(c) # {} => IsNewest(next[c], Before(c))

\* Cells that are in the table and not, or no longer, in the list.
Unlisted == {hashitem[t] : t \in {u \in Thread : pc[u] \in {"list_insert", "remove"}}}
Listed == live \ Unlisted
ListedBefore(c) == {d \in Listed : born[d] < born[c]}

\* The list has the entries newest first and backwards too: what dll_delete
\* takes out leaves its neighbours next to each other.
ListHolds ==
    /\ \A c \in Listed : IF ListedBefore(c) = {} THEN right[c] = Anchor
                         ELSE IsNewest(right[c], ListedBefore(c))
    /\ IF Listed = {} THEN right[Anchor] = Anchor
                      ELSE IsNewest(right[Anchor], Listed)
    /\ \A i \in Listed \cup {Anchor} :
          /\ left[right[i]] = i
          /\ left[i] \in Listed \cup {Anchor} /\ right[left[i]] = i

\* What a search still has to look at is all that may match: it has not passed
\* an entry with its key that was there when it began.
SearchMissesNothing ==
    \A t \in Thread : pc[t] \in Walking =>
        LET hits == {c \in live : keyOf[c] = arg[t] /\ born[c] < asked[t]} IN
        hits # {} => at[t] \in live /\ \A c \in hits : born[c] <= born[at[t]]

\* A key that has been deleted, or was never inserted, is reported as missing:
\* the search comes back with NULL.
AbsentKeyIsNull == \A t \in Thread : pc[t] # "fault"

\* An operation comes to an end, if the process lives: a walk along a chain, and
\* a scan, reach their last entry.
Underway(t) == pc[t] \in Walking \cup {"scan"}
Dead == \E t \in Thread : pc[t] = "fault"
OperationsEnd == \A t \in Thread : Underway(t) ~> Dead \/ ~Underway(t)

-----------------------------------------------------------------------------
(***************************************************************************)
(* The table as a collection of entries.                                   *)
(***************************************************************************)
EntryOf(c) == [key |-> keyOf[c], born |-> born[c]]

\* The entries that were there when thread t asked.
There(t) == {c \in live : born[c] < asked[t]}

\* It will be told "not there" if it began at a slot that held nothing.
SafeMiss(t) ==
    /\ {c \in There(t) : SlotOf(c) = Hash[arg[t]]} = {}
    /\ at[t] = NULL /\ prev[t] = NULL

Searching(t) ==
    [op |-> "search", key |-> arg[t],
     hits |-> {EntryOf(c) : c \in {d \in There(t) : keyOf[d] = arg[t]}},
     safe |-> SafeMiss(t)]

Doing(t) ==
    CASE pc[t] \in Walking \cup {"list_delete"} -> Searching(t)
      [] pc[t] = "insert" \/ (Shared /\ pc[t] = "hash_insert") ->
            [op |-> "missed", key |-> arg[t]]
      [] pc[t] = "scan" ->
            [op |-> "scan", cursor |-> IF at[t] = Anchor THEN clock ELSE born[at[t]]]
      [] pc[t] = "fault" -> [op |-> "fault"]
      [] OTHER -> [op |-> "idle"]

Abstract == INSTANCE Table WITH
    entries <- {EntryOf(c) : c \in live},
    wild <- {s \in Slot : Chain(s) = {} /\ items[s] # NULL},
    call <- [t \in Thread |-> Doing(t)]

\* The pointers implement the collection.
TableSpec == Abstract!Spec

-----------------------------------------------------------------------------
(***************************************************************************)
(* Parts of the inductive invariant from which the properties follow.      *)
(***************************************************************************)

\* Who is where, and that it then has the mutex.
Held == {"find", "list_delete", "remove", "hash_insert", "list_insert", "scan"}
            \cup (IF Shared THEN {} ELSE {"search"})
Places ==
    \A t \in Thread :
        /\ pc[t] \in Held => mutex = t
        /\ Shared => pc[t] \notin {"find", "list_delete", "remove", "scan"}
        /\ ~Shared => pc[t] # "insert"

\* No two entries were inserted at once, and none in the future.
Births ==
    /\ \A c, d \in live : born[c] = born[d] => c = d
    /\ \A c \in live : born[c] < clock

\* The item in hand: the newest of all, or the newest under its key.
Under(k) == {c \in live : keyOf[c] = k}
InHand ==
    \A t \in Thread :
        /\ pc[t] = "list_insert" => IsNewest(hashitem[t], live)
        /\ pc[t] \in {"list_delete", "remove"} => IsNewest(hashitem[t], Under(arg[t]))

\* A walk is in the right chain and has an entry under its key before it.
Hits(t) == {c \in Under(arg[t]) : born[c] < asked[t]}
WalkPlace ==
    \A t \in Thread :
        /\ pc[t] \in Walking \cup {"list_delete"} =>
              IF Shared THEN asked[t] <= clock ELSE asked[t] = clock
        /\ pc[t] \in {"find", "remove"} => Hits(t) # {}
        /\ pc[t] \in Walking /\ Hits(t) # {} =>
              /\ at[t] \in Chain(Hash[arg[t]])
              /\ \A c \in Hits(t) : born[c] <= born[at[t]]

\* prev_ptr is the item before item_ptr, or item_ptr is the head.
PrevPlace ==
    \A t \in Thread : pc[t] = "remove" =>
        IF prev[t] = NULL THEN at[t] = SlotHead(arg[t])
        ELSE /\ prev[t] \in Chain(Hash[arg[t]])
             /\ IsNewest(at[t], Before(prev[t]))

\* A scan is at an item of the list, and the list stays as it is.
ScanPlace == \A t \in Thread : pc[t] = "scan" => at[t] \in Listed \cup {Anchor}

\* A walk begins at an entry if its chain had one when the search began.
FirstItem ==
    \A t \in Thread :
        pc[t] \in Walking /\ prev[t] = NULL /\ There(t) \cap Chain(Hash[arg[t]]) # {}
            => at[t] \in live

\* In the replica list no pointer leads to a cell that is not an entry, and a
\* walk comes to no entry that was inserted after the search began.
SharedWalk ==
    Shared =>
        /\ \A s \in Slot : items[s] \in Cell => items[s] \in live
        /\ \A c \in live : next[c] \in Cell =>
              next[c] \in live /\ born[next[c]] < born[c]
        /\ \A t \in Thread : pc[t] = "search" /\ at[t] \in Cell => at[t] \in There(t)

HeapInv ==
    /\ TypeOK /\ Places /\ Births /\ InHand
    /\ ChainsHold /\ WalkPlace /\ PrevPlace
    /\ ListHolds /\ ScanPlace
    /\ FirstItem /\ SharedWalk
=============================================================================
