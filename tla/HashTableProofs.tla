--------------------------- MODULE HashTableProofs ---------------------------
(***************************************************************************)
(* The table under the mutex, and the replica list searched without it:    *)
(* for any keys, slots and threads, and whatever uninitialised memory      *)
(* holds, entries stay reachable and a search finds what is there.         *)
(***************************************************************************)
EXTENDS HashTable, TLAPS

LEMMA NoKeyIsKey == NoKey \in Key
BY TableAssumption DEF NoKey

\* A step of thread t is one of these.
StepOf(t) ==
    \/ \E k \in Key : Search(t, k) \/ InsertLock(t, k)
    \/ ScanLock(t)
    \/ Looking(t) \/ Inserting(t) \/ Deleting(t) \/ Scanning(t)

-----------------------------------------------------------------------------
LEMMA TypeStep ==
  ASSUME HeapInv, NEW t \in Thread, StepOf(t) PROVE TypeOK'
<1> USE PointerAssumption, TableAssumption, NoKeyIsKey DEF HeapInv, TypeOK, Pointer, Labels, Walking
<1>1. CASE \E k \in Key : Search(t, k)
  BY <1>1 DEF Search, SlotHead, Goto, Lock, heap
<1>2. CASE \E k \in Key : InsertLock(t, k)
  BY <1>2 DEF InsertLock, Goto, Lock, heap, history
<1>3. CASE ScanLock(t)
  BY <1>3 DEF ScanLock, Goto, Lock, heap, history
<1>4. CASE SearchNull(t)
  BY <1>4 DEF SearchNull, Goto, Return, Unlock, heap, locals
<1>5. CASE Walk(t)
  BY <1>5 DEF Walk, At, heap, history
<1>6. CASE WalkOff(t)
  BY <1>6 DEF WalkOff, Goto, heap, locals, history
<1>7. CASE SearchFound(t)
  BY <1>7 DEF SearchFound, SlotHead, Goto, Return, heap
<1>8. CASE HashInsert(t)
  BY <1>8 DEF HashInsert, Link, SlotHead, Goto
<1>9. CASE ListInsert(t)
  <2>1. hashitem[t] \in Cell
    BY <1>9 DEF ListInsert, At, InHand, IsNewest
  <2> QED  BY <2>1, <1>9 DEF ListInsert, Goto, Return, Unlock
<1>10. CASE Find(t)
  BY <1>10 DEF Find, Matches, Goto, heap, history
<1>11. CASE ListDelete(t)
  <2>1. hashitem[t] \in Cell
    BY <1>11 DEF ListDelete, At, InHand, IsNewest, Under
  <2>2. /\ left' \in [Cell \cup {Anchor} -> Cell \cup {Anchor}]
        /\ right' \in [Cell \cup {Anchor} -> Cell \cup {Anchor}]
    <3>1. CASE ListIsEmpty
      BY <3>1, <1>11 DEF ListDelete
    <3>2. CASE Bypass(hashitem[t])
      BY <2>1, <3>2 DEF Bypass
    <3> QED  BY <1>11, <3>1, <3>2 DEF ListDelete
  <2> QED  BY <2>1, <2>2, <1>11 DEF ListDelete, SlotHead, Goto, history
<1>12. CASE HashDelete(t)
  BY <1>12 DEF HashDelete, Matches, Unlink, Goto, Return, Unlock
<1>13. CASE Scanning(t)
  <2>1. at[t] \in Cell \cup {Anchor}
    BY <1>13 DEF Scanning, ScanNext, ScanEnd, At, ScanPlace, Listed
  <2> QED  BY <2>1, <1>13 DEF Scanning, ScanNext, ScanEnd, Goto, Return, Unlock, heap, history
<1> QED
  BY <1>1, <1>2, <1>3, <1>4, <1>5, <1>6, <1>7, <1>8, <1>9, <1>10, <1>11, <1>12, <1>13
  DEF StepOf, Looking, Inserting, Deleting

-----------------------------------------------------------------------------
\* The steps that leave the table as it is, each with what it does to a thread.
Quiet(t) ==
    \/ \E k \in Key : Search(t, k) \/ InsertLock(t, k)
    \/ ScanLock(t)
    \/ Looking(t) \/ Find(t) \/ Scanning(t)

LEMMA QuietHeap ==
  ASSUME NEW t \in Thread, Quiet(t)
  PROVE  UNCHANGED <<items, keyOf, next, left, right, live, clock, born>>
BY DEF Quiet, Search, InsertLock, ScanLock, Looking, SearchNull, Walk, WalkOff,
       SearchFound, Find, Scanning, ScanNext, ScanEnd, heap, history

LEMMA PlacesStep ==
  ASSUME HeapInv, NEW t \in Thread, StepOf(t) PROVE Places'
<1> USE TableAssumption DEF HeapInv, TypeOK, Places, Held, At, Goto
<1>1. CASE \E k \in Key : Search(t, k)
  BY <1>1 DEF Search, Lock
<1>2. CASE \E k \in Key : InsertLock(t, k)
  BY <1>2 DEF InsertLock, Lock
<1>3. CASE ScanLock(t)
  BY <1>3 DEF ScanLock, Lock
<1>4. CASE SearchNull(t)
  BY <1>4 DEF SearchNull, Return, Unlock
<1>5. CASE Walk(t) \/ WalkOff(t)
  BY <1>5 DEF Walk, WalkOff
<1>6. CASE SearchFound(t)
  BY <1>6 DEF SearchFound, Return
<1>7. CASE HashInsert(t) \/ Find(t) \/ ListDelete(t)
  BY <1>7 DEF HashInsert, Find, ListDelete
<1>8. CASE ListInsert(t) \/ HashDelete(t)
  BY <1>8 DEF ListInsert, HashDelete, Return, Unlock
<1>9. CASE Scanning(t)
  BY <1>9 DEF Scanning, ScanNext, ScanEnd, Return, Unlock
<1> QED
  BY <1>1, <1>2, <1>3, <1>4, <1>5, <1>6, <1>7, <1>8, <1>9
  DEF StepOf, Looking, Inserting, Deleting

LEMMA StepKinds ==
  ASSUME NEW t \in Thread, StepOf(t)
  PROVE  Quiet(t) \/ HashInsert(t) \/ ListInsert(t) \/ ListDelete(t) \/ HashDelete(t)
BY DEF StepOf, Quiet, Inserting, Deleting

LEMMA BirthsStep ==
  ASSUME HeapInv, NEW t \in Thread, StepOf(t) PROVE Births'
<1> USE DEF HeapInv, TypeOK, Births
<1>1. CASE Quiet(t)
  BY <1>1, QuietHeap
<1>2. CASE HashInsert(t)
  BY <1>2 DEF HashInsert
<1>3. CASE ListInsert(t) \/ ListDelete(t) \/ HashDelete(t)
  BY <1>3 DEF ListInsert, ListDelete, HashDelete, history
<1> QED  BY <1>1, <1>2, <1>3, StepKinds

-----------------------------------------------------------------------------
\* Insertion puts the newest entry of all at the head of its chain.
LEMMA ChainsAfterInsert ==
  ASSUME HeapInv, NEW t \in Thread, HashInsert(t) PROVE ChainsHold'
<1> USE DEF HeapInv, TypeOK, Pointer
<1>1. PICK c \in Cell \ live, w \in Junk :
        /\ next' = Link(c, arg[t], w)
        /\ keyOf' = [keyOf EXCEPT ![c] = arg[t]]
        /\ items' = [items EXCEPT ![Hash[arg[t]]] = c]
        /\ live' = live \cup {c}
        /\ born' = [born EXCEPT ![c] = clock]
  BY DEF HashInsert
<1> DEFINE s == Hash[arg[t]]
<1>2. s \in Slot
  BY TableAssumption
<1>3. /\ \A d \in live : keyOf'[d] = keyOf[d] /\ born'[d] = born[d] /\ next'[d] = next[d]
      /\ keyOf'[c] = arg[t] /\ born'[c] = clock /\ items'[s] = c
      /\ \A r \in Slot : r # s => items'[r] = items[r]
  BY <1>1, <1>2 DEF Link
<1>4. /\ \A r \in Slot : Chain(r)' = IF r = s THEN Chain(r) \cup {c} ELSE Chain(r)
      /\ \A d \in live : Before(d)' = Before(d)
      /\ Before(c)' = Chain(s)
  <2>1. \A r \in Slot : Chain(r)' = IF r = s THEN Chain(r) \cup {c} ELSE Chain(r)
    BY <1>1, <1>3 DEF Chain, SlotOf
  <2>2. \A d \in live : born[d] < clock
    BY DEF Births
  <2>3. \A d \in live : SlotOf(d) \in Slot /\ SlotOf(d)' = SlotOf(d)
    BY <1>3, TableAssumption DEF SlotOf
  <2>4. SlotOf(c)' = s
    BY <1>3 DEF SlotOf
  <2>5. \A d \in live : Before(d)' = Before(d)
    BY <1>1, <1>3, <2>1, <2>2, <2>3 DEF Before, Chain
  <2>6. Before(c)' = Chain(s)
    BY <1>1, <1>2, <1>3, <2>1, <2>2, <2>4 DEF Before, Chain
  <2> QED  BY <2>1, <2>5, <2>6
<1>5. \A r \in Slot : Chain(r)' # {} => IsNewest(items[r], Chain(r))'
  <2> SUFFICES ASSUME NEW r \in Slot, Chain(r)' # {}
               PROVE  IsNewest(items[r], Chain(r))'
    OBVIOUS
  <2>1. CASE r = s
    <3>1. \A d \in Chain(r)' : born'[d] <= clock
      BY <2>1, <1>3, <1>4 DEF Births, Chain
    <3> QED  BY <2>1, <3>1, <1>3, <1>4 DEF IsNewest
  <2>2. CASE r # s
    BY <2>2, <1>3, <1>4 DEF ChainsHold, IsNewest, Chain
  <2> QED  BY <2>1, <2>2
<1>6. \A d \in live' : Before(d)' # {} => IsNewest(next[d], Before(d))'
  <2> SUFFICES ASSUME NEW d \in live', Before(d)' # {}
               PROVE  IsNewest(next[d], Before(d))'
    OBVIOUS
  <2>1. CASE d = c
    <3>1. IsNewest(items[s], Chain(s))
      BY <2>1, <1>2, <1>4 DEF ChainsHold
    <3>2. next'[c] = items[s]
      BY <3>1, <1>1, PointerAssumption DEF Link, SlotHead, IsNewest, Chain
    <3> QED  BY <2>1, <3>1, <3>2, <1>3, <1>4 DEF IsNewest, Chain
  <2>2. CASE d # c
    <3>1. d \in live
      BY <2>2, <1>1
    <3>2. \A e \in Before(d) : e \in live
      BY DEF Before, Chain
    <3> QED  BY <3>1, <3>2, <1>3, <1>4 DEF ChainsHold, IsNewest
  <2> QED  BY <2>1, <2>2
<1> QED  BY <1>5, <1>6 DEF ChainsHold

\* Deletion takes the item out of its chain, and only that one.
LEMMA ChainsAfterDelete ==
  ASSUME HeapInv, NEW t \in Thread, HashDelete(t) PROVE ChainsHold'
<1> USE DEF HeapInv, TypeOK, Pointer
<1> DEFINE c == at[t]
           s == Hash[arg[t]]
<1>1. s \in Slot /\ c \in live /\ keyOf[c] = arg[t] /\ c \in Chain(s) /\ SlotHead(arg[t]) = items[s]
  BY TableAssumption DEF HashDelete, Matches, Chain, SlotOf, SlotHead
<1>2. keyOf' = keyOf /\ born' = born /\ live' = live \ {c}
  BY DEF HashDelete
<1>3. /\ \A r \in Slot : Chain(r)' = Chain(r) \ {c}
      /\ \A d \in live' : Before(d)' = Before(d) \ {c}
  BY <1>2 DEF Before, Chain, SlotOf
<1>4. \A d, e \in live : /\ born[d] = born[e] => d = e
                         /\ born[d] \in Nat /\ born[e] \in Nat
  BY DEF Births
<1>5. /\ \A r \in Slot : Chain(r) \subseteq live /\ (r # s => c \notin Chain(r))
      /\ \A d \in live : SlotOf(d) \in Slot /\ d \in Chain(SlotOf(d))
      /\ \A d \in live : Before(d) = {e \in Chain(SlotOf(d)) : born[e] < born[d]}
      /\ \A d \in live : Before(d) \subseteq live
  BY <1>1, TableAssumption DEF Chain, SlotOf, Before
<1>6. CASE c = items[s]
  <2>1. items' = [items EXCEPT ![s] = next[c]] /\ next' = next
    BY <1>1, <1>6 DEF HashDelete, Unlink
  <2>2. \A d \in Chain(s) : born[d] <= born[c]
    BY <1>1, <1>6 DEF ChainsHold, IsNewest
  <2>3. Before(c) = Chain(s) \ {c}
    <3>1. Before(c) = {e \in Chain(s) : born[e] < born[c]}
      BY <1>1, <1>5 DEF SlotOf
    <3>2. ASSUME NEW e \in Chain(s) PROVE born[e] < born[c] <=> e # c
      <4>1. e \in live
        BY <1>1, <1>5
      <4> QED  BY <4>1, <1>1, <1>4, <2>2
    <3> QED  BY <3>1, <3>2
  <2>4. ASSUME NEW r \in Slot, Chain(r)' # {} PROVE IsNewest(items[r], Chain(r))'
    <3>1. CASE r = s
      <4>1. IsNewest(next[c], Before(c))
        BY <1>1, <1>3, <2>3, <2>4, <3>1 DEF ChainsHold
      <4> QED  BY <4>1, <1>2, <1>3, <2>1, <2>3, <3>1 DEF IsNewest
    <3>2. CASE r # s
      BY <3>2, <1>2, <1>3, <1>5, <2>1, <2>4 DEF ChainsHold, IsNewest
    <3> QED  BY <3>1, <3>2
  <2>5. ASSUME NEW d \in live', Before(d)' # {} PROVE IsNewest(next[d], Before(d))'
    <3>1. d \in live
      BY <1>2
    <3>2. c \notin Before(d)
      <4>1. ASSUME c \in Before(d) PROVE FALSE
        <5>1. SlotOf(d) = s /\ born[c] < born[d]
          BY <3>1, <4>1, <1>1, <1>5
        <5>2. born[d] <= born[c]
          BY <5>1, <3>1, <1>5, <2>2
        <5> QED  BY <5>1, <5>2, <1>1, <1>4, <3>1
      <4> QED  BY <4>1
    <3> QED  BY <3>1, <3>2, <1>2, <1>3, <2>1, <2>5 DEF ChainsHold, IsNewest
  <2> QED  BY <2>4, <2>5 DEF ChainsHold
<1>7. CASE c # items[s]
  <2> DEFINE p == prev[t]
  <2>1. p \in Chain(s) /\ IsNewest(c, Before(p))
    BY <1>1, <1>7 DEF HashDelete, At, PrevPlace
  <2>2. items' = items /\ next' = [next EXCEPT ![p] = next[c]]
    BY <1>1, <1>7 DEF HashDelete, Unlink
  <2>3. p \in live /\ SlotOf(p) = s /\ SlotOf(c) = s /\ born[c] < born[p]
    BY <1>1, <1>5, <2>1 DEF IsNewest, Chain, SlotOf
  <2>4. ASSUME NEW r \in Slot, Chain(r)' # {} PROVE IsNewest(items[r], Chain(r))'
    BY <1>2, <1>3, <1>5, <1>7, <2>2, <2>4 DEF ChainsHold, IsNewest
  <2>5. ASSUME NEW d \in live', Before(d)' # {} PROVE IsNewest(next[d], Before(d))'
    <3>1. d \in live /\ d # c
      BY <1>2
    <3>2. CASE d = p
      <4>1. Before(p) \ {c} = Before(c)
        <5>1. /\ Before(c) = {e \in Chain(s) : born[e] < born[c]}
              /\ Before(p) = {e \in Chain(s) : born[e] < born[p]}
          BY <1>1, <1>5, <2>3
        <5>2. ASSUME NEW e \in Chain(s)
              PROVE  (born[e] < born[p] /\ e # c) <=> born[e] < born[c]
          <6>1. e \in live
            BY <1>1, <1>5
          <6>2. CASE born[e] < born[p]
            <7>1. born[e] <= born[c]
              BY <5>1, <6>2, <2>1 DEF IsNewest
            <7> QED  BY <7>1, <6>1, <6>2, <1>1, <1>4
          <6>3. CASE ~(born[e] < born[p])
            BY <6>1, <6>3, <1>1, <1>4, <2>3
          <6> QED  BY <6>2, <6>3
        <5> QED  BY <5>1, <5>2
      <4>2. next'[p] = next[c]
        BY <2>2, <2>3
      <4>3. IsNewest(next[c], Before(c))
        BY <4>1, <1>1, <1>3, <2>5, <3>2 DEF ChainsHold
      <4> QED  BY <4>1, <4>2, <4>3, <1>2, <1>3, <3>2 DEF IsNewest
    <3>3. CASE d # p
      <4>1. next'[d] = next[d]
        BY <3>1, <3>3, <2>2
      <4>2. IsNewest(next[d], Before(d))
        BY <3>1, <1>3, <2>5 DEF ChainsHold
      <4>3. ASSUME next[d] = c PROVE FALSE
        <5>1. SlotOf(d) = s /\ born[c] < born[d] /\ \A e \in Before(d) : born[e] <= born[c]
          BY <4>2, <4>3, <1>1, <1>5, <3>1 DEF IsNewest
        <5>2. CASE born[d] < born[p]
          <6>1. d \in Before(p)
            BY <5>1, <5>2, <2>3, <1>5, <3>1
          <6> QED  BY <6>1, <5>1, <2>1, <1>1, <1>4, <3>1 DEF IsNewest
        <5>3. CASE born[p] < born[d]
          <6>1. p \in Before(d)
            BY <5>1, <5>3, <2>3, <1>5, <3>1
          <6> QED  BY <6>1, <5>1, <2>3, <1>1, <1>4
        <5> QED  BY <5>2, <5>3, <1>4, <2>3, <3>1, <3>3
      <4> QED  BY <4>1, <4>2, <4>3, <1>2, <1>3 DEF IsNewest
    <3> QED  BY <3>2, <3>3
  <2> QED  BY <2>4, <2>5 DEF ChainsHold
<1> QED  BY <1>6, <1>7

LEMMA ChainsStep ==
  ASSUME HeapInv, NEW t \in Thread, StepOf(t) PROVE ChainsHold'
<1>1. CASE Quiet(t)
  BY <1>1, QuietHeap DEF HeapInv, ChainsHold, IsNewest, Chain, Before, SlotOf
<1>2. CASE ListInsert(t) \/ ListDelete(t)
  <2>1. UNCHANGED <<items, keyOf, next, live, born>>
    BY <1>2 DEF ListInsert, ListDelete, history
  <2> QED  BY <2>1 DEF HeapInv, ChainsHold, IsNewest, Chain, Before, SlotOf
<1> QED  BY <1>1, <1>2, StepKinds, ChainsAfterInsert, ChainsAfterDelete

-----------------------------------------------------------------------------
LEMMA Alone ==
  ASSUME HeapInv, NEW t \in Thread, pc[t] \in Held
  PROVE  \A u \in Thread \ {t} : pc[u] \notin Held
BY DEF HeapInv, Places

\* What a deletion takes out of its chain is what it took out of the list.
LEMMA SameItem ==
  ASSUME HeapInv, NEW t \in Thread, HashDelete(t) PROVE at[t] = hashitem[t]
<1> USE DEF HeapInv, TypeOK
<1>1. pc[t] = "remove" /\ at[t] \in Under(arg[t])
  BY DEF HashDelete, At, Matches, Under
<1>2. Hits(t) = Under(arg[t]) /\ Under(arg[t]) \subseteq live
  BY <1>1 DEF Places, Births, WalkPlace, Walking, Hits, Under
<1>3. IsNewest(hashitem[t], Under(arg[t]))
  BY <1>1 DEF InHand
<1>4. born[at[t]] <= born[hashitem[t]] /\ born[hashitem[t]] <= born[at[t]]
  BY <1>1, <1>2, <1>3 DEF WalkPlace, Walking, IsNewest
<1>5. at[t] \in live /\ hashitem[t] \in live
  BY <1>1, <1>2, <1>3 DEF IsNewest
<1> QED  BY <1>4, <1>5 DEF Births

LEMMA ListedStep ==
  ASSUME HeapInv, NEW t \in Thread, StepOf(t)
  PROVE  /\ Quiet(t) \/ HashInsert(t) \/ HashDelete(t) => Listed' = Listed
         /\ ListInsert(t) => /\ Listed = live \ {hashitem[t]} /\ Listed' = live
                             /\ live' = live
         /\ ListDelete(t) => /\ Listed = live /\ Listed' = live \ {hashitem[t]}
                             /\ live' = live
<1> USE DEF HeapInv, TypeOK
<1>1. ASSUME Quiet(t) PROVE Listed' = Listed
  <2>1. live' = live
    BY <1>1, QuietHeap
  <2>2. \A u \in Thread \ {t} : pc'[u] = pc[u] /\ hashitem'[u] = hashitem[u]
    BY <1>1 DEF Quiet, Search, InsertLock, ScanLock, Looking, SearchNull, Walk, WalkOff,
        SearchFound, Find, Scanning, ScanNext, ScanEnd, Goto, Return, locals
  <2>3. /\ pc[t] \in {"list_insert", "remove"} <=> pc'[t] \in {"list_insert", "remove"}
        /\ pc[t] \in {"list_insert", "remove"} => hashitem'[t] = hashitem[t]
    <3>1. CASE Walk(t)
      BY <3>1 DEF Walk
    <3>2. CASE WalkOff(t)
      <4>1. pc[t] # "remove"
        BY <3>2 DEF WalkOff, WalkPlace, Chain, Walking
      <4> QED  BY <3>2, <4>1 DEF WalkOff, Goto, At, Walking
    <3> QED
      BY <1>1, <3>1, <3>2 DEF Quiet, Search, InsertLock, ScanLock, Looking, SearchNull,
          SearchFound, Find, Scanning, ScanNext, ScanEnd, At, Goto, Return, locals
  <2>4. Unlisted' = Unlisted
    BY <2>2, <2>3 DEF Unlisted
  <2> QED  BY <2>1, <2>4 DEF Listed
<1>2. ASSUME HashInsert(t) PROVE Listed' = Listed
  <2>1. PICK c \in Cell \ live : live' = live \cup {c} /\ hashitem' = [hashitem EXCEPT ![t] = c]
    BY <1>2 DEF HashInsert
  <2>2. Unlisted = {} /\ Unlisted' = {c}
    BY <1>2, <2>1, Alone DEF HashInsert, At, Goto, Held, Unlisted
  <2> QED  BY <2>1, <2>2 DEF Listed
<1>3. ASSUME HashDelete(t) PROVE Listed' = Listed
  <2>1. Unlisted = {hashitem[t]} /\ Unlisted' = {}
    BY <1>3, Alone DEF HashDelete, At, Goto, Return, Held, Unlisted
  <2> QED  BY <1>3, <2>1, SameItem DEF Listed, HashDelete
<1>4. ASSUME ListInsert(t) PROVE Unlisted = {hashitem[t]} /\ Unlisted' = {} /\ live' = live
  BY <1>4, Alone DEF ListInsert, At, Goto, Return, Held, Unlisted
<1>5. ASSUME ListDelete(t) PROVE Unlisted = {} /\ Unlisted' = {hashitem[t]} /\ live' = live
  BY <1>5, Alone DEF ListDelete, At, Goto, Held, Unlisted
<1> QED  BY <1>1, <1>2, <1>3, <1>4, <1>5 DEF Listed

-----------------------------------------------------------------------------
Linked(d) == IF ListedBefore(d) = {} THEN right[d] = Anchor
             ELSE IsNewest(right[d], ListedBefore(d))

\* dll_insert puts the newest entry behind the anchor.
LEMMA ListAfterInsert ==
  ASSUME HeapInv, NEW t \in Thread, ListInsert(t) PROVE ListHolds'
<1> USE PointerAssumption DEF HeapInv, TypeOK
<1> DEFINE L == Listed
<1>1. PICK c \in Cell : c = hashitem[t] /\ IsNewest(c, live)
  BY DEF ListInsert, At, InHand, IsNewest
<1>2. PICK r : r = right[Anchor]
  OBVIOUS
<1>3. /\ L = live \ {c} /\ Listed' = live /\ Listed' = L \cup {c}
      /\ c \notin L /\ c # Anchor /\ L \subseteq Cell
      /\ born' = born /\ c \in live
  <2>1. Listed = live \ {hashitem[t]} /\ Listed' = live
    BY ListedStep DEF StepOf, Inserting
  <2>2. born' = born
    BY DEF ListInsert
  <2>3. c \in live /\ live \subseteq Cell
    BY <1>1 DEF IsNewest
  <2> QED  BY <1>1, <2>1, <2>2, <2>3
<1>4. /\ right' = [right EXCEPT ![c] = r, ![Anchor] = c]
      /\ left' = [left EXCEPT ![c] = Anchor, ![r] = c]
  BY <1>1, <1>2 DEF ListInsert
<1>5. /\ \A d \in L : Linked(d) /\ right[d] \in L \cup {Anchor}
      /\ IF L = {} THEN r = Anchor ELSE IsNewest(r, L)
      /\ r \in L \cup {Anchor}
      /\ \A i \in L \cup {Anchor} : /\ left[right[i]] = i /\ right[left[i]] = i
                                    /\ left[i] \in L \cup {Anchor}
                                    /\ right[i] \in L \cup {Anchor}
  BY <1>2 DEF ListHolds, IsNewest, ListedBefore, Linked
<1>6. \A d \in L : born[d] < born[c] /\ born[d] \in Nat
  BY <1>1, <1>3 DEF IsNewest, Births
<1>7. /\ \A d \in L : ListedBefore(d)' = ListedBefore(d)
      /\ ListedBefore(c)' = L
  BY <1>3, <1>6 DEF ListedBefore
<1>8. \A d \in Listed' : Linked(d)'
  <2>1. ASSUME NEW d \in L PROVE Linked(d)'
    <3>1. right'[d] = right[d]
      BY <1>3, <1>4
    <3> QED  BY <3>1, <1>3, <1>5, <1>7 DEF Linked, IsNewest
  <2>2. Linked(c)'
    <3>1. right'[c] = r
      BY <1>3, <1>4
    <3> QED  BY <3>1, <1>3, <1>5, <1>7 DEF Linked, IsNewest
  <2> QED  BY <2>1, <2>2, <1>3
<1>9. (IF Listed = {} THEN right[Anchor] = Anchor ELSE IsNewest(right[Anchor], Listed))'
  BY <1>1, <1>3, <1>4 DEF IsNewest
<1>10. ASSUME NEW i \in Listed' \cup {Anchor}
       PROVE  /\ left'[right'[i]] = i
              /\ left'[i] \in Listed' \cup {Anchor} /\ right'[left'[i]] = i
  <2>1. /\ right'[c] = r /\ left'[c] = Anchor
        /\ right'[Anchor] = c /\ left'[r] = c
        /\ \A j \in L : right'[j] = right[j]
        /\ \A j \in L \cup {Anchor} : j # r => left'[j] = left[j]
    BY <1>3, <1>4, <1>5
  <2>2. left[r] = Anchor
    BY <1>2, <1>5
  <2>3. CASE i = c
    BY <2>1, <2>3
  <2>4. CASE i \in L
    <3>1. right[i] \in L \cup {Anchor} /\ right[i] # r /\ left[right[i]] = i
      BY <2>2, <2>4, <1>3, <1>5
    <3>2. left'[right'[i]] = i
      BY <3>1, <2>1, <2>4
    <3>3. ASSUME i # r PROVE left[i] \in L /\ right[left[i]] = i /\ left'[i] = left[i]
      BY <3>3, <2>1, <2>4, <1>2, <1>5
    <3> QED  BY <3>2, <3>3, <2>1, <1>3
  <2>5. CASE i = Anchor
    <3>1. ASSUME i # r PROVE left[i] \in L /\ right[left[i]] = i /\ left'[i] = left[i]
      BY <3>1, <2>1, <2>5, <1>2, <1>5
    <3> QED  BY <3>1, <2>1, <2>5, <1>3
  <2> QED  BY <2>3, <2>4, <2>5, <1>3
<1> QED  BY <1>8, <1>9, <1>10 DEF ListHolds, Linked

\* dll_delete puts the neighbours of an entry next to each other.
LEMMA ListAfterDelete ==
  ASSUME HeapInv, NEW t \in Thread, ListDelete(t) PROVE ListHolds'
<1> USE PointerAssumption DEF HeapInv, TypeOK
<1> DEFINE L == Listed
<1>1. PICK c \in Cell : c = hashitem[t] /\ c \in live
  BY DEF ListDelete, At, InHand, IsNewest, Under
<1>2. PICK l, r : l = left[c] /\ r = right[c]
  OBVIOUS
<1>3. /\ L = live /\ Listed' = L \ {c} /\ c \in L /\ c # Anchor
      /\ L \subseteq Cell /\ born' = born
  <2>1. Listed = live /\ Listed' = live \ {hashitem[t]}
    BY ListedStep DEF StepOf, Deleting
  <2>2. born' = born
    BY DEF ListDelete, history
  <2> QED  BY <1>1, <2>1, <2>2
<1>4. /\ \A d \in L : Linked(d)
      /\ IsNewest(right[Anchor], L)
      /\ \A i \in L \cup {Anchor} : /\ left[right[i]] = i /\ right[left[i]] = i
                                    /\ left[i] \in L \cup {Anchor}
                                    /\ right[i] \in L \cup {Anchor}
  BY <1>3 DEF ListHolds, IsNewest, ListedBefore, Linked
<1>5. /\ right' = [right EXCEPT ![l] = r]
      /\ left' = [left EXCEPT ![r] = l]
  <2>1. ~ListIsEmpty
    BY <1>3, <1>4 DEF ListIsEmpty, IsNewest
  <2> QED  BY <2>1, <1>1, <1>2 DEF ListDelete, Bypass
<1>6. \A d, e \in L : /\ born[d] = born[e] => d = e
                      /\ born[d] \in Nat /\ born[e] \in Nat
  BY <1>3 DEF Births
<1>7. /\ l \in L \cup {Anchor} /\ r \in L \cup {Anchor}
      /\ right[l] = c /\ left[r] = c /\ l # c /\ r # c
  <2>1. r # c
    BY <1>2, <1>3, <1>4, <1>6 DEF Linked, IsNewest, ListedBefore
  <2> QED  BY <2>1, <1>2, <1>3, <1>4
<1>8. /\ right'[l] = r /\ left'[r] = l
      /\ \A j \in L \cup {Anchor} : j # l => right'[j] = right[j] /\ right[j] # c
      /\ \A j \in L \cup {Anchor} : j # r => left'[j] = left[j] /\ left[j] # c
  BY <1>3, <1>4, <1>5, <1>7
<1>9. \A d \in L \ {c} : ListedBefore(d)' = ListedBefore(d) \ {c}
  BY <1>3 DEF ListedBefore
<1>10. \A d \in Listed' : Linked(d)'
  <2> SUFFICES ASSUME NEW d \in L \ {c} PROVE Linked(d)'
    BY <1>3
  <2>1. CASE d = l
    <3>1. IsNewest(c, ListedBefore(l))
      BY <2>1, <1>3, <1>4, <1>7 DEF Linked
    <3>2. ListedBefore(l) \ {c} = ListedBefore(c)
      <4>1. ASSUME NEW e \in L
            PROVE  (born[e] < born[l] /\ e # c) <=> born[e] < born[c]
        <5>1. born[c] < born[l]
          BY <3>1 DEF IsNewest, ListedBefore
        <5>2. born[e] < born[l] => born[e] <= born[c]
          BY <3>1 DEF IsNewest, ListedBefore
        <5> QED  BY <5>1, <5>2, <1>3, <1>6, <2>1
      <4> QED  BY <4>1 DEF ListedBefore
    <3>3. IF ListedBefore(c) = {} THEN r = Anchor ELSE IsNewest(r, ListedBefore(c))
      BY <1>2, <1>3, <1>4 DEF Linked
    <3> QED  BY <2>1, <3>2, <3>3, <1>3, <1>8, <1>9 DEF Linked, IsNewest
  <2>2. CASE d # l
    <3>1. right'[d] = right[d] /\ right[d] # c
      BY <2>2, <1>8
    <3> QED  BY <3>1, <1>3, <1>4, <1>9 DEF Linked, IsNewest
  <2> QED  BY <2>1, <2>2
<1>11. (IF Listed = {} THEN right[Anchor] = Anchor ELSE IsNewest(right[Anchor], Listed))'
  <2>1. CASE l = Anchor
    <3>1. IsNewest(c, L)
      BY <2>1, <1>4, <1>7
    <3>2. L \ {c} = ListedBefore(c)
      BY <3>1, <1>6 DEF IsNewest, ListedBefore
    <3>3. IF ListedBefore(c) = {} THEN r = Anchor ELSE IsNewest(r, ListedBefore(c))
      BY <1>2, <1>3, <1>4 DEF Linked
    <3> QED  BY <2>1, <3>2, <3>3, <1>3, <1>8 DEF IsNewest
  <2>2. CASE l # Anchor
    BY <2>2, <1>3, <1>4, <1>8 DEF IsNewest
  <2> QED  BY <2>1, <2>2
<1>12. ASSUME NEW i \in Listed' \cup {Anchor}
       PROVE  /\ left'[right'[i]] = i
              /\ left'[i] \in Listed' \cup {Anchor} /\ right'[left'[i]] = i
  <2>1. i \in L \cup {Anchor} /\ i # c
    BY <1>3
  <2>2. left'[right'[i]] = i
    <3>1. CASE i = l
      BY <3>1, <1>8
    <3>2. CASE i # l
      BY <3>2, <2>1, <1>4, <1>7, <1>8
    <3> QED  BY <3>1, <3>2
  <2>3. left'[i] \in Listed' \cup {Anchor} /\ right'[left'[i]] = i
    <3>1. CASE i = r
      BY <3>1, <1>3, <1>7, <1>8
    <3>2. CASE i # r
      <4>1. left[i] \in L \cup {Anchor} /\ left[i] # c /\ left[i] # l /\ right[left[i]] = i
        BY <3>2, <2>1, <1>4, <1>7, <1>8
      <4> QED  BY <4>1, <3>2, <2>1, <1>3, <1>8
    <3> QED  BY <3>1, <3>2
  <2> QED  BY <2>2, <2>3
<1> QED  BY <1>10, <1>11, <1>12 DEF ListHolds, Linked

LEMMA ListStep ==
  ASSUME HeapInv, NEW t \in Thread, StepOf(t) PROVE ListHolds'
<1>1. CASE Quiet(t)
  <2>1. Listed' = Listed /\ UNCHANGED <<left, right, born>>
    BY <1>1, QuietHeap, ListedStep
  <2> QED  BY <2>1 DEF HeapInv, ListHolds, IsNewest, ListedBefore
<1>2. CASE HashInsert(t)
  <2>1. Listed' = Listed /\ UNCHANGED <<left, right>>
    BY <1>2, ListedStep DEF HashInsert
  <2>2. \A d \in Listed : born'[d] = born[d]
    BY <1>2 DEF HashInsert, Listed, HeapInv, TypeOK
  <2>3. /\ \A d \in Listed : ListedBefore(d)' = ListedBefore(d) /\ ListedBefore(d) \subseteq Listed
    BY <2>1, <2>2 DEF ListedBefore
  <2> QED  BY <2>1, <2>2, <2>3 DEF HeapInv, ListHolds, IsNewest
<1>3. CASE HashDelete(t)
  <2>1. Listed' = Listed /\ UNCHANGED <<left, right, born>>
    BY <1>3, ListedStep DEF HashDelete
  <2> QED  BY <2>1 DEF HeapInv, ListHolds, IsNewest, ListedBefore
<1> QED  BY <1>1, <1>2, <1>3, StepKinds, ListAfterInsert, ListAfterDelete

-----------------------------------------------------------------------------
\* What a step leaves of another thread, and what it may do while one has the
\* mutex.
LEMMA OthersStay ==
  ASSUME HeapInv, NEW t \in Thread, StepOf(t), NEW u \in Thread, u # t
  PROVE  /\ pc'[u] = pc[u] /\ arg'[u] = arg[u] /\ at'[u] = at[u]
         /\ prev'[u] = prev[u] /\ hashitem'[u] = hashitem[u] /\ asked'[u] = asked[u]
         /\ pc[u] \in Held => Quiet(t)
<1> USE DEF HeapInv, TypeOK
<1>1. pc'[u] = pc[u] /\ arg'[u] = arg[u] /\ at'[u] = at[u]
  BY DEF StepOf, Search, InsertLock, ScanLock, Looking, SearchNull, Walk, WalkOff,
      SearchFound, Inserting, HashInsert, ListInsert, Deleting, Find, ListDelete,
      HashDelete, Scanning, ScanNext, ScanEnd, Goto, Return, locals, history
<1>2. prev'[u] = prev[u] /\ hashitem'[u] = hashitem[u] /\ asked'[u] = asked[u]
  BY DEF StepOf, Search, InsertLock, ScanLock, Looking, SearchNull, Walk, WalkOff,
      SearchFound, Inserting, HashInsert, ListInsert, Deleting, Find, ListDelete,
      HashDelete, Scanning, ScanNext, ScanEnd, Goto, Return, locals, history
<1>3. ASSUME pc[u] \in Held PROVE Quiet(t)
  <2>1. pc[t] \notin Held
    BY <1>3, Alone
  <2> QED  BY <2>1, StepKinds DEF HashInsert, ListInsert, ListDelete, HashDelete, At, Held
<1> QED  BY <1>1, <1>2, <1>3

LEMMA InHandStep ==
  ASSUME HeapInv, NEW t \in Thread, StepOf(t) PROVE InHand'
<1> USE DEF HeapInv, TypeOK
<1> SUFFICES ASSUME NEW u \in Thread,
                    pc'[u] \in {"list_insert", "list_delete", "remove"}
             PROVE  /\ pc'[u] = "list_insert" => IsNewest(hashitem[u], live)'
                    /\ pc'[u] \in {"list_delete", "remove"} =>
                          IsNewest(hashitem[u], Under(arg[u]))'
  BY DEF InHand
<1>1. CASE u # t
  <2>1. Quiet(t) /\ pc'[u] = pc[u] /\ arg'[u] = arg[u] /\ hashitem'[u] = hashitem[u]
    BY <1>1, OthersStay DEF Held
  <2> QED  BY <2>1, QuietHeap DEF InHand, IsNewest, Under
<1>2. CASE u = t
  <2>1. CASE HashInsert(t)
    <3>1. pc'[t] = "list_insert" /\ hashitem'[t] \in live'
      BY <2>1 DEF HashInsert, Goto
    <3>2. \A d \in live' : born'[d] <= born'[hashitem'[t]]
      BY <2>1 DEF HashInsert, Births
    <3> QED  BY <1>2, <3>1, <3>2 DEF IsNewest
  <2>2. CASE Find(t)
    <3>1. pc'[t] = "list_delete" /\ hashitem'[t] = at[t] /\ arg'[t] = arg[t]
      BY <2>2 DEF Find, Goto
    <3>2. at[t] \in Under(arg[t])
      BY <2>2 DEF Find, Matches, Under
    <3>3. Hits(t) = Under(arg[t])
      BY <2>2 DEF Find, At, Places, Births, WalkPlace, Walking, Hits, Under
    <3>4. IsNewest(at[t], Under(arg[t]))
      BY <2>2, <3>2, <3>3 DEF Find, At, WalkPlace, Walking, IsNewest
    <3>5. UNCHANGED <<live, keyOf, born>>
      BY <2>2 DEF Find, heap, history
    <3> QED  BY <1>2, <3>1, <3>4, <3>5 DEF IsNewest, Under
  <2>3. CASE ListDelete(t)
    <3>1. /\ pc[t] = "list_delete" /\ pc'[t] = "remove"
          /\ hashitem'[t] = hashitem[t] /\ arg'[t] = arg[t]
          /\ UNCHANGED <<live, keyOf, born>>
      BY <2>3 DEF ListDelete, At, Goto, history
    <3> QED  BY <1>2, <3>1 DEF InHand, IsNewest, Under
  <2>4. CASE Walk(t)
    <3>1. /\ pc'[t] = pc[t] /\ hashitem'[t] = hashitem[t] /\ arg'[t] = arg[t]
          /\ UNCHANGED <<live, keyOf, born>>
      BY <2>4 DEF Walk, heap, history
    <3> QED  BY <1>2, <3>1 DEF InHand, IsNewest, Under
  <2> QED
    BY <1>2, <2>1, <2>2, <2>3, <2>4
    DEF StepOf, Search, InsertLock, ScanLock, Looking, SearchNull, WalkOff,
        SearchFound, Inserting, ListInsert, Deleting, HashDelete,
        Scanning, ScanNext, ScanEnd, At, Goto, Return, locals
<1> QED  BY <1>1, <1>2

-----------------------------------------------------------------------------
\* The head of a slot is as new as any entry in it, and what follows an entry
\* that does not match is as new as any entry that does and is older.
LEMMA FromHead ==
  ASSUME HeapInv, NEW k \in Key, NEW H \in SUBSET Under(k), H # {}
  PROVE  SlotHead(k) \in Chain(Hash[k]) /\ \A c \in H : born[c] <= born[SlotHead(k)]
<1>1. H \subseteq Chain(Hash[k]) /\ Hash[k] \in Slot
  BY TableAssumption DEF Under, Chain, SlotOf
<1> QED  BY <1>1 DEF HeapInv, ChainsHold, IsNewest, SlotHead

LEMMA FromItem ==
  ASSUME HeapInv, NEW t \in Thread, pc[t] \in Walking, Hits(t) # {}, ~Matches(t)
  PROVE  /\ at[t] \in Chain(Hash[arg[t]]) /\ next[at[t]] \in Chain(Hash[arg[t]])
         /\ IsNewest(next[at[t]], Before(at[t]))
         /\ \A c \in Hits(t) : born[c] <= born[next[at[t]]]
<1> USE DEF HeapInv, TypeOK
<1>1. /\ at[t] \in Chain(Hash[arg[t]]) /\ at[t] \in live
      /\ \A c \in Hits(t) : born[c] <= born[at[t]]
  BY DEF WalkPlace, Chain
<1>2. \A c \in Hits(t) : c \in Before(at[t])
  <2> SUFFICES ASSUME NEW c \in Hits(t) PROVE c \in Before(at[t])
    OBVIOUS
  <2>1. c \in live /\ c \in Chain(Hash[arg[t]]) /\ c # at[t] /\ SlotOf(at[t]) = Hash[arg[t]]
    BY <1>1 DEF Hits, Under, Matches, Chain, SlotOf
  <2>2. born[c] # born[at[t]] /\ born[c] <= born[at[t]]
    BY <1>1, <2>1 DEF Births
  <2> QED  BY <1>1, <2>1, <2>2 DEF Before
<1>3. IsNewest(next[at[t]], Before(at[t]))
  BY <1>1, <1>2 DEF ChainsHold
<1>4. next[at[t]] \in Chain(Hash[arg[t]])
  BY <1>1, <1>3 DEF IsNewest, Before, Chain
<1> QED  BY <1>1, <1>2, <1>3, <1>4 DEF IsNewest

LEMMA WalkPlaceStep ==
  ASSUME HeapInv, NEW t \in Thread, StepOf(t) PROVE WalkPlace'
<1> USE DEF HeapInv, TypeOK
<1> DEFINE Place(u) ==
        /\ pc[u] \in Walking \cup {"list_delete"} =>
              IF Shared THEN asked[u] <= clock ELSE asked[u] = clock
        /\ pc[u] \in {"find", "remove"} => Hits(u) # {}
        /\ pc[u] \in Walking /\ Hits(u) # {} =>
              /\ at[u] \in Chain(Hash[arg[u]])
              /\ \A c \in Hits(u) : born[c] <= born[at[u]]
<1>1. \A u \in Thread : Place(u)
  BY DEF WalkPlace
<1> SUFFICES ASSUME NEW u \in Thread PROVE Place(u)'
  BY DEF WalkPlace
<1>2. CASE u # t
  <2>1. /\ pc'[u] = pc[u] /\ arg'[u] = arg[u] /\ at'[u] = at[u] /\ asked'[u] = asked[u]
        /\ pc[u] \in Held => Quiet(t)
    BY <1>2, OthersStay
  <2>2. CASE Quiet(t) \/ ListInsert(t)
    <3>1. UNCHANGED <<keyOf, live, clock, born>>
      BY <2>2, QuietHeap DEF ListInsert
    <3> QED  BY <1>1, <2>1, <3>1 DEF Hits, Under, Chain, SlotOf
  <2>3. CASE HashInsert(t) \/ ListDelete(t) \/ HashDelete(t)
    <3>1. ASSUME pc[u] \in Walking \cup {"list_delete"}
          PROVE  Shared /\ HashInsert(t) /\ pc[u] = "search"
      <4>1. pc[u] \notin Held
        BY <1>2, <2>3, Alone DEF HashInsert, ListDelete, HashDelete, At, Held
      <4>2. Shared /\ pc[u] = "search"
        BY <3>1, <4>1 DEF Held, Walking
      <4> QED  BY <4>2, <2>3 DEF ListDelete, HashDelete, At, Places
    <3>2. ASSUME pc[u] \in Walking \cup {"list_delete"}
          PROVE  /\ Hits(u)' = Hits(u) /\ asked[u] <= clock
                 /\ \A s \in Slot : Chain(s) \subseteq Chain(s)'
                 /\ \A d \in live : born'[d] = born[d]
                 /\ clock' = clock + 1
      <4>1. PICK c \in Cell \ live :
              /\ keyOf' = [keyOf EXCEPT ![c] = arg[t]]
              /\ live' = live \cup {c}
              /\ born' = [born EXCEPT ![c] = clock]
              /\ clock' = clock + 1
        BY <3>1, <3>2 DEF HashInsert
      <4>2. asked[u] <= clock
        BY <1>1, <3>1, <3>2 DEF Walking
      <4>3. \A d \in live : d # c /\ keyOf'[d] = keyOf[d] /\ born'[d] = born[d]
        BY <4>1
      <4>4. born'[c] = clock
        BY <4>1
      <4>5. Hits(u)' = Hits(u)
        BY <2>1, <4>1, <4>2, <4>3, <4>4 DEF Hits, Under
      <4> QED  BY <4>1, <4>2, <4>3, <4>5 DEF Chain, SlotOf
    <3>3. Hash[arg[u]] \in Slot /\ Hits(u) \subseteq live
      BY TableAssumption DEF Hits, Under
    <3> QED  BY <1>1, <2>1, <3>1, <3>2, <3>3 DEF Walking, Chain
  <2> QED  BY <2>2, <2>3, StepKinds
<1>3. CASE u = t
  <2>1. CASE \E k \in Key : Search(t, k)
    <3>1. PICK k \in Key : Search(t, k)
      BY <2>1
    <3>2. /\ pc'[t] = "search" /\ arg'[t] = k /\ at'[t] = SlotHead(k) /\ asked'[t] = clock
          /\ UNCHANGED <<items, keyOf, live, clock, born>>
      BY <3>1 DEF Search, Goto, heap
    <3>3. Hits(t)' \in SUBSET Under(k)
      BY <3>2 DEF Hits, Under
    <3>4. Hits(t)' # {} => /\ SlotHead(k) \in Chain(Hash[k])
                           /\ \A c \in Hits(t)' : born[c] <= born[SlotHead(k)]
      BY <3>3, FromHead
    <3> QED  BY <1>3, <3>2, <3>4 DEF Chain, SlotOf
  <2>2. CASE Walk(t)
    <3>1. /\ pc'[t] = pc[t] /\ arg'[t] = arg[t] /\ asked'[t] = asked[t]
          /\ at'[t] = next[at[t]] /\ pc[t] \in Walking /\ ~Matches(t)
          /\ UNCHANGED <<keyOf, live, clock, born>>
      BY <2>2 DEF Walk, At, heap, history
    <3>2. Hits(t)' = Hits(t)
      BY <3>1 DEF Hits, Under
    <3> QED  BY <1>1, <1>3, <3>1, <3>2, FromItem DEF Chain, SlotOf
  <2>3. CASE SearchFound(t) \/ ListDelete(t)
    <3>1. CASE pc'[t] = "idle"
      BY <3>1, <1>3 DEF Walking
    <3>2. CASE pc'[t] # "idle"
      <4>1. /\ pc'[t] \in {"find", "remove"} /\ arg'[t] = arg[t] /\ asked'[t] = asked[t]
            /\ at'[t] = SlotHead(arg[t])
            /\ pc[t] \in {"search", "list_delete"}
            /\ UNCHANGED <<keyOf, live, clock, born>>
        BY <2>3, <3>2 DEF SearchFound, ListDelete, At, Goto, Return, heap, history
      <4>2. ~Shared
        BY <2>3, <3>2 DEF SearchFound, ListDelete, At, Goto, Return, Places
      <4>3. asked[t] = clock
        BY <1>1, <4>1, <4>2 DEF Walking
      <4>4. Hits(t) = Under(arg[t]) /\ Hits(t)' = Hits(t)
        BY <4>1, <4>3 DEF Hits, Under, Births
      <4>5. Hits(t) # {}
        <5>1. CASE SearchFound(t)
          BY <5>1, <4>4 DEF SearchFound, Matches, Under
        <5>2. CASE ListDelete(t)
          BY <5>2, <4>4 DEF ListDelete, At, InHand, IsNewest
        <5> QED  BY <5>1, <5>2, <2>3
      <4>6. /\ SlotHead(arg[t]) \in Chain(Hash[arg[t]])
            /\ \A c \in Hits(t) : born[c] <= born[SlotHead(arg[t])]
        BY <4>4, <4>5, FromHead
      <4> QED  BY <1>3, <4>1, <4>2, <4>3, <4>4, <4>5, <4>6 DEF Chain, SlotOf
    <3> QED  BY <3>1, <3>2
  <2>4. CASE Find(t)
    <3>1. /\ pc[t] = "find" /\ pc'[t] = "list_delete" /\ UNCHANGED <<clock, asked>>
      BY <2>4 DEF Find, At, Goto, history
    <3> QED  BY <1>1, <1>3, <3>1 DEF Walking
  <2>5. CASE WalkOff(t)
    BY <2>5, <1>3 DEF WalkOff, Goto, Walking
  <2> QED
    BY <1>3, <2>1, <2>2, <2>3, <2>4, <2>5
    DEF StepOf, InsertLock, ScanLock, Looking, SearchNull, Inserting, HashInsert,
        ListInsert, Deleting, HashDelete, Scanning, ScanNext, ScanEnd,
        At, Goto, Return, locals, Walking
<1> QED  BY <1>2, <1>3

LEMMA PrevPlaceStep ==
  ASSUME HeapInv, NEW t \in Thread, StepOf(t) PROVE PrevPlace'
<1> USE PointerAssumption DEF HeapInv, TypeOK
<1> SUFFICES ASSUME NEW u \in Thread, pc'[u] = "remove"
             PROVE  (IF prev[u] = NULL THEN at[u] = SlotHead(arg[u])
                     ELSE /\ prev[u] \in Chain(Hash[arg[u]])
                          /\ IsNewest(at[u], Before(prev[u])))'
  BY DEF PrevPlace
<1>1. CASE u # t
  <2>1. Quiet(t) /\ pc[u] = "remove" /\ arg'[u] = arg[u] /\ at'[u] = at[u] /\ prev'[u] = prev[u]
    BY <1>1, OthersStay DEF Held
  <2> QED  BY <2>1, QuietHeap DEF PrevPlace, SlotHead, IsNewest, Chain, Before, SlotOf
<1>2. CASE u = t
  <2>1. CASE ListDelete(t)
    BY <1>2, <2>1 DEF ListDelete, SlotHead
  <2>2. CASE Walk(t)
    <3>1. /\ pc[t] = "remove" /\ arg'[t] = arg[t] /\ prev'[t] = at[t]
          /\ at'[t] = next[at[t]] /\ ~Matches(t) /\ at[t] # NULL
          /\ UNCHANGED <<items, keyOf, live, born>>
      BY <1>2, <2>2 DEF Walk, heap, history
    <3>2. Hits(t) # {} /\ pc[t] \in Walking
      BY <3>1 DEF WalkPlace, Walking
    <3>3. at[t] \in Chain(Hash[arg[t]]) /\ IsNewest(next[at[t]], Before(at[t]))
      BY <3>1, <3>2, FromItem
    <3> QED  BY <1>2, <3>1, <3>3 DEF IsNewest, Chain, Before, SlotOf
  <2> QED
    BY <1>2, <2>1, <2>2
    DEF StepOf, Search, InsertLock, ScanLock, Looking, SearchNull, WalkOff,
        SearchFound, Inserting, HashInsert, ListInsert, Deleting, Find, HashDelete,
        Scanning, ScanNext, ScanEnd, At, Goto, Return, locals
<1> QED  BY <1>1, <1>2

LEMMA ScanPlaceStep ==
  ASSUME HeapInv, NEW t \in Thread, StepOf(t) PROVE ScanPlace'
<1> USE DEF HeapInv, TypeOK
<1> SUFFICES ASSUME NEW u \in Thread, pc'[u] = "scan"
             PROVE  at'[u] \in Listed' \cup {Anchor}
  BY DEF ScanPlace
<1>1. CASE u # t
  <2>1. Quiet(t) /\ pc[u] = "scan" /\ at'[u] = at[u]
    BY <1>1, OthersStay DEF Held
  <2> QED  BY <2>1, ListedStep DEF ScanPlace
<1>2. CASE u = t
  <2>1. CASE ScanLock(t)
    BY <1>2, <2>1 DEF ScanLock
  <2>2. CASE ScanNext(t)
    <3>1. Listed' = Listed
      BY <2>2, ListedStep DEF Quiet, Scanning
    <3>2. at[t] \in Listed \cup {Anchor} /\ right[at[t]] # Anchor /\ at'[t] = right[at[t]]
      BY <2>2 DEF ScanNext, At, ScanPlace
    <3>3. right[at[t]] \in Listed
      BY <3>2 DEF ListHolds, IsNewest, ListedBefore
    <3> QED  BY <1>2, <3>1, <3>2, <3>3
  <2> QED
    BY <1>2, <2>1, <2>2
    DEF StepOf, Search, InsertLock, Looking, SearchNull, Walk, WalkOff,
        SearchFound, Inserting, HashInsert, ListInsert, Deleting, Find, ListDelete,
        HashDelete, Scanning, ScanEnd, At, Goto, Return, Walking, locals
<1> QED  BY <1>1, <1>2

-----------------------------------------------------------------------------
\* What was there when a thread asked stays as it was until the thread is through.
LEMMA ThereStays ==
  ASSUME HeapInv, NEW t \in Thread, StepOf(t), NEW u \in Thread, u # t,
         pc[u] \in Walking \cup {"list_delete"}
  PROVE  /\ There(u)' = There(u) /\ live \subseteq live'
         /\ \A c \in live : keyOf'[c] = keyOf[c] /\ born'[c] = born[c]
<1> USE DEF HeapInv, TypeOK
<1>1. asked'[u] = asked[u] /\ (pc[u] \in Held => Quiet(t))
  BY OthersStay
<1>2. CASE Quiet(t) \/ ListInsert(t)
  <2>1. UNCHANGED <<keyOf, live, born>>
    BY <1>2, QuietHeap DEF ListInsert
  <2> QED  BY <1>1, <2>1 DEF There
<1>3. CASE HashInsert(t) \/ ListDelete(t) \/ HashDelete(t)
  <2>1. pc[u] \notin Held
    BY <1>3, Alone DEF HashInsert, ListDelete, HashDelete, At, Held
  <2>2. Shared /\ pc[u] = "search"
    BY <2>1 DEF Held, Walking
  <2>3. HashInsert(t)
    BY <1>3, <2>2 DEF ListDelete, HashDelete, At, Places
  <2>4. PICK c \in Cell \ live :
          /\ keyOf' = [keyOf EXCEPT ![c] = arg[t]]
          /\ live' = live \cup {c}
          /\ born' = [born EXCEPT ![c] = clock]
    BY <2>3 DEF HashInsert
  <2>5. asked[u] <= clock
    BY <2>2 DEF WalkPlace, Walking
  <2>6. \A d \in live : d # c /\ keyOf'[d] = keyOf[d] /\ born'[d] = born[d]
    BY <2>4
  <2>7. born'[c] = clock
    BY <2>4
  <2>8. There(u)' = There(u)
    BY <1>1, <2>4, <2>5, <2>6, <2>7 DEF There
  <2> QED  BY <2>4, <2>6, <2>8
<1> QED  BY <1>2, <1>3, StepKinds

LEMMA FirstItemStep ==
  ASSUME HeapInv, NEW t \in Thread, StepOf(t) PROVE FirstItem'
<1> USE DEF HeapInv, TypeOK
<1> SUFFICES ASSUME NEW u \in Thread, pc'[u] \in Walking, prev'[u] = NULL,
                    NEW c \in There(u)', SlotOf(c)' = Hash[arg'[u]]
             PROVE  at'[u] \in live'
  BY DEF FirstItem, Chain
<1>1. CASE u # t
  <2>1. pc[u] \in Walking /\ arg'[u] = arg[u] /\ prev'[u] = prev[u] /\ at'[u] = at[u]
    BY <1>1, OthersStay
  <2>2. /\ There(u)' = There(u) /\ live \subseteq live'
        /\ \A d \in live : keyOf'[d] = keyOf[d]
    BY <1>1, <2>1, ThereStays
  <2>3. c \in There(u) \cap Chain(Hash[arg[u]])
    BY <2>1, <2>2 DEF There, Chain, SlotOf
  <2> QED  BY <2>1, <2>2, <2>3 DEF FirstItem
<1>2. CASE u = t
  <2>1. CASE UNCHANGED <<pc, prev, at, arg, asked, live, born, keyOf>>
    BY <2>1, <1>2 DEF FirstItem, There, Chain, SlotOf
  <2>2. CASE at'[t] = SlotHead(arg'[t]) /\ UNCHANGED <<items, live, keyOf>>
    <3>1. c \in Chain(Hash[arg'[t]]) /\ arg'[t] \in Key
      BY <1>2, <2>2, TypeStep DEF There, Chain, SlotOf
    <3> QED  BY <1>2, <2>2, <3>1, TableAssumption DEF ChainsHold, IsNewest, SlotHead, Chain
  <2>3. CASE Walk(t)
    BY <2>3, <1>2, PointerAssumption DEF Walk
  <2>4. CASE \E k \in Key : Search(t, k)
    BY <2>4, <2>2 DEF Search, SlotHead, heap
  <2>5. CASE SearchFound(t) \/ ListDelete(t)
    BY <2>5, <1>2, <2>2 DEF SearchFound, ListDelete, At, Goto, Return, SlotHead, heap, Walking
  <2> QED
    BY <1>2, <2>3, <2>4, <2>5
    DEF StepOf, InsertLock, ScanLock, Looking, SearchNull, WalkOff, Inserting, HashInsert,
        ListInsert, Deleting, Find, HashDelete, Scanning, ScanNext, ScanEnd, At, Goto,
        Return, Walking, locals
<1> QED  BY <1>1, <1>2

LEMMA SharedWalkStep ==
  ASSUME HeapInv, NEW t \in Thread, StepOf(t) PROVE SharedWalk'
<1> USE DEF HeapInv, TypeOK
<1> SUFFICES ASSUME Shared PROVE SharedWalk'
  BY DEF SharedWalk
<1>1. Quiet(t) \/ HashInsert(t) \/ ListInsert(t)
  BY StepKinds DEF ListDelete, HashDelete, At, Places
<1>2. /\ \A s \in Slot : items'[s] \in Cell => items'[s] \in live'
      /\ \A c \in live' : next'[c] \in Cell => next'[c] \in live' /\ born'[next'[c]] < born'[c]
  <2>1. CASE Quiet(t) \/ ListInsert(t)
    <3>1. UNCHANGED <<items, next, live, born>>
      BY <2>1, QuietHeap DEF ListInsert
    <3> QED  BY <3>1 DEF SharedWalk
  <2>2. CASE HashInsert(t)
    <3>1. PICK c \in Cell \ live, w \in Junk :
            /\ next' = Link(c, arg[t], w)
            /\ items' = [items EXCEPT ![Hash[arg[t]]] = c]
            /\ live' = live \cup {c}
            /\ born' = [born EXCEPT ![c] = clock]
      BY <2>2 DEF HashInsert
    <3>2. w \notin Cell
      BY SharedAssumption
    <3>3. Hash[arg[t]] \in Slot
      BY TableAssumption
    <3>4. next'[c] \in Cell => next'[c] \in live
      BY <3>1, <3>2, <3>3 DEF Link, SlotHead, SharedWalk
    <3>5. \A d \in live : born[d] < clock /\ d # c /\ born'[d] = born[d] /\ next'[d] = next[d]
      BY <3>1 DEF Births, Link
    <3>6. born'[c] = clock
      BY <3>1
    <3>7. \A s \in Slot : items'[s] \in Cell => items'[s] \in live'
      BY <3>1, <3>3 DEF SharedWalk
    <3> QED  BY <3>1, <3>4, <3>5, <3>6, <3>7 DEF SharedWalk
  <2> QED  BY <1>1, <2>1, <2>2
<1>3. ASSUME NEW u \in Thread, pc'[u] = "search", at'[u] \in Cell PROVE at'[u] \in There(u)'
  <2>1. CASE u # t
    <3>1. pc[u] = "search" /\ at'[u] = at[u]
      BY <1>3, <2>1, OthersStay
    <3>2. There(u)' = There(u)
      BY <2>1, <3>1, ThereStays DEF Walking
    <3> QED  BY <1>3, <3>1, <3>2 DEF SharedWalk
  <2>2. CASE u = t
    <3>1. CASE \E k \in Key : Search(t, k)
      <4>1. PICK k \in Key : Search(t, k)
        BY <3>1
      <4>2. /\ at'[t] = items[Hash[k]] /\ asked'[t] = clock /\ UNCHANGED <<live, born>>
        BY <4>1 DEF Search, SlotHead, heap
      <4>3. at'[t] \in live
        BY <1>3, <2>2, <4>2, TableAssumption DEF SharedWalk
      <4> QED  BY <2>2, <4>2, <4>3 DEF There, Births
    <3>2. CASE Walk(t)
      <4>1. /\ pc[t] = "search" /\ at[t] \in live /\ at'[t] = next[at[t]]
            /\ UNCHANGED <<asked, live, born>>
        BY <1>3, <2>2, <3>2 DEF Walk, heap, history
      <4>2. at[t] \in There(t)
        BY <4>1 DEF SharedWalk
      <4>3. next[at[t]] \in live /\ born[next[at[t]]] < born[at[t]]
        BY <1>3, <2>2, <4>1 DEF SharedWalk
      <4> QED  BY <2>2, <4>1, <4>2, <4>3 DEF There
    <3> QED
      BY <1>3, <2>2, <3>1, <3>2
      DEF StepOf, InsertLock, ScanLock, Looking, SearchNull, WalkOff, SearchFound,
          Inserting, HashInsert, ListInsert, Deleting, Find, ListDelete, HashDelete,
          Scanning, ScanNext, ScanEnd, At, Goto, Return, locals
  <2> QED  BY <2>1, <2>2
<1> QED  BY <1>2, <1>3 DEF SharedWalk

-----------------------------------------------------------------------------
LEMMA HeapInit == Init => HeapInv
<1> SUFFICES ASSUME Init PROVE HeapInv
  OBVIOUS
<1> USE PointerAssumption, TableAssumption, NoKeyIsKey DEF Init
<1>1. TypeOK
  BY DEF TypeOK, Pointer, Labels
<1>2. Places /\ InHand /\ WalkPlace /\ PrevPlace /\ ScanPlace
  BY DEF Places, Held, InHand, WalkPlace, Walking, PrevPlace, ScanPlace
<1>3. Births /\ ChainsHold /\ ListHolds
  BY DEF Births, ChainsHold, Chain, ListHolds, Listed, IsNewest
<1>4. FirstItem /\ SharedWalk
  BY DEF FirstItem, SharedWalk, Walking
<1> QED  BY <1>1, <1>2, <1>3, <1>4 DEF HeapInv

LEMMA HeapStep == HeapInv /\ [Next]_vars => HeapInv'
<1> SUFFICES ASSUME HeapInv, [Next]_vars PROVE HeapInv'
  OBVIOUS
<1>1. CASE Next
  <2>1. PICK t \in Thread : StepOf(t)
    BY <1>1 DEF Next, StepOf
  <2> QED
    BY <2>1, TypeStep, PlacesStep, BirthsStep, InHandStep, ChainsStep, WalkPlaceStep,
       PrevPlaceStep, ListStep, ScanPlaceStep, FirstItemStep, SharedWalkStep DEF HeapInv
<1>2. CASE UNCHANGED vars
  BY <1>2 DEF vars, heap, locals, history, HeapInv, TypeOK, Places, Births, InHand, Under,
      ChainsHold, IsNewest, Chain, Before, SlotOf, WalkPlace, Hits, PrevPlace, SlotHead,
      ListHolds, Listed, ListedBefore, Unlisted, ScanPlace, FirstItem, There, SharedWalk
<1> QED  BY <1>1, <1>2

\* The inductive invariant: chains and list hold, and every thread's pointers
\* are where its walk, its deletion or its scan needs them (hashtable.c, dll.c).
THEOREM HeapInvariant == Spec => []HeapInv
BY HeapInit, HeapStep, PTL DEF Spec

\* Every variable keeps its type; the two pointers of a list item always lead to
\* an entry or the anchor (dll_insert and dll_delete).
THEOREM TableTypes == Spec => []TypeOK
BY HeapInvariant, PTL DEF HeapInv

\* Every entry of a slot stays reachable from its head, for any number of
\* entries and threads (hashtable_insert and hashtable_delete).
THEOREM ChainsAlwaysHold == Spec => []ChainsHold
BY HeapInvariant, PTL DEF HeapInv

\* The list is the entries, newest first and backwards, outside the two calls
\* that change hash table and list one after the other (dll.c).
THEOREM ListAlwaysHolds == Spec => []ListHolds
BY HeapInvariant, PTL DEF HeapInv

\* A search finds an entry that was there when it began, with the mutex or
\* without it (hashtable_search, bpd_bundle_list_add_bundle).
THEOREM SearchesMissNothing == Spec => []SearchMissesNothing
<1>1. HeapInv => SearchMissesNothing
  <2> SUFFICES ASSUME HeapInv, NEW t \in Thread, pc[t] \in Walking, Hits(t) # {}
               PROVE  at[t] \in live /\ \A c \in Hits(t) : born[c] <= born[at[t]]
    BY DEF SearchMissesNothing, Hits, Under
  <2> QED  BY DEF HeapInv, WalkPlace, Chain
<1> QED  BY <1>1, HeapInvariant, PTL

-----------------------------------------------------------------------------
(***************************************************************************)
(* The pointers implement the collection.                                  *)
(***************************************************************************)
Entries == {EntryOf(c) : c \in live}
WildSlots == {s \in Slot : Chain(s) = {} /\ items[s] # NULL}
Calls == [t \in Thread |-> Doing(t)]

LEMMA DoingIs ==
  ASSUME NEW t \in Thread
  PROVE  /\ pc[t] \in Walking \cup {"list_delete"} => Doing(t) = Searching(t)
         /\ pc[t] = "insert" \/ (Shared /\ pc[t] = "hash_insert") =>
               Doing(t) = [op |-> "missed", key |-> arg[t]]
         /\ pc[t] = "scan" =>
               Doing(t) = [op |-> "scan", cursor |-> IF at[t] = Anchor THEN clock
                                                    ELSE born[at[t]]]
         /\ pc[t] = "fault" => Doing(t) = [op |-> "fault"]
         /\ pc[t] = "idle" \/ pc[t] = "list_insert" \/ (~Shared /\ pc[t] = "hash_insert") =>
               Doing(t) = [op |-> "idle"]
<1>1. ASSUME pc[t] \in Walking \cup {"list_delete"} PROVE Doing(t) = Searching(t)
  BY <1>1 DEF Doing, Walking
<1>2. ASSUME pc[t] = "insert" \/ (Shared /\ pc[t] = "hash_insert")
      PROVE  Doing(t) = [op |-> "missed", key |-> arg[t]]
  BY <1>2 DEF Doing, Walking
<1>3. ASSUME pc[t] = "scan"
      PROVE  Doing(t) = [op |-> "scan", cursor |-> IF at[t] = Anchor THEN clock
                                                  ELSE born[at[t]]]
  BY <1>3 DEF Doing, Walking
<1>4. ASSUME pc[t] = "fault" PROVE Doing(t) = [op |-> "fault"]
  BY <1>4 DEF Doing, Walking
<1>5. ASSUME pc[t] = "idle" \/ pc[t] = "list_insert" \/ (~Shared /\ pc[t] = "hash_insert")
      PROVE  Doing(t) = [op |-> "idle"]
  BY <1>5 DEF Doing, Walking
<1> QED  BY <1>1, <1>2, <1>3, <1>4, <1>5

\* A step of one thread is none of another's to the collection.
LEMMA DoingStays ==
  ASSUME HeapInv, NEW t \in Thread, StepOf(t), NEW u \in Thread, u # t
  PROVE  Doing(u)' = Doing(u)
<1> USE DEF HeapInv, TypeOK
<1>1. /\ pc'[u] = pc[u] /\ arg'[u] = arg[u] /\ at'[u] = at[u] /\ prev'[u] = prev[u]
      /\ pc[u] \in Held => Quiet(t)
  BY OthersStay
<1>2. CASE pc[u] \in Walking \cup {"list_delete"}
  <2>1. /\ There(u)' = There(u)
        /\ \A c \in There(u) : c \in live /\ keyOf'[c] = keyOf[c] /\ born'[c] = born[c]
    BY <1>2, ThereStays DEF There
  <2>2. {d \in There(u) : keyOf[d] = arg[u]}' = {d \in There(u) : keyOf[d] = arg[u]}
    BY <1>1, <2>1
  <2>3. \A c \in There(u) : EntryOf(c)' = EntryOf(c) /\ SlotOf(c)' = SlotOf(c)
    BY <2>1 DEF EntryOf, SlotOf
  <2>4. {EntryOf(c) : c \in {d \in There(u) : keyOf[d] = arg[u]}}'
            = {EntryOf(c) : c \in {d \in There(u) : keyOf[d] = arg[u]}}
    BY <2>2, <2>3
  <2>5. SafeMiss(u)' = SafeMiss(u)
    <3>1. {c \in There(u) : SlotOf(c) = Hash[arg[u]]}' = {c \in There(u) : SlotOf(c) = Hash[arg[u]]}
      BY <1>1, <2>1, <2>3
    <3> QED  BY <1>1, <3>1 DEF SafeMiss
  <2>6. Searching(u)' = Searching(u)
    BY <1>1, <2>4, <2>5, Zenon DEF Searching
  <2> QED  BY <1>1, <1>2, <2>6 DEF Doing
<1>3. CASE pc[u] = "scan"
  <2>1. UNCHANGED <<clock, born>>
    BY <1>1, <1>3, QuietHeap DEF Held
  <2> QED  BY <1>1, <1>3, <2>1 DEF Doing, Walking
<1>4. CASE pc[u] \notin Walking \cup {"list_delete", "scan"}
  BY <1>1, <1>4 DEF Doing
<1> QED  BY <1>2, <1>3, <1>4

LEMMA CallsStep ==
  ASSUME HeapInv, NEW t \in Thread, StepOf(t)
  PROVE  Calls' = [Calls EXCEPT ![t] = Doing(t)']
<1>1. \A u \in Thread : u # t => Doing(u)' = Doing(u)
  BY DoingStays
<1> QED  BY <1>1 DEF Calls

LEMMA QuietCollection ==
  ASSUME NEW t \in Thread, Quiet(t)
  PROVE  Entries' = Entries /\ WildSlots' = WildSlots /\ clock' = clock
BY QuietHeap DEF Entries, EntryOf, WildSlots, Chain, SlotOf

\* Entries are told apart by the time they were inserted.
LEMMA EntriesApart ==
  ASSUME HeapInv
  PROVE  /\ \A c, d \in live : EntryOf(c) = EntryOf(d) => c = d
         /\ \A c \in live : EntryOf(c).key = keyOf[c] /\ EntryOf(c).born = born[c]
BY DEF HeapInv, Births, EntryOf

\* The newest of some entries, in the collection and in the heap.
LEMMA NewestEntry ==
  ASSUME HeapInv, NEW H \in SUBSET live, NEW c \in H, \A d \in H : born[d] <= born[c]
  PROVE  Abstract!Newest({EntryOf(d) : d \in H}) = EntryOf(c)
<1> DEFINE E == {EntryOf(d) : d \in H}
           P(e) == \A f \in E : f.born <= e.born
<1>1. \A d \in H : /\ EntryOf(d).born = born[d] /\ born[d] \in Nat
                   /\ born[d] = born[c] => d = c
  BY EntriesApart DEF HeapInv, TypeOK, Births
<1>2. EntryOf(c) \in E
  OBVIOUS
<1>3. P(EntryOf(c))
  <2> SUFFICES ASSUME NEW f \in E PROVE f.born <= EntryOf(c).born
    OBVIOUS
  <2>1. PICK d \in H : f = EntryOf(d)
    OBVIOUS
  <2>2. f.born = born[d] /\ EntryOf(c).born = born[c]
    BY <1>1, <2>1
  <2> QED  BY <1>1, <2>2
<1>4. ASSUME NEW e \in E, P(e) PROVE e = EntryOf(c)
  <2>1. PICK d \in H : e = EntryOf(d)
    OBVIOUS
  <2>2. EntryOf(c).born <= e.born
    BY <1>2, <1>4
  <2>3. e.born = born[d] /\ EntryOf(c).born = born[c]
    BY <1>1, <2>1
  <2>4. born[d] = born[c]
    BY <1>1, <2>2, <2>3
  <2> QED  BY <1>1, <2>1, <2>4
<1> HIDE DEF E
<1>5. (CHOOSE e \in E : P(e)) = EntryOf(c)
  BY <1>2, <1>3, <1>4
<1> QED  BY <1>5 DEF E, Abstract!Newest

\* A step that leaves the entries alone and changes what one thread is doing.
LEMMA Stutters ==
  ASSUME HeapInv, NEW t \in Thread, StepOf(t), Doing(t)' = Doing(t),
         Entries' = Entries, WildSlots' = WildSlots, clock' = clock
  PROVE  UNCHANGED Abstract!vars
<1>1. Calls' = Calls
  BY CallsStep DEF Calls
<1> QED  BY <1>1 DEF Abstract!vars, Entries, WildSlots, Calls

\* While a thread has the mutex to find and delete, all it may find was there.
LEMMA HitCells ==
  ASSUME HeapInv, NEW t \in Thread
  PROVE  /\ {d \in There(t) : keyOf[d] = arg[t]} = Hits(t)
         /\ ~Shared /\ pc[t] \in Walking \cup {"list_delete"} =>
              There(t) = live /\ Hits(t) = Under(arg[t])
BY DEF HeapInv, TypeOK, WalkPlace, Births, There, Hits, Under

LEMMA UnderEntries ==
  ASSUME HeapInv, NEW k PROVE Abstract!Under(k) = {EntryOf(c) : c \in Under(k)}
BY EntriesApart DEF Abstract!Under, Under

LEMMA SearchRefines ==
  ASSUME HeapInv, NEW t \in Thread, NEW k \in Key, Search(t, k) PROVE Abstract!Ask(t, k)
<1> USE DEF HeapInv, TypeOK
<1>1. /\ pc[t] = "idle" /\ pc'[t] = "search" /\ arg'[t] = k /\ at'[t] = items[Hash[k]]
      /\ prev'[t] = NULL /\ asked'[t] = clock
      /\ UNCHANGED <<items, keyOf, live, born, clock>>
  BY DEF Search, At, Goto, SlotHead, heap
<1>2. Doing(t) = [op |-> "idle"] /\ Doing(t)' = Searching(t)'
  BY <1>1, DoingIs DEF Doing, Walking
<1>3. There(t)' = live
  BY <1>1 DEF There, Births
<1>4. {EntryOf(c) : c \in {d \in There(t) : keyOf[d] = arg[t]}}' = Abstract!Under(k)
  BY <1>1, <1>3, UnderEntries DEF EntryOf, Under
<1>5. Hash[k] \in Slot
  BY TableAssumption
<1>6. Abstract!In(Hash[k]) = {} <=> Chain(Hash[k]) = {}
  BY EntriesApart DEF Abstract!In, Chain, SlotOf
<1>7. SafeMiss(t)' = Abstract!SearchReturnsNull(Hash[k])
  <2>1. SafeMiss(t)' = (Chain(Hash[k]) = {} /\ items[Hash[k]] = NULL)
    BY <1>1, <1>3 DEF SafeMiss, Chain, SlotOf
  <2> QED  BY <1>5, <1>6, <2>1 DEF Abstract!SearchReturnsNull
<1>8. Searching(t)' = [op |-> "search", key |-> k, hits |-> Abstract!Under(k),
                       safe |-> Abstract!SearchReturnsNull(Hash[k])]
  BY <1>1, <1>4, <1>7, Zenon DEF Searching
<1>9. StepOf(t) /\ Quiet(t)
  BY DEF StepOf, Quiet
<1>10. Entries' = Entries /\ WildSlots' = WildSlots
  BY <1>9, QuietCollection
<1>11. Calls' = [Calls EXCEPT ![t] = Searching(t)'] /\ Calls[t] = Doing(t)
  BY <1>2, <1>9, CallsStep DEF Calls
<1> QED
  BY <1>1, <1>2, <1>8, <1>10, <1>11 DEF Abstract!Ask, Abstract!Idle, Entries, WildSlots, Calls

\* A search comes to an empty slot only if there was no entry in it.
LEMMA MissRefines ==
  ASSUME HeapInv, NEW t \in Thread, SearchNull(t) PROVE Abstract!Miss(t)
<1> USE PointerAssumption DEF HeapInv, TypeOK
<1>1. pc[t] = "search" /\ at[t] = NULL /\ prev[t] = NULL
  BY DEF SearchNull, At
<1>2. Doing(t) = Searching(t)
  BY <1>1, DoingIs DEF Walking
<1>3. at[t] \notin live
  BY <1>1
<1>4. {d \in There(t) : keyOf[d] = arg[t]} = {}
  BY <1>1, <1>3, HitCells DEF WalkPlace, Walking, Chain
<1>5. SafeMiss(t)
  BY <1>1, <1>3 DEF FirstItem, SafeMiss, Walking, There, Chain
<1>6. Searching(t).op = "search" /\ Searching(t).key = arg[t]
      /\ Searching(t).hits = {} /\ Searching(t).safe
  BY <1>4, <1>5 DEF Searching
<1>7. Doing(t)' = IF Shared THEN [op |-> "missed", key |-> arg[t]] ELSE [op |-> "idle"]
  <2>1. CASE Shared
    <3>1. pc'[t] = "insert" /\ arg' = arg
      BY <2>1 DEF SearchNull, Goto, locals
    <3> QED  BY <2>1, <3>1 DEF Doing, Walking
  <2>2. CASE ~Shared
    <3>1. pc'[t] = "idle"
      BY <2>2 DEF SearchNull, Return, Goto
    <3> QED  BY <2>2, <3>1 DEF Doing, Walking
  <2> QED  BY <2>1, <2>2
<1>8. StepOf(t) /\ Quiet(t)
  BY DEF StepOf, Quiet, Looking
<1>9. Entries' = Entries /\ WildSlots' = WildSlots /\ clock' = clock
  BY <1>8, QuietCollection
<1>10. Calls' = [Calls EXCEPT ![t] = Doing(t)'] /\ Calls[t] = Searching(t)
  BY <1>2, <1>8, CallsStep DEF Calls
<1> QED
  BY <1>6, <1>7, <1>9, <1>10
  DEF Abstract!Miss, Abstract!Asking, Abstract!Idle, Entries, WildSlots, Calls

\* A replica is recognised only by an entry that was there when it was asked for.
LEMMA HitRefines ==
  ASSUME HeapInv, NEW t \in Thread, SearchFound(t), Shared PROVE Abstract!Hit(t)
<1> USE DEF HeapInv, TypeOK
<1>1. /\ pc[t] = "search" /\ at[t] \in live /\ keyOf[at[t]] = arg[t] /\ pc'[t] = "idle"
  BY DEF SearchFound, At, Matches, Return, Goto
<1>2. Doing(t) = Searching(t) /\ Doing(t)' = [op |-> "idle"]
  BY <1>1, DoingIs DEF Doing, Walking
<1>3. at[t] \in {d \in There(t) : keyOf[d] = arg[t]}
  BY <1>1 DEF SharedWalk
<1>4. Searching(t).op = "search" /\ Searching(t).hits # {}
  BY <1>3 DEF Searching
<1>5. StepOf(t) /\ Quiet(t)
  BY DEF StepOf, Quiet, Looking
<1>6. Entries' = Entries /\ WildSlots' = WildSlots /\ clock' = clock
  BY <1>5, QuietCollection
<1>7. Calls' = [Calls EXCEPT ![t] = Doing(t)'] /\ Calls[t] = Searching(t)
  BY <1>2, <1>5, CallsStep DEF Calls
<1> QED
  BY <1>2, <1>4, <1>6, <1>7
  DEF Abstract!Hit, Abstract!Asking, Abstract!Idle, Entries, WildSlots, Calls

\* A search runs off its chain only where no entry had its key and the slot was
\* not known to be empty.
LEMMA BreakRefines ==
  ASSUME HeapInv, NEW t \in Thread, WalkOff(t) PROVE Abstract!Break(t)
<1> USE DEF HeapInv, TypeOK
<1>1. /\ pc[t] \in Walking /\ at[t] \notin live /\ pc'[t] = "fault"
      /\ pc[t] = "search" => at[t] # NULL \/ prev[t] # NULL
  BY DEF WalkOff, At, Goto, Walking
<1>2. Doing(t) = Searching(t) /\ Doing(t)' = [op |-> "fault"]
  BY <1>1, DoingIs DEF Doing, Walking
<1>3. Hits(t) = {}
  BY <1>1 DEF WalkPlace, Chain
<1>4. pc[t] = "search"
  BY <1>1, <1>3 DEF WalkPlace, Walking
<1>5. ~SafeMiss(t)
  BY <1>1, <1>4 DEF SafeMiss
<1>6. Searching(t).op = "search" /\ Searching(t).hits = {} /\ ~Searching(t).safe
  BY <1>3, <1>5, HitCells DEF Searching
<1>7. StepOf(t) /\ Quiet(t)
  BY DEF StepOf, Quiet, Looking
<1>8. Entries' = Entries /\ WildSlots' = WildSlots /\ clock' = clock
  BY <1>7, QuietCollection
<1>9. Calls' = [Calls EXCEPT ![t] = Doing(t)'] /\ Calls[t] = Searching(t)
  BY <1>2, <1>7, CallsStep DEF Calls
<1> QED
  BY <1>2, <1>6, <1>8, <1>9
  DEF Abstract!Break, Abstract!Asking, Entries, WildSlots, Calls

\* A walk, and what the daemon does again with the mutex, is one search.
LEMMA WalkStutters ==
  ASSUME HeapInv, NEW t \in Thread,
         Walk(t) \/ Find(t) \/ ListDelete(t) \/ (~Shared /\ SearchFound(t))
  PROVE  UNCHANGED Abstract!vars
<1> USE PointerAssumption DEF HeapInv, TypeOK
<1>1. /\ pc[t] \in Walking \cup {"list_delete"} /\ pc'[t] \in Walking \cup {"list_delete"}
      /\ UNCHANGED <<items, keyOf, live, born, clock>> /\ arg'[t] = arg[t]
      /\ asked'[t] = asked[t]
  BY DEF Walk, Find, ListDelete, SearchFound, At, Goto, Walking, heap, history
<1>2. {EntryOf(c) : c \in {d \in There(t) : keyOf[d] = arg[t]}}'
         = {EntryOf(c) : c \in {d \in There(t) : keyOf[d] = arg[t]}}
  BY <1>1 DEF EntryOf, There
<1>4. SafeMiss(t)' = SafeMiss(t)
  <2>1. CASE Walk(t)
    <3>1. at[t] \in live /\ prev'[t] = at[t]
      BY <2>1 DEF Walk
    <3> QED  BY <3>1 DEF SafeMiss
  <2>2. CASE Find(t)
    BY <2>2 DEF Find, SafeMiss, There, SlotOf, heap, history
  <2>3. CASE ListDelete(t) \/ (~Shared /\ SearchFound(t))
    <3>1. ~Shared
      BY <2>3 DEF ListDelete, At, Places
    <3>2. Under(arg[t]) # {}
      BY <2>3 DEF ListDelete, SearchFound, At, Matches, InHand, IsNewest, Under
    <3>4. There(t) = live /\ There(t)' = live
      BY <1>1, <3>1, HitCells DEF There
    <3>5. PICK c \in live : keyOf[c] = arg[t]
      BY <3>2 DEF Under
    <3> QED  BY <1>1, <3>4, <3>5 DEF SafeMiss, SlotOf
  <2> QED  BY <2>1, <2>2, <2>3
<1>5. Searching(t)' = Searching(t)
  BY <1>1, <1>2, <1>4, Zenon DEF Searching
<1>6. Doing(t)' = Doing(t)
  BY <1>1, <1>5 DEF Doing, Walking
<1>7. StepOf(t)
  BY DEF StepOf, Looking, Deleting
<1>8. Entries' = Entries /\ WildSlots' = WildSlots
  BY <1>1 DEF Entries, EntryOf, WildSlots, Chain, SlotOf
<1> QED  BY <1>1, <1>6, <1>7, <1>8, Stutters

\* What an insertion does under the mutex before and after it has its entry.
LEMMA InsertStutters ==
  ASSUME HeapInv, NEW t \in Thread,
         (\E k \in Key : InsertLock(t, k)) \/ ListInsert(t)
  PROVE  UNCHANGED Abstract!vars
<1> USE DEF HeapInv, TypeOK
<1>1. UNCHANGED <<items, keyOf, live, born, clock>> /\ StepOf(t)
  BY DEF InsertLock, ListInsert, StepOf, Inserting, heap, history
<1>2. Doing(t)' = Doing(t)
  <2>1. CASE \E k \in Key : InsertLock(t, k)
    <3>1. /\ pc[t] = IF Shared THEN "insert" ELSE "idle"
          /\ pc'[t] = "hash_insert" /\ (Shared => arg'[t] = arg[t])
      BY <2>1 DEF InsertLock, At, Goto
    <3> QED  BY <3>1, TableAssumption DEF Doing, Walking
  <2>2. CASE ListInsert(t)
    <3>1. pc[t] = "list_insert" /\ pc'[t] = "idle"
      BY <2>2 DEF ListInsert, At, Return, Goto
    <3> QED  BY <3>1 DEF Doing, Walking
  <2> QED  BY <2>1, <2>2
<1>3. Entries' = Entries /\ WildSlots' = WildSlots
  BY <1>1 DEF Entries, EntryOf, WildSlots, Chain, SlotOf
<1> QED  BY <1>1, <1>2, <1>3, Stutters

LEMMA InsertRefines ==
  ASSUME HeapInv, NEW t \in Thread, HashInsert(t)
  PROVE  \E k \in Key : Abstract!Insert(t, k)
<1> USE DEF HeapInv, TypeOK
<1>. PICK k \in Key : k = arg[t]
  OBVIOUS
<1>1. PICK c \in Cell \ live :
        /\ keyOf' = [keyOf EXCEPT ![c] = k]
        /\ items' = [items EXCEPT ![Hash[k]] = c]
        /\ live' = live \cup {c}
        /\ born' = [born EXCEPT ![c] = clock]
  BY DEF HashInsert
<1>2. pc[t] = "hash_insert" /\ pc'[t] = "list_insert" /\ clock' = clock + 1
  BY DEF HashInsert, At, Goto
<1>3. Doing(t) = IF Shared THEN [op |-> "missed", key |-> k] ELSE [op |-> "idle"]
  BY <1>2, TableAssumption DEF Doing, Walking
<1>4. Doing(t)' = [op |-> "idle"]
  BY <1>2 DEF Doing, Walking
<1>5. /\ \A d \in live : d # c /\ keyOf'[d] = keyOf[d] /\ born'[d] = born[d]
      /\ keyOf'[c] = k /\ born'[c] = clock
  BY <1>1
<1>6. Entries' = Entries \cup {[key |-> k, born |-> clock]}
  <2>1. EntryOf(c)' = [key |-> k, born |-> clock] /\ \A d \in live : EntryOf(d)' = EntryOf(d)
    BY <1>5 DEF EntryOf
  <2> QED  BY <1>1, <2>1 DEF Entries
<1>7. WildSlots' = WildSlots \ {Hash[k]}
  <2>1. \A s \in Slot : Chain(s)' = IF s = Hash[k] THEN Chain(s) \cup {c} ELSE Chain(s)
    BY <1>1, <1>5 DEF Chain, SlotOf
  <2>2. \A s \in Slot : s # Hash[k] => items'[s] = items[s]
    BY <1>1
  <2> QED  BY <2>1, <2>2 DEF WildSlots
<1>8. Calls' = [Calls EXCEPT ![t] = Doing(t)'] /\ Calls[t] = Doing(t)
  BY CallsStep DEF Calls, StepOf, Inserting
<1>9. Abstract!Insert(t, k)
  BY <1>2, <1>3, <1>4, <1>6, <1>7, <1>8 DEF Abstract!Insert, Abstract!Idle, Entries, WildSlots, Calls
<1> QED  BY <1>9

\* What goes is the newest entry under its key.
LEMMA DeleteRefines ==
  ASSUME HeapInv, NEW t \in Thread, HashDelete(t) PROVE Abstract!Delete(t)
<1> USE DEF HeapInv, TypeOK
<1>. PICK s \in Slot : s = Hash[arg[t]]
  BY TableAssumption
<1>. PICK c : c = at[t]
  OBVIOUS
<1>1. pc[t] = "remove" /\ c \in live /\ keyOf[c] = arg[t] /\ pc'[t] = "idle" /\ ~Shared
  BY DEF HashDelete, At, Matches, Return, Goto, Places
<1>2. keyOf' = keyOf /\ born' = born /\ clock' = clock /\ live' = live \ {c}
  BY DEF HashDelete
<1>3. Doing(t) = Searching(t) /\ Doing(t)' = [op |-> "idle"]
  BY <1>1, DoingIs DEF Doing, Walking
<1>4. c \in Under(arg[t]) /\ \A d \in Under(arg[t]) : born[d] <= born[c]
  BY <1>1, SameItem DEF InHand, IsNewest
<1>5. Abstract!Newest(Abstract!Under(arg[t])) = EntryOf(c)
  <2>1. Under(arg[t]) \in SUBSET live
    BY DEF Under
  <2> QED  BY <1>4, <2>1, NewestEntry, UnderEntries
<1>6. {d \in There(t) : keyOf[d] = arg[t]} = Under(arg[t])
  BY <1>1, HitCells DEF Walking
<1>7. /\ Searching(t).op = "search" /\ Searching(t).key = arg[t]
      /\ Searching(t).hits # {}
  BY <1>4, <1>6 DEF Searching
<1>8. Entries' = Entries \ {EntryOf(c)}
  <2>1. \A d \in live : EntryOf(d)' = EntryOf(d) /\ (EntryOf(d) = EntryOf(c) => d = c)
    BY <1>1, <1>2, EntriesApart DEF EntryOf
  <2> QED  BY <1>2, <2>1 DEF Entries
<1>9. \A e \in Entries' : \E d \in live' : e = EntryOf(d) /\ e.key = keyOf[d]
  BY <1>2 DEF Entries, EntryOf
<1>10. \A d \in live' : EntryOf(d) \in Entries' /\ EntryOf(d).key = keyOf[d]
  BY <1>2 DEF Entries, EntryOf
<1>11. /\ s \in Slot /\ c \in Chain(s)
       /\ \A r \in Slot : Chain(r)' = Chain(r) \ {c}
       /\ \A r \in Slot : r # s => c \notin Chain(r) /\ items'[r] = items[r]
  <2>1. s \in Slot /\ c \in Chain(s)
    BY <1>1, TableAssumption DEF Chain, SlotOf
  <2>2. \A r \in Slot : r # s => c \notin Chain(r) /\ items'[r] = items[r]
    BY <1>1 DEF HashDelete, Unlink, Chain, SlotOf
  <2>3. \A r \in Slot : Chain(r)' = Chain(r) \ {c}
    BY <1>2 DEF Chain, SlotOf
  <2> QED  BY <2>1, <2>2, <2>3
<1>12. (\E e \in Entries' : Hash[e.key] = s) <=> Chain(s)' # {}
  <2>1. (\E e \in Entries' : Hash[e.key] = s) <=> \E d \in live' : Hash[keyOf[d]] = s
    BY <1>9, <1>10
  <2> QED  BY <1>2, <2>1 DEF Chain, SlotOf
<1>13. IF Chain(s)' # {} THEN WildSlots' = WildSlots
                         ELSE WildSlots' \in {WildSlots, WildSlots \cup {s}}
  <2>1. s \notin WildSlots /\ \A r \in Slot : r # s => (r \in WildSlots' <=> r \in WildSlots)
    BY <1>11 DEF WildSlots
  <2>2. WildSlots \subseteq Slot /\ WildSlots' \subseteq Slot /\ (Chain(s)' # {} => s \notin WildSlots')
    BY DEF WildSlots
  <2>3. CASE s \in WildSlots'
    BY <2>1, <2>2, <2>3
  <2>4. CASE s \notin WildSlots'
    <3>1. \A r : r \in WildSlots' <=> r \in WildSlots
      BY <2>1, <2>2, <2>4
    <3>2. WildSlots' = WildSlots
      BY <3>1
    <3> QED  BY <3>2
  <2> QED  BY <2>3, <2>4
<1>14. Calls' = [Calls EXCEPT ![t] = Doing(t)'] /\ Calls[t] = Searching(t)
  BY <1>3, CallsStep DEF Calls, StepOf, Deleting
<1>15. Entries' = Entries \ {Abstract!Newest(Abstract!Under(Calls[t].key))}
  BY <1>5, <1>7, <1>8, <1>14
<1>16. IF \E e \in Entries' : Hash[e.key] = Hash[Calls[t].key] THEN WildSlots' = WildSlots
       ELSE WildSlots' \in {WildSlots, WildSlots \cup {Hash[Calls[t].key]}}
  BY <1>7, <1>12, <1>13, <1>14
<1> QED
  BY <1>1, <1>2, <1>3, <1>7, <1>14, <1>15, <1>16
  DEF Abstract!Delete, Abstract!Asking, Abstract!Idle, Entries, WildSlots, Calls

-----------------------------------------------------------------------------
\* While a thread scans, the list has every entry.
LEMMA ScanSees ==
  ASSUME HeapInv, NEW t \in Thread, pc[t] = "scan" PROVE Listed = live /\ ~Shared
<1>1. \A u \in Thread : pc[u] \notin {"list_insert", "remove"}
  BY Alone DEF Held
<1> QED  BY <1>1 DEF Listed, Unlisted, HeapInv, Places

LEMMA ScanLockRefines ==
  ASSUME HeapInv, NEW t \in Thread, ScanLock(t) PROVE Abstract!StartScan(t)
<1> USE DEF HeapInv, TypeOK
<1>1. pc[t] = "idle" /\ pc'[t] = "scan" /\ at'[t] = Anchor /\ ~Shared
  BY DEF ScanLock, At, Goto
<1>2. StepOf(t) /\ Quiet(t)
  BY DEF StepOf, Quiet
<1>3. Entries' = Entries /\ WildSlots' = WildSlots /\ clock' = clock
  BY <1>2, QuietCollection
<1>4. Doing(t) = [op |-> "idle"] /\ Doing(t)' = [op |-> "scan", cursor |-> clock]
  BY <1>1, <1>3 DEF Doing, Walking
<1>5. Calls' = [Calls EXCEPT ![t] = Doing(t)'] /\ Calls[t] = Doing(t)
  BY <1>2, CallsStep DEF Calls
<1> QED
  BY <1>1, <1>3, <1>4, <1>5 DEF Abstract!StartScan, Abstract!Idle, Entries, WildSlots, Calls

\* The entries a scan has not been at are those behind its place in the list.
Cursor(t) == IF at[t] = Anchor THEN clock ELSE born[at[t]]
Ahead(t) == {c \in live : born[c] < Cursor(t)}

LEMMA AheadInList ==
  ASSUME HeapInv, NEW t \in Thread, pc[t] = "scan"
  PROVE  /\ Doing(t) = [op |-> "scan", cursor |-> Cursor(t)]
         /\ Abstract!Older(Cursor(t)) = {EntryOf(c) : c \in Ahead(t)}
         /\ IF Ahead(t) = {} THEN right[at[t]] = Anchor
            ELSE IsNewest(right[at[t]], Ahead(t))
<1> USE DEF HeapInv, TypeOK
<1>1. Doing(t) = [op |-> "scan", cursor |-> Cursor(t)]
  BY DEF Doing, Cursor, Walking
<1>2. Abstract!Older(Cursor(t)) = {EntryOf(c) : c \in Ahead(t)}
  BY EntriesApart DEF Abstract!Older, Ahead
<1>3. CASE at[t] = Anchor
  <2>1. Ahead(t) = Listed
    BY <1>3, ScanSees DEF Ahead, Cursor, Births
  <2> QED  BY <1>1, <1>2, <1>3, <2>1 DEF ListHolds
<1>4. CASE at[t] # Anchor
  <2>1. at[t] \in Listed /\ Ahead(t) = ListedBefore(at[t])
    BY <1>4, ScanSees DEF Ahead, Cursor, ListedBefore, ScanPlace
  <2> QED  BY <1>1, <1>2, <1>4, <2>1 DEF ListHolds
<1> QED  BY <1>3, <1>4

LEMMA ScanNextRefines ==
  ASSUME HeapInv, NEW t \in Thread, ScanNext(t) PROVE Abstract!Visit(t)
<1> USE PointerAssumption DEF HeapInv, TypeOK
<1> DEFINE c == right[at[t]]
<1>1. pc[t] = "scan" /\ pc'[t] = "scan" /\ c # Anchor /\ at'[t] = c
  BY DEF ScanNext, At
<1>2. IsNewest(c, Ahead(t)) /\ Ahead(t) \in SUBSET live
  BY <1>1, AheadInList DEF Ahead
<1>3. Abstract!Newest(Abstract!Older(Cursor(t))) = EntryOf(c)
  BY <1>1, <1>2, AheadInList, NewestEntry DEF IsNewest
<1>4. Abstract!Older(Cursor(t)) # {} /\ EntryOf(c).born = born[c]
  <2>1. c \in Ahead(t) /\ c \in live
    BY <1>2 DEF IsNewest
  <2>2. EntryOf(c) \in {EntryOf(d) : d \in Ahead(t)} /\ EntryOf(c).born = born[c]
    BY <2>1, EntriesApart
  <2> QED  BY <1>1, <2>2, AheadInList
<1>5. StepOf(t) /\ Quiet(t)
  BY DEF StepOf, Quiet, Scanning
<1>6. Entries' = Entries /\ WildSlots' = WildSlots /\ clock' = clock /\ born' = born
  BY <1>5, QuietCollection, QuietHeap
<1>7. Doing(t)' = [op |-> "scan", cursor |-> born[c]]
  BY <1>1, <1>6 DEF Doing, Walking
<1>8. Doing(t) = [op |-> "scan", cursor |-> Cursor(t)]
  BY <1>1, AheadInList
<1>9. Doing(t)' = [Doing(t) EXCEPT !.cursor = Abstract!Newest(Abstract!Older(Cursor(t))).born]
  BY <1>3, <1>4, <1>7, <1>8
<1>10. Calls' = [Calls EXCEPT ![t] = Doing(t)'] /\ Calls[t] = Doing(t)
  BY <1>5, CallsStep DEF Calls
<1>11. /\ Calls[t].op = "scan" /\ Abstract!Older(Calls[t].cursor) # {}
       /\ Calls' = [Calls EXCEPT ![t].cursor = Abstract!Newest(Abstract!Older(@)).born]
  BY <1>4, <1>8, <1>9, <1>10
<1> QED  BY <1>6, <1>11 DEF Abstract!Visit, Entries, WildSlots, Calls

LEMMA ScanEndRefines ==
  ASSUME HeapInv, NEW t \in Thread, ScanEnd(t) PROVE Abstract!EndScan(t)
<1> USE PointerAssumption DEF HeapInv, TypeOK
<1>1. pc[t] = "scan" /\ pc'[t] = "idle" /\ right[at[t]] = Anchor
  BY DEF ScanEnd, At, Return, Goto
<1>2. Ahead(t) = {}
  BY <1>1, AheadInList DEF IsNewest, Ahead
<1>3. Abstract!Older(Cursor(t)) = {} /\ Doing(t) = [op |-> "scan", cursor |-> Cursor(t)]
  BY <1>1, <1>2, AheadInList
<1>4. Doing(t)' = [op |-> "idle"]
  BY <1>1 DEF Doing, Walking
<1>5. StepOf(t) /\ Quiet(t)
  BY DEF StepOf, Quiet, Scanning
<1>6. Entries' = Entries /\ WildSlots' = WildSlots /\ clock' = clock
  BY <1>5, QuietCollection
<1>7. Calls' = [Calls EXCEPT ![t] = Doing(t)'] /\ Calls[t] = Doing(t)
  BY <1>5, CallsStep DEF Calls
<1>8. Calls[t].op = "scan" /\ Abstract!Older(Calls[t].cursor) = {}
  BY <1>3, <1>7
<1> QED
  BY <1>4, <1>6, <1>7, <1>8 DEF Abstract!EndScan, Abstract!Idle, Entries, WildSlots, Calls

LEMMA StepRefines == HeapInv /\ [Next]_vars => [Abstract!Next]_(Abstract!vars)
<1> SUFFICES ASSUME HeapInv, [Next]_vars PROVE [Abstract!Next]_(Abstract!vars)
  OBVIOUS
<1>1. ASSUME UNCHANGED vars PROVE UNCHANGED Abstract!vars
  <2>1. UNCHANGED <<items, keyOf, live, born, clock, pc, arg, at, prev, asked>>
    BY <1>1 DEF vars, heap, locals, history
  <2>2. \A t \in Thread : Doing(t)' = Doing(t)
    BY <2>1 DEF Doing, Searching, SafeMiss, There, EntryOf, SlotOf
  <2> QED  BY <2>1, <2>2 DEF Abstract!vars, EntryOf, Chain, SlotOf
<1>2. ASSUME NEW t \in Thread, NEW k \in Key, Abstract!Insert(t, k) \/ Abstract!Ask(t, k)
      PROVE  Abstract!Next
  BY <1>2 DEF Abstract!Next
<1>3. ASSUME NEW t \in Thread,
             \/ Abstract!Miss(t) \/ Abstract!Hit(t) \/ Abstract!Delete(t) \/ Abstract!Break(t)
             \/ Abstract!StartScan(t) \/ Abstract!Visit(t) \/ Abstract!EndScan(t)
      PROVE  Abstract!Next
  BY <1>3 DEF Abstract!Next
<1>4. ASSUME NEW t \in Thread, Looking(t) PROVE [Abstract!Next]_(Abstract!vars)
  BY <1>3, <1>4, MissRefines, HitRefines, BreakRefines, WalkStutters DEF Looking
<1>5. ASSUME NEW t \in Thread, Inserting(t) \/ Deleting(t) PROVE [Abstract!Next]_(Abstract!vars)
  <2>1. CASE HashInsert(t)
    <3>1. PICK k \in Key : Abstract!Insert(t, k)
      BY <2>1, InsertRefines
    <3> QED  BY <1>2, <3>1
  <2>2. CASE HashDelete(t)
    BY <1>3, <2>2, DeleteRefines
  <2>3. CASE ListInsert(t) \/ Find(t) \/ ListDelete(t)
    BY <2>3, InsertStutters, WalkStutters
  <2> QED  BY <1>5, <2>1, <2>2, <2>3 DEF Inserting, Deleting
<1>6. ASSUME NEW t \in Thread, ScanLock(t) \/ Scanning(t) PROVE Abstract!Next
  BY <1>3, <1>6, ScanLockRefines, ScanNextRefines, ScanEndRefines DEF Scanning
<1>7. ASSUME NEW t \in Thread, NEW k \in Key, Search(t, k) \/ InsertLock(t, k)
      PROVE  [Abstract!Next]_(Abstract!vars)
  BY <1>2, <1>7, SearchRefines, InsertStutters
<1> QED  BY <1>1, <1>4, <1>5, <1>6, <1>7 DEF Next

\* Whatever uninitialised memory holds, chains and list together are a
\* collection of entries: what a search, a deletion and a scan come to is what
\* Table promises (dllhashtable.c over hashtable.c and dll.c).
THEOREM PointersImplementTable == Spec => TableSpec
<1>1. Init => Abstract!Init
  BY DEF Init, Abstract!Init, Abstract!Idle, Chain, Doing, Walking
<1>2. HeapInv /\ [Next]_vars => [Abstract!Next]_(Abstract!vars)
  BY StepRefines
<1> QED  BY <1>1, <1>2, HeapInvariant, PTL DEF Spec, TableSpec, Abstract!Spec
=============================================================================
