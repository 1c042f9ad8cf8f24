-------------------------------- MODULE Table --------------------------------
(***************************************************************************)
(* What dllhashtable.c promises the bundle list and the replica list: a    *)
(* collection of entries, any number under one key, that                   *)
(*   - finds and deletes the newest entry under a key,                     *)
(*   - visits the entries from the newest to the oldest,                   *)
(*   - answers a search for a key that was there when it was asked,        *)
(* and that says "not there" only for a slot that holds nothing: a search  *)
(* for a missing key in any other slot may be the end of the process.      *)
(***************************************************************************)
EXTENDS Integers

CONSTANTS
    Key,        \* what entries are stored under
    Slot,       \* the positions of items[]
    Hash,       \* hashfunc, as a function from keys to slots
    Thread,
    Shared      \* TRUE for the replica list, FALSE for the bundle list

VARIABLES
    entries,    \* the entries, each with its key and the time it was inserted
    clock,      \* the time of the next insertion
    wild,       \* the slots that hold nothing and are not known to be empty
    call        \* what each thread is doing

vars == <<entries, clock, wild, call>>

Idle == [op |-> "idle"]
Entry == [key : Key, born : Nat]
Under(k) == {e \in entries : e.key = k}
In(s) == {e \in entries : Hash[e.key] = s}
Newest(E) == CHOOSE e \in E : \A f \in E : f.born <= e.born

\* hashtable_search says "not there" for an empty slot only.
SearchReturnsNull(s) == In(s) = {} /\ s \notin wild

Init ==
    /\ entries = {}
    /\ clock = 0
    /\ wild = {}
    /\ call = [t \in Thread |-> Idle]

\* The replica list inserts what it has just missed.
Insert(t, k) ==
    /\ call[t] = IF Shared THEN [op |-> "missed", key |-> k] ELSE Idle
    /\ entries' = entries \cup {[key |-> k, born |-> clock]}
    /\ clock' = clock + 1
    /\ wild' = wild \ {Hash[k]}
    /\ call' = [call EXCEPT ![t] = Idle]

Ask(t, k) ==
    /\ call[t] = Idle
    /\ call' = [call EXCEPT ![t] = [op |-> "search", key |-> k, hits |-> Under(k),
                                    safe |-> SearchReturnsNull(Hash[k])]]
    /\ UNCHANGED <<entries, clock, wild>>

Asking(t) == call[t].op = "search"

Miss(t) ==
    /\ Asking(t) /\ call[t].hits = {} /\ call[t].safe
    /\ call' = [call EXCEPT ![t] = IF Shared THEN [op |-> "missed", key |-> @.key]
                                             ELSE Idle]
    /\ UNCHANGED <<entries, clock, wild>>

Hit(t) ==
    /\ Shared /\ Asking(t) /\ call[t].hits # {}
    /\ call' = [call EXCEPT ![t] = Idle]
    /\ UNCHANGED <<entries, clock, wild>>

\* What the last entry of a slot leaves behind is not known.
Delete(t) ==
    /\ ~Shared /\ Asking(t) /\ call[t].hits # {}
    /\ entries' = entries \ {Newest(Under(call[t].key))}
    /\ LET s == Hash[call[t].key] IN
       IF \E e \in entries' : Hash[e.key] = s THEN wild' = wild
                                              ELSE wild' \in {wild, wild \cup {s}}
    /\ call' = [call EXCEPT ![t] = Idle]
    /\ UNCHANGED clock

Break(t) ==
    /\ Asking(t) /\ call[t].hits = {} /\ ~call[t].safe
    /\ call' = [call EXCEPT ![t] = [op |-> "fault"]]
    /\ UNCHANGED <<entries, clock, wild>>

\* A scan has been at every entry that is not older than its cursor.
StartScan(t) ==
    /\ ~Shared /\ call[t] = Idle
    /\ call' = [call EXCEPT ![t] = [op |-> "scan", cursor |-> clock]]
    /\ UNCHANGED <<entries, clock, wild>>

Older(n) == {e \in entries : e.born < n}

Visit(t) ==
    /\ call[t].op = "scan" /\ Older(call[t].cursor) # {}
    /\ call' = [call EXCEPT ![t].cursor = Newest(Older(@)).born]
    /\ UNCHANGED <<entries, clock, wild>>

EndScan(t) ==
    /\ call[t].op = "scan" /\ Older(call[t].cursor) = {}
    /\ call' = [call EXCEPT ![t] = Idle]
    /\ UNCHANGED <<entries, clock, wild>>

Next == \E t \in Thread :
    \/ \E k \in Key : Insert(t, k) \/ Ask(t, k)
    \/ Miss(t) \/ Hit(t) \/ Delete(t) \/ Break(t)
    \/ StartScan(t) \/ Visit(t) \/ EndScan(t)

Spec == Init /\ [][Next]_vars
=============================================================================
