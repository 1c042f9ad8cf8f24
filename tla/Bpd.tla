-------------------------------- MODULE Bpd --------------------------------
(***************************************************************************)
(* One bundle protocol daemon: the thread that serves the applications'    *)
(* UNIX socket, the thread that serves the bundle socket, and the thread   *)
(* that scans the list of custody bundles, at the granularity of the       *)
(* shared state they touch.  Around it, the applications and the network.  *)
(*                                                                         *)
(* A step is one access to shared state: a mutex operation, a table        *)
(* look-up, a list update, a datagram.  What a thread does to its own      *)
(* memory in between belongs to the step before.                           *)
(***************************************************************************)
EXTENDS BpdData, SequencesExt

CONSTANTS
    Peers,          \* custodian endpoints of the neighbouring daemons
    ForwardTable,   \* the table read from the configuration file at start
    NetIn,          \* bundles that neighbours send of their own accord
    AppAdmin,       \* what the byte isadmin of a send request may hold
    AppSends,       \* what applications send: [dst, iscustody]
    AppNames,       \* the endpoint each application binds its socket to
    Careless,       \* applications that may send before they bind
    StaleWords,     \* what an uninitialised integer may hold
    WildHeads,      \* what next of a first HASHITEM may be: TRUE is not NULL
    ReplicaSlot(_), \* replica_list_hashfunc
    ListSlot(_),    \* bundle_list_hashfunc
    QueueCap,       \* datagrams an application socket queues
    UsockCap,       \* datagrams the daemon's UNIX socket queues
    BindMax,        \* bound: bindings made (BIND_LIST_MAXSIZE in the code)
    MaxSends,       \* bound: send requests
    MaxRecvs,       \* bound: bundles received
    MaxErrors       \* bound: failures of recvfrom on the UNIX socket

Threads   == {"usock", "isock", "scan"}
Receivers == {"usock", "isock"}
Nobody    == "nobody"

ASSUME PeersAssumption == Peers \subseteq Eid \ {Self, NoEid}
\* A custody bundle reaches the wire only from the list of the daemon that has
\* taken it: its custodian is that daemon.  It is an application's: a daemon
\* does not ask for custody of the signals it makes.
ASSUME NetInAssumption ==
    /\ NetIn \subseteq Bundle
    /\ \A b \in NetIn : b.iscustody => b.cust \in Peers /\ b.payload = Data
ASSUME AppAssumption ==
    /\ AppAdmin \subseteq BOOLEAN
    /\ AppSends \subseteq [dst : Eid, iscustody : BOOLEAN]
    /\ AppNames \in [Addr -> Eid]
    /\ Careless \subseteq Addr
ASSUME MemoryAssumption ==
    StaleWords \subseteq Number /\ StaleWords # {} /\ WildHeads \subseteq BOOLEAN
ASSUME TableAssumption == ForwardTable \in Seq([origin : Eid, valid : BOOLEAN])
ASSUME BoundAssumption ==
    {QueueCap, UsockCap, BindMax, MaxSends, MaxRecvs, MaxErrors} \subseteq Nat

VARIABLES
    \* the applications and the network
    sock,       \* state of each application socket
    usockQ,     \* requests queued at the daemon's UNIX socket
    appQ,       \* number of payloads queued at each application socket
    wire,       \* every bundle the daemon has sent to a neighbour
    tally,      \* how often each bounded event has happened
    \* shared between the daemon's threads
    bindList,   \* bpd_bind_list
    counter,    \* bpd_creation_sequence_number_counter
    replicas,   \* replica_list_ptr: digests, oldest first
    list,       \* bundle_list_ptr: custody bundles, oldest first
    wild,       \* slots of bundle_list_ptr whose head is a wild pointer
    lock,       \* who holds each of the three mutexes
    \* local to each thread
    pc,         \* what the thread does next
    bun,        \* the bundle it works on
    adm,        \* the custody signal it is sending meanwhile, or Blank
    key,        \* the key it is about to delete
    cursor,     \* scan thread: position of the entry it is at
    request,    \* usock thread: the last request received
    \* history
    issued,     \* sequence numbers handed out, in order
    released,   \* entries of list deleted by a custody signal for their key
    settled,    \* custody bundles consumed here or queued at an open socket
    undelivered \* custody bundles sent to a socket that was gone

envVars    == <<sock, usockQ, appQ, wire, tally>>
tableVars  == <<bindList, counter, replicas, list, wild>>
localVars  == <<bun, adm, key, cursor, request>>
historyVars == <<issued, released, settled, undelivered>>
vars == <<envVars, tableVars, lock, pc, localVars, historyVars>>

-----------------------------------------------------------------------------
(***************************************************************************)
(* The initial state, after main has created the threads.                  *)
(***************************************************************************)
NoRequest == [type |-> "none"]

Mutexes == {"seq", "replica", "list"}

Tally == [sends : Nat, recvs : Nat, errors : Nat, binds : Nat]

Requests ==
    {NoRequest} \cup [type : {"bind", "close"}, addr : Addr]
                \cup [type : {"send"}, addr : Addr, dst : Eid,
                      iscustody : BOOLEAN, isadmin : BOOLEAN]

Init ==
    /\ sock = [a \in Addr |-> "new"]
    /\ usockQ = <<>>
    /\ appQ = [a \in Addr |-> 0]
    /\ wire = {}
    /\ tally = [sends |-> 0, recvs |-> 0, errors |-> 0, binds |-> 0]
    /\ bindList = <<>>
    /\ counter = 0
    /\ replicas = <<>>
    /\ list = <<>>
    /\ wild = {}
    /\ lock = [m \in Mutexes |-> Nobody]
    /\ pc = [t \in Threads |-> IF t = "scan" THEN "sleep" ELSE "recv"]
    /\ \E s \in StaleWords :
          bun = [t \in Threads |->
                    IF t = "isock" THEN [Blank EXCEPT !.seq = s] ELSE Blank]
    /\ adm = [t \in Threads |-> Blank]
    /\ key = [t \in Threads |-> KeyOf(Blank)]
    /\ cursor = 0
    /\ request = NoRequest
    /\ issued = <<>>
    /\ released = {}
    /\ settled = {}
    /\ undelivered = {}

-----------------------------------------------------------------------------
(***************************************************************************)
(* Applications, through the client library bp.c.  A library call is one   *)
(* datagram to the daemon; it blocks while the daemon's queue is full.     *)
(***************************************************************************)
Request(r) ==
    /\ Len(usockQ) < UsockCap
    /\ usockQ' = Append(usockQ, r)

bp_bind(a) ==
    /\ sock[a] # "closed"
    /\ tally.binds < BindMax
    /\ tally' = [tally EXCEPT !.binds = @ + 1]
    /\ Request([type |-> "bind", addr |-> a])
    /\ sock' = [sock EXCEPT ![a] = "bound"]
    /\ UNCHANGED <<appQ, wire, tableVars, lock, pc, localVars, historyVars>>

\* bp_sendto leaves isadmin as the caller's stack has it.
bp_sendto(a) ==
    /\ sock[a] = "bound" \/ (sock[a] = "new" /\ a \in Careless)
    /\ tally.sends < MaxSends
    /\ tally' = [tally EXCEPT !.sends = @ + 1]
    /\ \E s \in AppSends, admin \in AppAdmin :
          Request([type |-> "send", addr |-> a, dst |-> s.dst,
                   iscustody |-> s.iscustody, isadmin |-> admin])
    /\ UNCHANGED <<sock, appQ, wire, tableVars, lock, pc, localVars, historyVars>>

\* The close request is queued, then the socket goes, with what it had queued.
bp_close(a) ==
    /\ sock[a] = "bound"
    /\ Request([type |-> "close", addr |-> a])
    /\ sock' = [sock EXCEPT ![a] = "closed"]
    /\ appQ' = [appQ EXCEPT ![a] = 0]
    /\ UNCHANGED <<wire, tally, tableVars, lock, pc, localVars, historyVars>>

bp_recv(a) ==
    /\ appQ[a] > 0
    /\ appQ' = [appQ EXCEPT ![a] = @ - 1]
    /\ UNCHANGED <<sock, usockQ, wire, tally, tableVars, lock, pc, localVars,
                   historyVars>>

-----------------------------------------------------------------------------
(***************************************************************************)
(* Steps of the daemon.  A fault in any thread ends the process.           *)
(***************************************************************************)
Alive == \A t \in Threads : pc[t] # "fault"

At(t, here) == Alive /\ pc[t] = here

Goto(t, there) == pc' = [pc EXCEPT ![t] = there]

Acquire(t, m) ==
    /\ lock[m] = Nobody
    /\ lock' = [lock EXCEPT ![m] = t]

Release(m) == lock' = [lock EXCEPT ![m] = Nobody]

\* Mutant of InsertEntry: what is addressed to this custodian is kept as well.
InsertOwn(b) == IF b.iscustody \/ b.dst = Self THEN "search" ELSE "forward"

\* bpd_bundle_list_insert: a custody bundle goes through the replica filter,
\* any other is forwarded at once.
InsertEntry(b) == IF b.iscustody THEN "search" ELSE "forward"

-----------------------------------------------------------------------------
(***************************************************************************)
(* bpd_usock_recv_thread: one request of an application.                   *)
(***************************************************************************)
bpd_process_signal_bind(r) ==
    /\ r.type = "bind"
    /\ Len(bindList) < BindMax
    /\ bindList' = Append(bindList, [eid |-> AppNames[r.addr],
                                     addr |-> r.addr, valid |-> TRUE])
    /\ UNCHANGED <<pc, bun>>

bpd_process_signal_close(r) ==
    /\ r.type = "close"
    /\ bindList' = IF IsBound(bindList, r.addr)
                   THEN [bindList EXCEPT
                            ![FindByAddr(bindList, r.addr)].valid = FALSE]
                   ELSE bindList
    /\ UNCHANGED <<pc, bun>>

\* Up to the sequence number.  The source is the endpoint the sender has bound;
\* without one uri_copy reads through a null pointer.
bpd_process_signal_send(r) ==
    /\ r.type = "send"
    /\ IF IsBound(bindList, r.addr)
       THEN /\ \E now \in Time :
                  bun' = [bun EXCEPT !["usock"] =
                     [src |-> bindList[FindByAddr(bindList, r.addr)].eid,
                      dst |-> r.dst,
                      cust |-> IF r.iscustody THEN Self ELSE NoEid,
                      time |-> now, seq |-> 0, iscustody |-> r.iscustody,
                      isadmin |-> r.isadmin, payload |-> Data]]
            /\ Goto("usock", "seq_lock")
       ELSE Goto("usock", "fault") /\ UNCHANGED bun
    /\ UNCHANGED bindList

ProcessRequest(r) ==
    /\ \/ bpd_process_signal_bind(r)
       \/ bpd_process_signal_close(r)
       \/ bpd_process_signal_send(r)
    /\ UNCHANGED <<counter, replicas, list, wild, lock, adm, key, cursor>>
    /\ UNCHANGED historyVars

UsockRecv ==
    /\ At("usock", "recv")
    /\ usockQ # <<>>
    /\ usockQ' = Tail(usockQ)
    /\ request' = Head(usockQ)
    /\ ProcessRequest(Head(usockQ))
    /\ UNCHANGED <<sock, appQ, wire, tally>>

\* When recvfrom fails the thread reports it and serves the last request again.
UsockRecvError ==
    /\ At("usock", "recv")
    /\ tally.errors < MaxErrors
    /\ tally' = [tally EXCEPT !.errors = @ + 1]
    /\ request # NoRequest
    /\ ProcessRequest(request)
    /\ UNCHANGED <<sock, usockQ, appQ, wire, request>>

-----------------------------------------------------------------------------
(***************************************************************************)
(* bpd_isock_recv_thread: one bundle from the network.  The network may    *)
(* lose, repeat and reorder, so anything sent so far may arrive now: a     *)
(* bundle of a neighbour's own, a neighbour's custody signal for a bundle  *)
(* it got from us, or a bundle of ours that a routing loop brings back.    *)
(***************************************************************************)
PeerSignals ==
    {[SignalFor(b, b.time) EXCEPT !.src = p] :
        b \in {s \in wire : s.iscustody}, p \in Peers}

Loops ==
    {[b EXCEPT !.cust = IF b.iscustody THEN p ELSE @] : b \in wire, p \in Peers}

\* The struct is not cleared between bundles: bytes of the sequence number that
\* the new value does not need keep what the last bundle left there.
IsockRecv ==
    /\ At("isock", "recv")
    /\ tally.recvs < MaxRecvs
    /\ tally' = [tally EXCEPT !.recvs = @ + 1]
    /\ \E b \in NetIn \cup PeerSignals \cup Loops :
          /\ bun' = [bun EXCEPT !["isock"] =
                        [b EXCEPT !.seq = Overlay(bun["isock"].seq, b.seq)]]
          /\ Goto("isock", InsertEntry(b))
    /\ UNCHANGED <<sock, usockQ, appQ, wire, tableVars, lock, adm, key, cursor,
                   request, historyVars>>

-----------------------------------------------------------------------------
(***************************************************************************)
(* Drawing a creation sequence number, for a bundle of an application or   *)
(* for a custody signal.                                                   *)
(***************************************************************************)
Signalling(t) == adm[t] # Blank

\* The bundle it is numbering or forwarding.
Argument(t) == IF Signalling(t) THEN adm[t] ELSE bun[t]

\* Mutant of SeqLock: the mutex is not waited for.
SeqLockAnyway(t) ==
    /\ At(t, "seq_lock")
    /\ lock' = [lock EXCEPT !["seq"] = t]
    /\ Goto(t, "seq_read")
    /\ UNCHANGED <<envVars, tableVars, localVars, historyVars>>

SeqLock(t) ==
    /\ At(t, "seq_lock")
    /\ Acquire(t, "seq")
    /\ Goto(t, "seq_read")
    /\ UNCHANGED <<envVars, tableVars, localVars, historyVars>>

SeqRead(t) ==
    /\ At(t, "seq_read")
    /\ IF Signalling(t)
       THEN adm' = [adm EXCEPT ![t].seq = counter] /\ UNCHANGED bun
       ELSE bun' = [bun EXCEPT ![t].seq = counter] /\ UNCHANGED adm
    /\ issued' = Append(issued, counter)
    /\ Goto(t, "seq_write")
    /\ UNCHANGED <<envVars, tableVars, lock, key, cursor, request, released,
                   settled, undelivered>>

\* Mutant of NextNumber: the counter is wider than the field it numbers.
NextNumberWide(n) == n + 1

\* The counter is an unsigned int.
NextNumber(n) == (n + 1) % SeqSpan

SeqWrite(t) ==
    /\ At(t, "seq_write")
    /\ counter' = NextNumber(Argument(t).seq)
    /\ Goto(t, InsertEntry(Argument(t)))
    /\ Release("seq")
    /\ UNCHANGED <<envVars, bindList, replicas, list, wild, localVars,
                   historyVars>>

-----------------------------------------------------------------------------
(***************************************************************************)
(* bpd_bundle_list_insert_custody.  The look-up in the replica list takes  *)
(* no mutex; the insertion does.                                           *)
(***************************************************************************)
\* Mutant of ReplicaSearch: what the look-up found is not tested.
ReplicaSearchInVain(t) ==
    /\ At(t, "search")
    /\ Goto(t, "rep_lock")
    /\ UNCHANGED <<envVars, tableVars, lock, localVars, historyVars>>

ReplicaSearch(t) ==
    /\ At(t, "search")
    /\ LET seen  == Range(replicas)
           chain == {d \in seen : ReplicaSlot(d) = ReplicaSlot(bun[t])}
       IN  Goto(t, IF bun[t] \in seen THEN "recv"
                   ELSE IF SearchReturnsNull(chain, FALSE) THEN "rep_lock"
                   ELSE "fault")
    /\ UNCHANGED <<envVars, tableVars, lock, localVars, historyVars>>

ReplicaLock(t) ==
    /\ At(t, "rep_lock")
    /\ Acquire(t, "replica")
    /\ Goto(t, "rep_insert")
    /\ UNCHANGED <<envVars, tableVars, localVars, historyVars>>

\* Mutant of ReplicaInsert: the mutex is not released.
ReplicaInsertHolding(t) ==
    /\ At(t, "rep_insert")
    /\ replicas' = Append(replicas, bun[t])
    /\ UNCHANGED lock
    /\ Goto(t, "src_check")
    /\ UNCHANGED <<envVars, bindList, counter, list, wild, localVars, historyVars>>

ReplicaInsert(t) ==
    /\ At(t, "rep_insert")
    /\ replicas' = Append(replicas, bun[t])
    /\ Release("replica")
    /\ Goto(t, "src_check")
    /\ UNCHANGED <<envVars, bindList, counter, list, wild, localVars, historyVars>>

\* A bundle of another node: tell its custodian that custody is taken.
SrcCheck(t) ==
    /\ At(t, "src_check")
    /\ IF IsLocal(bindList, bun[t].src)
       THEN Goto(t, "dst_check") /\ UNCHANGED adm
       ELSE /\ \E now \in Time :
                  adm' = [adm EXCEPT ![t] = SignalFor(bun[t], now)]
            /\ Goto(t, "seq_lock")
    /\ UNCHANGED <<envVars, tableVars, lock, bun, key, cursor, request,
                   historyVars>>

\* Mutant of DstCheck: a bundle in transit is forwarded and not stored.
DstCheckForwarding(t) ==
    /\ At(t, "dst_check")
    /\ Goto(t, "forward")
    /\ UNCHANGED <<envVars, tableVars, lock, localVars, historyVars>>

DstCheck(t) ==
    /\ At(t, "dst_check")
    /\ Goto(t, IF IsLocal(bindList, bun[t].dst) THEN "forward" ELSE "list_lock")
    /\ UNCHANGED <<envVars, tableVars, lock, localVars, historyVars>>

ListLock(t) ==
    /\ At(t, "list_lock")
    /\ Acquire(t, "list")
    /\ Goto(t, "list_insert")
    /\ UNCHANGED <<envVars, tableVars, localVars, historyVars>>

ListInsert(t) ==
    /\ At(t, "list_insert")
    /\ list' = Append(list, Stored(bun[t]))
    /\ Release("list")
    /\ Goto(t, "recv")
    /\ UNCHANGED <<envVars, bindList, counter, replicas, wild, localVars,
                   historyVars>>

-----------------------------------------------------------------------------
(***************************************************************************)
(* bpd_forward: a bundle for this custodian is consumed, one for a local   *)
(* application is dispatched, any other goes to its next hop or is dropped.*)
(***************************************************************************)
Routing(t) == At(t, "forward")

ToSelf(b)     == b.dst = Self
ToApp(b)      == b.dst # Self /\ IsLocal(bindList, b.dst)
ToNeighbour(b) == b.dst # Self /\ ~IsLocal(bindList, b.dst)

\* A signal sent on the way returns into bpd_bundle_list_insert_custody.
ReturnTo(t) == IF Signalling(t) THEN "dst_check"
               ELSE IF t = "scan" THEN "scan_next" ELSE "recv"

Return(t) ==
    /\ Goto(t, ReturnTo(t))
    /\ adm' = [adm EXCEPT ![t] = Blank]

IfCustody(b) == IF b.iscustody THEN {b} ELSE {}

\* b has arrived at an endpoint of this node.
Settle(b) == settled' = settled \cup IfCustody(b) /\ UNCHANGED undelivered

\* b was for an endpoint of this node and has been lost.
Lose(b) == undelivered' = undelivered \cup IfCustody(b) /\ UNCHANGED settled

\* custody_signal_decode writes over an uninitialised struct.  Application data
\* with a stray isadmin decodes to anything, or to no succeeded signal.
DecodedKeys(b) ==
    IF b.payload = Data
    THEN Key
    ELSE {[b.payload.named EXCEPT !.seq = Overlay(s, @)] : s \in StaleWords}

\* Mutant of IsAdmin: the bit is not tested.
IsAnything(b) == TRUE

IsAdmin(b) == b.isadmin

bpd_process_admin_record(t) ==
    /\ Routing(t)
    /\ ToSelf(Argument(t)) /\ IsAdmin(Argument(t))
    /\ \/ /\ \E k \in DecodedKeys(Argument(t)) : key' = [key EXCEPT ![t] = k]
          /\ Goto(t, "del_lock")
          /\ UNCHANGED adm
       \/ /\ Argument(t).payload = Data
          /\ Return(t)
          /\ UNCHANGED key
    /\ Settle(Argument(t))
    /\ UNCHANGED <<envVars, tableVars, lock, bun, cursor, request, issued,
                   released>>

ConsumeData(t) ==
    /\ Routing(t)
    /\ ToSelf(Argument(t)) /\ ~IsAdmin(Argument(t))
    /\ Return(t)
    /\ Settle(Argument(t))
    /\ UNCHANGED <<envVars, tableVars, lock, bun, key, cursor, request, issued,
                   released>>

\* sendto blocks while the application's queue is full; its failure on a socket
\* that is gone is not noticed, and the bundle is kept nowhere.
Dispatch(t) ==
    /\ Routing(t)
    /\ ToApp(Argument(t))
    /\ LET a == bindList[FindByEid(bindList, Argument(t).dst)].addr IN
       \/ /\ sock[a] = "closed"
          /\ Lose(Argument(t))
          /\ UNCHANGED appQ
       \/ /\ sock[a] # "closed" /\ appQ[a] < QueueCap
          /\ Settle(Argument(t))
          /\ appQ' = [appQ EXCEPT ![a] = @ + 1]
    /\ Return(t)
    /\ UNCHANGED <<sock, usockQ, wire, tally, tableVars, lock, bun, key, cursor,
                   request, issued, released>>

ForwardOrDrop(t) ==
    /\ Routing(t)
    /\ ToNeighbour(Argument(t))
    /\ wire' = IF HasRoute(ForwardTable, Argument(t).dst)
               THEN wire \cup {Argument(t)} ELSE wire
    /\ Return(t)
    /\ UNCHANGED <<sock, usockQ, appQ, tally, tableVars, lock, bun, key, cursor,
                   request, historyVars>>

-----------------------------------------------------------------------------
(***************************************************************************)
(* bpd_bundle_list_delete, for the key of a custody signal.                *)
(***************************************************************************)
DeleteLock(t) ==
    /\ At(t, "del_lock")
    /\ Acquire(t, "list")
    /\ Goto(t, "delete")
    /\ UNCHANGED <<envVars, tableVars, localVars, historyVars>>

Keys == {KeyOf(b) : b \in Range(list)}

\* Mutant of Newest: the entry at the front of the list, whatever its key.
FrontEntry(k) == Len(list)

\* dllhashtable_delete takes the entry inserted last under the key.
Newest(k) == CHOOSE i \in DOMAIN list :
                KeyOf(list[i]) = k /\ \A j \in i+1..Len(list) : KeyOf(list[j]) # k

\* The head of a slot whose only entry goes becomes that entry's next, which
\* hashtable_insert has not initialised.
Uncover(k, rest) ==
    IF \E b \in Range(rest) : ListSlot(KeyOf(b)) = ListSlot(k)
    THEN wild' = wild
    ELSE \E w \in WildHeads : wild' = IF w THEN wild \cup {ListSlot(k)} ELSE wild

Delete(t) ==
    /\ At(t, "delete")
    /\ IF key[t] \in Keys
       THEN /\ list' = RemoveAt(list, Newest(key[t]))
            /\ Uncover(key[t], list')
            /\ released' = released \cup {b \in {list[Newest(key[t])]} : KeyOf(b) = key[t]}
            /\ Return(t)
       ELSE /\ IF SearchReturnsNull({k \in Keys : ListSlot(k) = ListSlot(key[t])},
                                    ListSlot(key[t]) \in wild)
               THEN Return(t)
               ELSE Goto(t, "fault") /\ UNCHANGED adm
            /\ UNCHANGED <<list, wild, released>>
    /\ Release("list")
    /\ UNCHANGED <<envVars, bindList, counter, replicas, bun, key, cursor,
                   request, issued, settled, undelivered>>

-----------------------------------------------------------------------------
(***************************************************************************)
(* bpd_bundle_list_scan_thread: every five seconds, bpd_forward for every  *)
(* entry, newest first, all under the list mutex.                          *)
(***************************************************************************)
ScanLock ==
    /\ At("scan", "sleep")
    /\ Acquire("scan", "list")
    /\ cursor' = Len(list) + 1
    /\ Goto("scan", "scan_next")
    /\ UNCHANGED <<envVars, tableVars, bun, adm, key, request, historyVars>>

\* Mutant of ScanNext: the cursor stays where it is.
ScanAgain ==
    /\ At("scan", "scan_next")
    /\ cursor > 1
    /\ bun' = [bun EXCEPT !["scan"] = list[cursor - 1]]
    /\ Goto("scan", "forward")
    /\ UNCHANGED <<envVars, tableVars, lock, adm, cursor, key, request, historyVars>>

\* Mutant of ScanNext: the mutex is released while an entry is sent.
ScanNextReleasing ==
    /\ At("scan", "scan_next")
    /\ cursor > 1 /\ cursor - 1 \in DOMAIN list
    /\ cursor' = cursor - 1
    /\ bun' = [bun EXCEPT !["scan"] = list[cursor - 1]]
    /\ Release("list")
    /\ Goto("scan", "forward")
    /\ UNCHANGED <<envVars, tableVars, adm, key, request, historyVars>>

ScanNext ==
    /\ At("scan", "scan_next")
    /\ cursor > 1
    /\ cursor' = cursor - 1
    /\ bun' = [bun EXCEPT !["scan"] = list[cursor - 1]]
    /\ Goto("scan", "forward")
    /\ UNCHANGED <<envVars, tableVars, lock, adm, key, request, historyVars>>

ScanUnlock ==
    /\ At("scan", "scan_next")
    /\ cursor = 1
    /\ cursor' = 0
    /\ bun' = [bun EXCEPT !["scan"] = Blank]
    /\ Release("list")
    /\ Goto("scan", "sleep")
    /\ UNCHANGED <<envVars, tableVars, adm, key, request, historyVars>>

-----------------------------------------------------------------------------
Application == \E a \in Addr : bp_bind(a) \/ bp_sendto(a) \/ bp_close(a) \/ bp_recv(a)

Numbering(t) == SeqLock(t) \/ SeqRead(t) \/ SeqWrite(t)

InsertCustody(t) ==
    \/ ReplicaSearch(t) \/ ReplicaLock(t) \/ ReplicaInsert(t)
    \/ SrcCheck(t) \/ DstCheck(t) \/ ListLock(t) \/ ListInsert(t)

bpd_forward(t) ==
    \/ bpd_process_admin_record(t) \/ ConsumeData(t)
    \/ Dispatch(t) \/ ForwardOrDrop(t)
    \/ DeleteLock(t) \/ Delete(t)

Scan == ScanLock \/ ScanNext \/ ScanUnlock

Next ==
    \/ Application
    \/ UsockRecv \/ UsockRecvError \/ IsockRecv
    \/ \E t \in Receivers : Numbering(t) \/ InsertCustody(t)
    \/ \E t \in Threads : bpd_forward(t)
    \/ Scan

Spec == Init /\ [][Next]_vars

\* Each thread is scheduled; a mutex that is free again and again is obtained
\* in the end, since the scan thread sleeps five seconds between two holds; an
\* application reads what its socket has queued, and the kernel wakes every
\* sender that waits for room in a queue.
Fairness ==
    /\ \A t \in Receivers : WF_vars(Numbering(t) \/ InsertCustody(t))
    /\ \A t \in Threads : WF_vars(bpd_forward(t))
    /\ WF_vars(Scan)
    /\ \A t \in Receivers :
          SF_vars(SeqLock(t)) /\ SF_vars(ReplicaLock(t)) /\ SF_vars(ListLock(t))
    /\ \A t \in Receivers : SF_vars(DeleteLock(t)) /\ SF_vars(Dispatch(t))
    /\ SF_vars(Dispatch("scan"))
    /\ \A a \in Addr : WF_vars(bp_recv(a))

FairSpec == Spec /\ Fairness

-----------------------------------------------------------------------------
(***************************************************************************)
(* Properties.                                                             *)
(***************************************************************************)
Labels == {"recv", "seq_lock", "seq_read", "seq_write", "search", "rep_lock",
           "rep_insert", "src_check", "dst_check", "list_lock", "list_insert",
           "forward", "del_lock", "delete", "sleep", "scan_next", "fault"}

\* Every variable holds a value of its type.
TypeOK ==
    /\ sock \in [Addr -> {"new", "bound", "closed"}]
    /\ usockQ \in Seq(Requests \ {NoRequest})
    /\ appQ \in [Addr -> Nat]
    /\ wire \subseteq Bundle
    /\ tally \in Tally
    /\ bindList \in Seq(Binding)
    /\ counter \in Number
    /\ replicas \in Seq(Bundle)
    /\ list \in Seq(Bundle)
    /\ lock \in [Mutexes -> Threads \cup {Nobody}]
    /\ pc \in [Threads -> Labels]
    /\ bun \in [Threads -> Bundle]
    /\ adm \in [Threads -> Bundle]
    /\ key \in [Threads -> Key]
    /\ cursor \in Nat
    /\ request \in Requests
    /\ issued \in Seq(Number)
    /\ released \subseteq Bundle
    /\ settled \subseteq Bundle
    /\ undelivered \subseteq Bundle

\* A sequence number comes back only after all SeqSpan numbers have been drawn,
\* whichever threads draw them (bpd_creation_sequence_number_mutex): within that
\* span a bundle or a signal of this daemon has its number to itself.
SeqNumbersDistinct ==
    \A i, j \in DOMAIN issued :
        i < j /\ j - i < SeqSpan => issued[i] # issued[j]

\* The replica filter lets a digest through once, although it looks the digest
\* up before it takes the mutex it inserts under.
ReplicaOnce ==
    \A i, j \in DOMAIN replicas : replicas[i] = replicas[j] => i = j

\* The entry the scan thread is forwarding is still the entry it started on: no
\* custody signal frees it, and no insertion moves it, meanwhile.
Scanning == pc["scan"] \in {"forward", "del_lock"}
ScanEntryLive ==
    Scanning => cursor \in DOMAIN list /\ list[cursor] = bun["scan"]

\* While a thread works on custody bundle d, past the replica filter.
InHand(d) ==
    \E t \in Receivers :
        /\ bun[t] = d
        /\ \/ pc[t] \in {"src_check", "dst_check", "list_lock", "list_insert"}
           \/ pc[t] = "forward"
           \/ Signalling(t)

\* A custody bundle that passed the filter, of which the previous custodian is
\* then told, leaves the daemon in four ways and no other: a custody signal for
\* the key of its entry has deleted it from the list, this daemon has consumed
\* it, it is queued at the open socket of a local endpoint, or it was sent to the
\* socket of a local endpoint that had closed, and is lost.  Until then a thread
\* has it in hand or the list keeps it; the filter refuses every retransmission
\* of it, so nothing could bring it back.  The signal may have been meant for a
\* bundle of another source, or sent with another key: the list does not know.
CustodyAccounted ==
    \A d \in Range(replicas) :
        \/ InHand(d)
        \/ Stored(d) \in Range(list) \cup released
        \/ d \in settled
        \/ d \in undelivered

\* The scan thread calls bpd_bundle_list_delete, which takes the mutex the scan
\* holds and so stops the daemon, over no custody signal: a signal is never
\* kept in the list, whoever made it and whatever it is addressed to.  It does
\* so over application data that a stray isadmin marks as a record.
SignalsNeverLockScan ==
    pc["scan"] = "del_lock" => bun["scan"].payload = Data

\* What this daemon keeps and what it lets a neighbour release are the same
\* bundle.  Every signal on the wire goes to the neighbour that sent a custody
\* bundle, which the daemon has let through its filter exactly as it was sent
\* but for stale bytes of the sequence number, and names it by the key it is
\* held by here: the neighbour's own key but for those bytes.
OwnSignal(b) == b.isadmin /\ b.src = Self /\ b.payload # Data

\* d is the custody bundle b of a neighbour as this daemon has read it.
ReadFrom(b, d) ==
    /\ b.iscustody
    /\ d = [b EXCEPT !.seq = d.seq]
    /\ ReadAs(b.seq, d.seq)

SignalsMatchCustody ==
    \A s \in wire : OwnSignal(s) =>
        \E d \in Range(replicas) :
            /\ KeyOf(d) = s.payload.named
            /\ d.cust = s.dst
            /\ \E b \in NetIn \cup Loops : ReadFrom(b, d)

\* The daemon works on the bundle that was sent: decoding inverts encoding.
DecodesWhatWasEncoded ==
    pc["isock"] # "recv" => bun["isock"] \in NetIn \cup PeerSignals \cup Loops

\* A scan ends, and with it the list mutex becomes free: neither a full socket
\* queue nor the other threads hold it for ever.
ScanEnds == pc["scan"] # "sleep" ~> pc["scan"] = "sleep"

\* A thread that has received something returns to receive the next.
ReceiversReturn == \A t \in Receivers : pc[t] # "recv" ~> pc[t] = "recv"
-----------------------------------------------------------------------------
(***************************************************************************)
(* Parts of the inductive invariant from which the properties follow.      *)
(***************************************************************************)

\* Where each thread can be, and which mutex it then holds.
ThreadPlaces ==
    /\ pc["scan"] \in {"sleep", "scan_next", "forward", "del_lock"}
    /\ adm["scan"] = Blank
    /\ \A t \in Receivers : pc[t] \notin {"sleep", "scan_next"}

LocksHeld ==
    /\ \A t \in Receivers :
          /\ pc[t] \in {"seq_read", "seq_write"} => lock["seq"] = t
          /\ pc[t] = "rep_insert" => lock["replica"] = t
          /\ pc[t] \in {"list_insert", "delete"} => lock["list"] = t
    /\ pc["scan"] # "sleep" => lock["list"] = "scan"

ScanPlace == pc["scan"] # "sleep" => cursor \in 1..Len(list)+1

\* The number a thread has drawn and not yet counted.
NumbersInOrder ==
    /\ \A i \in DOMAIN issued : issued[i] = (i - 1) % SeqSpan
    /\ \A t \in Receivers : pc[t] = "seq_write" =>
          /\ Argument(t).seq = counter
          /\ issued # <<>> /\ counter = (Len(issued) - 1) % SeqSpan
    /\ (\A t \in Receivers : pc[t] # "seq_write") =>
          counter = Len(issued) % SeqSpan

\* While it is signalling a thread still has its custody bundle to place.
Custodial == {"search", "rep_lock", "rep_insert", "src_check", "dst_check",
              "list_lock", "list_insert"}
SignalPlaces ==
    \A t \in Receivers :
        /\ ~adm[t].iscustody
        /\ Signalling(t) => adm[t].isadmin
        /\ pc[t] \in Custodial \cup {"recv"} => ~Signalling(t)
        /\ pc[t] \in Custodial \/ Signalling(t) => bun[t].iscustody

\* The two receiving threads never have the same digest between look-up and
\* insertion: the custodian tells a bundle made here from one that arrived.
FilterWindow ==
    /\ \A t \in Receivers :
          /\ pc[t] \in {"rep_lock", "rep_insert"} => bun[t] \notin Range(replicas)
          /\ bun[t].iscustody =>
                bun[t].cust \in (IF t = "usock" THEN {Self} ELSE Peers)
    /\ \A d \in Range(replicas) : d.iscustody

\* A custody bundle that is being forwarded and not stored has a local
\* destination, since the bind list never shrinks.
DispatchIsLocal ==
    \A t \in Receivers :
        pc[t] = "forward" /\ ~Signalling(t) /\ bun[t].iscustody =>
            IsLocal(bindList, bun[t].dst)

\* What is assumed in the theorem on this daemon's signals: nobody else signs as
\* this daemon.
NoForgedSignal == \A b \in NetIn : ~OwnSignal(b)

\* No custody bundle anywhere on the way carries a signal.
NotSignal(b) == b.iscustody => b.payload = Data
PayloadPlaces ==
    /\ \A b \in wire : NotSignal(b)
    /\ \A t \in Threads : NotSignal(bun[t])
    /\ \A b \in Range(list) : b.payload = Data

\* A signal of this daemon names one of these replicas, and one that came from
\* the neighbour it goes to.
VouchedBy(seen, b) ==
    OwnSignal(b) => \E d \in seen : /\ d.cust \in Peers
                                    /\ KeyOf(d) = b.payload.named
                                    /\ d.cust = b.dst

SignalsVouched ==
    /\ \A b \in wire \cup Range(list) : VouchedBy(Range(replicas), b)
    /\ \A t \in Threads : /\ VouchedBy(Range(replicas), bun[t])
                          /\ VouchedBy(Range(replicas), adm[t])
    /\ \A t \in Receivers : pc[t] = "src_check" => bun[t] \in Range(replicas)
    /\ bun["usock"].iscustody => IsLocal(bindList, bun["usock"].src)

\* What came from a neighbour is what it sent, as this daemon has read it.
SentAs(arrivals, d) == \E b \in arrivals : ReadFrom(b, d)

ArrivalsKept ==
    /\ bun["isock"].iscustody => SentAs(NetIn \cup Loops, bun["isock"])
    /\ \A d \in Range(replicas) : d.cust \in Peers => SentAs(NetIn \cup Loops, d)
    /\ pc["isock"] \in {"seq_lock", "seq_read", "seq_write"} => Signalling("isock")
=============================================================================
