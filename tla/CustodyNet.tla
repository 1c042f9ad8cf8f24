----------------------------- MODULE CustodyNet -----------------------------
(***************************************************************************)
(* Several bundle protocol daemons that pass custody bundles on, the       *)
(* applications at both ends and the datagrams in between, which get lost, *)
(* repeated and reordered.  Daemons die and are started again, with the    *)
(* script "start"; nothing of theirs survives.                             *)
(*                                                                         *)
(* A handler of a daemon is one step here: its interleavings with the      *)
(* daemon's other threads are the subject of Bpd, the hash tables that of  *)
(* HashTable.  Only custody bundles and custody signals are modelled.      *)
(* Decoding leaves stale bytes in sequence numbers, in bundles and in      *)
(* custody signals; in lengths and offsets it is the subject of            *)
(* BundleTransfer.                                                         *)
(***************************************************************************)
EXTENDS StaleBytes, Sequences, FiniteSets, SequencesExt

CONSTANTS
    Node,       \* the daemons, named by the endpoint of their custodian
    AppEid,     \* the endpoints applications bind to or send to
    Nowhere,    \* the next hop of an endpoint that is not in a forward table
    Route,      \* the forward tables: Route[n][e] is the next hop
    Hops,       \* how far a daemon is from an application's endpoint
    Socket,     \* the sockets of applications
    Home,       \* the node each application runs at
    Names,      \* the endpoint each application binds its socket to
    Targets,    \* the endpoints each application sends to
    Text,       \* payloads
    StaleWords, \* what the integers each daemon decodes into may hold before
    Faults,     \* what the network does to datagrams
    Closers,    \* the applications that may close their socket
    Watched,    \* the keys that fairness and the liveness properties speak of
    MaxTime,    \* bound: seconds that pass
    MaxSends,   \* bound: messages sent
    MaxCrashes  \* bound: daemons that die, but for requests they cannot serve

ASSUME EndpointAssumption == Nowhere \notin Node /\ Node \cap AppEid = {}
ASSUME RouteAssumption ==
    /\ Route \in [Node -> [Node \cup AppEid -> Node \cup {Nowhere}]]
    /\ \A n \in Node, e \in Node \cup AppEid : Route[n][e] # n
\* The forward tables lead bundles for an application's endpoint nowhere twice.
ASSUME LoopFreeAssumption ==
    /\ Hops \in [AppEid -> [Node -> Nat]]
    /\ \A n \in Node, e \in AppEid :
          Route[n][e] # Nowhere => Hops[e][Route[n][e]] < Hops[e][n]
ASSUME ApplicationAssumption ==
    /\ Home \in [Socket -> Node]
    /\ Names \in [Socket -> AppEid]
    /\ Targets \in [Socket -> SUBSET AppEid]
    /\ Closers \subseteq Socket
ASSUME FaultAssumption == Faults \subseteq {"bundle loss", "signal loss", "repeat"}
ASSUME MemoryAssumption == StaleWords \in [Node -> SUBSET Number \ {{}}]
ASSUME BoundAssumption == {MaxTime, MaxSends, MaxCrashes} \subseteq Nat

VARIABLES
    sock,       \* the state of each application's socket
    got,        \* the messages each application has received
    again,      \* the messages an application has received more than once
    wire,       \* bundles in flight
    signals,    \* custody signals in flight
    now,        \* the wall clock, in seconds
    up,         \* the daemons that run
    binds,      \* bpd_bind_list of each daemon
    list,       \* bundle_list_ptr: each custody bundle as it was decoded
    replicas,   \* replica_list_ptr
    counter,    \* bpd_creation_sequence_number_counter
    tally,      \* messages sent, and daemons that have died of their own
    accepted,   \* history: messages a daemon has accepted from an application
    handed,     \* history: messages handed to an open socket
    missed,     \* history: messages not kept that were for a socket that is gone
    misread,    \* history: messages some daemon has read another number of
    atRisk      \* history: messages a daemon died with, or that share a key

appVars == <<sock, got, again>>
netVars == <<wire, signals>>
daemonVars == <<up, binds, list, replicas, counter>>
historyVars == <<accepted, handed, missed, misread, atRisk>>
vars == <<appVars, netVars, now, daemonVars, tally, historyVars>>

-----------------------------------------------------------------------------
\* What an application has sent, with the number it was given.
Message == [src : AppEid, dst : AppEid, time : 0..MaxTime, seq : Number, text : Text]

\* A bundle: the message it carries, the number that its header gives for that
\* of the message, and the custodian.
Bundle == [cust : Node, seq : Number, msg : Message]

\* The fields of the header: the digest of its encoding is the bundle as read.
AsRead(b) == [b EXCEPT !.msg.seq = b.seq]

\* What a custody signal names, and the key of a stored bundle.
Key == [time : 0..MaxTime, seq : Number]
KeyOf(b) == [time |-> b.msg.time, seq |-> b.seq]

ASSUME WatchedAssumption == Watched \subseteq Key

\* A daemon may hold message x under k, and a signal for it may name k.
Matches(x, k) == x.time = k.time /\ ReadAs(x.seq, k.seq)

\* What node n makes of a bundle, or of the key in a signal: it decodes into a
\* struct that is not cleared before.
Decoded(n, r) == {[r EXCEPT !.seq = Overlay(s, @)] : s \in StaleWords[n]}

\* r has been decoded to d, a bundle of one of the messages X.
Reading(r, d, X) == misread' = IF d = r THEN misread ELSE misread \cup X

Arrival == [to : Node, bundle : Bundle]
Signal == [to : Node, cust : Node, named : Key]

Init ==
    /\ sock = [s \in Socket |-> "new"]
    /\ got = [s \in Socket |-> {}]
    /\ again = {}
    /\ wire = {}
    /\ signals = {}
    /\ now = 0
    /\ up = Node
    /\ binds = [n \in Node |-> <<>>]
    /\ list = [n \in Node |-> {}]
    /\ replicas = [n \in Node |-> {}]
    /\ counter = [n \in Node |-> 0]
    /\ tally = [sends |-> 0, crashes |-> 0]
    /\ accepted = {}
    /\ handed = {}
    /\ missed = {}
    /\ misread = {}
    /\ atRisk = {}

-----------------------------------------------------------------------------
(***************************************************************************)
(* bpd_forward.                                                            *)
(***************************************************************************)
\* bpd_bind_list: the first socket bound to the endpoint, closed or not.
IsLocal(n, e) == \E i \in DOMAIN binds[n] : Names[binds[n][i]] = e

BoundTo(n, e) ==
    binds[n][CHOOSE i \in DOMAIN binds[n] :
                 Names[binds[n][i]] = e /\ \A j \in 1..i-1 : Names[binds[n][j]] # e]

IsOpen(n, e) == sock[BoundTo(n, e)] = "open"

\* The messages of X that go to applications of node n.  Sending to a socket
\* that is gone fails, and nobody looks at the failure.
Dispatch(n, X) ==
    LET For(s) == {x \in X : IsOpen(n, x.dst) /\ s = BoundTo(n, x.dst)} IN
    /\ got' = [s \in Socket |-> got[s] \cup For(s)]
    /\ again' = again \cup UNION {For(s) \cap got[s] : s \in Socket}
    /\ handed' = handed \cup {x \in X : IsOpen(n, x.dst)}

\* The copy in the bundle list, of which this daemon is the custodian.
Stored(n, b) == [b EXCEPT !.cust = n]

\* Mutant of Forwarded: the result -1 of the look-up is not tested.
ForwardedAnyway(n, B) ==
    {[to |-> Route[n][b.msg.dst], bundle |-> Stored(n, b)] : b \in B}

\* The datagrams of node n for those of its bundles that have a next hop.
Forwarded(n, B) ==
    {[to |-> Route[n][b.msg.dst], bundle |-> Stored(n, b)] :
        b \in {c \in B : Route[n][c.msg.dst] # Nowhere}}

\* A custody signal, from node n or through it, to custodian c.
Sent(n, c, k) ==
    IF Route[n][c] = Nowhere THEN {}
    ELSE {[to |-> Route[n][c], cust |-> c, named |-> k]}

-----------------------------------------------------------------------------
(***************************************************************************)
(* bpd_bundle_list_insert_custody, of bundle b that comes to node n.       *)
(***************************************************************************)
\* Mutant of Fresh: there is no filter.
AlwaysFresh(n, b) == TRUE

Fresh(n, b) == AsRead(b) \notin {AsRead(r) : r \in replicas[n]}

\* Mutant of MustSignal: a replica is answered as well.
SignalAlways(n, b) == ~IsLocal(n, b.msg.src)

\* Mutant of MustSignal: only a daemon that keeps the bundle signals.
SignalIfKept(n, b) ==
    Fresh(n, b) /\ ~IsLocal(n, b.msg.src) /\ ~IsLocal(n, b.msg.dst)

\* The previous custodian is told, once, unless b comes from an application of
\* this node.  No bundle reaches its own custodian: it is another node.
MustSignal(n, b) == Fresh(n, b) /\ ~IsLocal(n, b.msg.src)

\* A bundle for a local endpoint is sent to its socket, and kept nowhere even
\* if that socket is gone.
HandOver(n, b) ==
    /\ Dispatch(n, {b.msg})
    /\ missed' = IF IsOpen(n, b.msg.dst) THEN missed ELSE missed \cup {b.msg}
    /\ UNCHANGED list

\* Mutant of Keep: only bundles of applications here are kept.
KeepOwn(n, b) ==
    IF IsLocal(n, b.msg.dst)
    THEN HandOver(n, b)
    ELSE /\ Dispatch(n, {})
         /\ list' = [list EXCEPT ![n] =
                        IF IsLocal(n, b.msg.src) THEN @ \cup {b} ELSE @]
         /\ UNCHANGED missed

Keep(n, b) ==
    IF IsLocal(n, b.msg.dst)
    THEN HandOver(n, b)
    ELSE /\ Dispatch(n, {})
         /\ list' = [list EXCEPT ![n] = @ \cup {b}]
         /\ UNCHANGED missed

InsertCustody(n, b) ==
    IF Fresh(n, b)
    THEN /\ replicas' = [replicas EXCEPT ![n] = @ \cup {b}]
         /\ Keep(n, b)
    ELSE Dispatch(n, {}) /\ UNCHANGED <<list, replicas, missed>>

-----------------------------------------------------------------------------
(***************************************************************************)
(* A daemon dies, on its own or by a null pointer, with all it holds.      *)
(***************************************************************************)
Held(n) == {b.msg : b \in list[n]}

Die(n) ==
    /\ n \in up
    /\ up' = up \ {n}
    /\ binds' = [binds EXCEPT ![n] = <<>>]
    /\ list' = [list EXCEPT ![n] = {}]
    /\ replicas' = [replicas EXCEPT ![n] = {}]
    /\ counter' = [counter EXCEPT ![n] = 0]
    /\ atRisk' = atRisk \cup Held(n)
    /\ UNCHANGED <<appVars, netVars, now, accepted, handed, missed, misread>>

Crash(n) ==
    /\ tally.crashes < MaxCrashes
    /\ tally' = [tally EXCEPT !.crashes = @ + 1]
    /\ Die(n)

\* The start script removes the socket files of all applications first: what
\* is open by then can send and is not found any more.
Restart(n) ==
    /\ n \notin up
    /\ up' = up \cup {n}
    /\ sock' = [s \in Socket |-> IF Home[s] = n /\ sock[s] = "open"
                                 THEN "unlinked" ELSE sock[s]]
    /\ UNCHANGED <<got, again, netVars, now, binds, list, replicas, counter,
                   tally, historyVars>>

-----------------------------------------------------------------------------
(***************************************************************************)
(* Applications.                                                           *)
(***************************************************************************)
\* bp_socket and bp_bind, which no answer comes to.
bp_bind(s) ==
    /\ sock[s] = "new"
    /\ sock' = [sock EXCEPT ![s] = "open"]
    /\ binds' = IF Home[s] \in up THEN [binds EXCEPT ![Home[s]] = Append(@, s)]
                ELSE binds
    /\ UNCHANGED <<got, again, netVars, now, up, list, replicas, counter, tally,
                   historyVars>>

\* The daemon marks the binding invalid, which no look-up reads.
bp_close(s) ==
    /\ s \in Closers
    /\ sock[s] \in {"open", "unlinked"}
    /\ sock' = [sock EXCEPT ![s] = "closed"]
    /\ UNCHANGED <<got, again, netVars, now, daemonVars, tally, historyVars>>

\* Custody signals may not tell these messages apart.
Confusable(x, y) == \E k \in Key : Matches(x, k) /\ Matches(y, k)

Clashes(x) == {y \in accepted : y # x /\ Confusable(x, y)}

\* The message an application's request becomes.
Composed(s, e, text) ==
    [src |-> Names[s], dst |-> e, time |-> now, seq |-> counter[Home[s]],
     text |-> text]

\* bp_sendto(.., 1) and bpd_process_signal_send, for a socket that the daemon
\* knows.  The message is dispatched or stored; the next scan forwards it.
Accept(s, x) ==
    LET n == Home[s] IN
    /\ counter' = [counter EXCEPT ![n] = (@ + 1) % SeqSpan]
    /\ accepted' = accepted \cup {x}
    /\ atRisk' = IF Clashes(x) = {} THEN atRisk ELSE atRisk \cup Clashes(x) \cup {x}
    /\ InsertCustody(n, [cust |-> n, seq |-> x.seq, msg |-> x])
    /\ UNCHANGED <<sock, netVars, now, up, binds, misread>>

bp_sendto(s, e, text) ==
    /\ sock[s] \in {"open", "unlinked"}
    /\ Home[s] \in up
    /\ s \in Range(binds[Home[s]])
    /\ tally.sends < MaxSends
    /\ tally' = [tally EXCEPT !.sends = @ + 1]
    /\ Accept(s, Composed(s, e, text))

\* The daemon has died since the application bound, or was not there then: it
\* finds no endpoint for the socket and reads through a null pointer.  This takes
\* a death before, and does not count as one of MaxCrashes.
SendUnbound(s) ==
    /\ sock[s] \in {"open", "unlinked"}
    /\ Targets[s] # {}
    /\ s \notin Range(binds[Home[s]])
    /\ tally.crashes > 0
    /\ Die(Home[s])
    /\ UNCHANGED tally

-----------------------------------------------------------------------------
(***************************************************************************)
(* The daemons.                                                            *)
(***************************************************************************)
\* What is left of a set of datagrams when one of them has been received.
Without(M, m) == {M \ {m}} \cup (IF "repeat" \in Faults THEN {M} ELSE {})

\* bpd_bundle_list_insert of bundle b, as decoded.
TakeIn(n, b) ==
    /\ IF MustSignal(n, b)
       THEN /\ signals' = signals \cup Sent(n, b.cust, KeyOf(b))
            /\ counter' = [counter EXCEPT ![n] = (@ + 1) % SeqSpan]
       ELSE UNCHANGED <<signals, counter>>
    /\ InsertCustody(n, b)

ReceiveBundle(m) ==
    /\ m.to \in up
    /\ wire' \in Without(wire, m)
    /\ \E b \in Decoded(m.to, m.bundle) :
          TakeIn(m.to, b) /\ Reading(m.bundle, b, {b.msg})
    /\ UNCHANGED <<sock, now, up, binds, tally, accepted, atRisk>>

\* Mutant of Release: the key is not looked at.
ReleaseAny(m) ==
    /\ m.cust = m.to
    /\ IF list[m.to] = {} THEN UNCHANGED list
       ELSE \E b \in list[m.to] : list' = [list EXCEPT ![m.to] = @ \ {b}]
    /\ signals' \in Without(signals, m)
    /\ UNCHANGED misread

\* bpd_bundle_list_delete at node n: the entry goes, if there is one under the
\* key.  Which of several goes is a matter of the hash table.
Delete(n, k) ==
    LET named == {b \in list[n] : KeyOf(b) = k} IN
    IF named = {} THEN UNCHANGED list
    ELSE \E b \in named : list' = [list EXCEPT ![n] = @ \ {b}]

\* bpd_process_admin_record.
Release(m) ==
    /\ m.cust = m.to
    /\ \E k \in Decoded(m.to, m.named) :
          /\ Delete(m.to, k)
          /\ Reading(m.named, k, {x \in accepted : Matches(x, m.named)})
    /\ signals' \in Without(signals, m)

\* A signal on its way to another custodian.
PassOn(m) ==
    /\ m.cust # m.to
    /\ \E S \in Without(signals, m) : signals' = S \cup Sent(m.to, m.cust, m.named)
    /\ UNCHANGED <<list, misread>>

ReceiveSignal(m) ==
    /\ m.to \in up
    /\ Release(m) \/ PassOn(m)
    /\ UNCHANGED <<appVars, wire, now, up, binds, replicas, counter, tally,
                   accepted, handed, missed, atRisk>>

\* bpd_bundle_list_scan_thread: every five seconds, bpd_forward of every entry.
Scan(n) ==
    /\ n \in up
    /\ LET there == {b \in list[n] : IsLocal(n, b.msg.dst)} IN
          /\ Dispatch(n, {b.msg : b \in there})
          /\ wire' = wire \cup Forwarded(n, list[n] \ there)
    /\ UNCHANGED <<sock, signals, now, daemonVars, tally, accepted, missed,
                   misread, atRisk>>

-----------------------------------------------------------------------------
(***************************************************************************)
(* The network and the clock.                                              *)
(***************************************************************************)
Lose ==
    /\ \/ "bundle loss" \in Faults
          /\ \E m \in wire : wire' = wire \ {m} /\ UNCHANGED signals
       \/ "signal loss" \in Faults
          /\ \E m \in signals : signals' = signals \ {m} /\ UNCHANGED wire
    /\ UNCHANGED <<appVars, now, daemonVars, tally, historyVars>>

Tick ==
    /\ now < MaxTime
    /\ now' = now + 1
    /\ UNCHANGED <<appVars, netVars, daemonVars, tally, historyVars>>

Application ==
    \E s \in Socket :
        \/ bp_bind(s) \/ bp_close(s) \/ SendUnbound(s)
        \/ \E e \in Targets[s], text \in Text : bp_sendto(s, e, text)

Next ==
    \/ Application
    \/ \E m \in wire : ReceiveBundle(m)
    \/ \E m \in signals : ReceiveSignal(m)
    \/ \E n \in Node : Scan(n) \/ Crash(n) \/ Restart(n)
    \/ Lose
    \/ Tick

Spec == Init /\ [][Next]_vars

\* The threads of a daemon are scheduled.  A bundle whose datagrams are sent
\* again and again gets through in the end, and a signal that stays in flight
\* arrives.  An application that is to receive binds its socket.
BundleGetsThrough(n, k) ==
    \E m \in wire : m.to = n /\ KeyOf(m.bundle) = k /\ ReceiveBundle(m)

SignalArrives(n, k) ==
    \E m \in signals : m.to = n /\ m.named = k /\ ReceiveSignal(m)

Fairness ==
    /\ \A n \in Node : WF_vars(Scan(n))
    /\ \A n \in Node, k \in Watched :
          SF_vars(BundleGetsThrough(n, k)) /\ WF_vars(SignalArrives(n, k))
    /\ \A s \in Socket : WF_vars(bp_bind(s))

FairSpec == Spec /\ Fairness

-----------------------------------------------------------------------------
(***************************************************************************)
(* Properties.                                                             *)
(***************************************************************************)
\* Every variable holds a value of its type.
TypeOK ==
    /\ sock \in [Socket -> {"new", "open", "unlinked", "closed"}]
    /\ got \in [Socket -> SUBSET Message]
    /\ again \subseteq Message
    /\ wire \subseteq Arrival
    /\ signals \subseteq Signal
    /\ now \in 0..MaxTime
    /\ up \subseteq Node
    /\ binds \in [Node -> Seq(Socket)]
    /\ list \in [Node -> SUBSET Bundle]
    /\ replicas \in [Node -> SUBSET Bundle]
    /\ counter \in [Node -> Number]
    /\ tally \in [sends : 0..MaxSends, crashes : 0..MaxCrashes]
    /\ {accepted, handed, missed, misread, atRisk} \subseteq SUBSET Message

\* Custody: a message that a daemon has accepted is in the list of some daemon
\* until it is handed to the open socket of its destination.  The code has three
\* ways of losing one, and no other: a daemon that held it died (nothing is
\* persisted); its key, stale bytes included, may be another message's, so that
\* a signal for that one may have released it; or it came for a local endpoint
\* whose socket was gone, and bpd_forward neither kept it nor looked at sendto.
CustodyKept ==
    \A x \in accepted \ (handed \cup missed \cup atRisk) : \E n \in Node : x \in Held(n)

\* A custody signal is true when it arrives, however late, however its key was
\* read, and whatever daemons have passed the bundle on since: what it releases
\* is kept nearer to its destination, has been handed to an open socket there,
\* or is lost in one of those three ways.
Safe(x, c) ==
    \/ x \in handed \cup missed \cup atRisk
    \/ \E n \in Node : x \in Held(n) /\ Hops[x.dst][n] < Hops[x.dst][c]

SignalsAreTrue ==
    \A m \in signals : \A x \in accepted : Matches(x, m.named) => Safe(x, m.cust)

\* An application receives a message a second time only while the daemon keeps
\* it in its list, where it is because it came before the application had
\* bound (every scan dispatches it then), or after a daemon died, or when its
\* key is not its own: a signal for the other message releases it too early, or
\* when its number was misread, so that the filter takes it for a new one.
OnceIfBoundFirst ==
    tally.crashes = 0 =>
        \A x \in again \ (atRisk \cup misread) :
            \E n \in Node : x \in Held(n) /\ IsLocal(n, x.dst)

\* The daemons keep the promise of Custody.
Abstract == INSTANCE Custody WITH
    kept <- [n \in Node |-> Held(n)]

CustodySpec == Abstract!Spec

\* The next hop has taken b over and no signal that says so is left.
Orphan(n, b) ==
    /\ b \in list[n]
    /\ Route[n][b.msg.dst] # Nowhere
    /\ Stored(n, b) \in replicas[Route[n][b.msg.dst]]
    /\ \A m \in signals : ~(m.cust = n /\ m.named = KeyOf(b))

\* A lost custody signal is lost for good: the next custodian takes every
\* retransmission for a replica, so the bundle stays in the list, and is sent
\* again at each scan, until one of the two daemons dies, or reads its number
\* amiss.
OrphansStay ==
    [][\A n \in Node : \A b \in list[n] :
          Orphan(n, b) /\ b.msg \notin atRisk' \cup misread'
                       /\ {n, Route[n][b.msg.dst]} \subseteq up'
             => Orphan(n, b)']_vars

\* The sockets that are sent to, and the daemons that pass it on.
Awaited == {s \in Socket : \E r \in Socket : Names[s] \in Targets[r]}
Passing == {n \in Node : \E s \in Awaited : Route[n][Names[s]] # Nowhere}

\* A message for an endpoint that an application waits at is received there
\* (recvmulti.c waits until it has every message sendmulti.c sends), unless a
\* daemon is down or has died with it.
WaitingReceives ==
    \A s \in Awaited, k \in Watched :
        LET Due == {x \in accepted : x.time = k.time /\ x.seq = k.seq
                                       /\ x.dst = Names[s]} IN
        (sock[s] = "open" /\ Due # {}) ~>
            \/ sock[s] # "open" \/ up # Node
            \/ Due \cap (atRisk \cup UNION {got[r] : r \in Socket}) # {}

\* If no signal is lost, every custodian with a next hop is released of every
\* bundle that came when its destination was not bound here and has not been
\* since, unless a daemon is down meanwhile, or has read the number of the
\* bundle or of its signal with stale bytes: then the signal names, or is taken
\* to name, a key that nobody has, and the custodian may keep the bundle for
\* ever.
Waits(n, k) ==
    \E b \in list[n] :
        /\ KeyOf(b) = k
        /\ ~IsLocal(n, b.msg.dst) /\ Route[n][b.msg.dst] # Nowhere

CustodyEnds ==
    \A n \in Passing, k \in Watched :
        Waits(n, k) ~>
            \/ ~Waits(n, k) \/ up # Node
            \/ \E x \in misread : Matches(x, k)
-----------------------------------------------------------------------------
(***************************************************************************)
(* Parts of the inductive invariant from which the promise follows.        *)
(***************************************************************************)
\* Nothing is passed on that no application has sent.
NothingInvented ==
    /\ \A n \in Node : \A b \in list[n] \cup replicas[n] : b.msg \in accepted
    /\ \A m \in wire : m.bundle.msg \in accepted
    /\ \A m \in signals : \E x \in accepted : Matches(x, m.named)

\* Whatever number a bundle has been given, it may be that of its message.
NumbersMatch ==
    /\ \A n \in Node : \A b \in list[n] \cup replicas[n] : Matches(b.msg, KeyOf(b))
    /\ \A m \in wire : Matches(m.bundle.msg, KeyOf(m.bundle))

\* A bundle that an application has given to this daemon has not been decoded.
OwnNumbers ==
    \A n \in Node : \A b \in replicas[n] : b.cust = n => b.seq = b.msg.seq

\* A bundle on the wire is on its way from its custodian to the next hop.
OnTheWay == \A m \in wire : m.to = Route[m.bundle.cust][m.bundle.msg.dst]

ClashesAtRisk ==
    \A x, y \in accepted : x # y /\ Confusable(x, y) => {x, y} \subseteq atRisk

-----------------------------------------------------------------------------
(***************************************************************************)
(* Parts of the inductive invariant from which OnceIfBoundFirst follows.   *)
(***************************************************************************)
\* The applications of an endpoint run at one node, and the forward tables lead
\* there and no further.
EndpointsAtHome ==
    /\ \A s \in Socket : Route[Home[s]][Names[s]] = Nowhere
    /\ \A r, s \in Socket : Names[r] = Names[s] => Home[r] = Home[s]

BoundAtHome == \A n \in Node : \A i \in DOMAIN binds[n] : Home[binds[n][i]] = n

\* A custodian that is told to let go had a next hop.
SignalsComeBack ==
    \A m \in signals : \E x \in accepted :
        Matches(x, m.named) /\ Route[m.cust][x.dst] # Nowhere

\* While no daemon has died, the filter of a daemon has what ever came to it.
Came(n, x) == \E b \in replicas[n] : b.msg = x

CopiesCame ==
    /\ \A n \in Node : list[n] \subseteq replicas[n]
    /\ \A m \in wire : Came(m.bundle.cust, m.bundle.msg)
    /\ \A s \in Socket : \A x \in got[s] : Came(Home[s], x)

\* A message comes to its first daemon from an application, and to every other
\* one from the custodian whose next hop that is.
CameFrom ==
    /\ \A x \in accepted : \E s \in Socket :
          /\ Names[s] = x.src
             /\ [cust |-> Home[s], seq |-> x.seq, msg |-> x] \in replicas[Home[s]]
    /\ \A n \in Node : \A b \in replicas[n] :
          IF b.cust = n
          THEN \A p \in Node : Came(p, b.msg) => Hops[b.msg.dst][p] <= Hops[b.msg.dst][n]
          ELSE Came(b.cust, b.msg) /\ Route[b.cust][b.msg.dst] = n

\* The daemons a message has come to are one path.
OnePath ==
    \A x \in accepted : \A p, q \in Node :
        Came(p, x) /\ Came(q, x) /\ p # q /\ Hops[x.dst][q] <= Hops[x.dst][p] =>
            /\ Route[p][x.dst] # Nowhere
            /\ Came(Route[p][x.dst], x)
            /\ Hops[x.dst][q] <= Hops[x.dst][Route[p][x.dst]]

\* A message that no daemon has misread has its own number everywhere.
ReadRight ==
    /\ \A n \in Node : \A b \in list[n] \cup replicas[n] :
          b.msg \notin misread => b.seq = b.msg.seq
    /\ \A m \in wire :
          m.bundle.msg \notin misread => m.bundle.seq = m.bundle.msg.seq

PathInv ==
    /\ ReadRight
    /\ BoundAtHome /\ SignalsComeBack
    /\ tally.crashes = 0 => CopiesCame /\ CameFrom /\ OnePath
    /\ OnceIfBoundFirst
=============================================================================
