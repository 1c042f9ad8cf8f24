------------------------------ MODULE BpSockets ------------------------------
(***************************************************************************)
(* The client library, and how the daemon knows who calls.  bp_socket names *)
(* a UNIX socket after the process and a counter; the daemon takes the name *)
(* a request comes from for the caller.  The file of a socket stays after   *)
(* the process has gone, until the script "start" removes them all, and the *)
(* kernel gives process numbers again.                                      *)
(*                                                                          *)
(* What the daemon does with a message is the subject of Bpd and            *)
(* CustodyNet; here it goes to a local endpoint or nowhere.                 *)
(***************************************************************************)
EXTENDS Integers, Sequences, SequencesExt

CONSTANTS
    Pid,         \* process numbers
    Endpoint,    \* what applications bind and send to
    Radix,       \* of the numerals in a name: 10 in the code
    None,        \* no endpoint, in a request that has none
    QueueCap,    \* datagrams that the daemon's socket holds
    MaxRuns,     \* bound: processes that are started
    MaxSockets,  \* bound: sockets a process opens
    MaxCalls,    \* bound: requests to the daemon
    MaxStarts    \* bound: times the daemon is started again

ASSUME EndpointAssumption == None \notin Endpoint
ASSUME NumeralAssumption == Pid \subseteq Nat /\ Radix \in Nat \ {0, 1}
ASSUME BoundAssumption ==
    {QueueCap, MaxRuns, MaxSockets, MaxCalls, MaxStarts} \subseteq Nat

VARIABLES
    runs,        \* the processes in order of their start
    sock,        \* the state of each socket: "new", "open", "closed"
    name,        \* sun_path of each socket, without the directory
    files,       \* the names in /tmp
    up,          \* the daemon runs
    requests,    \* datagrams in the daemon's socket
    remote_uaddr,\* the buffer that recvfrom puts the caller's name in
    binds,       \* bpd_bind_list
    calls,       \* requests made
    starts,      \* times the daemon has been started again
    asked,       \* history: who has asked to be bound to what
    credited,    \* history: the source endpoint given to whose message
    delivered,   \* history: messages for which endpoint have reached whom
    survived     \* history: names of sockets whose file a start has removed

libVars == <<runs, sock, name, files, calls>>
daemonVars == <<up, requests, remote_uaddr, binds, starts>>
historyVars == <<asked, credited, delivered, survived>>
vars == <<libVars, daemonVars, historyVars>>

Socket == [run : 1..MaxRuns, index : 0..MaxSockets-1]
Unnamed == <<>>

Init ==
    /\ runs = <<>>
    /\ sock = [s \in Socket |-> "new"]
    /\ name = [s \in Socket |-> Unnamed]
    /\ files = {}
    /\ up = TRUE
    /\ requests = <<>>
    /\ remote_uaddr = Unnamed
    /\ binds = <<>>
    /\ calls = 0
    /\ starts = 0
    /\ asked = {}
    /\ credited = {}
    /\ delivered = {}
    /\ survived = {}

-----------------------------------------------------------------------------
(***************************************************************************)
(* Names.                                                                  *)
(***************************************************************************)
\* The loop of itoa: the digits of i, the last one first.
Digits[i \in Nat] == IF i = 0 THEN <<>> ELSE <<i % Radix>> \o Digits[i \div Radix]

itoa(i) == IF i = 0 THEN <<0>> ELSE Reverse(Digits[i])

\* The characters of a name are digits and one that is none.
Underscore == Radix

pid_usock_path(p, i) == itoa(p) \o <<Underscore>> \o itoa(i)

-----------------------------------------------------------------------------
(***************************************************************************)
(* Applications.                                                           *)
(***************************************************************************)
Alive(r) == r \in DOMAIN runs /\ runs[r].alive
Opened(r) == {s \in Socket : s.run = r /\ sock[s] # "new"}

\* A process is started, under a number that no living process has.
StartProcess(p) ==
    /\ Len(runs) < MaxRuns
    /\ \A r \in DOMAIN runs : Alive(r) => runs[r].pid # p
    /\ runs' = Append(runs, [pid |-> p, alive |-> TRUE])
    /\ UNCHANGED <<sock, name, files, calls, daemonVars, historyVars>>

Exit(r) ==
    /\ Alive(r)
    /\ runs' = [runs EXCEPT ![r].alive = FALSE]
    /\ sock' = [s \in Socket |-> IF s \in Opened(r) THEN "closed" ELSE sock[s]]
    /\ UNCHANGED <<name, files, calls, daemonVars, historyVars>>

\* The sockets of a process are numbered.  bind(2) fails when the file is there:
\* that is printed, and the socket is returned without a name.
bp_socket(s) ==
    LET path == pid_usock_path(runs[s.run].pid, s.index) IN
    /\ Alive(s.run)
    /\ sock[s] = "new"
    /\ \A t \in Socket : t.run = s.run /\ t.index < s.index => sock[t] # "new"
    /\ sock' = [sock EXCEPT ![s] = "open"]
    /\ name' = [name EXCEPT ![s] = IF path \in files THEN Unnamed ELSE path]
    /\ files' = files \cup {path}
    /\ UNCHANGED <<runs, calls, daemonVars, historyVars>>

\* A datagram to the daemon, for which sendto waits until there is room; without
\* a daemon it fails, which nobody sees.
Call(s, signal, e) ==
    /\ sock[s] = "open"
    /\ calls < MaxCalls /\ Len(requests) < QueueCap
    /\ calls' = calls + 1
    /\ requests' = IF up THEN Append(requests, [from |-> s, signal |-> signal, eid |-> e])
                   ELSE requests
    /\ UNCHANGED <<runs, name, files, up, remote_uaddr, binds, starts, credited,
                   delivered, survived>>

bp_bind(s, e) ==
    /\ Call(s, "BIND", e)
    /\ asked' = asked \cup {<<s, e>>}
    /\ UNCHANGED sock

bp_sendto(s, e) == Call(s, "SEND", e) /\ UNCHANGED <<sock, asked>>

bp_close(s) ==
    /\ Call(s, "CLOSE", None)
    /\ sock' = [sock EXCEPT ![s] = "closed"]
    /\ UNCHANGED asked

-----------------------------------------------------------------------------
(***************************************************************************)
(* The daemon.                                                             *)
(***************************************************************************)
\* Mutant of uri_compare: it ends with the schemes, which are all alike.
SameScheme(e, f) == TRUE

uri_compare(e, f) == e = f

\* Mutant of AddressOf: the address is read before the request is received.
StaleAddress(q) == remote_uaddr

\* What recvfrom leaves in remote_uaddr: nothing new for a socket without name.
AddressOf(q) == IF name[q.from] = Unnamed THEN remote_uaddr ELSE name[q.from]

bpd_bind_list_map_uaddr(a) == binds[Min({i \in DOMAIN binds : binds[i].path = a})].eid

\* The living socket that a name in the bind list leads to.
Reached(path) == {s \in Socket : sock[s] = "open" /\ name[s] = path /\ path \in files
                                 /\ path # Unnamed}

\* Sockets whose files were removed are not reached, though another socket may
\* have made a file of that name since.
Receivers(e) ==
    LET bound == {i \in DOMAIN binds : uri_compare(binds[i].eid, e)} IN
    IF bound = {} THEN {} ELSE Reached(binds[Min(bound)].path)

Die ==
    /\ up' = FALSE
    /\ requests' = <<>>
    /\ binds' = <<>>
    /\ remote_uaddr' = Unnamed

ServeBind(q) ==
    /\ q.signal = "BIND"
    /\ binds' = Append(binds, [eid |-> q.eid, path |-> AddressOf(q)])
    /\ UNCHANGED <<credited, delivered>>

\* The binding becomes invalid, which no look-up reads.
ServeClose(q) == q.signal = "CLOSE" /\ UNCHANGED <<binds, credited, delivered>>

IsBound(a) == \E i \in DOMAIN binds : binds[i].path = a

ServeSend(q) ==
    /\ q.signal = "SEND"
    /\ IsBound(AddressOf(q))
    /\ credited' = credited \cup {<<q.from, bpd_bind_list_map_uaddr(AddressOf(q))>>}
    /\ delivered' = delivered \cup {<<s, q.eid>> : s \in Receivers(q.eid)}
    /\ UNCHANGED binds

bpd_usock_recv_thread ==
    /\ up
    /\ requests # <<>>
    /\ LET q == Head(requests) IN
          /\ remote_uaddr' = AddressOf(q)
          /\ ServeBind(q) \/ ServeClose(q) \/ ServeSend(q)
    /\ requests' = Tail(requests)
    /\ UNCHANGED <<libVars, up, starts, asked, survived>>

\* A send from a name that is not bound is a null pointer.
ServeUnbound ==
    /\ up
    /\ requests # <<>>
    /\ LET q == Head(requests) IN q.signal = "SEND" /\ ~IsBound(AddressOf(q))
    /\ Die
    /\ UNCHANGED <<libVars, starts, historyVars>>

Crash == up /\ Die /\ UNCHANGED <<libVars, starts, historyVars>>

\* The script "start": rm /tmp/bp_*, and a new daemon.
Start ==
    /\ ~up
    /\ starts < MaxStarts
    /\ starts' = starts + 1
    /\ up' = TRUE
    /\ files' = {}
    /\ survived' = survived \cup {name[s] : s \in {t \in Socket : sock[t] = "open"}}
    /\ UNCHANGED <<runs, sock, name, calls, requests, remote_uaddr, binds, asked,
                   credited, delivered>>

Application ==
    \/ \E p \in Pid : StartProcess(p)
    \/ \E r \in 1..MaxRuns : Exit(r)
    \/ \E s \in Socket :
          \/ bp_socket(s)
          \/ bp_close(s)
          \/ \E e \in Endpoint : bp_bind(s, e) \/ bp_sendto(s, e)

Next == Application \/ bpd_usock_recv_thread \/ ServeUnbound \/ Crash \/ Start

Spec == Init /\ [][Next]_vars

-----------------------------------------------------------------------------
(***************************************************************************)
(* Properties.                                                             *)
(***************************************************************************)
HasName(s) == name[s] # Unnamed

\* A message is credited to an endpoint that its own sender has bound, however
\* late the daemon serves the request, whatever processes have ended and begun
\* since, and although sockets without a name are taken for the last caller.
\* But for a name that was given again after a start has removed its file while
\* its first owner lived on.
SourceIsOwn ==
    \A c \in credited : HasName(c[1]) =>
        c \in asked \/ name[c[1]] \in survived

\* A message for an endpoint reaches no socket but one that has bound it, unless
\* a socket without a name has bound it, or the name was given again.
ReachesWhoAsked ==
    \A d \in delivered :
        \/ d \in asked
        \/ \E a \in asked : a[2] = d[2] /\ ~HasName(a[1])
        \/ name[d[1]] \in survived
=============================================================================
