--------------------------- MODULE BpSocketsProofs ---------------------------
(***************************************************************************)
(* Proofs about BpSockets, for any number of processes, sockets, endpoints  *)
(* and requests: a caller is taken for itself.  Nothing is assumed of how   *)
(* names are spelled: that no file of the name was there is enough.         *)
(***************************************************************************)
EXTENDS BpSockets, TLAPS, WellFoundedInduction

\* The socket can make a request, or has made one that is not served yet.
Active(s) == sock[s] = "open" \/ \E k \in DOMAIN requests : requests[k].from = s

\* A name of which there may be a file, or of which the file was removed.
Taken(n) == n \in files \cup survived

Request == [from : Socket, signal : {"BIND", "SEND", "CLOSE"}, eid : Endpoint \cup {None}]

Shapes ==
    /\ sock \in [Socket -> {"new", "open", "closed"}]
    /\ DOMAIN name = Socket
    /\ up \in BOOLEAN
    /\ requests \in Seq(Request)
    /\ \E S : binds \in Seq(S)
    /\ asked \subseteq Socket \X Endpoint

\* A socket that is new has done nothing, and a daemon that is down knows nothing.
Beginnings ==
    /\ \A k \in DOMAIN requests : sock[requests[k].from] # "new"
    /\ \A c \in asked \cup credited \cup delivered : c[1] \in Socket /\ sock[c[1]] # "new"
    /\ \A s \in Socket : sock[s] = "new" => name[s] = Unnamed
    /\ ~up => requests = <<>> /\ binds = <<>> /\ remote_uaddr = Unnamed

\* What a request says is true, and a socket has made none after its last.
RequestsAreTrue ==
    \A k \in DOMAIN requests :
        /\ requests[k].signal = "BIND" => <<requests[k].from, requests[k].eid>> \in asked
        /\ requests[k].signal = "CLOSE" => sock[requests[k].from] # "open"
        /\ \A j \in DOMAIN requests :
              requests[k].signal = "CLOSE" /\ j > k => requests[j].from # requests[k].from

\* All the names in use are taken.
NamesAreTaken ==
    /\ \A s \in Socket : Active(s) /\ HasName(s) => Taken(name[s])
    /\ \A k \in DOMAIN binds : binds[k].path # Unnamed => Taken(binds[k].path)
    /\ remote_uaddr # Unnamed => Taken(remote_uaddr)

\* No two sockets in use have the same name, unless its file was removed.
NamesAreUnique ==
    \A s, t \in Socket :
        Active(s) /\ Active(t) /\ HasName(s) /\ name[s] = name[t]
            => s = t \/ name[s] \in survived

\* The first entry of a name in the bind list is by the socket of that name.
FirstIsOwn ==
    \A k \in DOMAIN binds, s \in Socket :
        /\ Active(s) /\ HasName(s) /\ name[s] = binds[k].path
        /\ \A j \in DOMAIN binds : j < k => binds[j].path # binds[k].path
        => <<s, binds[k].eid>> \in asked \/ name[s] \in survived

\* The caller that sockets without a name are taken for is bound or gone.
LastCallerIsBound ==
    remote_uaddr # Unnamed =>
        \/ \E k \in DOMAIN binds : binds[k].path = remote_uaddr
        \/ \A s \in Socket : name[s] = remote_uaddr => ~Active(s)
        \/ remote_uaddr \in survived

\* Some socket without a name has asked for e.
AskedUnnamed(e) == \E a \in asked : a[2] = e /\ ~HasName(a[1])

\* The other entries are by the socket of that name too, or by one without.
EntriesAreAsked ==
    \A k \in DOMAIN binds, s \in Socket :
        Active(s) /\ HasName(s) /\ name[s] = binds[k].path
            => <<s, binds[k].eid>> \in asked \/ AskedUnnamed(binds[k].eid)
               \/ name[s] \in survived

SockInv ==
    /\ Shapes
    /\ Beginnings
    /\ RequestsAreTrue
    /\ NamesAreTaken
    /\ NamesAreUnique
    /\ FirstIsOwn
    /\ LastCallerIsBound
    /\ EntriesAreAsked
    /\ SourceIsOwn
    /\ ReachesWhoAsked

-----------------------------------------------------------------------------
(***************************************************************************)
(* The beginning, and what the daemon forgets.                             *)
(***************************************************************************)
LEMMA RequestsAreTyped ==
    ASSUME Shapes
    PROVE  /\ \A k \in DOMAIN requests : requests[k] \in Request /\ k \in Nat
           /\ \A k \in DOMAIN requests : requests[k].from \in Socket
PROOF
  <1>1. \A k \in DOMAIN requests : requests[k] \in Request /\ k \in Nat
    BY DEF Shapes
  <1>2. \A q \in Request : q.from \in Socket
    BY DEF Request
  <1> QED BY <1>1, <1>2

LEMMA NoRequests == <<>> \in Seq(Request) /\ \E S : <<>> \in Seq(S)
PROOF
  <1>1. <<>> \in Seq(Request)
    OBVIOUS
  <1> QED BY <1>1

LEMMA SockInit == Init => SockInv
PROOF
  <1> SUFFICES ASSUME Init PROVE SockInv
    OBVIOUS
  <1> USE DEF Init
  <1>1. Shapes
    BY DEF Shapes
  <1>2. Beginnings /\ RequestsAreTrue
    BY DEF Beginnings, RequestsAreTrue
  <1>3. NamesAreTaken /\ NamesAreUnique
    BY DEF NamesAreTaken, NamesAreUnique, HasName
  <1>4. FirstIsOwn /\ LastCallerIsBound /\ EntriesAreAsked
    BY DEF FirstIsOwn, LastCallerIsBound, EntriesAreAsked
  <1>5. SourceIsOwn /\ ReachesWhoAsked
    BY DEF SourceIsOwn, ReachesWhoAsked
  <1> QED BY <1>1, <1>2, <1>3, <1>4, <1>5 DEF SockInv

LEMMA ForgettingKeeps ==
    ASSUME SockInv, Die,
           UNCHANGED <<sock, name, files, asked, credited, delivered, survived>>
    PROVE  SockInv'
PROOF
  <1> USE DEF SockInv
  <1>1. up' = FALSE /\ requests' = <<>> /\ binds' = <<>> /\ remote_uaddr' = Unnamed
    BY DEF Die
  <1>2. Shapes'
    BY <1>1, NoRequests DEF Shapes
  <1>3. Beginnings' /\ RequestsAreTrue'
    BY <1>1 DEF Beginnings, RequestsAreTrue
  <1>4. \A s \in Socket : Active(s)' => Active(s)
    BY <1>1 DEF Active
  <1>5. NamesAreTaken' /\ NamesAreUnique'
    BY <1>1, <1>4 DEF NamesAreTaken, NamesAreUnique, HasName, Taken
  <1>6. FirstIsOwn' /\ LastCallerIsBound' /\ EntriesAreAsked'
    BY <1>1 DEF FirstIsOwn, LastCallerIsBound, EntriesAreAsked
  <1>7. SourceIsOwn' /\ ReachesWhoAsked'
    BY DEF SourceIsOwn, ReachesWhoAsked, HasName
  <1> QED BY <1>2, <1>3, <1>5, <1>6, <1>7

LEMMA StartKeeps == SockInv /\ Start => SockInv'
PROOF
  <1> SUFFICES ASSUME SockInv, Start PROVE SockInv'
    OBVIOUS
  <1> USE DEF SockInv
  <1>1. requests = <<>> /\ binds = <<>> /\ remote_uaddr = Unnamed
    BY DEF Start, Beginnings
  <1>2. /\ survived' = survived \cup {name[s] : s \in {t \in Socket : sock[t] = "open"}}
        /\ UNCHANGED <<sock, name, requests, remote_uaddr, binds, asked, credited, delivered>>
        /\ up' = TRUE
    BY DEF Start
  <1>3. Shapes' /\ Beginnings' /\ RequestsAreTrue'
    BY <1>1, <1>2 DEF Shapes, Beginnings, RequestsAreTrue
  <1>4. ASSUME NEW s \in Socket, Active(s)' PROVE name[s] \in survived'
    BY <1>1, <1>2, <1>4 DEF Active
  <1>5. NamesAreTaken' /\ NamesAreUnique'
    BY <1>1, <1>2, <1>4 DEF NamesAreTaken, NamesAreUnique, Taken
  <1>6. FirstIsOwn' /\ LastCallerIsBound' /\ EntriesAreAsked'
    BY <1>1, <1>2 DEF FirstIsOwn, LastCallerIsBound, EntriesAreAsked
  <1>7. SourceIsOwn' /\ ReachesWhoAsked'
    BY <1>2 DEF SourceIsOwn, ReachesWhoAsked, HasName
  <1> QED BY <1>3, <1>5, <1>6, <1>7

-----------------------------------------------------------------------------
(***************************************************************************)
(* Applications.                                                           *)
(***************************************************************************)
\* A step after which no more sockets are in use, and the daemon is as before.
LEMMA CallersKeep ==
    ASSUME SockInv, UNCHANGED <<name, files, binds, remote_uaddr, credited, delivered, survived>>,
           asked \subseteq asked',
           \A s \in Socket : Active(s)' => Active(s)
    PROVE  /\ NamesAreTaken' /\ NamesAreUnique' /\ FirstIsOwn' /\ LastCallerIsBound'
           /\ EntriesAreAsked' /\ SourceIsOwn' /\ ReachesWhoAsked'
PROOF
  <1> USE DEF SockInv
  <1>1. \A e : AskedUnnamed(e) => AskedUnnamed(e)'
    BY DEF AskedUnnamed, HasName
  <1>2. NamesAreTaken' /\ NamesAreUnique'
    BY DEF NamesAreTaken, NamesAreUnique, Taken, HasName
  <1>3. FirstIsOwn'
    BY DEF FirstIsOwn, HasName
  <1>4. LastCallerIsBound'
    BY DEF LastCallerIsBound
  <1>5. EntriesAreAsked'
    BY <1>1 DEF EntriesAreAsked, HasName
  <1>6. SourceIsOwn' /\ ReachesWhoAsked'
    BY DEF SourceIsOwn, ReachesWhoAsked, HasName
  <1> QED BY <1>2, <1>3, <1>4, <1>5, <1>6

LEMMA ProcessesKeep ==
    ASSUME SockInv, (\E p \in Pid : StartProcess(p)) \/ (\E r \in 1..MaxRuns : Exit(r))
    PROVE  SockInv'
PROOF
  <1> USE DEF SockInv
  <1>1. /\ UNCHANGED <<name, files, binds, remote_uaddr, credited, delivered, survived,
                       asked, requests, up>>
        /\ \/ sock' = sock
           \/ \E r \in 1..MaxRuns :
                 sock' = [s \in Socket |-> IF s \in Opened(r) THEN "closed" ELSE sock[s]]
    BY DEF StartProcess, Exit, daemonVars, historyVars
  <1>2. Shapes'
    BY <1>1 DEF Shapes
  <1>3. \A s \in Socket : /\ sock'[s] = "open" => sock[s] = "open"
                          /\ sock'[s] = "new" <=> sock[s] = "new"
    BY <1>1 DEF Opened
  <1>4. \A k \in DOMAIN requests : requests[k].from \in Socket
    BY RequestsAreTyped
  <1>5. Beginnings' /\ RequestsAreTrue'
    BY <1>1, <1>3, <1>4 DEF Beginnings, RequestsAreTrue
  <1>6. \A s \in Socket : Active(s)' => Active(s)
    BY <1>1, <1>3 DEF Active
  <1> QED BY <1>1, <1>2, <1>5, <1>6, CallersKeep

\* What any request does, q being the request that is sent.
Calls(s, q) ==
    /\ q.from = s /\ sock[s] = "open"
    /\ requests' = IF up THEN Append(requests, q) ELSE requests
    /\ q.signal = "BIND" => <<s, q.eid>> \in asked'
    /\ sock' = IF q.signal = "CLOSE" THEN [sock EXCEPT ![s] = "closed"] ELSE sock
    /\ UNCHANGED <<name, files, binds, remote_uaddr, credited, delivered, survived, up>>
    /\ asked' = asked \/ (asked' = asked \cup {<<s, q.eid>>} /\ q.eid \in Endpoint)

LEMMA CallEffect ==
    ASSUME NEW s \in Socket,
           \/ bp_close(s)
           \/ \E e \in Endpoint : bp_bind(s, e) \/ bp_sendto(s, e)
    PROVE  \E q \in Request : Calls(s, q)
PROOF
  <1>1. CASE bp_close(s)
    <2> DEFINE q == [from |-> s, signal |-> "CLOSE", eid |-> None]
    <2>1. q \in Request
      BY DEF Request
    <2>2. Calls(s, q)
      BY <1>1 DEF bp_close, Call, Calls
    <2> QED BY <2>1, <2>2
  <1>2. ASSUME NEW e \in Endpoint, bp_bind(s, e) PROVE \E q \in Request : Calls(s, q)
    <2> DEFINE q == [from |-> s, signal |-> "BIND", eid |-> e]
    <2>1. q \in Request
      BY DEF Request
    <2>2. Calls(s, q)
      BY <1>2 DEF bp_bind, Call, Calls
    <2> QED BY <2>1, <2>2
  <1>3. ASSUME NEW e \in Endpoint, bp_sendto(s, e) PROVE \E q \in Request : Calls(s, q)
    <2> DEFINE q == [from |-> s, signal |-> "SEND", eid |-> e]
    <2>1. q \in Request
      BY DEF Request
    <2>2. Calls(s, q)
      BY <1>3 DEF bp_sendto, Call, Calls
    <2> QED BY <2>1, <2>2
  <1> QED BY <1>1, <1>2, <1>3

LEMMA CallKeeps ==
    ASSUME SockInv, NEW s \in Socket, NEW q \in Request, Calls(s, q)
    PROVE  SockInv'
PROOF
  <1> USE DEF SockInv
  <1>1. /\ requests \in Seq(Request) /\ sock \in [Socket -> {"new", "open", "closed"}]
        /\ q.from = s /\ sock[s] = "open" /\ asked \subseteq asked'
        /\ UNCHANGED <<name, files, binds, remote_uaddr, credited, delivered, survived, up>>
    BY DEF Shapes, Calls
  <1>2. /\ sock' \in [Socket -> {"new", "open", "closed"}]
        /\ \A t \in Socket : (sock'[t] = "new" <=> sock[t] = "new")
                            /\ (sock'[t] = "open" => sock[t] = "open")
        /\ q.signal = "CLOSE" => sock'[s] # "open"
    BY <1>1 DEF Calls
  <1>3. /\ requests' \in Seq(Request)
        /\ \A k \in DOMAIN requests : k \in DOMAIN requests' /\ requests'[k] = requests[k]
        /\ \A k \in DOMAIN requests' : \/ k \in DOMAIN requests
                                       \/ /\ requests'[k] = q /\ k = Len(requests) + 1
                                          /\ \A j \in DOMAIN requests' : j <= k
    BY <1>1 DEF Calls
  <1>4. Shapes'
    BY <1>1, <1>2, <1>3 DEF Shapes, Calls
  <1>5. \A k \in DOMAIN requests : requests[k].from \in Socket /\ k \in Nat
    BY RequestsAreTyped
  <1>6. Beginnings'
    <2>1. ASSUME NEW k \in DOMAIN requests' PROVE sock'[requests'[k].from] # "new"
      BY <1>1, <1>2, <1>3, <1>5 DEF Beginnings
    <2>2. ASSUME NEW c \in (asked \cup credited \cup delivered)'
          PROVE  c[1] \in Socket /\ sock'[c[1]] # "new"
      BY <1>1, <1>2 DEF Beginnings, Calls
    <2>3. up' \/ (requests' = <<>> /\ binds' = <<>> /\ remote_uaddr' = Unnamed)
      BY <1>1 DEF Beginnings, Calls
    <2> QED BY <2>1, <2>2, <2>3, <1>1, <1>2 DEF Beginnings
  <1>7. RequestsAreTrue'
    <2>1. ASSUME NEW k \in DOMAIN requests', requests'[k].signal = "BIND"
          PROVE  <<requests'[k].from, requests'[k].eid>> \in asked'
      BY <2>1, <1>1, <1>3 DEF RequestsAreTrue, Calls
    <2>2. ASSUME NEW k \in DOMAIN requests', requests'[k].signal = "CLOSE"
          PROVE  sock'[requests'[k].from] # "open"
      <3>1. CASE k \in DOMAIN requests
        BY <3>1, <2>2, <1>2, <1>3, <1>5 DEF RequestsAreTrue
      <3>2. CASE requests'[k] = q
        BY <3>2, <2>2, <1>1, <1>2
      <3> QED BY <3>1, <3>2, <1>3
    <2>3. ASSUME NEW k \in DOMAIN requests', requests'[k].signal = "CLOSE",
                 NEW j \in DOMAIN requests', j > k
          PROVE  requests'[j].from # requests'[k].from
      <3>1. k \in DOMAIN requests /\ requests'[k] = requests[k]
        BY <2>3, <1>3
      <3>2. requests[k].from # s
        BY <3>1, <2>3, <1>1 DEF RequestsAreTrue
      <3>3. CASE j \in DOMAIN requests
        BY <3>1, <3>3, <2>3, <1>3 DEF RequestsAreTrue
      <3>4. CASE requests'[j] = q
        BY <3>1, <3>2, <3>4, <1>1
      <3> QED BY <3>3, <3>4, <1>3
    <2> QED BY <2>1, <2>2, <2>3 DEF RequestsAreTrue
  <1>8. \A t \in Socket : Active(t)' => Active(t)
    <2> SUFFICES ASSUME NEW t \in Socket, Active(t)' PROVE Active(t)
      OBVIOUS
    <2>1. CASE sock'[t] = "open"
      BY <2>1, <1>2 DEF Active
    <2>2. ASSUME NEW k \in DOMAIN requests', requests'[k].from = t PROVE Active(t)
      BY <2>2, <1>1, <1>3 DEF Active
    <2> QED BY <2>1, <2>2 DEF Active
  <1> QED BY <1>1, <1>4, <1>6, <1>7, <1>8, CallersKeep

LEMMA SocketKeeps == ASSUME SockInv, NEW s \in Socket, bp_socket(s) PROVE SockInv'
PROOF
  <1> USE DEF SockInv
  <1>1. PICK path : /\ name' = [name EXCEPT ![s] = IF path \in files THEN Unnamed ELSE path]
                    /\ files' = files \cup {path}
    BY DEF bp_socket
  <1>2. /\ sock[s] = "new" /\ sock' = [sock EXCEPT ![s] = "open"]
        /\ UNCHANGED <<up, requests, remote_uaddr, binds, asked, credited, delivered, survived>>
        /\ sock \in [Socket -> {"new", "open", "closed"}] /\ DOMAIN name = Socket
    BY DEF bp_socket, Shapes, daemonVars, historyVars
  <1>3. /\ DOMAIN name' = Socket
        /\ \A t \in Socket : t # s => name'[t] = name[t] /\ sock'[t] = sock[t]
        /\ sock'[s] = "open" /\ name'[s] = IF path \in files THEN Unnamed ELSE path
        /\ sock' \in [Socket -> {"new", "open", "closed"}]
    BY <1>1, <1>2
  <1>4. Shapes'
    BY <1>2, <1>3 DEF Shapes
  <1>5. /\ \A k \in DOMAIN requests : requests[k].from \in Socket \ {s}
        /\ \A c \in asked \cup credited \cup delivered : c[1] \in Socket \ {s}
        /\ name[s] = Unnamed
    BY <1>2, RequestsAreTyped DEF Beginnings
  <1>6. Beginnings' /\ RequestsAreTrue'
    BY <1>2, <1>3, <1>5 DEF Beginnings, RequestsAreTrue
  <1>7. \A t \in Socket : t # s => (Active(t)' <=> Active(t))
    BY <1>2, <1>3 DEF Active
  <1>8. \A n : Taken(n) => Taken(n)'
    BY <1>1, <1>2 DEF Taken
  \* The name is new to all that goes by names, unless its file was removed.
  <1>9. HasName(s)' => name'[s] = path /\ ~(path \in files) /\ Taken(path)'
    BY <1>1, <1>3 DEF HasName, Taken
  <1>10. ASSUME HasName(s)', path \notin survived
         PROVE  /\ \A t \in Socket : Active(t) => name[t] # path
                /\ \A k \in DOMAIN binds : binds[k].path # path
                /\ remote_uaddr # path
    BY <1>9, <1>10, <1>3 DEF NamesAreTaken, Taken, HasName
  <1>11. NamesAreTaken'
    BY <1>2, <1>3, <1>7, <1>8, <1>9 DEF NamesAreTaken, HasName
  <1>12. NamesAreUnique'
    BY <1>2, <1>3, <1>7, <1>9, <1>10 DEF NamesAreUnique, HasName
  <1>13. \A e : AskedUnnamed(e) => AskedUnnamed(e)'
    BY <1>2, <1>3, <1>5 DEF AskedUnnamed, HasName
  <1>14. FirstIsOwn'
    BY <1>2, <1>3, <1>7, <1>9, <1>10 DEF FirstIsOwn, HasName
  <1>15. EntriesAreAsked'
    BY <1>2, <1>3, <1>7, <1>9, <1>10, <1>13 DEF EntriesAreAsked, HasName
  <1>16. LastCallerIsBound'
    BY <1>2, <1>3, <1>7, <1>9, <1>10 DEF LastCallerIsBound, HasName
  <1>17. SourceIsOwn' /\ ReachesWhoAsked'
    <2>1. SourceIsOwn'
      BY <1>2, <1>3, <1>5 DEF SourceIsOwn, HasName
    <2>2. ReachesWhoAsked'
      BY <1>2, <1>3, <1>5 DEF ReachesWhoAsked, HasName
    <2> QED BY <2>1, <2>2
  <1> QED BY <1>4, <1>6, <1>11, <1>12, <1>14, <1>15, <1>16, <1>17

-----------------------------------------------------------------------------
(***************************************************************************)
(* The daemon.                                                             *)
(***************************************************************************)
LEMMA LeastNumber ==
    ASSUME NEW T \in SUBSET Nat, T # {}
    PROVE  Min(T) \in T /\ \A y \in T : Min(T) <= y
PROOF
  <1>1. \E x \in T : \A y \in T : ~(<<y, x>> \in OpToRel(<, Nat))
    BY NatLessThanWellFounded, WFMin
  <1>2. \A x, y \in Nat : y < x => <<y, x>> \in OpToRel(<, Nat)
    <2>1. SUFFICES ASSUME NEW x \in Nat, NEW y \in Nat, y < x
                   PROVE  <<y, x>> \in OpToRel(<, Nat)
      OBVIOUS
    <2>2. <<y, x>> \in Nat \X Nat /\ <<y, x>>[1] = y /\ <<y, x>>[2] = x
      OBVIOUS
    <2> QED BY <2>1, <2>2, Zenon DEF OpToRel
  <1>3. PICK x \in T : \A y \in T : ~(y < x)
    BY <1>1, <1>2
  <1>4. \A y \in T : x <= y
    BY <1>3
  <1> QED BY <1>4 DEF Min

\* What is left of the requests when the first is served.
LEMMA FirstServed ==
    ASSUME Shapes, requests # <<>>, requests' = Tail(requests)
    PROVE  /\ Head(requests) = requests[1] /\ 1 \in DOMAIN requests
           /\ Head(requests) \in Request
           /\ requests' \in Seq(Request)
           /\ \A k \in DOMAIN requests' : /\ k \in Nat /\ k + 1 \in DOMAIN requests
                                          /\ k + 1 > 1 /\ requests'[k] = requests[k + 1]
PROOF BY DEF Shapes

\* The part of a step of the daemon that all requests have in common.
LEMMA ServingKeeps ==
    ASSUME SockInv, requests # <<>>, requests' = Tail(requests), up,
           UNCHANGED <<libVars, up, asked, survived>>,
           \E S : binds' \in Seq(S),
           \A c \in credited' \cup delivered' :
              c \in credited \cup delivered \/ (c[1] \in Socket /\ sock[c[1]] # "new")
    PROVE  /\ Shapes' /\ Beginnings' /\ RequestsAreTrue' /\ NamesAreUnique'
           /\ \A s \in Socket : Active(s)' => Active(s)
PROOF
  <1> USE DEF SockInv, libVars
  <1>1. Shapes'
    BY FirstServed DEF Shapes
  <1>2. \A k \in DOMAIN requests' : /\ k \in Nat /\ k + 1 \in DOMAIN requests
                                    /\ requests'[k] = requests[k + 1]
    BY FirstServed
  <1>3. Beginnings'
    BY <1>2 DEF Beginnings
  <1>4. RequestsAreTrue'
    <2>1. \A j, k \in Nat : j > k => j + 1 > k + 1
      OBVIOUS
    <2> QED BY <1>2, <2>1 DEF RequestsAreTrue
  <1>5. \A s \in Socket : Active(s)' => Active(s)
    BY <1>2 DEF Active
  <1>6. NamesAreUnique'
    BY <1>5 DEF NamesAreUnique, HasName
  <1> QED BY <1>1, <1>3, <1>4, <1>5, <1>6

\* The address that a request is taken to come from.
LEMMA AddressIsTaken ==
    ASSUME SockInv, requests # <<>>, NEW q, q = Head(requests)
    PROVE  /\ q.from \in Socket /\ Active(q.from) /\ sock[q.from] # "new"
           /\ AddressOf(q) # Unnamed => Taken(AddressOf(q))
           /\ HasName(q.from) => AddressOf(q) = name[q.from]
           /\ ~HasName(q.from) => AddressOf(q) = remote_uaddr
PROOF
  <1>1. q = requests[1] /\ 1 \in DOMAIN requests
    BY DEF SockInv, Shapes
  <1>2. q.from \in Socket
    BY <1>1, RequestsAreTyped DEF SockInv
  <1>3. Active(q.from) /\ sock[q.from] # "new"
    BY <1>1 DEF Active, SockInv, Beginnings
  <1> QED BY <1>2, <1>3 DEF AddressOf, HasName, SockInv, NamesAreTaken

LEMMA BindKeeps ==
    ASSUME SockInv, bpd_usock_recv_thread, ServeBind(Head(requests))
    PROVE  SockInv'
PROOF
  <1> USE DEF SockInv
  <1>. PICK q \in Request : q = Head(requests) /\ q = requests[1] /\ 1 \in DOMAIN requests
    BY FirstServed DEF bpd_usock_recv_thread
  <1>. PICK a : a = AddressOf(q)
    OBVIOUS
  <1>. PICK n \in Nat : n = Len(binds) + 1
    BY DEF Shapes
  <1>1. /\ up /\ requests # <<>> /\ requests' = Tail(requests) /\ remote_uaddr' = a
        /\ UNCHANGED <<libVars, up, asked, survived, credited, delivered>>
        /\ q.signal = "BIND" /\ binds' = Append(binds, [eid |-> q.eid, path |-> a])
    BY DEF bpd_usock_recv_thread, ServeBind
  <1>2. /\ \E S : binds' \in Seq(S)
        /\ \A k \in DOMAIN binds : k \in Nat /\ k < n /\ k \in DOMAIN binds' /\ binds'[k] = binds[k]
        /\ n \in DOMAIN binds' /\ binds'[n] = [eid |-> q.eid, path |-> a]
        /\ \A k \in DOMAIN binds' : k \in DOMAIN binds \/ k = n
    <2>1. PICK S : binds \in Seq(S)
      BY DEF Shapes
    <2>2. PICK b : b = [eid |-> q.eid, path |-> a]
      OBVIOUS
    <2>3. binds \in Seq(S \cup {b}) /\ binds' = Append(binds, b)
      BY <2>1, <2>2, <1>1
    <2> QED BY <2>2, <2>3
  <1>3. binds'[n].path = a /\ binds'[n].eid = q.eid
    BY <1>2
  <1>4. /\ Shapes' /\ Beginnings' /\ RequestsAreTrue' /\ NamesAreUnique'
        /\ \A s \in Socket : Active(s)' => Active(s)
    BY <1>1, <1>2, ServingKeeps
  <1>5. UNCHANGED <<sock, name, files>>
    BY <1>1 DEF libVars
  <1>6. /\ q.from \in Socket /\ Active(q.from)
        /\ a # Unnamed => Taken(a)
        /\ HasName(q.from) => a = name[q.from]
        /\ ~HasName(q.from) => a = remote_uaddr
    BY <1>1, AddressIsTaken
  <1>7. <<q.from, q.eid>> \in asked
    BY <1>1 DEF RequestsAreTrue
  \* Whoever is in use under the name has asked, or has lost it.
  <1>8. ASSUME NEW s \in Socket, Active(s), HasName(s), name[s] = a, HasName(q.from)
        PROVE  <<s, q.eid>> \in asked \/ name[s] \in survived
    BY <1>6, <1>7, <1>8 DEF NamesAreUnique
  <1>9. NamesAreTaken'
    BY <1>1, <1>2, <1>3, <1>4, <1>5, <1>6 DEF NamesAreTaken, HasName, Taken
  <1>10. LastCallerIsBound'
    BY <1>1, <1>2, <1>3 DEF LastCallerIsBound
  <1>11. FirstIsOwn'
    <2> SUFFICES ASSUME NEW k \in DOMAIN binds', NEW s \in Socket,
                        Active(s), HasName(s), name[s] = binds'[k].path,
                        \A j \in DOMAIN binds' : j < k => binds'[j].path # binds'[k].path
                 PROVE  <<s, binds'[k].eid>> \in asked \/ name[s] \in survived
      BY <1>1, <1>4, <1>5 DEF FirstIsOwn, HasName
    <2>1. CASE k \in DOMAIN binds
      BY <2>1, <1>2 DEF FirstIsOwn
    <2>2. CASE k = n /\ HasName(q.from)
      BY <2>2, <1>3, <1>8
    <2>3. CASE k = n /\ ~HasName(q.from)
      <3>1. name[s] = remote_uaddr
        BY <2>3, <1>3, <1>6
      <3>2. \A j \in DOMAIN binds : binds[j].path # remote_uaddr
        BY <2>3, <1>2, <1>3, <1>6
      <3> QED BY <3>1, <3>2 DEF LastCallerIsBound, HasName
    <2> QED BY <2>1, <2>2, <2>3, <1>2
  <1>12. EntriesAreAsked'
    <2> SUFFICES ASSUME NEW k \in DOMAIN binds', NEW s \in Socket,
                        Active(s), HasName(s), name[s] = binds'[k].path
                 PROVE  \/ <<s, binds'[k].eid>> \in asked \/ AskedUnnamed(binds'[k].eid)
                        \/ name[s] \in survived
      BY <1>1, <1>4, <1>5 DEF EntriesAreAsked, HasName, AskedUnnamed
    <2>1. CASE k \in DOMAIN binds
      BY <2>1, <1>2 DEF EntriesAreAsked
    <2>2. CASE k = n /\ HasName(q.from)
      BY <2>2, <1>3, <1>8
    <2>3. CASE k = n /\ ~HasName(q.from)
      <3>1. AskedUnnamed(q.eid)
        BY <2>3, <1>7 DEF AskedUnnamed
      <3> QED BY <3>1, <2>3, <1>3
    <2> QED BY <2>1, <2>2, <2>3, <1>2
  <1>13. SourceIsOwn' /\ ReachesWhoAsked'
    BY <1>1, <1>5 DEF SourceIsOwn, ReachesWhoAsked, HasName
  <1> QED BY <1>4, <1>9, <1>10, <1>11, <1>12, <1>13

\* A step of the daemon that leaves the bind list alone.
LEMMA ListStays ==
    ASSUME SockInv, UNCHANGED <<sock, name, files, binds, asked, survived>>,
           \A s \in Socket : Active(s)' => Active(s)
    PROVE  FirstIsOwn' /\ EntriesAreAsked'
PROOF BY DEF SockInv, FirstIsOwn, EntriesAreAsked, HasName, AskedUnnamed

LEMMA CloseKeeps ==
    ASSUME SockInv, bpd_usock_recv_thread, ServeClose(Head(requests))
    PROVE  SockInv'
PROOF
  <1> USE DEF SockInv
  <1>. PICK q \in Request : q = Head(requests) /\ q = requests[1] /\ 1 \in DOMAIN requests
    BY FirstServed DEF bpd_usock_recv_thread
  <1>1. /\ up /\ requests # <<>> /\ requests' = Tail(requests) /\ remote_uaddr' = AddressOf(q)
        /\ UNCHANGED <<libVars, up, asked, survived, binds, credited, delivered>>
        /\ q.signal = "CLOSE"
    BY DEF bpd_usock_recv_thread, ServeClose
  <1>2. \E S : binds' \in Seq(S)
    BY <1>1 DEF Shapes
  <1>3. /\ Shapes' /\ Beginnings' /\ RequestsAreTrue' /\ NamesAreUnique'
        /\ \A s \in Socket : Active(s)' => Active(s)
    BY <1>1, <1>2, ServingKeeps
  <1>4. UNCHANGED <<sock, name, files>>
    BY <1>1 DEF libVars
  <1>5. /\ q.from \in Socket /\ Active(q.from)
        /\ AddressOf(q) # Unnamed => Taken(AddressOf(q))
        /\ HasName(q.from) => AddressOf(q) = name[q.from]
        /\ ~HasName(q.from) => AddressOf(q) = remote_uaddr
    BY <1>1, AddressIsTaken
  <1>6. FirstIsOwn' /\ EntriesAreAsked'
    BY <1>1, <1>3, <1>4, ListStays
  <1>7. NamesAreTaken'
    BY <1>1, <1>3, <1>4, <1>5 DEF NamesAreTaken, HasName, Taken
  \* Nothing more comes from the socket, nor from another of its name.
  <1>8. ~Active(q.from)'
    <2>1. sock'[q.from] # "open"
      BY <1>1, <1>4 DEF RequestsAreTrue
    <2>2. \A k \in DOMAIN requests' : requests'[k].from # q.from
      BY <1>1, FirstServed DEF RequestsAreTrue
    <2> QED BY <2>1, <2>2 DEF Active
  <1>9. LastCallerIsBound'
    <2>1. CASE HasName(q.from)
      <3>1. ASSUME NEW s \in Socket, name[s] = AddressOf(q), Active(s)'
            PROVE  AddressOf(q) \in survived
        <4>1. Active(s) /\ s # q.from
          BY <3>1, <1>3, <1>8
        <4> QED BY <4>1, <3>1, <2>1, <1>5 DEF NamesAreUnique
      <3> QED BY <3>1, <1>1, <1>4 DEF LastCallerIsBound
    <2>2. CASE ~HasName(q.from)
      BY <2>2, <1>1, <1>3, <1>4, <1>5 DEF LastCallerIsBound
    <2> QED BY <2>1, <2>2
  <1>10. SourceIsOwn' /\ ReachesWhoAsked'
    BY <1>1, <1>4 DEF SourceIsOwn, ReachesWhoAsked, HasName
  <1> QED BY <1>3, <1>6, <1>7, <1>9, <1>10

\* The endpoint that a caller is known by is that of its first entry.
LEMMA CallerIsFirst ==
    ASSUME NEW a, Shapes, IsBound(a)
    PROVE  \E k \in DOMAIN binds : /\ binds[k].path = a
                                   /\ \A j \in DOMAIN binds : j < k => binds[j].path # a
                                   /\ bpd_bind_list_map_uaddr(a) = binds[k].eid
PROOF
  <1> DEFINE T == {i \in DOMAIN binds : binds[i].path = a}
  <1>1. \A i \in DOMAIN binds : i \in Nat
    BY DEF Shapes
  <1>2. T \in SUBSET Nat /\ T # {}
    BY <1>1 DEF IsBound
  <1>3. PICK k \in T : k = Min(T) /\ \A j \in T : k <= j
    BY <1>2, LeastNumber
  <1>4. ASSUME NEW j \in DOMAIN binds, j < k PROVE binds[j].path # a
    <2>1. j \in Nat /\ k \in Nat /\ ~(k <= j)
      BY <1>1, <1>4
    <2>2. j \notin T
      BY <2>1, <1>3
    <2> QED BY <2>2
  <1> QED BY <1>3, <1>4 DEF bpd_bind_list_map_uaddr

\* Whoever receives a message for e is open under the name of an entry for e.
LEMMA ReceiversAreNamed ==
    ASSUME Shapes, NEW e, NEW s \in Receivers(e)
    PROVE  /\ s \in Socket /\ sock[s] = "open" /\ HasName(s)
           /\ \E k \in DOMAIN binds : binds[k].eid = e /\ binds[k].path = name[s]
PROOF
  <1> DEFINE T == {i \in DOMAIN binds : binds[i].eid = e}
  <1>1. T = {i \in DOMAIN binds : uri_compare(binds[i].eid, e)}
    BY DEF uri_compare
  <1>2. T \in SUBSET Nat
    BY DEF Shapes
  <1>3. T # {}
    BY <1>1 DEF Receivers
  <1>4. Min(T) \in T
    BY <1>2, <1>3, LeastNumber
  <1>5. s \in Reached(binds[Min(T)].path)
    BY <1>1, <1>3 DEF Receivers
  <1> QED BY <1>4, <1>5 DEF Reached, HasName

LEMMA SendKeeps ==
    ASSUME SockInv, bpd_usock_recv_thread, ServeSend(Head(requests))
    PROVE  SockInv'
PROOF
  <1> USE DEF SockInv
  <1>. PICK q \in Request : q = Head(requests) /\ q = requests[1] /\ 1 \in DOMAIN requests
    BY FirstServed DEF bpd_usock_recv_thread
  <1>. PICK a : a = AddressOf(q)
    OBVIOUS
  <1>. PICK e : e = bpd_bind_list_map_uaddr(a)
    OBVIOUS
  <1>1. /\ up /\ requests # <<>> /\ requests' = Tail(requests) /\ remote_uaddr' = a
        /\ UNCHANGED <<libVars, up, asked, survived, binds>>
        /\ IsBound(a)
        /\ credited' = credited \cup {<<q.from, e>>}
        /\ delivered' = delivered \cup {<<s, q.eid>> : s \in Receivers(q.eid)}
    BY DEF bpd_usock_recv_thread, ServeSend
  <1>2. /\ q.from \in Socket /\ Active(q.from) /\ sock[q.from] # "new"
        /\ a # Unnamed => Taken(a)
        /\ HasName(q.from) => a = name[q.from]
    BY <1>1, AddressIsTaken
  <1>3. \A s \in Receivers(q.eid) : s \in Socket /\ sock[s] = "open" /\ HasName(s)
    BY ReceiversAreNamed
  <1>4. /\ Shapes' /\ Beginnings' /\ RequestsAreTrue' /\ NamesAreUnique'
        /\ \A s \in Socket : Active(s)' => Active(s)
    <2>1. \E S : binds' \in Seq(S)
      BY <1>1 DEF Shapes
    <2>2. ASSUME NEW c \in credited' \cup delivered'
          PROVE  c \in credited \cup delivered \/ (c[1] \in Socket /\ sock[c[1]] # "new")
      BY <1>1, <1>2, <1>3
    <2> QED BY <1>1, <2>1, <2>2, ServingKeeps
  <1>5. UNCHANGED <<sock, name, files>>
    BY <1>1 DEF libVars
  <1>6. FirstIsOwn' /\ EntriesAreAsked'
    BY <1>1, <1>4, <1>5, ListStays
  <1>7. NamesAreTaken'
    BY <1>1, <1>2, <1>4, <1>5 DEF NamesAreTaken, HasName, Taken
  <1>8. LastCallerIsBound'
    BY <1>1 DEF LastCallerIsBound, IsBound
  <1>9. HasName(q.from) => <<q.from, e>> \in asked \/ name[q.from] \in survived
    <2>1. Shapes /\ IsBound(a)
      BY <1>1 DEF SockInv
    <2>2. PICK k \in DOMAIN binds : /\ binds[k].path = a
                                    /\ \A j \in DOMAIN binds : j < k => binds[j].path # a
                                    /\ bpd_bind_list_map_uaddr(a) = binds[k].eid
      BY <2>1, CallerIsFirst
    <2> QED BY <2>2, <1>2 DEF FirstIsOwn
  <1>10. SourceIsOwn'
    <2> SUFFICES ASSUME NEW c \in credited', HasName(c[1])
                 PROVE  c \in asked \/ name[c[1]] \in survived
      BY <1>1, <1>5 DEF SourceIsOwn, HasName
    <2>1. CASE c \in credited
      BY <2>1 DEF SourceIsOwn
    <2>2. CASE c = <<q.from, e>>
      BY <2>2, <1>9
    <2> QED BY <2>1, <2>2, <1>1
  <1>11. ReachesWhoAsked'
    <2> SUFFICES ASSUME NEW d \in delivered'
                 PROVE  d \in asked \/ AskedUnnamed(d[2]) \/ name[d[1]] \in survived
      BY <1>1, <1>5 DEF ReachesWhoAsked, HasName, AskedUnnamed
    <2>1. CASE d \in delivered
      BY <2>1 DEF ReachesWhoAsked, AskedUnnamed
    <2>2. ASSUME NEW s \in Receivers(q.eid), d = <<s, q.eid>>
          PROVE  d \in asked \/ AskedUnnamed(d[2]) \/ name[d[1]] \in survived
      <3>1. PICK k \in DOMAIN binds : binds[k].eid = q.eid /\ binds[k].path = name[s]
        BY ReceiversAreNamed
      <3>2. s \in Socket /\ Active(s) /\ HasName(s)
        BY <1>3 DEF Active
      <3> QED BY <2>2, <3>1, <3>2 DEF EntriesAreAsked
    <2> QED BY <2>1, <2>2, <1>1
  <1> QED BY <1>4, <1>6, <1>7, <1>8, <1>10, <1>11

LEMMA SockNext == SockInv /\ [Next]_vars => SockInv'
PROOF
  <1> SUFFICES ASSUME SockInv, [Next]_vars PROVE SockInv'
    OBVIOUS
  <1>1. CASE UNCHANGED vars
    <2>1. UNCHANGED <<sock, name, files, up, requests, remote_uaddr, binds, asked, credited,
                      delivered, survived>>
      BY <1>1 DEF vars, libVars, daemonVars, historyVars
    <2>2. Shapes' /\ Beginnings' /\ RequestsAreTrue'
      BY <2>1 DEF SockInv, Shapes, Beginnings, RequestsAreTrue
    <2>3. \A s \in Socket : Active(s)' => Active(s)
      BY <2>1 DEF Active
    <2> QED BY <2>1, <2>2, <2>3, CallersKeep DEF SockInv
  <1>2. CASE (\E p \in Pid : StartProcess(p)) \/ (\E r \in 1..MaxRuns : Exit(r))
    BY <1>2, ProcessesKeep
  <1>3. ASSUME NEW s \in Socket,
               \/ bp_close(s)
               \/ \E e \in Endpoint : bp_bind(s, e) \/ bp_sendto(s, e)
        PROVE  SockInv'
    BY <1>3, CallEffect, CallKeeps
  <1>4. ASSUME NEW s \in Socket, bp_socket(s) PROVE SockInv'
    BY <1>4, SocketKeeps
  <1>5. CASE bpd_usock_recv_thread
    BY <1>5, BindKeeps, CloseKeeps, SendKeeps DEF bpd_usock_recv_thread
  <1>6. CASE ServeUnbound \/ Crash
    <2>1. Die /\ UNCHANGED <<sock, name, files, asked, credited, delivered, survived>>
      BY <1>6 DEF ServeUnbound, Crash, libVars, historyVars
    <2> QED BY <2>1, ForgettingKeeps
  <1>7. CASE Start
    BY <1>7, StartKeeps
  <1> QED BY <1>1, <1>2, <1>3, <1>4, <1>5, <1>6, <1>7 DEF Next, Application

-----------------------------------------------------------------------------
(***************************************************************************)
(* Theorems.                                                               *)
(***************************************************************************)
\* A message is credited to an endpoint that its own sender has bound.
THEOREM CallersAreThemselves == Spec => []SourceIsOwn
PROOF
  <1>1. SockInv => SourceIsOwn
    BY DEF SockInv
  <1> QED BY <1>1, SockInit, SockNext, PTL DEF Spec

\* A message for an endpoint reaches no socket but one that has bound it.
THEOREM MessagesReachTheirOwn == Spec => []ReachesWhoAsked
PROOF
  <1>1. SockInv => ReachesWhoAsked
    BY DEF SockInv
  <1> QED BY <1>1, SockInit, SockNext, PTL DEF Spec
=============================================================================
