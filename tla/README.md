# A verification project for bitdtn

bitdtn is a small bundle protocol agent (RFC 5050) in C: a daemon `bpd`
forwards *bundles* between nodes over UDP, keeps the bundles it has *custody*
of until another node takes custody, and serves local applications through a
UNIX datagram socket.  These modules model the daemon and the data it works
on, check them with TLC and prove the main invariants with TLAPS.  Paths are
relative to the repository; the code is in `src/bp`.

## The system

| Part | State | Operations | What must be true of it |
|---|---|---|---|
| **Daemon** `bpd.c` | three threads; the sequence counter under its mutex | `bpd_usock_recv_thread` (bind, close and send requests), `bpd_isock_recv_thread` (bundles), `bpd_process_admin_record` | numbers are not reused; every thread comes back for the next datagram |
| **Bundle list** `bpd_bundle_list.c` | custody bundles by (creation time, sequence number); digests of all custody bundles seen; one mutex each | `insert`, `insert_custody`, the custody signal, `delete`, the scan thread | a custody bundle is taken once and accounted for; the scan never touches a freed entry, and no custody signal locks it out |
| **Bind list** `bpd_bind_list.c` | array of (endpoint, socket path, valid) | insert, invalidate, four look-ups | a look-up returns what was bound first |
| **Forwarding** `bpd_forward_table.c` | table read once from a file | the parser; `bpd_forward`: consume, dispatch, forward or drop | the table is what the file says; every bundle goes exactly one way |
| **Tables** `hashtable.c`, `dll.c`, `dllhashtable.c` | chained slots, and a list in order of insertion | insert, search, delete, next | a multimap with iteration order |
| **Codec** `bundle.c` | `struct BUNDLE`, `struct CUSTODY_SIGNAL` | SDNVs, bundle and signal encode and decode, flag bits | decoding inverts encoding |
| **Client library** `bp.c` | socket paths | `bp_socket`, `bp_bind`, `bp_sendto`, `bp_recv`, `bp_close` | a caller is known by the name of its socket, and no other has that name |
| **URIs** `uri.c` | scheme and specific part | assign, copy, compare | |
| **Hash** `fnv/hash_32a.c` (vendored) | | `fnv_32a_buf` | the published values of FNV-1a |
| **Programs** `start`, `send.c`, `recv.c`, `sendmulti.c`, `recvmulti.c` | | start a daemon; send and receive | what `sendmulti` sends, `recvmulti` receives |
| **Tests** `testhash*.c`, `testdllhash*.c`, `testsdnv.c` | | | their expectations are read and quoted, they are not modelled |

How they interact: an application's call is a datagram to `/tmp/bpd`; the usock
thread turns a send into a bundle, numbers it and gives it to the bundle list.
The isock thread gives every bundle it receives to the same list.  A bundle
without custody goes straight to `bpd_forward`.  A custody bundle passes the
replica filter, is acknowledged to its custodian with a custody signal (a
bundle of its own, numbered and forwarded in the same call), and is then
dispatched to a local application or stored.  The scan thread forwards every
stored bundle every five seconds, until a custody signal for its key arrives
and `bpd_process_admin_record` deletes it.

What is hard: three threads share the list, the filter, the counter and the
bind list, not always under a mutex; `sendto` blocks while mutexes are held;
the network loses, repeats, reorders and loops; decoding goes into memory that
is not cleared; the hash tables leave pointers uninitialised; nothing is
persisted, so a daemon that dies takes its custody bundles along, and one that
is started again reuses numbers and removes the names of its applications'
sockets.  `PROJECT.json` lists each hazard at its line.

## The modules

| Module | What it is |
|---|---|
| `BpdData` | bundles, keys and custody signals; the bind list's and forward table's look-ups; when a hash look-up can return |
| `StaleBytes` | what `sdnv_decode` leaves in a sequence number that is not cleared before; for `Bpd` and `CustodyNet` |
| `Bpd` | the daemon: its three threads step by step, with the applications and the network around it; the properties |
| `MCBpd` | constants for the runs of TLC |
| `BpdProofs` | lemmas on the data; type correctness, mutexes, and the scan; sequence numbers; the replica filter, and where custody bundles are |
| `Table` | abstract: what the hash tables promise the daemon, a collection of entries |
| `HashTable`, `MCHashTable` | slots, chains and list as pointers; shown to implement `Table` |
| `HashTableProofs` | the heap invariant for any keys, slots, threads and junk in memory |
| `Sdnv` | the SDNV algorithms as operators, and integers and structs in memory |
| `SdnvProofs` | lemmas: what these operators compute, for bytes and integers of any size |
| `BundleCodec` | `bundle_encode` and `bundle_decode` on a struct in memory |
| `BundleTransfer`, `MCBundleTransfer` | senders, and the isock thread with its one struct |
| `BundleTransferProofs` | a bundle arrives as it was sent, for any sizes and any memory |
| `SignalCodec`, `MCSignalCodec` | custody signals from the daemon that builds one to the daemon that obeys it |
| `SignalCodecProofs` | what a signal on the wire says, and what its receiver makes of it, for every key and any memory |
| `Custody` | abstract: what the daemons together promise about a bundle sent with custody |
| `CustodyNet`, `MCCustodyNet` | several daemons, their applications and a lossy network, with crashes; shown to implement `Custody` |
| `CustodyNetProofs` | the promise, for any network without loops |
| `BpSockets`, `MCBpSockets` | the client library's socket names, processes that come and go, and whom the daemon takes a caller for |
| `BpSocketsProofs` | callers and receivers, for any number of processes and sockets |
| `ForwardConf`, `MCForwardConf` | the parser of the forward table's file, and the look-up in the result |
| `ForwardConfProofs` | the table is the file, for any file |
| `HashSlot` | operators: the hash and the fold to a slot, which give the keys of `MCHashTable` their slots |

`Bpd` stands on the others without importing them: `HashTable` justifies how
`Bpd` treats a table (a sequence, a search that may be the end of the process,
wild slot heads), `Sdnv` and `SignalCodec` justify `Overlay` of `StaleBytes` and
that a signal deletes one key, which may have stale high bytes, and
`BundleTransfer` that a bundle is otherwise one value, with one digest on every
daemon, unless a length or an offset was wider before.  `BpSockets` shows whom a
request is from, and `ForwardConf` where the table comes from.  `CustodyNet`
composes daemons: there a handler of a daemon is one step, which `Bpd` opens up.

### How Bpd follows the code

A step is one access to shared state: a lock, an unlock with the update before
it, a look-up, a datagram.  `pc[t]` is the place of thread t in the code:

| `pc` | where |
|---|---|
| `recv` | blocked in `recvfrom` (`UsockRecv`, `UsockRecvError`, `IsockRecv`) |
| `seq_lock`, `seq_read`, `seq_write` | `bpd_creation_sequence_number_counter++` and the mutex around it: bpd.c 159-163 for a bundle, bpd_bundle_list.c 321-325 for a signal |
| `search`, `rep_lock`, `rep_insert` | the replica filter, 203-214 |
| `src_check`, `dst_check` | 217 and 224; `src_check` builds the custody signal |
| `list_lock`, `list_insert` | 243-246 |
| `forward` | `bpd_forward`, one action for each of its branches |
| `del_lock`, `delete` | `bpd_bundle_list_delete` |
| `sleep`, `scan_next` | the scan thread |
| `fault` | the process has died of a bad pointer |

`bun[t]` is the bundle the thread has in its stack (the scan: the entry it is
at).  Sending a custody signal is a call inside `insert_custody`; the signal is
`adm[t]`, and when it is not `Blank` the numbering and forwarding steps work on
it and then return to `dst_check`.

`issued`, `released`, `settled` and `undelivered` are history: nothing reads
them except properties.  `issued` is the numbers drawn.  The other three say
where a custody bundle went: `released` holds the entries that a custody signal
for their key has deleted from the list, the very entries and not their keys; `settled` what
this custodian has consumed or an application's open socket has queued; and
`undelivered` what was sent to the closed socket of a local endpoint.  There
`bpd_forward` ignores the failure of `sendto` and returns 0
(bpd_forward_table.c 290-296), and `insert_custody` does not store what is for a
local endpoint, so the bundle is nowhere.

Abstractions, each with its reason:

- The SHA digest of a bundle is the bundle itself.  `replica_list_compfunc`
  compares digests with `strncmp`, which stops at a zero byte; that two SHA-1
  digests agree up to one is a matter of probability and is not modelled.
- Tables are sequences in order of insertion.  What the slots add is kept: a
  search for a missing key comes back only from an empty slot, otherwise it
  runs off the chain (`SearchReturnsNull`); and the first entry of a slot has an
  uninitialised `next`, which becomes the head when the entry goes (`wild`,
  chosen in `Uncover`).  What follows from a bad pointer is `fault`.
- `sdnv_decode` writes the bytes the value needs.  `Overlay` is that, for the
  sequence number, of bundles (over the struct of `bpd_isock_recv_thread`) and of
  custody signals (over the stack of `bpd_process_admin_record`); the creation
  time uses all four bytes, and lengths and offsets are in `BundleCodec`.
- `bp_sendto` leaves `isadmin` of a request to its caller's stack, so a request
  has either value of it (`AppAdmin`).  Application data for the custodian that
  is so marked is stored, if it has custody, and the scan then takes it for an
  administrative record and asks for the list mutex it holds: `pc["scan"]` stays
  at `del_lock`, and the other threads stop at their next use of the list.  The
  run `core` reaches this; it is a defect of the code that no statement in the
  repository denies, so no run has it as a violation.
- A look-up in the bind list is one step although it runs without a mutex: the
  list only grows, `nr` is written last, and the first match wins.
- The network is the set of all bundles ever sent: one that is never taken is
  lost, one taken twice is repeated, any order is possible.  Neighbours answer
  with custody signals for bundles they got (`PeerSignals`), may send bundles
  back (`Loops`), and send bundles of their own (`NetIn`).
- A custody bundle on the wire names its sender as custodian, since a daemon
  forwards one only from its list, where it has put itself (assumption
  `NetInAssumption`).
- `UsockRecvError` happens only after a first request; before it, the struct
  that would be served is uninitialised.
- `sendto` on the UDP socket does not block.  `BPD_SIGNAL_RECV` is never sent.

`CONSTANTS` that bound a run: `MaxSends`, `MaxRecvs`, `MaxErrors` and `BindMax`
limit how often an event happens, `UsockCap` and `QueueCap` are the queues'
lengths, and `SeqSpan` stands for 2^32.

### How HashTable follows the code

`items`, `keyOf`, `next`, `left` and `right` are `HASHTABLE.items`,
`HASHITEM.key`, `HASHITEM.next`, `DLLITEM.left` and `DLLITEM.right`.  A cell
stands for the three structs that `dllhashtable_insert` allocates together for
an entry; `Anchor` is the item `dll_create` makes.  Freed cells keep what they
held and may be handed out again, and `Junk` is what a `next` holds that the
code does not set.

| `pc` | where |
|---|---|
| `search`, `find`, `remove` | one comparison of the walk in `hashtable_search` from the caller, the same from `dllhashtable_delete`, and the walk in `hashtable_delete` |
| `insert` | the replica filter between its search and the mutex |
| `hash_insert`, `list_insert` | `hashtable_insert`, then `dll_insert` |
| `list_delete` | `dll_delete` |
| `scan` | `dllhashtable_next` |
| `fault` | a bad pointer was followed |

With `Shared` the table is the replica list: searched without the mutex,
inserted into with it, never deleted from.  Without, it is the bundle list, and
its mutex is held throughout.  `clock`, `born` and `asked` are history.

`Abstract` is the refinement mapping to `Table`: the entries are the allocated
cells, `wild` the empty slots with a head that is not null, and `call` what a
thread is doing, with the entries it may still hit.  `TableSpec` says that every
step of the pointers is a step of the collection or none.

### How the codec modules follow the code

An integer is its bytes, least significant first, as on the machines the code
runs on; a struct is a function from its integers to such words and some
arrays, and memory keeps what it held where nothing is written.  `ByteBits` and
`IntBytes` are parameters, so that lengths that take a second byte exist in
arrays small enough for TLC.  The loops over bits of `bundle.c` are operators
on positions of bits.

`Receive` of `BundleTransfer` is the `memcpy` of a datagram, `bundle_decode`,
and the `bundle_encode` with which `bpd_bundle_list_insert` begins.  What
senders never set (`version`, `lifetime`, `block_type`, the block flags) is
chosen from `Fills`.  `version` and `block_type` are one octet in the model, as
on the wire; in `struct BUNDLE_BODY` they are an `unsigned int` each, of which
`bundle_encode` writes the lowest octet (bundle.c 601, 688), and `bundle_decode`
assigns the octet it finds (710, 806).  No step reads the rest of the integer.  `wider` is history: an integer of the struct had a byte
that the sender's value does not reach.  `astray` says that decoding left an
array or an integer; what follows is undefined and the model ends there.
`Datagram` is what `recvfrom` leaves of a datagram that is longer than the
buffer (5000 bytes of at most 8192), and `cut` that this has happened.

In `SignalCodec` both structs are on a stack and not cleared.  The source has a
scheme, and something other than colons after it (`SourcesAssumption`), as every
endpoint in the repository.  `bpd_process_admin_record` does not look at the
type, so neither does the model.

### How CustodyNet follows the code

A step is a handler of a daemon: `bp_sendto` is the library's call with
`bpd_process_signal_send` and `bpd_bundle_list_insert_custody` behind it,
`ReceiveBundle` the isock thread with the same and the custody signal inside it,
`ReceiveSignal` a signal at its custodian (`Release`) or on its way
(`PassOn`), `Scan` one round of the scan thread.  `Route` is the forward tables
of all daemons; a bundle goes to the next hop, and a signal to the custodian by
way of the daemons in between, as a bundle without custody.  Bundles are
stored as they came, and sent on with this daemon as custodian (`Stored`).

Daemons decode as they do in `Bpd`: into a struct that is never cleared
(`ReceiveBundle`) or never initialised (`Release`), so the number of a bundle, or
of the key in a signal, is read under what the memory held, any of the
`StaleWords` of that daemon (`Decoded`).  A bundle is therefore two things: `msg`,
the message an application sent, which nothing in the code sees as a whole, and
`seq`, the number that the bundle has come to carry.  The filter compares what is
in the header (`AsRead`), so a message whose number is read differently a second
time passes it as new; the key of a stored bundle and of the signal for it have
the number as read, and a signal may so name a key the previous custodian does
not have, which then keeps the bundle for ever.  `Matches(x, k)` says that some
daemons may have read message x under key k, and `Confusable` that two messages
share such a key.  `misread` is the messages that some daemon has read another
number of.  Lengths and offsets have stale bytes too; what that does is the
subject of `BundleTransfer` and not repeated here.

A socket that is gone is sent to like an open one (`HandOver`, `Dispatch`): no
look-up reads the valid mark, nobody looks at the failing `sendto`, and a bundle
for a local endpoint is not kept.  `handed` has only what came to an open
socket; what is lost at a closed or unlinked one is `missed`.

`Crash` is the end of a daemon's process (`Die`), for whatever reason;
`SendUnbound` is one the code brings about, on a request from a socket that the
daemon started since does not know.  Only the first counts against `MaxCrashes`.  `Restart` is the script `start`, which removes the
sockets' files of all applications: `sock` is "unlinked" then, and can send but
is not found.  `Lose` and `Without` are UDP: datagrams are lost, and received
again; `wire` and `signals` are sets, so every order is possible.  Time passes
between any two steps (`Tick`).

`accepted`, `handed`, `missed`, `misread` and `atRisk` are history.  A message is
`atRisk` when a daemon that held it has died, or when it is confusable with
another accepted message: a signal names a creation time and a sequence number
and no source.  The refinement mapping to `Custody` is `kept`: the messages that
each daemon has in its list.  `Custody` itself has no lists, datagrams, numbers
or sockets.

### How BpSockets follows the code

A socket is its process and its index in it, the static variable of
`bp_socket`; its name is the numerals of both, in base `Radix`, with one
character between them.  `files` is what `bind` has put into /tmp: nothing
removes it but the script `start`, since `unlink` is commented out.  A process
may have the number of one that has ended, so `bp_socket` may find its name
taken: it prints that and returns a socket without a name.

`requests` is the queue of the daemon's socket.  `remote_uaddr` is the buffer
`recvfrom` writes the caller's name to; a caller without a name leaves it as it
is (`AddressOf`).  `Reached` is the kernel: a datagram comes to the living
socket of that name, if the file is still there.

### How ForwardConf follows the code

A line is its words, split at what `strtok` splits it at; a step is a round of
the loop.  `origin` is the first half of a pair until the second is read,
`isorigin` which half is next.  A word that is missing is a null pointer
(`ParseNull`).  `inet_addr` gives `INADDR_NONE` for anything but an address, and
nobody tests it.  Entry 0 of the table is the custodian's, without a next hop;
`FoundAt` and `ForwardedBy` are the look-up and what `bpd_forward` does before
it.  `from`, `to` and `lines` are history.

### How HashSlot follows the code

A word of 32 bits is its two halves.  `TimesPrime` is the sum of shifts that is
compiled (hash_32a.c 99), `Fold` the code both hash functions share: for a power
of two the upper bits and-ed, not xor-ed, with the lower ones, otherwise a
remainder.  `MCHashTable` computes with them the slots, among 1024, of keys and
of digests that are written there octet by octet; its assumptions state that
two of the three collide and that the hash has the values of `test_fnv.c`.

## What the runs check

| Run | Instance | Shows |
|---|---|---|
| `core` | one application with a custody bundle to another node or a bundle to the custodian itself, with custody or without, two receptions, three bundles in the network, `SeqSpan` 4 with numbers of two widths; the code's sore points switched on: a stray `isadmin`, a send before a bind, a failing `recvfrom`, colliding slots, wild heads, stale words, a receiver that closes | the safety of one daemon over 1.2 million states: the mutexes are contended, two sources use one key, custody signals arrive before, during and after the scan, a looped bundle is stored again, a bundle is lost at a closed socket, the process may die at each of its null pointers, and the scan may lock itself out |
| `live` | one send, one reception, with fairness; `core`'s sore points are switched off, all of them (colliding slots, wild heads, sends before a bind and a stray `isadmin` may end the process or lock it; stale bytes and the failing `recvfrom` keep the state space small) | a scan ends; a receiving thread comes back |
| `stale` | as `core` | a counterexample: decoding does not invert encoding |
| `list` | bundle list: three cells, three keys of which two collide, two threads, three insertions, any junk | the heap's invariants, and that the pointers implement `Table` (451 000 states) |
| `replica` | replica list, the same sizes, junk that leads to no entry, fairness | the same where searches take no mutex; every operation ends or ends the process |
| `absent` | one thread, memory that malloc has cleared, two insertions | a counterexample: a search for a missing key |
| `bundles` | bytes of 4 bits, integers of 2 bytes, a buffer of 74 bytes of at most 106, two bundles one after the other, short and long names and payloads | decoding a bundle inverts encoding unless an integer was wider before; a datagram that is cut loses payload only |
| `signals` | bytes of 8 bits, integers of 4 bytes, numbers about every change of length, three kinds of stack | what a custody signal says, and what it makes its receiver do |
| `custody_crash` | three daemons in a ring, one message, one death of its own of any daemon (and the deaths by requests that follow it), lost signals, datagrams that come twice, stale bytes at two of the daemons, a receiver that may close | custody with crashes and restarts, with signals that go another way than bundles, with numbers that are misread and sockets that are gone (364 000 states) |
| `received` | two daemons in a row, two messages in one second or two, lost bundles, stale bytes at both daemons, a receiver that binds before, between or after the messages; fairness | a waiting application receives, once unless it bound late or a number was misread, and custody in transit ends unless a number was misread |
| `socket_callers` | two process numbers for three processes of one socket each, two endpoints, four calls, one new start of the daemon | whom the daemon takes a caller for (2.2 million states) |
| `forward_file` | all files of up to seven lines, of seven forms, up to four entries | the table is the file (390 000 states) |

The deadlock check is off where the system really may stop: a dead process takes
no step (`Bpd`, `HashTable`, `BpSockets`, `ForwardConf`), and applications,
insertions, bundles, crashes and lines of a file are bounded.  Symmetry is used
for cells (`list`) and endpoints (`socket_callers`), which are only
compared for equality, and never together with liveness.

The properties of one daemon:

- `SeqNumbersDistinct`: two threads draw from one counter.
- `ReplicaOnce`: no digest is let through twice.  The look-up and the insertion
  are not atomic; it holds because the isock thread is the only one whose
  custody bundles have a neighbour as custodian, and the usock thread the only
  one whose bundles have this daemon.
- `ScanEntryLive`: the entry the scan works on stays where it is.
- `CustodyAccounted`: the main one.  A custody bundle past the filter is in a
  thread's hands, stored, deleted by a signal for its key, with the custodian or at
  an open socket; or it was for a local endpoint whose socket had closed and is
  lost.  Since the filter refuses it from now on, nothing could bring it back.
  The signal that deleted it may have been meant for another bundle, of another
  source or under another number: a signal does not say, and the property does
  not promise it.
- `SignalsNeverLockScan`: when the scan asks for the mutex it holds, it is over
  application data with a stray `isadmin`, and never over a custody signal, this
  daemon's or another's: none is ever in the list.
- `SignalsMatchCustody`: what is kept here and what a neighbour lets go of are
  one bundle.  A custody signal of this daemon goes to the neighbour that sent a
  custody bundle, which is in the filter exactly as it was sent but for stale
  bytes of its number, and names the key the bundle has here.  With stale bytes
  that is not the neighbour's key: the finding `stale`.
- `ScanEnds`, `ReceiversReturn`: progress.
- `DecodesWhatWasEncoded`: violated, see below.

Of the tables:

- `ChainsHold`: from the head of a slot every entry of the slot is reached, the
  newest first, although the last `next` is junk.
- `ListHolds`: the list has the entries newest first, in both directions.  With
  two entries under one key, `dllhashtable_delete` takes the list item from one
  search and the chain item from another; they must belong together.
- `SearchMissesNothing`: a search has not passed an entry that was there when it
  began, also while another thread inserts.
- `TableSpec`: the refinement.  `OperationsEnd`: progress.  `AbsentKeyIsNull`:
  violated, see below.

Of the codec:

- `ArrivesAsSent`, `KeepsItsDigest`: a bundle survives the way, and encoding it
  again gives the same bytes, on which the replica filter depends; both in
  memory that held another bundle, unless `wider`.
- `CutInThePayload`: of a datagram longer than the buffer, every field but the
  end of the payload arrives; nothing tells that the end is not the sender's.
- `MarksAlwaysRight`, `DecodingStaysInside`: custody and admin marks are right
  even when `wider`; without it no array is left.
- `EncodesTheKey`: the record of a signal has the binary digits of the key in
  the groups of its SDNVs, as any reader of the format would take them.
- `SignalsSucceed`, `DeletesTheKey`, `SourceArrives`: whatever was on either
  stack, a signal is a custody signal that says "succeeded", names one key
  (under the receiver's stale high bytes), and brings its source.

Of the network:

- `CustodyKept`: a message that a daemon has accepted is in some daemon's list
  until it is handed to the open socket of its destination.  There are three ways
  of losing one: with a daemon that dies, to a signal for another message whose
  key, stale bytes included, it may have (both `atRisk`), and at a socket that is
  gone (`missed`).  The property says that there is no fourth, which is not that
  the three are harmless: each is a loss of a message under custody.
- `SignalsAreTrue`: what a custody signal releases, however late it comes and
  however its number is read, is kept nearer to its destination, has been handed
  to an open socket, or is lost in one of the three ways.
- `CustodySpec`: the daemons implement `Custody`, where an accepted message is
  kept by some daemon or has been handed over, and one lets go only while there
  is another, or the message was handed over, missed or at risk.
- `OrphansStay`: when the one signal for a bundle is lost, the next custodian
  takes every retransmission for a replica, so the bundle is never released and
  is sent again for ever, unless one of the two dies or reads the number
  differently.  This says what the code does, not what one would wish.
- `OnceIfBoundFirst`: an application gets a message twice only when it bound after
  the message came, in which case every scan dispatches it, or after a crash, or
  when another message may have its key (the signal for one then releases both),
  or when its number was misread and it passed the filter as new.
- `WaitingReceives`: an application with an open socket receives what is sent to
  its endpoint, as `recvmulti.c` expects of `sendmulti.c`.
- `CustodyEnds`: without lost signals every custodian on the way is released of
  a bundle, unless some daemon has read the number of the bundle or of its signal
  with stale bytes.  Then the signal may name a key nobody has: the finding
  `stale` is that the exception is needed, and `DeletesTheKey` of the signal's
  codec where its second half comes from.

Of the client library and the configuration:

- `SourceIsOwn`: a message is credited to an endpoint its own sender has bound.
- `ReachesWhoAsked`: a message reaches only sockets that bound its endpoint, or
  that were taken for one by way of a socket without a name.
- `PairsAsWritten`, `NothingLeftOut`: the entries of the table are the lines of
  the file two by two, and all of them.
- `ForwardsAsWritten`: the first entry for a destination is used, and never the
  custodian's own, which has no next hop.

Bounds.  In `core` two receptions and the application give every pair of threads
every pair of places, and the byte boundary at 2 gives numbers of both widths
and keys that collide; a fresh counter comes back to its first number after four
draws, which a send, its repetition after a failed `recvfrom` and two signals make.  One
application suffices because requests are served one at a time.  Three cells
give a chain of two beside another slot, a chain of three, and an entry with
neighbours on both sides in the list; two threads give a search and an insertion
at once.  In `bundles` offsets and lengths pass 16, from where they take a
second byte, as those of the code do at 256; two bundles suffice because the
struct remembers only what the last one wrote over.  In `custody_crash` the
death is that of any daemon at any moment, before or after it has signalled; a
ring of three is the smallest network where a signal needs other daemons, and
stale bytes at its first and last daemon misread signals and bundles.  In
`received` two messages, numbered 0 and 1, of one second or two, are of one width, and the byte above
is stale or not at each reception: a bundle is misread, comes again, and is read
right.  Both runs have one sender, so that no two of their messages share a key; that case,
and several deaths, are in the proofs, which have no bound.  In
`socket_callers` three processes with two numbers make one number come back.
Seven lines hold the custodian, two pairs, and a comment or an empty line in
between.

Fairness (`Fairness` of `Bpd`): each thread is scheduled (weak).  A mutex that is
free again and again is obtained (strong): the scan sleeps five seconds between
two holds and the other holders only update a list.  An application reads what
is queued for it (weak), and the kernel wakes a sender that waits for room in a
queue (strong, on `Dispatch`).  Without applications that read, `ScanEnds` is
false: the scan blocks in `sendto` with the list mutex held.  For `HashTable`, a
thread that has begun an operation is scheduled (weak); none has to begin one.
For `CustodyNet`, every daemon scans (weak: the thread is a loop with a sleep); a
watched bundle that is sent again and again gets through (strong: UDP may lose it any
number of times, and the scan repeats it); a signal that is not lost arrives
(weak); an application that is to receive binds (weak).  `CustodyEnds` needs
that no signal is lost, and the run has none lost: `OrphansStay` says what
happens otherwise.  Fairness and liveness of `CustodyNet` speak of the keys in
`Watched`: the run takes those of a first message in the first second and of a
second message in the next, and nothing is assumed of the other datagrams.

### The findings

`stale`: the isock thread decodes each datagram into the same `struct BUNDLE`,
which is never cleared.  `sdnv_decode` stores as many bytes as the value needs.
After a bundle with number 300, one with number 5 is decoded as 261.  Its
digest, the key it is stored under and the custody signal then name a bundle
nobody sent, so the neighbour is not released (`CustodyEnds` excepts it, and
`CustodyNet` has what becomes of it).  The round-trip test in bpd.c
(226-291) sets its variable to zero first and so does not see it.

`absent`: the walk in `hashtable_search` (hashtable.c 191) has no test for the
end of a chain.  A search for a key that is missing, in a slot that holds
another entry, follows the last `next`.  The code after the loop, the caller
`bpd_bundle_list_delete` (263) and `testhash64.c` (125-128) all expect NULL.  In
the daemon this is a second custody signal for a bundle already released, or
a new bundle whose digest falls into a used slot.

## What is proved

All theorems hold for all values of the constants that satisfy the named
assumptions of the module, without bounds on interleavings.

One daemon, in `BpdProofs`:

| Theorem | Property | Argument |
|---|---|---|
| `TypeCorrect` | `TypeOK` | not inductive alone: the scan reads `list[cursor - 1]`, so `ScanPlace` is needed, which needs the mutexes |
| `ScanSafe` | `ScanEntryLive` | `ThreadInv`: who is where holds which mutex (`ThreadPlaces`, `LocksHeld`), so nobody changes the list while the scan is awake |
| `NumbersAreDistinct` | `SeqNumbersDistinct` | `NumbersInOrder`: the i-th number drawn is (i - 1) mod SeqSpan, and a thread between reading and writing holds the mutex; then lemmas on remainders |
| `FilterPassesOnce` | `ReplicaOnce` | `FilterWindow`: between look-up and insertion a bundle is not in the list, because the other thread's bundles have another custodian |
| `CustodyIsKept` | `CustodyAccounted` | on top of the filter, `DispatchIsLocal`: a custody bundle is forwarded before it is stored only to a local destination, and the bind list never loses one; whether that destination's socket is open decides between delivered and lost |
| `SignalsLeaveScanAlone` | `SignalsNeverLockScan` | `PayloadPlaces` follows every payload from a request or the wire to the list: what has custody is never a signal, and only what has custody is stored; by `ScanEntryLive` the scan forwards nothing else |
| `SignalsNameReplicas` | `SignalsMatchCustody` | `SignalsVouched`: a signal is made only of a bundle in the replica list and goes to its custodian, a neighbour, since a daemon's own bundle makes none, its source being bound; and `ArrivalsKept`: a replica with a neighbour as custodian is what it sent, as read |

`ThreadInv`, `SignalInv`, `NumberInv`, `FilterInv`, `CustodyInv`, `PayloadInv`,
`VouchInv` and `ArrivalInv` are the inductive invariants, each a conjunction of
named parts from the end of `Bpd`.

Only the last theorem assumes something of the inputs, `NoForgedSignal`: no
neighbour starts a signal in this daemon's name.  A bundle names its source
itself and the daemon has no way to check it.  TLC evaluates it on the runs'
inputs.

In `HashTableProofs`, from `PointerAssumption`, `TableAssumption` and
`SharedAssumption`:

| Theorem | Property | Needs |
|---|---|---|
| `TableTypes` | `TypeOK` | `left` and `right` lead to a cell or the anchor only because of `ListHolds` |
| `ChainsAlwaysHold` | `ChainsHold` | deletion mends the chain at `prev`, so `PrevPlace` |
| `ListAlwaysHolds` | `ListHolds` | the item taken out is the newest under its key on both sides, so `InHand` |
| `SearchesMissNothing` | `SearchMissesNothing` | `WalkPlace` |
| `PointersImplementTable` | `TableSpec` | step by step: a walk begins at an entry if its chain had one (`FirstItem`), and in the replica list, where searches take no mutex, it comes to no entry inserted after it began and to no junk (`SharedWalk`) |

They follow from one inductive invariant, `HeapInv` (theorem `HeapInvariant`):
`Places` (who is where holds the mutex, so nobody else changes the heap),
`Births` (no two entries were inserted at once, which makes "newest" unique),
`InHand` (an item to be listed is the newest of all, an item to be deleted the
newest under its key, so that `find` and `remove` stop at the same one),
`WalkPlace` (a walk is in its chain and has its hits before it, so that a walk
for a present key never reaches junk), `PrevPlace` (the predecessor is next to
the item), `ScanPlace` (a scan is in the list), `FirstItem` and `SharedWalk` (a
search that hits what it should, for the refinement), and the properties
themselves.

In `CustodyNetProofs`, for any number of daemons, applications and messages, any
losses, repetitions, delays and crashes, anything in the memory that is decoded
into, any sockets that close, and any routes on which every hop leads
nearer to the destination (`LoopFreeAssumption`):

| Theorem | Property | Argument |
|---|---|---|
| `NetTypes` | `TypeOK` | inductive |
| `CustodyIsKeptByAll` | `CustodyKept` | a daemon lets go on the word of a signal, so `SignalsAreTrue` |
| `SignalsStayTrue` | `SignalsAreTrue` | a signal is sent only where the bundle is kept, handed over or missed, one hop nearer; a daemon that lets go of it later does so on another true signal, still nearer |
| `DaemonsKeepCustody` | `CustodySpec` | step by step: every handler is a step of `Custody` or none |
| `OnceUnlessKept` | `OnceIfBoundFirst` | `PathInv`: the daemons a message has come to are one path of the forward tables, and only the last of them can have handed it over; the filter has it under its own number unless it was misread (`ReadRight`) |
| `LostSignalIsLostForGood` | `OrphansStay` | the next custodian has the bundle in its replica list, as the sender keeps it, so no handler makes a second signal |

The two properties are proved together (`NetInv`), with `NothingInvented` (what
is listed, filtered, sent or signalled was accepted once), `NumbersMatch` (the
number a bundle carries has the bytes of its message's number, whatever lies
above them), `OwnNumbers` (a daemon's own bundles have not been decoded),
`OnTheWay` (a bundle on the wire is going from its custodian to the next hop, so
whoever takes it is nearer) and `ClashesAtRisk` (of two messages that signals may
not tell apart neither is promised anything).  The step on stale bytes is
`StillReadAs`: what is decoded over any memory, any number of times, still has
the bytes of the first encoding.

`OnceUnlessKept` assumes `EndpointsAtHome`: the applications of an endpoint run
at one node, and the forward tables lead there and no further.  The code sees to
neither; without it two daemons hand one message over.  `MCCustodyNet` states it
as an assumption, which TLC evaluates for the networks of the runs.  `PathInv`
(`ReadRight`, `BoundAtHome`, `SignalsComeBack`, and while no daemon has died
`CopiesCame`, `CameFrom`, `OnePath`) is inductive with `NetInv`.  In proving it the property turned out too strong: two
messages with one key let a daemon release the wrong one, which comes back as
new.  It now says so.

In `BpSocketsProofs`, for any processes, sockets and endpoints.  Nothing is used
of how `itoa` and `pid_usock_path` spell a name: it is enough that `bind` fails
where a file of the name is.

| Theorem | Property | Argument |
|---|---|---|
| `CallersAreThemselves` | `SourceIsOwn` | `NamesAreUnique`, and `FirstIsOwn`: the first entry of a name was made by the socket that has it |
| `MessagesReachTheirOwn` | `ReachesWhoAsked` | `EntriesAreAsked`: an entry was asked for by the socket of its name, or by one without |

`SockInv` adds `RequestsAreTrue` (what waits in the daemon's queue was asked, and
a close is a socket's last request), `NamesAreTaken` (a name in use has its file,
or had it when a start removed all), `LastCallerIsBound` and `Beginnings`.

In `ForwardConfProofs`, for every file of lines and every table size:

| Theorem | Property | Argument |
|---|---|---|
| `ConfTypes` | `TypeOK` | inductive with the rest |
| `TableIsTheFile` | `PairsAsWritten` | `Pending`: the half pair in hand is the last line that counts; `UpToDate`: no line that counts lies between it and the end |
| `FileIsInTheTable` | `NothingLeftOut` | the same at the end of the file |
| `RoutesAreTheFile` | `ForwardsAsWritten` | from `PairsAsWritten` and the look-up's order |

In `SignalCodecProofs`, for every key, moment and source, anything in the memory
of sender and receiver, and integers of any number of bytes:

| Theorem | Property | Argument |
|---|---|---|
| `SignalsSaySucceeded` | `SignalsSucceed` | the two octets come first in the record, and each half of a byte is set by its own call |
| `RecordNamesTheBundle` | `EncodesTheKey` | `WireInv`: a record on the wire was encoded for the bundle; then what follows of `SdnvProofs` |
| `SignalDeletesTheKey` | `DeletesTheKey` | the payload that arrives begins with the record (`PayloadHolds`); its numbers are taken one after the other, each where the one before ends (`NumbersRead`, from `TakeEncodings` of `SdnvProofs`) |
| `SignalKeepsTheSource` | `SourceArrives` | behind the numbers the first zero byte ends the text (`TextRead`), and `strtok` cuts it at its one colon (`FirstToken`, `LastToken`) |

Two assumptions on the constants are of the code's own types: an endpoint is two C
strings, which hold no zero byte; the first is not empty and the second is not all
colons, or `strtok` would return nothing (`SourcesAssumption`); and a record fits in
the payload (`RoomAssumption`): the code has 4096 bytes for at most 27 and two
strings of 1024 with a colon and a zero.

`SdnvProofs` has the lemmas for it, for bytes of any width too: a sequence of bits
is the binary digits of its number (`DigitsOfNumber`), bytes and bits are one
to one (`ByteOfBits`, `BitsOfByte`), an encoding holds every bit of the word but
leading zeros (`EncodedWord`, `LengthOfEncoding`, `LeftOutIsZero`), and of
encodings in a row the k-th ends at the k-th byte without a continuation bit
(`FlattenedSeqs`, `EncodingsInARow`).  For the way back, `DecodingUndoesEncoding`:
whatever follows an encoding, decoding stops behind it (`LastGroupOfCode`),
takes as many bytes as the word needs (`DecodedLength`), writes into each the
bits that were its own (`CodeBitAt`, `DecodedBit`, `DecodedBytes`), and leaves
the bytes above as they were.  That last part is why a theorem on the receiver
has to name its old memory.  The library's induction theorems take an
operator, which the provers cannot instantiate; the lemmas use induction over
sets instead (`SetInduction`, from the least number of a set), and unfold each
fold to the function that `CHOOSE` picks, after showing that there is one.

In `BundleTransferProofs`, for any strings, payloads, times and numbers, integers of
any number of bytes, any sizes of the arrays and of the buffer that leave room for a
header, and anything in the memory of either struct:

| Theorem | Property | Argument |
|---|---|---|
| `ArrivesEqual` | `ArrivesAsSent` | what was decoded agrees with what was sent in every field (`DecodedAsSent`), and what `bundle_encode` recomputes follows from the others (`RenumberedSame`) |
| `BytesAreThoseSent` | `KeepsItsDigest` | so the encoding is the same (`WholeBundle`) |
| `OnlyPayloadIsLost` | `CutInThePayload` | a header is never longer than `HeaderMax`, which the buffer holds (`EncodingLaidOut`, `DatagramArrives`) |
| `MarksArrive` | `MarksAlwaysRight` | the flags are cleared first and are the first integer, and nothing decoded later touches them (`FlagsTaken`, `BlockKeepsFlags`) |
| `ReadsInsideArrays` | `DecodingStaysInside` | from the numbers of a bundle that was encoded (`NumbersOfBundle`): every offset is where a string begins, and every string has its zero in the dictionary (`StringReadBack`) |

The five hold only of bundles that were encoded, so `BundlesInv` adds `StructsHold`:
the receiver's struct is one, with anything in it; the sender's is up to date (its
computed integers are those that follow from its strings and marks, and its array
begins with its encoding); and a datagram on the wire is that encoding.  TLC has
checked `StructsHold` on the states of the run `bundles`.  A bundle is laid out part
by part (`Laid`); the fourteen integers before the dictionary are taken one after
the other into the old ones (`PrimaryRead`), the dictionary goes to the front of the
struct's (`DictionaryRead`), and only then is the place of the last two known
(`BlockRead`).  `NoWider` is what `wider` is about: decoding over an integer with no
byte beyond the new one's gives the new one (`DecodedOverNarrower`).

The assumptions are the code's sizes and what its strings are.
`ArraysAssumption`: header and payload fit in the array for the whole bundle (2048
and 4096 bytes, and 82 for two octets and sixteen integers, of 8192), and their
lengths in an integer.  `BufferAssumption`: the receive buffer (5000) has room for
the longest header (2130).  `BundlesAssumption`: strings hold no zero, and the
dictionary and the payload of a bundle fit their arrays.  The last part is up to
applications: `bp_sendto` copies what it is given without looking at lengths, and of
a bundle that does not fit its sender's struct nothing is said.  TLC evaluates all
three for the run.

So every safety property that a run finds to hold is proved too.  Only model-checked:
`AbsentKeyIsNull` and `DecodesWhatWasEncoded`, which are false; and liveness
(`ScanEnds`, `ReceiversReturn`, `OperationsEnd`, `WaitingReceives`, `CustodyEnds`),
which with `ENABLED` is outside the prover's reach.

## Not modelled

- The vendored hash family but for `fnv_32a_buf`: `fnv32.c`, `fnv64.c`,
  `hash_64.c`, `hash_64a.c` and `test_fnv.c` are command line tools and variants
  that the daemon does not link.
- The replica expiry thread, which is never created;
  `bpd_forward_table_find_by_origin_iaddr`,
  `bpd_forward_table_delete_by_origin_bp_endpoint_id`, `uri_init` and
  `uri_split`, which nothing calls; the flags, types and reason codes of
  `bundle.c` that nothing sets or tests, and its functions that copy one field;
  printing.
- Memory beyond what the code means to use: `malloc(sizeof(8))` for a key of
  eight bytes (bpd_bundle_list.c 239), the name of a socket in 20 bytes (bp.c
  52), and the entries after the last of the bind list and the forward table.
  The models stop at the bound.
- Digests that `strncmp` takes for equal (bpd_bundle_list.c 87), and the year
  2106 (`bugs`).
- An endless search, when a stale `next` leads back into a chain (hashtable.c
  193): `OperationsEnd` is checked for junk that leads to no entry.
- The last line of a configuration file that does not end in a newline, which
  the parser drops (bpd_forward_table.c 54).
- An endpoint that a second socket binds after the first has closed is not in a
  run: the look-ups ignore the valid mark (bpd_bind_list.c 56), so all goes to
  the first.  `bp_close` and the dead binding are in `Bpd` and `CustodyNet`, and
  the proofs allow any number of sockets of one name.
- Stale bytes of lengths, offsets and creation times across daemons:
  `BundleTransfer` has them for one pair of daemons, `CustodyNet` has those of
  sequence numbers.
