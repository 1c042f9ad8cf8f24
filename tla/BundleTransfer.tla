--------------------------- MODULE BundleTransfer ---------------------------
(***************************************************************************)
(* Bundles from senders to one receiving thread, which keeps its struct    *)
(* from one bundle to the next.                                            *)
(***************************************************************************)
EXTENDS BundleCodec

CONSTANTS
    Names,      \* the eight strings of a bundle
    Times,      \* creation times
    Numbers,    \* sequence numbers
    Payloads,   \* payloads
    Fills,      \* bytes that memory may hold when nothing was written to it
    BufferSize, \* BUFFER_SIZE, what a datagram is cut to
    MaxBundles  \* bound on how many bundles are sent

\* Strings hold no zero byte.  bp_sendto copies what it is given without looking at
\* lengths: of a bundle that does not fit its own struct nothing is said.
ASSUME BundlesAssumption ==
    /\ Names \subseteq [DOMAIN Offsets -> Seq(Byte)]
    /\ \A names \in Names :
          /\ \A i \in DOMAIN Offsets : ~Contains(names[i], 0)
          /\ Len(Dictionary(names)) <= DictionaryMax
    /\ Payloads \subseteq Seq(Byte) /\ \A payload \in Payloads : Len(payload) <= PayloadMax
    /\ Times \subseteq Word /\ Numbers \subseteq Word /\ Fills \subseteq Byte

\* 5000 in the code: only a payload can be cut.
ASSUME BufferAssumption == BufferSize \in Nat /\ HeaderMax <= BufferSize

VARIABLES
    sent,       \* the sender's struct after bundle_encode
    wire,       \* the datagram on its way, <<>> if there is none
    r,          \* the struct of the receiving thread
    cut,        \* whether the last datagram was longer than the buffer
    wider,      \* whether an integer of r held a wider value than the sender's
    astray,     \* whether decoding has left the arrays: what follows is undefined
    count       \* bundles sent so far, bounded by MaxBundles

vars == <<sent, wire, r, cut, wider, astray, count>>

\* A struct nothing was written to.
Memory(fill) ==
    [version |-> fill, iscustody |-> FALSE, isadmin |-> FALSE,
     uri |-> [i \in DOMAIN Offsets |-> <<>>],
     num |-> [f \in Fields |-> [i \in 1..IntBytes |-> fill]],
     dictionary |-> [i \in 1..DictionaryMax |-> fill],
     block_type |-> fill,
     payload |-> [i \in 1..PayloadMax |-> fill],
     bundle |-> [i \in 1..BundleMax |-> fill],
     bundle_len |-> 0]

Init ==
    /\ \E fill \in Fills : r = Memory(fill)
    /\ sent = r
    /\ wire = <<>>
    /\ cut = FALSE
    /\ wider = FALSE
    /\ astray = FALSE
    /\ count = 0

\* bp_sendto and bpd_process_signal_send fill a struct; version, isadmin,
\* lifetime, block type and block flags are never set.  A custody bundle has a
\* custodian, and no other has one.
Send(names, time, number, payload, isadmin, fill) ==
    /\ wire = <<>> /\ ~astray /\ count < MaxBundles
    /\ LET blank == Memory(fill)
           filled == [blank EXCEPT
                         !.uri = names,
                         !.iscustody = names[8] # <<>>,
                         !.isadmin = isadmin,
                         !.num = [@ EXCEPT
                             !["creation_time"] = time,
                             !["creation_sequence_number"] = number,
                             !["payload_block_length"] = WordOf(Len(payload))],
                         !.payload = Overwrite(@, payload)]
       IN  sent' = BundleEncode(filled)
    /\ wire' = SubSeq(sent'.bundle, 1, sent'.bundle_len)
    /\ count' = count + 1
    /\ UNCHANGED <<r, cut, wider, astray>>

\* Some integer of the struct has a byte that the sender's value will not reach.
HoldsWider(s) ==
    \E f \in Fields \ {"bundle_proc_flags"} :
        \E i \in Width(sent.num[f])+1..IntBytes : s.num[f][i] # 0

\* Mutant of Datagram: nothing comes of a datagram that is too long.
DatagramWhole(bytes) == IF Len(bytes) > BufferSize THEN <<>> ELSE bytes

\* recvfrom drops what its buffer has no room for.
Datagram(bytes) == SubSeq(bytes, 1, Min({Len(bytes), BufferSize}))

\* memcpy into the struct, bundle_decode, and the bundle_encode at the start of
\* bpd_bundle_list_insert.
Receive ==
    /\ wire # <<>>
    /\ cut' = (Len(wire) > BufferSize)
    /\ LET filled == [r EXCEPT !.bundle = Overwrite(@, Datagram(wire))]
       IN  /\ astray' = ~DecodesInside(filled)
           /\ r' = IF astray' THEN filled ELSE BundleEncode(BundleDecode(filled))
    /\ wider' = HoldsWider(r)
    /\ wire' = <<>>
    /\ UNCHANGED <<sent, count>>

Next ==
    \/ Receive
    \/ \E names \in Names, time \in Times, number \in Numbers, payload \in Payloads,
          isadmin \in BOOLEAN, fill \in Fills :
          Send(names, time, number, payload, isadmin, fill)

Spec == Init /\ [][Next]_vars

-----------------------------------------------------------------------------
\* What a bundle says, apart from the layout of its memory.
Content(s) ==
    [version |-> s.version, iscustody |-> s.iscustody, isadmin |-> s.isadmin,
     uri |-> s.uri, block_type |-> s.block_type, payload |-> PayloadOf(s),
     num |-> [f \in Fields \ {"primary_block_length"} |-> s.num[f]]]

Received == wire = <<>> /\ count > 0 /\ ~astray

\* A bundle that fits the buffer arrives as it was sent: endpoints, numbers, marks
\* and payload, also in memory that held another bundle, unless an integer there
\* was wider than the one that replaces it (bundle.c 706-836).
ArrivesAsSent == Received /\ ~wider /\ ~cut => Content(r) = Content(sent)

\* Encoding what was decoded gives the bytes that came, so that a bundle keeps
\* its digest from daemon to daemon and the replica filter knows it again
\* (bpd_bundle_list.c 181 and 199-203).
KeepsItsDigest ==
    Received /\ ~wider /\ ~cut =>
        SubSeq(r.bundle, 1, r.bundle_len) = SubSeq(sent.bundle, 1, sent.bundle_len)

\* Of a bundle that is longer than the buffer only the end of the payload is lost,
\* and nothing tells: its length is as sent, and what the struct held there before
\* takes its place.  So its digest is not the sender's, and it is signalled and
\* kept as a bundle of that key all the same (bpd.c 65-73).
CutInThePayload ==
    Received /\ ~wider /\ cut =>
        LET lost == sent.bundle_len - BufferSize
            whole == Len(PayloadOf(sent)) - lost
        IN  /\ [Content(r) EXCEPT !.payload = <<>>] = [Content(sent) EXCEPT !.payload = <<>>]
            /\ Len(PayloadOf(r)) = Len(PayloadOf(sent))
            /\ SubSeq(PayloadOf(r), 1, whole) = SubSeq(PayloadOf(sent), 1, whole)
            /\ whole >= 0

\* The marks that decide on custody and administration are right whatever the
\* struct held before, as long as decoding ends at all (bundle.c 713-716 and
\* 813-824).
MarksAlwaysRight ==
    Received => r.iscustody = sent.iscustody /\ r.isadmin = sent.isadmin

\* Decoding does not leave the arrays, unless an integer was wider before.
DecodingStaysInside == astray => wider
=============================================================================
