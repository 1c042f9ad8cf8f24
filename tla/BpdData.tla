------------------------------ MODULE BpdData ------------------------------
(***************************************************************************)
(* The data of the bundle protocol daemon and its pure look-ups: bundles,  *)
(* custody signals, the application bind list, the static forward table    *)
(* and the slot-chained hash tables.                                       *)
(*                                                                         *)
(* Names, payloads and addresses are atoms.  A bundle is the tuple of      *)
(* header fields the daemon reads; its SHA digest is the bundle itself,    *)
(* because the digest is taken over the whole encoding.                    *)
(***************************************************************************)
EXTENDS StaleBytes, Sequences, FiniteSets

CONSTANTS
    Eid,        \* endpoint identifiers (struct URI)
    Self,       \* bpd_forward_table_custodian_bp_endpoint_id of this daemon
    NoEid,      \* the empty URI "" : "" that uri_assign(.., "", "") writes
    Addr,       \* socket paths of applications (sockaddr_un)
    Time        \* creation times the wall clock may give, in seconds

ASSUME EidAssumption  == Self \in Eid /\ NoEid \in Eid /\ Self # NoEid
ASSUME TimeAssumption == Time \subseteq Nat /\ Time # {}

-----------------------------------------------------------------------------
(***************************************************************************)
(* Bundles and the administrative records they carry.                      *)
(***************************************************************************)

\* The key of a stored bundle, and what a custody signal names: it has no
\* source endpoint, only the creation time and the sequence number.
Key == [time : Time, seq : Number]

\* A payload is either application data or an encoded custody signal that says
\* "succeeded" and names a key.
Data == [kind |-> "data"]
CustodySignal == [kind : {"succeeded"}, named : Key]
Payload == {Data} \cup CustodySignal

Bundle == [src : Eid, dst : Eid, cust : Eid, time : Time, seq : Number,
           iscustody : BOOLEAN, isadmin : BOOLEAN, payload : Payload]

\* Memory that holds no bundle yet.
Blank == [src |-> NoEid, dst |-> NoEid, cust |-> NoEid,
          time |-> CHOOSE t \in Time : TRUE, seq |-> 0,
          iscustody |-> FALSE, isadmin |-> FALSE, payload |-> Data]

KeyOf(b) == [time |-> b.time, seq |-> b.seq]

\* The copy that goes into the bundle list: this daemon becomes the custodian.
Stored(b) == [b EXCEPT !.cust = Self]

\* Mutant of SignalFor: it names the bundle struct before decoding filled it.
SignalOfBlank(b, t) ==
    [Blank EXCEPT !.src = Self, !.dst = b.cust, !.time = t,
                  !.isadmin = TRUE,
                  !.payload = [kind |-> "succeeded", named |-> KeyOf(Blank)]]

\* The custody-transfer-succeeded signal for b, before it has a number.
SignalFor(b, t) ==
    [Blank EXCEPT !.src = Self, !.dst = b.cust, !.time = t,
                  !.isadmin = TRUE,
                  !.payload = [kind |-> "succeeded", named |-> KeyOf(b)]]

-----------------------------------------------------------------------------
(***************************************************************************)
(* The bind list: which endpoints are local, and at which socket.  The     *)
(* look-ups take the first entry and do not read its "valid" mark.         *)
(***************************************************************************)
Binding == [eid : Eid, addr : Addr, valid : BOOLEAN]

IsLocal(binds, e) == \E i \in DOMAIN binds : binds[i].eid = e

FindByEid(binds, e) ==
    CHOOSE i \in DOMAIN binds :
        binds[i].eid = e /\ \A j \in 1..i-1 : binds[j].eid # e

IsBound(binds, a) == \E i \in DOMAIN binds : binds[i].addr = a

FindByAddr(binds, a) ==
    CHOOSE i \in DOMAIN binds :
        binds[i].addr = a /\ \A j \in 1..i-1 : binds[j].addr # a

\* The forward table only says whether a destination has a next hop: which
\* address it is makes no difference to one daemon.
HasRoute(table, e) == \E i \in DOMAIN table : table[i].valid /\ table[i].origin = e

-----------------------------------------------------------------------------
(***************************************************************************)
(* A look-up of a key that a slot-chained table does not hold, whose slot  *)
(* has the given chain of keys.  hashtable_search returns NULL only for an *)
(* empty slot: otherwise it runs off the end of the chain, and a slot head *)
(* left behind by a delete may be wild.                                    *)
(***************************************************************************)
SearchReturnsNull(chain, wildHead) == chain = {} /\ ~wildHead
=============================================================================
