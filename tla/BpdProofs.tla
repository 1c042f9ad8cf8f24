----------------------------- MODULE BpdProofs -----------------------------
(***************************************************************************)
(* What holds of the daemon for every set of applications, neighbours and  *)
(* bundles, every interleaving of its threads and every bound.             *)
(***************************************************************************)
EXTENDS Bpd, SequenceTheorems, TLAPS, WellFoundedInduction

-----------------------------------------------------------------------------
(***************************************************************************)
(* What the data operators of BpdData return, for every value of the       *)
(* constants.                                                              *)
(***************************************************************************)
\* A non-empty set of numbers has a smallest one: the CHOOSE of the look-ups
\* that take the first match, and of ByteWidth, has something to choose.
LEMMA LeastNumber ==
    ASSUME NEW T \in SUBSET Nat, T # {}
    PROVE  \E x \in T : \A y \in T : x <= y
<1>1. \E x \in T : \A y \in T : ~(<<y, x>> \in OpToRel(<, Nat))
    BY NatLessThanWellFounded, WFMin
<1>2. \A x, y \in Nat : y < x => <<y, x>> \in OpToRel(<, Nat)
    <2>1. SUFFICES ASSUME NEW x \in Nat, NEW y \in Nat, y < x
                   PROVE  <<y, x>> \in OpToRel(<, Nat)
        OBVIOUS
    <2>2. <<y, x>> \in Nat \X Nat /\ <<y, x>>[1] = y /\ <<y, x>>[2] = x
        OBVIOUS
    <2>. QED
        BY <2>1, <2>2, Zenon DEF OpToRel
<1>3. PICK x \in T : \A y \in T : ~(<<y, x>> \in OpToRel(<, Nat))
    BY <1>1
<1>4. \A y \in T : ~(y < x)
    BY <1>2, <1>3
<1>. QED
    BY <1>4

\* A bounded one has a largest: the entry dllhashtable_delete takes.
LEMMA GreatestNumber ==
    ASSUME NEW n \in Nat, NEW T \in SUBSET (1..n), T # {}
    PROVE  \E x \in T : \A y \in T : y <= x
<1>. DEFINE R == {n - y : y \in T}
<1>1. R \in SUBSET Nat /\ R # {}
    <2>1. \A y \in T : n - y \in Nat
        OBVIOUS
    <2>. QED
        BY <2>1
<1>2. PICK r \in R : \A q \in R : r <= q
    BY <1>1, LeastNumber
<1>3. PICK x \in T : r = n - x
    BY <1>2
<1>4. \A y \in T : n - x <= n - y
    BY <1>2, <1>3
<1>. QED
    BY <1>4

LEMMA ByteWidthFits ==
    ASSUME NEW v \in Number
    PROVE  ByteWidth(v) \in Widths /\ v < ByteWidth(v)
<1>1. FitsIn(v) \in SUBSET Nat /\ FitsIn(v) # {}
    <2>1. FitsIn(v) \subseteq Nat
        BY WidthAssumption DEF FitsIn
    <2>2. SeqSpan \in FitsIn(v)
        BY WidthAssumption DEF FitsIn, Number
    <2>. QED
        BY <2>1, <2>2
<1>2. \E w \in FitsIn(v) : \A x \in FitsIn(v) : w <= x
    BY <1>1, LeastNumber
<1>3. ByteWidth(v) \in FitsIn(v)
    BY <1>2 DEF ByteWidth
<1>. QED
    BY <1>3 DEF FitsIn

\* Decoding a number over another gives a number: the bytes kept and the bytes
\* written never overlap and never leave the word.
LEMMA OverlayIsNumber ==
    ASSUME NEW old \in Number, NEW v \in Number
    PROVE  Overlay(old, v) \in Number
<1>. DEFINE w == ByteWidth(v)
            q == SeqSpan \div w
            h == old \div w
<1>1. /\ w \in Nat \ {0} /\ v < w /\ v \in Nat /\ old \in Nat
      /\ SeqSpan \in Nat \ {0} /\ SeqSpan % w = 0 /\ old < SeqSpan
    <2>1. w \in Widths /\ v < w
        BY ByteWidthFits
    <2>2. SeqSpan \in Nat \ {0} /\ v \in Nat /\ old \in Nat /\ old < SeqSpan
        BY WidthAssumption DEF Number
    <2>3. w \in Nat \ {0} /\ SeqSpan % w = 0
        BY <2>1, WidthAssumption
    <2>. QED
        BY <2>1, <2>2, <2>3
<1>2. q \in Nat /\ h \in Nat
    BY <1>1
<1>3. SeqSpan = w * q
    BY <1>1
<1>4. w * h <= old
    BY <1>1
<1>. HIDE DEF w, q, h
<1>5. w * h < w * q
    BY <1>1, <1>2, <1>3, <1>4
<1>6. h < q
    BY <1>1, <1>2, <1>5
<1>7. h + 1 <= q
    BY <1>2, <1>6
<1>8. w * (h + 1) <= w * q
    BY <1>1, <1>2, <1>7
<1>9. w * h + v < SeqSpan /\ w * h + v \in Nat
    BY <1>1, <1>2, <1>3, <1>8
<1>. QED
    BY <1>1, <1>2, <1>9 DEF Overlay, Number, w, h

-----------------------------------------------------------------------------
\* The bind-list look-ups return a position that matches.
LEMMA FindByEidMatches ==
    ASSUME NEW binds \in Seq(Binding), NEW e, IsLocal(binds, e)
    PROVE  FindByEid(binds, e) \in 1..Len(binds) /\ binds[FindByEid(binds, e)].eid = e
<1>. DEFINE T == {i \in 1..Len(binds) : binds[i].eid = e}
<1>1. T \in SUBSET Nat /\ T # {}
    BY DEF IsLocal
<1>2. PICK i \in T : \A j \in T : i <= j
    BY <1>1, LeastNumber
<1>3. \A j \in 1..i-1 : binds[j].eid # e
    BY <1>2
<1>4. i \in DOMAIN binds /\ binds[i].eid = e
    BY <1>2
<1>. HIDE DEF T
<1>. QED
    BY <1>3, <1>4 DEF FindByEid

LEMMA FindByAddrMatches ==
    ASSUME NEW binds \in Seq(Binding), NEW a, IsBound(binds, a)
    PROVE  FindByAddr(binds, a) \in 1..Len(binds) /\ binds[FindByAddr(binds, a)].addr = a
<1>. DEFINE T == {i \in 1..Len(binds) : binds[i].addr = a}
<1>1. T \in SUBSET Nat /\ T # {}
    BY DEF IsBound
<1>2. PICK i \in T : \A j \in T : i <= j
    BY <1>1, LeastNumber
<1>3. \A j \in 1..i-1 : binds[j].addr # a
    BY <1>2
<1>4. i \in DOMAIN binds /\ binds[i].addr = a
    BY <1>2
<1>. HIDE DEF T
<1>. QED
    BY <1>3, <1>4 DEF FindByAddr

\* Removing one entry keeps every other one, and adds none.
LEMMA RemoveAtKeeps ==
    ASSUME NEW S, NEW s \in Seq(S), NEW i \in 1..Len(s)
    PROVE  /\ RemoveAt(s, i) \in Seq(S)
           /\ \A j \in 1..Len(s) : j # i => s[j] \in Range(RemoveAt(s, i))
           /\ Range(RemoveAt(s, i)) \subseteq Range(s)
<1>. DEFINE front == SubSeq(s, 1, i-1)
            back  == SubSeq(s, i+1, Len(s))
<1>0. Len(s) \in Nat /\ i \in Int /\ \A j \in 1..Len(s) : s[j] \in S
    OBVIOUS
<1>1. /\ front \in Seq(S) /\ Len(front) = i - 1
      /\ \A j \in 1..i-1 : front[j] = s[j]
    <2>1. \A j \in 1..i-1 : s[j] \in S
        BY <1>0
    <2>2. /\ front \in Seq(S)
          /\ Len(front) = IF 1 <= i-1 THEN (i-1)-1+1 ELSE 0
          /\ \A j \in 1..(i-1)-1+1 : front[j] = s[1+j-1]
        BY <1>0, <2>1, SubSeqProperties
    <2>. QED
        BY <1>0, <2>2
<1>2. /\ back \in Seq(S) /\ Len(back) = Len(s) - i
      /\ \A j \in 1..Len(s)-i : back[j] = s[i+j]
    <2>1. \A j \in i+1..Len(s) : s[j] \in S
        BY <1>0
    <2>2. /\ back \in Seq(S)
          /\ Len(back) = IF i+1 <= Len(s) THEN Len(s)-(i+1)+1 ELSE 0
          /\ \A j \in 1..Len(s)-(i+1)+1 : back[j] = s[i+1+j-1]
        BY <1>0, <2>1, SubSeqProperties
    <2>. QED
        BY <1>0, <2>2
<1>3. RemoveAt(s, i) = front \o back
    BY DEF RemoveAt
<1>. HIDE DEF front, back
<1>4. /\ front \o back \in Seq(S)
      /\ Len(front \o back) = Len(front) + Len(back)
      /\ \A j \in 1..Len(front) + Len(back) :
            (front \o back)[j] = IF j <= Len(front) THEN front[j]
                                 ELSE back[j - Len(front)]
    BY <1>1, <1>2, ConcatProperties
<1>5. \A j \in 1..Len(s) : j # i => \E k \in 1..Len(front \o back) :
                                       (front \o back)[k] = s[j]
    <2>1. SUFFICES ASSUME NEW j \in 1..Len(s), j # i
                   PROVE  \E k \in 1..Len(front \o back) : (front \o back)[k] = s[j]
        OBVIOUS
    <2>2. CASE j < i
        <3>1. j \in 1..Len(front \o back) /\ j \in 1..i-1
            BY <1>0, <1>1, <1>2, <1>4, <2>2
        <3>2. (front \o back)[j] = front[j] /\ front[j] = s[j]
            BY <1>0, <1>1, <1>2, <1>4, <2>2, <3>1
        <3>. QED
            BY <3>1, <3>2
    <2>3. CASE j > i
        <3>1. j - 1 \in 1..Len(front \o back) /\ j - i \in 1..Len(s) - i
            BY <1>0, <1>1, <1>2, <1>4, <2>3
        <3>2. (front \o back)[j - 1] = back[j - i] /\ back[j - i] = s[j]
            BY <1>0, <1>1, <1>2, <1>4, <2>3, <3>1
        <3>. QED
            BY <3>1, <3>2
    <2>. QED
        BY <2>1, <2>2, <2>3
<1>6. DOMAIN (front \o back) = 1..Len(front \o back)
    BY <1>4, LenProperties
<1>7. \A j \in 1..Len(s) : j # i => s[j] \in Range(front \o back)
    BY <1>5, <1>6, Zenon DEF Range
<1>8. \A k \in 1..Len(front \o back) : \E j \in 1..Len(s) : (front \o back)[k] = s[j]
    <2>1. SUFFICES ASSUME NEW k \in 1..Len(front \o back)
                   PROVE  \E j \in 1..Len(s) : (front \o back)[k] = s[j]
        OBVIOUS
    <2>2. CASE k <= Len(front)
        <3>1. k \in 1..Len(s) /\ (front \o back)[k] = s[k]
            BY <1>0, <1>1, <1>2, <1>4, <2>1, <2>2
        <3>. QED
            BY <3>1
    <2>3. CASE k > Len(front)
        <3>1. k - Len(front) \in 1..Len(s)-i /\ k + 1 \in 1..Len(s)
            BY <1>0, <1>1, <1>2, <1>4, <2>1, <2>3
        <3>2. (front \o back)[k] = back[k - Len(front)]
            BY <1>1, <1>2, <1>4, <2>1, <2>3
        <3>3. back[k - Len(front)] = s[i + (k - Len(front))]
            BY <1>2, <3>1
        <3>4. i + (k - Len(front)) = k + 1
            BY <1>0, <1>1, <1>4, <2>1
        <3>. QED
            BY <3>1, <3>2, <3>3, <3>4
    <2>. QED
        BY <1>1, <2>1, <2>2, <2>3
<1>9. DOMAIN s = 1..Len(s)
    BY LenProperties
<1>10. Range(front \o back) \subseteq Range(s)
    BY <1>6, <1>8, <1>9, Zenon DEF Range
<1>. QED
    BY <1>3, <1>4, <1>7, <1>10, Zenon

-----------------------------------------------------------------------------
\* The operators that build bundles build bundles.
LEMMA BlankIsBundle == Blank \in Bundle
<1>1. (CHOOSE t \in Time : TRUE) \in Time
    BY TimeAssumption
<1>2. 0 \in Number
    BY WidthAssumption DEF Number
<1>. QED
    BY <1>1, <1>2, EidAssumption DEF Blank, Bundle, Payload

LEMMA KeyOfIsKey == ASSUME NEW b \in Bundle PROVE KeyOf(b) \in Key
    BY DEF KeyOf, Key, Bundle

LEMMA StoredIsBundle ==
    ASSUME NEW b \in Bundle
    PROVE  Stored(b) \in Bundle /\ KeyOf(Stored(b)) = KeyOf(b)
    BY EidAssumption DEF Stored, Bundle, KeyOf

LEMMA RenumberedIsBundle ==
    ASSUME NEW b \in Bundle, NEW n \in Number
    PROVE  [b EXCEPT !.seq = n] \in Bundle
    BY DEF Bundle

LEMMA RenamedIsBundle ==
    ASSUME NEW b \in Bundle, NEW e \in Eid
    PROVE  [b EXCEPT !.cust = e] \in Bundle /\ [b EXCEPT !.src = e] \in Bundle
    BY DEF Bundle

LEMMA SignalIsBundle ==
    ASSUME NEW b \in Bundle, NEW t \in Time
    PROVE  /\ SignalFor(b, t) \in Bundle
           /\ SignalFor(b, t).iscustody = FALSE /\ SignalFor(b, t).isadmin = TRUE
<1>1. [kind |-> "succeeded", named |-> KeyOf(b)] \in Payload
    BY KeyOfIsKey DEF Payload, CustodySignal
<1>2. Blank.iscustody = FALSE
    BY DEF Blank
<1>. QED
    BY <1>1, <1>2, BlankIsBundle, EidAssumption DEF SignalFor, Bundle

-----------------------------------------------------------------------------
(***************************************************************************)
(* Types.                                                                  *)
(***************************************************************************)
\* The environment sends only bundles.
LEMMA ArrivalsAreBundles ==
    ASSUME TypeOK
    PROVE  NetIn \cup PeerSignals \cup Loops \subseteq Bundle
<1>1. NetIn \subseteq Bundle
    BY NetInAssumption
<1>2. PeerSignals \subseteq Bundle
    <2>1. SUFFICES ASSUME NEW b \in wire, NEW p \in Peers
                   PROVE  [SignalFor(b, b.time) EXCEPT !.src = p] \in Bundle
        BY DEF PeerSignals
    <2>2. b \in Bundle /\ b.time \in Time /\ p \in Eid
        BY <2>1, PeersAssumption DEF TypeOK, Bundle
    <2>. QED
        BY <2>2, SignalIsBundle, RenamedIsBundle
<1>3. Loops \subseteq Bundle
    <2>1. SUFFICES ASSUME NEW b \in wire, NEW p \in Peers
                   PROVE  [b EXCEPT !.cust = IF b.iscustody THEN p ELSE @] \in Bundle
        BY DEF Loops
    <2>2. b \in Bundle /\ p \in Eid /\ b.cust \in Eid
        BY <2>1, PeersAssumption DEF TypeOK, Bundle
    <2>. QED
        BY <2>2, RenamedIsBundle
<1>. QED
    BY <1>1, <1>2, <1>3

LEMMA NewestMatches ==
    ASSUME TypeOK, NEW k, k \in Keys
    PROVE  /\ Newest(k) \in 1..Len(list)
           /\ KeyOf(list[Newest(k)]) = k
<1>. DEFINE T == {i \in 1..Len(list) : KeyOf(list[i]) = k}
<1>1. Len(list) \in Nat /\ DOMAIN list = 1..Len(list)
    BY DEF TypeOK
<1>2. T \in SUBSET (1..Len(list)) /\ T # {}
    BY <1>1 DEF Keys, Range
<1>3. PICK i \in T : \A j \in T : j <= i
    BY <1>1, <1>2, GreatestNumber
<1>4. \A j \in i+1..Len(list) : KeyOf(list[j]) # k
    BY <1>1, <1>3
<1>5. i \in DOMAIN list /\ KeyOf(list[i]) = k
    BY <1>1, <1>3
<1>. HIDE DEF T
<1>. QED
    BY <1>1, <1>4, <1>5 DEF Newest

-----------------------------------------------------------------------------
\* Every variable keeps its type.
LEMMA TypeInit == Init => TypeOK
<1>. SUFFICES ASSUME Init PROVE TypeOK
    OBVIOUS
<1>1. Blank \in Bundle /\ KeyOf(Blank) \in Key /\ 0 \in Number
    BY BlankIsBundle, KeyOfIsKey, WidthAssumption DEF Number
<1>2. bun \in [Threads -> Bundle]
    <2>1. PICK s \in StaleWords :
              bun = [t \in Threads |->
                        IF t = "isock" THEN [Blank EXCEPT !.seq = s] ELSE Blank]
        BY DEF Init
    <2>2. [Blank EXCEPT !.seq = s] \in Bundle
        BY <1>1, <2>1, MemoryAssumption, RenumberedIsBundle
    <2>. QED
        BY <1>1, <2>1, <2>2
<1>3. adm \in [Threads -> Bundle] /\ key \in [Threads -> Key]
    BY <1>1 DEF Init
<1>4. pc \in [Threads -> Labels] /\ lock \in [Mutexes -> Threads \cup {Nobody}]
    BY DEF Init, Labels, Threads
<1>5. request \in Requests
    BY DEF Init, Requests
<1>6. /\ usockQ \in Seq(Requests \ {NoRequest}) /\ bindList \in Seq(Binding)
      /\ replicas \in Seq(Bundle) /\ list \in Seq(Bundle) /\ issued \in Seq(Number)
    BY DEF Init
<1>. QED
    BY <1>1, <1>2, <1>3, <1>4, <1>5, <1>6 DEF Init, TypeOK, Tally

LEMMA TallyGrows ==
    ASSUME NEW r \in Tally
    PROVE  /\ [r EXCEPT !.sends = @ + 1] \in Tally
           /\ [r EXCEPT !.recvs = @ + 1] \in Tally
           /\ [r EXCEPT !.errors = @ + 1] \in Tally
           /\ [r EXCEPT !.binds = @ + 1] \in Tally
    BY DEF Tally

LEMMA TypeApplication == TypeOK /\ Application => TypeOK'
<1>. SUFFICES ASSUME TypeOK, NEW a \in Addr,
                     bp_bind(a) \/ bp_sendto(a) \/ bp_close(a) \/ bp_recv(a)
              PROVE  TypeOK'
    BY DEF Application
<1>. USE DEF envVars, tableVars, localVars, historyVars
<1>1. CASE bp_bind(a)
    <2>1. [type |-> "bind", addr |-> a] \in Requests \ {NoRequest}
        BY DEF Requests, NoRequest
    <2>. QED
        BY <1>1, <2>1, TallyGrows, AppendProperties DEF bp_bind, Request, TypeOK
<1>2. CASE bp_sendto(a)
    <2>1. PICK s \in AppSends, admin \in AppAdmin :
              Request([type |-> "send", addr |-> a, dst |-> s.dst,
                       iscustody |-> s.iscustody, isadmin |-> admin])
        BY <1>2 DEF bp_sendto
    <2>2. [type |-> "send", addr |-> a, dst |-> s.dst, iscustody |-> s.iscustody,
           isadmin |-> admin] \in Requests \ {NoRequest}
        BY AppAssumption DEF Requests, NoRequest
    <2>. QED
        BY <1>2, <2>1, <2>2, TallyGrows, AppendProperties DEF bp_sendto, Request, TypeOK
<1>3. CASE bp_close(a)
    <2>1. [type |-> "close", addr |-> a] \in Requests \ {NoRequest}
        BY DEF Requests, NoRequest
    <2>. QED
        BY <1>3, <2>1, AppendProperties DEF bp_close, Request, TypeOK
<1>4. CASE bp_recv(a)
    BY <1>4 DEF bp_recv, TypeOK
<1>. QED
    BY <1>1, <1>2, <1>3, <1>4

LEMMA TypeReceive == TypeOK /\ (UsockRecv \/ UsockRecvError \/ IsockRecv) => TypeOK'
<1>. SUFFICES ASSUME TypeOK, UsockRecv \/ UsockRecvError \/ IsockRecv
              PROVE  TypeOK'
    OBVIOUS
<1>. USE DEF envVars, tableVars, localVars, historyVars
<1>1. ASSUME NEW r \in Requests, ProcessRequest(r)
      PROVE  /\ bindList' \in Seq(Binding)
             /\ pc' \in [Threads -> Labels]
             /\ bun' \in [Threads -> Bundle]
    <2>1. CASE bpd_process_signal_bind(r)
        <3>1. [eid |-> AppNames[r.addr], addr |-> r.addr, valid |-> TRUE] \in Binding
            BY <2>1, AppAssumption DEF bpd_process_signal_bind, Requests, NoRequest,
                                       Binding
        <3>. QED
            BY <2>1, <3>1, AppendProperties DEF bpd_process_signal_bind, TypeOK
    <2>2. CASE bpd_process_signal_close(r)
        <3>1. CASE IsBound(bindList, r.addr)
            <4>. DEFINE i == FindByAddr(bindList, r.addr)
            <4>1. bindList \in Seq(Binding) /\ i \in 1..Len(bindList)
                BY <3>1, FindByAddrMatches DEF TypeOK
            <4>2. [bindList[i] EXCEPT !.valid = FALSE] \in Binding
                <5>. HIDE DEF i
                <5>1. bindList[i] \in Binding
                    BY <4>1, ElementOfSeq
                <5>. QED
                    BY <5>1 DEF Binding
            <4>3. bindList' = [bindList EXCEPT ![i] = [bindList[i] EXCEPT !.valid = FALSE]]
                BY <2>2, <3>1 DEF bpd_process_signal_close
            <4>. HIDE DEF i
            <4>4. bindList' \in Seq(Binding)
                BY <4>1, <4>2, <4>3, ExceptSeq
            <4>. QED
                BY <2>2, <4>4 DEF bpd_process_signal_close, TypeOK
        <3>2. CASE ~IsBound(bindList, r.addr)
            BY <2>2, <3>2 DEF bpd_process_signal_close, TypeOK
        <3>. QED
            BY <3>1, <3>2
    <2>3. CASE bpd_process_signal_send(r)
        <3>1. CASE IsBound(bindList, r.addr)
            <4>1. PICK now \in Time :
                      bun' = [bun EXCEPT !["usock"] =
                         [src |-> bindList[FindByAddr(bindList, r.addr)].eid,
                          dst |-> r.dst,
                          cust |-> IF r.iscustody THEN Self ELSE NoEid,
                          time |-> now, seq |-> 0, iscustody |-> r.iscustody,
                          isadmin |-> r.isadmin, payload |-> Data]]
                BY <2>3, <3>1 DEF bpd_process_signal_send
            <4>2. bindList[FindByAddr(bindList, r.addr)].eid \in Eid
                <5>1. /\ bindList \in Seq(Binding)
                      /\ FindByAddr(bindList, r.addr) \in 1..Len(bindList)
                    BY <3>1, FindByAddrMatches DEF TypeOK
                <5>2. bindList[FindByAddr(bindList, r.addr)] \in Binding
                    BY <5>1, ElementOfSeq
                <5>. QED
                    BY <5>2 DEF Binding
            <4>3. r.dst \in Eid /\ r.iscustody \in BOOLEAN /\ r.isadmin \in BOOLEAN
                BY <2>3 DEF bpd_process_signal_send, Requests, NoRequest
            <4>4. 0 \in Number /\ Data \in Payload /\ Self \in Eid /\ NoEid \in Eid
                BY WidthAssumption, EidAssumption DEF Number, Payload
            <4>5. bun' \in [Threads -> Bundle]
                BY <4>1, <4>2, <4>3, <4>4 DEF TypeOK, Bundle
            <4>. QED
                BY <2>3, <3>1, <4>5 DEF bpd_process_signal_send, Goto, TypeOK, Labels
        <3>2. CASE ~IsBound(bindList, r.addr)
            BY <2>3, <3>2 DEF bpd_process_signal_send, Goto, TypeOK, Labels
        <3>. QED
            BY <3>1, <3>2
    <2>. QED
        BY <1>1, <2>1, <2>2, <2>3 DEF ProcessRequest
<1>2. CASE UsockRecv
    <2>1. /\ Head(usockQ) \in Requests
          /\ Tail(usockQ) \in Seq(Requests \ {NoRequest})
        BY <1>2, HeadTailProperties DEF UsockRecv, TypeOK
    <2>. QED
        BY <1>1, <1>2, <2>1 DEF UsockRecv, ProcessRequest, TypeOK
<1>3. CASE UsockRecvError
    <2>1. request \in Requests
        BY DEF TypeOK
    <2>. QED
        BY <1>1, <1>3, <2>1, TallyGrows DEF UsockRecvError, ProcessRequest, TypeOK
<1>4. CASE IsockRecv
    <2>1. PICK b \in NetIn \cup PeerSignals \cup Loops :
              /\ bun' = [bun EXCEPT !["isock"] =
                            [b EXCEPT !.seq = Overlay(bun["isock"].seq, b.seq)]]
              /\ Goto("isock", InsertEntry(b))
        BY <1>4 DEF IsockRecv
    <2>2. b \in Bundle /\ b.seq \in Number /\ bun["isock"].seq \in Number
        BY <2>1, ArrivalsAreBundles DEF TypeOK, Bundle, Threads
    <2>3. [b EXCEPT !.seq = Overlay(bun["isock"].seq, b.seq)] \in Bundle
        BY <2>2, OverlayIsNumber, RenumberedIsBundle
    <2>4. bun' \in [Threads -> Bundle]
        BY <2>1, <2>3 DEF TypeOK
    <2>5. pc' \in [Threads -> Labels]
        BY <2>1 DEF TypeOK, Goto, InsertEntry, Labels
    <2>. QED
        BY <1>4, <2>4, <2>5, TallyGrows DEF IsockRecv, TypeOK
<1>. QED
    BY <1>2, <1>3, <1>4

LEMMA TypeNumbering ==
    ASSUME TypeOK, NEW t \in Receivers, Numbering(t)
    PROVE  TypeOK'
<1>. USE DEF envVars, tableVars, localVars, historyVars
<1>0. t \in Threads
    BY DEF Receivers, Threads
<1>1. CASE SeqLock(t)
    BY <1>0, <1>1 DEF SeqLock, Acquire, Goto, TypeOK, Labels
<1>2. CASE SeqRead(t)
    <2>1. /\ [adm[t] EXCEPT !.seq = counter] \in Bundle
          /\ [bun[t] EXCEPT !.seq = counter] \in Bundle
        BY <1>0, RenumberedIsBundle DEF TypeOK
    <2>2. adm' \in [Threads -> Bundle] /\ bun' \in [Threads -> Bundle]
        BY <1>0, <1>2, <2>1 DEF SeqRead, TypeOK
    <2>3. issued' \in Seq(Number)
        BY <1>2, AppendProperties DEF SeqRead, TypeOK
    <2>. QED
        BY <1>0, <1>2, <2>2, <2>3 DEF SeqRead, Goto, TypeOK, Labels
<1>3. CASE SeqWrite(t)
    <2>1. Argument(t).seq \in Number
        BY <1>0 DEF Argument, TypeOK, Bundle
    <2>2. counter' = (Argument(t).seq + 1) % SeqSpan /\ Goto(t, InsertEntry(Argument(t)))
        BY <1>3 DEF SeqWrite, NextNumber
    <2>3. counter' \in Number
        BY <2>1, <2>2, WidthAssumption DEF Number
    <2>4. pc' \in [Threads -> Labels]
        BY <1>0, <2>2 DEF TypeOK, Goto, InsertEntry, Labels
    <2>. QED
        BY <1>3, <2>3, <2>4 DEF SeqWrite, Release, TypeOK, Mutexes
<1>. QED
    BY <1>1, <1>2, <1>3 DEF Numbering

LEMMA TypeInsertCustody ==
    ASSUME TypeOK, NEW t \in Receivers, InsertCustody(t)
    PROVE  TypeOK'
<1>. USE DEF envVars, tableVars, localVars, historyVars, Goto, Labels
<1>0. t \in Threads /\ bun[t] \in Bundle
    BY DEF Receivers, Threads, TypeOK
<1>1. CASE ReplicaSearch(t)
    BY <1>0, <1>1 DEF ReplicaSearch, TypeOK
<1>2. CASE ReplicaLock(t)
    BY <1>0, <1>2 DEF ReplicaLock, Acquire, TypeOK
<1>3. CASE ReplicaInsert(t)
    BY <1>0, <1>3, AppendProperties DEF ReplicaInsert, Release, TypeOK
<1>4. CASE SrcCheck(t)
    <2>1. adm' \in [Threads -> Bundle]
        <3>1. CASE IsLocal(bindList, bun[t].src)
            BY <1>4, <3>1 DEF SrcCheck, TypeOK
        <3>2. CASE ~IsLocal(bindList, bun[t].src)
            <4>1. PICK now \in Time : adm' = [adm EXCEPT ![t] = SignalFor(bun[t], now)]
                BY <1>4, <3>2 DEF SrcCheck
            <4>2. SignalFor(bun[t], now) \in Bundle
                BY <1>0, SignalIsBundle
            <4>. QED
                BY <4>1, <4>2 DEF TypeOK
        <3>. QED
            BY <3>1, <3>2
    <2>. QED
        BY <1>0, <1>4, <2>1 DEF SrcCheck, TypeOK
<1>5. CASE DstCheck(t)
    BY <1>0, <1>5 DEF DstCheck, TypeOK
<1>6. CASE ListLock(t)
    BY <1>0, <1>6 DEF ListLock, Acquire, TypeOK
<1>7. CASE ListInsert(t)
    BY <1>0, <1>7, StoredIsBundle, AppendProperties DEF ListInsert, Release, TypeOK
<1>. QED
    BY <1>1, <1>2, <1>3, <1>4, <1>5, <1>6, <1>7 DEF InsertCustody

LEMMA TypeForward ==
    ASSUME TypeOK, NEW t \in Threads, bpd_forward(t)
    PROVE  TypeOK'
<1>. USE DEF envVars, tableVars, localVars, historyVars, Goto, Labels
<1>0. Argument(t) \in Bundle /\ Blank \in Bundle
    BY BlankIsBundle DEF Argument, TypeOK
<1>1. Return(t) => pc' \in [Threads -> Labels] /\ adm' \in [Threads -> Bundle]
    BY <1>0 DEF Return, ReturnTo, TypeOK
<1>2. Settle(Argument(t)) \/ Lose(Argument(t)) =>
          settled' \subseteq Bundle /\ undelivered' \subseteq Bundle
    BY <1>0 DEF Settle, Lose, IfCustody, TypeOK
<1>3. CASE bpd_process_admin_record(t)
    <2>1. DecodedKeys(Argument(t)) \subseteq Key
        <3>1. CASE Argument(t).payload = Data
            BY <3>1 DEF DecodedKeys
        <3>2. CASE Argument(t).payload # Data
            <4>1. Argument(t).payload \in CustodySignal
                BY <1>0, <3>2 DEF Bundle, Payload
            <4>2. Argument(t).payload.named \in Key /\ Argument(t).payload.named.seq \in Number
                BY <4>1 DEF CustodySignal, Key
            <4>3. SUFFICES ASSUME NEW s \in StaleWords
                           PROVE  [Argument(t).payload.named EXCEPT
                                      !.seq = Overlay(s, @)] \in Key
                BY <3>2 DEF DecodedKeys
            <4>4. Overlay(s, Argument(t).payload.named.seq) \in Number
                BY <4>2, OverlayIsNumber, MemoryAssumption
            <4>. QED
                BY <4>2, <4>4 DEF Key
        <3>. QED
            BY <3>1, <3>2
    <2>2. \/ /\ \E k \in DecodedKeys(Argument(t)) : key' = [key EXCEPT ![t] = k]
             /\ Goto(t, "del_lock")
             /\ UNCHANGED adm
          \/ Return(t) /\ UNCHANGED key
        BY <1>3 DEF bpd_process_admin_record
    <2>3. key' \in [Threads -> Key] /\ pc' \in [Threads -> Labels] /\ adm' \in [Threads -> Bundle]
        BY <1>1, <2>1, <2>2 DEF TypeOK
    <2>. QED
        BY <1>2, <1>3, <2>3 DEF bpd_process_admin_record, TypeOK
<1>4. CASE ConsumeData(t)
    BY <1>1, <1>2, <1>4 DEF ConsumeData, TypeOK
<1>5. CASE Dispatch(t)
    <2>1. appQ' \in [Addr -> Nat]
        BY <1>5 DEF Dispatch, TypeOK
    <2>. QED
        BY <1>1, <1>2, <1>5, <2>1 DEF Dispatch, TypeOK
<1>6. CASE ForwardOrDrop(t)
    <2>1. wire' \subseteq Bundle
        BY <1>0, <1>6 DEF ForwardOrDrop, TypeOK
    <2>. QED
        BY <1>1, <1>6, <2>1 DEF ForwardOrDrop, TypeOK
<1>7. CASE DeleteLock(t)
    BY <1>7 DEF DeleteLock, Acquire, TypeOK
<1>8. CASE Delete(t)
    <2>1. list' \in Seq(Bundle) /\ released' \subseteq Bundle
        <3>1. CASE key[t] \in Keys
            <4>1. Newest(key[t]) \in 1..Len(list) /\ list \in Seq(Bundle)
                BY <3>1, NewestMatches DEF TypeOK
            <4>2. /\ list' = RemoveAt(list, Newest(key[t]))
                  /\ released' \subseteq released \cup {list[Newest(key[t])]}
                BY <1>8, <3>1 DEF Delete
            <4>3. list[Newest(key[t])] \in Bundle /\ released \subseteq Bundle
                BY <4>1 DEF TypeOK
            <4>4. list' \in Seq(Bundle)
                BY <4>1, <4>2, RemoveAtKeeps
            <4>. QED
                BY <4>2, <4>3, <4>4
        <3>2. CASE key[t] \notin Keys
            BY <1>8, <3>2 DEF Delete, TypeOK
        <3>. QED
            BY <3>1, <3>2
    <2>2. pc' \in [Threads -> Labels] /\ adm' \in [Threads -> Bundle]
        BY <1>1, <1>8 DEF Delete, TypeOK
    <2>. QED
        BY <1>8, <2>1, <2>2 DEF Delete, Release, TypeOK
<1>. QED
    BY <1>3, <1>4, <1>5, <1>6, <1>7, <1>8 DEF bpd_forward

\* The scan reads an entry that exists only because its cursor stays inside the
\* list: types alone are not inductive.
LEMMA TypeScan == TypeOK /\ ScanPlace /\ Scan => TypeOK'
<1>. SUFFICES ASSUME TypeOK, ScanPlace, Scan PROVE TypeOK'
    OBVIOUS
<1>. USE DEF envVars, tableVars, localVars, historyVars, Goto, Labels, Threads
<1>0. Len(list) \in Nat
    BY DEF TypeOK
<1>1. CASE ScanLock
    <2>1. cursor' \in Nat
        BY <1>0, <1>1 DEF ScanLock
    <2>2. lock' \in [Mutexes -> Threads \cup {Nobody}] /\ pc' \in [Threads -> Labels]
        BY <1>1 DEF ScanLock, Acquire, TypeOK
    <2>. QED
        BY <1>1, <2>1, <2>2 DEF ScanLock, TypeOK
<1>2. CASE ScanNext
    <2>1. cursor - 1 \in 1..Len(list)
        BY <1>0, <1>2 DEF ScanNext, ScanPlace, At, TypeOK
    <2>2. list[cursor - 1] \in Bundle
        BY <2>1, ElementOfSeq DEF TypeOK
    <2>. QED
        BY <1>2, <2>1, <2>2 DEF ScanNext, TypeOK
<1>3. CASE ScanUnlock
    BY <1>3, BlankIsBundle DEF ScanUnlock, Release, TypeOK
<1>. QED
    BY <1>1, <1>2, <1>3 DEF Scan

LEMMA TypeNext == TypeOK /\ ScanPlace /\ [Next]_vars => TypeOK'
<1>. SUFFICES ASSUME TypeOK, ScanPlace, [Next]_vars PROVE TypeOK'
    OBVIOUS
<1>1. CASE UNCHANGED vars
    BY <1>1 DEF vars, envVars, tableVars, localVars, historyVars, TypeOK
<1>2. CASE Application
    BY <1>2, TypeApplication
<1>3. CASE UsockRecv \/ UsockRecvError \/ IsockRecv
    BY <1>3, TypeReceive
<1>4. ASSUME NEW t \in Receivers, Numbering(t) \/ InsertCustody(t) PROVE TypeOK'
    BY <1>4, TypeNumbering, TypeInsertCustody
<1>5. ASSUME NEW t \in Threads, bpd_forward(t) PROVE TypeOK'
    BY <1>5, TypeForward
<1>6. CASE Scan
    BY <1>6, TypeScan
<1>. QED
    BY <1>1, <1>2, <1>3, <1>4, <1>5, <1>6 DEF Next

-----------------------------------------------------------------------------
(***************************************************************************)
(* The mutexes, and the scan that runs under one of them.                  *)
(***************************************************************************)
ThreadInv == TypeOK /\ ThreadPlaces /\ LocksHeld /\ ScanPlace /\ ScanEntryLive

LEMMA ThreadInit == Init => ThreadInv
<1>. SUFFICES ASSUME Init PROVE ThreadInv
    OBVIOUS
<1>1. TypeOK
    BY TypeInit
<1>2. ThreadPlaces /\ LocksHeld
    BY DEF Init, ThreadPlaces, LocksHeld, Threads, Receivers
<1>3. ScanPlace /\ ScanEntryLive
    BY DEF Init, ScanPlace, ScanEntryLive, Scanning, Threads
<1>. QED
    BY <1>1, <1>2, <1>3 DEF ThreadInv

\* What an action of one receiver does to the rest of the daemon.
LEMMA ReceiverStep ==
    ASSUME ThreadInv, NEW t \in Receivers, Numbering(t) \/ InsertCustody(t)
    PROVE  ThreadInv'
<1>. USE DEF envVars, tableVars, localVars, historyVars, Goto, Acquire, Release, At
<1>1. TypeOK /\ TypeOK'
    BY TypeNumbering, TypeInsertCustody DEF ThreadInv
<1>2. ThreadPlaces' /\ LocksHeld'
    <2>. USE DEF ThreadInv, ThreadPlaces, LocksHeld, Receivers, Threads, Nobody, Mutexes
    <2>1. CASE SeqLock(t)
        BY <1>1, <2>1 DEF SeqLock, TypeOK
    <2>2. CASE SeqRead(t)
        BY <1>1, <2>2 DEF SeqRead, TypeOK
    <2>3. CASE SeqWrite(t)
        BY <1>1, <2>3 DEF SeqWrite, InsertEntry, TypeOK
    <2>4. CASE ReplicaSearch(t)
        BY <1>1, <2>4 DEF ReplicaSearch, TypeOK
    <2>5. CASE ReplicaLock(t)
        BY <1>1, <2>5 DEF ReplicaLock, TypeOK
    <2>6. CASE ReplicaInsert(t)
        BY <1>1, <2>6 DEF ReplicaInsert, TypeOK
    <2>7. CASE SrcCheck(t)
        BY <1>1, <2>7 DEF SrcCheck, TypeOK
    <2>8. CASE DstCheck(t)
        BY <1>1, <2>8 DEF DstCheck, TypeOK
    <2>9. CASE ListLock(t)
        BY <1>1, <2>9 DEF ListLock, TypeOK
    <2>10. CASE ListInsert(t)
        BY <1>1, <2>10 DEF ListInsert, TypeOK
    <2>. QED
        BY <2>1, <2>2, <2>3, <2>4, <2>5, <2>6, <2>7, <2>8, <2>9, <2>10
        DEF Numbering, InsertCustody
<1>. DEFINE Still == UNCHANGED <<list, cursor, pc["scan"], bun["scan"]>>
<1>3. Still \/ ListInsert(t)
    BY <1>1 DEF TypeOK, Numbering, InsertCustody, SeqLock, SeqRead, SeqWrite,
                ReplicaSearch, ReplicaLock, ReplicaInsert, SrcCheck, DstCheck,
                ListLock, Receivers, Threads
<1>4. CASE Still
    BY <1>1, <1>2, <1>4 DEF ThreadInv, ScanPlace, ScanEntryLive, Scanning
\* It holds the list mutex, so the scan thread is asleep.
<1>5. CASE ListInsert(t)
    <2>1. lock["list"] = t /\ t # "scan"
        BY <1>5 DEF ListInsert, ThreadInv, LocksHeld, Receivers
    <2>2. pc["scan"] = "sleep"
        BY <2>1 DEF ThreadInv, LocksHeld
    <2>3. pc'["scan"] = "sleep"
        BY <1>1, <1>5, <2>1, <2>2 DEF ListInsert, TypeOK
    <2>. QED
        BY <1>1, <1>2, <2>3 DEF ThreadInv, ScanPlace, ScanEntryLive, Scanning
<1>. QED
    BY <1>3, <1>4, <1>5

LEMMA ForwardStep ==
    ASSUME ThreadInv, NEW t \in Threads, bpd_forward(t)
    PROVE  ThreadInv'
<1>. USE DEF envVars, tableVars, localVars, historyVars, Goto, Acquire, Release, At
<1>1. TypeOK /\ TypeOK'
    BY TypeForward DEF ThreadInv
<1>2. t = "scan" => ~Signalling(t)
    BY DEF ThreadInv, ThreadPlaces, Signalling
<1>3. Return(t) =>
         /\ pc' = [pc EXCEPT ![t] = IF t = "scan" THEN "scan_next" ELSE pc'[t]]
         /\ t # "scan" => pc'[t] \in {"dst_check", "recv"}
         /\ adm' = [adm EXCEPT ![t] = Blank]
    BY <1>1, <1>2 DEF Return, ReturnTo, TypeOK
\* The scan thread's place changes only by its own steps.
<1>4. /\ t # "scan" => pc'["scan"] = pc["scan"]
      /\ t = "scan" => pc["scan"] \in {"forward", "del_lock"}
                        /\ pc'["scan"] \in {"scan_next", "del_lock"}
    <2>1. Return(t) => /\ t # "scan" => pc'["scan"] = pc["scan"]
                       /\ t = "scan" => pc'["scan"] = "scan_next"
        BY <1>1, <1>2 DEF Return, ReturnTo, TypeOK, Threads
    <2>2. CASE bpd_process_admin_record(t)
        BY <1>1, <2>1, <2>2 DEF bpd_process_admin_record, Routing, TypeOK, Threads
    <2>3. CASE ConsumeData(t) \/ Dispatch(t) \/ ForwardOrDrop(t)
        BY <1>1, <2>1, <2>3 DEF ConsumeData, Dispatch, ForwardOrDrop, Routing
    <2>4. CASE DeleteLock(t)
        <3>1. t # "scan"
            BY <2>4 DEF DeleteLock, ThreadInv, LocksHeld, Nobody
        <3>. QED
            BY <1>1, <2>4, <3>1 DEF DeleteLock, TypeOK, Threads
    <2>5. CASE Delete(t)
        <3>1. t # "scan"
            BY <2>5 DEF Delete, ThreadInv, ThreadPlaces
        <3>. QED
            BY <1>1, <2>1, <2>5, <3>1 DEF Delete, TypeOK, Threads
    <2>. QED
        BY <2>2, <2>3, <2>4, <2>5 DEF bpd_forward
<1>5. ThreadPlaces' /\ LocksHeld'
    <2>. USE DEF ThreadInv, ThreadPlaces, LocksHeld, Receivers, Threads, Nobody, Mutexes
    <2>1. CASE bpd_process_admin_record(t)
        BY <1>1, <1>3, <2>1 DEF bpd_process_admin_record, Routing, TypeOK
    <2>2. CASE ConsumeData(t)
        BY <1>1, <1>3, <2>2 DEF ConsumeData, Routing, TypeOK
    <2>3. CASE Dispatch(t)
        BY <1>1, <1>3, <2>3 DEF Dispatch, Routing, TypeOK
    <2>4. CASE ForwardOrDrop(t)
        BY <1>1, <1>3, <2>4 DEF ForwardOrDrop, Routing, TypeOK
    <2>5. CASE DeleteLock(t)
        BY <1>1, <2>5 DEF DeleteLock, TypeOK
    <2>6. CASE Delete(t)
        BY <1>1, <1>3, <2>6 DEF Delete, TypeOK
    <2>. QED
        BY <2>1, <2>2, <2>3, <2>4, <2>5, <2>6 DEF bpd_forward
<1>6. CASE Delete(t)
    \* It holds the list mutex, so the scan thread is asleep.
    <2>1. t # "scan" /\ pc["scan"] = "sleep"
        BY <1>6 DEF Delete, ThreadInv, ThreadPlaces, LocksHeld, Receivers, Threads
    <2>2. pc'["scan"] = "sleep"
        BY <1>4, <2>1
    <2>. QED
        BY <1>1, <1>5, <2>2 DEF ThreadInv, ScanPlace, ScanEntryLive, Scanning
<1>7. CASE ~Delete(t)
    <2>1. UNCHANGED <<list, cursor, bun>>
        BY <1>7 DEF bpd_forward, bpd_process_admin_record, ConsumeData, Dispatch,
                    ForwardOrDrop, DeleteLock
    <2>2. pc["scan"] # "sleep" <=> pc'["scan"] # "sleep"
        BY <1>4
    <2>3. pc'["scan"] \in {"forward", "del_lock"} => Scanning
        BY <1>4 DEF Scanning
    <2>. QED
        BY <1>1, <1>5, <2>1, <2>2, <2>3 DEF ThreadInv, ScanPlace, ScanEntryLive, Scanning
<1>. QED
    BY <1>6, <1>7

LEMMA ScanStep == ThreadInv /\ Scan => ThreadInv'
<1>. SUFFICES ASSUME ThreadInv, Scan PROVE ThreadInv'
    OBVIOUS
<1>. USE DEF envVars, tableVars, localVars, historyVars, Goto, Acquire, Release, At
<1>1. TypeOK /\ TypeOK'
    BY TypeScan DEF ThreadInv
<1>2. Len(list) \in Nat /\ DOMAIN list = 1..Len(list)
    BY <1>1 DEF TypeOK
<1>3. ThreadPlaces' /\ LocksHeld'
    BY <1>1 DEF Scan, ScanLock, ScanNext, ScanUnlock, TypeOK, ThreadInv, ThreadPlaces,
                LocksHeld, Receivers, Threads, Nobody, Mutexes
<1>4. CASE ScanLock
    BY <1>1, <1>2, <1>3, <1>4 DEF ScanLock, TypeOK, ThreadInv, ScanPlace, ScanEntryLive,
                                  Scanning, Threads
<1>5. CASE ScanNext
    <2>1. cursor \in 1..Len(list)+1
        BY <1>5 DEF ScanNext, ThreadInv, ScanPlace
    <2>2. cursor' \in DOMAIN list
        BY <1>1, <1>2, <1>5, <2>1 DEF ScanNext, TypeOK
    <2>3. list' = list /\ bun'["scan"] = list[cursor']
        BY <1>1, <1>5 DEF ScanNext, TypeOK, Threads
    <2>. QED
        BY <1>1, <1>2, <1>3, <2>2, <2>3 DEF ThreadInv, ScanPlace, ScanEntryLive
<1>6. CASE ScanUnlock
    <2>1. pc'["scan"] = "sleep"
        BY <1>1, <1>6 DEF ScanUnlock, TypeOK, Threads
    <2>. QED
        BY <1>1, <1>3, <2>1 DEF ThreadInv, ScanPlace, ScanEntryLive, Scanning
<1>. QED
    BY <1>4, <1>5, <1>6 DEF Scan

LEMMA ReceiveStep ==
    ThreadInv /\ (UsockRecv \/ UsockRecvError \/ IsockRecv) => ThreadInv'
<1>. SUFFICES ASSUME ThreadInv, UsockRecv \/ UsockRecvError \/ IsockRecv
              PROVE  ThreadInv'
    OBVIOUS
<1>1. TypeOK /\ TypeOK'
    BY TypeReceive DEF ThreadInv
<1>2. PICK t \in Receivers, there \in {"recv", "seq_lock", "search", "forward", "fault"} :
          /\ pc' = [pc EXCEPT ![t] = there]
          /\ UNCHANGED <<list, cursor, lock, adm, bun["scan"]>>
    <2>1. ASSUME NEW r, pc["usock"] = "recv", ProcessRequest(r)
          PROVE  \E there \in {"recv", "seq_lock", "search", "forward", "fault"} :
                    /\ pc' = [pc EXCEPT !["usock"] = there]
                    /\ UNCHANGED <<list, cursor, lock, adm, bun["scan"]>>
        BY <1>1, <2>1 DEF ProcessRequest, bpd_process_signal_bind, Goto, TypeOK,
                          bpd_process_signal_close, bpd_process_signal_send, Threads
    <2>2. CASE UsockRecv
        BY <2>1, <2>2 DEF UsockRecv, At, Receivers
    <2>3. CASE UsockRecvError
        BY <2>1, <2>3 DEF UsockRecvError, At, Receivers
    <2>4. CASE IsockRecv
        BY <1>1, <2>4 DEF IsockRecv, tableVars, Goto, InsertEntry, Receivers, Threads, TypeOK
    <2>. QED
        BY <2>2, <2>3, <2>4
<1>. QED
    BY <1>1, <1>2 DEF ThreadInv, ThreadPlaces, LocksHeld, ScanPlace, ScanEntryLive,
                      Scanning, TypeOK, Receivers, Threads

LEMMA ThreadNext == ThreadInv /\ [Next]_vars => ThreadInv'
<1>. SUFFICES ASSUME ThreadInv, [Next]_vars PROVE ThreadInv'
    OBVIOUS
<1>1. TypeOK'
    BY TypeNext DEF ThreadInv
<1>2. CASE UNCHANGED <<list, cursor, lock, pc, bun, adm>>
    BY <1>1, <1>2 DEF ThreadInv, ThreadPlaces, LocksHeld, ScanPlace, ScanEntryLive,
                      Scanning
<1>3. CASE UNCHANGED vars
    BY <1>2, <1>3 DEF vars, tableVars, localVars
<1>4. CASE Application
    BY <1>2, <1>4 DEF Application, bp_bind, bp_sendto, bp_close, bp_recv, tableVars,
                      localVars
<1>5. CASE UsockRecv \/ UsockRecvError \/ IsockRecv
    BY <1>5, ReceiveStep
<1>6. ASSUME NEW t \in Receivers, Numbering(t) \/ InsertCustody(t) PROVE ThreadInv'
    BY <1>6, ReceiverStep
<1>7. ASSUME NEW t \in Threads, bpd_forward(t) PROVE ThreadInv'
    BY <1>7, ForwardStep
<1>8. CASE Scan
    BY <1>8, ScanStep
<1>. QED
    BY <1>3, <1>4, <1>5, <1>6, <1>7, <1>8 DEF Next

LEMMA ThreadsCorrect == Spec => []ThreadInv
<1>. QED
    BY ThreadInit, ThreadNext, PTL DEF Spec

\* Type correctness, for every value of the constants.
THEOREM TypeCorrect == Spec => []TypeOK
<1>1. ThreadInv => TypeOK
    BY DEF ThreadInv
<1>. QED
    BY <1>1, ThreadsCorrect, PTL

\* No step of another thread frees or moves the entry that the scan thread is
\* forwarding: both need the list mutex, which the scan keeps until its end.
THEOREM ScanSafe == Spec => []ScanEntryLive
<1>1. ThreadInv => ScanEntryLive
    BY DEF ThreadInv
<1>. QED
    BY <1>1, ThreadsCorrect, PTL

-----------------------------------------------------------------------------
(***************************************************************************)
(* While a thread sends a signal, its custody bundle waits to be placed.   *)
(***************************************************************************)
SignalInv == ThreadInv /\ SignalPlaces

LEMMA SignalInit == Init => SignalInv
<1>. SUFFICES ASSUME Init PROVE SignalInv
    OBVIOUS
<1>. QED
    BY ThreadInit DEF Init, SignalInv, SignalPlaces, Signalling, Custodial, Blank,
                      Receivers, Threads

\* SignalPlaces speaks of each thread alone: a step disturbs it only for the
\* thread that takes it.
LEMMA SignalsElsewhere ==
    ASSUME SignalInv, NEW t \in Threads,
           \A o \in Threads \ {t} :
              bun'[o] = bun[o] /\ adm'[o] = adm[o] /\ pc'[o] = pc[o],
           t \in Receivers =>
              /\ ~adm'[t].iscustody
              /\ Signalling(t)' => adm'[t].isadmin
              /\ pc'[t] \in Custodial \cup {"recv"} => ~Signalling(t)'
              /\ pc'[t] \in Custodial \/ Signalling(t)' => bun'[t].iscustody
    PROVE  SignalPlaces'
<1>1. \A o \in Receivers \ {t} : Signalling(o)' <=> Signalling(o)
    BY DEF Signalling, Receivers, Threads
<1>. QED
    BY <1>1 DEF SignalInv, SignalPlaces, Receivers, Threads

LEMMA SignalReceive ==
    SignalInv /\ (UsockRecv \/ UsockRecvError \/ IsockRecv) => SignalPlaces'
<1>. SUFFICES ASSUME SignalInv, UsockRecv \/ UsockRecvError \/ IsockRecv
              PROVE  SignalPlaces'
    OBVIOUS
<1>. USE DEF tableVars, localVars, Goto, At, Receivers, Threads
<1>1. TypeOK /\ SignalPlaces
    BY DEF SignalInv, ThreadInv
<1>2. ASSUME NEW r, pc["usock"] = "recv", ProcessRequest(r) PROVE SignalPlaces'
    <2>1. ~Signalling("usock") /\ ~Signalling("usock")' /\ adm' = adm
        BY <1>1, <1>2 DEF SignalPlaces, ProcessRequest, Signalling
    <2>2. /\ \A o \in {"isock", "scan"} : bun'[o] = bun[o] /\ pc'[o] = pc[o]
          /\ pc'["usock"] \in {"recv", "seq_lock", "fault"}
        BY <1>1, <1>2 DEF ProcessRequest, bpd_process_signal_bind, TypeOK,
                          bpd_process_signal_close, bpd_process_signal_send
    <2>. QED
        BY <1>1, <2>1, <2>2, SignalsElsewhere DEF SignalPlaces, Custodial
<1>3. CASE IsockRecv
    <2>1. PICK b \in NetIn \cup PeerSignals \cup Loops :
              /\ bun' = [bun EXCEPT !["isock"] =
                            [b EXCEPT !.seq = Overlay(bun["isock"].seq, b.seq)]]
              /\ pc' = [pc EXCEPT !["isock"] = InsertEntry(b)]
        BY <1>3 DEF IsockRecv
    <2>2. b \in Bundle
        BY <1>1, ArrivalsAreBundles
    <2>3. bun'["isock"].iscustody = b.iscustody
        BY <1>1, <2>1, <2>2 DEF TypeOK, Bundle
    <2>4. ~Signalling("isock") /\ ~Signalling("isock")' /\ adm' = adm
        BY <1>1, <1>3 DEF SignalPlaces, IsockRecv, Signalling
    <2>5. \A o \in {"usock", "scan"} : bun'[o] = bun[o] /\ pc'[o] = pc[o]
        BY <1>1, <2>1 DEF TypeOK
    <2>6. pc'["isock"] = InsertEntry(b)
        BY <1>1, <2>1 DEF TypeOK
    <2>. QED
        BY <1>1, <2>3, <2>4, <2>5, <2>6, SignalsElsewhere DEF SignalPlaces, Custodial, InsertEntry
<1>. QED
    BY <1>2, <1>3 DEF UsockRecv, UsockRecvError

LEMMA SignalReceivers ==
    ASSUME SignalInv, NEW t \in Receivers, Numbering(t) \/ InsertCustody(t)
    PROVE  SignalPlaces'
<1>. USE DEF envVars, tableVars, localVars, historyVars, Goto, At
<1>1. TypeOK /\ SignalPlaces /\ t \in Threads
    BY DEF SignalInv, ThreadInv, Receivers, Threads
<1>2. Blank.isadmin = FALSE /\ Blank.iscustody = FALSE
    BY DEF Blank
<1>3. CASE SeqLock(t)
    BY <1>1, <1>3, SignalsElsewhere DEF SeqLock, TypeOK, SignalPlaces, Custodial, Signalling
<1>4. CASE SeqRead(t)
    <2>1. counter \in Number /\ adm[t] \in Bundle /\ bun[t] \in Bundle
        BY <1>1 DEF TypeOK
    <2>2. /\ [adm[t] EXCEPT !.seq = counter].isadmin = adm[t].isadmin
          /\ [adm[t] EXCEPT !.seq = counter].iscustody = adm[t].iscustody
          /\ [bun[t] EXCEPT !.seq = counter].iscustody = bun[t].iscustody
        BY <2>1 DEF Bundle
    <2>3. /\ \A o \in Threads \ {t} :
                bun'[o] = bun[o] /\ adm'[o] = adm[o] /\ pc'[o] = pc[o]
          /\ pc'[t] = "seq_write"
          /\ bun'[t].iscustody = bun[t].iscustody
          /\ adm'[t].iscustody = adm[t].iscustody
          /\ Signalling(t) => adm'[t].isadmin = adm[t].isadmin
          /\ ~Signalling(t) => adm'[t] = adm[t]
        BY <1>1, <1>4, <2>2 DEF SeqRead, TypeOK
    <2>4. Signalling(t)' => Signalling(t)
        BY <2>3 DEF Signalling
    <2>. QED
        BY <1>1, <2>3, <2>4, SignalsElsewhere DEF SignalPlaces, Custodial
<1>5. CASE SeqWrite(t)
    <2>1. Signalling(t)' <=> Signalling(t)
        BY <1>5 DEF SeqWrite, Signalling
    <2>. QED
        BY <1>1, <1>5, <2>1, SignalsElsewhere DEF SeqWrite, Argument, InsertEntry, TypeOK, SignalPlaces,
                                           Custodial
<1>6. CASE SrcCheck(t)
    <2>1. CASE IsLocal(bindList, bun[t].src)
        BY <1>1, <1>6, <2>1, SignalsElsewhere DEF SrcCheck, TypeOK, SignalPlaces,
                                                  Custodial, Signalling
    <2>2. CASE ~IsLocal(bindList, bun[t].src)
        <3>1. PICK now \in Time : adm' = [adm EXCEPT ![t] = SignalFor(bun[t], now)]
            BY <1>6, <2>2 DEF SrcCheck
        <3>2. SignalFor(bun[t], now).isadmin /\ ~SignalFor(bun[t], now).iscustody
            BY <1>1, SignalIsBundle DEF TypeOK
        <3>3. bun' = bun /\ pc' = [pc EXCEPT ![t] = "seq_lock"] /\ bun[t].iscustody
            BY <1>1, <1>6, <2>2 DEF SrcCheck, SignalPlaces, Custodial
        <3>. QED
            BY <1>1, <3>1, <3>2, <3>3, SignalsElsewhere DEF TypeOK, Custodial
    <2>. QED
        BY <2>1, <2>2
<1>7. CASE InsertCustody(t) /\ ~SrcCheck(t)
    <2>1. /\ UNCHANGED <<bun, adm>> /\ pc[t] \in Custodial
          /\ pc' = [pc EXCEPT ![t] = pc'[t]]
        BY <1>1, <1>7 DEF InsertCustody, ReplicaSearch, ReplicaLock, ReplicaInsert,
                          DstCheck, ListLock, ListInsert, Custodial, TypeOK
    <2>2. ~Signalling(t)' /\ ~Signalling(t) /\ bun[t].iscustody
        BY <1>1, <2>1 DEF SignalPlaces, Signalling
    <2>. QED
        BY <1>1, <2>1, <2>2, SignalsElsewhere DEF TypeOK, SignalPlaces
<1>. QED
    BY <1>3, <1>4, <1>5, <1>6, <1>7 DEF Numbering

LEMMA SignalForward ==
    ASSUME SignalInv, NEW t \in Threads, bpd_forward(t)
    PROVE  SignalPlaces'
<1>. USE DEF envVars, tableVars, localVars, historyVars, Goto, At
<1>1. TypeOK /\ SignalPlaces
    BY DEF SignalInv, ThreadInv
<1>2. Blank.isadmin = FALSE /\ Blank.iscustody = FALSE
    BY DEF Blank
<1>3. /\ bun' = bun
      /\ \/ Return(t)
         \/ pc' = [pc EXCEPT ![t] = pc'[t]] /\ adm' = adm
            /\ pc'[t] \in {"del_lock", "delete", "fault"}
    BY <1>1 DEF bpd_forward, bpd_process_admin_record, ConsumeData, Dispatch,
                ForwardOrDrop, DeleteLock, Delete, TypeOK
<1>4. CASE Return(t)
    <2>1. ~Signalling(t)'
        BY <1>1, <1>4 DEF Return, Signalling, TypeOK
    <2>2. /\ adm'[t] = Blank /\ pc'[t] = ReturnTo(t)
          /\ \A o \in Threads \ {t} :
                bun'[o] = bun[o] /\ adm'[o] = adm[o] /\ pc'[o] = pc[o]
        BY <1>1, <1>3, <1>4 DEF Return, TypeOK
    <2>. QED
        BY <1>1, <1>2, <1>3, <2>1, <2>2, SignalsElsewhere
        DEF ReturnTo, SignalPlaces, Custodial, Receivers
<1>5. CASE pc' = [pc EXCEPT ![t] = pc'[t]] /\ adm' = adm
           /\ pc'[t] \in {"del_lock", "delete", "fault"}
    <2>1. Signalling(t)' <=> Signalling(t)
        BY <1>5 DEF Signalling
    <2>. QED
        BY <1>1, <1>3, <1>5, <2>1, SignalsElsewhere DEF TypeOK, SignalPlaces, Custodial
<1>. QED
    BY <1>3, <1>4, <1>5

LEMMA SignalNext == SignalInv /\ [Next]_vars => SignalInv'
<1>. SUFFICES ASSUME SignalInv, [Next]_vars PROVE SignalInv'
    OBVIOUS
<1>. USE DEF envVars, tableVars, localVars, historyVars
<1>1. ThreadInv' /\ TypeOK
    BY ThreadNext DEF SignalInv, ThreadInv
<1>2. CASE UNCHANGED <<pc, bun, adm>>
    BY <1>1, <1>2 DEF SignalInv, SignalPlaces, Signalling
<1>3. CASE UNCHANGED vars
    BY <1>2, <1>3 DEF vars
<1>4. CASE Application
    BY <1>2, <1>4 DEF Application, bp_bind, bp_sendto, bp_close, bp_recv
<1>5. CASE UsockRecv \/ UsockRecvError \/ IsockRecv
    BY <1>1, <1>5, SignalReceive DEF SignalInv
<1>6. ASSUME NEW t \in Receivers, Numbering(t) \/ InsertCustody(t) PROVE SignalInv'
    BY <1>1, <1>6, SignalReceivers DEF SignalInv
<1>7. ASSUME NEW t \in Threads, bpd_forward(t) PROVE SignalInv'
    BY <1>1, <1>7, SignalForward DEF SignalInv
<1>8. CASE Scan
    <2>1. \A o \in Threads \ {"scan"} :
              bun'[o] = bun[o] /\ adm'[o] = adm[o] /\ pc'[o] = pc[o]
        BY <1>1, <1>8 DEF Scan, ScanLock, ScanNext, ScanUnlock, Goto, TypeOK
    <2>. QED
        BY <1>1, <2>1, SignalsElsewhere DEF SignalInv, Receivers, Threads
<1>. QED
    BY <1>3, <1>4, <1>5, <1>6, <1>7, <1>8 DEF Next

-----------------------------------------------------------------------------
(***************************************************************************)
(* Sequence numbers are drawn in order, whichever threads draw them.       *)
(***************************************************************************)
\* Division with remainder, with the divisor a variable.
LEMMA RemainderIsUnique ==
    ASSUME NEW S \in Nat \ {0}, NEW q \in Int, NEW x \in 0..S-1,
           NEW p \in Int, NEW y \in 0..S-1, S * q + x = S * p + y
    PROVE  x = y
<1>1. S * (q - p) = y - x
    OBVIOUS
<1>2. q - p <= -1 => S * (q - p) <= -S
    OBVIOUS
<1>3. q - p >= 1 => S * (q - p) >= S
    OBVIOUS
<1>. QED
    BY <1>1, <1>2, <1>3

LEMMA RemainderOf ==
    ASSUME NEW S \in Nat \ {0}, NEW q \in Int, NEW x \in 0..S-1
    PROVE  (S * q + x) % S = x
<1>. DEFINE n == S * q + x
<1>1. n \in Int /\ n \div S \in Int /\ n % S \in 0..S-1
    OBVIOUS
<1>2. n = S * (n \div S) + (n % S)
    BY <1>1
<1>. QED
    BY <1>1, <1>2, RemainderIsUnique

\* Counting and reducing may be swapped.
LEMMA CountThenReduce ==
    ASSUME NEW S \in Nat \ {0}, NEW m \in Int
    PROVE  ((m % S) + 1) % S = (m + 1) % S
<1>. DEFINE q == m \div S
            r == m % S
<1>1. q \in Int /\ r \in 0..S-1 /\ m = S * q + r
    OBVIOUS
<1>. HIDE DEF q, r
<1>2. CASE r + 1 \in 0..S-1
    <2>1. m + 1 = S * q + (r + 1) /\ r + 1 = S * 0 + (r + 1)
        BY <1>1
    <2>2. (S * q + (r + 1)) % S = r + 1 /\ (S * 0 + (r + 1)) % S = r + 1
        BY <1>1, <1>2, RemainderOf
    <2>3. (m + 1) % S = (r + 1) % S
        BY <2>1, <2>2
    <2>. QED
        BY <2>3 DEF r
<1>3. CASE r + 1 = S
    <2>1. m + 1 = S * (q + 1) + 0 /\ r + 1 = S * 1 + 0
        BY <1>1, <1>3
    <2>2. 0 \in 0..S-1 /\ q + 1 \in Int /\ 1 \in Int
        BY <1>1
    <2>. QED
        BY <1>1, <2>1, <2>2, RemainderOf DEF r
<1>. QED
    BY <1>1, <1>2, <1>3

\* Numbers less than S apart have different remainders.
LEMMA CloseNumbersDiffer ==
    ASSUME NEW S \in Nat \ {0}, NEW m \in Int, NEW n \in Int, m < n, n - m < S
    PROVE  m % S # n % S
<1>. DEFINE q == m \div S
            p == n \div S
<1>1. q \in Int /\ p \in Int /\ m = S * q + (m % S) /\ n = S * p + (n % S)
    OBVIOUS
<1>2. m % S \in Int /\ n % S \in Int
    OBVIOUS
<1>. HIDE DEF q, p
<1>. SUFFICES ASSUME m % S = n % S PROVE FALSE
    OBVIOUS
<1>3. n - m = S * (p - q)
    BY <1>1, <1>2
<1>4. p - q <= 0 => S * (p - q) <= 0
    BY <1>1
<1>5. p - q >= 1 => S * (p - q) >= S
    BY <1>1
<1>. QED
    BY <1>1, <1>3, <1>4, <1>5

-----------------------------------------------------------------------------
NumberInv == SignalInv /\ NumbersInOrder

LEMMA NumberInit == Init => NumberInv
<1>. SUFFICES ASSUME Init PROVE NumberInv
    OBVIOUS
<1>1. 0 % SeqSpan = 0
    BY WidthAssumption
<1>2. issued = <<>> /\ counter = 0 /\ \A t \in Receivers : pc[t] # "seq_write"
    BY DEF Init, Receivers, Threads
<1>. QED
    BY <1>1, <1>2, SignalInit DEF NumberInv, NumbersInOrder

\* A step that neither begins nor ends a draw.
LEMMA NumbersElsewhere ==
    ASSUME NumberInv, UNCHANGED <<issued, counter>>,
           \A t \in Receivers :
              /\ pc[t] = "seq_write" <=> pc'[t] = "seq_write"
              /\ pc[t] = "seq_write" => bun'[t] = bun[t] /\ adm'[t] = adm[t]
    PROVE  NumbersInOrder'
<1>1. \A t \in Receivers : pc'[t] = "seq_write" => Argument(t)' = Argument(t)
    BY DEF Argument, Signalling
<1>. QED
    BY <1>1 DEF NumberInv, NumbersInOrder

\* The thread that draws has the counter to itself.
LEMMA NumbersDrawn ==
    ASSUME NumberInv, NEW t \in Receivers, Numbering(t)
    PROVE  NumbersInOrder'
<1>. USE DEF envVars, tableVars, localVars, historyVars, Goto, Acquire, Release, At
<1>1. TypeOK /\ NumbersInOrder /\ LocksHeld /\ SignalPlaces /\ t \in Threads
    BY DEF NumberInv, SignalInv, ThreadInv, Receivers, Threads
<1>2. Len(issued) \in Nat /\ counter \in Number /\ DOMAIN issued = 1..Len(issued)
    BY <1>1 DEF TypeOK
<1>3. CASE SeqLock(t)
    BY <1>1, <1>3, NumbersElsewhere DEF SeqLock, TypeOK, Receivers, Threads
<1>4. CASE SeqRead(t)
    <2>1. \A o \in Receivers : o # t => pc[o] # "seq_write" /\ pc'[o] # "seq_write"
        BY <1>1, <1>4 DEF SeqRead, TypeOK, LocksHeld, Receivers, Threads
    <2>2. pc[t] # "seq_write"
        BY <1>4 DEF SeqRead
    <2>3. counter = Len(issued) % SeqSpan
        BY <1>1, <2>1, <2>2 DEF NumbersInOrder
    <2>4. issued' = Append(issued, counter) /\ counter' = counter
        BY <1>4 DEF SeqRead
    <2>5. Len(issued') = Len(issued) + 1 /\ issued' # <<>> /\ DOMAIN issued' = 1..Len(issued)+1
        BY <1>1, <1>2, <2>4 DEF TypeOK
    <2>6. Argument(t)'.seq = counter
        <3>1. adm[t] \in Bundle /\ bun[t] \in Bundle /\ Blank.isadmin = FALSE
            BY <1>1 DEF TypeOK, Blank
        <3>2. CASE Signalling(t)
            <4>1. adm'[t] = [adm[t] EXCEPT !.seq = counter] /\ adm[t].isadmin
                BY <1>1, <1>4, <3>2 DEF SeqRead, TypeOK, SignalPlaces
            <4>2. adm'[t].seq = counter /\ adm'[t].isadmin
                BY <3>1, <4>1 DEF Bundle
            <4>. QED
                BY <3>1, <4>2 DEF Argument, Signalling
        <3>3. CASE ~Signalling(t)
            <4>1. bun'[t] = [bun[t] EXCEPT !.seq = counter] /\ adm' = adm
                BY <1>1, <1>4, <3>3 DEF SeqRead, TypeOK
            <4>2. bun'[t].seq = counter
                BY <3>1, <4>1 DEF Bundle
            <4>. QED
                BY <3>3, <4>1, <4>2 DEF Argument, Signalling
        <3>. QED
            BY <3>2, <3>3
    <2>7. \A i \in DOMAIN issued' : issued'[i] = (i - 1) % SeqSpan
        <3>1. SUFFICES ASSUME NEW i \in 1..Len(issued)+1
                       PROVE  issued'[i] = (i - 1) % SeqSpan
            BY <2>5
        <3>2. CASE i \in 1..Len(issued)
            <4>1. issued'[i] = issued[i]
                BY <1>1, <1>2, <2>4, <3>2, AppendProperties DEF TypeOK
            <4>. QED
                BY <1>1, <1>2, <3>2, <4>1 DEF NumbersInOrder
        <3>3. CASE i = Len(issued) + 1
            BY <1>1, <1>2, <2>3, <2>4, <3>3 DEF TypeOK
        <3>. QED
            BY <1>2, <3>2, <3>3
    <2>8. counter' = (Len(issued') - 1) % SeqSpan
        BY <1>2, <2>3, <2>4, <2>5
    <2>9. pc'[t] = "seq_write"
        BY <1>1, <1>4 DEF SeqRead, TypeOK
    <2>. QED
        BY <2>1, <2>4, <2>5, <2>6, <2>7, <2>8, <2>9 DEF NumbersInOrder
<1>5. CASE SeqWrite(t)
    <2>1. \A o \in Receivers : pc'[o] # "seq_write"
        BY <1>1, <1>5 DEF SeqWrite, InsertEntry, TypeOK, LocksHeld, Receivers, Threads
    <2>2. Argument(t).seq = counter /\ counter = (Len(issued) - 1) % SeqSpan
        BY <1>1, <1>5 DEF SeqWrite, NumbersInOrder
    <2>3. counter' = (Argument(t).seq + 1) % SeqSpan /\ issued' = issued
        BY <1>5 DEF SeqWrite, NextNumber
    <2>4. (((Len(issued) - 1) % SeqSpan) + 1) % SeqSpan
             = ((Len(issued) - 1) + 1) % SeqSpan
        <3>1. Len(issued) - 1 \in Int
            BY <1>2
        <3>. QED
            BY ONLY <3>1, CountThenReduce, WidthAssumption
    <2>5. (Len(issued) - 1) + 1 = Len(issued)
        BY <1>2
    <2>6. counter' = Len(issued) % SeqSpan
        BY <2>2, <2>3, <2>4, <2>5
    <2>. QED
        BY <1>1, <2>1, <2>3, <2>6 DEF NumbersInOrder
<1>. QED
    BY <1>3, <1>4, <1>5 DEF Numbering

LEMMA NumberNext == NumberInv /\ [Next]_vars => NumberInv'
<1>. SUFFICES ASSUME NumberInv, [Next]_vars PROVE NumberInv'
    OBVIOUS
<1>. USE DEF envVars, tableVars, localVars, historyVars, Goto
<1>1. SignalInv' /\ TypeOK
    BY SignalNext DEF NumberInv, SignalInv, ThreadInv
<1>2. CASE UNCHANGED <<issued, counter, pc, bun, adm>>
    BY <1>2, NumbersElsewhere, <1>1 DEF NumberInv
<1>3. CASE UNCHANGED vars
    BY <1>2, <1>3 DEF vars
<1>4. CASE Application
    BY <1>2, <1>4 DEF Application, bp_bind, bp_sendto, bp_close, bp_recv
<1>5. CASE UsockRecv \/ UsockRecvError \/ IsockRecv
    <2>1. ASSUME NEW r, pc["usock"] = "recv", ProcessRequest(r) PROVE NumbersInOrder'
        BY <1>1, <2>1, NumbersElsewhere
        DEF ProcessRequest, bpd_process_signal_bind, bpd_process_signal_close,
            bpd_process_signal_send, Receivers, Threads, TypeOK
    <2>2. CASE IsockRecv
        BY <1>1, <2>2, NumbersElsewhere DEF IsockRecv, At, InsertEntry, Receivers,
                                            Threads, TypeOK, NumberInv
    <2>. QED
        BY <1>1, <1>5, <2>1, <2>2 DEF UsockRecv, UsockRecvError, At, NumberInv
<1>6. ASSUME NEW t \in Receivers, Numbering(t) PROVE NumberInv'
    BY <1>1, <1>6, NumbersDrawn DEF NumberInv
<1>7. ASSUME NEW t \in Receivers, InsertCustody(t) PROVE NumberInv'
    BY <1>1, <1>7, NumbersElsewhere
    DEF InsertCustody, ReplicaSearch, ReplicaLock, ReplicaInsert, SrcCheck, DstCheck,
        ListLock, ListInsert, At, Receivers, Threads, TypeOK, NumberInv
<1>8. ASSUME NEW t \in Threads, bpd_forward(t) PROVE NumberInv'
    BY <1>1, <1>8, NumbersElsewhere
    DEF bpd_forward, bpd_process_admin_record, ConsumeData, Dispatch, ForwardOrDrop,
        DeleteLock, Delete, Routing, Return, ReturnTo, At, Receivers, Threads, TypeOK, NumberInv
<1>9. CASE Scan
    BY <1>1, <1>9, NumbersElsewhere DEF Scan, ScanLock, ScanNext, ScanUnlock, At,
                                        Receivers, Threads, TypeOK, NumberInv
<1>. QED
    BY <1>3, <1>4, <1>5, <1>6, <1>7, <1>8, <1>9 DEF Next

\* A number is drawn again only SeqSpan draws later, whichever threads draw.
THEOREM NumbersAreDistinct == Spec => []SeqNumbersDistinct
<1>1. NumberInv => SeqNumbersDistinct
    <2>1. SUFFICES ASSUME NumberInv, NEW i \in DOMAIN issued, NEW j \in DOMAIN issued,
                          i < j, j - i < SeqSpan
                   PROVE  issued[i] # issued[j]
        BY DEF SeqNumbersDistinct
    <2>2. i - 1 \in Int /\ j - 1 \in Int /\ i - 1 < j - 1 /\ (j - 1) - (i - 1) < SeqSpan
        BY <2>1, WidthAssumption DEF NumberInv, SignalInv, ThreadInv, TypeOK
    <2>3. (i - 1) % SeqSpan # (j - 1) % SeqSpan
        BY <2>2, CloseNumbersDiffer, WidthAssumption
    <2>. QED
        BY <2>1, <2>3 DEF NumberInv, NumbersInOrder
<1>. QED
    BY <1>1, NumberInit, NumberNext, PTL DEF Spec

-----------------------------------------------------------------------------
(***************************************************************************)
(* A custody bundle enters the daemon once, and is never mislaid.          *)
(***************************************************************************)
LEMMA RangeOfAppend ==
    ASSUME NEW S, NEW s \in Seq(S), NEW x \in S
    PROVE  Range(Append(s, x)) = Range(s) \cup {x}
<1>1. /\ Len(s) \in Nat /\ Len(Append(s, x)) = Len(s) + 1
      /\ \A i \in 1..Len(s) : Append(s, x)[i] = s[i]
      /\ Append(s, x)[Len(s) + 1] = x
    BY AppendProperties
<1>2. \A q \in Seq(S) : Range(q) = {q[i] : i \in 1..Len(q)}
    BY DEF Range
<1>3. Range(s) = {s[i] : i \in 1..Len(s)}
    BY <1>2
<1>. DEFINE q == Append(s, x)
<1>4. Range(q) = {q[i] : i \in 1..Len(s)+1}
    <2>1. q \in Seq(S) /\ Len(q) = Len(s) + 1
        BY <1>1, AppendProperties
    <2>. HIDE DEF q
    <2>2. Range(q) = {q[i] : i \in 1..Len(q)}
        BY <1>2, <2>1
    <2>. QED
        BY <2>1, <2>2
<1>. QED
    BY <1>1, <1>3, <1>4

LEMMA RangeElements ==
    ASSUME NEW S, NEW s \in Seq(S)
    PROVE  \A x \in Range(s) : x \in S /\ \E i \in 1..Len(s) : x = s[i]
<1>1. SUFFICES ASSUME NEW x \in Range(s)
               PROVE  x \in S /\ \E i \in 1..Len(s) : x = s[i]
    OBVIOUS
<1>2. DOMAIN s = 1..Len(s) /\ \A i \in 1..Len(s) : s[i] \in S
    BY ElementOfSeq
<1>3. \E i \in DOMAIN s : x = s[i]
    BY DEF Range
<1>. QED
    BY <1>2, <1>3

-----------------------------------------------------------------------------
(***************************************************************************)
(* The replica filter, although it does not hold its mutex from the        *)
(* look-up to the insertion.                                               *)
(***************************************************************************)
FilterInv == SignalInv /\ FilterWindow /\ ReplicaOnce

LEMMA FilterInit == Init => FilterInv
<1>. SUFFICES ASSUME Init PROVE FilterInv
    OBVIOUS
<1>1. Blank \in Bundle /\ Blank.iscustody = FALSE
    BY BlankIsBundle DEF Blank
<1>2. \A t \in Receivers : bun[t].iscustody = FALSE
    BY <1>1 DEF Init, Receivers, Threads, Bundle
<1>. QED
    BY <1>2, SignalInit DEF Init, FilterInv, FilterWindow, ReplicaOnce, Range, Receivers,
                            Threads

\* Where the custodian of the bundle in hand tells its thread.
Origin(t) == IF t = "usock" THEN {Self} ELSE Peers

\* A step of thread t that leaves the replica list alone.
LEMMA FilterElsewhere ==
    ASSUME FilterInv, NEW t \in Threads, UNCHANGED replicas,
           \A o \in Threads \ {t} : bun'[o] = bun[o] /\ pc'[o] = pc[o],
           t \in Receivers =>
              /\ pc'[t] \in {"rep_lock", "rep_insert"} => bun'[t] \notin Range(replicas)
              /\ bun'[t].iscustody => bun'[t].cust \in Origin(t)
    PROVE  FilterWindow' /\ ReplicaOnce'
    BY DEF FilterInv, FilterWindow, ReplicaOnce, Origin, Receivers, Threads

\* The bundle that goes in was looked up in vain, and the other thread cannot
\* have put it in since: its bundles have another custodian.
LEMMA FilterInsert ==
    ASSUME FilterInv, NEW t \in Receivers, ReplicaInsert(t)
    PROVE  FilterWindow' /\ ReplicaOnce'
<1>. USE DEF envVars, tableVars, localVars, historyVars, Goto, At
<1>1. /\ TypeOK /\ SignalPlaces /\ FilterWindow /\ ReplicaOnce /\ t \in Threads
      /\ bun[t] \in Bundle
    BY DEF FilterInv, SignalInv, ThreadInv, TypeOK, Receivers, Threads
<1>2. /\ bun[t] \notin Range(replicas) /\ bun[t].iscustody
      /\ bun[t].cust \in Origin(t) /\ bun' = bun
      /\ replicas' = Append(replicas, bun[t])
      /\ pc' = [pc EXCEPT ![t] = "src_check"]
    BY <1>1 DEF ReplicaInsert, FilterWindow, SignalPlaces, Custodial, Origin
<1>3. Range(replicas') = Range(replicas) \cup {bun[t]}
    BY <1>1, <1>2, RangeOfAppend DEF TypeOK
<1>4. ASSUME NEW o \in Receivers, pc'[o] \in {"rep_lock", "rep_insert"}
      PROVE  bun'[o] \notin Range(replicas')
    <2>1. o # t /\ pc[o] \in {"rep_lock", "rep_insert"}
        BY <1>1, <1>2, <1>4 DEF TypeOK
    <2>2. bun[o] \notin Range(replicas) /\ bun[o].iscustody
        BY <1>1, <2>1 DEF FilterWindow, SignalPlaces, Custodial
    <2>3. bun[o].cust \in Origin(o)
        BY <1>1, <2>2 DEF FilterWindow, Origin
    <2>4. Origin(o) \cap Origin(t) = {}
        BY <2>1, PeersAssumption DEF Origin, Receivers
    <2>. QED
        BY <1>2, <1>3, <2>2, <2>3, <2>4
<1>5. FilterWindow'
    BY <1>1, <1>2, <1>3, <1>4 DEF FilterWindow
<1>6. ReplicaOnce'
    <2>1. /\ Len(replicas) \in Nat /\ DOMAIN replicas = 1..Len(replicas)
          /\ DOMAIN replicas' = 1..Len(replicas)+1
          /\ \A i \in 1..Len(replicas) : replicas'[i] = replicas[i]
          /\ replicas'[Len(replicas)+1] = bun[t]
        BY <1>1, <1>2, AppendProperties DEF TypeOK
    <2>2. \A i \in 1..Len(replicas) : replicas[i] # bun[t]
        BY <1>2, <2>1 DEF Range
    <2>. QED
        BY <1>1, <2>1, <2>2 DEF ReplicaOnce
<1>. QED
    BY <1>5, <1>6

LEMMA FilterReceive ==
    FilterInv /\ (UsockRecv \/ UsockRecvError \/ IsockRecv)
        => FilterWindow' /\ ReplicaOnce'
<1>. SUFFICES ASSUME FilterInv, UsockRecv \/ UsockRecvError \/ IsockRecv
              PROVE  FilterWindow' /\ ReplicaOnce'
    OBVIOUS
<1>. USE DEF tableVars, Goto, At, Receivers, Threads
<1>1. TypeOK /\ FilterWindow
    BY DEF FilterInv, SignalInv, ThreadInv
<1>2. ASSUME NEW r, pc["usock"] = "recv", ProcessRequest(r)
      PROVE  FilterWindow' /\ ReplicaOnce'
    <2>1. /\ UNCHANGED replicas
          /\ \A o \in {"isock", "scan"} : bun'[o] = bun[o] /\ pc'[o] = pc[o]
          /\ pc'["usock"] \in {"recv", "seq_lock", "fault"}
        BY <1>1, <1>2 DEF ProcessRequest, bpd_process_signal_bind, TypeOK,
                          bpd_process_signal_close, bpd_process_signal_send
    <2>2. bun'["usock"] = bun["usock"] \/
            (bun'["usock"].iscustody => bun'["usock"].cust = Self)
        BY <1>1, <1>2 DEF ProcessRequest, bpd_process_signal_bind, TypeOK,
                          bpd_process_signal_close, bpd_process_signal_send
    <2>. QED
        BY <1>1, <2>1, <2>2, FilterElsewhere DEF FilterWindow, Origin
<1>3. CASE IsockRecv
    <2>1. PICK b \in NetIn \cup PeerSignals \cup Loops :
              /\ bun' = [bun EXCEPT !["isock"] =
                            [b EXCEPT !.seq = Overlay(bun["isock"].seq, b.seq)]]
              /\ pc' = [pc EXCEPT !["isock"] = InsertEntry(b)]
        BY <1>3 DEF IsockRecv
    <2>2. b \in Bundle
        BY <1>1, ArrivalsAreBundles
    <2>3. b.iscustody => b.cust \in Peers
        <3>1. CASE b \in NetIn
            BY <3>1, NetInAssumption
        <3>2. CASE b \in PeerSignals
            <4>1. PICK x \in wire, p \in Peers : b = [SignalFor(x, x.time) EXCEPT !.src = p]
                BY <3>2 DEF PeerSignals
            <4>2. x \in Bundle /\ x.time \in Time
                BY <1>1, <4>1 DEF TypeOK, Bundle
            <4>3. SignalFor(x, x.time) \in Bundle /\ SignalFor(x, x.time).iscustody = FALSE
                BY <4>2, SignalIsBundle
            <4>. QED
                BY <4>1, <4>3 DEF Bundle
        <3>3. CASE b \in Loops
            <4>1. PICK x \in wire, p \in Peers :
                      b = [x EXCEPT !.cust = IF x.iscustody THEN p ELSE @]
                BY <3>3 DEF Loops
            <4>2. x \in Bundle
                BY <1>1, <4>1 DEF TypeOK
            <4>. QED
                BY <4>1, <4>2 DEF Bundle
        <3>. QED
            BY <3>1, <3>2, <3>3
    <2>4. /\ bun'["isock"].iscustody = b.iscustody
          /\ bun'["isock"].cust = b.cust
        BY <1>1, <2>1, <2>2 DEF TypeOK, Bundle
    <2>5. /\ \A o \in {"usock", "scan"} : bun'[o] = bun[o] /\ pc'[o] = pc[o]
          /\ pc'["isock"] \in {"search", "forward"} /\ UNCHANGED replicas
        BY <1>1, <1>3, <2>1 DEF TypeOK, InsertEntry, IsockRecv
    <2>. QED
        BY <2>3, <2>4, <2>5, FilterElsewhere DEF Origin
<1>. QED
    BY <1>2, <1>3 DEF UsockRecv, UsockRecvError

LEMMA FilterNext == FilterInv /\ [Next]_vars => FilterInv'
<1>. SUFFICES ASSUME FilterInv, [Next]_vars PROVE FilterInv'
    OBVIOUS
<1>. USE DEF envVars, tableVars, localVars, historyVars, Goto, At
<1>1. SignalInv' /\ TypeOK /\ FilterWindow
    BY SignalNext DEF FilterInv, SignalInv, ThreadInv
<1>2. CASE UNCHANGED <<replicas, pc, bun>>
    BY <1>1, <1>2 DEF FilterInv, FilterWindow, ReplicaOnce
<1>3. CASE UNCHANGED vars
    BY <1>2, <1>3 DEF vars
<1>4. CASE Application
    BY <1>2, <1>4 DEF Application, bp_bind, bp_sendto, bp_close, bp_recv
<1>5. CASE UsockRecv \/ UsockRecvError \/ IsockRecv
    BY <1>1, <1>5, FilterReceive DEF FilterInv
<1>6. ASSUME NEW t \in Receivers, Numbering(t) \/ InsertCustody(t) PROVE FilterInv'
    <2>0. t \in Threads /\ bun[t] \in Bundle
        BY <1>1 DEF TypeOK, Receivers, Threads
    <2>1. CASE ReplicaInsert(t)
        BY <1>1, <2>1, FilterInsert DEF FilterInv
    <2>2. CASE SeqRead(t)
        <3>1. \A n \in Number : /\ [bun[t] EXCEPT !.seq = n].iscustody = bun[t].iscustody
                                /\ [bun[t] EXCEPT !.seq = n].cust = bun[t].cust
            BY <2>0 DEF Bundle
        <3>2. bun'[t].iscustody = bun[t].iscustody /\ bun'[t].cust = bun[t].cust
            BY <1>1, <2>2, <3>1 DEF SeqRead, TypeOK
        <3>3. bun[t].iscustody => bun[t].cust \in Origin(t)
            BY <1>1 DEF FilterWindow, Origin
        <3>4. /\ \A o \in Threads \ {t} : bun'[o] = bun[o] /\ pc'[o] = pc[o]
              /\ UNCHANGED replicas /\ pc'[t] = "seq_write"
            BY <1>1, <2>0, <2>2 DEF SeqRead, TypeOK
        <3>. QED
            BY <1>1, <2>0, <3>2, <3>3, <3>4, FilterElsewhere DEF FilterInv
    <2>3. CASE ~ReplicaInsert(t) /\ ~SeqRead(t)
        <3>1. /\ UNCHANGED <<bun, replicas>>
              /\ \A o \in Threads \ {t} : bun'[o] = bun[o] /\ pc'[o] = pc[o]
              /\ pc'[t] = "rep_lock" => bun[t] \notin Range(replicas)
              /\ pc'[t] = "rep_insert" => pc[t] = "rep_lock"
            BY <1>1, <1>6, <2>0, <2>3 DEF Numbering, SeqLock, SeqWrite, InsertEntry,
               InsertCustody, ReplicaSearch, ReplicaLock, SrcCheck, DstCheck, ListLock,
               ListInsert, TypeOK
        <3>2. /\ bun[t].iscustody => bun[t].cust \in Origin(t)
              /\ pc[t] = "rep_lock" => bun[t] \notin Range(replicas)
            BY <1>1 DEF FilterWindow, Origin
        <3>. QED
            BY <1>1, <2>0, <3>1, <3>2, FilterElsewhere DEF FilterInv
    <2>. QED
        BY <1>6, <2>1, <2>2, <2>3
<1>7. ASSUME NEW t \in Threads, bpd_forward(t) PROVE FilterInv'
    <2>1. /\ UNCHANGED <<bun, replicas>> /\ pc'[t] \notin {"rep_lock", "rep_insert"}
          /\ \A o \in Threads \ {t} : pc'[o] = pc[o]
        BY <1>1, <1>7 DEF bpd_forward, bpd_process_admin_record, ConsumeData, Dispatch,
           ForwardOrDrop, DeleteLock, Delete, Return, ReturnTo, TypeOK
    <2>2. t \in Receivers => (bun[t].iscustody => bun[t].cust \in Origin(t))
        BY <1>1 DEF FilterWindow, Origin
    <2>. QED
        BY <1>1, <2>1, <2>2, FilterElsewhere DEF FilterInv
<1>8. CASE Scan
    <2>1. /\ UNCHANGED replicas
          /\ \A o \in Threads \ {"scan"} : bun'[o] = bun[o] /\ pc'[o] = pc[o]
        BY <1>1, <1>8 DEF Scan, ScanLock, ScanNext, ScanUnlock, TypeOK
    <2>. QED
        BY <1>1, <2>1, FilterElsewhere DEF FilterInv, Receivers, Threads
<1>. QED
    BY <1>3, <1>4, <1>5, <1>6, <1>7, <1>8 DEF Next

\* No digest goes through the replica filter twice, although the look-up takes
\* no mutex.
THEOREM FilterPassesOnce == Spec => []ReplicaOnce
<1>1. FilterInv => ReplicaOnce
    BY DEF FilterInv
<1>. QED
    BY <1>1, FilterInit, FilterNext, PTL DEF Spec

-----------------------------------------------------------------------------
(***************************************************************************)
(* Where a custody bundle that passed the filter is.                       *)
(***************************************************************************)
CustodyInv == FilterInv /\ DispatchIsLocal /\ CustodyAccounted

LEMMA CustodyInit == Init => CustodyInv
<1>. SUFFICES ASSUME Init PROVE CustodyInv
    OBVIOUS
<1>1. Range(replicas) = {}
    BY DEF Init, Range
<1>2. \A t \in Receivers : pc[t] = "recv"
    BY DEF Init, Receivers, Threads
<1>. QED
    BY <1>1, <1>2, FilterInit DEF CustodyInv, DispatchIsLocal, CustodyAccounted

\* A bind list that grows, or whose entries lose their mark, keeps its endpoints.
LEMMA BindListKeeps ==
    ASSUME TypeOK, NEW r, ProcessRequest(r), NEW e, IsLocal(bindList, e)
    PROVE  IsLocal(bindList', e)
<1>1. bindList \in Seq(Binding) /\ Len(bindList) \in Nat
    BY DEF TypeOK
<1>2. PICK i \in 1..Len(bindList) : bindList[i].eid = e
    BY <1>1 DEF IsLocal
<1>3. CASE bpd_process_signal_bind(r)
    <2>1. PICK x : bindList' = Append(bindList, x)
        BY <1>3 DEF bpd_process_signal_bind
    <2>2. bindList'[i] = bindList[i] /\ i \in DOMAIN bindList'
        BY <1>1, <1>2, <2>1
    <2>. QED
        BY <1>2, <2>2 DEF IsLocal
<1>4. CASE bpd_process_signal_close(r)
    <2>1. CASE bindList' = bindList
        BY <1>1, <1>2, <2>1 DEF IsLocal
    <2>2. CASE bindList' # bindList
        <3>1. PICK j : bindList' = [bindList EXCEPT ![j].valid = FALSE]
            BY <1>4, <2>2 DEF bpd_process_signal_close
        <3>2. bindList'[i].eid = bindList[i].eid /\ i \in DOMAIN bindList'
            <4>1. bindList[i] \in Binding
                BY <1>1, <1>2, ElementOfSeq
            <4>. QED
                BY <1>1, <1>2, <3>1, <4>1 DEF Binding
        <3>. QED
            BY <1>2, <3>2 DEF IsLocal
    <2>. QED
        BY <2>1, <2>2
<1>5. CASE bpd_process_signal_send(r)
    BY <1>1, <1>2, <1>5 DEF bpd_process_signal_send, IsLocal
<1>. QED
    BY <1>3, <1>4, <1>5 DEF ProcessRequest

LEMMA DispatchNext == FilterInv /\ DispatchIsLocal /\ [Next]_vars => DispatchIsLocal'
<1>. SUFFICES ASSUME FilterInv, DispatchIsLocal, [Next]_vars PROVE DispatchIsLocal'
    OBVIOUS
<1>. USE DEF envVars, tableVars, localVars, historyVars, Goto, At
<1>1. TypeOK /\ SignalPlaces
    BY DEF FilterInv, SignalInv, ThreadInv
<1>2. CASE UNCHANGED <<bindList, pc, bun, adm>>
    BY <1>2 DEF DispatchIsLocal, Signalling
<1>3. CASE UNCHANGED vars
    BY <1>2, <1>3 DEF vars
<1>4. CASE Application
    BY <1>2, <1>4 DEF Application, bp_bind, bp_sendto, bp_close, bp_recv
\* A step of thread t that leaves the bind list alone.
<1>5. ASSUME NEW t \in Threads, UNCHANGED bindList,
             \A o \in Threads \ {t} :
                bun'[o] = bun[o] /\ adm'[o] = adm[o] /\ pc'[o] = pc[o],
             pc'[t] = "forward" /\ ~Signalling(t)' /\ bun'[t].iscustody =>
                IsLocal(bindList, bun'[t].dst) \/ t = "scan"
      PROVE  DispatchIsLocal'
    <2>1. \A o \in Threads \ {t} : Signalling(o)' <=> Signalling(o)
        BY <1>5 DEF Signalling
    <2>. QED
        BY <1>5, <2>1 DEF DispatchIsLocal, Receivers, Threads
<1>6. ASSUME NEW r, pc["usock"] = "recv", ProcessRequest(r) PROVE DispatchIsLocal'
    <2>1. /\ UNCHANGED adm /\ bun'["isock"] = bun["isock"] /\ pc'["isock"] = pc["isock"]
          /\ pc'["usock"] \in {"recv", "seq_lock", "fault"}
        BY <1>1, <1>6 DEF ProcessRequest, bpd_process_signal_bind, TypeOK, Threads,
                          bpd_process_signal_close, bpd_process_signal_send
    <2>2. Signalling("isock")' <=> Signalling("isock")
        BY <2>1 DEF Signalling
    <2>. QED
        BY <1>1, <1>6, <2>1, <2>2, BindListKeeps DEF DispatchIsLocal, Receivers
<1>7. CASE IsockRecv
    <2>1. PICK b \in NetIn \cup PeerSignals \cup Loops :
              /\ bun' = [bun EXCEPT !["isock"] =
                            [b EXCEPT !.seq = Overlay(bun["isock"].seq, b.seq)]]
              /\ pc' = [pc EXCEPT !["isock"] = InsertEntry(b)]
        BY <1>7 DEF IsockRecv
    <2>2. b \in Bundle
        BY <1>1, ArrivalsAreBundles
    <2>3. bun'["isock"].iscustody = b.iscustody /\ pc'["isock"] = InsertEntry(b)
        BY <1>1, <2>1, <2>2 DEF TypeOK, Bundle, Threads
    <2>4. \A o \in Threads \ {"isock"} :
              bun'[o] = bun[o] /\ adm'[o] = adm[o] /\ pc'[o] = pc[o]
        BY <1>1, <1>7, <2>1 DEF TypeOK, IsockRecv
    <2>. QED
        BY <1>5, <1>7, <2>3, <2>4 DEF IsockRecv, InsertEntry, Threads
<1>8. ASSUME NEW t \in Receivers, Numbering(t) PROVE DispatchIsLocal'
    <2>0. t \in Threads
        BY DEF Receivers, Threads
    <2>1. CASE SeqWrite(t)
        <3>1. Signalling(t)' <=> Signalling(t)
            BY <2>1 DEF SeqWrite, Signalling
        <3>. QED
            BY <1>1, <1>5, <2>0, <2>1, <3>1 DEF SeqWrite, Argument, InsertEntry, TypeOK
    <2>2. CASE SeqLock(t) \/ SeqRead(t)
        BY <1>1, <1>5, <2>0, <2>2 DEF SeqLock, SeqRead, TypeOK
    <2>. QED
        BY <1>8, <2>1, <2>2 DEF Numbering
<1>9. ASSUME NEW t \in Receivers, InsertCustody(t) PROVE DispatchIsLocal'
    <2>0. t \in Threads
        BY DEF Receivers, Threads
    <2>. QED
        BY <1>1, <1>5, <1>9, <2>0 DEF InsertCustody, ReplicaSearch, ReplicaLock, ReplicaInsert,
           SrcCheck, DstCheck, ListLock, ListInsert, TypeOK
<1>10. ASSUME NEW t \in Threads, bpd_forward(t) PROVE DispatchIsLocal'
    BY <1>1, <1>5, <1>10 DEF bpd_forward, bpd_process_admin_record, ConsumeData, Dispatch,
       ForwardOrDrop, DeleteLock, Delete, Return, ReturnTo, TypeOK
<1>11. CASE Scan
    BY <1>1, <1>5, <1>11 DEF Scan, ScanLock, ScanNext, ScanUnlock, TypeOK, Threads
<1>. QED
    BY <1>3, <1>4, <1>6, <1>7, <1>8, <1>9, <1>10, <1>11 DEF Next, UsockRecv, UsockRecvError

\* Thread t works on its custody bundle.
Placing(t) ==
    \/ pc[t] \in {"src_check", "dst_check", "list_lock", "list_insert", "forward"}
    \/ Signalling(t)

\* A step of thread t that admits no bundle: it keeps its own, or puts it
\* somewhere, and takes from the list only what it marks as released.
LEMMA AccountedElsewhere ==
    ASSUME CustodyInv, NEW t \in Threads, UNCHANGED replicas,
           \A o \in Threads \ {t} :
              bun'[o] = bun[o] /\ adm'[o] = adm[o] /\ pc'[o] = pc[o],
           released \subseteq released', settled \subseteq settled',
           undelivered \subseteq undelivered',
           Range(list) \subseteq Range(list') \cup released',
           t \in Receivers /\ Placing(t) /\ bun[t].iscustody =>
              \/ bun'[t] = bun[t] /\ Placing(t)'
              \/ Stored(bun[t]) \in Range(list')
              \/ bun[t] \in settled' \cup undelivered'
    PROVE  CustodyAccounted'
<1>. SUFFICES ASSUME NEW d \in Range(replicas)
              PROVE  \/ InHand(d)'
                     \/ Stored(d) \in Range(list') \cup released'
                     \/ d \in settled'
                     \/ d \in undelivered'
    BY DEF CustodyAccounted
<1>1. TypeOK /\ FilterWindow /\ CustodyAccounted
    BY DEF CustodyInv, FilterInv, SignalInv, ThreadInv
<1>2. d \in Bundle /\ d.iscustody
    BY <1>1, RangeElements DEF FilterWindow, TypeOK
<1>3. CASE InHand(d)
    <2>1. PICK o \in Receivers : bun[o] = d /\ Placing(o)
        BY <1>3 DEF InHand, Placing
    <2>2. CASE o = t
        BY <1>2, <2>1, <2>2 DEF InHand, Placing
    <2>3. CASE o # t
        <3>1. bun'[o] = bun[o] /\ (Placing(o)' <=> Placing(o))
            BY <2>1, <2>3 DEF Placing, Signalling, Receivers, Threads
        <3>. QED
            BY <2>1, <3>1 DEF InHand, Placing
    <2>. QED
        BY <2>2, <2>3
<1>4. CASE Stored(d) \in Range(list) \cup released
    BY <1>4
<1>. QED
    BY <1>1, <1>3, <1>4 DEF CustodyAccounted

LEMMA AccountedReceivers ==
    ASSUME CustodyInv, NEW t \in Receivers, Numbering(t) \/ InsertCustody(t)
    PROVE  CustodyAccounted'
<1>. USE DEF envVars, tableVars, localVars, historyVars, Goto, At
<1>1. TypeOK /\ SignalPlaces /\ t \in Threads
    BY DEF CustodyInv, FilterInv, SignalInv, ThreadInv, Receivers, Threads
<1>2. CASE ReplicaInsert(t)
    <2>1. /\ Range(replicas') = Range(replicas) \cup {bun[t]}
          /\ UNCHANGED <<list, released, settled, undelivered, bun, adm>>
          /\ pc' = [pc EXCEPT ![t] = "src_check"] /\ pc[t] = "rep_insert"
        BY <1>1, <1>2, RangeOfAppend DEF ReplicaInsert, TypeOK
    <2>2. InHand(bun[t])'
        BY <1>1, <2>1 DEF InHand, TypeOK
    <2>3. \A d : InHand(d) => InHand(d)'
        BY <1>1, <2>1 DEF InHand, Signalling, TypeOK, Receivers, Threads
    <2>. QED
        BY <2>1, <2>2, <2>3 DEF CustodyInv, CustodyAccounted
<1>3. CASE ListInsert(t)
    <2>1. Range(list') = Range(list) \cup {Stored(bun[t])}
        BY <1>1, <1>3, RangeOfAppend, StoredIsBundle DEF ListInsert, TypeOK
    <2>. QED
        BY <1>1, <1>3, <2>1, AccountedElsewhere DEF ListInsert, TypeOK
<1>4. CASE SrcCheck(t)
    <2>1. CASE IsLocal(bindList, bun[t].src)
        BY <1>1, <1>4, <2>1, AccountedElsewhere DEF SrcCheck, TypeOK, Placing
    <2>2. CASE ~IsLocal(bindList, bun[t].src)
        <3>1. PICK now \in Time : adm' = [adm EXCEPT ![t] = SignalFor(bun[t], now)]
            BY <1>4, <2>2 DEF SrcCheck
        <3>2. SignalFor(bun[t], now) # Blank
            <4>1. SignalFor(bun[t], now).isadmin = TRUE
                BY <1>1, SignalIsBundle DEF TypeOK
            <4>2. Blank.isadmin = FALSE
                BY DEF Blank
            <4>. QED
                BY <4>1, <4>2
        <3>3. Signalling(t)'
            BY <1>1, <3>1, <3>2 DEF Signalling, TypeOK
        <3>. QED
            BY <1>1, <1>4, <2>2, <3>1, <3>3, AccountedElsewhere DEF SrcCheck, TypeOK, Placing
    <2>. QED
        BY <2>1, <2>2
<1>5. CASE SeqRead(t)
    <2>1. ~Signalling(t) => ~Placing(t)
        BY <1>5 DEF SeqRead, Placing
    <2>2. Signalling(t) => Signalling(t)'
        <3>1. counter \in Number /\ adm[t] \in Bundle /\ Blank.isadmin = FALSE
            BY <1>1 DEF TypeOK, Blank
        <3>2. [adm[t] EXCEPT !.seq = counter].isadmin = adm[t].isadmin
            BY <3>1 DEF Bundle
        <3>3. Signalling(t) => adm'[t] = [adm[t] EXCEPT !.seq = counter]
            BY <1>1, <1>5 DEF SeqRead, TypeOK
        <3>. QED
            BY <1>1, <3>1, <3>2, <3>3 DEF SignalPlaces, Signalling
    <2>3. /\ UNCHANGED <<replicas, list, released, settled, undelivered>>
          /\ Signalling(t) => bun' = bun
          /\ \A o \in Threads \ {t} :
                bun'[o] = bun[o] /\ adm'[o] = adm[o] /\ pc'[o] = pc[o]
        BY <1>1, <1>5 DEF SeqRead, TypeOK
    <2>. QED
        BY <1>1, <2>1, <2>2, <2>3, AccountedElsewhere DEF Placing
<1>6. CASE SeqLock(t) \/ SeqWrite(t) \/ ReplicaSearch(t) \/ ReplicaLock(t)
           \/ DstCheck(t) \/ ListLock(t)
    <2>1. /\ UNCHANGED <<replicas, list, released, settled, undelivered, bun, adm>>
          /\ \A o \in Threads \ {t} : pc'[o] = pc[o]
          /\ pc[t] \in {"src_check", "dst_check", "list_lock", "list_insert", "forward"}
                => pc'[t] \in {"list_lock", "list_insert", "forward"}
        BY <1>1, <1>6 DEF SeqLock, SeqWrite, ReplicaSearch, ReplicaLock, DstCheck, ListLock,
                          TypeOK
    <2>2. Signalling(t)' <=> Signalling(t)
        BY <2>1 DEF Signalling
    <2>. QED
        BY <1>1, <2>1, <2>2, AccountedElsewhere DEF Placing
<1>. QED
    BY <1>2, <1>3, <1>4, <1>5, <1>6 DEF Numbering, InsertCustody

\* A custody bundle leaves bpd_forward only for the socket of a local endpoint.
LEMMA AccountedForward ==
    ASSUME CustodyInv, NEW t \in Threads, bpd_forward(t)
    PROVE  CustodyAccounted'
<1>. USE DEF envVars, tableVars, localVars, historyVars, Goto, At
<1>1. TypeOK /\ SignalPlaces /\ DispatchIsLocal
    BY DEF CustodyInv, FilterInv, SignalInv, ThreadInv
<1>2. /\ UNCHANGED <<replicas, bun>>
      /\ \A o \in Threads \ {t} : adm'[o] = adm[o] /\ pc'[o] = pc[o]
    BY <1>1 DEF bpd_forward, bpd_process_admin_record, ConsumeData, Dispatch,
                ForwardOrDrop, DeleteLock, Delete, Return, TypeOK
<1>3. /\ released \subseteq released' /\ settled \subseteq settled'
      /\ undelivered \subseteq undelivered'
    BY DEF bpd_forward, bpd_process_admin_record, ConsumeData, Dispatch,
           ForwardOrDrop, DeleteLock, Delete, Settle, Lose
<1>4. \A b \in Range(list) : b \in Range(list') \cup released'
    <2>1. CASE UNCHANGED list
        BY <2>1
    <2>2. CASE ~UNCHANGED list
        <3>1. Delete(t) /\ key[t] \in Keys
            BY <2>2 DEF bpd_forward, bpd_process_admin_record, ConsumeData, Dispatch,
                        ForwardOrDrop, DeleteLock, Delete
        <3>2. /\ list' = RemoveAt(list, Newest(key[t]))
              /\ list[Newest(key[t])] \in released'
              /\ Newest(key[t]) \in 1..Len(list)
            BY <1>1, <3>1, NewestMatches DEF Delete
        <3>3. \A j \in 1..Len(list) : j # Newest(key[t]) => list[j] \in Range(list')
            BY <1>1, <3>2, RemoveAtKeeps DEF TypeOK
        <3>4. \A b \in Range(list) : \E j \in 1..Len(list) : b = list[j]
            <4>1. list \in Seq(Bundle)
                BY <1>1 DEF TypeOK
            <4>. QED
                BY ONLY <4>1, RangeElements
        <3>. QED
            BY <3>2, <3>3, <3>4
    <2>. QED
        BY <2>1, <2>2
<1>5. ASSUME t \in Receivers, Placing(t), bun[t].iscustody
      PROVE  Placing(t)' \/ bun[t] \in settled' \cup undelivered'
    <2>1. CASE Signalling(t)
        <3>1. CASE Return(t)
            <4>1. pc'[t] = "dst_check"
                BY <1>1, <2>1, <3>1 DEF Return, ReturnTo, TypeOK
            <4>. QED
                BY <4>1 DEF Placing
        <3>2. CASE ~Return(t)
            <4>1. adm' = adm
                BY <3>2 DEF bpd_forward, bpd_process_admin_record, ConsumeData, Dispatch,
                            ForwardOrDrop, DeleteLock, Delete
            <4>. QED
                BY <2>1, <4>1 DEF Placing, Signalling
        <3>. QED
            BY <3>1, <3>2
    <2>2. CASE ~Signalling(t)
        <3>1. pc[t] = "forward" /\ Argument(t) = bun[t]
            BY <1>5, <2>2 DEF Placing, Argument, bpd_forward, bpd_process_admin_record,
               ConsumeData, Dispatch, ForwardOrDrop, DeleteLock, Delete, Routing
        <3>2. IsLocal(bindList, bun[t].dst)
            BY <1>1, <1>5, <2>2, <3>1 DEF DispatchIsLocal
        <3>3. ~ForwardOrDrop(t)
            BY <3>1, <3>2 DEF ForwardOrDrop, ToNeighbour
        <3>4. Settle(Argument(t)) \/ Lose(Argument(t))
            BY <3>1, <3>3 DEF bpd_forward, bpd_process_admin_record, ConsumeData, Dispatch,
                              DeleteLock, Delete
        <3>. QED
            BY <1>5, <3>1, <3>4 DEF Settle, Lose, IfCustody
    <2>. QED
        BY <2>1, <2>2
<1>. QED
    BY <1>2, <1>3, <1>4, <1>5, AccountedElsewhere

LEMMA CustodyNext == CustodyInv /\ [Next]_vars => CustodyInv'
<1>. SUFFICES ASSUME CustodyInv, [Next]_vars PROVE CustodyInv'
    OBVIOUS
<1>. USE DEF envVars, tableVars, localVars, historyVars, Goto, At
<1>1. /\ FilterInv' /\ DispatchIsLocal'
      /\ TypeOK /\ SignalPlaces /\ CustodyAccounted
    BY FilterNext, DispatchNext DEF CustodyInv, FilterInv, SignalInv, ThreadInv
<1>2. CASE UNCHANGED <<replicas, list, released, settled, undelivered, pc, bun, adm>>
    BY <1>1, <1>2 DEF CustodyInv, CustodyAccounted, InHand, Signalling
<1>3. CASE UNCHANGED vars
    BY <1>2, <1>3 DEF vars
<1>4. CASE Application
    BY <1>2, <1>4 DEF Application, bp_bind, bp_sendto, bp_close, bp_recv
<1>5. ASSUME NEW r, pc["usock"] = "recv", ProcessRequest(r) PROVE CustodyAccounted'
    <2>1. ~Placing("usock")
        BY <1>1, <1>5 DEF SignalPlaces, Placing, Receivers
    <2>2. /\ UNCHANGED <<replicas, list, released, settled, undelivered, adm>>
          /\ \A o \in Threads \ {"usock"} : bun'[o] = bun[o] /\ pc'[o] = pc[o]
        BY <1>1, <1>5 DEF ProcessRequest, bpd_process_signal_bind, TypeOK, Threads,
                          bpd_process_signal_close, bpd_process_signal_send
    <2>. QED
        BY <2>1, <2>2, AccountedElsewhere DEF Threads
<1>6. CASE IsockRecv
    <2>1. ~Placing("isock")
        BY <1>1, <1>6 DEF IsockRecv, SignalPlaces, Placing, Receivers
    <2>2. /\ UNCHANGED <<replicas, list, released, settled, undelivered, adm>>
          /\ \A o \in Threads \ {"isock"} : bun'[o] = bun[o] /\ pc'[o] = pc[o]
        BY <1>1, <1>6 DEF IsockRecv, TypeOK, Threads
    <2>3. CustodyAccounted'
        BY <2>1, <2>2, AccountedElsewhere DEF Threads
    <2>. QED
        BY <1>1, <2>3 DEF CustodyInv
<1>7. ASSUME NEW t \in Receivers, Numbering(t) \/ InsertCustody(t) PROVE CustodyInv'
    BY <1>1, <1>7, AccountedReceivers DEF CustodyInv
<1>8. ASSUME NEW t \in Threads, bpd_forward(t) PROVE CustodyInv'
    BY <1>1, <1>8, AccountedForward DEF CustodyInv
<1>9. CASE Scan
    <2>1. /\ UNCHANGED <<replicas, list, released, settled, undelivered>>
          /\ \A o \in Threads \ {"scan"} :
                bun'[o] = bun[o] /\ adm'[o] = adm[o] /\ pc'[o] = pc[o]
        BY <1>1, <1>9 DEF Scan, ScanLock, ScanNext, ScanUnlock, TypeOK
    <2>2. "scan" \in Threads /\ "scan" \notin Receivers
        BY DEF Threads, Receivers
    <2>3. CustodyAccounted'
        BY <2>1, <2>2, AccountedElsewhere
    <2>. QED
        BY <1>1, <2>3 DEF CustodyInv
<1>. QED
    BY <1>1, <1>3, <1>4, <1>5, <1>6, <1>7, <1>8, <1>9
    DEF Next, UsockRecv, UsockRecvError, CustodyInv

\* Every custody bundle the filter let through is in a thread's hands, in the
\* list, deleted from it by a custody signal for its key, with the custodian or at
\* an open socket of this node, or was sent to a closed one: so it is lost here.
THEOREM CustodyIsKept == Spec => []CustodyAccounted
<1>1. CustodyInv => CustodyAccounted
    BY DEF CustodyInv
<1>. QED
    BY <1>1, CustodyInit, CustodyNext, PTL DEF Spec
-----------------------------------------------------------------------------
(***************************************************************************)
(* Custody signals stay out of the custody list.                           *)
(***************************************************************************)
PayloadInv == FilterInv /\ PayloadPlaces

LEMMA PayloadInit == Init => PayloadInv
<1>. SUFFICES ASSUME Init PROVE PayloadInv
    OBVIOUS
<1>1. \A n \in Number : NotSignal([Blank EXCEPT !.seq = n])
    BY BlankIsBundle DEF NotSignal, Blank, Bundle
<1>2. \A t \in Threads : NotSignal(bun[t])
    BY <1>1, MemoryAssumption DEF Init, NotSignal, Blank
<1>3. Range(list) = {} /\ wire = {}
    BY DEF Init, Range
<1>. QED
    BY <1>2, <1>3, FilterInit DEF PayloadInv, PayloadPlaces

\* A step of thread t, with what it adds.
LEMMA PayloadElsewhere ==
    ASSUME PayloadInv, NEW t \in Threads, NotSignal(bun'[t]),
           \A o \in Threads \ {t} : bun'[o] = bun[o],
           \A b \in wire' : b \in wire \/ NotSignal(b),
           \A b \in Range(list') : b \in Range(list) \/ b.payload = Data
    PROVE  PayloadPlaces'
    BY DEF PayloadInv, PayloadPlaces, NotSignal

LEMMA PayloadReceive ==
    ASSUME PayloadInv, UsockRecv \/ UsockRecvError \/ IsockRecv
    PROVE  PayloadPlaces'
<1>. USE DEF tableVars, Goto, At, Threads
<1>1. TypeOK /\ PayloadPlaces
    BY DEF PayloadInv, FilterInv, SignalInv, ThreadInv
<1>2. ASSUME NEW r, ProcessRequest(r), UNCHANGED wire
      PROVE  PayloadPlaces'
    <2>1. /\ UNCHANGED list
          /\ \A o \in {"isock", "scan"} : bun'[o] = bun[o]
          /\ bun' = bun \/ bun'["usock"].payload = Data
        BY <1>1, <1>2 DEF ProcessRequest, bpd_process_signal_bind, TypeOK,
                          bpd_process_signal_close, bpd_process_signal_send
    <2>2. NotSignal(bun'["usock"])
        BY <1>1, <2>1 DEF PayloadPlaces, NotSignal
    <2>3. /\ \A b \in wire' : b \in wire
          /\ \A b \in Range(list') : b \in Range(list)
        BY <1>2, <2>1
    <2>. QED
        BY <2>1, <2>2, <2>3, PayloadElsewhere
<1>3. CASE IsockRecv
    <2>1. PICK b \in NetIn \cup PeerSignals \cup Loops :
              bun' = [bun EXCEPT !["isock"] =
                         [b EXCEPT !.seq = Overlay(bun["isock"].seq, b.seq)]]
        BY <1>3 DEF IsockRecv
    <2>2. b \in Bundle
        BY <1>1, ArrivalsAreBundles
    <2>3. NotSignal(b)
        <3>1. CASE b \in NetIn
            BY <3>1, NetInAssumption DEF NotSignal
        <3>2. CASE b \in PeerSignals
            <4>1. PICK x \in wire, p \in Peers : b = [SignalFor(x, x.time) EXCEPT !.src = p]
                BY <3>2 DEF PeerSignals
            <4>2. x \in Bundle /\ x.time \in Time
                BY <1>1, <4>1 DEF TypeOK, Bundle
            <4>3. SignalFor(x, x.time) \in Bundle /\ SignalFor(x, x.time).iscustody = FALSE
                BY <4>2, SignalIsBundle
            <4>. QED
                BY <4>1, <4>3 DEF Bundle, NotSignal
        <3>3. CASE b \in Loops
            <4>1. PICK x \in wire, p \in Peers :
                      b = [x EXCEPT !.cust = IF x.iscustody THEN p ELSE @]
                BY <3>3 DEF Loops
            <4>2. x \in Bundle /\ NotSignal(x)
                BY <1>1, <4>1 DEF TypeOK, PayloadPlaces
            <4>. QED
                BY <4>1, <4>2 DEF Bundle, NotSignal
        <3>. QED
            BY <2>1, <3>1, <3>2, <3>3
    <2>4. NotSignal(bun'["isock"])
        BY <1>1, <2>1, <2>2, <2>3 DEF TypeOK, Bundle, NotSignal
    <2>5. \A o \in {"usock", "scan"} : bun'[o] = bun[o]
        BY <1>1, <2>1 DEF TypeOK
    <2>6. UNCHANGED <<wire, list>>
        BY <1>3 DEF IsockRecv
    <2>7. /\ \A b0 \in wire' : b0 \in wire
          /\ \A b0 \in Range(list') : b0 \in Range(list)
        BY <2>6
    <2>. QED
        BY <2>4, <2>5, <2>7, PayloadElsewhere
<1>. QED
    BY <1>2, <1>3 DEF UsockRecv, UsockRecvError

\* The signals a daemon makes do not ask for custody.
LEMMA PayloadForward ==
    ASSUME PayloadInv, NEW t \in Threads, bpd_forward(t)
    PROVE  PayloadPlaces'
<1>. USE DEF envVars, tableVars, localVars, historyVars, Goto, At
<1>1. TypeOK /\ PayloadPlaces /\ SignalPlaces /\ ThreadPlaces
    BY DEF PayloadInv, FilterInv, SignalInv, ThreadInv
<1>2. UNCHANGED bun
    BY DEF bpd_forward, bpd_process_admin_record, ConsumeData, Dispatch,
           ForwardOrDrop, DeleteLock, Delete
<1>3. NotSignal(adm[t])
    BY <1>1 DEF SignalPlaces, ThreadPlaces, NotSignal, Blank, Receivers, Threads
<1>4. \A b \in wire' : b \in wire \/ NotSignal(b)
    <2>1. NotSignal(Argument(t))
        BY <1>1, <1>3 DEF PayloadPlaces, Argument
    <2>2. wire' = wire \/ wire' = wire \cup {Argument(t)}
        BY DEF bpd_forward, bpd_process_admin_record, ConsumeData, Dispatch,
               ForwardOrDrop, DeleteLock, Delete
    <2>. QED
        BY <2>1, <2>2
<1>5. \A b \in Range(list') : b \in Range(list)
    <2>1. CASE UNCHANGED list
        BY <2>1
    <2>2. CASE ~UNCHANGED list
        <3>1. Delete(t) /\ key[t] \in Keys
            BY <2>2 DEF bpd_forward, bpd_process_admin_record, ConsumeData, Dispatch,
                        ForwardOrDrop, DeleteLock, Delete
        <3>2. /\ list' = RemoveAt(list, Newest(key[t]))
              /\ Newest(key[t]) \in 1..Len(list) /\ list \in Seq(Bundle)
            BY <1>1, <3>1, NewestMatches DEF Delete, TypeOK
        <3>. QED
            BY <3>2, RemoveAtKeeps
    <2>. QED
        BY <2>1, <2>2
<1>6. NotSignal(bun'[t])
    BY <1>1, <1>2 DEF PayloadPlaces
<1>. QED
    BY <1>2, <1>4, <1>5, <1>6, PayloadElsewhere

LEMMA PayloadReceivers ==
    ASSUME PayloadInv, NEW t \in Receivers, Numbering(t) \/ InsertCustody(t)
    PROVE  PayloadPlaces'
<1>. USE DEF envVars, tableVars, localVars, historyVars, Goto, At
<1>1. TypeOK /\ PayloadPlaces /\ SignalPlaces /\ t \in Threads
    BY DEF PayloadInv, FilterInv, SignalInv, ThreadInv, Receivers, Threads
<1>2. UNCHANGED wire /\ \A o \in Threads \ {t} : bun'[o] = bun[o]
    BY <1>1 DEF Numbering, SeqLock, SeqRead, SeqWrite, InsertCustody, ReplicaSearch,
       ReplicaLock, ReplicaInsert, SrcCheck, DstCheck, ListLock, ListInsert, TypeOK
<1>3. bun[t] \in Bundle /\ counter \in Number /\ NotSignal(bun[t])
    BY <1>1 DEF TypeOK, PayloadPlaces
<1>4. bun'[t] = bun[t] \/ bun'[t] = [bun[t] EXCEPT !.seq = counter]
    BY <1>1 DEF Numbering, SeqLock, SeqRead, SeqWrite, InsertCustody, ReplicaSearch,
       ReplicaLock, ReplicaInsert, SrcCheck, DstCheck, ListLock, ListInsert, TypeOK
<1>5. NotSignal(bun'[t])
    BY <1>3, <1>4 DEF NotSignal, Bundle
<1>6. \A b \in Range(list') : b \in Range(list) \/ b.payload = Data
    <2>1. CASE ListInsert(t)
        <3>1. list' = Append(list, Stored(bun[t])) /\ bun[t].iscustody
            BY <1>1, <2>1 DEF ListInsert, SignalPlaces, Custodial
        <3>2. Range(list') = Range(list) \cup {Stored(bun[t])}
            BY <1>1, <1>3, <3>1, RangeOfAppend, StoredIsBundle DEF TypeOK
        <3>3. Stored(bun[t]).payload = Data
            BY <1>3, <3>1 DEF Stored, NotSignal, Bundle
        <3>. QED
            BY <3>2, <3>3
    <2>2. CASE ~ListInsert(t)
        <3>1. UNCHANGED list
            BY <2>2 DEF Numbering, SeqLock, SeqRead, SeqWrite, InsertCustody, ReplicaSearch,
               ReplicaLock, ReplicaInsert, SrcCheck, DstCheck, ListLock
        <3>. QED
            BY <3>1
    <2>. QED
        BY <2>1, <2>2
<1>7. \A b \in wire' : b \in wire
    BY <1>2
<1>. QED
    BY <1>1, <1>2, <1>5, <1>6, <1>7, PayloadElsewhere

LEMMA PayloadScan ==
    ASSUME PayloadInv, Scan
    PROVE  PayloadPlaces'
<1>. USE DEF envVars, tableVars, localVars, historyVars, Goto, At
<1>1. TypeOK /\ PayloadPlaces /\ ScanPlace
    BY DEF PayloadInv, FilterInv, SignalInv, ThreadInv
<1>2. /\ UNCHANGED <<wire, list>>
      /\ \A o \in Threads \ {"scan"} : bun'[o] = bun[o]
    BY <1>1 DEF Scan, ScanLock, ScanNext, ScanUnlock, TypeOK
<1>3. NotSignal(bun'["scan"])
    <2>1. CASE ScanLock
        BY <1>1, <2>1 DEF ScanLock, PayloadPlaces, Threads
    <2>2. CASE ScanNext
        <3>1. Len(list) \in Nat /\ DOMAIN list = 1..Len(list)
            BY <1>1 DEF TypeOK
        <3>2. cursor - 1 \in DOMAIN list /\ bun'["scan"] = list[cursor - 1]
            BY <1>1, <2>2, <3>1 DEF ScanNext, ScanPlace, TypeOK, Threads
        <3>3. list[cursor - 1] \in Range(list)
            BY <3>2 DEF Range
        <3>. QED
            BY <1>1, <3>2, <3>3 DEF PayloadPlaces, NotSignal
    <2>3. CASE ScanUnlock
        BY <1>1, <2>3 DEF ScanUnlock, TypeOK, NotSignal, Blank, Threads
    <2>. QED
        BY <2>1, <2>2, <2>3 DEF Scan
<1>4. /\ "scan" \in Threads
      /\ \A b \in wire' : b \in wire
      /\ \A b \in Range(list') : b \in Range(list)
    BY <1>2 DEF Threads
<1>. QED
    BY <1>2, <1>3, <1>4, PayloadElsewhere

LEMMA PayloadNext == PayloadInv /\ [Next]_vars => PayloadInv'
<1>. SUFFICES ASSUME PayloadInv, [Next]_vars PROVE PayloadPlaces'
    BY FilterNext DEF PayloadInv
<1>1. CASE UNCHANGED <<wire, bun, list>>
    BY <1>1 DEF PayloadInv, PayloadPlaces
<1>2. CASE UNCHANGED vars
    BY <1>1, <1>2 DEF vars, envVars, tableVars, localVars
<1>3. CASE Application
    BY <1>1, <1>3 DEF Application, bp_bind, bp_sendto, bp_close, bp_recv, envVars,
                      tableVars, localVars
<1>4. CASE UsockRecv \/ UsockRecvError \/ IsockRecv
    BY <1>4, PayloadReceive
<1>5. ASSUME NEW t \in Receivers, Numbering(t) \/ InsertCustody(t) PROVE PayloadPlaces'
    BY <1>5, PayloadReceivers
<1>6. ASSUME NEW t \in Threads, bpd_forward(t) PROVE PayloadPlaces'
    BY <1>6, PayloadForward
<1>7. CASE Scan
    BY <1>7, PayloadScan
<1>. QED
    BY <1>2, <1>3, <1>4, <1>5, <1>6, <1>7 DEF Next

\* Whatever the applications' stray bytes and the neighbours' bundles, a custody
\* signal never makes the scan ask for the mutex it holds: what it finds in the
\* list is application data, and only a mark on that can lock it out.
THEOREM SignalsLeaveScanAlone == Spec => []SignalsNeverLockScan
<1>1. PayloadInv => SignalsNeverLockScan
    <2>1. SUFFICES ASSUME PayloadInv, pc["scan"] = "del_lock"
                   PROVE  bun["scan"].payload = Data
        BY DEF SignalsNeverLockScan
    <2>2. bun["scan"] \in Range(list)
        BY <2>1 DEF PayloadInv, FilterInv, SignalInv, ThreadInv, ScanEntryLive, Scanning,
                    Range
    <2>. QED
        BY <2>1, <2>2 DEF PayloadInv, PayloadPlaces
<1>. QED
    BY <1>1, PayloadInit, PayloadNext, PTL DEF Spec

-----------------------------------------------------------------------------
(***************************************************************************)
(* What this daemon's custody signals name.                                *)
(***************************************************************************)
VouchInv == FilterInv /\ SignalsVouched

\* The administrative bit, the source and the payload make it a signal, and the
\* destination says whose bundle it names.
LEMMA SameSignal ==
    ASSUME NEW seen, NEW more, seen \subseteq more, NEW b, NEW c, VouchedBy(seen, b),
           c.isadmin = b.isadmin, c.src = b.src, c.payload = b.payload, c.dst = b.dst
    PROVE  VouchedBy(more, c)
    BY DEF VouchedBy, OwnSignal

LEMMA BlankVouched == ASSUME NEW seen PROVE VouchedBy(seen, Blank)
    BY DEF VouchedBy, OwnSignal, Blank

LEMMA VouchInit == Init => VouchInv
<1>. SUFFICES ASSUME Init PROVE VouchInv
    OBVIOUS
<1>1. \A n \in Number : /\ VouchedBy(Range(replicas), [Blank EXCEPT !.seq = n])
                        /\ [Blank EXCEPT !.seq = n].iscustody = FALSE
    BY BlankIsBundle DEF VouchedBy, OwnSignal, Blank, Bundle
<1>2. \A t \in Threads : VouchedBy(Range(replicas), bun[t]) /\ ~bun[t].iscustody
    BY <1>1, BlankVouched, MemoryAssumption DEF Init, Blank
<1>3. \A t \in Threads : VouchedBy(Range(replicas), adm[t])
    BY BlankVouched DEF Init
<1>4. Range(list) = {} /\ wire = {} /\ \A t \in Receivers : pc[t] = "recv"
    BY DEF Init, Range, Receivers, Threads
<1>. QED
    BY <1>2, <1>3, <1>4, FilterInit DEF VouchInv, SignalsVouched, Threads

\* A step of thread t, with what it adds.
LEMMA VouchedElsewhere ==
    ASSUME VouchInv, NEW t \in Threads,
           \A o \in Threads \ {t} :
              bun'[o] = bun[o] /\ adm'[o] = adm[o] /\ pc'[o] = pc[o],
           Range(replicas) \subseteq Range(replicas'),
           \A e : IsLocal(bindList, e) => IsLocal(bindList', e),
           \A b \in wire' \cup Range(list') :
              b \in wire \cup Range(list) \/ VouchedBy(Range(replicas), b),
           VouchedBy(Range(replicas), bun'[t]), VouchedBy(Range(replicas), adm'[t]),
           t \in Receivers /\ pc'[t] = "src_check" => bun'[t] \in Range(replicas'),
           t = "usock" /\ bun'[t].iscustody => IsLocal(bindList', bun'[t].src)
    PROVE  SignalsVouched'
<1>1. SignalsVouched
    BY DEF VouchInv
<1>2. \A b : VouchedBy(Range(replicas), b) => VouchedBy(Range(replicas'), b)
    BY DEF VouchedBy
<1>3. \A b \in wire' \cup Range(list') : VouchedBy(Range(replicas'), b)
    BY <1>1, <1>2 DEF SignalsVouched
<1>4. \A o \in Threads : /\ VouchedBy(Range(replicas'), bun'[o])
                         /\ VouchedBy(Range(replicas'), adm'[o])
    BY <1>1, <1>2 DEF SignalsVouched
<1>5. \A o \in Receivers : pc'[o] = "src_check" => bun'[o] \in Range(replicas')
    BY <1>1 DEF SignalsVouched, Receivers, Threads
<1>6. bun'["usock"].iscustody => IsLocal(bindList', bun'["usock"].src)
    BY <1>1 DEF SignalsVouched, Threads
<1>. QED
    BY <1>3, <1>4, <1>5, <1>6 DEF SignalsVouched

LEMMA VouchReceive ==
    ASSUME VouchInv, NoForgedSignal, UsockRecv \/ UsockRecvError \/ IsockRecv
    PROVE  SignalsVouched'
<1>. USE DEF tableVars, Goto, At, Receivers, Threads
<1>1. TypeOK /\ SignalsVouched
    BY DEF VouchInv, FilterInv, SignalInv, ThreadInv
<1>2. ASSUME NEW r, ProcessRequest(r), UNCHANGED wire
      PROVE  SignalsVouched'
    <2>1. /\ UNCHANGED <<list, replicas, adm>>
          /\ \A o \in {"isock", "scan"} : bun'[o] = bun[o] /\ pc'[o] = pc[o]
          /\ pc'["usock"] = "src_check" => bun' = bun /\ pc' = pc
        BY <1>1, <1>2 DEF ProcessRequest, bpd_process_signal_bind, TypeOK,
                          bpd_process_signal_close, bpd_process_signal_send
    <2>2. \A e : IsLocal(bindList, e) => IsLocal(bindList', e)
        BY <1>1, <1>2, BindListKeeps
    <2>3. /\ VouchedBy(Range(replicas), bun'["usock"])
          /\ bun'["usock"].iscustody => IsLocal(bindList', bun'["usock"].src)
        <3>1. CASE bun' = bun
            BY <1>1, <2>2, <3>1 DEF SignalsVouched
        <3>2. CASE bun' # bun
            <4>1. /\ IsBound(bindList, r.addr) /\ bindList' = bindList
                  /\ bun'["usock"].payload = Data
                  /\ bun'["usock"].src = bindList[FindByAddr(bindList, r.addr)].eid
                BY <1>1, <1>2, <3>2 DEF ProcessRequest, bpd_process_signal_bind, TypeOK,
                                  bpd_process_signal_close, bpd_process_signal_send
            <4>2. FindByAddr(bindList, r.addr) \in DOMAIN bindList
                BY <1>1, <4>1, FindByAddrMatches DEF TypeOK
            <4>. QED
                BY <4>1, <4>2 DEF VouchedBy, OwnSignal, IsLocal
        <3>. QED
            BY <3>1, <3>2
    <2>4. /\ \A b \in wire' \cup Range(list') : b \in wire \cup Range(list)
          /\ VouchedBy(Range(replicas), adm'["usock"])
          /\ pc'["usock"] = "src_check" => bun'["usock"] \in Range(replicas')
        BY <1>1, <1>2, <2>1 DEF SignalsVouched
    <2>5. Range(replicas) \subseteq Range(replicas')
        BY <2>1
    <2>. QED
        BY <2>1, <2>2, <2>3, <2>4, <2>5, VouchedElsewhere
<1>3. CASE IsockRecv
    <2>1. PICK b \in NetIn \cup PeerSignals \cup Loops :
              /\ bun' = [bun EXCEPT !["isock"] =
                            [b EXCEPT !.seq = Overlay(bun["isock"].seq, b.seq)]]
              /\ pc' = [pc EXCEPT !["isock"] = InsertEntry(b)]
        BY <1>3 DEF IsockRecv
    <2>2. b \in Bundle
        BY <1>1, ArrivalsAreBundles
    <2>3. VouchedBy(Range(replicas), b)
        <3>1. CASE b \in NetIn
            BY <3>1 DEF NoForgedSignal, VouchedBy
        <3>2. CASE b \in PeerSignals
            <4>1. PICK x \in wire, p \in Peers : b = [SignalFor(x, x.time) EXCEPT !.src = p]
                BY <3>2 DEF PeerSignals
            <4>2. x \in Bundle /\ x.time \in Time
                BY <1>1, <4>1 DEF TypeOK, Bundle
            <4>3. b.src = p
                BY <4>1, <4>2, SignalIsBundle DEF Bundle
            <4>. QED
                BY <4>1, <4>3, PeersAssumption DEF VouchedBy, OwnSignal
        <3>3. CASE b \in Loops
            <4>1. PICK x \in wire, p \in Peers :
                      b = [x EXCEPT !.cust = IF x.iscustody THEN p ELSE @]
                BY <3>3 DEF Loops
            <4>2. x \in Bundle /\ VouchedBy(Range(replicas), x)
                BY <1>1, <4>1 DEF TypeOK, SignalsVouched
            <4>3. /\ b.isadmin = x.isadmin /\ b.src = x.src
                  /\ b.payload = x.payload /\ b.dst = x.dst
                BY <4>1, <4>2 DEF Bundle
            <4>. QED
                BY <4>2, <4>3, SameSignal
        <3>. QED
            BY <3>1, <3>2, <3>3
    <2>4. VouchedBy(Range(replicas), bun'["isock"])
        <3>1. /\ bun'["isock"].isadmin = b.isadmin /\ bun'["isock"].src = b.src
              /\ bun'["isock"].payload = b.payload /\ bun'["isock"].dst = b.dst
            BY <1>1, <2>1, <2>2 DEF TypeOK, Bundle
        <3>. QED
            BY <2>3, <3>1, SameSignal
    <2>5. /\ \A o \in {"usock", "scan"} : bun'[o] = bun[o] /\ pc'[o] = pc[o]
          /\ pc'["isock"] # "src_check"
        BY <1>1, <2>1 DEF TypeOK, InsertEntry
    <2>6. UNCHANGED <<wire, list, replicas, adm, bindList>>
        BY <1>3 DEF IsockRecv
    <2>7. /\ \A b0 \in wire' \cup Range(list') : b0 \in wire \cup Range(list)
          /\ VouchedBy(Range(replicas), adm'["isock"])
          /\ Range(replicas) \subseteq Range(replicas')
          /\ \A e : IsLocal(bindList, e) => IsLocal(bindList', e)
        BY <1>1, <2>6 DEF SignalsVouched
    <2>. QED
        BY <2>4, <2>5, <2>6, <2>7, VouchedElsewhere
<1>. QED
    BY <1>2, <1>3 DEF UsockRecv, UsockRecvError

LEMMA VouchForward ==
    ASSUME VouchInv, NEW t \in Threads, bpd_forward(t)
    PROVE  SignalsVouched'
<1>. USE DEF envVars, tableVars, localVars, historyVars, Goto, At
<1>1. TypeOK /\ SignalsVouched
    BY DEF VouchInv, FilterInv, SignalInv, ThreadInv
<1>2. /\ UNCHANGED <<bun, replicas, bindList>> /\ pc'[t] # "src_check"
      /\ \A o \in Threads \ {t} : adm'[o] = adm[o] /\ pc'[o] = pc[o]
      /\ adm'[t] = adm[t] \/ adm'[t] = Blank
      /\ wire' = wire \/ wire' = wire \cup {Argument(t)}
    BY <1>1 DEF bpd_forward, bpd_process_admin_record, ConsumeData, Dispatch,
       ForwardOrDrop, DeleteLock, Delete, Return, ReturnTo, TypeOK
<1>3. \A b \in wire' : b \in wire \/ VouchedBy(Range(replicas), b)
    <2>1. VouchedBy(Range(replicas), Argument(t))
        BY <1>1 DEF SignalsVouched, Argument
    <2>. QED
        BY <1>2, <2>1
<1>4. \A b \in Range(list') : b \in Range(list)
    <2>1. CASE UNCHANGED list
        BY <2>1
    <2>2. CASE ~UNCHANGED list
        <3>1. Delete(t) /\ key[t] \in Keys
            BY <2>2 DEF bpd_forward, bpd_process_admin_record, ConsumeData, Dispatch,
                        ForwardOrDrop, DeleteLock, Delete
        <3>2. /\ list' = RemoveAt(list, Newest(key[t]))
              /\ Newest(key[t]) \in 1..Len(list) /\ list \in Seq(Bundle)
            BY <1>1, <3>1, NewestMatches DEF Delete, TypeOK
        <3>. QED
            BY <3>2, RemoveAtKeeps
    <2>. QED
        BY <2>1, <2>2
<1>5. /\ VouchedBy(Range(replicas), bun'[t]) /\ VouchedBy(Range(replicas), adm'[t])
      /\ t = "usock" /\ bun'[t].iscustody => IsLocal(bindList', bun'[t].src)
    BY <1>1, <1>2, BlankVouched DEF SignalsVouched
<1>6. /\ \A b \in wire' \cup Range(list') :
            b \in wire \cup Range(list) \/ VouchedBy(Range(replicas), b)
      /\ Range(replicas) \subseteq Range(replicas')
      /\ \A e : IsLocal(bindList, e) => IsLocal(bindList', e)
    BY <1>2, <1>3, <1>4
<1>. QED
    BY <1>2, <1>5, <1>6, VouchedElsewhere

LEMMA VouchReceivers ==
    ASSUME VouchInv, NEW t \in Receivers, Numbering(t) \/ InsertCustody(t)
    PROVE  SignalsVouched'
<1>. USE DEF envVars, tableVars, localVars, historyVars, Goto, At
<1>1. /\ TypeOK /\ SignalsVouched /\ SignalPlaces /\ FilterWindow
      /\ t \in Threads /\ bun[t] \in Bundle /\ adm[t] \in Bundle /\ counter \in Number
    BY DEF VouchInv, FilterInv, SignalInv, ThreadInv, TypeOK, Receivers, Threads
<1>2. /\ UNCHANGED <<wire, bindList>>
      /\ \A o \in Threads \ {t} : bun'[o] = bun[o] /\ adm'[o] = adm[o] /\ pc'[o] = pc[o]
    BY <1>1 DEF Numbering, SeqLock, SeqRead, SeqWrite, InsertCustody, ReplicaSearch,
       ReplicaLock, ReplicaInsert, SrcCheck, DstCheck, ListLock, ListInsert, TypeOK
\* The bundle keeps all but its number.
<1>3. /\ VouchedBy(Range(replicas), bun'[t])
      /\ t = "usock" /\ bun'[t].iscustody => IsLocal(bindList', bun'[t].src)
    <2>1. bun'[t] = bun[t] \/ bun'[t] = [bun[t] EXCEPT !.seq = counter]
        BY <1>1 DEF Numbering, SeqLock, SeqRead, SeqWrite, InsertCustody, ReplicaSearch,
           ReplicaLock, ReplicaInsert, SrcCheck, DstCheck, ListLock, ListInsert, TypeOK
    <2>2. /\ bun'[t].isadmin = bun[t].isadmin /\ bun'[t].src = bun[t].src
          /\ bun'[t].payload = bun[t].payload /\ bun'[t].iscustody = bun[t].iscustody
          /\ bun'[t].dst = bun[t].dst
        BY <1>1, <2>1 DEF Bundle
    <2>3. VouchedBy(Range(replicas), bun[t])
        BY <1>1 DEF SignalsVouched
    <2>. QED
        BY <1>1, <1>2, <2>2, <2>3, SameSignal DEF SignalsVouched
<1>4. VouchedBy(Range(replicas), adm'[t])
    <2>1. VouchedBy(Range(replicas), adm[t])
        BY <1>1 DEF SignalsVouched
    \* Of this daemon's own bundles the source is bound, so no signal is sent.
    <2>2. CASE SrcCheck(t) /\ ~IsLocal(bindList, bun[t].src)
        <3>1. PICK now \in Time : adm' = [adm EXCEPT ![t] = SignalFor(bun[t], now)]
            BY <2>2 DEF SrcCheck
        <3>2. bun[t] \in Range(replicas) /\ bun[t].iscustody
            BY <1>1, <2>2 DEF SrcCheck, SignalsVouched, SignalPlaces, Custodial
        <3>3. t # "usock" /\ bun[t].cust \in Peers
            BY <1>1, <2>2, <3>2 DEF SignalsVouched, FilterWindow
        <3>4. /\ SignalFor(bun[t], now).payload.named = KeyOf(bun[t])
              /\ SignalFor(bun[t], now).dst = bun[t].cust
            BY BlankIsBundle DEF SignalFor, Bundle
        <3>5. VouchedBy(Range(replicas), SignalFor(bun[t], now))
            BY <3>2, <3>3, <3>4 DEF VouchedBy
        <3>. QED
            BY <1>1, <3>1, <3>5 DEF TypeOK
    <2>3. CASE ~(SrcCheck(t) /\ ~IsLocal(bindList, bun[t].src))
        <3>1. adm'[t] = adm[t] \/ adm'[t] = [adm[t] EXCEPT !.seq = counter]
            BY <1>1, <2>3 DEF Numbering, SeqLock, SeqRead, SeqWrite, InsertCustody,
               ReplicaSearch, ReplicaLock, ReplicaInsert, SrcCheck, DstCheck, ListLock,
               ListInsert, TypeOK
        <3>2. /\ adm'[t].isadmin = adm[t].isadmin /\ adm'[t].src = adm[t].src
              /\ adm'[t].payload = adm[t].payload /\ adm'[t].dst = adm[t].dst
            BY <1>1, <3>1 DEF Bundle
        <3>. QED
            BY <2>1, <3>2, SameSignal
    <2>. QED
        BY <2>2, <2>3
<1>5. \A b \in Range(list') : b \in Range(list) \/ VouchedBy(Range(replicas), b)
    <2>1. CASE ListInsert(t)
        <3>1. Range(list') = Range(list) \cup {Stored(bun[t])}
            BY <1>1, <2>1, RangeOfAppend, StoredIsBundle DEF ListInsert, TypeOK
        <3>2. /\ Stored(bun[t]).isadmin = bun[t].isadmin /\ Stored(bun[t]).src = bun[t].src
              /\ Stored(bun[t]).payload = bun[t].payload /\ Stored(bun[t]).dst = bun[t].dst
            BY <1>1 DEF Stored, Bundle
        <3>3. VouchedBy(Range(replicas), bun[t])
            BY <1>1 DEF SignalsVouched
        <3>. QED
            BY <3>1, <3>2, <3>3, SameSignal
    <2>2. CASE ~ListInsert(t)
        <3>1. UNCHANGED list
            BY <2>2 DEF Numbering, SeqLock, SeqRead, SeqWrite, InsertCustody, ReplicaSearch,
               ReplicaLock, ReplicaInsert, SrcCheck, DstCheck, ListLock
        <3>. QED
            BY <3>1
    <2>. QED
        BY <2>1, <2>2
<1>6. /\ Range(replicas) \subseteq Range(replicas')
      /\ pc'[t] = "src_check" => bun'[t] \in Range(replicas')
    <2>1. CASE ReplicaInsert(t)
        <3>1. Range(replicas') = Range(replicas) \cup {bun[t]} /\ bun' = bun
            BY <1>1, <2>1, RangeOfAppend DEF ReplicaInsert, TypeOK
        <3>. QED
            BY <3>1
    <2>2. CASE ~ReplicaInsert(t)
        <3>1. UNCHANGED replicas /\ pc'[t] # "src_check"
            BY <1>1, <2>2 DEF Numbering, SeqLock, SeqRead, SeqWrite, InsertEntry,
               InsertCustody, ReplicaSearch, ReplicaLock, SrcCheck, DstCheck, ListLock,
               ListInsert, TypeOK
        <3>. QED
            BY <3>1
    <2>. QED
        BY <2>1, <2>2
<1>7. /\ \A b \in wire' \cup Range(list') :
            b \in wire \cup Range(list) \/ VouchedBy(Range(replicas), b)
      /\ \A e : IsLocal(bindList, e) => IsLocal(bindList', e)
    BY <1>2, <1>5
<1>. QED
    BY <1>1, <1>2, <1>3, <1>4, <1>6, <1>7, VouchedElsewhere

LEMMA VouchScan ==
    ASSUME VouchInv, Scan
    PROVE  SignalsVouched'
<1>. USE DEF envVars, tableVars, localVars, historyVars, Goto, At
<1>1. TypeOK /\ SignalsVouched /\ ScanPlace
    BY DEF VouchInv, FilterInv, SignalInv, ThreadInv
<1>2. /\ UNCHANGED <<wire, list, replicas, bindList, adm>>
      /\ \A o \in Threads \ {"scan"} : bun'[o] = bun[o] /\ pc'[o] = pc[o]
    BY <1>1 DEF Scan, ScanLock, ScanNext, ScanUnlock, TypeOK
<1>3. VouchedBy(Range(replicas), bun'["scan"])
    <2>1. CASE ScanLock
        BY <1>1, <2>1 DEF ScanLock, SignalsVouched, Threads
    <2>2. CASE ScanNext
        <3>1. Len(list) \in Nat /\ DOMAIN list = 1..Len(list)
            BY <1>1 DEF TypeOK
        <3>2. cursor - 1 \in DOMAIN list /\ bun'["scan"] = list[cursor - 1]
            BY <1>1, <2>2, <3>1 DEF ScanNext, ScanPlace, TypeOK, Threads
        <3>3. list[cursor - 1] \in Range(list)
            BY <3>2 DEF Range
        <3>. QED
            BY <1>1, <3>2, <3>3 DEF SignalsVouched
    <2>3. CASE ScanUnlock
        BY <1>1, <2>3, BlankVouched DEF ScanUnlock, TypeOK, Threads
    <2>. QED
        BY <2>1, <2>2, <2>3 DEF Scan
<1>4. /\ "scan" \in Threads /\ "scan" \notin Receivers
      /\ VouchedBy(Range(replicas), adm'["scan"])
      /\ \A b \in wire' \cup Range(list') : b \in wire \cup Range(list)
      /\ Range(replicas) \subseteq Range(replicas')
      /\ \A e : IsLocal(bindList, e) => IsLocal(bindList', e)
    BY <1>1, <1>2 DEF SignalsVouched, Receivers, Threads
<1>. QED
    BY <1>2, <1>3, <1>4, VouchedElsewhere

LEMMA VouchNext ==
    ASSUME NoForgedSignal
    PROVE  VouchInv /\ [Next]_vars => VouchInv'
<1>. SUFFICES ASSUME VouchInv, [Next]_vars PROVE SignalsVouched'
    BY FilterNext DEF VouchInv
<1>. USE DEF envVars, tableVars, localVars, historyVars
<1>1. CASE UNCHANGED <<wire, list, replicas, bindList, pc, bun, adm>>
    BY <1>1 DEF VouchInv, SignalsVouched
<1>2. CASE UNCHANGED vars
    BY <1>1, <1>2 DEF vars
<1>3. CASE Application
    BY <1>1, <1>3 DEF Application, bp_bind, bp_sendto, bp_close, bp_recv
<1>4. CASE UsockRecv \/ UsockRecvError \/ IsockRecv
    BY <1>4, VouchReceive
<1>5. ASSUME NEW t \in Receivers, Numbering(t) \/ InsertCustody(t) PROVE SignalsVouched'
    BY <1>5, VouchReceivers
<1>6. ASSUME NEW t \in Threads, bpd_forward(t) PROVE SignalsVouched'
    BY <1>6, VouchForward
<1>7. CASE Scan
    BY <1>7, VouchScan
<1>. QED
    BY <1>2, <1>3, <1>4, <1>5, <1>6, <1>7 DEF Next

-----------------------------------------------------------------------------
(***************************************************************************)
(* What they name is what the neighbour sent.                              *)
(***************************************************************************)
ArrivalInv == VouchInv /\ ArrivalsKept

\* The bytes that v needs are v's: what was above them stays above them.
LEMMA OverlayReads ==
    ASSUME NEW old \in Number, NEW v \in Number
    PROVE  ReadAs(v, Overlay(old, v))
<1>. DEFINE w == ByteWidth(v)
            h == old \div w
<1>1. /\ w \in Nat \ {0} /\ v < w /\ v \in Nat /\ old \in Nat
    <2>1. w \in Widths /\ v < w
        BY ByteWidthFits
    <2>2. v \in Nat /\ old \in Nat
        BY WidthAssumption DEF Number
    <2>3. w \in Nat \ {0}
        BY <2>1, WidthAssumption
    <2>. QED
        BY <2>1, <2>2, <2>3
<1>2. h \in Nat
    BY <1>1
<1>. HIDE DEF w, h
<1>3. h * w + v = w * h + v /\ h * w + v \in Nat
    BY <1>1, <1>2
<1>4. (h * w + v) % w = v
    BY <1>1, <1>2, <1>3, RemainderOf
<1>. QED
    BY <1>4 DEF ReadAs, Overlay, w, h

LEMMA ArrivalInit == Init => ArrivalInv
<1>. SUFFICES ASSUME Init PROVE ArrivalInv
    OBVIOUS
<1>1. \A n \in Number : [Blank EXCEPT !.seq = n].iscustody = FALSE
    BY BlankIsBundle DEF Blank, Bundle
<1>2. bun["isock"].iscustody = FALSE /\ pc["isock"] = "recv" /\ Range(replicas) = {}
    BY <1>1, MemoryAssumption DEF Init, Blank, Range, Threads
<1>. QED
    BY <1>2, VouchInit DEF ArrivalInv, ArrivalsKept

\* A step that admits nothing to the replica list and no custody bundle to the
\* bundle socket's thread.
LEMMA ArrivalElsewhere ==
    ASSUME ArrivalInv, wire \subseteq wire', UNCHANGED replicas,
           bun'["isock"] = bun["isock"] \/ ~bun'["isock"].iscustody,
           pc'["isock"] \in {"seq_lock", "seq_read", "seq_write"} => Signalling("isock")'
    PROVE  ArrivalsKept'
<1>1. Loops \subseteq Loops'
    BY DEF Loops
<1>2. \A b : SentAs(NetIn \cup Loops, b) => SentAs((NetIn \cup Loops)', b)
    BY <1>1 DEF SentAs
<1>. QED
    BY <1>2 DEF ArrivalInv, ArrivalsKept

LEMMA ArrivalReceive ==
    ASSUME ArrivalInv, UsockRecv \/ UsockRecvError \/ IsockRecv
    PROVE  ArrivalsKept'
<1>. USE DEF tableVars, Goto, At, Receivers, Threads
<1>1. TypeOK /\ ArrivalsKept
    BY DEF ArrivalInv, VouchInv, FilterInv, SignalInv, ThreadInv
<1>2. ASSUME NEW r, ProcessRequest(r), UNCHANGED wire
      PROVE  ArrivalsKept'
    <2>1. UNCHANGED <<replicas, adm, bun["isock"], pc["isock"]>>
        BY <1>1, <1>2 DEF ProcessRequest, bpd_process_signal_bind, TypeOK,
                          bpd_process_signal_close, bpd_process_signal_send
    <2>2. Signalling("isock")' <=> Signalling("isock")
        BY <2>1 DEF Signalling
    <2>. QED
        BY <1>1, <1>2, <2>1, <2>2, ArrivalElsewhere DEF ArrivalsKept
<1>3. CASE IsockRecv
    <2>1. PICK b \in NetIn \cup PeerSignals \cup Loops :
              /\ bun' = [bun EXCEPT !["isock"] =
                            [b EXCEPT !.seq = Overlay(bun["isock"].seq, b.seq)]]
              /\ pc' = [pc EXCEPT !["isock"] = InsertEntry(b)]
        BY <1>3 DEF IsockRecv
    <2>2. b \in Bundle /\ bun["isock"].seq \in Number /\ b.seq \in Number
        BY <1>1, <2>1, ArrivalsAreBundles DEF TypeOK, Bundle
    <2>3. ReadAs(b.seq, Overlay(bun["isock"].seq, b.seq))
        BY <2>2, OverlayReads
    <2>4. /\ bun'["isock"].iscustody = b.iscustody
          /\ b.iscustody => ReadFrom(b, bun'["isock"])
        BY <1>1, <2>1, <2>2, <2>3 DEF TypeOK, Bundle, ReadFrom
    <2>5. b.iscustody => b \in NetIn \cup Loops
        <3>1. CASE b \in PeerSignals
            <4>1. PICK x \in wire, p \in Peers : b = [SignalFor(x, x.time) EXCEPT !.src = p]
                BY <3>1 DEF PeerSignals
            <4>2. x \in Bundle /\ x.time \in Time
                BY <1>1, <4>1 DEF TypeOK, Bundle
            <4>3. SignalFor(x, x.time) \in Bundle /\ SignalFor(x, x.time).iscustody = FALSE
                BY <4>2, SignalIsBundle
            <4>. QED
                BY <4>1, <4>3 DEF Bundle
        <3>. QED
            BY <2>1, <3>1
    <2>6. UNCHANGED <<wire, replicas>> /\ pc'["isock"] \in {"search", "forward"}
        BY <1>1, <1>3, <2>1 DEF IsockRecv, TypeOK, InsertEntry
    <2>7. (NetIn \cup Loops)' = NetIn \cup Loops
        BY <2>6 DEF Loops
    <2>8. bun'["isock"].iscustody => SentAs((NetIn \cup Loops)', bun'["isock"])
        BY <2>4, <2>5, <2>7 DEF SentAs
    <2>9. \A d \in Range(replicas') : d.cust \in Peers => SentAs((NetIn \cup Loops)', d)
        BY <1>1, <2>6, <2>7 DEF ArrivalsKept
    <2>. QED
        BY <2>6, <2>8, <2>9 DEF ArrivalsKept
<1>. QED
    BY <1>2, <1>3 DEF UsockRecv, UsockRecvError

LEMMA ArrivalReceivers ==
    ASSUME ArrivalInv, NEW t \in Receivers, Numbering(t) \/ InsertCustody(t)
    PROVE  ArrivalsKept'
<1>. USE DEF envVars, tableVars, localVars, historyVars, Goto, At
<1>1. /\ TypeOK /\ ArrivalsKept /\ SignalPlaces /\ FilterWindow
      /\ t \in Threads /\ "isock" \in Receivers
      /\ bun[t] \in Bundle /\ adm[t] \in Bundle /\ counter \in Number
    BY DEF ArrivalInv, VouchInv, FilterInv, SignalInv, ThreadInv, TypeOK, Receivers, Threads
<1>2. /\ UNCHANGED wire
      /\ \A o \in Threads \ {t} : bun'[o] = bun[o] /\ adm'[o] = adm[o] /\ pc'[o] = pc[o]
    BY <1>1 DEF Numbering, SeqLock, SeqRead, SeqWrite, InsertCustody, ReplicaSearch,
       ReplicaLock, ReplicaInsert, SrcCheck, DstCheck, ListLock, ListInsert, TypeOK
<1>3. bun'["isock"] = bun["isock"]
    <2>1. CASE t = "isock" /\ SeqRead(t)
        BY <1>1, <2>1 DEF SeqRead, ArrivalsKept
    <2>2. CASE t # "isock"
        BY <1>2, <2>2 DEF Threads
    <2>3. CASE ~SeqRead(t)
        BY <1>1, <2>3 DEF Numbering, SeqLock, SeqWrite, InsertCustody, ReplicaSearch,
           ReplicaLock, ReplicaInsert, SrcCheck, DstCheck, ListLock, ListInsert
    <2>. QED
        BY <2>1, <2>2, <2>3
<1>4. pc'["isock"] \in {"seq_lock", "seq_read", "seq_write"} => Signalling("isock")'
    <2>1. CASE t # "isock"
        <3>1. pc'["isock"] = pc["isock"] /\ (Signalling("isock")' <=> Signalling("isock"))
            BY <1>2, <2>1 DEF Signalling, Threads
        <3>. QED
            BY <1>1, <3>1 DEF ArrivalsKept
    <2>2. CASE t = "isock" /\ SrcCheck(t)
        <3>1. Blank.isadmin = FALSE
            BY DEF Blank
        <3>2. CASE IsLocal(bindList, bun[t].src)
            BY <1>1, <2>2, <3>2 DEF SrcCheck, TypeOK
        <3>3. CASE ~IsLocal(bindList, bun[t].src)
            <4>1. PICK now \in Time : adm' = [adm EXCEPT ![t] = SignalFor(bun[t], now)]
                BY <2>2, <3>3 DEF SrcCheck
            <4>2. SignalFor(bun[t], now).isadmin = TRUE
                BY <1>1, SignalIsBundle
            <4>. QED
                BY <1>1, <2>2, <3>1, <4>1, <4>2 DEF Signalling, TypeOK
        <3>. QED
            BY <3>2, <3>3
    <2>3. CASE t = "isock" /\ SeqRead(t)
        <3>1. Signalling(t)
            BY <1>1, <2>3 DEF SeqRead, ArrivalsKept
        <3>2. adm'[t] = [adm[t] EXCEPT !.seq = counter] /\ adm[t].isadmin
            BY <1>1, <2>3, <3>1 DEF SeqRead, TypeOK, SignalPlaces
        <3>3. adm'[t].isadmin /\ Blank.isadmin = FALSE
            BY <1>1, <3>2 DEF Bundle, Blank
        <3>. QED
            BY <2>3, <3>3 DEF Signalling
    <2>4. CASE t = "isock" /\ ~SrcCheck(t) /\ ~SeqRead(t)
        <3>1. adm' = adm /\ (pc'[t] \in {"seq_lock", "seq_read", "seq_write"}
                                => pc[t] \in {"seq_lock", "seq_read", "seq_write"})
            BY <1>1, <2>4 DEF Numbering, SeqLock, SeqWrite, InsertEntry, InsertCustody,
               ReplicaSearch, ReplicaLock, ReplicaInsert, DstCheck, ListLock, ListInsert,
               TypeOK
        <3>. QED
            BY <1>1, <2>4, <3>1 DEF ArrivalsKept, Signalling
    <2>. QED
        BY <2>1, <2>2, <2>3, <2>4
<1>5. CASE ReplicaInsert(t)
    <2>1. Range(replicas') = Range(replicas) \cup {bun[t]} /\ bun[t].iscustody
        BY <1>1, <1>5, RangeOfAppend DEF ReplicaInsert, TypeOK, SignalPlaces, Custodial
    <2>2. bun[t].cust \in Peers => SentAs(NetIn \cup Loops, bun[t])
        BY <1>1, <2>1, PeersAssumption DEF FilterWindow, ArrivalsKept, Receivers
    <2>3. (NetIn \cup Loops)' = NetIn \cup Loops
        BY <1>2 DEF Loops
    <2>4. \A d \in Range(replicas') : d.cust \in Peers => SentAs((NetIn \cup Loops)', d)
        BY <1>1, <2>1, <2>2, <2>3 DEF ArrivalsKept
    <2>5. bun'["isock"].iscustody => SentAs((NetIn \cup Loops)', bun'["isock"])
        BY <1>1, <1>3, <2>3 DEF ArrivalsKept
    <2>. QED
        BY <1>4, <2>4, <2>5 DEF ArrivalsKept
<1>6. CASE ~ReplicaInsert(t)
    <2>1. UNCHANGED replicas
        BY <1>6 DEF Numbering, SeqLock, SeqRead, SeqWrite, InsertCustody, ReplicaSearch,
           ReplicaLock, SrcCheck, DstCheck, ListLock, ListInsert
    <2>. QED
        BY <1>2, <1>3, <1>4, <2>1, ArrivalElsewhere
<1>. QED
    BY <1>5, <1>6

LEMMA ArrivalForward ==
    ASSUME ArrivalInv, NEW t \in Threads, bpd_forward(t)
    PROVE  ArrivalsKept'
<1>. USE DEF envVars, tableVars, localVars, historyVars, Goto, At
<1>1. TypeOK /\ ArrivalsKept
    BY DEF ArrivalInv, VouchInv, FilterInv, SignalInv, ThreadInv
<1>2. /\ UNCHANGED <<bun, replicas>> /\ wire \subseteq wire'
      /\ \A o \in Threads \ {t} : adm'[o] = adm[o] /\ pc'[o] = pc[o]
      /\ pc'[t] \notin {"seq_lock", "seq_read", "seq_write"}
    BY <1>1 DEF bpd_forward, bpd_process_admin_record, ConsumeData, Dispatch,
       ForwardOrDrop, DeleteLock, Delete, Return, ReturnTo, TypeOK
<1>3. pc'["isock"] \in {"seq_lock", "seq_read", "seq_write"} => Signalling("isock")'
    <2>1. CASE t = "isock"
        BY <1>2, <2>1
    <2>2. CASE t # "isock"
        BY <1>1, <1>2, <2>2 DEF ArrivalsKept, Signalling, Threads
    <2>. QED
        BY <2>1, <2>2
<1>. QED
    BY <1>2, <1>3, ArrivalElsewhere

LEMMA ArrivalNext ==
    ASSUME NoForgedSignal
    PROVE  ArrivalInv /\ [Next]_vars => ArrivalInv'
<1>. SUFFICES ASSUME ArrivalInv, [Next]_vars PROVE ArrivalsKept'
    BY VouchNext DEF ArrivalInv
<1>. USE DEF envVars, tableVars, localVars, historyVars, Goto, At
<1>1. TypeOK /\ ArrivalsKept
    BY DEF ArrivalInv, VouchInv, FilterInv, SignalInv, ThreadInv
<1>2. CASE UNCHANGED <<wire, replicas, pc, bun, adm>>
    BY <1>1, <1>2, ArrivalElsewhere DEF ArrivalsKept, Signalling
<1>3. CASE UNCHANGED vars
    BY <1>2, <1>3 DEF vars
<1>4. CASE Application
    BY <1>2, <1>4 DEF Application, bp_bind, bp_sendto, bp_close, bp_recv
<1>5. CASE UsockRecv \/ UsockRecvError \/ IsockRecv
    BY <1>5, ArrivalReceive
<1>6. ASSUME NEW t \in Receivers, Numbering(t) \/ InsertCustody(t) PROVE ArrivalsKept'
    BY <1>6, ArrivalReceivers
<1>7. ASSUME NEW t \in Threads, bpd_forward(t) PROVE ArrivalsKept'
    BY <1>7, ArrivalForward
<1>8. CASE Scan
    <2>1. UNCHANGED <<wire, replicas, adm, bun["isock"], pc["isock"]>>
        BY <1>1, <1>8 DEF Scan, ScanLock, ScanNext, ScanUnlock, TypeOK, Threads
    <2>2. Signalling("isock")' <=> Signalling("isock")
        BY <2>1 DEF Signalling
    <2>. QED
        BY <1>1, <2>1, <2>2, ArrivalElsewhere DEF ArrivalsKept
<1>. QED
    BY <1>3, <1>4, <1>5, <1>6, <1>7, <1>8 DEF Next

\* If no neighbour signs as this daemon, every signal it sends goes to the
\* neighbour that sent a custody bundle, and names that bundle as the daemon has
\* let it through its filter: unchanged but for stale bytes of its number.
THEOREM SignalsNameReplicas ==
    ASSUME NoForgedSignal
    PROVE  Spec => []SignalsMatchCustody
<1>1. ArrivalInv => SignalsMatchCustody
    <2>1. SUFFICES ASSUME ArrivalInv, NEW s \in wire, OwnSignal(s)
                   PROVE  \E d \in Range(replicas) :
                              /\ KeyOf(d) = s.payload.named
                              /\ d.cust = s.dst
                              /\ \E b \in NetIn \cup Loops : ReadFrom(b, d)
        BY DEF SignalsMatchCustody
    <2>2. PICK d \in Range(replicas) :
              d.cust \in Peers /\ KeyOf(d) = s.payload.named /\ d.cust = s.dst
        BY <2>1 DEF ArrivalInv, VouchInv, SignalsVouched, VouchedBy
    <2>. QED
        BY <2>1, <2>2 DEF ArrivalInv, ArrivalsKept, SentAs
<1>2. ArrivalInv /\ [Next]_vars => ArrivalInv'
    BY ArrivalNext
<1>. QED
    BY <1>1, <1>2, ArrivalInit, PTL DEF Spec
=============================================================================
