-------------------------- MODULE CustodyNetProofs --------------------------
(***************************************************************************)
(* The daemons keep the promise of Custody, for any loop-free network, any *)
(* number of messages and crashes, and a network that loses, repeats and   *)
(* reorders.                                                               *)
(***************************************************************************)
EXTENDS CustodyNet, NaturalsInduction, WellFoundedInduction, TLAPS

USE DEF appVars, netVars, daemonVars, historyVars

-----------------------------------------------------------------------------
(***************************************************************************)
(* Stale bytes.  However often a number is decoded, the bytes it needs     *)
(* stay its own.                                                           *)
(***************************************************************************)
LEMMA LeastNumber ==
    ASSUME NEW T \in SUBSET Nat, T # {}
    PROVE  \E i \in T : \A j \in T : i <= j
<1>1. PICK i \in T : \A j \in T : ~(<<j, i>> \in OpToRel(<, Nat))
    BY NatLessThanWellFounded, WFMin
<1>2. ASSUME NEW j \in Nat, j < i PROVE <<j, i>> \in OpToRel(<, Nat)
    <2>1. <<j, i>> \in Nat \X Nat /\ <<j, i>>[1] = j /\ <<j, i>>[2] = i
        OBVIOUS
    <2>. QED
        BY <1>2, <2>1, Zenon DEF OpToRel
<1>3. \A j \in T : ~(j < i)
    BY <1>1, <1>2
<1>. QED
    BY <1>3

LEMMA ByteWidthFits ==
    ASSUME NEW v \in Number
    PROVE  ByteWidth(v) \in Widths /\ v < ByteWidth(v)
<1>1. FitsIn(v) \in SUBSET Nat /\ FitsIn(v) # {}
    <2>1. FitsIn(v) \subseteq Nat
        BY WidthAssumption DEF FitsIn
    <2>2. SeqSpan \in FitsIn(v)
        BY WidthAssumption DEF FitsIn, Number
    <2>. QED
        BY <2>1, <2>2
<1>2. \E w \in FitsIn(v) : \A x \in FitsIn(v) : w <= x
    BY <1>1, LeastNumber
<1>3. ByteWidth(v) \in FitsIn(v)
    BY <1>2 DEF ByteWidth
<1>. QED
    BY <1>3 DEF FitsIn

\* Decoding a number over another gives a number: the bytes kept and the bytes
\* written never overlap and never leave the word.
LEMMA OverlayIsNumber ==
    ASSUME NEW old \in Number, NEW v \in Number
    PROVE  Overlay(old, v) \in Number
<1>. DEFINE w == ByteWidth(v)
            q == SeqSpan \div w
            h == old \div w
<1>1. /\ w \in Nat \ {0} /\ v < w /\ v \in Nat /\ old \in Nat
      /\ SeqSpan \in Nat \ {0} /\ SeqSpan % w = 0 /\ old < SeqSpan
    <2>1. w \in Widths /\ v < w
        BY ByteWidthFits
    <2>2. SeqSpan \in Nat \ {0} /\ v \in Nat /\ old \in Nat /\ old < SeqSpan
        BY WidthAssumption DEF Number
    <2>3. w \in Nat \ {0} /\ SeqSpan % w = 0
        BY <2>1, WidthAssumption
    <2>. QED
        BY <2>1, <2>2, <2>3
<1>2. q \in Nat /\ h \in Nat
    BY <1>1
<1>3. SeqSpan = w * q
    BY <1>1
<1>4. w * h <= old
    BY <1>1
<1>. HIDE DEF w, q, h
<1>5. w * h < w * q
    BY <1>1, <1>2, <1>3, <1>4
<1>6. h < q
    BY <1>1, <1>2, <1>5
<1>7. h + 1 <= q
    BY <1>2, <1>6
<1>8. w * (h + 1) <= w * q
    BY <1>1, <1>2, <1>7
<1>9. w * h + v < SeqSpan /\ w * h + v \in Nat
    BY <1>1, <1>2, <1>3, <1>8
<1>. QED
    BY <1>1, <1>2, <1>9 DEF Overlay, Number, w, h

-----------------------------------------------------------------------------
(***************************************************************************)
(* Sequence numbers are drawn in order, whichever threads draw them.       *)
(***************************************************************************)
\* Division with remainder, with the divisor a variable.
LEMMA RemainderIsUnique ==
    ASSUME NEW S \in Nat \ {0}, NEW q \in Int, NEW x \in 0..S-1,
           NEW p \in Int, NEW y \in 0..S-1, S * q + x = S * p + y
    PROVE  x = y
<1>1. S * (q - p) = y - x
    OBVIOUS
<1>2. q - p <= -1 => S * (q - p) <= -S
    OBVIOUS
<1>3. q - p >= 1 => S * (q - p) >= S
    OBVIOUS
<1>. QED
    BY <1>1, <1>2, <1>3

LEMMA RemainderOf ==
    ASSUME NEW S \in Nat \ {0}, NEW q \in Int, NEW x \in 0..S-1
    PROVE  (S * q + x) % S = x
<1>. DEFINE n == S * q + x
<1>1. n \in Int /\ n \div S \in Int /\ n % S \in 0..S-1
    OBVIOUS
<1>2. n = S * (n \div S) + (n % S)
    BY <1>1
<1>. QED
    BY <1>1, <1>2, RemainderIsUnique

\* What may be left of v may still be after one more decoding.
LEMMA StillReadAs ==
    ASSUME NEW v \in Number, NEW r \in Number, NEW old \in Number, ReadAs(v, r)
    PROVE  ReadAs(v, Overlay(old, r))
<1>. DEFINE w == ByteWidth(v)
            W == ByteWidth(r)
            h == old \div W
            q == W \div w
<1>1. /\ w \in Nat \ {0} /\ W \in Nat \ {0} /\ r < W /\ v \in Nat /\ r \in Nat /\ old \in Nat
      /\ v < w /\ w \in Widths /\ W \in Widths
    <2>1. w \in Widths /\ v < w /\ W \in Widths /\ r < W
        BY ByteWidthFits
    <2>2. v \in Nat /\ r \in Nat /\ old \in Nat
        BY WidthAssumption DEF Number
    <2>3. w \in Nat \ {0} /\ W \in Nat \ {0}
        BY <2>1, WidthAssumption
    <2>. QED
        BY <2>1, <2>2, <2>3
<1>2. r % w = v
    BY DEF ReadAs
<1>3. w <= W
    <2>1. v <= r
        BY <1>1, <1>2
    <2>2. W \in FitsIn(v)
        BY <1>1, <2>1 DEF FitsIn
    <2>3. FitsIn(v) \in SUBSET Nat
        BY WidthAssumption DEF FitsIn
    <2>4. \E x \in FitsIn(v) : \A y \in FitsIn(v) : x <= y
        BY <2>2, <2>3, LeastNumber
    <2>5. \A y \in FitsIn(v) : w <= y
        BY <2>4 DEF ByteWidth
    <2>. QED
        BY <2>2, <2>5
<1>4. W % w = 0
    BY <1>1, <1>3, BoundaryAssumption
<1>5. h \in Nat /\ q \in Nat /\ r \div w \in Nat
    BY <1>1
<1>6. W = w * q
    BY <1>1, <1>4
<1>. DEFINE k == r \div w
<1>. HIDE DEF w, W, h, q
<1>7. r = w * (r \div w) + v
    BY <1>1, <1>2
<1>. HIDE DEF k
<1>8. h * W + r = w * (h * q + k) + v
    <2>1. h * W = w * (h * q)
        BY <1>1, <1>5, <1>6
    <2>2. h * q \in Nat /\ k \in Nat
        BY <1>5 DEF k
    <2>3. w * (h * q + k) = w * (h * q) + w * k
        BY <1>1, <2>2
    <2>4. w * (h * q) \in Nat /\ w * k \in Nat
        BY <1>1, <2>2
    <2>. QED
        BY <1>1, <1>7, <2>1, <2>3, <2>4 DEF k
<1>9. h * q + k \in Nat
    BY <1>5 DEF k
<1>10. (h * W + r) % w = v
    BY <1>1, <1>8, <1>9, RemainderOf
<1>. QED
    BY <1>10 DEF ReadAs, Overlay, w, W, h

LEMMA ReadAsItself ==
    ASSUME NEW v \in Number
    PROVE  ReadAs(v, v)
<1>1. v < ByteWidth(v) /\ ByteWidth(v) \in Nat \ {0} /\ v \in Nat
    <2>1. v < ByteWidth(v) /\ ByteWidth(v) \in Widths
        BY ByteWidthFits
    <2>2. v \in Nat
        BY WidthAssumption DEF Number
    <2>. QED
        BY <2>1, <2>2, WidthAssumption
<1>. QED
    BY <1>1 DEF ReadAs

\* The custodian and the message of a bundle are read as they are; its number
\* may still be that of its message.
LEMMA DecodedBundle ==
    ASSUME NEW n \in Node, NEW r \in Bundle, NEW b \in Decoded(n, r)
    PROVE  /\ b \in Bundle /\ b.cust = r.cust /\ b.msg = r.msg
           /\ Matches(r.msg, KeyOf(r)) => Matches(b.msg, KeyOf(b))
<1>1. PICK old \in StaleWords[n] : b = [r EXCEPT !.seq = Overlay(old, @)]
    BY DEF Decoded
<1>2. old \in Number /\ r.seq \in Number /\ r.msg \in Message
    BY MemoryAssumption DEF Bundle
<1>3. b \in Bundle /\ b.cust = r.cust /\ b.msg = r.msg /\ b.seq = Overlay(old, r.seq)
    BY <1>1, <1>2, OverlayIsNumber DEF Bundle
<1>4. r.msg.seq \in Number
    BY <1>2 DEF Message
<1>5. ReadAs(r.msg.seq, r.seq) => ReadAs(r.msg.seq, b.seq)
    BY <1>2, <1>3, <1>4, StillReadAs
<1>. QED
    BY <1>3, <1>5 DEF Matches, KeyOf

LEMMA DecodedKey ==
    ASSUME NEW n \in Node, NEW r \in Key, NEW k \in Decoded(n, r)
    PROVE  /\ k \in Key
           /\ \A x \in Message : Matches(x, r) => Matches(x, k)
<1>1. PICK old \in StaleWords[n] : k = [r EXCEPT !.seq = Overlay(old, @)]
    BY DEF Decoded
<1>2. old \in Number /\ r.seq \in Number
    BY MemoryAssumption DEF Key
<1>3. k \in Key /\ k.time = r.time /\ k.seq = Overlay(old, r.seq)
    BY <1>1, <1>2, OverlayIsNumber DEF Key
<1>4. \A x \in Message : ReadAs(x.seq, r.seq) => ReadAs(x.seq, k.seq)
    BY <1>2, <1>3, StillReadAs DEF Message
<1>. QED
    BY <1>3, <1>4 DEF Matches

LEMMA KeyTypes ==
    ASSUME NEW b \in Bundle
    PROVE  KeyOf(b) \in Key
    BY DEF Bundle, Message, Key, KeyOf

-----------------------------------------------------------------------------
LEMMA WithoutIsSmaller ==
    ASSUME NEW M, NEW m, NEW S \in Without(M, m)
    PROVE  S \subseteq M
    BY DEF Without

LEMMA DispatchTypes ==
    ASSUME TypeOK, NEW n \in Node, NEW X \in SUBSET Message, Dispatch(n, X)
    PROVE  /\ got' \in [Socket -> SUBSET Message]
           /\ again' \subseteq Message
           /\ handed' = handed \cup {x \in X : IsOpen(n, x.dst)}
<1>. DEFINE For(s) == {x \in X : IsOpen(n, x.dst) /\ s = BoundTo(n, x.dst)}
<1>1. /\ got' = [s \in Socket |-> got[s] \cup For(s)]
      /\ again' = again \cup UNION {For(s) \cap got[s] : s \in Socket}
      /\ handed' = handed \cup {x \in X : IsOpen(n, x.dst)}
    BY DEF Dispatch
<1>2. \A s \in Socket : For(s) \subseteq Message
    OBVIOUS
<1>. HIDE DEF For
<1>. QED
    BY <1>1, <1>2 DEF TypeOK

\* What taking a bundle in changes: it is in the filter then, and new to it it
\* is stored, handed over or missed.
LEMMA InsertCustodyEffect ==
    ASSUME TypeOK, NEW n \in Node, NEW b \in Bundle, InsertCustody(n, b)
    PROVE  /\ got' \in [Socket -> SUBSET Message]
           /\ again' \subseteq Message
           /\ replicas' \in [Node -> SUBSET Bundle]
           /\ list' \in [Node -> SUBSET Bundle]
           /\ \A o \in Node : replicas'[o] \subseteq replicas[o] \cup {b}
           /\ \/ handed' = handed \cup {b.msg} /\ UNCHANGED <<list, missed>>
              \/ missed' = missed \cup {b.msg} /\ UNCHANGED <<list, handed>>
              \/ list' = [list EXCEPT ![n] = @ \cup {b}] /\ UNCHANGED <<handed, missed>>
              \/ ~Fresh(n, b) /\ UNCHANGED <<list, handed, missed>>
<1>1. b.msg \in Message /\ {b.msg} \in SUBSET Message /\ {} \in SUBSET Message
    BY DEF Bundle
<1>2. /\ replicas \in [Node -> SUBSET Bundle] /\ list \in [Node -> SUBSET Bundle]
      /\ [replicas EXCEPT ![n] = @ \cup {b}] \in [Node -> SUBSET Bundle]
      /\ [list EXCEPT ![n] = @ \cup {b}] \in [Node -> SUBSET Bundle]
    BY DEF TypeOK
<1>3. ASSUME Dispatch(n, {})
      PROVE  /\ got' \in [Socket -> SUBSET Message]
             /\ again' \subseteq Message
             /\ handed' = handed
    BY <1>1, <1>3, DispatchTypes
<1>4. CASE Fresh(n, b)
    <2>1. replicas' = [replicas EXCEPT ![n] = @ \cup {b}] /\ Keep(n, b)
        BY <1>4 DEF InsertCustody
    <2>2. CASE IsLocal(n, b.msg.dst)
        <3>1. /\ Dispatch(n, {b.msg}) /\ list' = list
              /\ missed' = IF IsOpen(n, b.msg.dst) THEN missed ELSE missed \cup {b.msg}
            BY <2>1, <2>2 DEF Keep, HandOver
        <3>2. /\ got' \in [Socket -> SUBSET Message]
              /\ again' \subseteq Message
              /\ handed' = handed \cup {x \in {b.msg} : IsOpen(n, x.dst)}
            BY <1>1, <3>1, DispatchTypes
        <3>3. CASE IsOpen(n, b.msg.dst)
            <4>1. handed' = handed \cup {b.msg} /\ missed' = missed
                BY <3>1, <3>2, <3>3
            <4>. QED
                BY <1>2, <2>1, <3>1, <3>2, <4>1
        <3>4. CASE ~IsOpen(n, b.msg.dst)
            <4>1. handed' = handed /\ missed' = missed \cup {b.msg}
                BY <3>1, <3>2, <3>4
            <4>. QED
                BY <1>2, <2>1, <3>1, <3>2, <4>1
        <3>. QED
            BY <3>3, <3>4
    <2>3. CASE ~IsLocal(n, b.msg.dst)
        <3>1. /\ Dispatch(n, {}) /\ list' = [list EXCEPT ![n] = @ \cup {b}]
              /\ missed' = missed
            BY <2>1, <2>3 DEF Keep
        <3>. QED
            BY <1>2, <1>3, <2>1, <3>1
    <2>. QED
        BY <2>2, <2>3
<1>5. CASE ~Fresh(n, b)
    <2>1. Dispatch(n, {}) /\ UNCHANGED <<list, replicas, missed>>
        BY <1>5 DEF InsertCustody
    <2>. QED
        BY <1>2, <1>3, <1>5, <2>1
<1>. QED
    BY <1>4, <1>5

LEMMA SentTypes ==
    ASSUME NEW n \in Node, NEW c \in Node, NEW k \in Key
    PROVE  \A m \in Sent(n, c, k) : m \in Signal /\ m.cust = c /\ m.named = k
    BY RouteAssumption DEF Sent, Signal

LEMMA StoredTypes ==
    ASSUME NEW n \in Node, NEW b \in Bundle
    PROVE  /\ Stored(n, b) \in Bundle /\ Stored(n, b).cust = n
           /\ Stored(n, b).msg = b.msg /\ Stored(n, b).seq = b.seq
    BY DEF Stored, Bundle

LEMMA ForwardedTypes ==
    ASSUME NEW n \in Node, NEW B \in SUBSET Bundle, NEW m \in Forwarded(n, B)
    PROVE  /\ m \in Arrival
           /\ m.to = Route[n][m.bundle.msg.dst] /\ m.bundle.cust = n
           /\ \E b \in B : m.bundle = Stored(n, b)
<1>1. PICK b \in B : /\ Route[n][b.msg.dst] # Nowhere
                     /\ m = [to |-> Route[n][b.msg.dst], bundle |-> Stored(n, b)]
    BY DEF Forwarded
<1>2. b \in Bundle /\ b.msg \in Message /\ b.msg.dst \in AppEid
    BY DEF Bundle, Message
<1>3. Stored(n, b) \in Bundle /\ Stored(n, b).cust = n /\ Stored(n, b).msg = b.msg
    BY <1>2, StoredTypes
<1>4. Route[n][b.msg.dst] \in Node
    BY <1>1, <1>2, RouteAssumption
<1>. QED
    BY <1>1, <1>3, <1>4 DEF Arrival

LEMMA NextSeqNumber == \A c \in Number : (c + 1) % SeqSpan \in Number
    BY WidthAssumption DEF Number

-----------------------------------------------------------------------------
(***************************************************************************)
(* Types.                                                                  *)
(***************************************************************************)
LEMMA ComposedTypes ==
    ASSUME TypeOK, NEW s \in Socket, NEW e \in Targets[s], NEW text \in Text
    PROVE  Composed(s, e, text) \in Message
<1>1. Home[s] \in Node /\ Names[s] \in AppEid /\ e \in AppEid
    BY ApplicationAssumption
<1>. QED
    BY <1>1 DEF Composed, Message, TypeOK

LEMMA TypesInit == Init => TypeOK
<1>. SUFFICES ASSUME Init PROVE TypeOK
    OBVIOUS
<1>1. 0 \in 0..MaxTime /\ 0 \in 0..MaxSends /\ 0 \in 0..MaxCrashes
    BY BoundAssumption
<1>2. 0 \in Number
    BY WidthAssumption DEF Number
<1>. QED
    BY <1>1, <1>2 DEF Init, TypeOK

LEMMA TypesStep == TypeOK /\ [Next]_vars => TypeOK'
<1>. SUFFICES ASSUME TypeOK, [Next]_vars PROVE TypeOK'
    OBVIOUS
<1>1. ASSUME NEW s \in Socket, bp_bind(s) PROVE TypeOK'
    <2>1. Home[s] \in Node
        BY ApplicationAssumption
    <2>2. binds' \in [Node -> Seq(Socket)]
        BY <1>1, <2>1 DEF bp_bind, TypeOK
    <2>3. sock' \in [Socket -> {"new", "open", "unlinked", "closed"}]
        BY <1>1 DEF bp_bind, TypeOK
    <2>. QED
        BY <1>1, <2>2, <2>3 DEF bp_bind, TypeOK
<1>2. ASSUME NEW s \in Socket, bp_close(s) PROVE TypeOK'
    BY <1>2 DEF bp_close, TypeOK
<1>3. ASSUME NEW n \in Node, Die(n),
             tally' \in [sends : 0..MaxSends, crashes : 0..MaxCrashes]
      PROVE  TypeOK'
    <2>1. Held(n) \subseteq Message
        BY DEF TypeOK, Held, Bundle
    <2>3. binds' \in [Node -> Seq(Socket)]
        BY <1>3 DEF Die, TypeOK
    <2>4. /\ list' \in [Node -> SUBSET Bundle] /\ replicas' \in [Node -> SUBSET Bundle]
          /\ counter' \in [Node -> Number]
        <3>1. 0 \in Number
            BY WidthAssumption DEF Number
        <3>. QED
            BY <1>3, <3>1 DEF Die, TypeOK
    <2>5. up' \subseteq Node /\ atRisk' \subseteq Message
        BY <1>3, <2>1 DEF Die, TypeOK
    <2>. QED
        BY <1>3, <2>3, <2>4, <2>5 DEF Die, TypeOK
<1>13. ASSUME NEW n \in Node, Crash(n) PROVE TypeOK'
    <2>1. tally.sends \in 0..MaxSends /\ tally.crashes \in 0..MaxCrashes
        BY DEF TypeOK
    <2>2. tally.crashes + 1 \in 0..MaxCrashes
        BY <1>13, <2>1, BoundAssumption DEF Crash
    <2>3. tally' \in [sends : 0..MaxSends, crashes : 0..MaxCrashes]
        BY <1>13, <2>1, <2>2 DEF Crash, TypeOK
    <2>. QED
        BY <1>3, <1>13, <2>3 DEF Crash
<1>4. ASSUME NEW s \in Socket, SendUnbound(s) PROVE TypeOK'
    BY <1>3, <1>4, ApplicationAssumption DEF SendUnbound, TypeOK
<1>5. ASSUME NEW s \in Socket, NEW e \in Targets[s], NEW text \in Text,
             bp_sendto(s, e, text)
      PROVE  TypeOK'
    <2>. DEFINE n == Home[s]
                x == Composed(s, e, text)
                b == [cust |-> n, seq |-> x.seq, msg |-> x]
    <2>1. n \in Node /\ x \in Message
        BY ComposedTypes, ApplicationAssumption
    <2>2. b \in Bundle
        BY <2>1 DEF Bundle, Message
    <2>3. /\ Accept(s, x)
          /\ tally' = [tally EXCEPT !.sends = @ + 1] /\ tally.sends < MaxSends
        BY <1>5 DEF bp_sendto
    <2>. HIDE DEF x
    <2>4. /\ InsertCustody(n, b)
          /\ counter' = [counter EXCEPT ![n] = (@ + 1) % SeqSpan]
          /\ accepted' = accepted \cup {x}
          /\ atRisk' = IF Clashes(x) = {} THEN atRisk ELSE atRisk \cup Clashes(x) \cup {x}
          /\ UNCHANGED <<sock, netVars, now, up, binds, misread>>
        BY <2>3 DEF Accept
    <2>5. /\ got' \in [Socket -> SUBSET Message] /\ again' \subseteq Message
          /\ replicas' \in [Node -> SUBSET Bundle] /\ list' \in [Node -> SUBSET Bundle]
          /\ handed' \subseteq Message /\ missed' \subseteq Message
        <3>1. b.msg = x /\ handed \subseteq Message /\ missed \subseteq Message
            BY DEF TypeOK
        <3>. HIDE DEF b, n
        <3>. QED
            BY <2>1, <2>2, <2>4, <3>1, InsertCustodyEffect
    <2>6. counter' \in [Node -> Number]
        BY <2>1, <2>4, NextSeqNumber DEF TypeOK
    <2>7. tally' \in [sends : 0..MaxSends, crashes : 0..MaxCrashes]
        <3>1. /\ tally \in [sends : 0..MaxSends, crashes : 0..MaxCrashes]
              /\ MaxSends \in Nat
            BY BoundAssumption DEF TypeOK
        <3>2. tally.sends + 1 \in 0..MaxSends
            BY <2>3, <3>1
        <3>. QED
            BY <2>3, <3>1, <3>2
    <2>8. accepted' \subseteq Message /\ atRisk' \subseteq Message
        BY <2>1, <2>4 DEF TypeOK, Clashes
    <2>. QED
        BY <2>4, <2>5, <2>6, <2>7, <2>8 DEF TypeOK
<1>6. ASSUME NEW m \in wire, ReceiveBundle(m) PROVE TypeOK'
    <2>. DEFINE n == m.to
    <2>1. n \in Node /\ m.bundle \in Bundle
        BY DEF TypeOK, Arrival
    <2>2. PICK b \in Decoded(n, m.bundle) : TakeIn(n, b) /\ Reading(m.bundle, b, {b.msg})
        BY <1>6 DEF ReceiveBundle
    <2>3. b \in Bundle /\ b.cust \in Node /\ b.msg \in Message /\ KeyOf(b) \in Key
        <3>1. b \in Bundle
            BY <2>1, DecodedBundle
        <3>. QED
            BY <3>1, KeyTypes DEF Bundle
    <2>4. wire' \subseteq Arrival
        BY <1>6, WithoutIsSmaller DEF ReceiveBundle, TypeOK
    <2>5. signals' \subseteq Signal /\ counter' \in [Node -> Number]
        <3>1. CASE MustSignal(n, b)
            <4>1. signals' = signals \cup Sent(n, b.cust, KeyOf(b))
                BY <2>2, <3>1 DEF TakeIn
            <4>2. counter' = [counter EXCEPT ![n] = (@ + 1) % SeqSpan]
                BY <2>2, <3>1 DEF TakeIn
            <4>. QED
                BY <2>1, <2>3, <4>1, <4>2, SentTypes, NextSeqNumber DEF TypeOK
        <3>2. CASE ~MustSignal(n, b)
            BY <2>2, <3>2 DEF TakeIn, TypeOK
        <3>. QED
            BY <3>1, <3>2
    <2>6. InsertCustody(n, b) /\ UNCHANGED <<sock, now, up, binds, tally, accepted, atRisk>>
        BY <1>6, <2>2 DEF ReceiveBundle, TakeIn
    <2>7. misread' \subseteq Message
        BY <2>2, <2>3 DEF Reading, TypeOK
    <2>8. /\ got' \in [Socket -> SUBSET Message] /\ again' \subseteq Message
          /\ replicas' \in [Node -> SUBSET Bundle] /\ list' \in [Node -> SUBSET Bundle]
          /\ handed' \subseteq Message /\ missed' \subseteq Message
        <3>1. handed \subseteq Message /\ missed \subseteq Message
            BY DEF TypeOK
        <3>. HIDE DEF n
        <3>. QED
            BY <2>1, <2>3, <2>6, <3>1, InsertCustodyEffect
    <2>. QED
        BY <2>4, <2>5, <2>6, <2>7, <2>8 DEF TypeOK
<1>7. ASSUME NEW m \in signals, ReceiveSignal(m) PROVE TypeOK'
    <2>1. m.to \in Node /\ m.cust \in Node /\ m.named \in Key
        BY DEF TypeOK, Signal
    <2>2. signals' \subseteq Signal
        <3>1. CASE Release(m)
            BY <3>1, WithoutIsSmaller DEF Release, TypeOK
        <3>2. CASE PassOn(m)
            <4>1. PICK S \in Without(signals, m) :
                        signals' = S \cup Sent(m.to, m.cust, m.named)
                BY <3>2 DEF PassOn
            <4>. QED
                BY <2>1, <4>1, WithoutIsSmaller, SentTypes DEF TypeOK
        <3>. QED
            BY <1>7, <3>1, <3>2 DEF ReceiveSignal
    <2>3. list' \in [Node -> SUBSET Bundle]
        <3>1. list \in [Node -> SUBSET Bundle]
            BY DEF TypeOK
        <3>2. \/ list' = list
              \/ \E b : list' = [list EXCEPT ![m.to] = @ \ {b}]
            BY <1>7 DEF ReceiveSignal, Release, Delete, PassOn
        <3>. QED
            BY <3>1, <3>2
    <2>4. misread' \subseteq Message
        BY <1>7 DEF ReceiveSignal, Release, Reading, PassOn, TypeOK
    <2>. QED
        BY <1>7, <2>2, <2>3, <2>4 DEF ReceiveSignal, TypeOK
<1>8. ASSUME NEW n \in Node, Scan(n) PROVE TypeOK'
    <2>. DEFINE there == {b \in list[n] : IsLocal(n, b.msg.dst)}
                X == {b.msg : b \in there}
    <2>1. /\ Dispatch(n, X) /\ wire' = wire \cup Forwarded(n, list[n] \ there)
          /\ UNCHANGED <<sock, signals, now, daemonVars, tally, accepted, missed, misread, atRisk>>
        BY <1>8 DEF Scan
    <2>2. list[n] \subseteq Bundle /\ X \in SUBSET Message
        BY DEF TypeOK, Bundle
    <2>3. list[n] \ there \in SUBSET Bundle
        BY <2>2
    <2>. HIDE DEF there, X
    <2>4. /\ got' \in [Socket -> SUBSET Message] /\ again' \subseteq Message
          /\ handed' \subseteq Message
        BY <2>1, <2>2, DispatchTypes DEF TypeOK
    <2>5. wire' \subseteq Arrival
        BY <2>1, <2>3, ForwardedTypes DEF TypeOK
    <2>. QED
        BY <2>1, <2>4, <2>5 DEF TypeOK
<1>9. ASSUME NEW n \in Node, Restart(n) PROVE TypeOK'
    BY <1>9 DEF Restart, TypeOK
<1>10. CASE Lose
    BY <1>10 DEF Lose, TypeOK
<1>11. CASE Tick
    BY <1>11, BoundAssumption DEF Tick, TypeOK
<1>12. CASE UNCHANGED vars
    BY <1>12 DEF vars, TypeOK
<1>. QED
    BY <1>1, <1>2, <1>4, <1>5, <1>6, <1>7, <1>8, <1>9, <1>10, <1>11, <1>12, <1>13
    DEF Next, Application

\* Every variable of every daemon keeps its type.
THEOREM NetTypes == Spec => []TypeOK
    BY TypesInit, TypesStep, PTL DEF Spec

-----------------------------------------------------------------------------
(***************************************************************************)
(* Custody.  A signal that is on its way stays true because what it says   *)
(* is kept "nearer to the destination": when that custodian is released in *)
(* turn, by a signal that is true as well, there is one nearer still.      *)
(***************************************************************************)
Copies == NothingInvented /\ NumbersMatch /\ OwnNumbers /\ OnTheWay

Promise == Copies /\ ClashesAtRisk /\ CustodyKept /\ SignalsAreTrue

NetInv == TypeOK /\ Promise

LEMMA HopsAreNumbers == \A e \in AppEid, n \in Node : Hops[e][n] \in Nat
    BY LoopFreeAssumption

LEMMA PromiseInit == Init => Promise
    BY DEF Init, Promise, Copies, NothingInvented, NumbersMatch, OwnNumbers, OnTheWay,
           ClashesAtRisk, CustodyKept, SignalsAreTrue

\* A bundle on the wire is a copy of one that its custodian has, and on its way
\* to the next hop.
OnItsWay(m) ==
    /\ m.bundle.msg \in accepted
    /\ m.to = Route[m.bundle.cust][m.bundle.msg.dst]
    /\ Matches(m.bundle.msg, KeyOf(m.bundle))

\* Steps of which the lists and the filters notice nothing.
LEMMA QuietStep ==
    ASSUME NetInv, UNCHANGED <<list, replicas, accepted, atRisk>>, handed \subseteq handed',
           missed \subseteq missed', signals' \subseteq signals,
           \A m \in wire' : m \in wire \/ OnItsWay(m)
    PROVE  Promise'
<1>1. \A n : Held(n)' = Held(n)
    BY DEF Held
<1>2. \A x, c : Safe(x, c) => Safe(x, c)'
    BY <1>1 DEF Safe
<1>3. CustodyKept' /\ SignalsAreTrue'
    BY <1>1, <1>2 DEF NetInv, Promise, CustodyKept, SignalsAreTrue
<1>4. Copies'
    BY DEF NetInv, Promise, Copies, NothingInvented, NumbersMatch, OwnNumbers, OnTheWay, OnItsWay
<1>5. ClashesAtRisk'
    BY DEF NetInv, Promise, ClashesAtRisk
<1>. QED
    BY <1>3, <1>4, <1>5 DEF Promise

LEMMA CrashPromise ==
    ASSUME NetInv, NEW n \in Node, Die(n)
    PROVE  Promise'
<1>1. /\ list' = [list EXCEPT ![n] = {}] /\ replicas' = [replicas EXCEPT ![n] = {}]
      /\ atRisk' = atRisk \cup Held(n)
      /\ UNCHANGED <<wire, signals, accepted, handed, missed>>
    BY DEF Die
<1>2. \A o \in Node : \A x \in Held(o) : x \in Held(o)' \/ x \in atRisk'
    BY <1>1 DEF Held, NetInv, TypeOK
<1>3. \A x, c : Safe(x, c) => Safe(x, c)'
    BY <1>1, <1>2 DEF Safe
<1>4. CustodyKept' /\ SignalsAreTrue'
    BY <1>1, <1>2, <1>3 DEF NetInv, Promise, CustodyKept, SignalsAreTrue
<1>5. \A o \in Node : list'[o] \subseteq list[o] /\ replicas'[o] \subseteq replicas[o]
    BY <1>1 DEF NetInv, TypeOK
<1>6. Copies'
    BY <1>1, <1>5 DEF NetInv, Promise, Copies, NothingInvented, NumbersMatch, OwnNumbers, OnTheWay
<1>7. ClashesAtRisk'
    BY <1>1 DEF NetInv, Promise, ClashesAtRisk
<1>. QED
    BY <1>4, <1>6, <1>7 DEF Promise

\* What taking in a bundle does for the message it carries.
LEMMA TakenIn ==
    ASSUME TypeOK, NEW n \in Node, NEW b \in Bundle, InsertCustody(n, b)
    PROVE  /\ \A o \in Node : Held(o) \subseteq Held(o)' /\ Held(o)' \subseteq Held(o) \cup {b.msg}
           /\ handed \subseteq handed' /\ missed \subseteq missed'
           /\ Fresh(n, b) => b.msg \in handed' \cup missed' \/ b.msg \in Held(n)'
           /\ \A o \in Node : \A d \in list'[o] \cup replicas'[o] :
                 d \in list[o] \cup replicas[o] \/ d = b
           /\ \A o \in Node : \A d \in replicas'[o] : d \in replicas[o] \/ (o = n /\ d = b)
<1>1. /\ \A o \in Node : replicas'[o] \subseteq replicas[o] \cup {b}
      /\ \/ handed' = handed \cup {b.msg} /\ UNCHANGED <<list, missed>>
         \/ missed' = missed \cup {b.msg} /\ UNCHANGED <<list, handed>>
         \/ list' = [list EXCEPT ![n] = @ \cup {b}] /\ UNCHANGED <<handed, missed>>
         \/ ~Fresh(n, b) /\ UNCHANGED <<list, handed, missed>>
    BY InsertCustodyEffect
<1>2. list \in [Node -> SUBSET Bundle] /\ replicas \in [Node -> SUBSET Bundle]
    BY DEF TypeOK
<1>3. \A o \in Node : \A d \in replicas'[o] : d \in replicas[o] \/ (o = n /\ d = b)
    BY <1>2 DEF InsertCustody
<1>. QED
    BY <1>1, <1>2, <1>3 DEF Held

\* Two messages that one key may stand for are one, or share a key.
LEMMA SameOrAtRisk ==
    ASSUME NetInv, NEW x \in accepted, NEW y \in accepted, NEW k \in Key,
           Matches(x, k), Matches(y, k)
    PROVE  x = y \/ {x, y} \subseteq atRisk
    BY DEF NetInv, Promise, ClashesAtRisk, Confusable

\* The bundle of an application is a replica only of one that this daemon has
\* accepted, with the same message.
LEMMA OwnCopy ==
    ASSUME NetInv, NEW n \in Node, NEW x \in Message,
           ~Fresh(n, [cust |-> n, seq |-> x.seq, msg |-> x])
    PROVE  x \in accepted /\ \E d \in replicas[n] : d.msg = x
<1>. DEFINE b == [cust |-> n, seq |-> x.seq, msg |-> x]
<1>1. PICK d \in replicas[n] : AsRead(b) = AsRead(d)
    BY DEF Fresh
<1>2. d \in Bundle /\ b \in Bundle
    BY DEF NetInv, TypeOK, Bundle, Message
<1>3. AsRead(b) = [b EXCEPT !.msg = [x EXCEPT !.seq = x.seq]]
    BY DEF AsRead
<1>4. AsRead(d) = [d EXCEPT !.msg = [d.msg EXCEPT !.seq = d.seq]]
    BY <1>2 DEF AsRead, Bundle
<1>5. d.cust = n
    BY <1>1, <1>2, <1>3, <1>4 DEF Bundle
<1>6. d.seq = d.msg.seq /\ d.msg \in accepted
    BY <1>5 DEF NetInv, Promise, Copies, OwnNumbers, NothingInvented
<1>7. [x EXCEPT !.seq = x.seq] = x /\ [d.msg EXCEPT !.seq = d.seq] = d.msg
    BY <1>2, <1>6 DEF Bundle, Message
<1>8. d.msg = x
    <2>1. AsRead(b) = b /\ AsRead(d) = [d EXCEPT !.msg = d.msg]
        BY <1>3, <1>4, <1>7
    <2>2. AsRead(d).msg = d.msg
        BY <1>2, <2>1 DEF Bundle
    <2>. QED
        BY <1>1, <2>1, <2>2
<1>. QED
    BY <1>6, <1>8

LEMMA AcceptPromise ==
    ASSUME NetInv, NEW s \in Socket, NEW x \in Message, Accept(s, x)
    PROVE  Promise'
<1>. DEFINE n == Home[s]
            b == [cust |-> n, seq |-> x.seq, msg |-> x]
<1>1. n \in Node /\ b \in Bundle /\ b.msg = x /\ TypeOK /\ KeyOf(b) \in Key
    <2>1. n \in Node /\ b \in Bundle /\ TypeOK
        BY ApplicationAssumption DEF Bundle, Message, NetInv
    <2>. QED
        BY <2>1, KeyTypes
<1>2. /\ InsertCustody(n, b)
      /\ accepted' = accepted \cup {x}
      /\ atRisk' = IF Clashes(x) = {} THEN atRisk ELSE atRisk \cup Clashes(x) \cup {x}
      /\ UNCHANGED <<wire, signals>>
    BY DEF Accept
<1>3. Fresh(n, b) \/ x \in accepted
    BY <1>1, OwnCopy
<1>4. Matches(b.msg, KeyOf(b)) /\ b.seq = b.msg.seq
    BY ReadAsItself DEF Matches, KeyOf, Message
<1>. HIDE DEF b, n
<1>5. /\ \A o \in Node : Held(o) \subseteq Held(o)'
      /\ handed \subseteq handed' /\ missed \subseteq missed' /\ atRisk \subseteq atRisk'
      /\ Fresh(n, b) => x \in handed' \cup missed' \/ x \in Held(n)'
      /\ \A o \in Node : \A d \in list'[o] \cup replicas'[o] :
            d \in list[o] \cup replicas[o] \/ d = b
      /\ \A o \in Node : \A d \in replicas'[o] : d \in replicas[o] \/ d = b
    BY <1>1, <1>2, TakenIn
<1>6. \A y, c : Safe(y, c) => Safe(y, c)'
    BY <1>5 DEF Safe
<1>7. Copies'
    BY <1>1, <1>2, <1>4, <1>5
    DEF NetInv, Promise, Copies, NothingInvented, NumbersMatch, OwnNumbers, OnTheWay
<1>8. ClashesAtRisk'
    <2>1. SUFFICES ASSUME NEW y \in accepted', NEW z \in accepted', y # z, Confusable(y, z)
                   PROVE  {y, z} \subseteq atRisk'
        BY DEF ClashesAtRisk
    <2>2. Confusable(z, y)
        BY <2>1 DEF Confusable
    <2>3. CASE y = x
        <3>1. z \in Clashes(x)
            BY <1>2, <2>1, <2>3 DEF Clashes
        <3>. QED
            BY <1>2, <2>3, <3>1
    <2>4. CASE z = x
        <3>1. y \in Clashes(x)
            BY <1>2, <2>1, <2>2, <2>4 DEF Clashes
        <3>. QED
            BY <1>2, <2>4, <3>1
    <2>5. CASE y # x /\ z # x
        BY <1>2, <1>5, <2>1, <2>5 DEF NetInv, Promise, ClashesAtRisk
    <2>. QED
        BY <2>3, <2>4, <2>5
<1>9. CustodyKept'
    BY <1>1, <1>2, <1>3, <1>5 DEF NetInv, Promise, CustodyKept
<1>10. SignalsAreTrue'
    <2>1. SUFFICES ASSUME NEW m \in signals, NEW y \in accepted', Matches(y, m.named)
                   PROVE  Safe(y, m.cust)'
        BY <1>2 DEF SignalsAreTrue
    <2>2. CASE y \in accepted
        BY <1>6, <2>1, <2>2 DEF NetInv, Promise, SignalsAreTrue
    <2>3. CASE y \notin accepted
        <3>1. y = x
            BY <1>2, <2>3
        <3>2. PICK z \in accepted : Matches(z, m.named)
            BY DEF NetInv, Promise, Copies, NothingInvented
        <3>3. m.named \in Key
            BY <1>1 DEF TypeOK, Signal
        <3>4. z \in Clashes(x)
            BY <2>1, <2>3, <3>1, <3>2, <3>3 DEF Clashes, Confusable
        <3>. QED
            BY <1>2, <3>1, <3>4 DEF Safe
    <2>. QED
        BY <2>2, <2>3
<1>. QED
    BY <1>7, <1>8, <1>9, <1>10 DEF Promise

\* A bundle that is received, as decoded: it comes from another node, one hop
\* further from its destination.
LEMMA Received ==
    ASSUME NetInv, NEW m \in wire, NEW b \in Decoded(m.to, m.bundle)
    PROVE  /\ m.to \in Node /\ m.bundle \in Bundle /\ b \in Bundle
           /\ b.cust \in Node /\ b.cust = m.bundle.cust
           /\ b.msg \in Message /\ b.msg \in accepted /\ b.msg = m.bundle.msg
           /\ b.msg.dst \in AppEid /\ KeyOf(b) \in Key /\ Matches(b.msg, KeyOf(b))
           /\ m.to = Route[b.cust][b.msg.dst] /\ m.to # b.cust
           /\ Hops[b.msg.dst][m.to] < Hops[b.msg.dst][b.cust]
<1>1. /\ m.to \in Node /\ m.bundle \in Bundle /\ m.bundle.msg \in accepted
      /\ Matches(m.bundle.msg, KeyOf(m.bundle))
      /\ m.to = Route[m.bundle.cust][m.bundle.msg.dst]
    BY DEF NetInv, TypeOK, Arrival, Promise, Copies, NothingInvented, NumbersMatch, OnTheWay
<1>2. b \in Bundle /\ b.cust = m.bundle.cust /\ b.msg = m.bundle.msg /\ Matches(b.msg, KeyOf(b))
    BY <1>1, DecodedBundle
<1>3. b.cust \in Node /\ b.msg \in Message /\ b.msg.dst \in AppEid /\ KeyOf(b) \in Key
    BY <1>2, KeyTypes DEF Bundle, Message
<1>4. m.to # Nowhere /\ m.to = Route[b.cust][b.msg.dst]
    BY <1>1, <1>2, EndpointAssumption
<1>5. m.to # b.cust /\ Hops[b.msg.dst][m.to] < Hops[b.msg.dst][b.cust]
    BY <1>3, <1>4, RouteAssumption, LoopFreeAssumption
<1>. QED
    BY <1>1, <1>2, <1>3, <1>4, <1>5

LEMMA ReceiveBundlePromise ==
    ASSUME NetInv, NEW m \in wire, ReceiveBundle(m)
    PROVE  Promise'
<1>1. PICK b \in Decoded(m.to, m.bundle) : TakeIn(m.to, b)
    BY DEF ReceiveBundle
<1>. DEFINE n == m.to
            x == b.msg
            c == b.cust
<1>2. /\ n \in Node /\ b \in Bundle /\ c \in Node /\ x \in Message /\ x.dst \in AppEid
      /\ KeyOf(b) \in Key /\ x \in accepted /\ Matches(x, KeyOf(b)) /\ n # c
      /\ Hops[x.dst][n] < Hops[x.dst][c]
    BY Received
<1>3. TypeOK
    BY DEF NetInv
<1>4. /\ InsertCustody(n, b) /\ wire' \subseteq wire
      /\ \A s \in signals' \ signals : s \in Sent(n, c, KeyOf(b)) /\ Fresh(n, b)
      /\ UNCHANGED <<accepted, atRisk>>
    BY <1>1, WithoutIsSmaller DEF ReceiveBundle, TakeIn, MustSignal
<1>. HIDE DEF n, x, c
<1>5. /\ \A o \in Node : Held(o) \subseteq Held(o)'
      /\ handed \subseteq handed' /\ missed \subseteq missed'
      /\ Fresh(n, b) => x \in handed' \cup missed' \/ x \in Held(n)'
      /\ \A o \in Node : \A d \in list'[o] \cup replicas'[o] :
            d \in list[o] \cup replicas[o] \/ d = b
      /\ \A o \in Node : \A d \in replicas'[o] : d \in replicas[o] \/ (o = n /\ d = b)
    BY <1>2, <1>3, <1>4, TakenIn DEF x
<1>6. \A y, d : Safe(y, d) => Safe(y, d)'
    BY <1>4, <1>5 DEF Safe
<1>7. ASSUME NEW s \in signals'
      PROVE  s \in signals \/ (s.cust = c /\ s.named = KeyOf(b) /\ Fresh(n, b))
    <2>1. CASE s \notin signals
        <3>1. s \in Sent(n, c, KeyOf(b)) /\ Fresh(n, b)
            BY <1>4, <1>7, <2>1
        <3>. QED
            BY <1>2, <3>1, SentTypes
    <2>. QED
        BY <2>1
<1>8. Copies'
    <2>1. \A s \in signals' : \E y \in accepted' : Matches(y, s.named)
        BY <1>2, <1>4, <1>7 DEF NetInv, Promise, Copies, NothingInvented
    <2>2. NothingInvented'
        BY <1>2, <1>4, <1>5, <2>1 DEF NetInv, Promise, Copies, NothingInvented, x
    <2>3. NumbersMatch' /\ OnTheWay'
        BY <1>2, <1>4, <1>5 DEF NetInv, Promise, Copies, NumbersMatch, OnTheWay, x
    <2>4. OwnNumbers'
        BY <1>2, <1>5 DEF NetInv, Promise, Copies, OwnNumbers, c
    <2>. QED
        BY <2>2, <2>3, <2>4 DEF Copies
<1>9. CustodyKept' /\ ClashesAtRisk'
    BY <1>4, <1>5 DEF NetInv, Promise, CustodyKept, ClashesAtRisk
<1>10. SignalsAreTrue'
    <2>1. SUFFICES ASSUME NEW s \in signals', NEW y \in accepted, Matches(y, s.named)
                   PROVE  Safe(y, s.cust)'
        BY <1>4 DEF SignalsAreTrue
    <2>2. CASE s \in signals
        BY <1>6, <2>1, <2>2 DEF NetInv, Promise, SignalsAreTrue
    <2>3. CASE s \notin signals
        <3>1. s.cust = c /\ Matches(y, KeyOf(b)) /\ Fresh(n, b)
            BY <1>7, <2>1, <2>3
        <3>2. CASE y = x
            BY <1>2, <1>5, <3>1, <3>2 DEF Safe
        <3>3. CASE y # x
            <4>1. y \in atRisk
                BY <1>2, <3>1, <3>3, SameOrAtRisk
            <4>. QED
                BY <1>4, <4>1 DEF Safe
        <3>. QED
            BY <3>2, <3>3
    <2>. QED
        BY <2>2, <2>3
<1>. QED
    BY <1>8, <1>9, <1>10 DEF Promise

\* The entry that a signal releases, whatever its key was decoded to, is of a
\* message that the signal may be for, unless it shares a key.
LEMMA Released ==
    ASSUME NetInv, NEW m \in signals, Release(m), list' # list
    PROVE  \E b \in list[m.to], x \in accepted :
              /\ m.to \in Node /\ m.cust = m.to /\ b \in Bundle /\ b.msg \in accepted
              /\ KeyOf(b) \in Decoded(m.to, m.named)
              /\ KeyOf(b) # m.named => {y \in accepted : Matches(y, m.named)} \subseteq misread'
              /\ list' = [list EXCEPT ![m.to] = @ \ {b}]
              /\ Matches(x, m.named)
              /\ b.msg = x \/ {b.msg, x} \subseteq atRisk
<1>. DEFINE n == m.to
<1>1. n \in Node /\ m.cust = n /\ TypeOK /\ m.named \in Key
    BY DEF Release, NetInv, TypeOK, Signal
<1>2. PICK k \in Decoded(n, m.named) :
            /\ Delete(n, k)
            /\ Reading(m.named, k, {y \in accepted : Matches(y, m.named)})
    BY DEF Release
<1>3. PICK b \in list[n] : KeyOf(b) = k /\ list' = [list EXCEPT ![n] = @ \ {b}]
    BY <1>2 DEF Delete
<1>4. b \in Bundle
    BY <1>1, <1>3 DEF TypeOK
<1>5. b.msg \in accepted /\ Matches(b.msg, k)
    BY <1>1, <1>3 DEF NetInv, Promise, Copies, NothingInvented, NumbersMatch
<1>6. PICK x \in accepted : Matches(x, m.named)
    BY DEF NetInv, Promise, Copies, NothingInvented
<1>7. k \in Key /\ Matches(x, k)
    <2>1. x \in Message
        BY <1>1, <1>6 DEF TypeOK
    <2>. QED
        BY <1>1, <1>2, <1>6, <2>1, DecodedKey
<1>8. b.msg = x \/ {b.msg, x} \subseteq atRisk
    BY <1>5, <1>7, SameOrAtRisk
<1>9. k # m.named => {y \in accepted : Matches(y, m.named)} \subseteq misread'
    BY <1>2 DEF Reading
<1>. QED
    BY <1>1, <1>2, <1>3, <1>4, <1>5, <1>6, <1>8, <1>9

\* The entry that a signal releases is safe without it, and so is all that was
\* safe because of it.
LEMMA ReleasePromise ==
    ASSUME NetInv, NEW m \in signals, Release(m),
           UNCHANGED <<wire, replicas, accepted, handed, missed, atRisk>>
    PROVE  Promise'
<1>. DEFINE n == m.to
<1>1. n \in Node /\ n = m.cust /\ signals' \subseteq signals /\ TypeOK
    BY WithoutIsSmaller DEF Release, NetInv, TypeOK, Signal
<1>2. CASE list' = list
    BY <1>1, <1>2, QuietStep
<1>3. CASE list' # list
    <2>1. \E b \in list[n], y \in accepted :
              /\ b \in Bundle /\ b.msg \in accepted
              /\ list' = [list EXCEPT ![n] = @ \ {b}]
              /\ Matches(y, m.named)
              /\ b.msg = y \/ {b.msg, y} \subseteq atRisk
        BY <1>3, Released
    <2>2. PICK b \in list[n], y \in accepted :
              /\ b \in Bundle /\ b.msg \in accepted
              /\ list' = [list EXCEPT ![n] = @ \ {b}]
              /\ Matches(y, m.named)
              /\ b.msg = y \/ {b.msg, y} \subseteq atRisk
        BY <2>1
    <2>. DEFINE x == b.msg
    <2>3. x \in Message /\ x.dst \in AppEid /\ x \in accepted
        BY <2>2 DEF Bundle, Message
    <2>4. Safe(x, n)
        <3>1. Safe(y, n)
            BY <1>1, <2>2 DEF NetInv, Promise, SignalsAreTrue
        <3>. QED
            BY <2>2, <3>1 DEF Safe
    <2>5. list \in [Node -> SUBSET Bundle]
        BY DEF NetInv, TypeOK
    <2>6. /\ \A o \in Node \ {n} : Held(o)' = Held(o)
          /\ \A z \in Held(n) : z \in Held(n)' \/ z = x
          /\ \A o \in Node : list'[o] \subseteq list[o]
        BY <1>1, <2>2, <2>5 DEF Held
    <2>. HIDE DEF x, n
    <2>7. x \in handed \cup missed \cup atRisk \/ \E o \in Node \ {n} : x \in Held(o)' /\ Hops[x.dst][o] < Hops[x.dst][n]
        BY <1>1, <2>3, <2>4, <2>6, HopsAreNumbers DEF Safe
    <2>8. ASSUME NEW z \in Message, NEW c \in Node, Safe(z, c) PROVE Safe(z, c)'
        <3>1. CASE z \in handed \cup missed \cup atRisk
            BY <3>1 DEF Safe
        <3>2. CASE z \notin handed \cup missed \cup atRisk
            <4>1. PICK o \in Node : z \in Held(o) /\ Hops[z.dst][o] < Hops[z.dst][c]
                BY <2>8, <3>2 DEF Safe
            <4>2. CASE z \in Held(o)'
                BY <4>1, <4>2 DEF Safe
            <4>3. CASE z \notin Held(o)'
                <5>1. o = n /\ z = x
                    BY <2>6, <4>1, <4>3
                <5>2. PICK p \in Node : x \in Held(p)' /\ Hops[x.dst][p] < Hops[x.dst][n]
                    BY <2>7, <3>2, <5>1
                <5>3. Hops[x.dst][p] < Hops[x.dst][c]
                    BY <1>1, <2>3, <4>1, <5>1, <5>2, HopsAreNumbers
                <5>. QED
                    BY <5>1, <5>2, <5>3 DEF Safe
            <4>. QED
                BY <4>2, <4>3
        <3>. QED
            BY <3>1, <3>2
    <2>9. accepted \subseteq Message /\ \A s \in signals : s.cust \in Node
        BY DEF NetInv, TypeOK, Signal
    <2>10. SignalsAreTrue'
        BY <1>1, <2>8, <2>9 DEF NetInv, Promise, SignalsAreTrue
    <2>11. CustodyKept'
        BY <2>6, <2>7 DEF NetInv, Promise, CustodyKept
    <2>12. Copies'
        BY <1>1, <2>6
        DEF NetInv, Promise, Copies, NothingInvented, NumbersMatch, OwnNumbers, OnTheWay
    <2>13. ClashesAtRisk'
        BY DEF NetInv, Promise, ClashesAtRisk
    <2>. QED
        BY <2>10, <2>11, <2>12, <2>13 DEF Promise
<1>. QED
    BY <1>2, <1>3

\* A signal that is passed on says what it said before.
LEMMA PassedOn ==
    ASSUME NetInv, NEW m \in signals, PassOn(m)
    PROVE  \A s \in signals' : \E r \in signals : s.cust = r.cust /\ s.named = r.named
<1>1. m.to \in Node /\ m.cust \in Node /\ m.named \in Key
    BY DEF NetInv, TypeOK, Signal
<1>2. PICK S \in Without(signals, m) : signals' = S \cup Sent(m.to, m.cust, m.named)
    BY DEF PassOn
<1>. QED
    BY <1>1, <1>2, WithoutIsSmaller, SentTypes

LEMMA PassOnPromise ==
    ASSUME NetInv, NEW m \in signals, PassOn(m),
           UNCHANGED <<wire, replicas, accepted, handed, missed, atRisk>>
    PROVE  Promise'
<1>1. \A s \in signals' : \E r \in signals : s.cust = r.cust /\ s.named = r.named
    BY PassedOn
<1>2. list' = list /\ \A n : Held(n)' = Held(n)
    BY DEF Held, PassOn
<1>3. \A y, c : Safe(y, c)' <=> Safe(y, c)
    BY <1>2 DEF Safe
<1>4. CustodyKept' /\ SignalsAreTrue'
    BY <1>1, <1>2, <1>3 DEF NetInv, Promise, CustodyKept, SignalsAreTrue
<1>5. Copies'
    BY <1>1, <1>2
    DEF NetInv, Promise, Copies, NothingInvented, NumbersMatch, OwnNumbers, OnTheWay
<1>6. ClashesAtRisk'
    BY DEF NetInv, Promise, ClashesAtRisk
<1>. QED
    BY <1>4, <1>5, <1>6 DEF Promise

\* What a scan sends on is on its way.
LEMMA ScanSends ==
    ASSUME NetInv, NEW n \in Node, NEW B \in SUBSET list[n]
    PROVE  \A m \in Forwarded(n, B) : OnItsWay(m)
<1>1. B \in SUBSET Bundle
    BY DEF NetInv, TypeOK
<1>2. SUFFICES ASSUME NEW m \in Forwarded(n, B) PROVE OnItsWay(m)
    OBVIOUS
<1>3. /\ m.to = Route[n][m.bundle.msg.dst] /\ m.bundle.cust = n
      /\ \E b \in B : m.bundle = Stored(n, b)
    BY <1>1, ForwardedTypes
<1>4. PICK b \in B : m.bundle = Stored(n, b)
    BY <1>3
<1>5. m.bundle.msg = b.msg /\ KeyOf(m.bundle) = KeyOf(b)
    BY <1>1, <1>4, StoredTypes DEF KeyOf
<1>6. b.msg \in accepted /\ Matches(b.msg, KeyOf(b))
    BY DEF NetInv, Promise, Copies, NothingInvented, NumbersMatch
<1>. QED
    BY <1>3, <1>5, <1>6 DEF OnItsWay

LEMMA ScanPromise ==
    ASSUME NetInv, NEW n \in Node, Scan(n)
    PROVE  Promise'
<1>. DEFINE there == {b \in list[n] : IsLocal(n, b.msg.dst)}
            X == {b.msg : b \in there}
<1>1. /\ Dispatch(n, X) /\ wire' = wire \cup Forwarded(n, list[n] \ there)
      /\ UNCHANGED <<signals, list, replicas, accepted, missed, atRisk>>
    BY DEF Scan
<1>2. handed \subseteq handed'
    BY <1>1 DEF Dispatch
<1>3. list[n] \ there \in SUBSET list[n]
    OBVIOUS
<1>. HIDE DEF there
<1>4. \A m \in wire' : m \in wire \/ OnItsWay(m)
    BY <1>1, <1>3, ScanSends
<1>. QED
    BY <1>1, <1>2, <1>4, QuietStep

LEMMA PromiseStep == NetInv /\ [Next]_vars => Promise'
<1>. SUFFICES ASSUME NetInv, [Next]_vars PROVE Promise'
    OBVIOUS
<1>1. ASSUME NEW s \in Socket, bp_bind(s) \/ bp_close(s) PROVE Promise'
    BY <1>1, QuietStep DEF bp_bind, bp_close
<1>2. ASSUME NEW s \in Socket, SendUnbound(s) PROVE Promise'
    BY <1>2, CrashPromise, ApplicationAssumption DEF SendUnbound
<1>3. ASSUME NEW s \in Socket, NEW e \in Targets[s], NEW text \in Text,
             bp_sendto(s, e, text)
      PROVE  Promise'
    <2>1. Composed(s, e, text) \in Message
        BY ComposedTypes DEF NetInv
    <2>. QED
        BY <1>3, <2>1, AcceptPromise DEF bp_sendto
<1>4. ASSUME NEW m \in wire, ReceiveBundle(m) PROVE Promise'
    BY <1>4, ReceiveBundlePromise
<1>5. ASSUME NEW m \in signals, ReceiveSignal(m) PROVE Promise'
    BY <1>5, ReleasePromise, PassOnPromise DEF ReceiveSignal
<1>6. ASSUME NEW n \in Node, Scan(n) PROVE Promise'
    BY <1>6, ScanPromise
<1>7. ASSUME NEW n \in Node, Crash(n) PROVE Promise'
    BY <1>7, CrashPromise DEF Crash
<1>8. ASSUME NEW n \in Node, Restart(n) PROVE Promise'
    BY <1>8, QuietStep DEF Restart
<1>9. CASE Lose
    BY <1>9, QuietStep DEF Lose
<1>10. CASE Tick \/ UNCHANGED vars
    BY <1>10, QuietStep DEF Tick, vars
<1>. QED
    BY <1>1, <1>2, <1>3, <1>4, <1>5, <1>6, <1>7, <1>8, <1>9, <1>10 DEF Next, Application

LEMMA NetInvariant == Spec => []NetInv
<1>1. Init => NetInv
    BY TypesInit, PromiseInit DEF NetInv
<1>2. NetInv /\ [Next]_vars => NetInv'
    BY TypesStep, PromiseStep DEF NetInv
<1>. QED
    BY <1>1, <1>2, PTL DEF Spec

\* A message that was accepted is in some daemon's list until it is handed to an
\* open socket, unless a daemon that held it died, its key may be another's, or
\* it came when the socket it was for was gone.
THEOREM CustodyIsKeptByAll == Spec => []CustodyKept
    BY NetInvariant, PTL DEF NetInv, Promise

\* Whatever a custody signal releases when it arrives, however its key is read,
\* is kept by a daemon nearer to the destination, has been handed to an open
\* socket there, or is lost in one of the three ways that CustodyKept names.
THEOREM SignalsStayTrue == Spec => []SignalsAreTrue
    BY NetInvariant, PTL DEF NetInv, Promise

-----------------------------------------------------------------------------
(***************************************************************************)
(* The network implements Custody.                                         *)
(***************************************************************************)
Kept == [n \in Node |-> Held(n)]

\* Two states with the same lists keep the same messages.
LEMMA SameKept ==
    ASSUME UNCHANGED list
    PROVE  Kept' = Kept
    BY DEF Kept, Held

\* A daemon that stores a bundle keeps its message.
LEMMA StoredKept ==
    ASSUME TypeOK, NEW n \in Node, NEW b \in Bundle, list' = [list EXCEPT ![n] = @ \cup {b}]
    PROVE  Kept' = [Kept EXCEPT ![n] = @ \cup {b.msg}]
<1>1. \A o \in Node : Held(o)' = IF o = n THEN Held(o) \cup {b.msg} ELSE Held(o)
    BY DEF Held, TypeOK
<1>. QED
    BY <1>1 DEF Kept

LEMMA InsertIsTaken ==
    ASSUME TypeOK, NEW n \in Node, NEW b \in Bundle, InsertCustody(n, b)
    PROVE  Abstract!TakenBy(b.msg, n)
<1>1. CASE handed' = handed \cup {b.msg} /\ UNCHANGED <<list, missed>>
    BY <1>1, SameKept DEF Abstract!TakenBy, Kept
<1>2. CASE missed' = missed \cup {b.msg} /\ UNCHANGED <<list, handed>>
    BY <1>2, SameKept DEF Abstract!TakenBy, Kept
<1>3. CASE list' = [list EXCEPT ![n] = @ \cup {b}] /\ UNCHANGED <<handed, missed>>
    BY <1>3, StoredKept DEF Abstract!TakenBy, Kept
<1>4. CASE UNCHANGED <<list, handed, missed>>
    BY <1>4, SameKept DEF Abstract!TakenBy, Kept
<1>. QED
    BY <1>1, <1>2, <1>3, <1>4, InsertCustodyEffect

LEMMA AcceptRefines ==
    ASSUME NetInv, NEW s \in Socket, NEW x \in Message, Accept(s, x)
    PROVE  Abstract!Accept(x, Home[s])
<1>. DEFINE n == Home[s]
            b == [cust |-> n, seq |-> x.seq, msg |-> x]
<1>1. n \in Node /\ b \in Bundle /\ b.msg = x /\ TypeOK
    BY ApplicationAssumption DEF Bundle, Message, NetInv
<1>2. /\ InsertCustody(n, b)
      /\ accepted' = accepted \cup {x}
      /\ atRisk' = IF Clashes(x) = {} THEN atRisk ELSE atRisk \cup Clashes(x) \cup {x}
    BY DEF Accept
<1>3. Fresh(n, b) \/ x \in accepted
    BY <1>1, OwnCopy
<1>. HIDE DEF b, n
<1>4. Abstract!TakenBy(x, n)
    BY <1>1, <1>2, InsertIsTaken
<1>5. x \notin accepted => x \in handed' \cup missed' \/ x \in Held(n)'
    BY <1>1, <1>2, <1>3, TakenIn
<1>6. x \notin accepted => x \in Kept'[n] \cup handed' \cup missed'
    BY <1>1, <1>5 DEF Kept
<1>7. Abstract!Clashes(x) = Clashes(x)
    BY DEF Abstract!Clashes, Clashes
<1>. QED
    BY <1>2, <1>4, <1>6, <1>7 DEF Abstract!Accept, Kept, n

LEMMA ReceiveBundleRefines ==
    ASSUME NetInv, NEW m \in wire, ReceiveBundle(m)
    PROVE  m.bundle.msg \in accepted /\ Abstract!Take(m.bundle.msg, m.to)
<1>1. PICK b \in Decoded(m.to, m.bundle) : TakeIn(m.to, b)
    BY DEF ReceiveBundle
<1>2. m.to \in Node /\ b \in Bundle /\ b.msg \in accepted /\ b.msg = m.bundle.msg /\ TypeOK
    BY Received DEF NetInv
<1>3. InsertCustody(m.to, b) /\ UNCHANGED <<accepted, atRisk>>
    BY <1>1 DEF TakeIn, ReceiveBundle
<1>. QED
    BY <1>2, <1>3, InsertIsTaken DEF Abstract!Take

\* Another bundle with the same message may be left in the list: nothing
\* changes then.
LEMMA ReleaseRefines ==
    ASSUME NetInv, NEW m \in signals, Release(m),
           UNCHANGED <<accepted, handed, missed, atRisk>>, list' # list
    PROVE  Kept' = Kept \/ \E x \in Kept[m.to] : Abstract!Release(x, m.to)
<1>. DEFINE n == m.to
<1>1. n \in Node /\ n = m.cust /\ TypeOK
    BY DEF Release, NetInv, TypeOK, Signal
<1>2. \E b \in list[n], y \in accepted :
          /\ b \in Bundle /\ list' = [list EXCEPT ![n] = @ \ {b}]
          /\ Matches(y, m.named)
          /\ b.msg = y \/ {b.msg, y} \subseteq atRisk
    BY Released
<1>3. PICK b \in list[n], y \in accepted :
          /\ b \in Bundle /\ list' = [list EXCEPT ![n] = @ \ {b}]
          /\ Matches(y, m.named)
          /\ b.msg = y \/ {b.msg, y} \subseteq atRisk
    BY <1>2
<1>. DEFINE x == b.msg
<1>4. x.dst \in AppEid /\ x \in Held(n)
    BY <1>3 DEF Bundle, Message, Held
<1>5. Safe(x, n)
    <2>1. Safe(y, n)
        BY <1>1, <1>3 DEF NetInv, Promise, SignalsAreTrue
    <2>. QED
        BY <1>3, <2>1 DEF Safe
<1>6. list \in [Node -> SUBSET Bundle]
    BY DEF NetInv, TypeOK
<1>7. /\ \A o \in Node \ {n} : Held(o)' = Held(o)
      /\ \A z \in Held(n) : z \in Held(n)' \/ z = x
      /\ Held(n)' \subseteq Held(n)
    BY <1>1, <1>3, <1>6 DEF Held
<1>. HIDE DEF x, n
<1>8. CASE x \in Held(n)'
    <2>1. \A o \in Node : Held(o)' = Held(o)
        BY <1>7, <1>8
    <2>. QED
        BY <2>1 DEF Kept
<1>9. CASE x \notin Held(n)'
    <2>1. Held(n)' = Held(n) \ {x}
        BY <1>7, <1>9
    <2>2. Kept' = [Kept EXCEPT ![n] = @ \ {x}]
        BY <1>1, <1>7, <2>1 DEF Kept
    <2>3. x \in Kept[n]
        BY <1>1, <1>4 DEF Kept
    <2>4. x \in handed \cup missed \cup atRisk \/ \E c \in Node \ {n} : x \in Kept[c]
        <3>1. CASE x \in handed \cup missed \cup atRisk
            BY <3>1
        <3>2. CASE x \notin handed \cup missed \cup atRisk
            <4>1. PICK o \in Node : x \in Held(o) /\ Hops[x.dst][o] < Hops[x.dst][n]
                BY <1>5, <3>2 DEF Safe
            <4>2. o # n
                BY <1>1, <1>4, <4>1, HopsAreNumbers
            <4>. QED
                BY <4>1, <4>2 DEF Kept
        <3>. QED
            BY <3>1, <3>2
    <2>5. Abstract!Release(x, n)
        BY <2>2, <2>4 DEF Abstract!Release, Kept
    <2>. QED
        BY <2>3, <2>5 DEF n
<1>. QED
    BY <1>8, <1>9

LEMMA ScanRefines ==
    ASSUME NetInv, NEW n \in Node, Scan(n)
    PROVE  Abstract!HandOver(n)
<1>. DEFINE X == {b.msg : b \in {c \in list[n] : IsLocal(n, c.msg.dst)}}
<1>1. handed' = handed \cup {x \in X : IsOpen(n, x.dst)} /\ UNCHANGED <<list, accepted, missed, atRisk>>
    BY DEF Scan, Dispatch
<1>2. {x \in X : IsOpen(n, x.dst)} \in SUBSET Kept[n]
    BY DEF Kept, Held
<1>. HIDE DEF X
<1>3. Kept' = Kept
    BY <1>1, SameKept
<1>. QED
    BY <1>1, <1>2, <1>3 DEF Abstract!HandOver, Kept

LEMMA CrashRefines ==
    ASSUME NetInv, NEW n \in Node, Die(n)
    PROVE  Abstract!Crash(n)
<1>1. /\ list' = [list EXCEPT ![n] = {}]
      /\ atRisk' = atRisk \cup Held(n)
      /\ UNCHANGED <<accepted, handed, missed>>
    BY DEF Die
<1>2. \A o \in Node : Held(o)' = IF o = n THEN {} ELSE Held(o)
    BY <1>1 DEF Held, NetInv, TypeOK
<1>3. Kept' = [Kept EXCEPT ![n] = {}] /\ Kept[n] = Held(n)
    BY <1>2 DEF Kept
<1>. QED
    BY <1>1, <1>3 DEF Abstract!Crash, Kept

LEMMA StepRefines == NetInv /\ [Next]_vars => [Abstract!Next]_(Abstract!vars)
<1>. SUFFICES ASSUME NetInv, [Next]_vars PROVE [Abstract!Next]_(Abstract!vars)
    OBVIOUS
<1>1. ASSUME UNCHANGED <<list, accepted, handed, missed, atRisk>> PROVE UNCHANGED Abstract!vars
    BY <1>1, SameKept DEF Abstract!vars, Kept
<1>2. ASSUME NEW n \in Node, NEW x,
             \/ x \in Message /\ Abstract!Accept(x, n)
             \/ x \in accepted /\ Abstract!Take(x, n)
             \/ x \in Kept[n] /\ Abstract!Release(x, n)
      PROVE  Abstract!Next
    BY <1>2 DEF Abstract!Next, Kept
<1>3. ASSUME NEW n \in Node, Abstract!HandOver(n) \/ Abstract!Crash(n) PROVE Abstract!Next
    BY <1>3 DEF Abstract!Next
<1>4. ASSUME NEW s \in Socket, bp_bind(s) \/ bp_close(s) PROVE UNCHANGED Abstract!vars
    BY <1>1, <1>4 DEF bp_bind, bp_close
<1>5. ASSUME NEW s \in Socket, SendUnbound(s) PROVE Abstract!Next
    BY <1>3, <1>5, CrashRefines, ApplicationAssumption DEF SendUnbound
<1>6. ASSUME NEW s \in Socket, NEW e \in Targets[s], NEW text \in Text,
             bp_sendto(s, e, text)
      PROVE  Abstract!Next
    <2>1. Composed(s, e, text) \in Message /\ Home[s] \in Node
        BY ComposedTypes, ApplicationAssumption DEF NetInv
    <2>. QED
        BY <1>2, <1>6, <2>1, AcceptRefines DEF bp_sendto
<1>7. ASSUME NEW m \in wire, ReceiveBundle(m) PROVE Abstract!Next
    <2>1. m.to \in Node
        BY DEF NetInv, TypeOK, Arrival
    <2>. QED
        BY <1>2, <1>7, <2>1, ReceiveBundleRefines
<1>8. ASSUME NEW m \in signals, ReceiveSignal(m) PROVE [Abstract!Next]_(Abstract!vars)
    <2>1. m.to \in Node /\ UNCHANGED <<accepted, handed, missed, atRisk>>
        BY <1>8 DEF ReceiveSignal, NetInv, TypeOK, Signal
    <2>2. CASE list' = list
        BY <1>1, <2>1, <2>2
    <2>3. CASE list' # list
        <3>1. Release(m)
            BY <1>8, <2>3 DEF ReceiveSignal, PassOn
        <3>2. Kept' = Kept \/ \E x \in Kept[m.to] : Abstract!Release(x, m.to)
            BY <2>1, <2>3, <3>1, ReleaseRefines
        <3>3. CASE Kept' = Kept
            BY <2>1, <3>3 DEF Abstract!vars, Kept
        <3>. QED
            BY <1>2, <2>1, <3>2, <3>3
    <2>. QED
        BY <2>2, <2>3
<1>9. ASSUME NEW n \in Node, Scan(n) PROVE Abstract!Next
    BY <1>3, <1>9, ScanRefines
<1>10. ASSUME NEW n \in Node, Crash(n) PROVE Abstract!Next
    BY <1>3, <1>10, CrashRefines DEF Crash
<1>11. ASSUME NEW n \in Node, Restart(n) PROVE UNCHANGED Abstract!vars
    BY <1>1, <1>11 DEF Restart
<1>12. CASE Lose \/ Tick \/ UNCHANGED vars
    BY <1>1, <1>12 DEF Lose, Tick, vars
<1>. QED
    BY <1>4, <1>5, <1>6, <1>7, <1>8, <1>9, <1>10, <1>11, <1>12 DEF Next, Application

\* Whatever the daemons, the applications and the network do, some daemon keeps
\* a message until it is handed to an open socket or misses it, and a daemon
\* lets go only of what is safe without it: the network implements Custody.
THEOREM DaemonsKeepCustody == Spec => CustodySpec
<1>1. Init => Abstract!Init
    BY DEF Init, Abstract!Init, Held
<1>2. NetInv /\ [Next]_vars => [Abstract!Next]_(Abstract!vars)
    BY StepRefines
<1>. QED
    BY <1>1, <1>2, NetInvariant, PTL DEF Spec, CustodySpec, Abstract!Spec

-----------------------------------------------------------------------------
(***************************************************************************)
(* A message comes to a daemon once.  The daemons it has come to are one   *)
(* path of the forward tables, so there is one custodian it can come from, *)
(* and the filter knows its copy.                                          *)
(***************************************************************************)
\* What the bind list finds for a local endpoint runs here.
LEMMA BoundHere ==
    ASSUME TypeOK, BoundAtHome, NEW n \in Node, NEW e, IsLocal(n, e)
    PROVE  Home[BoundTo(n, e)] = n /\ Names[BoundTo(n, e)] = e
<1>. DEFINE L == binds[n]
            T == {i \in DOMAIN L : Names[L[i]] = e}
            P(i) == Names[L[i]] = e /\ \A j \in 1..i-1 : Names[L[j]] # e
<1>1. L \in Seq(Socket)
    BY DEF TypeOK
<1>2. DOMAIN L = 1..Len(L) /\ Len(L) \in Nat
    BY <1>1
<1>3. T \in SUBSET Nat /\ T # {}
    BY <1>2 DEF IsLocal
<1>4. PICK i \in T : \A j \in T : i <= j
    BY <1>3, LeastNumber
<1>5. i \in DOMAIN L /\ P(i)
    <2>1. ASSUME NEW j \in 1..i-1 PROVE Names[L[j]] # e
        <3>1. i \in Nat /\ j \in DOMAIN L /\ ~(i <= j)
            BY <1>2, <1>4
        <3>. QED
            BY <1>4, <3>1
    <2>. QED
        BY <1>4, <2>1
<1>. DEFINE c == CHOOSE j \in DOMAIN L : P(j)
<1>6. c \in DOMAIN L /\ P(c)
    BY <1>5
<1>7. BoundTo(n, e) = L[c]
    BY DEF BoundTo
<1>. HIDE DEF c
<1>. QED
    BY <1>6, <1>7 DEF BoundAtHome

\* Who gets a message that is dispatched, and who gets it again.
LEMMA DispatchReaches ==
    ASSUME TypeOK, BoundAtHome, NEW n \in Node, NEW X, Dispatch(n, X),
           \A x \in X : IsLocal(n, x.dst)
    PROVE  /\ \A s \in Socket : \A x \in got'[s] : x \in got[s] \/ (x \in X /\ Home[s] = n)
           /\ \A x \in again' :
                 x \in again \/ (x \in X /\ \E s \in Socket : Home[s] = n /\ x \in got[s])
<1>. DEFINE For(s) == {x \in X : IsOpen(n, x.dst) /\ s = BoundTo(n, x.dst)}
<1>1. /\ got' = [s \in Socket |-> got[s] \cup For(s)]
      /\ again' = again \cup UNION {For(s) \cap got[s] : s \in Socket}
    BY DEF Dispatch
<1>2. \A s \in Socket : \A x \in For(s) : x \in X /\ Home[s] = n
    BY BoundHere
<1>. HIDE DEF For
<1>. QED
    BY <1>1, <1>2

\* What a bundle that a daemon takes in does to the filter, the list and the
\* applications there.
LEMMA InsertReaches ==
    ASSUME TypeOK, BoundAtHome, NEW n \in Node, NEW b \in Bundle, InsertCustody(n, b)
    PROVE  /\ replicas' = IF Fresh(n, b) THEN [replicas EXCEPT ![n] = @ \cup {b}] ELSE replicas
           /\ \A o \in Node : /\ list[o] \subseteq list'[o]
                              /\ \A d \in list'[o] : d \in list[o] \/ (Fresh(n, b) /\ o = n /\ d = b)
           /\ \A s \in Socket : \A x \in got'[s] :
                 x \in got[s] \/ (Fresh(n, b) /\ x = b.msg /\ Home[s] = n)
           /\ \A x \in again' :
                 \/ x \in again
                 \/ (/\ Fresh(n, b) /\ x = b.msg
                     /\ \E s \in Socket : Home[s] = n /\ x \in got[s])
<1>1. ASSUME Dispatch(n, {})
      PROVE  /\ \A s \in Socket : \A x \in got'[s] : x \in got[s]
             /\ \A x \in again' : x \in again
    BY <1>1, DispatchReaches
<1>2. list \in [Node -> SUBSET Bundle]
    BY DEF TypeOK
<1>3. CASE ~Fresh(n, b)
    BY <1>1, <1>3 DEF InsertCustody
<1>4. CASE Fresh(n, b) /\ IsLocal(n, b.msg.dst)
    <2>1. /\ replicas' = [replicas EXCEPT ![n] = @ \cup {b}] /\ list' = list
          /\ Dispatch(n, {b.msg})
        BY <1>4 DEF InsertCustody, Keep, HandOver
    <2>2. /\ \A s \in Socket : \A x \in got'[s] : x \in got[s] \/ (x = b.msg /\ Home[s] = n)
          /\ \A x \in again' :
                x \in again \/ (x = b.msg /\ \E s \in Socket : Home[s] = n /\ x \in got[s])
        BY <1>4, <2>1, DispatchReaches
    <2>. QED
        BY <1>4, <2>1, <2>2
<1>5. CASE Fresh(n, b) /\ ~IsLocal(n, b.msg.dst)
    <2>1. /\ replicas' = [replicas EXCEPT ![n] = @ \cup {b}]
          /\ list' = [list EXCEPT ![n] = @ \cup {b}]
          /\ Dispatch(n, {})
        BY <1>5 DEF InsertCustody, Keep
    <2>. QED
        BY <1>1, <1>2, <1>5, <2>1
<1>. QED
    BY <1>3, <1>4, <1>5

\* Steps that pass no bundle on: what is bound stays bound, and what signals say
\* they said before.
LEMMA QuietPath ==
    ASSUME NetInv, PathInv, BoundAtHome',
           \A n \in Node : \A e : IsLocal(n, e) => IsLocal(n, e)',
           UNCHANGED <<got, again, list, replicas, tally, accepted, atRisk>>,
           wire' \subseteq wire, misread \subseteq misread',
           \A s \in signals' : \E m \in signals : s.cust = m.cust /\ s.named = m.named
    PROVE  PathInv'
<1>1. \A n, x : Came(n, x)' <=> Came(n, x)
    BY DEF Came
<1>2. \A n : Held(n)' = Held(n)
    BY DEF Held
<1>3. SignalsComeBack' /\ ReadRight'
    BY DEF PathInv, SignalsComeBack, ReadRight
<1>4. OnceIfBoundFirst'
    BY <1>2 DEF PathInv, OnceIfBoundFirst
<1>5. ASSUME tally.crashes = 0 PROVE CopiesCame' /\ CameFrom' /\ OnePath'
    <2>1. CopiesCame /\ CameFrom /\ OnePath
        BY <1>5 DEF PathInv
    <2>. QED
        BY <1>1, <2>1 DEF CopiesCame, CameFrom, OnePath
<1>. QED
    BY <1>3, <1>4, <1>5 DEF PathInv

LEMMA CrashPath ==
    ASSUME NetInv, PathInv, NEW n \in Node, Die(n), tally'.crashes # 0
    PROVE  PathInv'
<1>2. BoundAtHome'
    BY DEF PathInv, BoundAtHome, Die, NetInv, TypeOK
<1>3. SignalsComeBack'
    BY DEF PathInv, SignalsComeBack, Die
<1>4. ReadRight'
    <2>1. \A o \in Node : list'[o] \subseteq list[o] /\ replicas'[o] \subseteq replicas[o]
        BY DEF Die, NetInv, TypeOK
    <2>. QED
        BY <2>1 DEF PathInv, ReadRight, Die
<1>. QED
    BY <1>2, <1>3, <1>4 DEF PathInv, OnceIfBoundFirst

\* An application's message is new to every daemon, or its own knows it.
LEMMA AcceptPath ==
    ASSUME EndpointsAtHome, NetInv, PathInv, NEW s \in Socket, NEW x \in Message,
           x.src = Names[s], Accept(s, x), tally'.crashes = tally.crashes
    PROVE  PathInv'
<1>. DEFINE n == Home[s]
            b == [cust |-> n, seq |-> x.seq, msg |-> x]
<1>1. /\ n \in Node /\ b \in Bundle /\ b.msg = x /\ b.cust = n /\ TypeOK
      /\ b.seq = b.msg.seq
    BY ApplicationAssumption DEF Bundle, Message, NetInv
<1>2. /\ InsertCustody(n, b)
      /\ accepted' = accepted \cup {x}
      /\ atRisk \subseteq atRisk'
      /\ UNCHANGED <<wire, signals, binds, misread>>
    BY DEF Accept
<1>3. BoundAtHome' /\ SignalsComeBack' /\ ReadRight'
    <2>1. BoundAtHome' /\ SignalsComeBack'
        BY <1>2 DEF PathInv, BoundAtHome, SignalsComeBack
    <2>. HIDE DEF b, n
    <2>2. \A o \in Node : \A d \in list'[o] \cup replicas'[o] :
                d \in list[o] \cup replicas[o] \/ d = b
        BY <1>1, <1>2, TakenIn
    <2>3. ReadRight'
        BY <1>1, <1>2, <2>2 DEF PathInv, ReadRight
    <2>. QED
        BY <2>1, <2>3
<1>. SUFFICES ASSUME tally.crashes = 0
              PROVE  CopiesCame' /\ CameFrom' /\ OnePath' /\ OnceIfBoundFirst'
    BY <1>3 DEF PathInv, OnceIfBoundFirst
<1>4. CopiesCame /\ CameFrom /\ OnePath /\ OnceIfBoundFirst /\ BoundAtHome
    BY DEF PathInv
<1>5. \A r \in Socket : Names[r] = x.src => Home[r] = n
    BY DEF EndpointsAtHome
<1>. HIDE DEF n
<1>6. /\ replicas' = IF Fresh(n, b) THEN [replicas EXCEPT ![n] = @ \cup {b}] ELSE replicas
      /\ \A o \in Node : /\ list[o] \subseteq list'[o]
                         /\ \A d \in list'[o] : d \in list[o] \/ (Fresh(n, b) /\ o = n /\ d = b)
      /\ \A r \in Socket : \A y \in got'[r] :
            y \in got[r] \/ (Fresh(n, b) /\ y = x /\ Home[r] = n)
      /\ \A y \in again' :
            y \in again \/ (Fresh(n, b) /\ y = x /\ \E r \in Socket : Home[r] = n /\ y \in got[r])
    BY <1>1, <1>2, <1>4, InsertReaches
<1>7. \A o \in Node : Held(o) \subseteq Held(o)'
    BY <1>6 DEF Held
<1>8. \A o, e : IsLocal(o, e)' <=> IsLocal(o, e)
    BY <1>2 DEF IsLocal
<1>9. \A o \in Node : \A d \in replicas[o] : d.msg \in accepted
    BY DEF NetInv, Promise, Copies, NothingInvented
<1>. HIDE DEF b
<1>10. CASE x \in accepted
    <2>1. b \in replicas[n]
        BY <1>4, <1>5, <1>10 DEF CameFrom, b
    <2>2. ~Fresh(n, b)
        BY <2>1 DEF Fresh
    <2>3. replicas' = replicas /\ accepted' = accepted
        BY <1>2, <1>6, <1>10, <2>2
    <2>4. \A o, y : Came(o, y)' <=> Came(o, y)
        BY <2>3 DEF Came
    <2>5. CopiesCame'
        <3>1. \A o \in Node : list'[o] \subseteq replicas'[o]
            BY <1>4, <1>6, <2>2, <2>3 DEF CopiesCame
        <3>2. \A r \in Socket : \A y \in got'[r] : Came(Home[r], y)'
            BY <1>4, <1>6, <2>2, <2>4 DEF CopiesCame
        <3>. QED
            BY <1>2, <1>4, <2>4, <3>1, <3>2 DEF CopiesCame
    <2>6. CameFrom' /\ OnePath'
        BY <1>4, <2>3, <2>4 DEF CameFrom, OnePath
    <2>7. OnceIfBoundFirst'
        BY <1>2, <1>4, <1>6, <1>7, <1>8, <2>2 DEF OnceIfBoundFirst
    <2>. QED
        BY <2>5, <2>6, <2>7
<1>11. CASE x \notin accepted
    <2>1. \A o \in Node : ~Came(o, x)
        BY <1>9, <1>11 DEF Came
    <2>2. Fresh(n, b)
        BY <1>1, <1>11, OwnCopy DEF b
    <2>3. \A o \in Node : replicas'[o] = IF o = n THEN replicas[o] \cup {b} ELSE replicas[o]
        BY <1>1, <1>6, <2>2 DEF TypeOK
    <2>4. \A o \in Node : \A y : Came(o, y)' <=> Came(o, y) \/ (o = n /\ y = x)
        BY <1>1, <2>3 DEF Came
    <2>5. CopiesCame'
        <3>1. \A o \in Node : list'[o] \subseteq replicas'[o]
            BY <1>4, <1>6, <2>3 DEF CopiesCame
        <3>2. \A r \in Socket : Home[r] \in Node
            BY ApplicationAssumption
        <3>3. \A r \in Socket : \A y \in got'[r] : Came(Home[r], y)'
            BY <1>4, <1>6, <2>4, <3>2 DEF CopiesCame
        <3>4. \A m \in wire : m.bundle.cust \in Node
            BY <1>1 DEF TypeOK, Arrival, Bundle
        <3>. QED
            BY <1>2, <1>4, <2>4, <3>1, <3>3, <3>4 DEF CopiesCame
    <2>6. CameFrom'
        <3>1. ASSUME NEW y \in accepted'
              PROVE  \E r \in Socket :
                        Names[r] = y.src /\ [cust |-> Home[r], seq |-> y.seq, msg |-> y] \in replicas'[Home[r]]
            <4>1. CASE y = x
                BY <1>1, <2>3, <4>1 DEF b, n
            <4>2. CASE y # x
                <5>1. y \in accepted
                    BY <1>2, <4>2
                <5>2. PICK r \in Socket : /\ Names[r] = y.src
                                          /\ [cust |-> Home[r], seq |-> y.seq, msg |-> y] \in replicas[Home[r]]
                    BY <1>4, <5>1 DEF CameFrom
                <5>3. Home[r] \in Node
                    BY ApplicationAssumption
                <5>4. replicas[Home[r]] \subseteq replicas'[Home[r]]
                    BY <2>3, <5>3
                <5>. QED
                    BY <5>2, <5>4
            <4>. QED
                BY <4>1, <4>2
        <3>2. ASSUME NEW o \in Node, NEW d \in replicas'[o]
              PROVE  IF d.cust = o
                     THEN \A p \in Node : Came(p, d.msg)' => Hops[d.msg.dst][p] <= Hops[d.msg.dst][o]
                     ELSE Came(d.cust, d.msg)' /\ Route[d.cust][d.msg.dst] = o
            <4>1. CASE d \in replicas[o]
                <5>1. d.msg # x /\ d.cust \in Node
                    BY <1>1, <1>9, <1>11, <4>1 DEF TypeOK, Bundle
                <5>. QED
                    BY <1>4, <2>4, <4>1, <5>1 DEF CameFrom
            <4>2. CASE d \notin replicas[o]
                <5>1. d = b /\ o = n
                    BY <2>3, <3>2, <4>2
                <5>2. \A p \in Node : Came(p, x)' => p = n
                    BY <2>1, <2>4
                <5>3. Hops[x.dst][n] <= Hops[x.dst][n]
                    BY <1>1, HopsAreNumbers DEF Message
                <5>. QED
                    BY <1>1, <5>1, <5>2, <5>3
            <4>. QED
                BY <4>1, <4>2
        <3>. QED
            BY <3>1, <3>2 DEF CameFrom
    <2>7. OnePath'
        <3>1. SUFFICES ASSUME NEW y \in accepted', NEW p \in Node, NEW q \in Node,
                              Came(p, y)', Came(q, y)', p # q, Hops[y.dst][q] <= Hops[y.dst][p]
                       PROVE  /\ Route[p][y.dst] # Nowhere
                              /\ Came(Route[p][y.dst], y)'
                              /\ Hops[y.dst][q] <= Hops[y.dst][Route[p][y.dst]]
            BY DEF OnePath
        <3>2. y # x
            BY <2>1, <2>4, <3>1
        <3>3. /\ Route[p][y.dst] # Nowhere
              /\ Came(Route[p][y.dst], y)
              /\ Hops[y.dst][q] <= Hops[y.dst][Route[p][y.dst]]
            BY <1>2, <1>4, <2>4, <3>1, <3>2 DEF OnePath
        <3>4. y.dst \in AppEid
            <4>1. accepted \subseteq Message /\ y \in accepted
                BY <1>1, <1>2, <3>2 DEF TypeOK
            <4>. QED
                BY <4>1 DEF Message
        <3>5. Route[p][y.dst] \in Node
            BY <3>3, <3>4, RouteAssumption
        <3>. QED
            BY <2>4, <3>3, <3>5
    <2>8. OnceIfBoundFirst'
        <3>1. ASSUME NEW y \in again' PROVE y \in again
            BY <1>4, <1>6, <2>1, <3>1, ApplicationAssumption DEF CopiesCame
        <3>. QED
            BY <1>2, <1>4, <1>7, <1>8, <3>1 DEF OnceIfBoundFirst
    <2>. QED
        BY <2>5, <2>6, <2>7, <2>8
<1>. QED
    BY <1>10, <1>11

\* A bundle comes from its custodian.  New to the filter, it carries a message
\* that never came here before, or that has been misread.
LEMMA ReceivePath ==
    ASSUME NetInv, PathInv, NEW m \in wire, ReceiveBundle(m)
    PROVE  PathInv'
<1>1. PICK b \in Decoded(m.to, m.bundle) : TakeIn(m.to, b) /\ Reading(m.bundle, b, {b.msg})
    BY DEF ReceiveBundle
<1>. DEFINE n == m.to
            x == b.msg
            c == b.cust
            H == Hops[x.dst]
<1>2. /\ n \in Node /\ b \in Bundle /\ c \in Node /\ x \in Message /\ x.dst \in AppEid
      /\ KeyOf(b) \in Key /\ Matches(x, KeyOf(b)) /\ c = m.bundle.cust /\ x = m.bundle.msg
    BY Received
<1>3. x \in accepted /\ n = Route[c][x.dst] /\ n # Nowhere /\ TypeOK
    BY <1>2, Received, EndpointAssumption DEF NetInv
<1>4. H[n] < H[c] /\ n # c /\ \A o \in Node : H[o] \in Nat
    BY <1>2, Received, HopsAreNumbers
<1>5. /\ InsertCustody(n, b) /\ wire' \subseteq wire
      /\ \A r \in signals' : r \in signals \/ (r \in Sent(n, c, KeyOf(b)) /\ Fresh(n, b))
      /\ UNCHANGED <<binds, tally, accepted, atRisk>>
    BY <1>1, WithoutIsSmaller DEF ReceiveBundle, TakeIn, MustSignal
<1>6. misread \subseteq misread' /\ (x \notin misread' => b = m.bundle)
    BY <1>1 DEF Reading
<1>7. x \notin misread' => b.seq = x.seq
    BY <1>2, <1>6 DEF PathInv, ReadRight
<1>. HIDE DEF n, x, c, H
<1>8. ReadRight'
    <2>1. \A o \in Node : \A d \in list'[o] \cup replicas'[o] :
                d \in list[o] \cup replicas[o] \/ d = b
        BY <1>2, <1>3, <1>5, TakenIn
    <2>. QED
        BY <1>5, <1>6, <1>7, <2>1 DEF PathInv, ReadRight, x
<1>9. BoundAtHome'
    BY <1>5 DEF PathInv, BoundAtHome
<1>10. SignalsComeBack'
    <2>1. ASSUME NEW r \in signals'
          PROVE  \E y \in accepted : Matches(y, r.named) /\ Route[r.cust][y.dst] # Nowhere
        <3>1. CASE r \in signals
            BY <3>1 DEF PathInv, SignalsComeBack
        <3>2. CASE r \notin signals
            <4>1. r \in Sent(n, c, KeyOf(b))
                BY <1>5, <3>2
            <4>2. r.cust = c /\ r.named = KeyOf(b)
                BY <1>2, <4>1, SentTypes
            <4>. QED
                BY <1>2, <1>3, <4>2
        <3>. QED
            BY <3>1, <3>2
    <2>. QED
        BY <1>5, <2>1 DEF SignalsComeBack
<1>. SUFFICES ASSUME tally.crashes = 0
              PROVE  CopiesCame' /\ CameFrom' /\ OnePath' /\ OnceIfBoundFirst'
    BY <1>5, <1>9, <1>10, <1>8 DEF PathInv, OnceIfBoundFirst
<1>11. CopiesCame /\ CameFrom /\ OnePath /\ OnceIfBoundFirst /\ BoundAtHome
    BY DEF PathInv
<1>12. /\ replicas' = IF Fresh(n, b) THEN [replicas EXCEPT ![n] = @ \cup {b}] ELSE replicas
       /\ \A o \in Node : /\ list[o] \subseteq list'[o]
                          /\ \A d \in list'[o] : d \in list[o] \/ (Fresh(n, b) /\ o = n /\ d = b)
       /\ \A r \in Socket : \A y \in got'[r] :
             y \in got[r] \/ (Fresh(n, b) /\ y = x /\ Home[r] = n)
       /\ \A y \in again' :
             y \in again \/ (Fresh(n, b) /\ y = x /\ \E r \in Socket : Home[r] = n /\ y \in got[r])
    BY <1>2, <1>3, <1>5, <1>11, InsertReaches DEF x
<1>13. \A o \in Node : Held(o) \subseteq Held(o)'
    BY <1>12 DEF Held
<1>14. \A o, e : IsLocal(o, e)' <=> IsLocal(o, e)
    BY <1>5 DEF IsLocal
<1>15. Came(c, x)
    BY <1>2, <1>11 DEF CopiesCame
<1>16. CASE ~Fresh(n, b)
    <2>1. replicas' = replicas
        BY <1>12, <1>16
    <2>2. \A o, y : Came(o, y)' <=> Came(o, y)
        BY <2>1 DEF Came
    <2>3. CopiesCame'
        <3>1. \A o \in Node : list'[o] \subseteq replicas'[o]
            BY <1>11, <1>12, <1>16, <2>1 DEF CopiesCame
        <3>2. \A r \in Socket : \A y \in got'[r] : Came(Home[r], y)'
            BY <1>11, <1>12, <1>16, <2>2 DEF CopiesCame
        <3>. QED
            BY <1>5, <1>11, <2>2, <3>1, <3>2 DEF CopiesCame
    <2>4. CameFrom' /\ OnePath'
        BY <1>5, <1>11, <2>1, <2>2 DEF CameFrom, OnePath
    <2>5. OnceIfBoundFirst'
        BY <1>5, <1>11, <1>12, <1>13, <1>14, <1>16, <1>6 DEF OnceIfBoundFirst
    <2>. QED
        BY <2>3, <2>4, <2>5
<1>17. CASE Fresh(n, b)
    <2>1. Came(n, x) => x \in misread'
        <3>1. SUFFICES ASSUME NEW d \in replicas[n], d.msg = x, x \notin misread'
                       PROVE  FALSE
            BY DEF Came
        <3>2. d \in Bundle /\ d.cust \in Node /\ d.seq = x.seq
            BY <1>2, <1>3, <1>6, <3>1 DEF TypeOK, Bundle, PathInv, ReadRight
        <3>3. CASE d.cust = n
            <4>1. H[c] <= H[n]
                BY <1>2, <1>11, <1>15, <3>1, <3>3 DEF CameFrom, H
            <4>. QED
                BY <1>2, <1>4, <4>1
        <3>4. CASE d.cust = c
            <4>1. d = b
                BY <1>2, <1>7, <3>1, <3>2, <3>4 DEF Bundle, c, x
            <4>. QED
                BY <1>17, <4>1 DEF Fresh
        <3>5. CASE d.cust # n /\ d.cust # c
            <4>. DEFINE p == d.cust
            <4>1. Came(p, x) /\ Route[p][x.dst] = n
                BY <1>2, <1>11, <3>1, <3>5 DEF CameFrom
            <4>2. H[n] < H[p]
                BY <1>2, <1>3, <3>2, <4>1, LoopFreeAssumption DEF H
            <4>3. CASE H[c] <= H[p]
                <5>1. H[c] <= H[n]
                    BY <1>3, <1>11, <1>15, <1>2, <3>2, <3>5, <4>1, <4>3 DEF OnePath, H
                <5>. QED
                    BY <1>2, <1>4, <5>1
            <4>4. CASE H[p] <= H[c]
                <5>1. H[p] <= H[n]
                    BY <1>3, <1>11, <1>15, <1>2, <3>2, <3>5, <4>1, <4>4 DEF OnePath, H
                <5>. QED
                    BY <1>2, <1>4, <3>2, <4>2, <5>1
            <4>. QED
                BY <1>2, <1>4, <3>2, <4>3, <4>4
        <3>. QED
            BY <3>3, <3>4, <3>5
    <2>2. \A o \in Node : replicas'[o] = IF o = n THEN replicas[o] \cup {b} ELSE replicas[o]
        BY <1>2, <1>3, <1>12, <1>17 DEF TypeOK
    <2>3. \A o \in Node : \A y : Came(o, y)' <=> Came(o, y) \/ (o = n /\ y = x)
        BY <1>2, <2>2 DEF Came, x
    <2>4. CopiesCame'
        <3>1. \A o \in Node : list'[o] \subseteq replicas'[o]
            BY <1>11, <1>12, <2>2 DEF CopiesCame
        <3>2. \A r \in Socket : Home[r] \in Node
            BY ApplicationAssumption
        <3>3. \A r \in Socket : \A y \in got'[r] : Came(Home[r], y)'
            BY <1>11, <1>12, <2>3, <3>2 DEF CopiesCame
        <3>4. \A r \in wire : r.bundle.cust \in Node
            BY <1>3 DEF TypeOK, Arrival, Bundle
        <3>. QED
            BY <1>5, <1>11, <2>3, <3>1, <3>3, <3>4 DEF CopiesCame
    <2>5. CameFrom'
        <3>1. ASSUME NEW y \in accepted'
              PROVE  \E r \in Socket :
                        Names[r] = y.src /\ [cust |-> Home[r], seq |-> y.seq, msg |-> y] \in replicas'[Home[r]]
            <4>1. PICK r \in Socket : /\ Names[r] = y.src
                                      /\ [cust |-> Home[r], seq |-> y.seq, msg |-> y] \in replicas[Home[r]]
                BY <1>5, <1>11 DEF CameFrom
            <4>2. Home[r] \in Node
                BY ApplicationAssumption
            <4>3. replicas[Home[r]] \subseteq replicas'[Home[r]]
                BY <2>2, <4>2
            <4>. QED
                BY <4>1, <4>3
        <3>2. ASSUME NEW o \in Node, NEW d \in replicas'[o]
              PROVE  IF d.cust = o
                     THEN \A p \in Node : Came(p, d.msg)' => Hops[d.msg.dst][p] <= Hops[d.msg.dst][o]
                     ELSE Came(d.cust, d.msg)' /\ Route[d.cust][d.msg.dst] = o
            <4>1. CASE d \in replicas[o]
                <5>1. d \in Bundle /\ d.cust \in Node /\ d.msg.dst \in AppEid
                    BY <1>3, <4>1 DEF TypeOK, Bundle, Message
                <5>2. CASE d.cust = o
                    <6>1. \A p \in Node : Came(p, d.msg) => Hops[d.msg.dst][p] <= Hops[d.msg.dst][o]
                        BY <1>11, <4>1, <5>2 DEF CameFrom
                    <6>2. d.msg = x => H[n] <= H[o]
                        <7>1. SUFFICES ASSUME d.msg = x PROVE H[n] <= H[o]
                            OBVIOUS
                        <7>2. H[c] <= H[o]
                            BY <1>2, <1>15, <6>1, <7>1 DEF H
                        <7>. QED
                            BY <1>2, <1>4, <7>2
                    <6>. QED
                        BY <2>3, <5>2, <6>1, <6>2 DEF H
                <5>3. CASE d.cust # o
                    BY <1>11, <2>3, <4>1, <5>1, <5>3 DEF CameFrom
                <5>. QED
                    BY <5>2, <5>3
            <4>2. CASE d \notin replicas[o]
                <5>1. d = b /\ o = n
                    BY <2>2, <3>2, <4>2
                <5>. QED
                    BY <1>2, <1>3, <1>4, <1>15, <2>3, <5>1 DEF c, x
            <4>. QED
                BY <4>1, <4>2
        <3>. QED
            BY <3>1, <3>2 DEF CameFrom
    <2>6. OnePath'
        <3>1. SUFFICES ASSUME NEW y \in accepted, NEW p \in Node, NEW q \in Node,
                              Came(p, y)', Came(q, y)', p # q, Hops[y.dst][q] <= Hops[y.dst][p]
                       PROVE  /\ Route[p][y.dst] # Nowhere
                              /\ Came(Route[p][y.dst], y)'
                              /\ Hops[y.dst][q] <= Hops[y.dst][Route[p][y.dst]]
            BY <1>5 DEF OnePath
        <3>2. y.dst \in AppEid
            BY <1>3 DEF TypeOK, Message
        <3>3. ASSUME Came(p, y), Came(q, y)
              PROVE  /\ Route[p][y.dst] # Nowhere
                     /\ Came(Route[p][y.dst], y)'
                     /\ Hops[y.dst][q] <= Hops[y.dst][Route[p][y.dst]]
            <4>1. /\ Route[p][y.dst] # Nowhere
                  /\ Came(Route[p][y.dst], y)
                  /\ Hops[y.dst][q] <= Hops[y.dst][Route[p][y.dst]]
                BY <1>11, <3>1, <3>3 DEF OnePath
            <4>2. Route[p][y.dst] \in Node
                BY <3>2, <4>1, RouteAssumption
            <4>. QED
                BY <2>3, <4>1, <4>2
        <3>4. CASE p = n /\ y = x /\ ~Came(n, x)
            <4>1. Came(q, x) /\ q # n
                BY <2>3, <3>1, <3>4
            <4>2. H[q] < H[c]
                BY <1>2, <1>4, <3>1, <3>4 DEF H
            <4>3. q # c /\ H[q] <= H[c]
                BY <1>2, <1>4, <4>2
            <4>4. Came(n, x)
                BY <1>2, <1>3, <1>11, <1>15, <4>1, <4>3 DEF OnePath, H
            <4>. QED
                BY <3>4, <4>4
        <3>5. CASE q = n /\ y = x /\ ~Came(n, x)
            <4>1. Came(p, x) /\ p # n
                BY <2>3, <3>1, <3>5
            <4>2. CASE p = c
                <5>1. Route[p][x.dst] = n /\ Came(n, x)' /\ H[n] <= H[n]
                    BY <1>2, <1>3, <1>4, <2>3, <4>2
                <5>. QED
                    BY <1>3, <3>5, <5>1 DEF H
            <4>3. CASE p # c
                <5>1. ~(H[p] <= H[c])
                    <6>1. SUFFICES ASSUME H[p] <= H[c] PROVE Came(n, x)
                        BY <3>5
                    <6>. QED
                        BY <1>2, <1>3, <1>11, <1>15, <4>1, <4>3, <6>1 DEF OnePath, H
                <5>2. H[c] <= H[p]
                    BY <1>2, <1>4, <5>1
                <5>3. /\ Route[p][x.dst] # Nowhere
                      /\ Came(Route[p][x.dst], x)
                      /\ H[c] <= H[Route[p][x.dst]]
                    BY <1>2, <1>3, <1>11, <1>15, <4>1, <4>3, <5>2 DEF OnePath, H
                <5>4. Route[p][x.dst] \in Node
                    BY <1>2, <5>3, RouteAssumption
                <5>5. H[n] <= H[Route[p][x.dst]]
                    BY <1>2, <1>4, <5>3, <5>4
                <5>. QED
                    BY <2>3, <3>5, <5>3, <5>4, <5>5 DEF H
            <4>. QED
                BY <4>2, <4>3
        <3>. QED
            BY <2>3, <3>1, <3>3, <3>4, <3>5
    <2>7. OnceIfBoundFirst'
        <3>1. ASSUME NEW y \in again' PROVE y \in again \/ y \in misread'
            BY <1>11, <1>12, <2>1, <3>1 DEF CopiesCame
        <3>. QED
            BY <1>5, <1>11, <1>13, <1>14, <1>6, <3>1 DEF OnceIfBoundFirst
    <2>. QED
        BY <2>4, <2>5, <2>6, <2>7
<1>. QED
    BY <1>16, <1>17

\* A signal releases no entry that is for an application here: the forward
\* table of its home knows no next hop for it.
LEMMA ReleasePath ==
    ASSUME EndpointsAtHome, NetInv, PathInv, NEW m \in signals, Release(m),
           UNCHANGED <<got, again, wire, binds, replicas, tally, accepted, atRisk>>
    PROVE  PathInv'
<1>. DEFINE n == m.to
<1>1. n \in Node /\ n = m.cust /\ signals' \subseteq signals /\ TypeOK
    BY WithoutIsSmaller DEF Release, NetInv, TypeOK, Signal
<1>2. BoundAtHome'
    BY DEF PathInv, BoundAtHome
<1>3. \A o \in Node : \A e : IsLocal(o, e) => IsLocal(o, e)'
    BY DEF IsLocal
<1>4. misread \subseteq misread'
    BY DEF Release, Reading
<1>5. CASE list' = list
    BY <1>1, <1>2, <1>3, <1>5, <1>4, QuietPath
<1>6. CASE list' # list
    <2>1. \E b \in list[n], y \in accepted :
              /\ b.msg \in accepted /\ list' = [list EXCEPT ![n] = @ \ {b}]
              /\ Matches(y, m.named)
              /\ b.msg = y \/ {b.msg, y} \subseteq atRisk
        BY <1>6, Released
    <2>2. PICK b \in list[n], y \in accepted :
              /\ b.msg \in accepted /\ list' = [list EXCEPT ![n] = @ \ {b}]
              /\ Matches(y, m.named)
              /\ b.msg = y \/ {b.msg, y} \subseteq atRisk
        BY <2>1
    <2>. HIDE DEF n
    <2>3. \A o \in Node : list'[o] = IF o = n THEN list[o] \ {b} ELSE list[o]
        BY <1>1, <2>2 DEF TypeOK
    <2>4. \A o, x : Came(o, x)' <=> Came(o, x)
        BY DEF Came
    <2>5. SignalsComeBack' /\ ReadRight'
        BY <1>1, <1>4, <2>3 DEF PathInv, SignalsComeBack, ReadRight
    <2>6. ASSUME tally.crashes = 0 PROVE CopiesCame' /\ CameFrom' /\ OnePath'
        <3>1. CopiesCame /\ CameFrom /\ OnePath
            BY <2>6 DEF PathInv
        <3>2. CopiesCame'
            BY <2>3, <2>4, <3>1 DEF CopiesCame
        <3>. QED
            BY <2>4, <3>1, <3>2 DEF CameFrom, OnePath
    <2>7. b.msg \in atRisk \/ ~IsLocal(n, b.msg.dst)
        <3>1. SUFFICES ASSUME b.msg \notin atRisk, IsLocal(n, b.msg.dst) PROVE FALSE
            OBVIOUS
        <3>2. PICK z \in accepted : Matches(z, m.named) /\ Route[n][z.dst] # Nowhere
            BY <1>1 DEF PathInv, SignalsComeBack
        <3>3. z = b.msg
            <4>1. b.msg = y /\ m.named \in Key
                BY <1>1, <2>2, <3>1 DEF TypeOK, Signal
            <4>. QED
                BY <2>2, <3>1, <3>2, <4>1, SameOrAtRisk
        <3>4. PICK i \in DOMAIN binds[n] : Names[binds[n][i]] = b.msg.dst
            BY <3>1 DEF IsLocal
        <3>5. binds[n] \in Seq(Socket)
            BY <1>1 DEF TypeOK
        <3>6. binds[n][i] \in Socket /\ Home[binds[n][i]] = n
            BY <1>1, <3>4, <3>5 DEF PathInv, BoundAtHome
        <3>. QED
            BY <3>2, <3>3, <3>4, <3>6 DEF EndpointsAtHome
    <2>8. OnceIfBoundFirst'
        <3>1. SUFFICES ASSUME tally.crashes = 0, NEW x \in again \ (atRisk \cup misread')
                       PROVE  \E o \in Node : x \in Held(o)' /\ IsLocal(o, x.dst)'
            BY DEF OnceIfBoundFirst
        <3>2. PICK o \in Node : x \in Held(o) /\ IsLocal(o, x.dst)
            BY <1>4, <3>1 DEF PathInv, OnceIfBoundFirst
        <3>3. PICK d \in list[o] : d.msg = x
            BY <3>2 DEF Held
        <3>4. d \in list'[o]
            BY <2>3, <2>7, <3>1, <3>2, <3>3
        <3>5. x \in Held(o)'
            BY <3>3, <3>4 DEF Held
        <3>. QED
            BY <1>3, <3>2, <3>5
    <2>. QED
        BY <1>2, <2>5, <2>6, <2>8 DEF PathInv
<1>. QED
    BY <1>5, <1>6

\* A scan hands over again what is kept in the list.
LEMMA ScanPath ==
    ASSUME NetInv, PathInv, NEW n \in Node, Scan(n)
    PROVE  PathInv'
<1>. DEFINE there == {b \in list[n] : IsLocal(n, b.msg.dst)}
            X == {b.msg : b \in there}
<1>1. /\ Dispatch(n, X) /\ wire' = wire \cup Forwarded(n, list[n] \ there)
      /\ UNCHANGED <<signals, binds, list, replicas, tally, accepted, misread, atRisk>>
    BY DEF Scan
<1>2. list[n] \ there \in SUBSET Bundle /\ TypeOK
    BY DEF NetInv, TypeOK
<1>3. \A x \in X : x \in Held(n) /\ IsLocal(n, x.dst)
    BY DEF Held
<1>4. \A b \in list[n] \ there : b.msg \in Held(n)
    BY DEF Held
<1>. HIDE DEF there, X
<1>5. \A m \in Forwarded(n, list[n] \ there) :
         /\ m.bundle.cust = n
         /\ \E b \in list[n] \ there : m.bundle.msg = b.msg /\ m.bundle.seq = b.seq
    BY <1>2, ForwardedTypes, StoredTypes
<1>6. ReadRight'
    BY <1>1, <1>5 DEF PathInv, ReadRight
<1>7. BoundAtHome' /\ SignalsComeBack' /\ ReadRight'
    BY <1>1, <1>6 DEF PathInv, BoundAtHome, SignalsComeBack
<1>. SUFFICES ASSUME tally.crashes = 0
              PROVE  CopiesCame' /\ CameFrom' /\ OnePath' /\ OnceIfBoundFirst'
    BY <1>1, <1>7 DEF PathInv, OnceIfBoundFirst
<1>8. CopiesCame /\ CameFrom /\ OnePath /\ OnceIfBoundFirst /\ BoundAtHome
    BY DEF PathInv
<1>9. /\ \A s \in Socket : \A x \in got'[s] : x \in got[s] \/ (x \in X /\ Home[s] = n)
      /\ \A x \in again' : x \in again \/ x \in X
    BY <1>1, <1>2, <1>3, <1>8, DispatchReaches
<1>10. \A o, x : Came(o, x)' <=> Came(o, x)
    BY <1>1 DEF Came
<1>11. \A o : Held(o)' = Held(o)
    BY <1>1 DEF Held
<1>12. \A o, e : IsLocal(o, e)' <=> IsLocal(o, e)
    BY <1>1 DEF IsLocal
<1>13. \A x \in Held(n) : Came(n, x)
    BY <1>8 DEF Held, Came, CopiesCame
<1>14. CopiesCame'
    <2>1. \A m \in wire' : Came(m.bundle.cust, m.bundle.msg)
        BY <1>1, <1>4, <1>8, <1>13, <1>5 DEF CopiesCame
    <2>2. \A s \in Socket : \A x \in got'[s] : Came(Home[s], x)
        BY <1>3, <1>8, <1>9, <1>13 DEF CopiesCame
    <2>. QED
        BY <1>1, <1>8, <1>10, <2>1, <2>2 DEF CopiesCame
<1>15. CameFrom' /\ OnePath'
    BY <1>1, <1>8, <1>10 DEF CameFrom, OnePath
<1>16. OnceIfBoundFirst'
    <2>1. ASSUME NEW x \in again' \ (atRisk \cup misread)
          PROVE  \E o \in Node : x \in Held(o) /\ IsLocal(o, x.dst)
        BY <1>3, <1>8, <1>9, <2>1 DEF OnceIfBoundFirst
    <2>. QED
        BY <1>1, <1>11, <1>12, <2>1 DEF OnceIfBoundFirst
<1>. QED
    BY <1>14, <1>15, <1>16

LEMMA PathInit == Init => PathInv
    BY DEF Init, PathInv, ReadRight, BoundAtHome, SignalsComeBack, CopiesCame, CameFrom,
           OnePath, OnceIfBoundFirst

LEMMA PathStep ==
    ASSUME EndpointsAtHome
    PROVE  NetInv /\ PathInv /\ [Next]_vars => PathInv'
<1>. SUFFICES ASSUME NetInv, PathInv, [Next]_vars PROVE PathInv'
    OBVIOUS
<1>1. ASSUME NEW s \in Socket, bp_bind(s) PROVE PathInv'
    <2>1. Home[s] \in Node /\ binds \in [Node -> Seq(Socket)]
        BY ApplicationAssumption DEF NetInv, TypeOK
    <2>2. \A n \in Node : binds'[n] = binds[n] \/ (n = Home[s] /\ binds'[n] = Append(binds[n], s))
        BY <1>1, <2>1 DEF bp_bind
    <2>3. ASSUME NEW n \in Node
          PROVE  /\ \A i \in DOMAIN binds'[n] :
                       \/ i \in DOMAIN binds[n] /\ binds'[n][i] = binds[n][i]
                       \/ binds'[n][i] = s /\ n = Home[s]
                 /\ \A i \in DOMAIN binds[n] :
                       i \in DOMAIN binds'[n] /\ binds'[n][i] = binds[n][i]
        <3>1. binds[n] \in Seq(Socket)
            BY <2>1
        <3>2. CASE binds'[n] = Append(binds[n], s) /\ n = Home[s]
            BY <3>1, <3>2
        <3>. QED
            BY <2>2, <3>2
    <2>4. BoundAtHome'
        BY <2>3 DEF PathInv, BoundAtHome
    <2>5. \A n \in Node : \A e : IsLocal(n, e) => IsLocal(n, e)'
        BY <2>3 DEF IsLocal
    <2>. QED
        BY <1>1, <2>4, <2>5, QuietPath DEF bp_bind
<1>2. ASSUME UNCHANGED <<got, again, binds, list, replicas, tally, accepted, atRisk>>,
             wire' \subseteq wire, misread \subseteq misread',
             \A s \in signals' : \E m \in signals : s.cust = m.cust /\ s.named = m.named
      PROVE  PathInv'
    <2>1. BoundAtHome'
        BY <1>2 DEF PathInv, BoundAtHome
    <2>2. \A n \in Node : \A e : IsLocal(n, e) => IsLocal(n, e)'
        BY <1>2 DEF IsLocal
    <2>. QED
        BY <1>2, <2>1, <2>2, QuietPath
<1>3. ASSUME NEW s \in Socket, bp_close(s) PROVE PathInv'
    BY <1>2, <1>3 DEF bp_close
<1>4. ASSUME NEW s \in Socket, SendUnbound(s) PROVE PathInv'
    <2>1. tally'.crashes # 0
        BY <1>4 DEF SendUnbound, NetInv, TypeOK
    <2>. QED
        BY <1>4, <2>1, CrashPath, ApplicationAssumption DEF SendUnbound
<1>5. ASSUME NEW s \in Socket, NEW e \in Targets[s], NEW text \in Text,
             bp_sendto(s, e, text)
      PROVE  PathInv'
    <2>1. Composed(s, e, text) \in Message /\ Composed(s, e, text).src = Names[s]
        BY ComposedTypes DEF NetInv, Composed
    <2>2. Accept(s, Composed(s, e, text)) /\ tally'.crashes = tally.crashes
        BY <1>5 DEF bp_sendto, NetInv, TypeOK
    <2>. QED
        BY <2>1, <2>2, AcceptPath
<1>6. ASSUME NEW m \in wire, ReceiveBundle(m) PROVE PathInv'
    BY <1>6, ReceivePath
<1>7. ASSUME NEW m \in signals, ReceiveSignal(m) PROVE PathInv'
    <2>1. UNCHANGED <<got, again, wire, binds, replicas, tally, accepted, atRisk>>
        BY <1>7 DEF ReceiveSignal
    <2>2. CASE Release(m)
        BY <2>1, <2>2, ReleasePath
    <2>3. CASE PassOn(m)
        BY <1>2, <2>1, <2>3, PassedOn DEF PassOn
    <2>. QED
        BY <1>7, <2>2, <2>3 DEF ReceiveSignal
<1>8. ASSUME NEW n \in Node, Scan(n) PROVE PathInv'
    BY <1>8, ScanPath
<1>9. ASSUME NEW n \in Node, Crash(n) PROVE PathInv'
    <2>1. tally \in [sends : 0..MaxSends, crashes : 0..MaxCrashes] /\ MaxCrashes \in Nat
        BY BoundAssumption DEF NetInv, TypeOK
    <2>2. tally'.crashes = tally.crashes + 1 /\ tally.crashes \in Nat
        BY <1>9, <2>1 DEF Crash
    <2>3. tally'.crashes # 0
        BY <2>2
    <2>. QED
        BY <1>9, <2>3, CrashPath DEF Crash
<1>10. ASSUME NEW n \in Node, Restart(n) PROVE PathInv'
    BY <1>2, <1>10 DEF Restart
<1>11. CASE Lose \/ Tick \/ UNCHANGED vars
    BY <1>2, <1>11 DEF Lose, Tick, vars
<1>. QED
    BY <1>1, <1>3, <1>4, <1>5, <1>6, <1>7, <1>8, <1>9, <1>10, <1>11 DEF Next, Application

\* While no daemon dies, an application receives a message a second time only
\* out of the list of its own daemon, where it is because it came before the
\* application had bound, or when the message's key may be another's, or when
\* some daemon has read its number amiss.
THEOREM OnceUnlessKept ==
    ASSUME EndpointsAtHome
    PROVE  Spec => []OnceIfBoundFirst
<1>1. Init => PathInv
    BY PathInit
<1>2. NetInv /\ PathInv /\ [Next]_vars => PathInv'
    BY PathStep
<1>3. PathInv => OnceIfBoundFirst
    BY DEF PathInv
<1>. QED
    BY <1>1, <1>2, <1>3, NetInvariant, PTL DEF Spec

-----------------------------------------------------------------------------
(***************************************************************************)
(* An orphan stays one.                                                    *)
(***************************************************************************)
\* A signal for a custodian comes up only when its next hop takes a bundle in
\* that its filter does not know.
LEMMA NoSignalComesUp ==
    ASSUME NetInv, NEW n \in Node, NEW b \in list[n], Orphan(n, b),
           b.msg \notin atRisk' \cup misread', NEW m \in wire, ReceiveBundle(m)
    PROVE  \A s \in signals' : ~(s.cust = n /\ s.named = KeyOf(b))
<1>1. PICK d \in Decoded(m.to, m.bundle) : TakeIn(m.to, d) /\ Reading(m.bundle, d, {d.msg})
    BY DEF ReceiveBundle
<1>2. /\ m.to \in Node /\ d \in Bundle /\ d.cust \in Node /\ KeyOf(d) \in Key
      /\ d.msg \in accepted /\ Matches(d.msg, KeyOf(d)) /\ m.to = Route[d.cust][d.msg.dst]
    BY Received
<1>3. b \in Bundle /\ b.msg \in accepted /\ Matches(b.msg, KeyOf(b))
    BY DEF NetInv, TypeOK, Promise, Copies, NothingInvented, NumbersMatch
<1>4. /\ atRisk' = atRisk
      /\ \A s \in signals' : s \in signals \/ (s \in Sent(m.to, d.cust, KeyOf(d)) /\ Fresh(m.to, d))
    BY <1>1 DEF ReceiveBundle, TakeIn, MustSignal
<1>5. SUFFICES ASSUME NEW s \in signals', s.cust = n, s.named = KeyOf(b)
               PROVE  FALSE
    OBVIOUS
<1>6. s \in Sent(m.to, d.cust, KeyOf(d)) /\ Fresh(m.to, d)
    BY <1>4, <1>5 DEF Orphan
<1>7. d.cust = n /\ KeyOf(d) = KeyOf(b)
    BY <1>2, <1>5, <1>6, SentTypes
<1>8. d.msg = b.msg
    BY <1>2, <1>3, <1>4, <1>7, SameOrAtRisk
<1>9. d = Stored(n, b)
    BY <1>2, <1>3, <1>7, <1>8 DEF Stored, Bundle, KeyOf
<1>10. d \in replicas[m.to]
    BY <1>2, <1>7, <1>8, <1>9 DEF Orphan
<1>. QED
    BY <1>6, <1>10 DEF Fresh

\* A signal releases only what it names, unless its key has been misread.
LEMMA OrphanIsNotReleased ==
    ASSUME NetInv, NEW n \in Node, NEW b \in list[n], Orphan(n, b),
           NEW m \in signals, Release(m), atRisk' = atRisk, b.msg \notin atRisk' \cup misread'
    PROVE  b \in list'[n]
<1>1. CASE list' = list
    BY <1>1
<1>2. CASE list' # list
    <2>1. \E d \in list[m.to], x \in accepted :
              /\ m.cust = m.to /\ KeyOf(d) # m.named => {y \in accepted : Matches(y, m.named)} \subseteq misread'
              /\ list' = [list EXCEPT ![m.to] = @ \ {d}]
              /\ Matches(x, m.named)
              /\ d.msg = x \/ {d.msg, x} \subseteq atRisk
        BY <1>2, Released
    <2>2. PICK d \in list[m.to], x \in accepted :
              /\ m.cust = m.to /\ KeyOf(d) # m.named => {y \in accepted : Matches(y, m.named)} \subseteq misread'
              /\ list' = [list EXCEPT ![m.to] = @ \ {d}]
              /\ Matches(x, m.named)
              /\ d.msg = x \/ {d.msg, x} \subseteq atRisk
        BY <2>1
    <2>3. m.cust = m.to
        BY DEF Release
    <2>4. ~(m.to = n /\ d = b)
        <3>1. SUFFICES ASSUME m.to = n, d = b PROVE FALSE
            OBVIOUS
        <3>2. KeyOf(b) # m.named
            BY <2>3, <3>1 DEF Orphan
        <3>3. b.msg = x
            BY <2>2, <3>1
        <3>4. x \in misread'
            BY <2>2, <2>3, <3>1, <3>2
        <3>. QED
            BY <3>3, <3>4
    <2>. QED
        BY <2>2, <2>4 DEF NetInv, TypeOK
<1>. QED
    BY <1>1, <1>2

LEMMA OrphanStep ==
    ASSUME NetInv, [Next]_vars, NEW n \in Node, NEW b \in list[n], Orphan(n, b),
           b.msg \notin atRisk' \cup misread', {n, Route[n][b.msg.dst]} \subseteq up'
    PROVE  Orphan(n, b)'
<1>. DEFINE r == Route[n][b.msg.dst]
            Quiet == \A s \in signals' : ~(s.cust = n /\ s.named = KeyOf(b))
<1>1. /\ b \in Bundle /\ b.msg \in Message /\ b.msg.dst \in AppEid /\ r # Nowhere
      /\ Stored(n, b) \in replicas[r] /\ TypeOK
    <2>1. TypeOK /\ b \in Bundle
        BY DEF NetInv, TypeOK
    <2>2. b.msg \in Message /\ b.msg.dst \in AppEid
        BY <2>1 DEF Bundle, Message
    <2>. QED
        BY <2>1, <2>2 DEF Orphan
<1>2. r \in Node
    BY <1>1, RouteAssumption
<1>3. ASSUME b \in list'[n], Stored(n, b) \in replicas'[r], Quiet
      PROVE  Orphan(n, b)'
    BY <1>1, <1>3 DEF Orphan
<1>4. ASSUME UNCHANGED <<list, replicas>>, signals' \subseteq signals
      PROVE  Orphan(n, b)'
    BY <1>1, <1>3, <1>4 DEF Orphan
<1>5. ASSUME NEW o \in Node, NEW d \in Bundle, InsertCustody(o, d), Quiet
      PROVE  Orphan(n, b)'
    <2>1. list[n] \subseteq list'[n] /\ replicas[r] \subseteq replicas'[r]
        <3>1. \/ list' = list
              \/ list' = [list EXCEPT ![o] = @ \cup {d}]
            BY <1>1, <1>5, InsertCustodyEffect
        <3>2. replicas' = replicas \/ replicas' = [replicas EXCEPT ![o] = @ \cup {d}]
            BY <1>5 DEF InsertCustody
        <3>3. list \in [Node -> SUBSET Bundle] /\ replicas \in [Node -> SUBSET Bundle]
            BY <1>1 DEF TypeOK
        <3>. HIDE DEF r, Quiet
        <3>4. list[n] \subseteq list'[n]
            BY <3>1, <3>3
        <3>5. replicas[r] \subseteq replicas'[r]
            BY <1>2, <3>2, <3>3
        <3>. QED
            BY <3>4, <3>5
    <2>. QED
        BY <1>1, <1>3, <1>5, <2>1
<1>6. ASSUME NEW o \in Node, Die(o) PROVE Orphan(n, b)'
    <2>1. o # n /\ o # r
        BY <1>6 DEF Die
    <2>2. list'[n] = list[n] /\ replicas'[r] = replicas[r] /\ signals' = signals
        BY <1>1, <1>2, <1>6, <2>1 DEF Die, TypeOK
    <2>. QED
        BY <1>1, <1>3, <2>2 DEF Orphan
<1>7. ASSUME NEW s \in Socket, bp_bind(s) \/ bp_close(s) PROVE Orphan(n, b)'
    BY <1>4, <1>7 DEF bp_bind, bp_close
<1>8. ASSUME NEW s \in Socket, SendUnbound(s) PROVE Orphan(n, b)'
    BY <1>6, <1>8, ApplicationAssumption DEF SendUnbound
<1>9. ASSUME NEW s \in Socket, NEW e \in Targets[s], NEW text \in Text,
             bp_sendto(s, e, text)
      PROVE  Orphan(n, b)'
    <2>. DEFINE x == Composed(s, e, text)
                d == [cust |-> Home[s], seq |-> x.seq, msg |-> x]
    <2>1. Home[s] \in Node /\ x \in Message
        BY <1>1, ComposedTypes, ApplicationAssumption
    <2>. HIDE DEF x
    <2>2. d \in Bundle
        BY <2>1 DEF Bundle, Message
    <2>3. InsertCustody(Home[s], d) /\ signals' = signals
        BY <1>9 DEF bp_sendto, Accept, x
    <2>. QED
        BY <1>5, <2>1, <2>2, <2>3 DEF Orphan
<1>10. ASSUME NEW m \in wire, ReceiveBundle(m) PROVE Orphan(n, b)'
    <2>1. PICK d \in Decoded(m.to, m.bundle) : TakeIn(m.to, d)
        BY <1>10 DEF ReceiveBundle
    <2>2. m.to \in Node /\ d \in Bundle /\ InsertCustody(m.to, d)
        BY <2>1, Received DEF TakeIn
    <2>3. Quiet
        BY <1>10, NoSignalComesUp
    <2>. QED
        BY <1>5, <2>2, <2>3
<1>11. ASSUME NEW m \in signals, ReceiveSignal(m) PROVE Orphan(n, b)'
    <2>1. m.to \in Node /\ replicas' = replicas
        BY <1>1, <1>11 DEF TypeOK, Signal, ReceiveSignal
    <2>2. CASE Release(m)
        <3>1. signals' \subseteq signals
            BY <2>2, WithoutIsSmaller DEF Release
        <3>2. b \in list'[n]
            BY <1>11, <2>2, OrphanIsNotReleased DEF ReceiveSignal
        <3>. QED
            BY <1>1, <1>3, <2>1, <3>1, <3>2 DEF Orphan
    <2>3. CASE PassOn(m)
        <3>1. \A s \in signals' : \E q \in signals : s.cust = q.cust /\ s.named = q.named
            BY <2>3, PassedOn
        <3>2. list' = list
            BY <2>3 DEF PassOn
        <3>. QED
            BY <1>1, <1>3, <2>1, <3>1, <3>2 DEF Orphan
    <2>. QED
        BY <1>11, <2>2, <2>3 DEF ReceiveSignal
<1>12. ASSUME NEW o \in Node, Scan(o) PROVE Orphan(n, b)'
    BY <1>4, <1>12 DEF Scan
<1>13. ASSUME NEW o \in Node, Restart(o) PROVE Orphan(n, b)'
    BY <1>4, <1>13 DEF Restart
<1>14. CASE Lose \/ Tick \/ UNCHANGED vars
    BY <1>4, <1>14 DEF Lose, Tick, vars
<1>. QED
    BY <1>6, <1>7, <1>8, <1>9, <1>10, <1>11, <1>12, <1>13, <1>14 DEF Next, Application, Crash

\* When the signal that releases a bundle is lost, the bundle stays in the list
\* until one of the two daemons dies or reads its number amiss: the next hop
\* never answers for it again.
THEOREM LostSignalIsLostForGood == Spec => OrphansStay
<1>1. NetInv /\ [Next]_vars =>
         [\A n \in Node : \A b \in list[n] :
            Orphan(n, b) /\ b.msg \notin atRisk' \cup misread'
                         /\ {n, Route[n][b.msg.dst]} \subseteq up'
               => Orphan(n, b)']_vars
    BY OrphanStep
<1>. QED
    BY <1>1, NetInvariant, PTL DEF Spec, OrphansStay
=============================================================================
