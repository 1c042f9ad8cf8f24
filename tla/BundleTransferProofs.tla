------------------------ MODULE BundleTransferProofs ------------------------
(***************************************************************************)
(* What becomes of a bundle between a sender and the receiving thread of   *)
(* another daemon, for strings, payloads and integers of any size, and     *)
(* whatever either struct held before.                                     *)
(***************************************************************************)
EXTENDS BundleTransfer, SdnvProofs

\* The fold of PrimaryLength: over sets of positions, from the last.
AddsUp(g, n, base, lens) ==
    g = [s \in SUBSET (1..n) |-> IF s = {} THEN base ELSE g[s \ {Max(s)}] + lens[Max(s)]]

LEMMA CanBeAddedUp ==
    ASSUME NEW base, NEW lens, NEW n \in Nat
    PROVE  \E g : AddsUp(g, n, base, lens)
<1>. DEFINE T == {m \in Nat : \E g : AddsUp(g, m, base, lens)}
<1>1. 0 \in T
    <2>. DEFINE g == [s \in SUBSET (1..0) |-> base]
    <2>1. \A s \in SUBSET (1..0) : s = {}
        OBVIOUS
    <2>2. AddsUp(g, 0, base, lens)
        BY <2>1 DEF AddsUp
    <2>. QED
        BY <2>2
<1>2. ASSUME NEW m \in Nat, m \in T PROVE m + 1 \in T
    <2>1. PICK g : AddsUp(g, m, base, lens)
        BY <1>2
    <2>. DEFINE h == [s \in SUBSET (1..m+1) |->
                        IF m + 1 \in s THEN g[s \ {m + 1}] + lens[m + 1] ELSE g[s]]
    <2>2. ASSUME NEW s \in SUBSET (1..m+1)
          PROVE  h[s] = IF s = {} THEN base ELSE h[s \ {Max(s)}] + lens[Max(s)]
        <3>1. CASE m + 1 \in s
            <4>1. s \in SUBSET Nat /\ m + 1 \in Nat /\ \A i \in s : i <= m + 1
                OBVIOUS
            <4>2. Max(s) = m + 1
                BY <3>1, <4>1, MaxIs
            <4>3. s \ {m + 1} \in SUBSET (1..m+1) /\ h[s \ {m + 1}] = g[s \ {m + 1}]
                OBVIOUS
            <4>4. h[s] = g[s \ {m + 1}] + lens[m + 1]
                BY <3>1
            <4>. HIDE DEF h
            <4>. QED
                BY <3>1, <4>2, <4>3, <4>4
        <3>2. CASE m + 1 \notin s
            <4>1. s \in SUBSET (1..m)
                BY <3>2
            <4>2. h[s] = g[s]
                  /\ g[s] = IF s = {} THEN base ELSE g[s \ {Max(s)}] + lens[Max(s)]
                BY <2>1, <3>2, <4>1 DEF AddsUp
            <4>3. h[s \ {Max(s)}] = g[s \ {Max(s)}]
                BY <3>2
            <4>. QED
                BY <4>2, <4>3
        <3>. QED
            BY <3>1, <3>2
    <2>3. AddsUp(h, m + 1, base, lens)
        <3>1. h = [s \in SUBSET (1..m+1) |-> h[s]]
            OBVIOUS
        <3>. HIDE DEF h
        <3>. QED
            BY <2>2, <3>1 DEF AddsUp
    <2>. QED
        BY <2>3
<1>. HIDE DEF T
<1>3. n \in T
    BY <1>1, <1>2, SetInduction
<1>. QED
    BY <1>3 DEF T

LEMMA SumIsNat ==
    ASSUME NEW base \in Nat, NEW n \in Nat, NEW lens \in [1..n -> Nat]
    PROVE  FoldLeft(LAMBDA k, len : k + len, base, lens) \in Nat
<1>. DEFINE g == CHOOSE g : AddsUp(g, n, base, lens)
<1>1. AddsUp(g, n, base, lens)
    BY CanBeAddedUp
<1>2. FoldLeft(LAMBDA k, len : k + len, base, lens) = g[1..n]
    BY DEF FoldLeft, MapThenFoldSet, AddsUp
<1>. HIDE DEF g
<1>3. \A s \in SUBSET (1..n) : g[s] = IF s = {} THEN base ELSE g[s \ {Max(s)}] + lens[Max(s)]
    BY <1>1, Zenon DEF AddsUp
<1>. DEFINE T == {k \in Nat : k <= n => g[1..k] \in Nat}
<1>4. 0 \in T
    <2>1. 1..0 = {} /\ {} \in SUBSET (1..n)
        OBVIOUS
    <2>. QED
        BY <1>3, <2>1
<1>5. ASSUME NEW m \in Nat, m \in T PROVE m + 1 \in T
    <2>. SUFFICES ASSUME m + 1 <= n PROVE g[1..m+1] \in Nat
        OBVIOUS
    <2>1. PICK k \in 1..n : k = m + 1
        OBVIOUS
    <2>2. 1..k \in SUBSET (1..n) /\ 1..k # {} /\ Max(1..k) = k /\ (1..k) \ {k} = 1..k-1
        BY FirstOnes
    <2>3. g[1..k] = g[1..k-1] + lens[k]
        BY <1>3, <2>2
    <2>4. k - 1 = m /\ g[1..m] \in Nat
        BY <1>5, <2>1
    <2>. QED
        BY <2>1, <2>3, <2>4
<1>. HIDE DEF T
<1>6. n \in T
    BY <1>4, <1>5, SetInduction
<1>7. g[1..n] \in Nat
    BY <1>6 DEF T
<1>. HIDE DEF T
<1>. QED
    BY <1>2, <1>7

-----------------------------------------------------------------------------
\* The integers of the primary block, and those of the payload block.
Primary == <<"bundle_proc_flags", "primary_block_length">> \o Header
Block == <<"block_proc_flags", "payload_block_length">>


FieldNames == {"bundle_proc_flags", "primary_block_length", "dst_scheme_offset", "dst_ssp_offset",
            "src_scheme_offset", "src_ssp_offset", "report_to_scheme_offset",
            "report_to_ssp_offset", "custodian_scheme_offset", "custodian_ssp_offset",
            "creation_time", "creation_sequence_number", "lifetime", "dictionary_length",
            "block_proc_flags", "payload_block_length"}

LEMMA TupleOf2 ==
    ASSUME NEW S, NEW a \in S, NEW b \in S
    PROVE  <<a, b>> \in Seq(S) /\ Len(<<a, b>>) = 2 /\ <<a, b>>[1] = a /\ <<a, b>>[2] = b
    OBVIOUS

LEMMA TupleOf4 ==
    ASSUME NEW S, NEW a \in S, NEW b \in S, NEW c \in S, NEW d \in S
    PROVE  /\ <<a, b, c, d>> \in Seq(S) /\ Len(<<a, b, c, d>>) = 4
           /\ <<a, b, c, d>>[1] = a /\ <<a, b, c, d>>[2] = b
           /\ <<a, b, c, d>>[3] = c /\ <<a, b, c, d>>[4] = d
    OBVIOUS

LEMMA TupleOf8 ==
    ASSUME NEW S, NEW a \in S, NEW b \in S, NEW c \in S, NEW d \in S,
           NEW e \in S, NEW f \in S, NEW g \in S, NEW h \in S
    PROVE  LET t == <<a, b, c, d, e, f, g, h>> IN
           /\ t \in Seq(S) /\ Len(t) = 8 /\ DOMAIN t = 1..8
           /\ t[1] = a /\ t[2] = b /\ t[3] = c /\ t[4] = d
           /\ t[5] = e /\ t[6] = f /\ t[7] = g /\ t[8] = h
    OBVIOUS

Joins(S, u, s, t, m, n) ==
    /\ u \in Seq(S) /\ Len(u) = m + n /\ m \in Nat /\ n \in Nat
    /\ \A i \in 1..m : u[i] = s[i]
    /\ \A i \in 1..n : u[m + i] = t[i]

LEMMA Joined ==
    ASSUME NEW S, NEW s \in Seq(S), NEW t \in Seq(S), NEW m, NEW n, Len(s) = m, Len(t) = n
    PROVE  Joins(S, s \o t, s, t, m, n)
<1>1. m \in Nat /\ n \in Nat
    BY LenProperties
<1>2. /\ s \o t \in Seq(S) /\ Len(s \o t) = Len(s) + Len(t)
      /\ \A i \in 1..Len(s) + Len(t) : (s \o t)[i] = IF i <= Len(s) THEN s[i] ELSE t[i - Len(s)]
    BY ConcatProperties, Zenon
<1>. DEFINE u == s \o t
<1>3. u \in Seq(S) /\ Len(u) = m + n
      /\ \A i \in 1..m + n : u[i] = IF i <= m THEN s[i] ELSE t[i - m]
    BY <1>2, Zenon
<1>. HIDE DEF u
<1>4. ASSUME NEW i \in 1..m PROVE u[i] = s[i]
    BY <1>1, <1>3
<1>5. ASSUME NEW i \in 1..n PROVE u[m + i] = t[i]
    <2>1. m + i \in 1..m + n /\ ~(m + i <= m) /\ (m + i) - m = i
        BY <1>1
    <2>. QED
        BY <1>3, <2>1
<1>. QED
    BY <1>1, <1>3, <1>4, <1>5 DEF u, Joins

LEMMA OffsetFields ==
    /\ DOMAIN Offsets = 1..8 /\ Len(Offsets) = 8 /\ Offsets \in Seq(FieldNames)
    /\ Offsets[1] = "dst_scheme_offset" /\ Offsets[2] = "dst_ssp_offset"
    /\ Offsets[3] = "src_scheme_offset" /\ Offsets[4] = "src_ssp_offset"
    /\ Offsets[5] = "report_to_scheme_offset" /\ Offsets[6] = "report_to_ssp_offset"
    /\ Offsets[7] = "custodian_scheme_offset" /\ Offsets[8] = "custodian_ssp_offset"
<1>1. PICK a, b, c, d, e, f, g, h :
          /\ a = "dst_scheme_offset" /\ b = "dst_ssp_offset"
          /\ c = "src_scheme_offset" /\ d = "src_ssp_offset"
          /\ e = "report_to_scheme_offset" /\ f = "report_to_ssp_offset"
          /\ g = "custodian_scheme_offset" /\ h = "custodian_ssp_offset"
    OBVIOUS
<1>2. /\ a \in FieldNames /\ b \in FieldNames /\ c \in FieldNames /\ d \in FieldNames
      /\ e \in FieldNames /\ f \in FieldNames /\ g \in FieldNames /\ h \in FieldNames
    BY <1>1 DEF FieldNames
<1>3. Offsets = <<a, b, c, d, e, f, g, h>>
    BY <1>1, Zenon DEF Offsets
<1>4. LET t == <<a, b, c, d, e, f, g, h>> IN
           /\ t \in Seq(FieldNames) /\ Len(t) = 8 /\ DOMAIN t = 1..8
           /\ t[1] = a /\ t[2] = b /\ t[3] = c /\ t[4] = d
           /\ t[5] = e /\ t[6] = f /\ t[7] = g /\ t[8] = h
    BY <1>2, TupleOf8, Zenon
<1>. QED
    BY <1>1, <1>3, <1>4

LEMMA HeaderFields ==
    /\ DOMAIN Header = 1..12 /\ Len(Header) = 12 /\ Header \in Seq(FieldNames)
    /\ \A i \in 1..8 : Header[i] = Offsets[i]
    /\ Header[9] = "creation_time" /\ Header[10] = "creation_sequence_number"
    /\ Header[11] = "lifetime" /\ Header[12] = "dictionary_length"
<1>. DEFINE rest == <<"creation_time", "creation_sequence_number", "lifetime", "dictionary_length">>
<1>1. /\ rest \in Seq(FieldNames) /\ Len(rest) = 4
      /\ rest[1] = "creation_time" /\ rest[2] = "creation_sequence_number"
      /\ rest[3] = "lifetime" /\ rest[4] = "dictionary_length"
    <2>1. /\ "creation_time" \in FieldNames /\ "creation_sequence_number" \in FieldNames
          /\ "lifetime" \in FieldNames /\ "dictionary_length" \in FieldNames
        BY DEF FieldNames
    <2>. QED
        BY <2>1, TupleOf4, Zenon
<1>2. Header = Offsets \o rest
    BY DEF Header
<1>. HIDE DEF rest
<1>3. /\ Header \in Seq(FieldNames) /\ Len(Header) = 8 + 4
      /\ \A i \in 1..8 : Header[i] = Offsets[i]
      /\ \A i \in 1..4 : Header[8 + i] = rest[i]
    <2>1. Offsets \in Seq(FieldNames)
        BY OffsetFields, Zenon
    <2>2. Len(Offsets) = 8
        BY OffsetFields, Zenon
    <2>3. Joins(FieldNames, Offsets \o rest, Offsets, rest, 8, 4)
        BY <1>1, <2>1, <2>2, Joined, Zenon
    <2>. QED
        BY <1>2, <2>3 DEF Joins
<1>4. DOMAIN Header = 1..12 /\ Len(Header) = 12
    BY <1>3, LenProperties
<1>5. Header[9] = rest[1] /\ Header[10] = rest[2] /\ Header[11] = rest[3] /\ Header[12] = rest[4]
    <2>1. Header[8 + 1] = rest[1] /\ Header[8 + 2] = rest[2] /\ Header[8 + 3] = rest[3]
          /\ Header[8 + 4] = rest[4]
        BY <1>3
    <2>. QED
        BY <2>1
<1>. QED
    BY <1>1, <1>3, <1>4, <1>5

LEMMA PrimaryFields ==
    /\ DOMAIN Primary = 1..14
    /\ Primary[1] = "bundle_proc_flags" /\ Primary[2] = "primary_block_length"
    /\ \A i \in 1..12 : Primary[i + 2] = Header[i]
<1>. DEFINE first == <<"bundle_proc_flags", "primary_block_length">>
<1>1. /\ first \in Seq(FieldNames) /\ Len(first) = 2
      /\ first[1] = "bundle_proc_flags" /\ first[2] = "primary_block_length"
    <2>1. "bundle_proc_flags" \in FieldNames /\ "primary_block_length" \in FieldNames
        BY DEF FieldNames
    <2>. QED
        BY <2>1, TupleOf2, Zenon
<1>2. Primary = first \o Header
    BY DEF Primary
<1>. HIDE DEF first
<1>3. /\ Primary \in Seq(FieldNames) /\ Len(Primary) = 2 + 12
      /\ \A i \in 1..2 : Primary[i] = first[i]
      /\ \A i \in 1..12 : Primary[2 + i] = Header[i]
    <2>1. Header \in Seq(FieldNames)
        BY HeaderFields, Zenon
    <2>2. Len(Header) = 12
        BY HeaderFields, Zenon
    <2>3. Joins(FieldNames, first \o Header, first, Header, 2, 12)
        BY <1>1, <2>1, <2>2, Joined, Zenon
    <2>. QED
        BY <1>2, <2>3 DEF Joins
<1>4. DOMAIN Primary = 1..14
    BY <1>3, LenProperties
<1>5. ASSUME NEW i \in 1..12 PROVE Primary[i + 2] = Header[i]
    <2>1. i + 2 = 2 + i
        OBVIOUS
    <2>. QED
        BY <1>3, <2>1
<1>. QED
    BY <1>1, <1>3, <1>4, <1>5

LEMMA BlockFields ==
    /\ DOMAIN Block = 1..2
    /\ Block[1] = "block_proc_flags" /\ Block[2] = "payload_block_length"
<1>1. "block_proc_flags" \in FieldNames /\ "payload_block_length" \in FieldNames
    BY DEF FieldNames
<1>2. /\ Block \in Seq(FieldNames) /\ Len(Block) = 2
      /\ Block[1] = "block_proc_flags" /\ Block[2] = "payload_block_length"
    BY <1>1, TupleOf2, Zenon DEF Block
<1>. QED
    BY <1>2, LenProperties

\* Field by field, and none twice.
LEMMA PrimaryFieldsDiffer ==
    \A i, k \in 1..14 : Primary[i] = Primary[k] => i = k
<1>1. /\ Primary[3] = "dst_scheme_offset" /\ Primary[4] = "dst_ssp_offset"
      /\ Primary[5] = "src_scheme_offset" /\ Primary[6] = "src_ssp_offset"
      /\ Primary[7] = "report_to_scheme_offset" /\ Primary[8] = "report_to_ssp_offset"
      /\ Primary[9] = "custodian_scheme_offset" /\ Primary[10] = "custodian_ssp_offset"
      /\ Primary[11] = "creation_time" /\ Primary[12] = "creation_sequence_number"
      /\ Primary[13] = "lifetime" /\ Primary[14] = "dictionary_length"
      /\ Primary[1] = "bundle_proc_flags" /\ Primary[2] = "primary_block_length"
    <2>1. /\ Primary[1 + 2] = Header[1] /\ Primary[2 + 2] = Header[2] /\ Primary[3 + 2] = Header[3]
          /\ Primary[4 + 2] = Header[4] /\ Primary[5 + 2] = Header[5] /\ Primary[6 + 2] = Header[6]
          /\ Primary[7 + 2] = Header[7] /\ Primary[8 + 2] = Header[8] /\ Primary[9 + 2] = Header[9]
          /\ Primary[10 + 2] = Header[10] /\ Primary[11 + 2] = Header[11]
          /\ Primary[12 + 2] = Header[12]
        BY PrimaryFields
    <2>2. /\ Header[1] = Offsets[1] /\ Header[2] = Offsets[2] /\ Header[3] = Offsets[3]
          /\ Header[4] = Offsets[4] /\ Header[5] = Offsets[5] /\ Header[6] = Offsets[6]
          /\ Header[7] = Offsets[7] /\ Header[8] = Offsets[8]
        BY HeaderFields
    <2>. QED
        BY <2>1, <2>2, OffsetFields, HeaderFields, PrimaryFields
<1>2. \A i \in 1..14 : i = 1 \/ i = 2 \/ i = 3 \/ i = 4 \/ i = 5 \/ i = 6 \/ i = 7 \/ i = 8
                       \/ i = 9 \/ i = 10 \/ i = 11 \/ i = 12 \/ i = 13 \/ i = 14
    OBVIOUS
<1>. QED
    BY <1>1, <1>2

-----------------------------------------------------------------------------
(***************************************************************************)
(* The integers of a header, by their names.                               *)
(***************************************************************************)
LEMMA LengthOfFields ==
    ASSUME NEW n \in Nat \ {0}, NEW fields, DOMAIN fields = 1..n,
           NEW num, \A k \in 1..n : num[fields[k]] \in Word
    PROVE  LET u == Units(WordBits, GroupBits) IN
           /\ EncodedFields(num, fields) \in Seq(Byte) /\ u \in Nat
           /\ Len(EncodedFields(num, fields)) \in Nat
           /\ Len(EncodedFields(num, fields)) <= n * u
<1>. DEFINE u == Units(WordBits, GroupBits)
            seqs == [k \in 1..n |-> Encode(num[fields[k]])]
            flat == FlattenSeq(seqs)
<1>1. EncodedFields(num, fields) = flat
    BY DEF EncodedFields
<1>2. u \in Nat
    <2>1. 1 \in 1..n
        OBVIOUS
    <2>. QED
        BY <2>1, LongestEncoding
<1>3. seqs \in [1..n -> Seq(Byte)] /\ \A k \in 1..n : Len(seqs[k]) \in Nat /\ Len(seqs[k]) <= u
    BY EncodedAsSeq, LongestEncoding
<1>. HIDE DEF u, seqs
<1>4. flat \in Seq(Byte) /\ \E at : EndAt(at, seqs, n)
    BY <1>3, FlattenedSeqs
<1>5. PICK at : EndAt(at, seqs, n)
    BY <1>4
<1>6. /\ at \in [0..n -> Nat] /\ at[0] = 0 /\ at[n] = Len(flat)
      /\ \A k \in 1..n : at[k] = at[k - 1] + Len(seqs[k])
    BY <1>5 DEF EndAt
<1>. HIDE DEF flat
<1>. DEFINE T == {k \in Nat : k <= n => at[k] <= k * u}
<1>7. 0 \in T
    BY <1>2, <1>6
<1>8. ASSUME NEW m \in Nat, m \in T PROVE m + 1 \in T
    <2>. SUFFICES ASSUME m + 1 <= n PROVE at[m + 1] <= (m + 1) * u
        OBVIOUS
    <2>1. PICK k \in 1..n : k = m + 1
        OBVIOUS
    <2>2. at[k] = at[m] + Len(seqs[k]) /\ Len(seqs[k]) \in Nat /\ Len(seqs[k]) <= u /\ at[m] \in Nat
        <3>1. k - 1 = m /\ m \in 0..n
            BY <2>1
        <3>. QED
            BY <1>3, <1>6, <3>1
    <2>3. at[m] <= m * u /\ (m + 1) * u = m * u + u /\ m * u \in Nat
        BY <1>2, <1>8
    <2>. QED
        BY <1>2, <2>1, <2>2, <2>3
<1>. HIDE DEF T
<1>9. n \in T
    BY <1>7, <1>8, SetInduction
<1>10. at[n] <= n * u /\ at[n] \in Nat
    BY <1>6, <1>9 DEF T
<1>. QED
    BY <1>1, <1>2, <1>4, <1>6, <1>10 DEF u

LEMMA HeaderByName ==
    /\ Header[1] = "dst_scheme_offset" /\ Header[2] = "dst_ssp_offset"
    /\ Header[3] = "src_scheme_offset" /\ Header[4] = "src_ssp_offset"
    /\ Header[5] = "report_to_scheme_offset" /\ Header[6] = "report_to_ssp_offset"
    /\ Header[7] = "custodian_scheme_offset" /\ Header[8] = "custodian_ssp_offset"
    /\ Header[9] = "creation_time" /\ Header[10] = "creation_sequence_number"
    /\ Header[11] = "lifetime" /\ Header[12] = "dictionary_length"
<1>1. /\ Header[1] = Offsets[1] /\ Header[2] = Offsets[2] /\ Header[3] = Offsets[3]
      /\ Header[4] = Offsets[4] /\ Header[5] = Offsets[5] /\ Header[6] = Offsets[6]
      /\ Header[7] = Offsets[7] /\ Header[8] = Offsets[8]
    BY HeaderFields
<1>. QED
    BY <1>1, OffsetFields, HeaderFields

LEMMA AllFields == Fields = FieldNames
<1>1. {Header[i] : i \in DOMAIN Header} = {Header[1], Header[2], Header[3], Header[4], Header[5],
          Header[6], Header[7], Header[8], Header[9], Header[10], Header[11], Header[12]}
    <2>1. DOMAIN Header = {1, 2, 3, 4, 5, 6, 7, 8, 9, 10, 11, 12}
        BY HeaderFields
    <2>. QED
        BY <2>1
<1>. QED
    BY <1>1, HeaderByName DEF Fields, FieldNames

\* The fields whose values do not follow from the others.
Plain == {"creation_time", "creation_sequence_number", "lifetime", "block_proc_flags",
          "payload_block_length"}
Computed == {"bundle_proc_flags", "primary_block_length", "dictionary_length"}

LEMMA FieldIsOneOf ==
    ASSUME NEW f \in Fields
    PROVE  \/ f \in Plain
           \/ f \in Computed
           \/ \E i \in 1..8 : f = Offsets[i]
<1>1. f \in FieldNames
    BY AllFields
<1>2. \A i \in {1, 2, 3, 4, 5, 6, 7, 8} : i \in 1..8
    OBVIOUS
<1>3. f \in Plain \/ f \in Computed \/ \E i \in {1, 2, 3, 4, 5, 6, 7, 8} : f = Offsets[i]
    BY <1>1, OffsetFields DEF FieldNames, Plain, Computed
<1>. QED
    BY <1>2, <1>3

LEMMA OffsetsDiffer ==
    /\ \A i, k \in 1..8 : Offsets[i] = Offsets[k] => i = k
    /\ \A i \in 1..8 : /\ Offsets[i] \in Fields /\ Offsets[i] \notin Plain /\ Offsets[i] \notin Computed
                       /\ Contains(Offsets, Offsets[i])
                       /\ SelectInSeq(Offsets, LAMBDA o : o = Offsets[i]) = i
    /\ \A f \in Plain \cup Computed : f \in Fields /\ ~Contains(Offsets, f)
<1>1. \A i \in 1..8 : i = 1 \/ i = 2 \/ i = 3 \/ i = 4 \/ i = 5 \/ i = 6 \/ i = 7 \/ i = 8
    OBVIOUS
<1>2. \A i, k \in 1..8 : Offsets[i] = Offsets[k] => i = k
    BY <1>1, OffsetFields
<1>3. \A i \in 1..8 : Offsets[i] \in FieldNames /\ Offsets[i] \notin Plain /\ Offsets[i] \notin Computed
    BY <1>1, OffsetFields DEF FieldNames, Plain, Computed
<1>4. Plain \cup Computed \subseteq FieldNames
    BY DEF Plain, Computed, FieldNames
<1>5. Len(Offsets) = 8
    BY OffsetFields
<1>6. ASSUME NEW i \in 1..8 PROVE SelectInSeq(Offsets, LAMBDA o : o = Offsets[i]) = i
    <2>. DEFINE I == {k \in 1..Len(Offsets) : Offsets[k] = Offsets[i]}
    <2>1. i \in I /\ \A k \in I : i <= k
        <3>1. i \in I
            BY <1>5
        <3>2. \A k \in I : k = i
            BY <1>2, <1>5
        <3>. QED
            BY <3>1, <3>2
    <2>2. Len(Offsets) \in Nat
        BY <1>5
    <2>3. (IF I # {} THEN Min(I) ELSE 0) = i
        BY <2>1, <2>2, FirstIs
    <2>. QED
        BY <2>3 DEF SelectInSeq
<1>7. \A f : Contains(Offsets, f) <=> \E i \in 1..8 : Offsets[i] = f
    BY <1>5 DEF Contains
<1>. QED
    BY <1>2, <1>3, <1>4, <1>6, <1>7, AllFields

\* The primary block has all but two, and the payload block those.
LEMMA FieldsOfBlocks ==
    /\ \A k \in 1..14 : Primary[k] \in Fields
    /\ \A k \in 1..2 : Block[k] \in Fields
    /\ \A i \in 1..14, k \in 1..2 : Primary[i] # Block[k]
    /\ \A i, k \in 1..2 : Block[i] = Block[k] => i = k
    /\ \A f \in Fields : (\E k \in 1..14 : f = Primary[k]) \/ (\E k \in 1..2 : f = Block[k])
    /\ \A i \in 1..8 : Offsets[i] = Primary[i + 2]
    /\ Primary[14] = "dictionary_length"
<1>1. \A k \in 1..14 : k = 1 \/ k = 2 \/ k - 2 \in 1..12
    OBVIOUS
<1>2. \A i \in 1..12 : Primary[i + 2] = Header[i]
    BY PrimaryFields
<1>3. \A k \in 1..14 : k - 2 \in 1..12 => Primary[k] = Header[k - 2]
    <2>. TAKE k \in 1..14
    <2>. SUFFICES ASSUME k - 2 \in 1..12 PROVE Primary[k] = Header[k - 2]
        OBVIOUS
    <2>1. PICK i \in 1..12 : i = k - 2
        OBVIOUS
    <2>2. i + 2 = k
        BY <2>1
    <2>. QED
        BY <1>2, <2>1, <2>2
<1>4. \A i \in 1..12 : Header[i] \in Fields
    BY HeaderFields DEF Fields
<1>5. \A k \in 1..14 : Primary[k] \in Fields
    <2>1. Primary[1] \in Fields /\ Primary[2] \in Fields
        BY PrimaryFields, AllFields DEF FieldNames
    <2>. QED
        BY <1>1, <1>3, <1>4, <2>1
<1>6. \A k \in 1..2 : k = 1 \/ k = 2
    OBVIOUS
<1>7. \A k \in 1..2 : Block[k] \in Fields
    BY <1>6, BlockFields, AllFields DEF FieldNames
<1>8. \A i, k \in 1..2 : Block[i] = Block[k] => i = k
    BY <1>6, BlockFields
<1>9. \A i \in 1..12, k \in 1..2 : Header[i] # Block[k]
    <2>1. \A i \in 1..12 : i = 1 \/ i = 2 \/ i = 3 \/ i = 4 \/ i = 5 \/ i = 6 \/ i = 7 \/ i = 8
                           \/ i = 9 \/ i = 10 \/ i = 11 \/ i = 12
        OBVIOUS
    <2>. QED
        BY <1>6, <2>1, BlockFields, HeaderByName
<1>10. \A i \in 1..14, k \in 1..2 : Primary[i] # Block[k]
    <2>1. \A k \in 1..2 : Primary[1] # Block[k] /\ Primary[2] # Block[k]
        BY <1>6, PrimaryFields, BlockFields
    <2>. QED
        BY <1>1, <1>3, <1>9, <2>1
<1>11. \A f \in Fields : (\E k \in 1..14 : f = Primary[k]) \/ (\E k \in 1..2 : f = Block[k])
    <2>. TAKE f \in Fields
    <2>1. CASE \E i \in 1..12 : f = Header[i]
        <3>1. PICK i \in 1..12 : f = Header[i]
            BY <2>1
        <3>2. i + 2 \in 1..14
            OBVIOUS
        <3>. QED
            BY <1>2, <3>1, <3>2
    <2>2. CASE f \in {"bundle_proc_flags", "primary_block_length"}
        <3>1. 1 \in 1..14 /\ 2 \in 1..14
            OBVIOUS
        <3>. QED
            BY <2>2, <3>1, PrimaryFields
    <2>3. CASE f \in {"block_proc_flags", "payload_block_length"}
        <3>1. 1 \in 1..2 /\ 2 \in 1..2
            OBVIOUS
        <3>. QED
            BY <2>3, <3>1, BlockFields
    <2>. QED
        BY <2>1, <2>2, <2>3, HeaderFields DEF Fields
<1>12. \A i \in 1..8 : Offsets[i] = Primary[i + 2]
    <2>1. \A i \in 1..8 : i \in 1..12
        OBVIOUS
    <2>. QED
        BY <1>2, <2>1, HeaderFields
<1>13. Primary[14] = "dictionary_length"
    <2>1. 12 + 2 = 14 /\ 12 \in 1..12
        OBVIOUS
    <2>. QED
        BY <1>2, <2>1, HeaderByName
<1>. QED
    BY <1>5, <1>7, <1>8, <1>10, <1>11, <1>12, <1>13

-----------------------------------------------------------------------------
(***************************************************************************)
(* A bundle, part by part.                                                 *)
(***************************************************************************)
LEMMA OneAfterTheOther ==
    ASSUME NEW s, NEW t, IsSeq(s), IsSeq(t)
    PROVE  /\ IsSeq(s \o t) /\ Len(s) \in Nat /\ Len(t) \in Nat /\ Len(s \o t) = Len(s) + Len(t)
           /\ \A i \in 1..Len(s) : (s \o t)[i] = s[i]
           /\ \A i \in 1..Len(t) : (s \o t)[Len(s) + i] = t[i]
<1>1. PICK S, T : s \in Seq(S) /\ t \in Seq(T)
    BY DEF IsSeq
<1>2. s \in Seq(S \cup T) /\ t \in Seq(S \cup T)
    BY <1>1
<1>3. PICK m, n : m = Len(s) /\ n = Len(t)
    OBVIOUS
<1>4. Joins(S \cup T, s \o t, s, t, m, n)
    BY <1>2, <1>3, Joined
<1>. QED
    BY <1>3, <1>4 DEF Joins, IsSeq

LEMMA OneElement ==
    ASSUME NEW v
    PROVE  IsSeq(<<v>>) /\ Len(<<v>>) = 1 /\ <<v>>[1] = v
<1>1. <<v>> \in Seq({v})
    OBVIOUS
<1>. QED
    BY <1>1 DEF IsSeq

\* The parts of a bundle: version, primary block, dictionary, block type, payload
\* block, payload.
Laid(bytes, v, p, d, t, b, y) ==
    /\ IsSeq(bytes) /\ Len(bytes) = 2 + Len(p) + Len(d) + Len(b) + Len(y)
    /\ bytes[1] = v
    /\ \A i \in 1..Len(p) : bytes[1 + i] = p[i]
    /\ \A i \in 1..Len(d) : bytes[1 + Len(p) + i] = d[i]
    /\ bytes[2 + Len(p) + Len(d)] = t
    /\ \A i \in 1..Len(b) : bytes[2 + Len(p) + Len(d) + i] = b[i]
    /\ \A i \in 1..Len(y) : bytes[2 + Len(p) + Len(d) + Len(b) + i] = y[i]

LEMMA LaidOut ==
    ASSUME NEW v, NEW p, NEW d, NEW t, NEW b, NEW y,
           IsSeq(p), IsSeq(d), IsSeq(b), IsSeq(y)
    PROVE  Laid(<<v>> \o p \o d \o <<t>> \o b \o y, v, p, d, t, b, y)
<1>. DEFINE x1 == <<v>>
            x2 == x1 \o p
            x3 == x2 \o d
            x4 == x3 \o <<t>>
            x5 == x4 \o b
            x6 == x5 \o y
<1>0. IsSeq(x1) /\ Len(x1) = 1 /\ x1[1] = v
    BY OneElement
<1>. HIDE DEF x1
<1>1. /\ IsSeq(x2) /\ Len(p) \in Nat /\ Len(x2) = 1 + Len(p)
      /\ x2[1] = v /\ \A i \in 1..Len(p) : x2[1 + i] = p[i]
    <2>1. PICK s : s = x1 /\ IsSeq(s)
        BY <1>0
    <2>2. /\ IsSeq(s \o p) /\ Len(p) \in Nat /\ Len(s \o p) = Len(s) + Len(p)
          /\ \A i \in 1..Len(s) : (s \o p)[i] = s[i]
          /\ \A i \in 1..Len(p) : (s \o p)[Len(s) + i] = p[i]
        BY <2>1, OneAfterTheOther
    <2>3. x2 = s \o p
        BY <2>1
    <2>4. Len(s) = 1 /\ (s \o p)[1] = v
        BY <1>0, <2>1, <2>2
    <2>5. /\ IsSeq(s \o p) /\ Len(p) \in Nat /\ Len(s \o p) = 1 + Len(p)
          /\ \A i \in 1..Len(p) : (s \o p)[1 + i] = p[i]
        BY <2>2, <2>4
    <2>. HIDE DEF x2
    <2>. QED
        BY <2>3, <2>4, <2>5
<1>. HIDE DEF x2
<1>2. /\ IsSeq(x3) /\ Len(d) \in Nat /\ Len(x3) = 1 + Len(p) + Len(d)
      /\ \A i \in 1..1 + Len(p) : x3[i] = x2[i]
      /\ \A i \in 1..Len(d) : x3[1 + Len(p) + i] = d[i]
    BY <1>1, OneAfterTheOther
<1>. HIDE DEF x3
<1>3. /\ IsSeq(x4) /\ Len(x4) = 2 + Len(p) + Len(d)
      /\ \A i \in 1..1 + Len(p) + Len(d) : x4[i] = x3[i]
      /\ x4[2 + Len(p) + Len(d)] = t
    <2>1. IsSeq(<<t>>) /\ Len(<<t>>) = 1 /\ <<t>>[1] = t
        BY OneElement
    <2>2. Len(x4) = Len(x3) + 1 /\ IsSeq(x4)
          /\ (\A i \in 1..Len(x3) : x4[i] = x3[i]) /\ x4[Len(x3) + 1] = t
        <3>1. 1 \in 1..1
            OBVIOUS
        <3>. QED
            BY <1>2, <2>1, <3>1, OneAfterTheOther
    <2>3. Len(x3) + 1 = 2 + Len(p) + Len(d)
        BY <1>1, <1>2
    <2>. HIDE DEF x4
    <2>. QED
        BY <1>2, <2>2, <2>3
<1>. HIDE DEF x4
<1>4. /\ IsSeq(x5) /\ Len(b) \in Nat /\ Len(x5) = 2 + Len(p) + Len(d) + Len(b)
      /\ \A i \in 1..2 + Len(p) + Len(d) : x5[i] = x4[i]
      /\ \A i \in 1..Len(b) : x5[2 + Len(p) + Len(d) + i] = b[i]
    BY <1>3, OneAfterTheOther
<1>. HIDE DEF x5
<1>5. /\ IsSeq(x6) /\ Len(y) \in Nat /\ Len(x6) = 2 + Len(p) + Len(d) + Len(b) + Len(y)
      /\ \A i \in 1..2 + Len(p) + Len(d) + Len(b) : x6[i] = x5[i]
      /\ \A i \in 1..Len(y) : x6[2 + Len(p) + Len(d) + Len(b) + i] = y[i]
    BY <1>4, OneAfterTheOther
<1>6. Laid(x6, v, p, d, t, b, y)
    <2>. DEFINE P == Len(p)
                D == Len(d)
                B == Len(b)
    <2>0. P \in Nat /\ D \in Nat /\ B \in Nat
        BY <1>1, <1>2, <1>4
    <2>. HIDE DEF x6
    <2>1. \A i \in 1..1 + P : x6[i] = x2[i]
        <3>1. \A i \in 1..1 + P : i \in 1..1 + P + D /\ i \in 1..2 + P + D /\ i \in 1..2 + P + D + B
            BY <2>0
        <3>. QED
            BY <1>2, <1>3, <1>4, <1>5, <3>1
    <2>2. x6[1] = v /\ \A i \in 1..P : x6[1 + i] = p[i]
        <3>1. 1 \in 1..1 + P /\ \A i \in 1..P : 1 + i \in 1..1 + P
            BY <2>0
        <3>. QED
            BY <1>1, <2>1, <3>1
    <2>3. ASSUME NEW i \in 1..D PROVE x6[1 + P + i] = d[i]
        <3>1. 1 + P + i \in 1..1 + P + D /\ 1 + P + i \in 1..2 + P + D /\ 1 + P + i \in 1..2 + P + D + B
            BY <2>0
        <3>. QED
            BY <1>2, <1>3, <1>4, <1>5, <3>1
    <2>4. x6[2 + P + D] = t
        <3>1. 2 + P + D \in 1..2 + P + D /\ 2 + P + D \in 1..2 + P + D + B
            BY <2>0
        <3>. QED
            BY <1>3, <1>4, <1>5, <3>1
    <2>5. ASSUME NEW i \in 1..B PROVE x6[2 + P + D + i] = b[i]
        <3>1. 2 + P + D + i \in 1..2 + P + D + B
            BY <2>0
        <3>. QED
            BY <1>4, <1>5, <3>1
    <2>. QED
        BY <1>5, <2>2, <2>3, <2>4, <2>5 DEF Laid
<1>. QED
    BY <1>6, Zenon DEF x1, x2, x3, x4, x5, x6

-----------------------------------------------------------------------------
\* What a struct must be for its encoding to be a bundle.
Encodable(s) ==
    /\ \A f \in Fields : s.num[f] \in Word
    /\ s.uri \in Names
    /\ ValueOf(s.num["payload_block_length"]) \in 0..PayloadMax

PrimaryPart(s) == EncodedFields(s.num, Primary)
BlockPart(s) == EncodedFields(s.num, Block)

\* Everything before the payload.
HeaderLen(s) == 2 + Len(PrimaryPart(s)) + Len(Dictionary(s.uri)) + Len(BlockPart(s))

LEMMA DictionaryIsSeq ==
    ASSUME NEW names \in Names
    PROVE  /\ Dictionary(names) \in Seq(Byte) /\ Len(Dictionary(names)) \in 0..DictionaryMax
           /\ DictionaryMax \in Nat
<1>. DEFINE seqs == [i \in DOMAIN names |-> names[i] \o <<0>>]
<1>1. /\ names \in [1..8 -> Seq(Byte)] /\ DOMAIN names = 1..8
      /\ Len(Dictionary(names)) <= DictionaryMax /\ DictionaryMax \in Nat
    BY BundlesAssumption, ArraysAssumption, OffsetFields
<1>2. <<0>> \in Seq(Byte)
    <2>1. 0 \in Byte
        BY Sizes, PowerPositive DEF Byte
    <2>. QED
        BY <2>1
<1>3. seqs \in [1..8 -> Seq(Byte)]
    BY <1>1, <1>2, ConcatProperties
<1>4. 8 \in Nat \ {0}
    OBVIOUS
<1>. HIDE DEF seqs
<1>5. FlattenSeq(seqs) \in Seq(Byte)
    BY <1>3, <1>4, FlattenedSeqs, Zenon
<1>6. Dictionary(names) \in Seq(Byte)
    BY <1>5 DEF Dictionary, seqs
<1>. QED
    BY <1>1, <1>6, LenProperties

LEMMA EncodingLaidOut ==
    ASSUME NEW s, Encodable(s)
    PROVE  /\ Laid(Encoding(s), s.version, PrimaryPart(s), Dictionary(s.uri), s.block_type,
                   BlockPart(s), PayloadOf(s))
           /\ PrimaryPart(s) \in Seq(Byte) /\ BlockPart(s) \in Seq(Byte)
           /\ Len(PrimaryPart(s)) \in Nat /\ Len(BlockPart(s)) \in Nat
           /\ HeaderLen(s) \in Nat /\ HeaderLen(s) <= HeaderMax /\ HeaderMax \in Nat
           /\ Len(PayloadOf(s)) = ValueOf(s.num["payload_block_length"])
           /\ Len(Encoding(s)) = HeaderLen(s) + Len(PayloadOf(s))
           /\ Len(Encoding(s)) <= BundleMax
<1>. DEFINE p == PrimaryPart(s)
            b == BlockPart(s)
            d == Dictionary(s.uri)
            y == PayloadOf(s)
            len == ValueOf(s.num["payload_block_length"])
            u == Units(WordBits, GroupBits)
<1>1. len \in 0..PayloadMax /\ PayloadMax \in Nat /\ len \in Nat /\ len <= PayloadMax
    BY ArraysAssumption DEF Encodable
<1>2. IsSeq(y) /\ Len(y) = len
    BY <1>1, FirstPart DEF PayloadOf
<1>3. d \in Seq(Byte) /\ Len(d) \in 0..DictionaryMax /\ DictionaryMax \in Nat
    BY DictionaryIsSeq DEF Encodable
<1>4. p \in Seq(Byte) /\ u \in Nat /\ Len(p) \in Nat /\ Len(p) <= 14 * u
    <2>1. PICK n \in Nat \ {0} : n = 14
        OBVIOUS
    <2>2. DOMAIN Primary = 1..n /\ \A k \in 1..n : s.num[Primary[k]] \in Word
        BY <2>1, PrimaryFields, FieldsOfBlocks DEF Encodable
    <2>3. /\ EncodedFields(s.num, Primary) \in Seq(Byte) /\ u \in Nat
          /\ Len(EncodedFields(s.num, Primary)) \in Nat
          /\ Len(EncodedFields(s.num, Primary)) <= n * u
        BY <2>2, LengthOfFields
    <2>. HIDE DEF u
    <2>. QED
        BY <2>1, <2>3 DEF PrimaryPart
<1>5. b \in Seq(Byte) /\ Len(b) \in Nat /\ Len(b) <= 2 * u
    <2>1. PICK n \in Nat \ {0} : n = 2
        OBVIOUS
    <2>2. DOMAIN Block = 1..n /\ \A k \in 1..n : s.num[Block[k]] \in Word
        BY <2>1, BlockFields, FieldsOfBlocks DEF Encodable
    <2>3. /\ EncodedFields(s.num, Block) \in Seq(Byte)
          /\ Len(EncodedFields(s.num, Block)) \in Nat
          /\ Len(EncodedFields(s.num, Block)) <= n * u
        BY <2>2, LengthOfFields
    <2>. HIDE DEF u
    <2>. QED
        BY <2>1, <2>3 DEF BlockPart
<1>6. Encoding(s) = <<s.version>> \o p \o d \o <<s.block_type>> \o b \o y
    BY Zenon DEF Encoding, PrimaryPart, BlockPart, Primary, Block
<1>7. Laid(Encoding(s), s.version, p, d, s.block_type, b, y)
    <2>1. IsSeq(p) /\ IsSeq(d) /\ IsSeq(b)
        BY <1>3, <1>4, <1>5 DEF IsSeq
    <2>2. PICK v, t : v = s.version /\ t = s.block_type
        OBVIOUS
    <2>. HIDE DEF p, d, b, y
    <2>3. Laid(<<v>> \o p \o d \o <<t>> \o b \o y, v, p, d, t, b, y)
        BY <1>2, <2>1, LaidOut, Zenon
    <2>. QED
        BY <1>6, <2>2, <2>3, Zenon
<1>8. HeaderMax = 2 + 16 * u + DictionaryMax
    BY DEF HeaderMax, WordBits
<1>9. HeaderLen(s) = 2 + Len(p) + Len(d) + Len(b)
    BY DEF HeaderLen
<1>10. Len(Encoding(s)) = 2 + Len(p) + Len(d) + Len(b) + Len(y)
    BY <1>7 DEF Laid
<1>11. HeaderMax + PayloadMax <= BundleMax /\ BundleMax \in Nat
    BY ArraysAssumption
<1>. HIDE DEF u, p, d, b, y, len
<1>12. /\ HeaderLen(s) \in Nat /\ HeaderLen(s) <= HeaderMax /\ HeaderMax \in Nat
       /\ Len(Encoding(s)) = HeaderLen(s) + Len(y)
    BY <1>2, <1>1, <1>3, <1>4, <1>5, <1>8, <1>9, <1>10
<1>13. Len(Encoding(s)) <= BundleMax
    BY <1>1, <1>2, <1>11, <1>12
<1>. QED
    BY <1>2, <1>4, <1>5, <1>7, <1>12, <1>13 DEF p, d, b, y, len

-----------------------------------------------------------------------------
(***************************************************************************)
(* The strings of a dictionary.                                            *)
(***************************************************************************)
Steps(f, n, step) == f[0] = 0 /\ \A k \in 1..n : f[k] = f[k - 1] + step[k]

LEMMA SameSteps ==
    ASSUME NEW n \in Nat, NEW f, NEW g, NEW step, Steps(f, n, step), Steps(g, n, step)
    PROVE  f[n] = g[n]
<1>. DEFINE T == {k \in Nat : k <= n => f[k] = g[k]}
<1>1. 0 \in T
    BY DEF Steps
<1>2. ASSUME NEW m \in Nat, m \in T PROVE m + 1 \in T
    <2>. SUFFICES ASSUME m + 1 <= n PROVE f[m + 1] = g[m + 1]
        OBVIOUS
    <2>1. PICK k \in 1..n : k = m + 1
        OBVIOUS
    <2>2. k - 1 = m /\ f[m] = g[m]
        BY <1>2, <2>1
    <2>3. f[k] = f[k - 1] + step[k] /\ g[k] = g[k - 1] + step[k]
        BY DEF Steps
    <2>. QED
        BY <2>1, <2>2, <2>3
<1>. HIDE DEF T
<1>3. n \in T
    BY <1>1, <1>2, SetInduction
<1>. QED
    BY <1>3 DEF T

\* Where the strings of a dictionary end, with their zeros.
StringsEnd(at, names) ==
    /\ at \in [0..8 -> Nat] /\ at[0] = 0 /\ at[8] = Len(Dictionary(names))
    /\ \A i \in 1..8 : /\ Len(names[i]) \in Nat
                       /\ at[i] = at[i - 1] + (Len(names[i]) + 1) /\ at[i] <= at[8]
                       /\ Dictionary(names)[at[i]] = 0
    /\ \A i \in 1..8 : \A j \in 1..Len(names[i]) : Dictionary(names)[at[i - 1] + j] = names[i][j]
    /\ \A i \in 1..8 : Len(Dictionary(SubSeq(names, 1, i - 1))) = at[i - 1]

LEMMA WithZero ==
    ASSUME NEW s \in Seq(Byte)
    PROVE  /\ s \o <<0>> \in Seq(Byte) /\ Len(s) \in Nat /\ Len(s \o <<0>>) = Len(s) + 1
           /\ \A j \in 1..Len(s) : (s \o <<0>>)[j] = s[j]
           /\ (s \o <<0>>)[Len(s) + 1] = 0
<1>1. <<0>> \in Seq(Byte) /\ Len(<<0>>) = 1 /\ <<0>>[1] = 0
    <2>1. 0 \in Byte
        BY Sizes, PowerPositive DEF Byte
    <2>. QED
        BY <2>1
<1>2. Len(s) \in Nat /\ s \o <<0>> \in Seq(Byte)
    BY <1>1, LenProperties, ConcatProperties
<1>3. IsSeq(s) /\ IsSeq(<<0>>)
    BY <1>1 DEF IsSeq
<1>4. PICK t : t = <<0>>
    OBVIOUS
<1>5. /\ Len(s \o t) = Len(s) + Len(t)
      /\ \A i \in 1..Len(s) : (s \o t)[i] = s[i]
      /\ \A i \in 1..Len(t) : (s \o t)[Len(s) + i] = t[i]
    BY <1>3, <1>4, OneAfterTheOther
<1>6. Len(t) = 1 /\ t[1] = 0 /\ 1 \in 1..1
    BY <1>1, <1>4
<1>7. Len(s \o t) = Len(s) + 1 /\ (s \o t)[Len(s) + 1] = 0
    BY <1>5, <1>6
<1>. QED
    BY <1>2, <1>4, <1>5, <1>7

LEMMA FunctionIsSeq ==
    ASSUME NEW n \in Nat, NEW S, NEW f \in [1..n -> S]
    PROVE  f \in Seq(S) /\ Len(f) = n
<1>1. f \in Seq(S) /\ DOMAIN f = 1..n
    OBVIOUS
<1>. QED
    BY <1>1, LenProperties

LEMMA FewerThanEight ==
    ASSUME NEW k \in Nat, k < 8
    PROVE  k \in 0..8 /\ \A i \in 1..k : i \in 1..8
    OBVIOUS

LEMMA LengthOfFirst ==
    ASSUME NEW names \in [1..8 -> Seq(Byte)], NEW at \in [0..8 -> Nat], at[0] = 0,
           \A i \in 1..8 : at[i] = at[i - 1] + (Len(names[i]) + 1),
           NEW k \in Nat, k < 8
    PROVE  Len(Dictionary(SubSeq(names, 1, k))) = at[k]
<1>0. k \in 0..8 /\ \A i \in 1..k : i \in 1..8
    BY FewerThanEight, Zenon
<1>. DEFINE part == SubSeq(names, 1, k)
            seqs == [i \in DOMAIN part |-> part[i] \o <<0>>]
<1>1. IsSeq(part) /\ Len(part) = k /\ (\A i \in 1..k : part[i] = names[i])
    BY <1>0, FirstPart
<1>2. DOMAIN part = 1..k
    BY <1>1, LenProperties DEF IsSeq
<1>. HIDE DEF part
<1>3. seqs \in [1..k -> Seq(Byte)] /\ \A i \in 1..k : Len(seqs[i]) = Len(names[i]) + 1
    <2>1. \A i \in 1..k : names[i] \in Seq(Byte)
        BY <1>0
    <2>2. \A i \in 1..k : part[i] \o <<0>> \in Seq(Byte) /\ Len(part[i] \o <<0>>) = Len(names[i]) + 1
        BY <1>1, <2>1, WithZero
    <2>. QED
        BY <1>2, <2>2
<1>4. Dictionary(part) = FlattenSeq(seqs)
    BY DEF Dictionary
<1>. HIDE DEF seqs
<1>4a. seqs \in Seq(Seq(Byte)) /\ Len(seqs) = k
    BY <1>3, FunctionIsSeq
<1>5. CASE k = 0
    <2>1. seqs \in Seq(Seq(Byte)) /\ Len(seqs) = 0
        BY <1>4a, <1>5
    <2>2. FlattenSeq(seqs) = seqs
        BY <2>1 DEF FlattenSeq
    <2>. QED
        BY <1>4, <1>5, <2>1, <2>2 DEF part
<1>6. CASE k # 0
    <2>1. k \in Nat \ {0}
        BY <1>6
    <2>2. PICK end : EndAt(end, seqs, k)
        BY <1>3, <2>1, FlattenedSeqs, Zenon
    <2>3. /\ end[0] = 0 /\ end[k] = Len(FlattenSeq(seqs))
          /\ \A i \in 1..k : end[i] = end[i - 1] + Len(seqs[i])
        BY <2>2 DEF EndAt
    <2>. DEFINE step == [i \in 1..k |-> Len(seqs[i])]
    <2>4. Steps(end, k, step)
        BY <2>3 DEF Steps
    <2>5. Steps(at, k, step)
        <3>1. \A i \in 1..k : at[i] = at[i - 1] + (Len(names[i]) + 1)
            BY <1>0
        <3>2. \A i \in 1..k : step[i] = Len(names[i]) + 1
            BY <1>3
        <3>. HIDE DEF step
        <3>. QED
            BY <3>1, <3>2 DEF Steps
    <2>. HIDE DEF step
    <2>6. end[k] = at[k]
        BY <1>0, <2>4, <2>5, SameSteps, Zenon
    <2>. QED
        BY <1>4, <2>3, <2>6 DEF part
<1>. QED
    BY <1>5, <1>6

LEMMA DictionaryByStrings ==
    ASSUME NEW names \in Names
    PROVE  \E at : StringsEnd(at, names)
<1>. DEFINE seqs == [i \in DOMAIN names |-> names[i] \o <<0>>]
            d == Dictionary(names)
<1>1. names \in [1..8 -> Seq(Byte)] /\ DOMAIN names = 1..8
    BY BundlesAssumption, OffsetFields
<1>2. \A i \in 1..8 : /\ seqs[i] \in Seq(Byte) /\ Len(names[i]) \in Nat
                      /\ Len(seqs[i]) = Len(names[i]) + 1
                      /\ \A j \in 1..Len(names[i]) : seqs[i][j] = names[i][j]
                      /\ seqs[i][Len(names[i]) + 1] = 0
    <2>1. \A i \in 1..8 : names[i] \in Seq(Byte) /\ seqs[i] = names[i] \o <<0>>
        BY <1>1
    <2>. HIDE DEF seqs
    <2>. QED
        BY <2>1, WithZero
<1>3. seqs \in [1..8 -> Seq(Byte)]
    BY <1>1, <1>2
<1>4. d = FlattenSeq(seqs)
    BY DEF Dictionary
<1>. HIDE DEF seqs, d
<1>5. PICK n \in Nat \ {0} : n = 8
    OBVIOUS
<1>6. seqs \in [1..n -> Seq(Byte)]
    BY <1>3, <1>5
<1>7. PICK at : EndAt(at, seqs, n)
    BY <1>6, FlattenedSeqs, Zenon
<1>8. /\ at \in [0..8 -> Nat] /\ at[0] = 0 /\ at[8] = Len(d)
      /\ \A k \in 1..8 : at[k] = at[k - 1] + Len(seqs[k]) /\ at[k] <= at[8]
      /\ \A k \in 1..8 : \A i \in 1..Len(seqs[k]) : d[at[k - 1] + i] = seqs[k][i]
    BY <1>4, <1>5, <1>7 DEF EndAt
<1>9. \A i \in 1..8 : at[i] = at[i - 1] + (Len(names[i]) + 1)
    BY <1>2, <1>8
<1>10. ASSUME NEW i \in 1..8 PROVE d[at[i]] = 0
    <2>1. Len(names[i]) + 1 \in 1..Len(seqs[i])
        <3>1. Len(names[i]) \in Nat /\ Len(seqs[i]) = Len(names[i]) + 1
            BY <1>2
        <3>. QED
            BY <3>1
    <2>2. d[at[i - 1] + (Len(names[i]) + 1)] = 0
        BY <1>2, <1>8, <2>1
    <2>. QED
        BY <1>9, <2>2
<1>11. ASSUME NEW i \in 1..8, NEW j \in 1..Len(names[i]) PROVE d[at[i - 1] + j] = names[i][j]
    <2>1. j \in 1..Len(seqs[i])
        <3>1. Len(names[i]) \in Nat /\ Len(seqs[i]) = Len(names[i]) + 1
            BY <1>2
        <3>. QED
            BY <3>1
    <2>. QED
        BY <1>2, <1>8, <2>1
<1>12. ASSUME NEW i \in 1..8 PROVE Len(Dictionary(SubSeq(names, 1, i - 1))) = at[i - 1]
    <2>1. PICK k \in Nat : k = i - 1 /\ k < 8
        OBVIOUS
    <2>2. Len(Dictionary(SubSeq(names, 1, k))) = at[k]
        BY <1>1, <1>8, <1>9, <2>1, LengthOfFirst
    <2>. QED
        BY <2>1, <2>2
<1>. QED
    BY <1>2, <1>8, <1>9, <1>10, <1>11, <1>12 DEF StringsEnd, d

\* A string is read back from where it was put, if the dictionary is at the front of
\* the array.
LEMMA StringReadBack ==
    ASSUME NEW names \in Names, NEW i \in 1..8, NEW dictionary, NEW at, StringsEnd(at, names),
           \A j \in 1..Len(Dictionary(names)) : dictionary[j] = Dictionary(names)[j]
    PROVE  StringAt(dictionary, at[i - 1]) = names[i] /\ EndsInside(dictionary, at[i - 1])
<1>. DEFINE d == Dictionary(names)
            from == at[i - 1]
            text == names[i]
            t == Len(text)
            rest == SubSeq(dictionary, from + 1, DictionaryMax)
<1>1. Len(d) \in 0..DictionaryMax /\ DictionaryMax \in Nat
    BY DictionaryIsSeq
<1>2. names \in [1..8 -> Seq(Byte)] /\ ~Contains(text, 0)
    BY BundlesAssumption, OffsetFields
<1>3. IsSeq(text) /\ \A j \in 1..t : text[j] # 0
    BY <1>2 DEF IsSeq, Contains
<1>4. i - 1 \in 0..8 /\ i \in 0..8
    OBVIOUS
<1>5. /\ from \in Nat /\ t \in Nat /\ at[i] = from + (t + 1) /\ at[i] <= Len(d) /\ at[i] \in Nat
      /\ d[at[i]] = 0
      /\ \A j \in 1..t : d[from + j] = text[j]
    BY <1>4, Zenon DEF StringsEnd
<1>. HIDE DEF d, text, t
<1>6. dictionary[at[i]] = 0 /\ at[i] \in 1..DictionaryMax /\ at[i] \in from+1..DictionaryMax
    <2>1. at[i] \in 1..Len(d) /\ at[i] \in 1..DictionaryMax /\ at[i] \in from+1..DictionaryMax
        BY <1>1, <1>5
    <2>. QED
        BY <1>5, <2>1 DEF d
<1>7. \A j \in 1..t : dictionary[from + j] = text[j]
    <2>. TAKE j \in 1..t
    <2>1. from + j \in 1..Len(d)
        BY <1>1, <1>5
    <2>. QED
        BY <1>5, <2>1 DEF d
<1>. HIDE DEF from
<1>8. PICK n \in Nat : DictionaryMax = from + n /\ t < n
    <2>1. DictionaryMax - from \in Nat /\ DictionaryMax = from + (DictionaryMax - from)
          /\ t < DictionaryMax - from
        BY <1>1, <1>5, <1>6
    <2>. QED
        BY <2>1
<1>9. IsSeq(rest) /\ Len(rest) = n /\ \A j \in 1..n : rest[j] = dictionary[from + j]
    <2>1. PICK a \in Nat : a = from
        BY <1>5
    <2>2. rest = SubSeq(dictionary, a + 1, a + n)
        BY <1>8, <2>1
    <2>3. /\ IsSeq(SubSeq(dictionary, a + 1, a + n)) /\ Len(SubSeq(dictionary, a + 1, a + n)) = n
          /\ \A j \in 1..n : SubSeq(dictionary, a + 1, a + n)[j] = dictionary[a + j]
        BY PartAfter, Zenon
    <2>. HIDE DEF rest
    <2>. QED
        BY <2>1, <2>2, <2>3
<1>. HIDE DEF rest
<1>10. rest[t + 1] = 0 /\ \A j \in 1..t : rest[j] = text[j]
    <2>1. t + 1 \in 1..n /\ from + (t + 1) = at[i] /\ \A j \in 1..t : j \in 1..n
        BY <1>5, <1>8
    <2>. QED
        BY <1>6, <1>7, <1>9, <2>1
<1>11. SubSeq(rest, 1, SelectInSeq(rest, LAMBDA b : b = 0) - 1) = text
    <2>1. Len(text) < Len(rest) /\ rest[Len(text) + 1] = 0
          /\ \A j \in 1..Len(text) : rest[j] = text[j] /\ text[j] # 0
        BY <1>3, <1>8, <1>9, <1>10 DEF t
    <2>. QED
        BY <1>3, <1>9, <2>1, TextBeforeZero
<1>12. StringAt(dictionary, from) = text
    BY <1>11 DEF StringAt, rest
<1>13. EndsInside(dictionary, from)
    BY <1>6, Zenon DEF EndsInside
<1>. QED
    BY <1>12, <1>13 DEF from, text

-----------------------------------------------------------------------------
(***************************************************************************)
(* What bundle_encode makes of a struct.                                   *)
(***************************************************************************)
StructFields == {"version", "iscustody", "isadmin", "uri", "num", "dictionary", "block_type",
                 "payload", "bundle", "bundle_len"}

\* No length of what fits the arrays is wider than an integer.
LEMMA ArraysFitWord ==
    /\ HeaderMax \in Nat /\ DictionaryMax \in Nat /\ PayloadMax \in Nat
    /\ 2^(IntBytes * ByteBits) \in Nat
    /\ DictionaryMax < 2^(IntBytes * ByteBits) /\ PayloadMax < 2^(IntBytes * ByteBits)
<1>. DEFINE m == 2^(IntBytes * ByteBits)
            u == Units(WordBits, GroupBits)
<1>1. m \in Nat
    <2>1. IntBytes * ByteBits \in Nat
        BY Sizes
    <2>. QED
        BY <2>1, PowerPositive
<1>2. u \in Nat
    <2>1. WordOf(0) \in Word
        BY WordOfIsWord
    <2>. QED
        BY <2>1, LongestEncoding
<1>3. HeaderMax = 2 + 16 * u + DictionaryMax
    BY DEF HeaderMax, WordBits
<1>4. /\ DictionaryMax \in Nat /\ PayloadMax \in Nat /\ BundleMax \in Nat
      /\ HeaderMax + PayloadMax <= BundleMax /\ BundleMax < m
    BY ArraysAssumption
<1>. HIDE DEF m, u
<1>5. HeaderMax \in Nat /\ DictionaryMax <= HeaderMax
    BY <1>2, <1>3, <1>4
<1>6. DictionaryMax < m /\ PayloadMax < m
    BY <1>1, <1>4, <1>5
<1>. QED
    BY <1>1, <1>4, <1>5, <1>6 DEF m

\* The arrays and integers of a struct are where they are.
IsStruct(s) ==
    /\ DOMAIN s = StructFields /\ DOMAIN s.num = Fields
    /\ DOMAIN s.dictionary = 1..DictionaryMax
    /\ DOMAIN s.payload = 1..PayloadMax
    /\ DOMAIN s.bundle = 1..BundleMax

\* The integers as bundle_encode leaves them.
Renumbered(s) ==
    [Located(s) EXCEPT !["bundle_proc_flags"] = ProcFlags(s),
                       !["primary_block_length"] = WordOf(PrimaryLength(Located(s)))]

LEMMA ComputedFields ==
    /\ "bundle_proc_flags" \in Fields /\ "primary_block_length" \in Fields
    /\ "dictionary_length" \in Fields /\ "payload_block_length" \in Plain
    /\ "bundle_proc_flags" \notin Plain /\ "primary_block_length" \notin Plain
    /\ "dictionary_length" \notin Plain
    /\ \A i \in 1..8 : /\ Offsets[i] # "bundle_proc_flags" /\ Offsets[i] # "primary_block_length"
                       /\ Offsets[i] # "dictionary_length"
    BY OffsetsDiffer DEF Computed, Plain

LEMMA LocatedFields ==
    ASSUME NEW s
    PROVE  /\ DOMAIN Located(s) = Fields
           /\ \A f \in Plain : Located(s)[f] = s.num[f]
           /\ \A i \in 1..8 : Located(s)[Offsets[i]] = WordOf(OffsetOf(s, i))
           /\ Located(s)["dictionary_length"] = WordOf(Len(Dictionary(s.uri)))
<1>1. \A f \in Fields :
          Located(s)[f] = IF f = "dictionary_length" THEN WordOf(Len(Dictionary(s.uri)))
                          ELSE IF Contains(Offsets, f)
                               THEN WordOf(OffsetOf(s, SelectInSeq(Offsets, LAMBDA o : o = f)))
                               ELSE s.num[f]
    BY Zenon DEF Located
<1>2. DOMAIN Located(s) = Fields
    BY DEF Located
<1>3. \A f \in Plain : Located(s)[f] = s.num[f]
    BY <1>1, OffsetsDiffer, ComputedFields
<1>4. Located(s)["dictionary_length"] = WordOf(Len(Dictionary(s.uri)))
    BY <1>1, ComputedFields
<1>5. ASSUME NEW i \in 1..8 PROVE Located(s)[Offsets[i]] = WordOf(OffsetOf(s, i))
    <2>1. /\ Offsets[i] \in Fields /\ Contains(Offsets, Offsets[i]) /\ Offsets[i] # "dictionary_length"
          /\ SelectInSeq(Offsets, LAMBDA o : o = Offsets[i]) = i
        BY OffsetsDiffer, ComputedFields
    <2>2. Located(s)[Offsets[i]]
             = WordOf(OffsetOf(s, SelectInSeq(Offsets, LAMBDA o : o = Offsets[i])))
        BY <1>1, <2>1
    <2>. QED
        BY <2>1, <2>2
<1>. QED
    BY <1>2, <1>3, <1>4, <1>5

LEMMA RenumberedFields ==
    ASSUME NEW s
    PROVE  /\ DOMAIN Renumbered(s) = Fields
           /\ \A f \in Plain : Renumbered(s)[f] = s.num[f]
           /\ \A i \in 1..8 : Renumbered(s)[Offsets[i]] = WordOf(OffsetOf(s, i))
           /\ Renumbered(s)["dictionary_length"] = WordOf(Len(Dictionary(s.uri)))
           /\ Renumbered(s)["bundle_proc_flags"] = ProcFlags(s)
           /\ Renumbered(s)["primary_block_length"] = WordOf(PrimaryLength(Located(s)))
<1>. DEFINE l == Located(s)
            p == ProcFlags(s)
            w == WordOf(PrimaryLength(l))
            n == [l EXCEPT !["bundle_proc_flags"] = p, !["primary_block_length"] = w]
<1>1. /\ DOMAIN l = Fields
      /\ \A f \in Plain : l[f] = s.num[f]
      /\ \A i \in 1..8 : l[Offsets[i]] = WordOf(OffsetOf(s, i))
      /\ l["dictionary_length"] = WordOf(Len(Dictionary(s.uri)))
    BY LocatedFields
<1>2. Renumbered(s) = n
    BY DEF Renumbered
<1>3. PICK q : q = w
    OBVIOUS
<1>. HIDE DEF l, p, w
<1>4. /\ DOMAIN n = Fields /\ n["bundle_proc_flags"] = p /\ n["primary_block_length"] = w
      /\ \A f \in Fields : f # "bundle_proc_flags" /\ f # "primary_block_length" => n[f] = l[f]
    BY <1>1, ComputedFields
<1>. HIDE DEF n
<1>5. \A f \in Plain : n[f] = s.num[f]
    BY <1>1, <1>4, ComputedFields, OffsetsDiffer
<1>6. \A i \in 1..8 : n[Offsets[i]] = WordOf(OffsetOf(s, i))
    BY <1>1, <1>4, ComputedFields, OffsetsDiffer
<1>7. n["dictionary_length"] = WordOf(Len(Dictionary(s.uri)))
    <2>1. "dictionary_length" # "bundle_proc_flags" /\ "dictionary_length" # "primary_block_length"
        OBVIOUS
    <2>. QED
        BY <1>1, <1>4, <2>1, ComputedFields
<1>. QED
    BY <1>2, <1>4, <1>5, <1>6, <1>7 DEF p, w, l

\* They follow from the strings, the marks and the other integers.
LEMMA RenumberedSame ==
    ASSUME NEW s, NEW t, s.uri = t.uri, s.iscustody = t.iscustody, s.isadmin = t.isadmin,
           \A f \in Plain : s.num[f] = t.num[f]
    PROVE  Renumbered(s) = Renumbered(t)
<1>1. \A i \in 1..8 : OffsetOf(s, i) = OffsetOf(t, i)
    BY DEF OffsetOf
<1>2. ProcFlags(s) = ProcFlags(t)
    BY DEF ProcFlags
<1>3. PrimaryLength(Located(s)) = PrimaryLength(Located(t))
    <2>1. \A f \in Plain : Located(s)[f] = Located(t)[f]
        BY LocatedFields
    <2>2. ASSUME NEW i \in 1..8 PROVE Located(s)[Offsets[i]] = Located(t)[Offsets[i]]
        <3>1. Located(s)[Offsets[i]] = WordOf(OffsetOf(s, i))
            BY LocatedFields
        <3>2. Located(t)[Offsets[i]] = WordOf(OffsetOf(t, i))
            BY LocatedFields
        <3>. QED
            BY <1>1, <3>1, <3>2
    <2>3. Located(s)["dictionary_length"] = Located(t)["dictionary_length"]
        BY LocatedFields
    <2>4. \A i \in DOMAIN Header : Located(s)[Header[i]] = Located(t)[Header[i]]
        <3>. TAKE i \in DOMAIN Header
        <3>1. CASE i \in 1..8
            BY <2>2, <3>1, HeaderFields
        <3>2. CASE i \notin 1..8
            <4>1. i = 9 \/ i = 10 \/ i = 11 \/ i = 12
                BY <3>2, HeaderFields
            <4>. QED
                BY <2>1, <2>3, <4>1, HeaderByName DEF Plain
        <3>. QED
            BY <3>1, <3>2
    <2>5. [i \in DOMAIN Header |-> EncodeLen(Located(s)[Header[i]])]
             = [i \in DOMAIN Header |-> EncodeLen(Located(t)[Header[i]])]
        BY <2>4
    <2>. QED
        BY <2>3, <2>5 DEF PrimaryLength
<1>. DEFINE a == Renumbered(s)
            b == Renumbered(t)
<1>4. /\ DOMAIN a = Fields
      /\ \A f \in Plain : a[f] = s.num[f]
      /\ \A i \in 1..8 : a[Offsets[i]] = WordOf(OffsetOf(s, i))
      /\ a["dictionary_length"] = WordOf(Len(Dictionary(s.uri)))
      /\ a["bundle_proc_flags"] = ProcFlags(s)
      /\ a["primary_block_length"] = WordOf(PrimaryLength(Located(s)))
    BY RenumberedFields
<1>5. /\ DOMAIN b = Fields
      /\ \A f \in Plain : b[f] = t.num[f]
      /\ \A i \in 1..8 : b[Offsets[i]] = WordOf(OffsetOf(t, i))
      /\ b["dictionary_length"] = WordOf(Len(Dictionary(t.uri)))
      /\ b["bundle_proc_flags"] = ProcFlags(t)
      /\ b["primary_block_length"] = WordOf(PrimaryLength(Located(t)))
    BY RenumberedFields
<1>6. a = [f \in DOMAIN a |-> a[f]] /\ b = [f \in DOMAIN b |-> b[f]]
    BY DEF Renumbered
<1>. HIDE DEF a, b
<1>7. \A f \in Fields : a[f] = b[f]
    <2>. TAKE f \in Fields
    <2>1. CASE f \in Plain
        BY <1>4, <1>5, <2>1
    <2>2. CASE f \in Computed
        BY <1>2, <1>3, <1>4, <1>5, <2>2 DEF Computed
    <2>3. CASE \E i \in 1..8 : f = Offsets[i]
        BY <1>1, <1>4, <1>5, <2>3
    <2>. QED
        BY <2>1, <2>2, <2>3, FieldIsOneOf
<1>8. a = b
    BY <1>4, <1>5, <1>6, <1>7
<1>. QED
    BY <1>8 DEF a, b

LEMMA EncodingSame ==
    ASSUME NEW s, NEW t, s.version = t.version, s.num = t.num, s.uri = t.uri,
           s.block_type = t.block_type, PayloadOf(s) = PayloadOf(t)
    PROVE  Encoding(s) = Encoding(t)
    BY Zenon DEF Encoding

LEMMA Encoded ==
    ASSUME NEW s, IsStruct(s)
    PROVE  LET e == BundleEncode(s) IN
           /\ IsStruct(e) /\ e.num = Renumbered(s)
           /\ e.version = s.version /\ e.iscustody = s.iscustody /\ e.isadmin = s.isadmin
           /\ e.uri = s.uri /\ e.block_type = s.block_type /\ e.payload = s.payload
           /\ e.bundle = Overwrite(s.bundle, Encoding(e)) /\ e.bundle_len = Len(Encoding(e))
<1>. DEFINE m == Renumbered(s)
            numbered == [s EXCEPT !.num = m]
            bytes == Encoding(numbered)
            d == Overwrite(numbered.dictionary, Dictionary(s.uri))
            y == Overwrite(numbered.bundle, bytes)
            e == [numbered EXCEPT !.dictionary = d, !.bundle = y, !.bundle_len = Len(bytes)]
<1>1. BundleEncode(s) = e
    BY DEF BundleEncode, Renumbered
<1>2. DOMAIN m = Fields
    BY RenumberedFields
<1>3. DOMAIN s = StructFields
    BY DEF IsStruct
<1>. HIDE DEF m
<1>4. /\ DOMAIN numbered = StructFields /\ numbered.num = m
      /\ numbered.version = s.version /\ numbered.iscustody = s.iscustody
      /\ numbered.isadmin = s.isadmin /\ numbered.uri = s.uri
      /\ numbered.block_type = s.block_type /\ numbered.payload = s.payload
      /\ numbered.dictionary = s.dictionary /\ numbered.bundle = s.bundle
    BY <1>3 DEF StructFields
<1>5. DOMAIN d = DOMAIN s.dictionary /\ DOMAIN y = DOMAIN s.bundle
    BY <1>4 DEF Overwrite
<1>. HIDE DEF numbered
<1>. HIDE DEF d, y, bytes
<1>6. /\ DOMAIN e = StructFields /\ e.num = m
      /\ e.version = numbered.version /\ e.iscustody = numbered.iscustody
      /\ e.isadmin = numbered.isadmin /\ e.uri = numbered.uri
      /\ e.block_type = numbered.block_type /\ e.payload = numbered.payload
      /\ e.dictionary = d /\ e.bundle = y /\ e.bundle_len = Len(bytes)
    BY <1>4 DEF StructFields
<1>. HIDE DEF e
<1>7. Encoding(e) = bytes
    <2>1. PayloadOf(e) = PayloadOf(numbered)
        BY <1>4, <1>6 DEF PayloadOf
    <2>2. PICK t : t = numbered
        OBVIOUS
    <2>3. Encoding(e) = Encoding(t)
        BY <1>4, <1>6, <2>1, <2>2, EncodingSame
    <2>. QED
        BY <2>2, <2>3 DEF bytes
<1>8. IsStruct(e)
    BY <1>2, <1>4, <1>5, <1>6 DEF IsStruct
<1>9. y = Overwrite(s.bundle, bytes)
    BY <1>4 DEF y
<1>. QED
    BY <1>1, <1>4, <1>6, <1>7, <1>8, <1>9 DEF m

\* A struct after bundle_encode.
UpToDate(s) ==
    /\ IsStruct(s) /\ Encodable(s) /\ s.num = Renumbered(s)
    /\ s.iscustody \in BOOLEAN /\ s.isadmin \in BOOLEAN

FlagsOf(s) == (IF s.iscustody THEN CustodyTransfer ELSE 0) + (IF s.isadmin THEN AdminRecord ELSE 0)

LEMMA FlagsAreSmall ==
    ASSUME NEW s, s.iscustody \in BOOLEAN, s.isadmin \in BOOLEAN
    PROVE  /\ FlagsOf(s) \in Nat /\ FlagsOf(s) < 2^(IntBytes * ByteBits)
           /\ ((FlagsOf(s) \div CustodyTransfer) % 2 = 1) = s.iscustody
           /\ ((FlagsOf(s) \div AdminRecord) % 2 = 1) = s.isadmin
<1>. DEFINE m == 2^(IntBytes * ByteBits)
<1>1. 10 < m /\ m \in Nat
    <2>1. IntBytes * ByteBits \in Nat
        BY Sizes
    <2>2. m \in Nat
        BY <2>1, PowerPositive
    <2>. HIDE DEF m
    <2>. QED
        BY <2>2, ArraysAssumption DEF CustodyTransfer, AdminRecord, m
<1>. HIDE DEF m
<1>2. FlagsOf(s) = IF s.iscustody THEN IF s.isadmin THEN 10 ELSE 8 ELSE IF s.isadmin THEN 2 ELSE 0
    BY DEF FlagsOf, CustodyTransfer, AdminRecord
<1>3. FlagsOf(s) \in Nat /\ FlagsOf(s) < m
    BY <1>1, <1>2
<1>4. /\ 10 \div 8 = 1 /\ 8 \div 8 = 1 /\ 2 \div 8 = 0 /\ 0 \div 8 = 0
      /\ 10 \div 2 = 5 /\ 8 \div 2 = 4 /\ 2 \div 2 = 1 /\ 0 \div 2 = 0
      /\ 1 % 2 = 1 /\ 0 % 2 = 0 /\ 5 % 2 = 1 /\ 4 % 2 = 0
    OBVIOUS
<1>5. ((FlagsOf(s) \div CustodyTransfer) % 2 = 1) = s.iscustody
    <2>1. CASE s.iscustody
        BY <1>2, <1>4, <2>1 DEF CustodyTransfer
    <2>2. CASE ~s.iscustody
        BY <1>2, <1>4, <2>2 DEF CustodyTransfer
    <2>. QED
        BY <2>1, <2>2
<1>6. ((FlagsOf(s) \div AdminRecord) % 2 = 1) = s.isadmin
    <2>1. CASE s.isadmin
        BY <1>2, <1>4, <2>1 DEF AdminRecord
    <2>2. CASE ~s.isadmin
        BY <1>2, <1>4, <2>2 DEF AdminRecord
    <2>. QED
        BY <2>1, <2>2
<1>. QED
    BY <1>3, <1>5, <1>6 DEF m

\* What the integers of a bundle say of its dictionary and its marks.
LEMMA NumbersOfBundle ==
    ASSUME NEW s, UpToDate(s), NEW at, StringsEnd(at, s.uri)
    PROVE  /\ \A i \in 1..8 : ValueOf(s.num[Offsets[i]]) = at[i - 1]
           /\ ValueOf(s.num["dictionary_length"]) = Len(Dictionary(s.uri))
           /\ IsSet(s.num, CustodyTransfer) = s.iscustody
           /\ IsSet(s.num, AdminRecord) = s.isadmin
<1>. DEFINE m == 2^(IntBytes * ByteBits)
            d == Len(Dictionary(s.uri))
<1>1. /\ s.uri \in Names /\ s.num = Renumbered(s)
      /\ s.iscustody \in BOOLEAN /\ s.isadmin \in BOOLEAN
    BY DEF UpToDate, Encodable
<1>2. d \in Nat /\ d < m
    <2>1. d \in 0..DictionaryMax /\ DictionaryMax \in Nat
        BY <1>1, DictionaryIsSeq
    <2>2. DictionaryMax < m /\ m \in Nat
        BY ArraysFitWord
    <2>. HIDE DEF m, d
    <2>. QED
        BY <2>1, <2>2
<1>3. /\ at \in [0..8 -> Nat] /\ at[0] = 0 /\ at[8] = d
      /\ \A i \in 1..8 : at[i] <= at[8]
      /\ \A i \in 1..8 : Len(Dictionary(SubSeq(s.uri, 1, i - 1))) = at[i - 1]
    BY Zenon DEF StringsEnd
<1>. HIDE DEF d
<1>4. ASSUME NEW i \in 1..8 PROVE ValueOf(s.num[Offsets[i]]) = at[i - 1]
    <2>. DEFINE n == OffsetOf(s, i)
    <2>1. n = at[i - 1]
        BY <1>3 DEF OffsetOf
    <2>2. n \in Nat /\ n <= d
        <3>1. CASE i = 1
            BY <1>2, <1>3, <2>1, <3>1
        <3>2. CASE i # 1
            <4>1. PICK k \in 1..8 : k = i - 1
                BY <3>2
            <4>2. k \in 0..8
                OBVIOUS
            <4>. QED
                BY <1>3, <2>1, <4>1, <4>2
        <3>. QED
            BY <3>1, <3>2
    <2>3. s.num[Offsets[i]] = WordOf(n)
        BY <1>1, RenumberedFields
    <2>4. n < m
        <3>1. m \in Nat
            BY ArraysFitWord
        <3>. HIDE DEF m, n
        <3>. QED
            BY <1>2, <2>2, <3>1
    <2>. HIDE DEF n
    <2>5. ValueOf(WordOf(n)) = n
        BY <2>2, <2>4, ValueOfWord
    <2>. QED
        BY <2>1, <2>3, <2>5
<1>5. ValueOf(s.num["dictionary_length"]) = d
    <2>1. s.num["dictionary_length"] = WordOf(d)
        BY <1>1, RenumberedFields DEF d
    <2>2. ValueOf(WordOf(d)) = d
        BY <1>2, ValueOfWord
    <2>. QED
        BY <2>1, <2>2
<1>6. ValueOf(s.num["bundle_proc_flags"]) = FlagsOf(s)
    <2>1. s.num["bundle_proc_flags"] = WordOf(FlagsOf(s))
        BY <1>1, RenumberedFields DEF ProcFlags, FlagsOf
    <2>2. ValueOf(WordOf(FlagsOf(s))) = FlagsOf(s)
        BY <1>1, FlagsAreSmall, ValueOfWord
    <2>. QED
        BY <2>1, <2>2
<1>7. /\ IsSet(s.num, CustodyTransfer) = s.iscustody
      /\ IsSet(s.num, AdminRecord) = s.isadmin
    BY <1>1, <1>6, FlagsAreSmall DEF IsSet
<1>. QED
    BY <1>4, <1>5, <1>7 DEF d

-----------------------------------------------------------------------------
(***************************************************************************)
(* What bundle_decode makes of a datagram.                                 *)
(***************************************************************************)
\* The datagram is at the front of the array: the header, and of the payload what
\* was not cut off.
Arrived(array, s, n) ==
    /\ IsSeq(array) /\ Len(array) = BundleMax
    /\ n \in Nat /\ HeaderLen(s) <= n /\ n <= Len(Encoding(s))
    /\ \A i \in 1..n : array[i] = Encoding(s)[i]

\* The header, part by part.
HeaderArrived(array, s) ==
    /\ array[1] = s.version
    /\ \A i \in 1..Len(PrimaryPart(s)) : array[1 + i] = PrimaryPart(s)[i]
    /\ \A i \in 1..Len(Dictionary(s.uri)) :
          array[1 + Len(PrimaryPart(s)) + i] = Dictionary(s.uri)[i]
    /\ array[2 + Len(PrimaryPart(s)) + Len(Dictionary(s.uri))] = s.block_type
    /\ \A i \in 1..Len(BlockPart(s)) :
          array[2 + Len(PrimaryPart(s)) + Len(Dictionary(s.uri)) + i] = BlockPart(s)[i]

LEMMA HeaderRead ==
    ASSUME NEW s, Encodable(s), NEW array, NEW n, Arrived(array, s, n)
    PROVE  /\ HeaderArrived(array, s)
           /\ \A i \in 1..n - HeaderLen(s) : array[HeaderLen(s) + i] = PayloadOf(s)[i]
<1>. DEFINE p == PrimaryPart(s)
            b == BlockPart(s)
            d == Dictionary(s.uri)
            y == PayloadOf(s)
            bytes == Encoding(s)
            P == Len(p)
            D == Len(d)
            B == Len(b)
            Y == Len(y)
<1>1. Laid(bytes, s.version, p, d, s.block_type, b, y) /\ P \in Nat /\ B \in Nat
    BY EncodingLaidOut
<1>2. D \in Nat
    BY DictionaryIsSeq DEF Encodable
<1>3. HeaderLen(s) = 2 + P + D + B
    BY DEF HeaderLen
<1>4. n \in Nat /\ 2 + P + D + B <= n /\ n <= Len(bytes) /\ \A i \in 1..n : array[i] = bytes[i]
    BY <1>3 DEF Arrived
<1>5. /\ Len(bytes) = 2 + P + D + B + Y
      /\ bytes[1] = s.version
      /\ \A i \in 1..P : bytes[1 + i] = p[i]
      /\ \A i \in 1..D : bytes[1 + P + i] = d[i]
      /\ bytes[2 + P + D] = s.block_type
      /\ \A i \in 1..B : bytes[2 + P + D + i] = b[i]
      /\ \A i \in 1..Y : bytes[2 + P + D + B + i] = y[i]
    BY <1>1 DEF Laid
<1>5a. Y \in Nat
    BY EncodingLaidOut DEF Encodable
<1>. HIDE DEF p, b, d, y, bytes, P, D, B, Y
<1>6. array[1] = s.version
    BY <1>1, <1>2, <1>4, <1>5
<1>7. ASSUME NEW i \in 1..P PROVE array[1 + i] = p[i]
    <2>1. 1 + i \in 1..n
        BY <1>1, <1>2, <1>4
    <2>. QED
        BY <1>4, <1>5, <2>1
<1>8. ASSUME NEW i \in 1..D PROVE array[1 + P + i] = d[i]
    <2>1. 1 + P + i \in 1..n
        BY <1>1, <1>2, <1>4
    <2>. QED
        BY <1>4, <1>5, <2>1
<1>9. array[2 + P + D] = s.block_type
    <2>1. 2 + P + D \in 1..n
        BY <1>1, <1>2, <1>4
    <2>. QED
        BY <1>4, <1>5, <2>1
<1>10. ASSUME NEW i \in 1..B PROVE array[2 + P + D + i] = b[i]
    <2>1. 2 + P + D + i \in 1..n
        BY <1>1, <1>2, <1>4
    <2>. QED
        BY <1>4, <1>5, <2>1
<1>11. ASSUME NEW i \in 1..n - (2 + P + D + B) PROVE array[2 + P + D + B + i] = y[i]
    <2>1. 2 + P + D + B + i \in 1..n /\ i \in 1..Y
        BY <1>1, <1>2, <1>4, <1>5, <1>5a
    <2>. QED
        BY <1>4, <1>5, <2>1
<1>12. HeaderArrived(array, s)
    BY <1>6, <1>7, <1>8, <1>9, <1>10 DEF HeaderArrived, p, b, d, P, D, B
<1>13. \A i \in 1..n - HeaderLen(s) : array[HeaderLen(s) + i] = y[i]
    BY <1>3, <1>11
<1>. QED
    BY <1>12, <1>13 DEF y

-----------------------------------------------------------------------------
\* The integers that decoding starts from: the flags are cleared first.
Cleared(num) == [num EXCEPT !["bundle_proc_flags"] = WordOf(0)]

PrimaryTaken(nums, old, s) ==
    /\ DOMAIN nums = Fields
    /\ \A k \in 1..14 : nums[Primary[k]] = DecodedInto(old[Primary[k]], s.num[Primary[k]])
    /\ \A k \in 1..2 : nums[Block[k]] = old[Block[k]]

LEMMA PrimaryRead ==
    ASSUME NEW s, Encodable(s), NEW array, NEW n, Arrived(array, s, n),
           NEW x, x.bundle = array, DOMAIN x.num = Fields
    PROVE  \E nums : /\ PrimaryTaken(nums, Cleared(x.num), s)
                     /\ PrimaryBlock(x) = [num |-> nums, at |-> 1 + Len(PrimaryPart(s)), ok |-> TRUE]
<1>. DEFINE p == PrimaryPart(s)
            old == Cleared(x.num)
<1>1. HeaderArrived(array, s)
    BY HeaderRead
<1>2. /\ Len(p) \in Nat /\ HeaderLen(s) = 2 + Len(p) + Len(Dictionary(s.uri)) + Len(BlockPart(s))
      /\ Len(BlockPart(s)) \in Nat
      /\ HeaderLen(s) <= HeaderMax /\ HeaderMax \in Nat /\ HeaderLen(s) \in Nat
    BY EncodingLaidOut DEF HeaderLen
<1>3. Len(Dictionary(s.uri)) \in Nat
    BY DictionaryIsSeq DEF Encodable
<1>4. HeaderMax <= BundleMax /\ BundleMax \in Nat
    BY <1>2, ArraysAssumption
<1>5. IsSeq(array) /\ Len(array) = BundleMax
    BY DEF Arrived
<1>6. DOMAIN old = Fields
    BY DEF Cleared
<1>7. \A i \in 1..Len(p) : array[1 + i] = p[i]
    BY <1>1 DEF HeaderArrived
<1>8. 1 + Len(p) <= Len(array)
    <2>. HIDE DEF p
    <2>. QED
        BY <1>2, <1>3, <1>4, <1>5
<1>9. PICK m \in Nat \ {0} : m = 14
    OBVIOUS
<1>10. PICK base \in Nat : base = 1
    OBVIOUS
<1>11. PICK fields, was, names, num :
          fields = Primary /\ was = s.num /\ names = Fields /\ num = old
    OBVIOUS
<1>12. EncodedFields(was, fields) = p
    BY <1>11 DEF PrimaryPart
<1>. HIDE DEF p, old
<1>13. /\ DOMAIN fields = 1..m /\ DOMAIN num = names
       /\ \A k \in 1..m : fields[k] \in names
       /\ \A k \in 1..m : was[fields[k]] \in Word
    BY <1>6, <1>9, <1>11, PrimaryFields, FieldsOfBlocks DEF Encodable
<1>14. \A i, k \in 1..m : fields[i] = fields[k] => i = k
    BY <1>9, <1>11, PrimaryFieldsDiffer
<1>15. /\ base + Len(EncodedFields(was, fields)) <= Len(array)
       /\ \A i \in 1..Len(EncodedFields(was, fields)) :
              array[base + i] = EncodedFields(was, fields)[i]
    BY <1>7, <1>8, <1>10, <1>12
<1>16. FieldsFrom(array, base, names, num, was, fields)
    BY <1>5, <1>13, <1>14, <1>15, FieldsTaken, Zenon
<1>17. PICK nums :
          /\ DOMAIN nums = names
          /\ \A k \in DOMAIN fields : nums[fields[k]] = DecodedInto(num[fields[k]], was[fields[k]])
          /\ \A f \in names : (\A k \in DOMAIN fields : fields[k] # f) => nums[f] = num[f]
          /\ Take(array, [num |-> num, at |-> base, ok |-> TRUE], fields)
                = [num |-> nums, at |-> base + Len(EncodedFields(was, fields)), ok |-> TRUE]
    BY <1>16, Zenon DEF FieldsFrom
<1>18. PrimaryBlock(x) = Take(array, [num |-> num, at |-> base, ok |-> TRUE], fields)
    <2>1. PrimaryBlock(x)
             = Take(x.bundle, [num |-> [x.num EXCEPT !["bundle_proc_flags"] = WordOf(0)],
                               at |-> 1, ok |-> TRUE], Primary)
        BY Zenon DEF PrimaryBlock, Primary
    <2>2. num = [x.num EXCEPT !["bundle_proc_flags"] = WordOf(0)]
        BY <1>11 DEF old, Cleared
    <2>. QED
        BY <1>10, <1>11, <2>1, <2>2
<1>19. PrimaryBlock(x) = [num |-> nums, at |-> 1 + Len(p), ok |-> TRUE]
    BY <1>10, <1>12, <1>17, <1>18
<1>20. \A k \in 1..14 : nums[Primary[k]] = DecodedInto(old[Primary[k]], s.num[Primary[k]])
    BY <1>11, <1>17, PrimaryFields
<1>21. \A k \in 1..2 : nums[Block[k]] = old[Block[k]]
    <2>. TAKE k \in 1..2
    <2>1. Block[k] \in Fields /\ \A i \in DOMAIN Primary : Primary[i] # Block[k]
        BY FieldsOfBlocks, PrimaryFields
    <2>. QED
        BY <1>11, <1>17, <2>1
<1>22. PrimaryTaken(nums, old, s)
    BY <1>11, <1>17, <1>20, <1>21 DEF PrimaryTaken
<1>. QED
    BY <1>19, <1>22 DEF old, p

\* The integers of r have no byte that the sender's values do not reach.
NoWider(x, s) ==
    \A f \in Fields \ {"bundle_proc_flags"} :
        \A i \in Width(s.num[f])+1..IntBytes : x.num[f][i] = 0

LEMMA FlagsTaken ==
    ASSUME NEW s, Encodable(s), NEW x, DOMAIN x.num = Fields, NEW nums,
           PrimaryTaken(nums, Cleared(x.num), s)
    PROVE  nums["bundle_proc_flags"] = s.num["bundle_proc_flags"]
<1>. DEFINE old == Cleared(x.num)
            w == s.num["bundle_proc_flags"]
<1>1. "bundle_proc_flags" \in Fields /\ Primary[1] = "bundle_proc_flags" /\ 1 \in 1..14
    BY ComputedFields, PrimaryFields
<1>2. old["bundle_proc_flags"] = WordOf(0)
    BY <1>1 DEF Cleared
<1>3. nums["bundle_proc_flags"] = DecodedInto(WordOf(0), w)
    BY <1>1, <1>2 DEF PrimaryTaken
<1>4. w \in Word
    BY <1>1 DEF Encodable
<1>. HIDE DEF w
<1>5. PICK zero : zero = WordOf(0)
    OBVIOUS
<1>6. \A i \in Width(w)+1..IntBytes : zero[i] = 0
    <2>1. Width(w) \in Nat
        BY <1>4, WidthIsNat
    <2>2. \A i \in Width(w)+1..IntBytes : i \in 1..IntBytes
        BY <2>1, Sizes
    <2>. QED
        BY <1>5, <2>2, ZeroWord
<1>7. DecodedInto(zero, w) = w
    BY <1>4, <1>6, DecodedOverNarrower
<1>. QED
    BY <1>3, <1>5, <1>7 DEF w

LEMMA PrimaryAsSent ==
    ASSUME NEW s, Encodable(s), NEW x, DOMAIN x.num = Fields, NoWider(x, s), NEW nums,
           PrimaryTaken(nums, Cleared(x.num), s)
    PROVE  \A k \in 1..14 : nums[Primary[k]] = s.num[Primary[k]]
<1>. TAKE k \in 1..14
<1>. DEFINE old == Cleared(x.num)
            f == Primary[k]
            w == s.num[f]
<1>1. f \in Fields /\ w \in Word
    BY FieldsOfBlocks DEF Encodable
<1>2. CASE f = "bundle_proc_flags"
    BY <1>2, FlagsTaken
<1>3. CASE f # "bundle_proc_flags"
    <2>1. old[f] = x.num[f]
        BY <1>1, <1>3 DEF Cleared
    <2>2. nums[f] = DecodedInto(x.num[f], w)
        BY <2>1 DEF PrimaryTaken
    <2>3. PICK o : o = x.num[f]
        OBVIOUS
    <2>4. \A i \in Width(w)+1..IntBytes : o[i] = 0
        BY <1>1, <1>3, <2>3 DEF NoWider
    <2>. HIDE DEF f, w
    <2>5. DecodedInto(o, w) = w
        BY <1>1, <2>4, DecodedOverNarrower
    <2>. QED
        BY <2>2, <2>3, <2>5 DEF f, w
<1>. QED
    BY <1>2, <1>3

\* The cursor after the primary block, over integers that held nothing wider.
AfterPrimary(primary, nums, x, s) ==
    /\ PrimaryTaken(nums, Cleared(x.num), s)
    /\ primary = [num |-> nums, at |-> 1 + Len(PrimaryPart(s)), ok |-> TRUE]

LEMMA DictionaryEnds ==
    ASSUME NEW s, UpToDate(s), NEW x, DOMAIN x.num = Fields, NoWider(x, s),
           NEW nums, NEW primary, AfterPrimary(primary, nums, x, s)
    PROVE  /\ ValueOf(primary.num["dictionary_length"]) = Len(Dictionary(s.uri))
           /\ DictionaryEnd(primary) = 1 + Len(PrimaryPart(s)) + Len(Dictionary(s.uri))
           /\ \E at : /\ StringsEnd(at, s.uri)
                      /\ \A i \in 1..8 : ValueOf(primary.num[Offsets[i]]) = at[i - 1]
<1>. DEFINE D == Len(Dictionary(s.uri))
            P == Len(PrimaryPart(s))
<1>1. primary = [num |-> nums, at |-> 1 + P, ok |-> TRUE]
    BY DEF AfterPrimary
<1>2. PrimaryTaken(nums, Cleared(x.num), s) /\ Encodable(s) /\ s.uri \in Names
    BY DEF AfterPrimary, UpToDate, Encodable
<1>3. \A k \in 1..14 : nums[Primary[k]] = s.num[Primary[k]]
    BY <1>2, PrimaryAsSent
<1>4. PICK at : StringsEnd(at, s.uri)
    BY <1>2, DictionaryByStrings
<1>5. /\ \A i \in 1..8 : ValueOf(s.num[Offsets[i]]) = at[i - 1]
      /\ ValueOf(s.num["dictionary_length"]) = D
    BY <1>4, NumbersOfBundle
<1>. HIDE DEF D, P
<1>6. primary.num = nums /\ primary.at = 1 + P
    BY <1>1
<1>7. nums["dictionary_length"] = s.num["dictionary_length"]
    <2>1. 14 \in 1..14 /\ Primary[14] = "dictionary_length"
        BY FieldsOfBlocks
    <2>. QED
        BY <1>3, <2>1
<1>8. \A i \in 1..8 : nums[Offsets[i]] = s.num[Offsets[i]]
    <2>. TAKE i \in 1..8
    <2>1. i + 2 \in 1..14 /\ Offsets[i] = Primary[i + 2]
        BY FieldsOfBlocks
    <2>. QED
        BY <1>3, <2>1
<1>9. ValueOf(primary.num["dictionary_length"]) = D
    BY <1>5, <1>6, <1>7
<1>10. DictionaryEnd(primary) = 1 + P + D
    BY <1>6, <1>9 DEF DictionaryEnd
<1>11. \A i \in 1..8 : ValueOf(primary.num[Offsets[i]]) = at[i - 1]
    BY <1>5, <1>6, <1>8
<1>. QED
    BY <1>4, <1>9, <1>10, <1>11 DEF D, P

LEMMA MovedTo ==
    ASSUME NEW num, NEW at, NEW ok, NEW to
    PROVE  [[num |-> num, at |-> at, ok |-> ok] EXCEPT !.at = to] = [num |-> num, at |-> to, ok |-> ok]
    OBVIOUS

LEMMA BlockRead ==
    ASSUME NEW s, UpToDate(s), NEW array, NEW n, Arrived(array, s, n),
           NEW x, x.bundle = array, DOMAIN x.num = Fields, NoWider(x, s),
           NEW was, NEW primary, AfterPrimary(primary, was, x, s)
    PROVE  \E nums : /\ DOMAIN nums = Fields /\ \A f \in Fields : nums[f] = s.num[f]
                     /\ PayloadBlock(x, primary) = [num |-> nums, at |-> HeaderLen(s), ok |-> TRUE]
<1>. DEFINE b == BlockPart(s)
            D == Len(Dictionary(s.uri))
            P == Len(PrimaryPart(s))
<1>0. Encodable(s)
    BY DEF UpToDate
<1>1. HeaderArrived(array, s)
    BY <1>0, HeaderRead
<1>2. /\ P \in Nat /\ HeaderLen(s) = 2 + P + D + Len(b) /\ Len(b) \in Nat
      /\ HeaderLen(s) <= HeaderMax /\ HeaderMax \in Nat /\ HeaderLen(s) \in Nat
    BY <1>0, EncodingLaidOut DEF HeaderLen
<1>3. D \in Nat
    BY <1>0, DictionaryIsSeq DEF Encodable
<1>4. HeaderMax <= BundleMax /\ BundleMax \in Nat
    BY <1>2, ArraysAssumption
<1>5. IsSeq(array) /\ Len(array) = BundleMax
    BY DEF Arrived
<1>6. /\ primary = [num |-> was, at |-> 1 + P, ok |-> TRUE]
      /\ PrimaryTaken(was, Cleared(x.num), s) /\ DOMAIN was = Fields
    BY DEF AfterPrimary, PrimaryTaken
<1>7. \A i \in 1..Len(b) : array[2 + P + D + i] = b[i]
    BY <1>1 DEF HeaderArrived
<1>8. DictionaryEnd(primary) = 1 + P + D
    BY DictionaryEnds
<1>9. \A k \in 1..14 : was[Primary[k]] = s.num[Primary[k]]
    BY <1>0, <1>6, PrimaryAsSent
<1>10. PICK m \in Nat \ {0} : m = 2
    OBVIOUS
<1>. HIDE DEF b, D, P
<1>11. PICK base \in Nat : base = 2 + P + D
    BY <1>2, <1>3
<1>12. PICK fields, sends, names :
          fields = Block /\ sends = s.num /\ names = Fields
    OBVIOUS
<1>13. EncodedFields(sends, fields) = b
    BY <1>12 DEF BlockPart, b
<1>14. /\ DOMAIN fields = 1..m /\ DOMAIN was = names
       /\ \A k \in 1..m : fields[k] \in names
       /\ \A k \in 1..m : sends[fields[k]] \in Word
    BY <1>0, <1>6, <1>10, <1>12, BlockFields, FieldsOfBlocks DEF Encodable
<1>15. \A i, k \in 1..m : fields[i] = fields[k] => i = k
    BY <1>10, <1>12, FieldsOfBlocks
<1>16. /\ base + Len(EncodedFields(sends, fields)) <= Len(array)
       /\ \A i \in 1..Len(EncodedFields(sends, fields)) :
              array[base + i] = EncodedFields(sends, fields)[i]
    BY <1>2, <1>3, <1>4, <1>5, <1>7, <1>11, <1>13
<1>17. FieldsFrom(array, base, names, was, sends, fields)
    BY <1>5, <1>14, <1>15, <1>16, FieldsTaken, Zenon
<1>18. PICK nums :
          /\ DOMAIN nums = names
          /\ \A k \in DOMAIN fields : nums[fields[k]] = DecodedInto(was[fields[k]], sends[fields[k]])
          /\ \A f \in names : (\A k \in DOMAIN fields : fields[k] # f) => nums[f] = was[f]
          /\ Take(array, [num |-> was, at |-> base, ok |-> TRUE], fields)
                = [num |-> nums, at |-> base + Len(EncodedFields(sends, fields)), ok |-> TRUE]
    BY <1>17, Zenon DEF FieldsFrom
<1>19. PayloadBlock(x, primary) = Take(array, [num |-> was, at |-> base, ok |-> TRUE], fields)
    <2>1. PayloadBlock(x, primary)
             = Take(x.bundle, [primary EXCEPT !.at = DictionaryEnd(primary) + 1], Block)
        BY Zenon DEF PayloadBlock, Block
    <2>2. DictionaryEnd(primary) + 1 = base
        BY <1>2, <1>3, <1>8, <1>11
    <2>3. [primary EXCEPT !.at = base] = [num |-> was, at |-> base, ok |-> TRUE]
        BY <1>6, MovedTo, Zenon
    <2>. QED
        BY <1>12, <2>1, <2>2, <2>3
<1>20. base + Len(b) = HeaderLen(s)
    BY <1>2, <1>3, <1>11
<1>21. PayloadBlock(x, primary) = [num |-> nums, at |-> HeaderLen(s), ok |-> TRUE]
    BY <1>13, <1>18, <1>19, <1>20
<1>22. ASSUME NEW k \in 1..14 PROVE nums[Primary[k]] = s.num[Primary[k]]
    <2>1. Primary[k] \in names /\ \A i \in DOMAIN fields : fields[i] # Primary[k]
        BY <1>10, <1>12, <1>14, FieldsOfBlocks
    <2>. QED
        BY <1>9, <1>18, <2>1
<1>23. ASSUME NEW k \in 1..2 PROVE nums[Block[k]] = s.num[Block[k]]
    <2>. DEFINE f == Block[k]
                w == s.num[f]
    <2>1. /\ f \in Fields /\ w \in Word /\ f # "bundle_proc_flags"
        <3>1. Primary[1] = "bundle_proc_flags" /\ 1 \in 1..14
            BY PrimaryFields
        <3>. QED
            BY <1>0, <3>1, FieldsOfBlocks DEF Encodable
    <2>2. was[f] = x.num[f]
        BY <1>6, <2>1 DEF PrimaryTaken, Cleared
    <2>3. nums[f] = DecodedInto(x.num[f], w)
        BY <1>10, <1>12, <1>14, <1>18, <2>2
    <2>4. PICK o : o = x.num[f]
        OBVIOUS
    <2>5. \A i \in Width(w)+1..IntBytes : o[i] = 0
        BY <2>1, <2>4 DEF NoWider
    <2>. HIDE DEF f, w
    <2>6. DecodedInto(o, w) = w
        BY <2>1, <2>5, DecodedOverNarrower
    <2>. QED
        BY <2>3, <2>4, <2>6 DEF f, w
<1>24. DOMAIN nums = Fields
    BY <1>12, <1>18
<1>25. ASSUME NEW f \in Fields PROVE nums[f] = s.num[f]
    <2>1. (\E k \in 1..14 : f = Primary[k]) \/ (\E k \in 1..2 : f = Block[k])
        BY FieldsOfBlocks
    <2>. QED
        BY <1>22, <1>23, <2>1
<1>. QED
    BY <1>21, <1>24, <1>25

\* What follows the flags leaves them alone.
LEMMA BlockKeepsFlags ==
    ASSUME NEW s, Encodable(s), NEW x, DOMAIN x.num = Fields, NEW nums, NEW primary,
           AfterPrimary(primary, nums, x, s)
    PROVE  /\ PayloadBlock(x, primary).num["bundle_proc_flags"] = s.num["bundle_proc_flags"]
           /\ DOMAIN PayloadBlock(x, primary).num = Fields
<1>1. /\ primary = [num |-> nums, at |-> 1 + Len(PrimaryPart(s)), ok |-> TRUE]
      /\ PrimaryTaken(nums, Cleared(x.num), s) /\ DOMAIN nums = Fields
    BY DEF AfterPrimary, PrimaryTaken
<1>2. nums["bundle_proc_flags"] = s.num["bundle_proc_flags"]
    BY <1>1, FlagsTaken
<1>3. PICK fields, to : fields = Block /\ to = DictionaryEnd(primary) + 1
    OBVIOUS
<1>4. PayloadBlock(x, primary) = Take(x.bundle, [num |-> nums, at |-> to, ok |-> TRUE], fields)
    <2>1. PayloadBlock(x, primary)
             = Take(x.bundle, [primary EXCEPT !.at = DictionaryEnd(primary) + 1], Block)
        BY Zenon DEF PayloadBlock, Block
    <2>2. [primary EXCEPT !.at = to] = [num |-> nums, at |-> to, ok |-> TRUE]
        BY <1>1, MovedTo, Zenon
    <2>. QED
        BY <1>3, <2>1, <2>2
<1>5. PICK array, ok : array = x.bundle /\ ok = TRUE
    OBVIOUS
<1>6. PICK m \in Nat : m = 2
    OBVIOUS
<1>6a. DOMAIN fields = 1..m
    BY <1>3, <1>6, BlockFields
<1>7. PICK c : c = Take(array, [num |-> nums, at |-> to, ok |-> ok], fields)
    OBVIOUS
<1>8. /\ DOMAIN c.num = DOMAIN nums
      /\ \A f \in DOMAIN nums : (\A k \in 1..m : fields[k] # f) => c.num[f] = nums[f]
    BY <1>6a, <1>7, TakeKeeps
<1>9. \A k \in 1..m : fields[k] # "bundle_proc_flags"
    <2>1. Primary[1] = "bundle_proc_flags" /\ 1 \in 1..14
        BY PrimaryFields
    <2>. QED
        BY <1>3, <1>6, <2>1, FieldsOfBlocks
<1>10. c.num["bundle_proc_flags"] = s.num["bundle_proc_flags"] /\ DOMAIN c.num = Fields
    BY <1>1, <1>2, <1>8, <1>9, ComputedFields
<1>11. PayloadBlock(x, primary) = c
    BY <1>4, <1>5, <1>7
<1>. QED
    BY <1>10, <1>11

\* The struct that bundle_decode leaves, field by field.
DecodedParts(d, x, primary, block) ==
    /\ DOMAIN d = StructFields
    /\ d.version = x.bundle[1] /\ d.num = block.num
    /\ d.dictionary = NewDictionary(x, primary)
    /\ d.uri = [i \in 1..8 |-> StringAt(NewDictionary(x, primary), ValueOf(block.num[Offsets[i]]))]
    /\ d.block_type = x.bundle[DictionaryEnd(primary) + 1]
    /\ d.iscustody = IsSet(block.num, CustodyTransfer) /\ d.isadmin = IsSet(block.num, AdminRecord)
    /\ d.payload = Overwrite(x.payload, SubSeq(x.bundle, block.at + 1,
                       block.at + ValueOf(block.num["payload_block_length"])))
    /\ d.bundle = x.bundle

LEMMA DecodedByParts ==
    ASSUME NEW x, IsStruct(x)
    PROVE  DecodedParts(BundleDecode(x), x, PrimaryBlock(x), PayloadBlock(x, PrimaryBlock(x)))
<1>. DEFINE primary == PrimaryBlock(x)
            block == PayloadBlock(x, primary)
            v == x.bundle[1]
            m == block.num
            y == NewDictionary(x, primary)
            u == [i \in DOMAIN Offsets |-> StringAt(y, ValueOf(m[Offsets[i]]))]
            t == x.bundle[DictionaryEnd(primary) + 1]
            c == IsSet(m, CustodyTransfer)
            a == IsSet(m, AdminRecord)
            l == block.at + ValueOf(m["payload_block_length"])
            p == Overwrite(x.payload, SubSeq(x.bundle, block.at + 1, l))
            d == [x EXCEPT !.version = v, !.num = m, !.dictionary = y, !.uri = u,
                           !.block_type = t, !.iscustody = c, !.isadmin = a, !.payload = p,
                           !.bundle_len = l]
<1>1. BundleDecode(x) = d
    BY Zenon DEF BundleDecode
<1>2. DOMAIN x = StructFields
    BY DEF IsStruct
<1>3. DOMAIN Offsets = 1..8
    BY OffsetFields
<1>4. u = [i \in 1..8 |-> StringAt(y, ValueOf(m[Offsets[i]]))]
    BY <1>3
<1>. HIDE DEF v, m, y, u, t, c, a, l, p
<1>5. /\ DOMAIN d = StructFields /\ d.version = v /\ d.num = m /\ d.dictionary = y
      /\ d.uri = u /\ d.block_type = t /\ d.iscustody = c /\ d.isadmin = a
      /\ d.payload = p /\ d.bundle = x.bundle
    BY <1>2 DEF StructFields
<1>. HIDE DEF d
<1>. QED
    BY <1>1, <1>4, <1>5, Zenon DEF DecodedParts, v, m, y, t, c, a, l, p

\* Whatever the integers held, decoding gives a struct with the marks that were sent.
LEMMA DecodedAnyhow ==
    ASSUME NEW s, UpToDate(s), NEW n, NEW x, IsStruct(x), Arrived(x.bundle, s, n)
    PROVE  LET d == BundleDecode(x) IN
           IsStruct(d) /\ d.iscustody = s.iscustody /\ d.isadmin = s.isadmin
<1>. DEFINE d == BundleDecode(x)
            primary == PrimaryBlock(x)
            block == PayloadBlock(x, primary)
<1>0. Encodable(s) /\ s.uri \in Names
    BY DEF UpToDate, Encodable
<1>1. DecodedParts(d, x, primary, block)
    BY DecodedByParts
<1>2. /\ DOMAIN x = StructFields /\ DOMAIN x.num = Fields
      /\ DOMAIN x.dictionary = 1..DictionaryMax /\ DOMAIN x.payload = 1..PayloadMax
      /\ DOMAIN x.bundle = 1..BundleMax
    BY DEF IsStruct
<1>3. PICK array : array = x.bundle
    OBVIOUS
<1>4. \E nums : AfterPrimary(primary, nums, x, s)
    <2>1. Arrived(array, s, n)
        BY <1>3
    <2>2. \E nums : /\ PrimaryTaken(nums, Cleared(x.num), s)
                    /\ PrimaryBlock(x) = [num |-> nums, at |-> 1 + Len(PrimaryPart(s)), ok |-> TRUE]
        BY <1>0, <1>2, <1>3, <2>1, PrimaryRead
    <2>. QED
        BY <2>2, Zenon DEF AfterPrimary
<1>5. /\ block.num["bundle_proc_flags"] = s.num["bundle_proc_flags"]
      /\ DOMAIN block.num = Fields
    <2>1. PICK nums : AfterPrimary(primary, nums, x, s)
        BY <1>4
    <2>. HIDE DEF primary
    <2>. QED
        BY <1>0, <1>2, <2>1, BlockKeepsFlags
<1>. HIDE DEF d, primary, block
<1>6. IsStruct(d)
    <2>1. DOMAIN d.num = Fields /\ DOMAIN d = StructFields /\ d.bundle = x.bundle
        BY <1>1, <1>5, Zenon DEF DecodedParts
    <2>2. DOMAIN d.dictionary = DOMAIN x.dictionary
        BY <1>1 DEF DecodedParts, NewDictionary, Overwrite
    <2>3. DOMAIN d.payload = DOMAIN x.payload
        BY <1>1 DEF DecodedParts, Overwrite
    <2>. QED
        BY <1>2, <2>1, <2>2, <2>3, Zenon DEF IsStruct
<1>7. PICK at : StringsEnd(at, s.uri)
    BY <1>0, DictionaryByStrings
<1>8. IsSet(s.num, CustodyTransfer) = s.iscustody /\ IsSet(s.num, AdminRecord) = s.isadmin
    BY <1>7, NumbersOfBundle
<1>9. /\ IsSet(block.num, CustodyTransfer) = IsSet(s.num, CustodyTransfer)
      /\ IsSet(block.num, AdminRecord) = IsSet(s.num, AdminRecord)
    BY <1>5, Zenon DEF IsSet
<1>10. d.iscustody = s.iscustody /\ d.isadmin = s.isadmin
    BY <1>1, <1>8, <1>9, Zenon DEF DecodedParts
<1>. QED
    BY <1>6, <1>10 DEF d

\* The dictionary is at the front of the struct's.
DictionaryHeld(dictionary, s) ==
    \A j \in 1..Len(Dictionary(s.uri)) : dictionary[j] = Dictionary(s.uri)[j]

LEMMA DictionaryRead ==
    ASSUME NEW s, UpToDate(s), NEW n, NEW x, IsStruct(x), Arrived(x.bundle, s, n), NEW primary,
           primary.at = 1 + Len(PrimaryPart(s)),
           DictionaryEnd(primary) = 1 + Len(PrimaryPart(s)) + Len(Dictionary(s.uri))
    PROVE  DictionaryHeld(NewDictionary(x, primary), s)
<1>. DEFINE D == Len(Dictionary(s.uri))
            P == Len(PrimaryPart(s))
            part == SubSeq(x.bundle, primary.at + 1, DictionaryEnd(primary))
<1>1. Encodable(s) /\ D \in 0..DictionaryMax /\ DictionaryMax \in Nat
    BY DictionaryIsSeq DEF UpToDate, Encodable
<1>2. P \in Nat
    BY <1>1, EncodingLaidOut
<1>3. HeaderArrived(x.bundle, s)
    BY <1>1, HeaderRead
<1>4. \A i \in 1..D : x.bundle[1 + P + i] = Dictionary(s.uri)[i]
    BY <1>3 DEF HeaderArrived
<1>5. DOMAIN x.dictionary = 1..DictionaryMax
    BY DEF IsStruct
<1>6. PICK at \in Nat, k \in Nat : at = 1 + P /\ k = D
    <2>. HIDE DEF P, D
    <2>. QED
        BY <1>1, <1>2
<1>6a. PICK array : array = x.bundle
    OBVIOUS
<1>7. part = SubSeq(array, at + 1, at + k)
    BY <1>6, <1>6a
<1>. HIDE DEF part, D, P
<1>8. Len(part) = k /\ \A i \in 1..k : part[i] = array[at + i]
    BY <1>7, PartAfter
<1>9. PICK o : o = x.dictionary
    OBVIOUS
<1>10. \A i \in 1..DictionaryMax : Overwrite(o, part)[i] = IF i <= Len(part) THEN part[i] ELSE o[i]
    <2>1. DOMAIN o = 1..DictionaryMax /\ Len(part) \in Nat
        BY <1>5, <1>8, <1>9
    <2>. QED
        BY <1>1, <2>1, Overwritten
<1>11. NewDictionary(x, primary) = Overwrite(o, part)
    BY <1>9 DEF NewDictionary, part
<1>12. ASSUME NEW j \in 1..D PROVE NewDictionary(x, primary)[j] = Dictionary(s.uri)[j]
    <2>1. j \in 1..DictionaryMax /\ j \in 1..k /\ j <= Len(part)
        BY <1>1, <1>6, <1>8
    <2>2. Overwrite(o, part)[j] = array[at + j]
        BY <1>8, <1>10, <2>1
    <2>3. array[at + j] = Dictionary(s.uri)[j]
        BY <1>4, <1>6, <1>6a
    <2>. QED
        BY <1>11, <2>2, <2>3
<1>. QED
    BY <1>12 DEF D, DictionaryHeld

\* What decoding gives of a bundle that came: all of it, but for the end of its
\* payload.
AsSent(d, s, array) ==
    /\ d.version = s.version /\ d.uri = s.uri /\ d.block_type = s.block_type
    /\ \A f \in Fields : d.num[f] = s.num[f]
    /\ \A i \in 1..Len(PayloadOf(s)) : d.payload[i] = array[HeaderLen(s) + i]

LEMMA DecodedAsSent ==
    ASSUME NEW s, UpToDate(s), NEW n, NEW x, IsStruct(x), Arrived(x.bundle, s, n), NoWider(x, s)
    PROVE  DecodesInside(x) /\ AsSent(BundleDecode(x), s, x.bundle)
<1>. DEFINE d == BundleDecode(x)
            primary == PrimaryBlock(x)
            block == PayloadBlock(x, primary)
            D == Len(Dictionary(s.uri))
            P == Len(PrimaryPart(s))
            Y == Len(PayloadOf(s))
            H == HeaderLen(s)
            dictionary == NewDictionary(x, primary)
<1>0. Encodable(s) /\ s.uri \in Names
    BY DEF UpToDate, Encodable
<1>1. DecodedParts(d, x, primary, block)
    BY DecodedByParts
<1>2. /\ DOMAIN x = StructFields /\ DOMAIN x.num = Fields
      /\ DOMAIN x.payload = 1..PayloadMax
    BY DEF IsStruct
<1>3. PICK array : array = x.bundle /\ Arrived(array, s, n)
    OBVIOUS
<1>4. PICK was : AfterPrimary(primary, was, x, s)
    <2>1. \E nums : /\ PrimaryTaken(nums, Cleared(x.num), s)
                    /\ PrimaryBlock(x) = [num |-> nums, at |-> 1 + Len(PrimaryPart(s)), ok |-> TRUE]
        BY <1>0, <1>2, <1>3, PrimaryRead
    <2>. QED
        BY <2>1, Zenon DEF AfterPrimary
<1>5. /\ P \in Nat /\ H = 2 + P + D + Len(BlockPart(s)) /\ Len(BlockPart(s)) \in Nat
      /\ H <= HeaderMax /\ HeaderMax \in Nat /\ H \in Nat
      /\ Y = ValueOf(s.num["payload_block_length"]) /\ H + Y <= BundleMax
    BY <1>0, EncodingLaidOut DEF HeaderLen
<1>6. D \in 0..DictionaryMax /\ DictionaryMax \in Nat /\ Y \in 0..PayloadMax
    BY <1>0, <1>5, DictionaryIsSeq DEF Encodable
<1>7. HeaderMax <= BundleMax /\ BundleMax \in Nat /\ PayloadMax \in Nat
    BY <1>5, ArraysAssumption
<1>8. HeaderArrived(array, s)
    BY <1>0, <1>3, HeaderRead
<1>9. primary = [num |-> was, at |-> 1 + P, ok |-> TRUE]
    BY <1>4 DEF AfterPrimary
<1>. HIDE DEF d, primary, block
<1>10. PICK at : StringsEnd(at, s.uri) /\ \A i \in 1..8 : ValueOf(primary.num[Offsets[i]]) = at[i - 1]
    BY <1>2, <1>4, DictionaryEnds
<1>11. /\ ValueOf(primary.num["dictionary_length"]) = D
       /\ DictionaryEnd(primary) = 1 + P + D
    BY <1>2, <1>4, DictionaryEnds
<1>12. PICK nums : /\ DOMAIN nums = Fields /\ \A f \in Fields : nums[f] = s.num[f]
                   /\ block = [num |-> nums, at |-> H, ok |-> TRUE]
    BY <1>2, <1>3, <1>4, BlockRead DEF block
<1>13. /\ primary.at = 1 + P /\ primary.ok = TRUE
       /\ block.num = nums /\ block.at = H /\ block.ok = TRUE
    BY <1>9, <1>12, Zenon
<1>14. \A j \in 1..D : dictionary[j] = Dictionary(s.uri)[j]
    <2>1. PICK to : to = primary
        OBVIOUS
    <2>2. to.at = 1 + Len(PrimaryPart(s))
        BY <1>13, <2>1
    <2>3. DictionaryEnd(to) = 1 + Len(PrimaryPart(s)) + Len(Dictionary(s.uri))
        BY <1>11, <2>1
    <2>4. DictionaryHeld(NewDictionary(x, to), s)
        BY <2>2, <2>3, DictionaryRead, Zenon
    <2>. QED
        BY <2>1, <2>4 DEF DictionaryHeld
<1>. HIDE DEF dictionary
<1>15. \A i \in 1..8 : ValueOf(block.num[Offsets[i]]) = at[i - 1]
    <2>1. \A i \in 1..8 : ValueOf(s.num[Offsets[i]]) = at[i - 1]
        BY <1>10, NumbersOfBundle
    <2>2. \A i \in 1..8 : Offsets[i] \in Fields
        BY OffsetsDiffer
    <2>. QED
        BY <1>12, <1>13, <2>1, <2>2
<1>16. \A i \in 1..8 : /\ StringAt(dictionary, at[i - 1]) = s.uri[i]
                       /\ EndsInside(dictionary, at[i - 1])
    BY <1>0, <1>10, <1>14, StringReadBack
<1>17. ValueOf(block.num["payload_block_length"]) = Y
    <2>1. "payload_block_length" \in Fields
        BY OffsetsDiffer, ComputedFields
    <2>. QED
        BY <1>5, <1>12, <1>13, <2>1
<1>. HIDE DEF D, P, Y, H
<1>18. DecodesInside(x)
    <2>1. DictionaryEnd(primary) < BundleMax
        BY <1>5, <1>6, <1>7, <1>11
    <2>2. Y <= PayloadMax /\ block.at + Y <= BundleMax
        BY <1>5, <1>6, <1>7, <1>13
    <2>3. \A i \in DOMAIN Offsets : EndsInside(dictionary, ValueOf(primary.num[Offsets[i]]))
        BY <1>10, <1>16, OffsetFields
    <2>4. D <= DictionaryMax
        BY <1>6
    <2>5. primary.ok /\ block.ok
        BY <1>13
    <2>. QED
        BY <1>11, <1>17, <2>1, <2>2, <2>3, <2>4, <2>5, Zenon DEF DecodesInside, primary, block, dictionary
<1>19. d.uri = s.uri
    <2>1. d.uri = [i \in 1..8 |-> StringAt(dictionary, ValueOf(block.num[Offsets[i]]))]
        BY <1>1, Zenon DEF DecodedParts, dictionary
    <2>2. s.uri \in [1..8 -> Seq(Byte)]
        BY <1>0, BundlesAssumption, OffsetFields
    <2>3. \A i \in 1..8 : StringAt(dictionary, ValueOf(block.num[Offsets[i]])) = s.uri[i]
        BY <1>15, <1>16
    <2>4. PICK text : text = [i \in 1..8 |-> StringAt(dictionary, ValueOf(block.num[Offsets[i]]))]
        OBVIOUS
    <2>5. DOMAIN text = 1..8 /\ \A i \in 1..8 : text[i] = s.uri[i]
        BY <2>3, <2>4
    <2>6. text = s.uri
        BY <2>2, <2>4, <2>5
    <2>. QED
        BY <2>1, <2>4, <2>6
<1>20. d.version = s.version
    BY <1>1, <1>3, <1>8 DEF DecodedParts, HeaderArrived
<1>21. d.block_type = s.block_type
    <2>1. DictionaryEnd(primary) + 1 = 2 + P + D
        BY <1>5, <1>6, <1>11
    <2>2. array[2 + P + D] = s.block_type
        BY <1>8 DEF HeaderArrived, P, D
    <2>3. d.block_type = x.bundle[DictionaryEnd(primary) + 1]
        BY <1>1, Zenon DEF DecodedParts
    <2>. QED
        BY <1>3, <2>1, <2>2, <2>3
<1>22. \A f \in Fields : d.num[f] = s.num[f]
    BY <1>1, <1>12, <1>13 DEF DecodedParts
<1>23. \A i \in 1..Y : d.payload[i] = array[H + i]
    <2>. DEFINE part == SubSeq(array, H + 1, H + Y)
    <2>1. d.payload = Overwrite(x.payload, part)
        BY <1>1, <1>3, <1>13, <1>17, Zenon DEF DecodedParts
    <2>2. Len(part) = Y /\ \A i \in 1..Y : part[i] = array[H + i]
        <3>1. H \in Nat /\ Y \in Nat
            BY <1>5, <1>6
        <3>. QED
            BY <3>1, PartAfter
    <2>. HIDE DEF part
    <2>3. PICK o : o = x.payload
        OBVIOUS
    <2>4. \A i \in 1..PayloadMax : Overwrite(o, part)[i] = IF i <= Len(part) THEN part[i] ELSE o[i]
        <3>1. DOMAIN o = 1..PayloadMax /\ Len(part) \in Nat
            BY <1>2, <1>6, <2>2, <2>3
        <3>. QED
            BY <1>7, <3>1, Overwritten
    <2>. TAKE i \in 1..Y
    <2>5. i \in 1..PayloadMax /\ i <= Len(part)
        BY <1>6, <1>7, <2>2
    <2>. QED
        BY <2>1, <2>2, <2>3, <2>4, <2>5
<1>24. AsSent(d, s, array)
    BY <1>19, <1>20, <1>21, <1>22, <1>23 DEF AsSent, Y, H
<1>. QED
    BY <1>3, <1>18, <1>24 DEF d

\* The struct after recvfrom, and after bundle_decode and bundle_encode.
Filled(x, bytes) == [x EXCEPT !.bundle = Overwrite(@, Datagram(bytes))]
Reread(x, bytes) == BundleEncode(BundleDecode(Filled(x, bytes)))

\* How many bytes of a bundle arrive.
Kept(s) == IF Len(Encoding(s)) <= BufferSize THEN Len(Encoding(s)) ELSE BufferSize

LEMMA LeastOfTwo ==
    ASSUME NEW a \in Nat, NEW b \in Nat
    PROVE  Min({a, b}) = IF a <= b THEN a ELSE b
<1>. DEFINE m == IF a <= b THEN a ELSE b
<1>1. m \in {a, b} /\ \A i \in {a, b} : m <= i
    OBVIOUS
<1>2. {a, b} \in SUBSET Nat
    OBVIOUS
<1>. HIDE DEF m
<1>3. PICK I \in SUBSET Nat : I = {a, b}
    BY <1>2
<1>4. Min(I) = m
    BY <1>1, <1>3, MinIs
<1>. QED
    BY <1>3, <1>4 DEF m

LEMMA DatagramArrives ==
    ASSUME NEW s, UpToDate(s), NEW x, IsStruct(x)
    PROVE  LET f == Filled(x, Encoding(s)) IN
           IsStruct(f) /\ f.num = x.num /\ Arrived(f.bundle, s, Kept(s))
<1>. DEFINE bytes == Encoding(s)
            part == Datagram(bytes)
            f == Filled(x, bytes)
<1>1. Encodable(s)
    BY DEF UpToDate
<1>2. /\ IsSeq(bytes) /\ Len(bytes) <= BundleMax
      /\ HeaderLen(s) \in Nat /\ HeaderLen(s) <= HeaderMax /\ HeaderMax \in Nat
      /\ Len(bytes) = HeaderLen(s) + Len(PayloadOf(s))
    BY <1>1, EncodingLaidOut DEF Laid
<1>3. Len(PayloadOf(s)) \in Nat
    BY <1>1, EncodingLaidOut DEF Encodable
<1>4. BufferSize \in Nat /\ HeaderMax <= BufferSize /\ BundleMax \in Nat
    BY BufferAssumption, ArraysAssumption
<1>. HIDE DEF bytes
<1>5. PICK k \in Nat, n \in Nat : k = Len(bytes) /\ n = Kept(s)
    BY <1>2, <1>3, <1>4 DEF Kept, bytes
<1>6. /\ HeaderLen(s) <= n /\ n <= Len(bytes) /\ n <= BundleMax
      /\ n = IF k <= BufferSize THEN k ELSE BufferSize
    BY <1>2, <1>3, <1>4, <1>5 DEF Kept, bytes
<1>7. part = SubSeq(bytes, 1, n)
    <2>1. Min({k, BufferSize}) = n
        BY <1>4, <1>6, LeastOfTwo
    <2>. QED
        BY <1>5, <2>1 DEF Datagram
<1>. HIDE DEF part
<1>8. Len(part) = n /\ \A i \in 1..n : part[i] = bytes[i]
    BY <1>7, FirstPart
<1>9. /\ DOMAIN x = StructFields /\ DOMAIN x.num = Fields
      /\ DOMAIN x.dictionary = 1..DictionaryMax /\ DOMAIN x.payload = 1..PayloadMax
      /\ DOMAIN x.bundle = 1..BundleMax
    BY DEF IsStruct
<1>10. PICK o, a : o = x.bundle /\ a = Overwrite(o, part)
    OBVIOUS
<1>11. f = [x EXCEPT !.bundle = a]
    BY <1>10 DEF Filled, part
<1>12. /\ DOMAIN a = 1..BundleMax /\ IsSeq(a) /\ Len(a) = BundleMax
       /\ \A i \in 1..BundleMax : a[i] = IF i <= Len(part) THEN part[i] ELSE o[i]
    <2>1. DOMAIN o = 1..BundleMax /\ Len(part) \in Nat
        BY <1>8, <1>9, <1>10
    <2>2. /\ DOMAIN Overwrite(o, part) = 1..BundleMax /\ IsSeq(Overwrite(o, part))
          /\ Len(Overwrite(o, part)) = BundleMax
          /\ \A i \in 1..BundleMax :
                 Overwrite(o, part)[i] = IF i <= Len(part) THEN part[i] ELSE o[i]
        BY <1>4, <2>1, Overwritten
    <2>. QED
        BY <1>10, <2>2
<1>13. /\ DOMAIN f = StructFields /\ f.num = x.num /\ f.bundle = a
       /\ f.dictionary = x.dictionary /\ f.payload = x.payload
    BY <1>9, <1>11 DEF StructFields
<1>. HIDE DEF f
<1>14. IsStruct(f)
    BY <1>9, <1>12, <1>13, Zenon DEF IsStruct
<1>15. Arrived(a, s, n)
    <2>1. \A i \in 1..n : a[i] = bytes[i]
        BY <1>4, <1>6, <1>8, <1>12
    <2>. QED
        BY <1>6, <1>12, <2>1 DEF Arrived, bytes
<1>. QED
    BY <1>5, <1>13, <1>14, <1>15 DEF f, bytes

\* The header says the same, and so does the payload as far as it came.
AsFarAsItCame(e, s) ==
    /\ e.version = s.version /\ e.iscustody = s.iscustody /\ e.isadmin = s.isadmin
    /\ e.uri = s.uri /\ e.block_type = s.block_type /\ e.num = s.num
    /\ Len(PayloadOf(e)) = Len(PayloadOf(s))
    /\ \A i \in 1..Kept(s) - HeaderLen(s) : PayloadOf(e)[i] = PayloadOf(s)[i]
    /\ SubSeq(e.bundle, 1, e.bundle_len) = Encoding(e)

LEMMA RereadAnyhow ==
    ASSUME NEW s, UpToDate(s), NEW x, IsStruct(x)
    PROVE  LET e == Reread(x, Encoding(s)) IN
           /\ IsStruct(e) /\ e.iscustody = s.iscustody /\ e.isadmin = s.isadmin
<1>1. PICK f : f = Filled(x, Encoding(s))
    OBVIOUS
<1>2. IsStruct(f) /\ Arrived(f.bundle, s, Kept(s))
    BY <1>1, DatagramArrives
<1>3. PICK d, n : d = BundleDecode(f) /\ n = Kept(s)
    OBVIOUS
<1>4. IsStruct(d) /\ d.iscustody = s.iscustody /\ d.isadmin = s.isadmin
    BY <1>2, <1>3, DecodedAnyhow
<1>5. PICK e : e = BundleEncode(d)
    OBVIOUS
<1>6. IsStruct(e) /\ e.iscustody = d.iscustody /\ e.isadmin = d.isadmin
    BY <1>4, <1>5, Encoded
<1>. QED
    BY <1>1, <1>3, <1>4, <1>5, <1>6 DEF Reread

LEMMA RereadAsSent ==
    ASSUME NEW s, UpToDate(s), NEW x, IsStruct(x), NoWider(x, s)
    PROVE  /\ DecodesInside(Filled(x, Encoding(s)))
           /\ AsFarAsItCame(Reread(x, Encoding(s)), s)
<1>. DEFINE H == HeaderLen(s)
            Y == Len(PayloadOf(s))
<1>0. /\ Encodable(s) /\ s.uri \in Names /\ s.num = Renumbered(s)
    BY DEF UpToDate, Encodable
<1>1. PICK f : f = Filled(x, Encoding(s))
    OBVIOUS
<1>2. IsStruct(f) /\ f.num = x.num
    BY <1>1, DatagramArrives
<1>3. PICK n, array : n = Kept(s) /\ array = f.bundle
    OBVIOUS
<1>4. Arrived(array, s, n) /\ Arrived(f.bundle, s, n)
    BY <1>1, <1>3, DatagramArrives
<1>5. NoWider(f, s)
    BY <1>2 DEF NoWider
<1>6. PICK d : d = BundleDecode(f)
    OBVIOUS
<1>7. DecodesInside(f) /\ AsSent(d, s, array)
    BY <1>2, <1>3, <1>4, <1>5, <1>6, DecodedAsSent
<1>8. IsStruct(d) /\ d.iscustody = s.iscustody /\ d.isadmin = s.isadmin
    BY <1>2, <1>4, <1>6, DecodedAnyhow
<1>9. PICK e : e = BundleEncode(d)
    OBVIOUS
<1>10. /\ IsStruct(e) /\ e.num = Renumbered(d)
       /\ e.version = d.version /\ e.iscustody = d.iscustody /\ e.isadmin = d.isadmin
       /\ e.uri = d.uri /\ e.block_type = d.block_type /\ e.payload = d.payload
       /\ e.bundle = Overwrite(d.bundle, Encoding(e)) /\ e.bundle_len = Len(Encoding(e))
    BY <1>8, <1>9, Encoded
<1>11. /\ d.version = s.version /\ d.uri = s.uri /\ d.block_type = s.block_type
       /\ \A g \in Fields : d.num[g] = s.num[g]
       /\ \A i \in 1..Y : d.payload[i] = array[H + i]
    BY <1>7 DEF AsSent
<1>12. e.num = s.num
    <2>1. \A g \in Plain : g \in Fields
        BY OffsetsDiffer
    <2>2. Renumbered(d) = Renumbered(s)
        BY <1>8, <1>11, <2>1, RenumberedSame
    <2>. QED
        BY <1>0, <1>10, <2>2
<1>13. /\ H \in Nat /\ Y = ValueOf(s.num["payload_block_length"]) /\ Y \in Nat
       /\ Len(Encoding(s)) = H + Y
    BY <1>0, EncodingLaidOut DEF Encodable
<1>14. \A i \in 1..n - H : array[H + i] = PayloadOf(s)[i]
    BY <1>0, <1>4, HeaderRead
<1>15. n \in Nat /\ H <= n /\ n <= H + Y
    BY <1>4, <1>13 DEF Arrived
<1>. HIDE DEF H, Y
<1>16. PayloadOf(e) = SubSeq(d.payload, 1, Y)
    BY <1>10, <1>12, <1>13 DEF PayloadOf
<1>17. PICK y : y = d.payload
    OBVIOUS
<1>18. IsSeq(PayloadOf(e)) /\ Len(PayloadOf(e)) = Y /\ \A i \in 1..Y : PayloadOf(e)[i] = y[i]
    BY <1>13, <1>16, <1>17, FirstPart
<1>19. ASSUME NEW i \in 1..n - H PROVE PayloadOf(e)[i] = PayloadOf(s)[i]
    <2>1. i \in 1..Y
        BY <1>13, <1>15
    <2>. QED
        BY <1>11, <1>14, <1>17, <1>18, <2>1
<1>20. Encodable(e)
    <2>1. e.uri = s.uri
        BY <1>10, <1>11
    <2>. QED
        BY <1>0, <1>12, <2>1 DEF Encodable
<1>21. SubSeq(e.bundle, 1, e.bundle_len) = Encoding(e)
    <2>1. IsSeq(Encoding(e)) /\ Len(Encoding(e)) <= BundleMax /\ BundleMax \in Nat
        BY <1>20, EncodingLaidOut, ArraysAssumption DEF Laid
    <2>2. PICK o, bytes : o = d.bundle /\ bytes = Encoding(e)
        OBVIOUS
    <2>3. DOMAIN o = 1..BundleMax
        BY <1>8, <2>2 DEF IsStruct
    <2>4. SubSeq(Overwrite(o, bytes), 1, Len(bytes)) = bytes
        BY <2>1, <2>2, <2>3, FrontOfOverwritten
    <2>. QED
        BY <1>10, <2>2, <2>4
<1>22. AsFarAsItCame(e, s)
    BY <1>3, <1>8, <1>10, <1>11, <1>12, <1>18, <1>19, <1>21 DEF AsFarAsItCame, H, Y
<1>. QED
    BY <1>1, <1>6, <1>7, <1>9, <1>22 DEF Reread

-----------------------------------------------------------------------------
(***************************************************************************)
(* What a sender encodes.                                                  *)
(***************************************************************************)
Mark(names) == names[8] # <<>>

\* The struct that bp_sendto fills.
FilledIn(names, time, number, payload, isadmin, fill) ==
    [Memory(fill) EXCEPT
        !.uri = names,
        !.iscustody = Mark(names),
        !.isadmin = isadmin,
        !.num = [@ EXCEPT
            !["creation_time"] = time,
            !["creation_sequence_number"] = number,
            !["payload_block_length"] = WordOf(Len(payload))],
        !.payload = Overwrite(@, payload)]

LEMMA ValueIsNat ==
    ASSUME NEW w \in Word
    PROVE  ValueOf(w) \in Nat
<1>1. PICK v \in [1..IntBytes+1 -> Nat] : v[1] = ValueOf(w)
    BY ValueByBytes
<1>2. 1 \in 1..IntBytes+1
    BY Sizes
<1>. QED
    BY <1>1, <1>2

LEMMA LengthFitsWord ==
    ASSUME NEW payload \in Payloads
    PROVE  /\ Len(payload) \in 0..PayloadMax /\ PayloadMax \in Nat
           /\ WordOf(Len(payload)) \in Word
           /\ ValueOf(WordOf(Len(payload))) = Len(payload)
<1>. DEFINE m == 2^(IntBytes * ByteBits)
            k == Len(payload)
<1>1. payload \in Seq(Byte) /\ k <= PayloadMax /\ PayloadMax \in Nat
    BY BundlesAssumption, ArraysAssumption
<1>2. k \in Nat
    BY <1>1
<1>3. m \in Nat /\ PayloadMax < m
    BY ArraysFitWord
<1>. HIDE DEF m, k
<1>4. k < m
    BY <1>1, <1>2, <1>3
<1>5. WordOf(k) \in Word
    BY <1>2, WordOfIsWord
<1>6. ValueOf(WordOf(k)) = k
    BY <1>2, <1>4, ValueOfWord DEF m
<1>. QED
    BY <1>1, <1>2, <1>5, <1>6 DEF k

LEMMA MemoryIsStruct ==
    ASSUME NEW fill \in Fills
    PROVE  /\ IsStruct(Memory(fill))
           /\ \A f \in Fields : Memory(fill).num[f] \in Word
<1>. DEFINE m == Memory(fill)
            nums == [f \in Fields |-> [i \in 1..IntBytes |-> fill]]
            d == [i \in 1..DictionaryMax |-> fill]
            p == [i \in 1..PayloadMax |-> fill]
            b == [i \in 1..BundleMax |-> fill]
            u == [i \in DOMAIN Offsets |-> <<>>]
<1>1. m = [version |-> fill, iscustody |-> FALSE, isadmin |-> FALSE, uri |-> u, num |-> nums,
           dictionary |-> d, block_type |-> fill, payload |-> p, bundle |-> b, bundle_len |-> 0]
    BY DEF Memory
<1>2. /\ DOMAIN nums = Fields /\ DOMAIN d = 1..DictionaryMax
      /\ DOMAIN p = 1..PayloadMax /\ DOMAIN b = 1..BundleMax
    OBVIOUS
<1>3. fill \in Byte
    BY BundlesAssumption
<1>4. \A f \in Fields : nums[f] \in Word
    BY <1>3 DEF Word
<1>. HIDE DEF nums, d, p, b, u, m
<1>5. DOMAIN m = StructFields
    BY <1>1 DEF StructFields
<1>6. m.num = nums /\ m.dictionary = d /\ m.payload = p /\ m.bundle = b
    BY <1>1
<1>. QED
    BY <1>2, <1>4, <1>5, <1>6 DEF IsStruct, m

\* What bp_sendto fills in.
LEMMA FilledInBySender ==
    ASSUME NEW names \in Names, NEW time \in Times, NEW number \in Numbers,
           NEW payload \in Payloads, NEW isadmin \in BOOLEAN, NEW fill \in Fills
    PROVE  LET s == FilledIn(names, time, number, payload, isadmin, fill) IN
           /\ IsStruct(s) /\ s.uri = names /\ s.iscustody = Mark(names) /\ s.isadmin = isadmin
           /\ \A f \in Fields : s.num[f] \in Word
           /\ s.num["payload_block_length"] = WordOf(Len(payload))
<1>. DEFINE blank == Memory(fill)
            c == Mark(names)
            w == WordOf(Len(payload))
            nums == [blank.num EXCEPT !["creation_time"] = time,
                                      !["creation_sequence_number"] = number,
                                      !["payload_block_length"] = w]
            p == Overwrite(blank.payload, payload)
            s == [blank EXCEPT !.uri = names, !.iscustody = c, !.isadmin = isadmin,
                               !.num = nums, !.payload = p]
<1>1. FilledIn(names, time, number, payload, isadmin, fill) = s
    BY DEF FilledIn
<1>2. /\ DOMAIN blank = StructFields /\ DOMAIN blank.num = Fields
      /\ DOMAIN blank.dictionary = 1..DictionaryMax /\ DOMAIN blank.payload = 1..PayloadMax
      /\ DOMAIN blank.bundle = 1..BundleMax
      /\ \A f \in Fields : blank.num[f] \in Word
    BY MemoryIsStruct DEF IsStruct
<1>3. DOMAIN p = 1..PayloadMax
    BY <1>2 DEF Overwrite
<1>4. time \in Word /\ number \in Word /\ w \in Word
    BY LengthFitsWord, BundlesAssumption
<1>. HIDE DEF blank, c, w, p
<1>5. PICK old : old = blank.num
    OBVIOUS
<1>6. DOMAIN nums = Fields /\ (\A f \in Fields : nums[f] \in Word) /\ nums["payload_block_length"] = w
    <2>1. "payload_block_length" \in Fields
        BY OffsetsDiffer, ComputedFields
    <2>2. DOMAIN old = Fields /\ \A f \in Fields : old[f] \in Word
        BY <1>2, <1>5
    <2>3. nums = [old EXCEPT !["creation_time"] = time, !["creation_sequence_number"] = number,
                             !["payload_block_length"] = w]
        BY <1>5
    <2>. HIDE DEF nums
    <2>. QED
        BY <1>4, <2>1, <2>2, <2>3
<1>. HIDE DEF nums
<1>7. /\ DOMAIN s = StructFields /\ s.uri = names /\ s.iscustody = c /\ s.isadmin = isadmin
      /\ s.num = nums /\ s.payload = p /\ s.dictionary = blank.dictionary
      /\ s.bundle = blank.bundle
    BY <1>2 DEF StructFields
<1>. HIDE DEF s
<1>8. IsStruct(s)
    BY <1>2, <1>3, <1>6, <1>7, Zenon DEF IsStruct
<1>. QED
    BY <1>1, <1>6, <1>7, <1>8 DEF c, w

\* The array holds the encoding.
Sealed(s) ==
    /\ s.bundle_len = Len(Encoding(s)) /\ SubSeq(s.bundle, 1, s.bundle_len) = Encoding(s)

LEMMA OffsetsAreNat ==
    ASSUME NEW s, s.uri \in Names
    PROVE  \A i \in 1..8 : OffsetOf(s, i) \in Nat
<1>1. PICK at : StringsEnd(at, s.uri)
    BY DictionaryByStrings
<1>2. /\ at \in [0..8 -> Nat]
      /\ \A i \in 1..8 : Len(Dictionary(SubSeq(s.uri, 1, i - 1))) = at[i - 1]
    BY <1>1, Zenon DEF StringsEnd
<1>3. \A i \in 1..8 : i - 1 \in 0..8
    OBVIOUS
<1>. QED
    BY <1>2, <1>3 DEF OffsetOf

LEMMA RenumberedWords ==
    ASSUME NEW s, s.uri \in Names, s.iscustody \in BOOLEAN, s.isadmin \in BOOLEAN,
           \A f \in Fields : s.num[f] \in Word
    PROVE  \A f \in Fields : Renumbered(s)[f] \in Word
<1>1. /\ \A f \in Plain : Renumbered(s)[f] = s.num[f]
      /\ \A i \in 1..8 : Renumbered(s)[Offsets[i]] = WordOf(OffsetOf(s, i))
      /\ Renumbered(s)["dictionary_length"] = WordOf(Len(Dictionary(s.uri)))
      /\ Renumbered(s)["bundle_proc_flags"] = ProcFlags(s)
      /\ Renumbered(s)["primary_block_length"] = WordOf(PrimaryLength(Located(s)))
    BY RenumberedFields
<1>2. PICK l : l = Located(s)
    OBVIOUS
<1>3. /\ \A f \in Plain : l[f] = s.num[f]
      /\ \A i \in 1..8 : l[Offsets[i]] = WordOf(OffsetOf(s, i))
      /\ l["dictionary_length"] = WordOf(Len(Dictionary(s.uri)))
    BY <1>2, LocatedFields
<1>4. \A f \in Plain : f \in Fields
    BY OffsetsDiffer
<1>5. \A i \in 1..8 : OffsetOf(s, i) \in Nat /\ WordOf(OffsetOf(s, i)) \in Word
    <2>. TAKE i \in 1..8
    <2>1. PICK n : n = OffsetOf(s, i)
        OBVIOUS
    <2>2. n \in Nat
        BY <2>1, OffsetsAreNat
    <2>3. WordOf(n) \in Word
        BY <2>2, WordOfIsWord
    <2>. QED
        BY <2>1, <2>2, <2>3
<1>6. Len(Dictionary(s.uri)) \in Nat /\ WordOf(Len(Dictionary(s.uri))) \in Word
    <2>1. PICK n : n = Len(Dictionary(s.uri))
        OBVIOUS
    <2>2. n \in Nat
        BY <2>1, DictionaryIsSeq
    <2>3. WordOf(n) \in Word
        BY <2>2, WordOfIsWord
    <2>. QED
        BY <2>1, <2>2, <2>3
<1>7. ProcFlags(s) \in Word
    <2>1. PICK n : n = FlagsOf(s)
        OBVIOUS
    <2>2. n \in Nat
        BY <2>1, FlagsAreSmall
    <2>3. WordOf(n) \in Word
        BY <2>2, WordOfIsWord
    <2>4. ProcFlags(s) = WordOf(FlagsOf(s))
        BY DEF ProcFlags, FlagsOf
    <2>. QED
        BY <2>1, <2>3, <2>4
<1>8. \A i \in 1..12 : l[Header[i]] \in Word
    <2>. TAKE i \in 1..12
    <2>1. CASE i \in 1..8
        <3>1. Header[i] = Offsets[i]
            BY <2>1, HeaderFields
        <3>. QED
            BY <1>3, <1>5, <2>1, <3>1
    <2>2. CASE i \notin 1..8
        <3>1. i = 9 \/ i = 10 \/ i = 11 \/ i = 12
            BY <2>2
        <3>2. Header[i] \in Plain \/ Header[i] = "dictionary_length"
            BY <3>1, HeaderByName DEF Plain
        <3>. QED
            BY <1>3, <1>4, <1>6, <3>2
    <2>. QED
        BY <2>1, <2>2
<1>9. PrimaryLength(l) \in Nat
    <2>1. PICK lens : lens = [i \in 1..12 |-> EncodeLen(l[Header[i]])]
        OBVIOUS
    <2>2. \A i \in 1..12 : EncodeLen(l[Header[i]]) \in Nat
        BY <1>8, EncodedAsSeq
    <2>3. lens \in [1..12 -> Nat]
        BY <2>1, <2>2
    <2>4. PICK m \in Nat, base \in Nat : m = 12 /\ base = ValueOf(l["dictionary_length"])
        <3>1. l["dictionary_length"] \in Word
            BY <1>3, <1>6
        <3>. QED
            BY <3>1, ValueIsNat
    <2>5. lens \in [1..m -> Nat]
        BY <2>3, <2>4
    <2>6. FoldLeft(LAMBDA k, len : k + len, base, lens) \in Nat
        BY <2>5, SumIsNat
    <2>7. DOMAIN Header = 1..12
        BY HeaderFields
    <2>8. PrimaryLength(l) = FoldLeft(LAMBDA k, len : k + len, base, lens)
        BY <2>1, <2>4, <2>7 DEF PrimaryLength
    <2>. QED
        BY <2>6, <2>8
<1>10. WordOf(PrimaryLength(Located(s))) \in Word
    <2>1. PICK n : n = PrimaryLength(l)
        OBVIOUS
    <2>2. WordOf(n) \in Word
        BY <1>9, <2>1, WordOfIsWord
    <2>. QED
        BY <1>2, <2>1, <2>2
<1>11. ASSUME NEW f \in Fields PROVE Renumbered(s)[f] \in Word
    <2>1. CASE f \in Plain
        BY <1>1, <1>4, <2>1
    <2>2. CASE f \in Computed
        BY <1>1, <1>6, <1>7, <1>10, <2>2 DEF Computed
    <2>3. CASE \E i \in 1..8 : f = Offsets[i]
        BY <1>1, <1>5, <2>3
    <2>. QED
        BY <2>1, <2>2, <2>3, FieldIsOneOf
<1>. QED
    BY <1>11

LEMMA EncodedBySender ==
    ASSUME NEW names \in Names, NEW time \in Times, NEW number \in Numbers,
           NEW payload \in Payloads, NEW isadmin \in BOOLEAN, NEW fill \in Fills
    PROVE  LET e == BundleEncode(FilledIn(names, time, number, payload, isadmin, fill)) IN
           UpToDate(e) /\ Sealed(e) /\ Encoding(e) # <<>>
<1>1. PICK s : s = FilledIn(names, time, number, payload, isadmin, fill)
    OBVIOUS
<1>2. /\ IsStruct(s) /\ s.uri = names /\ s.iscustody = Mark(names) /\ s.isadmin = isadmin
      /\ \A f \in Fields : s.num[f] \in Word
      /\ s.num["payload_block_length"] = WordOf(Len(payload))
    BY <1>1, FilledInBySender
<1>3. PICK e : e = BundleEncode(s)
    OBVIOUS
<1>4. /\ IsStruct(e) /\ e.num = Renumbered(s)
      /\ e.iscustody = s.iscustody /\ e.isadmin = s.isadmin /\ e.uri = s.uri
      /\ e.bundle = Overwrite(s.bundle, Encoding(e)) /\ e.bundle_len = Len(Encoding(e))
    BY <1>2, <1>3, Encoded
<1>5. s.iscustody \in BOOLEAN /\ s.isadmin \in BOOLEAN
    BY <1>2 DEF Mark
<1>6. \A f \in Fields : e.num[f] \in Word
    BY <1>2, <1>4, <1>5, RenumberedWords
<1>7. /\ \A f \in Plain : e.num[f] = s.num[f]
      /\ "payload_block_length" \in Plain
    BY <1>4, RenumberedFields, ComputedFields
<1>8. ValueOf(e.num["payload_block_length"]) \in 0..PayloadMax
    <2>1. e.num["payload_block_length"] = WordOf(Len(payload))
        BY <1>2, <1>7
    <2>2. ValueOf(WordOf(Len(payload))) = Len(payload) /\ Len(payload) \in 0..PayloadMax
        BY LengthFitsWord
    <2>. QED
        BY <2>1, <2>2
<1>9. Encodable(e)
    BY <1>2, <1>4, <1>6, <1>8 DEF Encodable
<1>10. e.num = Renumbered(e)
    <2>1. Renumbered(e) = Renumbered(s)
        BY <1>4, <1>7, RenumberedSame
    <2>. QED
        BY <1>4, <2>1
<1>11. UpToDate(e)
    BY <1>4, <1>5, <1>9, <1>10 DEF UpToDate
<1>12. /\ IsSeq(Encoding(e)) /\ Len(Encoding(e)) <= BundleMax /\ BundleMax \in Nat
       /\ Len(Encoding(e)) = HeaderLen(e) + Len(PayloadOf(e))
       /\ Len(PayloadOf(e)) \in Nat
    BY <1>9, EncodingLaidOut, ArraysAssumption DEF Laid, Encodable
<1>13. Sealed(e)
    <2>1. PICK o, bytes : o = s.bundle /\ bytes = Encoding(e)
        OBVIOUS
    <2>2. DOMAIN o = 1..BundleMax
        BY <1>2, <2>1 DEF IsStruct
    <2>3. SubSeq(Overwrite(o, bytes), 1, Len(bytes)) = bytes
        BY <1>12, <2>1, <2>2, FrontOfOverwritten
    <2>. QED
        BY <1>4, <2>1, <2>3 DEF Sealed
<1>14. Encoding(e) # <<>>
    <2>1. HeaderLen(e) >= 2 /\ HeaderLen(e) \in Nat
        <3>1. /\ Len(PrimaryPart(e)) \in Nat /\ Len(BlockPart(e)) \in Nat
              /\ Len(Dictionary(e.uri)) \in Nat
            BY <1>9, EncodingLaidOut, DictionaryIsSeq DEF Encodable
        <3>. QED
            BY <3>1 DEF HeaderLen
    <2>2. Len(<<>>) = 0
        OBVIOUS
    <2>. QED
        BY <1>12, <2>1, <2>2
<1>. QED
    BY <1>1, <1>3, <1>11, <1>13, <1>14

-----------------------------------------------------------------------------
(***************************************************************************)
(* The invariant.                                                          *)
(***************************************************************************)
\* The receiving thread's struct is one, whatever came; of a sender's struct that
\* was encoded the datagram is the encoding.
StructsHold ==
    /\ IsStruct(r) /\ count \in Nat
    /\ count > 0 => UpToDate(sent) /\ Sealed(sent)
    /\ wire # <<>> => count > 0 /\ wire = Encoding(sent)

BundlesInv == /\ StructsHold
              /\ ArrivesAsSent /\ KeepsItsDigest /\ CutInThePayload
              /\ MarksAlwaysRight /\ DecodingStaysInside

LEMMA InitHolds == Init => BundlesInv
<1>. SUFFICES ASSUME Init PROVE BundlesInv
    OBVIOUS
<1>1. wire = <<>> /\ count = 0 /\ astray = FALSE
    BY DEF Init
<1>2. IsStruct(r)
    <2>1. PICK fill \in Fills : r = Memory(fill)
        BY DEF Init
    <2>. QED
        BY <2>1, MemoryIsStruct
<1>3. StructsHold
    BY <1>1, <1>2 DEF StructsHold
<1>4. ~Received
    BY <1>1 DEF Received
<1>. QED
    BY <1>1, <1>3, <1>4
       DEF BundlesInv, ArrivesAsSent, KeepsItsDigest, CutInThePayload, MarksAlwaysRight,
           DecodingStaysInside

LEMMA SendHolds ==
    ASSUME StructsHold, NEW names \in Names, NEW time \in Times, NEW number \in Numbers,
           NEW payload \in Payloads, NEW isadmin \in BOOLEAN, NEW fill \in Fills,
           Send(names, time, number, payload, isadmin, fill)
    PROVE  BundlesInv'
<1>1. /\ ~astray /\ astray' = astray /\ r' = r /\ count' = count + 1
      /\ wire' = SubSeq(sent'.bundle, 1, sent'.bundle_len)
    BY DEF Send
<1>2. sent' = BundleEncode(FilledIn(names, time, number, payload, isadmin, fill))
    BY Zenon DEF Send, FilledIn, Mark
<1>3. PICK e : e = BundleEncode(FilledIn(names, time, number, payload, isadmin, fill))
    OBVIOUS
<1>4. UpToDate(e) /\ Sealed(e) /\ Encoding(e) # <<>>
    BY <1>3, EncodedBySender
<1>5. UpToDate(sent') /\ Sealed(sent') /\ wire' = Encoding(sent') /\ wire' # <<>>
    <2>1. SubSeq(e.bundle, 1, e.bundle_len) = Encoding(e)
        BY <1>4 DEF Sealed
    <2>2. sent' = e
        BY <1>2, <1>3
    <2>. QED
        BY <1>1, <1>4, <2>1, <2>2
<1>6. IsStruct(r') /\ count' \in Nat /\ count' > 0
    BY <1>1 DEF StructsHold
<1>7. StructsHold'
    BY <1>5, <1>6 DEF StructsHold
<1>8. ~Received'
    BY <1>5 DEF Received
<1>. QED
    BY <1>1, <1>7, <1>8
       DEF BundlesInv, ArrivesAsSent, KeepsItsDigest, CutInThePayload, MarksAlwaysRight,
           DecodingStaysInside

-----------------------------------------------------------------------------
\* Two bundles that agree on everything but the payload.
LEMMA ContentWithoutPayload ==
    ASSUME NEW v, NEW c, NEW a, NEW u, NEW b, NEW n, NEW p, NEW q, NEW o
    PROVE  [[version |-> v, iscustody |-> c, isadmin |-> a, uri |-> u, block_type |-> b,
             payload |-> p, num |-> n] EXCEPT !.payload = o]
         = [[version |-> v, iscustody |-> c, isadmin |-> a, uri |-> u, block_type |-> b,
             payload |-> q, num |-> n] EXCEPT !.payload = o]
    OBVIOUS

\* What follows of a bundle whose header came, and its payload in part.
LEMMA WholeBundle ==
    ASSUME NEW s, UpToDate(s), NEW e, AsFarAsItCame(e, s), ~(Len(Encoding(s)) > BufferSize)
    PROVE  Content(e) = Content(s) /\ Encoding(e) = Encoding(s)
<1>0. Encodable(s)
    BY DEF UpToDate
<1>1. /\ e.version = s.version /\ e.iscustody = s.iscustody /\ e.isadmin = s.isadmin
      /\ e.uri = s.uri /\ e.block_type = s.block_type /\ e.num = s.num
      /\ Len(PayloadOf(e)) = Len(PayloadOf(s))
      /\ \A i \in 1..Kept(s) - HeaderLen(s) : PayloadOf(e)[i] = PayloadOf(s)[i]
    BY DEF AsFarAsItCame
<1>2. /\ Len(Encoding(s)) = HeaderLen(s) + Len(PayloadOf(s))
      /\ HeaderLen(s) \in Nat /\ Len(PayloadOf(s)) \in 0..PayloadMax
      /\ Len(PayloadOf(s)) = ValueOf(s.num["payload_block_length"])
    BY <1>0, EncodingLaidOut DEF Encodable
<1>3. BufferSize \in Nat
    BY BufferAssumption
<1>4. Kept(s) = Len(Encoding(s))
    BY <1>2, <1>3 DEF Kept
<1>5. Kept(s) - HeaderLen(s) = Len(PayloadOf(s))
    BY <1>2, <1>4
<1>6. PICK n \in Nat : n = Len(PayloadOf(s))
    BY <1>2
<1>7. IsSeq(PayloadOf(e)) /\ IsSeq(PayloadOf(s))
    <2>1. PayloadOf(s) = SubSeq(s.payload, 1, n) /\ PayloadOf(e) = SubSeq(e.payload, 1, n)
        BY <1>1, <1>2, <1>6 DEF PayloadOf
    <2>2. PICK y, z : y = s.payload /\ z = e.payload
        OBVIOUS
    <2>3. IsSeq(SubSeq(y, 1, n))
        BY FirstPart
    <2>4. IsSeq(SubSeq(z, 1, n))
        BY FirstPart
    <2>. QED
        BY <2>1, <2>2, <2>3, <2>4
<1>8. PayloadOf(e) = PayloadOf(s)
    <2>1. PICK p, q : p = PayloadOf(e) /\ q = PayloadOf(s)
        OBVIOUS
    <2>2. \A i \in 1..Len(p) : p[i] = q[i]
        BY <1>1, <1>5, <2>1
    <2>3. p = q
        BY <1>1, <1>7, <2>1, <2>2, SameSeqs
    <2>. QED
        BY <2>1, <2>3
<1>9. Content(e) = Content(s)
    BY <1>1, <1>8, Zenon DEF Content
<1>10. Encoding(e) = Encoding(s)
    BY <1>1, <1>8, EncodingSame
<1>. QED
    BY <1>9, <1>10

LEMMA CutBundle ==
    ASSUME NEW s, UpToDate(s), Sealed(s), NEW e, AsFarAsItCame(e, s),
           Len(Encoding(s)) > BufferSize
    PROVE  LET lost == s.bundle_len - BufferSize
               whole == Len(PayloadOf(s)) - lost
           IN  /\ [Content(e) EXCEPT !.payload = <<>>] = [Content(s) EXCEPT !.payload = <<>>]
               /\ Len(PayloadOf(e)) = Len(PayloadOf(s))
               /\ SubSeq(PayloadOf(e), 1, whole) = SubSeq(PayloadOf(s), 1, whole)
               /\ whole >= 0
<1>0. Encodable(s) /\ s.bundle_len = Len(Encoding(s))
    BY DEF UpToDate, Sealed
<1>1. /\ e.version = s.version /\ e.iscustody = s.iscustody /\ e.isadmin = s.isadmin
      /\ e.uri = s.uri /\ e.block_type = s.block_type /\ e.num = s.num
      /\ Len(PayloadOf(e)) = Len(PayloadOf(s))
      /\ \A i \in 1..Kept(s) - HeaderLen(s) : PayloadOf(e)[i] = PayloadOf(s)[i]
    BY DEF AsFarAsItCame
<1>2. /\ Len(Encoding(s)) = HeaderLen(s) + Len(PayloadOf(s))
      /\ HeaderLen(s) \in Nat /\ Len(PayloadOf(s)) \in 0..PayloadMax
      /\ HeaderLen(s) <= HeaderMax /\ HeaderMax \in Nat
    BY <1>0, EncodingLaidOut DEF Encodable
<1>3. BufferSize \in Nat /\ HeaderMax <= BufferSize
    BY BufferAssumption
<1>4. Kept(s) = BufferSize
    BY <1>2, <1>3 DEF Kept
<1>5. PICK whole \in Nat : /\ whole = Len(PayloadOf(s)) - (s.bundle_len - BufferSize)
                           /\ whole = Kept(s) - HeaderLen(s)
    <2>1. BufferSize - HeaderLen(s) \in Nat
        BY <1>2, <1>3
    <2>2. BufferSize - HeaderLen(s) = Len(PayloadOf(s)) - (s.bundle_len - BufferSize)
        BY <1>0, <1>2, <1>3
    <2>. QED
        BY <1>4, <2>1, <2>2
<1>6. SubSeq(PayloadOf(e), 1, whole) = SubSeq(PayloadOf(s), 1, whole)
    <2>1. PICK p, q : p = PayloadOf(e) /\ q = PayloadOf(s)
        OBVIOUS
    <2>2. PICK x, y : x = SubSeq(p, 1, whole) /\ y = SubSeq(q, 1, whole)
        OBVIOUS
    <2>3. IsSeq(x) /\ Len(x) = whole /\ \A i \in 1..whole : x[i] = p[i]
        BY <2>2, FirstPart
    <2>4. IsSeq(y) /\ Len(y) = whole /\ \A i \in 1..whole : y[i] = q[i]
        BY <2>2, FirstPart
    <2>5. \A i \in 1..Len(x) : x[i] = y[i]
        BY <1>1, <1>5, <2>1, <2>3, <2>4
    <2>6. x = y
        BY <2>3, <2>4, <2>5, SameSeqs
    <2>. QED
        BY <2>1, <2>2, <2>6
<1>7. [Content(e) EXCEPT !.payload = <<>>] = [Content(s) EXCEPT !.payload = <<>>]
    <2>1. PICK v, c, a, u, b, p, q, n, o :
             /\ v = s.version /\ c = s.iscustody /\ a = s.isadmin /\ u = s.uri
             /\ b = s.block_type /\ p = PayloadOf(e) /\ q = PayloadOf(s) /\ o = <<>>
             /\ n = [f \in Fields \ {"primary_block_length"} |-> s.num[f]]
        OBVIOUS
    <2>2. Content(e) = [version |-> v, iscustody |-> c, isadmin |-> a, uri |-> u,
                        block_type |-> b, payload |-> p, num |-> n]
        BY <1>1, <2>1, Zenon DEF Content
    <2>3. Content(s) = [version |-> v, iscustody |-> c, isadmin |-> a, uri |-> u,
                        block_type |-> b, payload |-> q, num |-> n]
        BY <2>1, Zenon DEF Content
    <2>4. PICK x, y :
             /\ x = [version |-> v, iscustody |-> c, isadmin |-> a, uri |-> u,
                     block_type |-> b, payload |-> p, num |-> n]
             /\ y = [version |-> v, iscustody |-> c, isadmin |-> a, uri |-> u,
                     block_type |-> b, payload |-> q, num |-> n]
        OBVIOUS
    <2>5. [x EXCEPT !.payload = o] = [y EXCEPT !.payload = o]
        BY <2>4, ContentWithoutPayload
    <2>6. Content(e) = x /\ Content(s) = y
        BY <2>2, <2>3, <2>4, Zenon
    <2>. QED
        BY <2>1, <2>5, <2>6
<1>. QED
    BY <1>1, <1>5, <1>6, <1>7

LEMMA ReceiveHolds ==
    ASSUME StructsHold, Receive
    PROVE  BundlesInv'
<1>1. /\ wire # <<>> /\ wire' = <<>> /\ sent' = sent /\ count' = count
      /\ cut' = (Len(wire) > BufferSize) /\ wider' = HoldsWider(r)
      /\ astray' = ~DecodesInside(Filled(r, wire))
      /\ r' = IF astray' THEN Filled(r, wire) ELSE BundleEncode(BundleDecode(Filled(r, wire)))
    BY Zenon DEF Receive, Filled
<1>2. /\ count \in Nat /\ count > 0 /\ UpToDate(sent) /\ Sealed(sent) /\ wire = Encoding(sent)
      /\ IsStruct(r)
    BY <1>1 DEF StructsHold
<1>3. PICK s, x : s = sent /\ x = r
    OBVIOUS
<1>4. UpToDate(s) /\ Sealed(s) /\ IsStruct(x) /\ wire = Encoding(s)
    BY <1>2, <1>3
<1>5. ~wider' => NoWider(x, s)
    BY <1>1, <1>3 DEF HoldsWider, NoWider
<1>6. /\ sent' = s /\ cut' = (Len(Encoding(s)) > BufferSize)
      /\ astray' = ~DecodesInside(Filled(x, Encoding(s)))
      /\ r' = IF astray' THEN Filled(x, Encoding(s)) ELSE Reread(x, Encoding(s))
    BY <1>1, <1>3, <1>4 DEF Reread
<1>7. PICK f, e : f = Filled(x, Encoding(s)) /\ e = Reread(x, Encoding(s))
    OBVIOUS
<1>8. IsStruct(f)
    BY <1>4, <1>7, DatagramArrives
<1>9. IsStruct(e) /\ e.iscustody = s.iscustody /\ e.isadmin = s.isadmin
    BY <1>4, <1>7, RereadAnyhow
<1>10. ASSUME ~wider' PROVE DecodesInside(f) /\ AsFarAsItCame(e, s)
    BY <1>4, <1>5, <1>7, <1>10, RereadAsSent
<1>11. IsStruct(r')
    BY <1>6, <1>7, <1>8, <1>9
<1>12. StructsHold'
    BY <1>1, <1>2, <1>11 DEF StructsHold
<1>13. ~astray' => r' = e
    BY <1>6, <1>7
<1>14. DecodingStaysInside'
    BY <1>6, <1>7, <1>10 DEF DecodingStaysInside
<1>15. MarksAlwaysRight'
    BY <1>6, <1>9, <1>13 DEF MarksAlwaysRight, Received
<1>16. ASSUME Received', ~wider', ~cut'
       PROVE  /\ Content(r') = Content(sent')
              /\ SubSeq(r'.bundle, 1, r'.bundle_len) = SubSeq(sent'.bundle, 1, sent'.bundle_len)
    <2>1. r' = e /\ AsFarAsItCame(e, s) /\ ~(Len(Encoding(s)) > BufferSize)
        BY <1>6, <1>10, <1>13, <1>16 DEF Received
    <2>2. Content(e) = Content(s) /\ Encoding(e) = Encoding(s)
        BY <1>4, <2>1, WholeBundle
    <2>3. /\ SubSeq(e.bundle, 1, e.bundle_len) = Encoding(e)
          /\ SubSeq(s.bundle, 1, s.bundle_len) = Encoding(s)
        BY <1>4, <2>1 DEF AsFarAsItCame, Sealed
    <2>. QED
        BY <1>6, <2>1, <2>2, <2>3
<1>17. ArrivesAsSent' /\ KeepsItsDigest'
    BY <1>16 DEF ArrivesAsSent, KeepsItsDigest, Content
<1>18. CutInThePayload'
    <2>. SUFFICES ASSUME Received', ~wider', cut'
         PROVE  LET lost == sent'.bundle_len - BufferSize
                    whole == Len(PayloadOf(sent')) - lost
                IN  /\ [Content(r') EXCEPT !.payload = <<>>] = [Content(sent') EXCEPT !.payload = <<>>]
                    /\ Len(PayloadOf(r')) = Len(PayloadOf(sent'))
                    /\ SubSeq(PayloadOf(r'), 1, whole) = SubSeq(PayloadOf(sent'), 1, whole)
                    /\ whole >= 0
        BY DEF CutInThePayload, Content, PayloadOf
    <2>1. r' = e /\ AsFarAsItCame(e, s) /\ Len(Encoding(s)) > BufferSize
        BY <1>6, <1>10, <1>13 DEF Received
    <2>2. LET lost == s.bundle_len - BufferSize
              whole == Len(PayloadOf(s)) - lost
          IN  /\ [Content(e) EXCEPT !.payload = <<>>] = [Content(s) EXCEPT !.payload = <<>>]
              /\ Len(PayloadOf(e)) = Len(PayloadOf(s))
              /\ SubSeq(PayloadOf(e), 1, whole) = SubSeq(PayloadOf(s), 1, whole)
              /\ whole >= 0
        BY <1>4, <2>1, CutBundle
    <2>. QED
        BY <1>6, <2>1, <2>2
<1>. QED
    BY <1>12, <1>14, <1>15, <1>17, <1>18 DEF BundlesInv

LEMMA StutterHolds == BundlesInv /\ UNCHANGED vars => BundlesInv'
<1>. SUFFICES ASSUME BundlesInv, UNCHANGED vars PROVE BundlesInv'
    OBVIOUS
<1>1. /\ r' = r /\ sent' = sent /\ wire' = wire /\ count' = count /\ cut' = cut
      /\ wider' = wider /\ astray' = astray
    BY DEF vars
<1>2. StructsHold'
    BY <1>1 DEF BundlesInv, StructsHold
<1>. QED
    BY <1>1, <1>2 DEF BundlesInv, ArrivesAsSent, KeepsItsDigest, CutInThePayload,
                      MarksAlwaysRight, DecodingStaysInside, Received, Content, PayloadOf

LEMMA BundlesInvariant == Spec => []BundlesInv
<1>1. Init => BundlesInv
    BY InitHolds
<1>2. BundlesInv /\ [Next]_vars => BundlesInv'
    <2>. SUFFICES ASSUME BundlesInv, [Next]_vars PROVE BundlesInv'
        OBVIOUS
    <2>1. StructsHold
        BY DEF BundlesInv
    <2>2. CASE Receive
        BY <2>1, <2>2, ReceiveHolds
    <2>3. CASE \E names \in Names, time \in Times, number \in Numbers, payload \in Payloads,
                  isadmin \in BOOLEAN, fill \in Fills :
                  Send(names, time, number, payload, isadmin, fill)
        BY <2>1, <2>3, SendHolds
    <2>4. CASE UNCHANGED vars
        BY <2>4, StutterHolds
    <2>. QED
        BY <2>2, <2>3, <2>4 DEF Next
<1>. QED
    BY <1>1, <1>2, PTL DEF Spec

\* A bundle that fits the buffer is, decoded and encoded again, the sender's:
\* endpoints, numbers, marks and payload, in memory that held any other bundle
\* (bundle_decode, bundle.c 706-836; bpd_isock_recv_thread, bpd.c 59-73).
THEOREM ArrivesEqual == Spec => []ArrivesAsSent
    BY BundlesInvariant, PTL DEF BundlesInv

\* Its bytes, from which bpd_bundle_list_insert takes the digest (bpd_bundle_list.c
\* 181), are then those that were sent.
THEOREM BytesAreThoseSent == Spec => []KeepsItsDigest
    BY BundlesInvariant, PTL DEF BundlesInv

\* What recvfrom cuts off is payload: the header, and the payload up to there, are
\* as they were sent, and the length that is claimed too (bpd.c 59-67).
THEOREM OnlyPayloadIsLost == Spec => []CutInThePayload
    BY BundlesInvariant, PTL DEF BundlesInv

\* Whatever the struct held, and whatever integers that leaves wrong: the flags are
\* cleared before they are decoded, so that the marks are the sender's (bundle.c
\* 713-716).
THEOREM MarksArrive == Spec => []MarksAlwaysRight
    BY BundlesInvariant, PTL DEF BundlesInv

\* Where no integer of the struct was wider, bundle_decode reads and writes in the
\* struct's arrays only (bundle.c 700-836).
THEOREM ReadsInsideArrays == Spec => []DecodingStaysInside
    BY BundlesInvariant, PTL DEF BundlesInv
=============================================================================
