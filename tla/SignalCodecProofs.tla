------------------------- MODULE SignalCodecProofs -------------------------
(***************************************************************************)
(* What the custody signal on the wire says, whatever the sender's stack   *)
(* held and for integers of any size: that it says "succeeded", and that   *)
(* its numbers, read as the format defines them, are the bundle's key; and *)
(* what its receiver makes of it, whatever the receiver's stack held: the  *)
(* key that it deletes and the source that it reads.                       *)
(***************************************************************************)
EXTENDS SignalCodec, SdnvProofs

\* What SendSignal encodes.
SignalOf(key, src, now, fill) ==
    [Struct(fill) EXCEPT
        !.type_and_flag = ClearFlag(SetType(@, CustodySignalType)),
        !.status = SetSucceeded(@),
        !.num = [@ EXCEPT !["time_of_signal_sec"] = now[1],
                          !["time_of_signal_nsec"] = now[2],
                          !["creation_time"] = key[1],
                          !["creation_sequence_number"] = key[2]],
        !.src = src]

\* The invariant: a record on the wire was encoded for the bundle.
WireInv ==
    /\ bundle \in [key : Keys, src : Sources]
    /\ wire # <<>> => \E now \in Moments, fill \in Fills :
                          wire = SignalEncode(SignalOf(bundle.key, bundle.src, now, fill))

LEMMA WireInvHolds == Spec => []WireInv
<1>1. Init => WireInv
    BY DEF Init, WireInv
<1>2. WireInv /\ [Next]_vars => WireInv'
    <2>. SUFFICES ASSUME WireInv, [Next]_vars PROVE WireInv'
        OBVIOUS
    <2>1. CASE UNCHANGED vars
        BY <2>1 DEF WireInv, vars
    <2>2. ASSUME NEW key \in Keys, NEW src \in Sources, NEW now \in Moments, NEW fill \in Fills,
                 SendSignal(key, src, now, fill)
          PROVE  WireInv'
        <3>1. bundle' = [key |-> key, src |-> src] /\ bundle'.key = key /\ bundle'.src = src
            BY <2>2 DEF SendSignal
        <3>2. wire' = SignalEncode(SignalOf(key, src, now, fill))
            BY <2>2, Zenon DEF SendSignal, SignalOf
        <3>. QED
            BY <3>1, <3>2 DEF WireInv
    <2>3. ASSUME NEW fill \in Fills, ProcessAdminRecord(fill) PROVE WireInv'
        BY <2>3 DEF ProcessAdminRecord, WireInv
    <2>. QED
        BY <2>1, <2>2, <2>3 DEF Next
<1>. QED
    BY <1>1, <1>2, PTL DEF Spec

-----------------------------------------------------------------------------
(***************************************************************************)
(* The record: two octets, five numbers, the source.                       *)
(***************************************************************************)
LEMMA WidthOfByte == ByteBits = 8 /\ GroupBits = 7 /\ Cont = 128 /\ Byte = 0..255
<1>1. 2^7 = 128 /\ 2^8 = 256
    OBVIOUS
<1>. QED
    BY <1>1, WidthsAssumption DEF GroupBits, Cont, Byte

LEMMA NumbersAreWords ==
    ASSUME NEW n \in Nat
    PROVE  WordOf(n) \in Word
<1>1. ASSUME NEW i \in 1..IntBytes
      PROVE  (n \div 2^(ByteBits * (i - 1))) % 2^ByteBits \in Byte
    <2>. DEFINE e == ByteBits * (i - 1)
    <2>1. e \in Nat /\ ByteBits \in Nat
        BY WidthOfByte
    <2>2. 2^e \in Nat \ {0} /\ 2^ByteBits \in Nat \ {0}
        BY <2>1, PowerPositive
    <2>3. n \div 2^e \in Nat
        BY <2>2, DivideTwice
    <2>. QED
        BY <2>2, <2>3 DEF Byte
<1>. QED
    BY <1>1 DEF WordOf, Word

LEMMA TextIsBytes ==
    ASSUME NEW src \in Sources
    PROVE  SourceText(src) \in Seq(Byte) /\ Len(SourceText(src)) \in Nat
<1>1. src[1] \in Seq(Byte) /\ src[2] \in Seq(Byte)
    BY SourcesAssumption
<1>2. <<Colon>> \in Seq(Byte) /\ <<0>> \in Seq(Byte)
    BY WidthOfByte DEF Colon
<1>3. src[1] \o <<Colon>> \in Seq(Byte)
    BY <1>1, <1>2, ConcatProperties
<1>4. (src[1] \o <<Colon>>) \o src[2] \in Seq(Byte)
    BY <1>1, <1>3, ConcatProperties
<1>5. SourceText(src) \in Seq(Byte)
    BY <1>2, <1>4, ConcatProperties DEF SourceText
<1>. QED
    BY <1>5, LenProperties

\* The fields as custody_signal_encode writes them.
Order == Times \o <<"src_endpoint_id_len">>

LEMMA SmallTuples ==
    ASSUME NEW S, NEW a \in S, NEW b \in S, NEW c \in S, NEW d \in S
    PROVE  /\ <<a>> \in Seq(S) /\ Len(<<a>>) = 1
           /\ <<a, b, c, d>> \in Seq(S) /\ Len(<<a, b, c, d>>) = 4
    OBVIOUS

LEMMA OrderOfFields ==
    /\ DOMAIN Order = 1..5
    /\ Order[1] = "time_of_signal_sec" /\ Order[2] = "time_of_signal_nsec"
    /\ Order[3] = "creation_time" /\ Order[4] = "creation_sequence_number"
    /\ Order[5] = "src_endpoint_id_len"
    /\ \A i \in 1..5 : Order[i] \in Fields
<1>. DEFINE last == <<"src_endpoint_id_len">>
<1>1. Fields = {"time_of_signal_sec", "time_of_signal_nsec", "creation_time",
                "creation_sequence_number", "src_endpoint_id_len"}
    <2>1. Times = <<"time_of_signal_sec", "time_of_signal_nsec", "creation_time",
                    "creation_sequence_number">>
        BY DEF Times
    <2>2. DOMAIN Times = {1, 2, 3, 4}
        BY <2>1
    <2>. QED
        BY <2>1, <2>2 DEF Fields
<1>2. /\ Order \in Seq(Fields) /\ Len(Order) = 5
      /\ \A i \in 1..5 : Order[i] = IF i <= 4 THEN Times[i] ELSE last[i - 4]
    <2>1. Times \in Seq(Fields) /\ Len(Times) = 4 /\ last \in Seq(Fields) /\ Len(last) = 1
        BY <1>1, SmallTuples DEF Times
    <2>. HIDE DEF last
    <2>2. /\ Times \o last \in Seq(Fields)
          /\ Len(Times \o last) = Len(Times) + Len(last)
          /\ \A i \in 1..Len(Times) + Len(last) :
                (Times \o last)[i] = IF i <= Len(Times) THEN Times[i] ELSE last[i - Len(Times)]
        BY <2>1, ConcatProperties
    <2>. QED
        BY <2>1, <2>2 DEF Order, last
<1>3. DOMAIN Order = 1..5
    BY <1>2, LenProperties
<1>4. /\ Order[1] = "time_of_signal_sec" /\ Order[2] = "time_of_signal_nsec"
      /\ Order[3] = "creation_time" /\ Order[4] = "creation_sequence_number"
      /\ Order[5] = "src_endpoint_id_len"
    BY <1>2 DEF Times
<1>. QED
    BY <1>1, <1>3, <1>4

Numbers(words) == [i \in 1..5 |-> Encode(words[i])]
Record(words, status, src) == <<32, status>> \o FlattenSeq(Numbers(words)) \o SourceText(src)

\* The octets and numbers of a record; the third and fourth are the key.
LEMMA RecordOnWire ==
    ASSUME NEW key \in Keys, NEW src \in Sources, NEW now \in Moments, NEW fill \in Fills
    PROVE  \E words \in [1..5 -> Word], status \in 128..255 :
              /\ words[3] = key[1] /\ words[4] = key[2]
              /\ SignalEncode(SignalOf(key, src, now, fill)) = Record(words, status, src)
<1>. DEFINE sent == SignalOf(key, src, now, fill)
            len == WordOf(Len(SourceText(src)))
            num == [sent.num EXCEPT !["src_endpoint_id_len"] = len]
            words == [i \in 1..5 |-> num[Order[i]]]
            status == SetSucceeded(fill)
<1>1. /\ sent.type_and_flag = ClearFlag(SetType(fill, CustodySignalType))
      /\ sent.status = status /\ sent.src = src
      /\ sent.num = [[f \in Fields |-> [i \in 1..IntBytes |-> fill]] EXCEPT
                        !["time_of_signal_sec"] = now[1],
                        !["time_of_signal_nsec"] = now[2],
                        !["creation_time"] = key[1],
                        !["creation_sequence_number"] = key[2]]
    BY DEF SignalOf, Struct
<1>. HIDE DEF sent
<1>2. fill \in 0..255
    BY FillsAssumption, WidthOfByte
<1>3. ClearFlag(SetType(fill, CustodySignalType)) = 32
    BY <1>2 DEF ClearFlag, SetType, FlagOf, TypeOf, CustodySignalType
<1>4. status \in 128..255
    BY <1>2 DEF SetSucceeded
<1>5. key[1] \in Word /\ key[2] \in Word /\ now[1] \in Word /\ now[2] \in Word
    BY KeysAssumption
<1>6. len \in Word
    BY TextIsBytes, NumbersAreWords
<1>. HIDE DEF len
<1>7. /\ num["time_of_signal_sec"] = now[1] /\ num["time_of_signal_nsec"] = now[2]
      /\ num["creation_time"] = key[1] /\ num["creation_sequence_number"] = key[2]
      /\ num["src_endpoint_id_len"] = len
    BY <1>1, OrderOfFields
<1>. HIDE DEF num
<1>8. words \in [1..5 -> Word] /\ words[3] = key[1] /\ words[4] = key[2]
    <2>1. \A i \in 1..5 : i = 1 \/ i = 2 \/ i = 3 \/ i = 4 \/ i = 5
        OBVIOUS
    <2>2. \A i \in 1..5 : num[Order[i]] \in Word
        BY <1>5, <1>6, <1>7, <2>1, OrderOfFields
    <2>. QED
        BY <1>7, <2>2, OrderOfFields
<1>9. EncodedFields(num, Order) = FlattenSeq(Numbers(words))
    <2>1. [i \in DOMAIN Order |-> Encode(num[Order[i]])] = Numbers(words)
        BY OrderOfFields DEF Numbers
    <2>. QED
        BY <2>1 DEF EncodedFields
<1>10. SignalEncode(sent) = <<sent.type_and_flag, sent.status>>
                            \o EncodedFields(num, Order) \o SourceText(sent.src)
    BY <1>1, Zenon DEF SignalEncode, Order, num, len
<1>11. SignalEncode(sent) = Record(words, status, src)
    BY <1>1, <1>3, <1>9, <1>10 DEF Record
<1>. HIDE DEF words, status
<1>. QED
    BY <1>4, <1>8, <1>11 DEF sent

LEMMA SentRecord ==
    ASSUME WireInv, wire # <<>>
    PROVE  \E words \in [1..5 -> Word], status \in 128..255, src \in Sources :
              /\ words[3] = bundle.key[1] /\ words[4] = bundle.key[2] /\ src = bundle.src
              /\ wire = Record(words, status, src)
<1>1. PICK now \in Moments, fill \in Fills :
               wire = SignalEncode(SignalOf(bundle.key, bundle.src, now, fill))
    BY DEF WireInv
<1>2. PICK key \in Keys, src \in Sources : key = bundle.key /\ src = bundle.src
    BY DEF WireInv
<1>3. \E words \in [1..5 -> Word], status \in 128..255 :
          /\ words[3] = key[1] /\ words[4] = key[2]
          /\ SignalEncode(SignalOf(key, src, now, fill)) = Record(words, status, src)
    BY RecordOnWire
<1>. QED
    BY <1>1, <1>2, <1>3

-----------------------------------------------------------------------------
(***************************************************************************)
(* "Succeeded".                                                            *)
(***************************************************************************)
NumbersFollow(words, record) ==
    \A i \in 1..Len(FlattenSeq(Numbers(words))) : record[2 + i] = FlattenSeq(Numbers(words))[i]

TextFollows(words, src, record) ==
    /\ Len(record) = 2 + Len(FlattenSeq(Numbers(words))) + Len(SourceText(src))
    /\ \A i \in 1..Len(SourceText(src)) :
          record[2 + Len(FlattenSeq(Numbers(words))) + i] = SourceText(src)[i]

LEMMA RecordIsBytes ==
    ASSUME NEW words \in [1..5 -> Word], NEW status \in 128..255, NEW src \in Sources
    PROVE  /\ FlattenSeq(Numbers(words)) \in Seq(Byte) /\ Len(FlattenSeq(Numbers(words))) \in Nat
           /\ Record(words, status, src) \in Seq(Byte) /\ Len(Record(words, status, src)) \in Nat
           /\ Len(Record(words, status, src)) >= 2 + Len(FlattenSeq(Numbers(words)))
           /\ Record(words, status, src)[1] = 32 /\ Record(words, status, src)[2] = status
           /\ NumbersFollow(words, Record(words, status, src))
           /\ TextFollows(words, src, Record(words, status, src))
<1>. DEFINE seqs == Numbers(words)
            flat == FlattenSeq(seqs)
            text == SourceText(src)
            front == <<32, status>> \o flat
            record == front \o text
<1>1. seqs \in [1..5 -> Seq(Byte)]
    BY EncodedAsSeq DEF Numbers
<1>. HIDE DEF seqs
<1>2. flat \in Seq(Byte)
    <2>1. 5 \in Nat \ {0}
        OBVIOUS
    <2>. QED
        BY <1>1, <2>1, FlattenedSeqs, Zenon
<1>3. Len(flat) \in Nat
    BY <1>2, LenProperties
<1>. HIDE DEF flat
<1>4. text \in Seq(Byte) /\ Len(text) \in Nat
    BY TextIsBytes
<1>. HIDE DEF text
<1>5. /\ <<32, status>> \in Seq(Byte) /\ Len(<<32, status>>) = 2
      /\ <<32, status>>[1] = 32 /\ <<32, status>>[2] = status
    BY WidthOfByte
<1>6. /\ front \in Seq(Byte) /\ Len(front) = 2 + Len(flat)
      /\ \A i \in 1..2 + Len(flat) : front[i] = IF i <= 2 THEN <<32, status>>[i] ELSE flat[i - 2]
    BY <1>2, <1>5, ConcatProperties
<1>. HIDE DEF front
<1>7. /\ record \in Seq(Byte) /\ Len(record) = Len(front) + Len(text)
      /\ \A i \in 1..Len(front) + Len(text) :
            record[i] = IF i <= Len(front) THEN front[i] ELSE text[i - Len(front)]
    BY <1>4, <1>6, ConcatProperties
<1>. HIDE DEF record
<1>8. Len(record) \in Nat /\ Len(record) >= 2 + Len(flat)
    BY <1>3, <1>4, <1>6, <1>7
<1>9. record[1] = 32 /\ record[2] = status
    <2>1. 1 \in 1..2 + Len(flat) /\ 2 \in 1..2 + Len(flat)
        BY <1>3
    <2>. QED
        BY <1>3, <1>4, <1>5, <1>6, <1>7, <2>1
<1>10. ASSUME NEW i \in 1..Len(flat) PROVE record[2 + i] = flat[i]
    <2>1. 2 + i \in 1..2 + Len(flat) /\ ~(2 + i <= 2) /\ (2 + i) - 2 = i
        BY <1>3
    <2>. QED
        BY <1>3, <1>4, <1>6, <1>7, <2>1
<1>11. ASSUME NEW i \in 1..Len(text) PROVE record[2 + Len(flat) + i] = text[i]
    <2>1. 2 + Len(flat) + i \in 1..Len(front) + Len(text) /\ ~(2 + Len(flat) + i <= Len(front))
          /\ (2 + Len(flat) + i) - Len(front) = i
        BY <1>3, <1>4, <1>6
    <2>. QED
        BY <1>7, <2>1
<1>12. TextFollows(words, src, record)
    <2>1. Len(record) = 2 + Len(flat) + Len(text)
        BY <1>6, <1>7
    <2>. QED
        BY <1>11, <2>1, Zenon DEF text, flat, seqs, TextFollows
<1>13. NumbersFollow(words, record)
    BY <1>10, Zenon DEF flat, seqs, NumbersFollow
<1>. QED
    BY <1>2, <1>3, <1>7, <1>8, <1>9, <1>12, <1>13 DEF record, front, text, flat, seqs, Record

\* A signal says "succeeded" whatever its sender's stack held
\* (bpd_bundle_list.c 281-284, bundle.c 939-949, 1024-1028).
THEOREM SignalsSaySucceeded == Spec => []SignalsSucceed
<1>1. WireInv => SignalsSucceed
    <2>. SUFFICES ASSUME WireInv, wire # <<>>
                  PROVE  TypeOf(wire[1]) = CustodySignalType /\ FlagOf(wire[1]) = 0
                         /\ IsSucceeded(wire[2])
        BY DEF SignalsSucceed
    <2>1. PICK words \in [1..5 -> Word], status \in 128..255, src \in Sources :
                   wire = Record(words, status, src)
        BY SentRecord
    <2>2. Record(words, status, src)[1] = 32
        BY RecordIsBytes, Zenon
    <2>3. Record(words, status, src)[2] = status
        BY RecordIsBytes, Zenon
    <2>. QED
        BY <2>1, <2>2, <2>3 DEF TypeOf, FlagOf, IsSucceeded, CustodySignalType
<1>. QED
    BY <1>1, WireInvHolds, PTL

-----------------------------------------------------------------------------
(***************************************************************************)
(* The key.                                                                *)
(***************************************************************************)
LEMMA PlacesOfWord ==
    ASSUME NEW w \in Word
    PROVE  PlacesOf(w) = {WordBits - 1 - k : k \in {k \in 0..WordBits-1 : BitOfWord(w, k) = 1}}
<1>. DEFINE Ones == {q \in (1..IntBytes) \X (0..ByteBits-1) : Bit(w[q[1]], q[2]) = 1}
            place(p) == (p[1] - 1) * ByteBits + ByteBits - 1 - p[2]
            Bits == {k \in 0..WordBits-1 : BitOfWord(w, k) = 1}
<1>1. ByteBits \in Nat \ {0} /\ IntBytes \in Nat \ {0} /\ WordBits = IntBytes * ByteBits
      /\ WordBits \in Nat
    BY Sizes DEF WordBits
<1>2. ASSUME NEW p \in Ones PROVE \E k \in Bits : place(p) = WordBits - 1 - k
    <2>. DEFINE a == p[1]
                b == p[2]
                q == IntBytes - a
                k == ByteBits * q + b
    <2>1. a \in 1..IntBytes /\ b \in 0..ByteBits-1 /\ Bit(w[a], b) = 1
        OBVIOUS
    <2>. HIDE DEF a, b
    <2>2. q \in Nat /\ q <= IntBytes - 1 /\ IntBytes - q = a
        BY <1>1, <2>1
    <2>3. k \div ByteBits = q /\ k % ByteBits = b
        BY <1>1, <2>1, <2>2, QuotientIs
    <2>4. ByteBits * q <= ByteBits * (IntBytes - 1) /\ ByteBits * q \in Nat
        BY <1>1, <2>2, TimesGrows
    <2>5. ByteBits * (IntBytes - 1) = WordBits - ByteBits
        BY <1>1
    <2>6. ByteBits * q = IntBytes * ByteBits - a * ByteBits /\ (a - 1) * ByteBits = a * ByteBits - ByteBits
          /\ a * ByteBits \in Nat
        BY <1>1, <2>1
    <2>7. k \in 0..WordBits-1
        BY <1>1, <2>1, <2>4, <2>5
    <2>8. (a - 1) * ByteBits + ByteBits - 1 - b = WordBits - 1 - k
        BY <1>1, <2>1, <2>6
    <2>9. BitOfWord(w, k) = 1
        BY <2>1, <2>2, <2>3 DEF BitOfWord
    <2>10. k \in Bits
        BY <2>7, <2>9
    <2>. HIDE DEF k
    <2>11. place(p) = WordBits - 1 - k
        BY <2>8 DEF a, b
    <2>. QED
        BY <2>10, <2>11
<1>3. ASSUME NEW k \in Bits PROVE \E p \in Ones : place(p) = WordBits - 1 - k
    <2>. DEFINE q == k \div ByteBits
                b == k % ByteBits
                a == IntBytes - q
    <2>1. q \in 0..IntBytes-1 /\ b \in 0..ByteBits-1 /\ a \in 1..IntBytes /\ k = ByteBits * q + b
          /\ Bit(w[a], b) = 1
        BY ByteOfBit DEF BitOfWord
    <2>. HIDE DEF q, b
    <2>2. (a - 1) * ByteBits = WordBits - ByteBits - ByteBits * q /\ ByteBits * q \in Nat
        BY <1>1, <2>1
    <2>3. (a - 1) * ByteBits + ByteBits - 1 - b = WordBits - 1 - k
        BY <1>1, <2>1, <2>2
    <2>4. <<a, b>> \in Ones /\ place(<<a, b>>) = (a - 1) * ByteBits + ByteBits - 1 - b
        BY <2>1
    <2>. QED
        BY <2>3, <2>4
<1>. HIDE DEF Ones, place
<1>4. {place(p) : p \in Ones} = {WordBits - 1 - k : k \in Bits}
    BY <1>2, <1>3
<1>. QED
    BY <1>4 DEF PlacesOf, Ones, place

\* The groups of an encoding say the same places as the word.
CodeOnes(w) == {p \in (1..EncodeLen(w)) \X (1..GroupBits) : BitOfCode(w, p[1], p[2]) = 1}

LEMMA PlacesOfCode ==
    ASSUME NEW w \in Word
    PROVE  {(EncodeLen(w) - p[1]) * GroupBits + GroupBits - p[2] : p \in CodeOnes(w)} = PlacesOf(w)
<1>. DEFINE n == EncodeLen(w)
            place(p) == (n - p[1]) * GroupBits + GroupBits - p[2]
            Bits == {k \in 0..WordBits-1 : BitOfWord(w, k) = 1}
<1>1. n \in Nat \ {0} /\ GroupBits \in Nat \ {0} /\ WordBits \in Nat
    BY LengthOfEncoding, Sizes DEF WordBits
<1>2. ASSUME NEW p \in CodeOnes(w) PROVE \E k \in Bits : place(p) = WordBits - 1 - k
    <2>1. p[1] \in 1..n /\ p[2] \in 1..GroupBits /\ BitOfCode(w, p[1], p[2]) = 1
        BY DEF CodeOnes
    <2>2. PICK i \in 1..n, j \in 1..GroupBits : i = p[1] /\ j = p[2]
        BY <2>1
    <2>. DEFINE k == PlaceInWord(w, i, j)
    <2>3. k \in Int /\ k < WordBits /\ WordBits - 1 - k = (n - i) * GroupBits + GroupBits - j
        BY PlacesAreInWord
    <2>4. ~(k < 0) /\ BitOfWord(w, k) = 1
        BY <2>1, <2>2 DEF BitOfCode
    <2>. HIDE DEF k
    <2>5. k \in Bits
        BY <1>1, <2>3, <2>4
    <2>. QED
        BY <2>2, <2>3, <2>5
<1>3. ASSUME NEW k \in Bits PROVE \E p \in CodeOnes(w) : place(p) = WordBits - 1 - k
    <2>1. k \in 0..WordBits-1 /\ BitOfWord(w, k) = 1
        OBVIOUS
    <2>2. PICK i \in 1..n, j \in 1..GroupBits : PlaceInWord(w, i, j) = k
        BY <2>1, LeftOutIsZero, PlaceOfBit
    <2>3. BitOfCode(w, i, j) = 1
        BY <2>1, <2>2 DEF BitOfCode
    <2>4. <<i, j>> \in CodeOnes(w)
        BY <2>3 DEF CodeOnes
    <2>5. WordBits - 1 - k = (n - i) * GroupBits + GroupBits - j
        BY <2>2, PlacesAreInWord
    <2>. QED
        BY <2>4, <2>5
<1>. HIDE DEF place
<1>4. {place(p) : p \in CodeOnes(w)} = {WordBits - 1 - k : k \in Bits}
    BY <1>2, <1>3
<1>. QED
    BY <1>4, PlacesOfWord DEF place

\* Wherever a record is at the front of bytes, its numbers are the words it was
\* encoded from, and its text comes after them.
Holds(array, bytes) ==
    Len(bytes) <= Len(array) /\ \A i \in 1..Len(bytes) : array[i] = bytes[i]

NumbersEnd(last, words, array) ==
    /\ EncodingsEnd(last, words, 5, array, 2, Len(array))
    /\ last[5] = 2 + Len(FlattenSeq(Numbers(words)))

LEMMA NumbersInRecord ==
    ASSUME NEW words \in [1..5 -> Word], NEW status \in 128..255, NEW src \in Sources,
           NEW array, Len(array) \in Nat, Holds(array, Record(words, status, src))
    PROVE  \E last : NumbersEnd(last, words, array)
<1>. DEFINE rec == Record(words, status, src)
            to == Len(array)
            seqs == Numbers(words)
            m == Len(FlattenSeq(seqs))
<1>1. m \in Nat
    BY RecordIsBytes, Zenon
<1>2. Len(rec) \in Nat
    BY RecordIsBytes, Zenon
<1>3. Len(rec) >= 2 + m
    BY RecordIsBytes, Zenon
<1>4. NumbersFollow(words, rec)
    BY RecordIsBytes, Zenon
<1>5. \A i \in 1..m : rec[2 + i] = FlattenSeq(seqs)[i]
    BY <1>4, Zenon DEF NumbersFollow
<1>6. seqs = [k \in 1..5 |-> Encode(words[k])]
    BY DEF Numbers
<1>7. Len(rec) <= to /\ to \in Nat /\ \A i \in 1..Len(rec) : array[i] = rec[i]
    BY DEF Holds
<1>. HIDE DEF rec, to, seqs, m
<1>8. ASSUME NEW i \in 1..m PROVE array[2 + i] = FlattenSeq(seqs)[i]
    <2>1. 2 + i \in 1..Len(rec)
        BY <1>1, <1>2, <1>3
    <2>. QED
        BY <1>5, <1>7, <2>1
<1>9. PICK n \in Nat \ {0}, base \in Nat : n = 5 /\ base = 2
    OBVIOUS
<1>10. words \in [1..n -> Word] /\ seqs = [k \in 1..n |-> Encode(words[k])]
    BY <1>6, <1>9
<1>11. base + Len(FlattenSeq(seqs)) <= to
    BY <1>1, <1>2, <1>3, <1>7, <1>9 DEF m
<1>12. \A i \in 1..Len(FlattenSeq(seqs)) : array[base + i] = FlattenSeq(seqs)[i]
    BY <1>8, <1>9 DEF m
<1>13. PICK last : /\ EncodingsEnd(last, words, n, array, base, to)
                   /\ last[n] = base + Len(FlattenSeq(seqs))
    <2>1. EncodedInARow(seqs, words, n, array, base, to)
        BY <1>7, <1>10, <1>11, <1>12, EncodingsInARow, Zenon
    <2>. QED
        BY <2>1, Zenon DEF EncodedInARow
<1>14. EncodingsEnd(last, words, 5, array, 2, to)
    BY <1>9, <1>13, Zenon
<1>15. last[5] = 2 + Len(FlattenSeq(seqs))
    BY <1>9, <1>13, Zenon
<1>. QED
    BY <1>14, <1>15, Zenon DEF NumbersEnd, to, seqs

LEMMA NumbersOnWire ==
    ASSUME NEW words \in [1..5 -> Word], NEW status \in 128..255, NEW src \in Sources,
           wire = Record(words, status, src)
    PROVE  /\ Len(wire) \in Nat
           /\ \E last : EncodingsEnd(last, words, 5, wire, 2, Len(wire))
<1>1. PICK array : array = wire
    OBVIOUS
<1>2. Len(Record(words, status, src)) \in Nat
    BY RecordIsBytes, Zenon
<1>3. Len(array) \in Nat
    BY <1>1, <1>2
<1>4. Holds(array, Record(words, status, src))
    BY <1>1, <1>2 DEF Holds
<1>5. \E last : NumbersEnd(last, words, array)
    BY <1>3, <1>4, NumbersInRecord
<1>. QED
    BY <1>1, <1>3, <1>5 DEF NumbersEnd

LEMMA NumberOnWire ==
    ASSUME NEW words \in [1..5 -> Word], NEW status \in 128..255, NEW src \in Sources,
           wire = Record(words, status, src), NEW m \in 2..5
    PROVE  /\ LastOf(m) \in Nat /\ FirstOf(m) \in Nat
           /\ LastOf(m) = FirstOf(m) - 1 + EncodeLen(words[m])
           /\ \A i \in 1..EncodeLen(words[m]) : wire[FirstOf(m) - 1 + i] = Encode(words[m])[i]
<1>. DEFINE to == Len(wire)
            E == EndsIn(wire, 3, to)
<1>1. to \in Nat
    BY NumbersOnWire
<1>2. PICK last : EncodingsEnd(last, words, 5, wire, 2, to)
    BY NumbersOnWire
<1>3. /\ last \in [0..5 -> Nat]
      /\ \A k \in 1..5 :
            /\ last[k] = last[k - 1] + EncodeLen(words[k])
            /\ last[k] \in E
            /\ IsFiniteSet(EndsUpTo(wire, 3, to, last[k]))
            /\ Cardinality(EndsUpTo(wire, 3, to, last[k])) = k
      /\ \A k \in 1..5 : \A i \in 1..EncodeLen(words[k]) :
            wire[last[k - 1] + i] = Encode(words[k])[i]
    <2>1. 2 + 1 = 3
        OBVIOUS
    <2>. QED
        BY <1>2, <2>1 DEF EncodingsEnd
<1>4. E \in SUBSET Nat /\ IsFiniteSet(E)
    <2>1. IsFiniteSet(3..to) /\ E \subseteq 3..to
        BY <1>1, FS_Interval DEF EndsIn
    <2>2. IsFiniteSet(E)
        BY <2>1, FS_Subset
    <2>. QED
        BY <2>1, <2>2
<1>5. ASSUME NEW k \in 1..5 PROVE LastOf(k) = last[k]
    <2>. DEFINE c == CHOOSE i \in E : Cardinality({j \in E : j <= i}) = k
                a == last[k]
    <2>1. a \in E /\ IsFiniteSet({j \in E : j <= a}) /\ Cardinality({j \in E : j <= a}) = k
        BY <1>3 DEF EndsUpTo
    <2>2. c \in E /\ Cardinality({j \in E : j <= c}) = k
        BY <2>1
    <2>. HIDE DEF c, a
    <2>3. IsFiniteSet({j \in E : j <= c})
        <3>1. {j \in E : j <= c} \subseteq E
            OBVIOUS
        <3>. QED
            BY <1>4, <3>1, FS_Subset
    <2>. HIDE DEF E
    <2>4. c = a
        BY <1>4, <2>1, <2>2, <2>3, SameCountSameEnd
    <2>5. LastOf(k) = c
        BY DEF LastOf, E, EndsIn, c
    <2>. QED
        BY <2>4, <2>5 DEF a
<1>6. LastOf(m) = last[m] /\ FirstOf(m) = last[m - 1] + 1
    <2>1. m \in 1..5 /\ m - 1 \in 1..5 /\ m # 1
        OBVIOUS
    <2>2. FirstOf(m) = LastOf(m - 1) + 1
        BY <2>1 DEF FirstOf
    <2>. QED
        BY <1>5, <2>1, <2>2
<1>7. /\ last[m] = last[m - 1] + EncodeLen(words[m])
      /\ last[m] \in Nat /\ last[m - 1] \in Nat
      /\ \A i \in 1..EncodeLen(words[m]) : wire[last[m - 1] + i] = Encode(words[m])[i]
    <2>1. m \in 1..5 /\ m \in 0..5 /\ m - 1 \in 0..5
        OBVIOUS
    <2>. QED
        BY <1>3, <2>1
<1>8. FirstOf(m) - 1 = last[m - 1]
    BY <1>6, <1>7
<1>. QED
    BY <1>6, <1>7, <1>8

LEMMA PlacesOfNumber ==
    ASSUME NEW w \in Word, NEW m, LastOf(m) \in Nat, FirstOf(m) \in Nat,
           LastOf(m) = FirstOf(m) - 1 + EncodeLen(w),
           \A i \in 1..EncodeLen(w) : wire[FirstOf(m) - 1 + i] = Encode(w)[i]
    PROVE  PlacesSaid(m) = PlacesOf(w)
<1>. DEFINE n == EncodeLen(w)
            a == FirstOf(m)
            b == LastOf(m)
            said(p) == (b - p[1]) * GroupBits + GroupBits - p[2]
            place(p) == (n - p[1]) * GroupBits + GroupBits - p[2]
            onWire == PlacesOnWire(m)
<1>1. n \in Nat \ {0} /\ a \in Nat /\ b \in Nat /\ b = a - 1 + n /\ GroupBits \in Nat
    BY LengthOfEncoding, Sizes
<1>2. \A i \in 1..n, j \in 1..GroupBits : Bit(Encode(w)[i], j) = BitOfCode(w, i, j)
    BY EncodedWord
<1>3. \A i \in 1..n : wire[a - 1 + i] = Encode(w)[i]
    OBVIOUS
<1>4. onWire = {p \in (a..b) \X (1..GroupBits) : Bit(wire[p[1]], p[2]) = 1}
    BY DEF PlacesOnWire
<1>5. CodeOnes(w) = {p \in (1..n) \X (1..GroupBits) : BitOfCode(w, p[1], p[2]) = 1}
    BY DEF CodeOnes
<1>. HIDE DEF n, a, b, onWire
<1>6. ASSUME NEW p \in onWire PROVE \E q \in CodeOnes(w) : said(p) = place(q)
    <2>1. p[1] \in a..b /\ p[2] \in 1..GroupBits /\ Bit(wire[p[1]], p[2]) = 1
        BY <1>4
    <2>2. PICK x \in a..b, j \in 1..GroupBits : x = p[1] /\ j = p[2]
        BY <2>1
    <2>. DEFINE i == x - a + 1
    <2>3. i \in 1..n /\ a - 1 + i = x /\ b - x = n - i
        BY <1>1
    <2>. HIDE DEF i
    <2>4. BitOfCode(w, i, j) = 1
        BY <1>2, <1>3, <2>1, <2>2, <2>3
    <2>5. <<i, j>> \in CodeOnes(w) /\ place(<<i, j>>) = (n - i) * GroupBits + GroupBits - j
        BY <1>5, <2>3, <2>4
    <2>6. said(p) = (n - i) * GroupBits + GroupBits - j
        BY <2>2, <2>3
    <2>. QED
        BY <2>5, <2>6
<1>7. ASSUME NEW q \in CodeOnes(w) PROVE \E p \in onWire : said(p) = place(q)
    <2>1. q[1] \in 1..n /\ q[2] \in 1..GroupBits /\ BitOfCode(w, q[1], q[2]) = 1
        BY <1>5
    <2>2. PICK i \in 1..n, j \in 1..GroupBits : i = q[1] /\ j = q[2]
        BY <2>1
    <2>. DEFINE x == a - 1 + i
    <2>3. x \in a..b /\ b - x = n - i
        BY <1>1
    <2>4. Bit(wire[x], j) = 1
        BY <1>2, <1>3, <2>1, <2>2
    <2>. HIDE DEF x
    <2>5. <<x, j>> \in onWire /\ said(<<x, j>>) = (b - x) * GroupBits + GroupBits - j
        BY <1>4, <2>3, <2>4
    <2>6. place(q) = (b - x) * GroupBits + GroupBits - j
        BY <2>2, <2>3
    <2>. QED
        BY <2>5, <2>6
<1>. HIDE DEF said, place
<1>8. {said(p) : p \in onWire} = {place(q) : q \in CodeOnes(w)}
    BY <1>6, <1>7
<1>9. PlacesSaid(m) = {said(p) : p \in onWire}
    BY DEF PlacesSaid, said, onWire, b
<1>10. PlacesOf(w) = {place(q) : q \in CodeOnes(w)}
    BY PlacesOfCode DEF place, n
<1>. QED
    BY <1>8, <1>9, <1>10

\* The record names the bundle in the format's own terms, whatever the key
\* (bundle.c 332-417).
THEOREM RecordNamesTheBundle == Spec => []EncodesTheKey
<1>1. WireInv => EncodesTheKey
    <2>. SUFFICES ASSUME WireInv, wire # <<>>
                  PROVE  /\ PlacesSaid(3) = PlacesOf(bundle.key[1])
                         /\ PlacesSaid(4) = PlacesOf(bundle.key[2])
        BY DEF EncodesTheKey
    <2>1. PICK words \in [1..5 -> Word], status \in 128..255, src \in Sources :
                   /\ words[3] = bundle.key[1] /\ words[4] = bundle.key[2]
                   /\ wire = Record(words, status, src)
        BY SentRecord
    <2>2. ASSUME NEW m \in 2..5 PROVE PlacesSaid(m) = PlacesOf(words[m])
        <3>. DEFINE w == words[m]
        <3>1. w \in Word
            OBVIOUS
        <3>2. /\ LastOf(m) \in Nat /\ FirstOf(m) \in Nat
              /\ LastOf(m) = FirstOf(m) - 1 + EncodeLen(w)
              /\ \A i \in 1..EncodeLen(w) : wire[FirstOf(m) - 1 + i] = Encode(w)[i]
            BY <2>1, NumberOnWire
        <3>. HIDE DEF w
        <3>3. PlacesSaid(m) = PlacesOf(w)
            BY <3>1, <3>2, PlacesOfNumber
        <3>. QED
            BY <3>3 DEF w
    <2>3. 3 \in 2..5 /\ 4 \in 2..5
        OBVIOUS
    <2>. QED
        BY <2>1, <2>2, <2>3
<1>. QED
    BY <1>1, WireInvHolds, PTL

-----------------------------------------------------------------------------
(***************************************************************************)
(* The receiver: the payload of the bundle that arrived begins with the    *)
(* record, whatever else is in it.                                         *)
(***************************************************************************)
LEMMA RecordFits ==
    ASSUME NEW words \in [1..5 -> Word], NEW status \in 128..255, NEW src \in Sources
    PROVE  Len(Record(words, status, src)) <= PayloadMax /\ PayloadMax \in Nat
<1>. DEFINE rec == Record(words, status, src)
            m == Len(FlattenSeq(Numbers(words)))
            t == Len(SourceText(src))
            u == Units(WordBits, GroupBits)
<1>1. PayloadMax \in Nat /\ 2 + 5 * u + t <= PayloadMax
    BY RoomAssumption DEF WordBits
<1>2. t \in Nat
    BY TextIsBytes
<1>3. TextFollows(words, src, rec)
    BY RecordIsBytes, Zenon
<1>4. Len(rec) = 2 + m + t
    BY <1>3, Zenon DEF TextFollows
<1>5. Len(rec) \in Nat
    BY RecordIsBytes, Zenon
<1>6. Holds(rec, rec)
    BY <1>5 DEF Holds
<1>7. PICK last : NumbersEnd(last, words, rec)
    BY <1>5, <1>6, NumbersInRecord
<1>. HIDE DEF rec, u, t
<1>8. EncodingsEnd(last, words, 5, rec, 2, Len(rec)) /\ last[5] = 2 + m
    BY <1>7, Zenon DEF NumbersEnd
<1>9. last[0] = 2 /\ last \in [0..5 -> Nat]
    BY <1>8, Zenon DEF EncodingsEnd
<1>10. ASSUME NEW k \in 1..5 PROVE last[k] <= last[k - 1] + u /\ u \in Nat
    <2>1. last[k] = last[k - 1] + EncodeLen(words[k])
        BY <1>8, Zenon DEF EncodingsEnd
    <2>2. words[k] \in Word
        OBVIOUS
    <2>3. EncodeLen(words[k]) <= u /\ u \in Nat /\ EncodeLen(words[k]) \in Nat
        BY <2>2, LongestEncoding, LengthOfEncoding DEF u
    <2>4. last[k - 1] \in Nat
        BY <1>9
    <2>. QED
        BY <2>1, <2>3, <2>4
<1>11. last[5] <= 2 + 5 * u
    <2>1. last[1] <= last[0] + u /\ u \in Nat
        BY <1>10
    <2>2. last[2] <= last[1] + u
        BY <1>10
    <2>3. last[3] <= last[2] + u
        BY <1>10
    <2>4. last[4] <= last[3] + u
        BY <1>10
    <2>5. last[5] <= last[4] + u
        BY <1>10
    <2>6. last[1] \in Nat /\ last[2] \in Nat /\ last[3] \in Nat /\ last[4] \in Nat /\ last[5] \in Nat
        BY <1>9
    <2>. QED
        BY <1>9, <2>1, <2>2, <2>3, <2>4, <2>5, <2>6
<1>12. last[5] \in Nat /\ u \in Nat
    BY <1>9, <1>10
<1>. HIDE DEF m
<1>. QED
    BY <1>1, <1>2, <1>4, <1>8, <1>11, <1>12 DEF rec

\* The payload of the bundle that arrived.
Payload(fill) == Overwrite(Struct(fill).payload, wire)

LEMMA PayloadHolds ==
    ASSUME NEW words \in [1..5 -> Word], NEW status \in 128..255, NEW src \in Sources,
           wire = Record(words, status, src), NEW fill \in Fills
    PROVE  /\ Payload(fill) \in Seq(Byte) /\ Len(Payload(fill)) = PayloadMax
           /\ PayloadMax \in Nat
           /\ Holds(Payload(fill), Record(words, status, src))
<1>. DEFINE rec == Record(words, status, src)
<1>1. rec \in Seq(Byte)
    BY RecordIsBytes, Zenon
<1>2. Len(rec) <= PayloadMax /\ PayloadMax \in Nat
    BY RecordFits
<1>3. Payload(fill) = [i \in 1..PayloadMax |-> IF i <= Len(rec) THEN rec[i] ELSE fill]
    <2>1. Struct(fill).payload = [i \in 1..PayloadMax |-> fill]
        BY DEF Struct
    <2>. HIDE DEF rec
    <2>. QED
        BY <2>1 DEF Payload, Overwrite, rec
<1>. HIDE DEF rec
<1>4. Len(rec) \in Nat /\ \A i \in 1..Len(rec) : rec[i] \in Byte
    BY <1>1, LenProperties, ElementOfSeq
<1>5. fill \in Byte
    BY FillsAssumption
<1>6. Payload(fill) \in [1..PayloadMax -> Byte]
    <2>1. \A i \in 1..PayloadMax : i <= Len(rec) => i \in 1..Len(rec)
        BY <1>4
    <2>. QED
        BY <1>3, <1>4, <1>5, <2>1
<1>7. Payload(fill) \in Seq(Byte) /\ DOMAIN Payload(fill) = 1..PayloadMax
    BY <1>2, <1>6
<1>8. Len(Payload(fill)) = PayloadMax
    BY <1>2, <1>7, LenProperties
<1>9. \A i \in 1..Len(rec) : Payload(fill)[i] = rec[i]
    BY <1>2, <1>3, <1>4
<1>. QED
    BY <1>2, <1>4, <1>7, <1>8, <1>9 DEF Holds, rec

-----------------------------------------------------------------------------
(***************************************************************************)
(* The numbers that it reads, and the key that it deletes.                 *)
(***************************************************************************)
LEMMA FieldsDiffer ==
    \A i, k \in 1..5 : Order[i] = Order[k] => i = k
<1>1. \A i \in 1..5 : i = 1 \/ i = 2 \/ i = 3 \/ i = 4 \/ i = 5
    OBVIOUS
<1>. QED
    BY <1>1, OrderOfFields

\* The numbers as custody_signal_decode reads them.
NumbersGot(fill) ==
    Take(Payload(fill), [num |-> Struct(fill).num, at |-> 2, ok |-> TRUE], Order)

LEMMA NumbersRead ==
    ASSUME NEW words \in [1..5 -> Word], NEW status \in 128..255, NEW src \in Sources,
           wire = Record(words, status, src), NEW fill \in Fills
    PROVE  /\ NumbersGot(fill).at = 2 + Len(FlattenSeq(Numbers(words)))
           /\ \A k \in 1..5 :
                 NumbersGot(fill).num[Order[k]] = DecodedInto(Struct(fill).num[Order[k]], words[k])
<1>. DEFINE array == Payload(fill)
            num == Struct(fill).num
<1>1. array \in Seq(Byte) /\ Len(array) \in Nat /\ Holds(array, Record(words, status, src))
    BY PayloadHolds
<1>2. DOMAIN num = Fields
    BY DEF Struct
<1>3. DOMAIN Order = 1..5 /\ \A k \in 1..5 : Order[k] \in Fields
    BY OrderOfFields
<1>. HIDE DEF array, num
<1>4. PICK last : NumbersEnd(last, words, array)
    BY <1>1, NumbersInRecord
<1>5. EncodingsEnd(last, words, 5, array, 2, Len(array))
    BY <1>4, Zenon DEF NumbersEnd
<1>6. PICK n \in Nat : n = 5
    OBVIOUS
<1>7. PICK names, base : names = Fields /\ base = 2
    OBVIOUS
<1>8. /\ words \in [1..n -> Word] /\ DOMAIN Order = 1..n /\ DOMAIN num = names
      /\ EncodingsEnd(last, words, n, array, base, Len(array))
    BY <1>2, <1>3, <1>5, <1>6, <1>7
<1>9. \A k \in 1..n : Order[k] \in names
    BY <1>3, <1>6, <1>7
<1>10. \A i, k \in 1..n : Order[i] = Order[k] => i = k
    BY <1>6, FieldsDiffer
<1>11. PICK nums : /\ TakenNums(nums, n, names, num, words, Order)
                   /\ Take(array, [num |-> num, at |-> base, ok |-> TRUE], Order)
                         = [num |-> nums, at |-> last[n], ok |-> TRUE]
    <2>0. IsSeq(array)
        BY <1>1 DEF IsSeq
    <2>1. TakenFrom(array, base, last[n], n, names, num, words, Order)
        BY <1>8, <1>9, <1>10, <2>0, TakeEncodings, Zenon
    <2>. QED
        BY <2>1, Zenon DEF TakenFrom
<1>12. \A k \in 1..n : nums[Order[k]] = DecodedInto(num[Order[k]], words[k])
    BY <1>11, Zenon DEF TakenNums
<1>13. NumbersGot(fill) = [num |-> nums, at |-> last[n], ok |-> TRUE]
    BY <1>7, <1>11, Zenon DEF NumbersGot, array, num
<1>14. NumbersGot(fill).num = nums /\ NumbersGot(fill).at = last[n]
    BY <1>13
<1>15. last[5] = 2 + Len(FlattenSeq(Numbers(words)))
    BY <1>4, Zenon DEF NumbersEnd
<1>. QED
    BY <1>6, <1>12, <1>14, <1>15 DEF num

Received(fill) == [Struct(fill) EXCEPT !.payload = Payload(fill)]

LEMMA SignalRead ==
    ASSUME NEW fill \in Fills, ProcessAdminRecord(fill)
    PROVE  /\ sig'.num = NumbersGot(fill).num /\ sig'.status = Payload(fill)[2]
           /\ before' = Struct(fill).num /\ wire # <<>>
           /\ deleted' = IF IsSucceeded(sig'.status)
                         THEN {<<sig'.num["creation_time"], sig'.num["creation_sequence_number"]>>}
                         ELSE {}
           /\ LET rest == SubSeq(Payload(fill), NumbersGot(fill).at + 1, PayloadMax)
                  text == SubSeq(rest, 1, SelectInSeq(rest, LAMBDA b : b = 0) - 1)
              IN  sig'.src = <<Token(text), Token(AfterToken(text))>>
<1>. DEFINE got == Received(fill)
            rest == SubSeq(Payload(fill), NumbersGot(fill).at + 1, PayloadMax)
            text == SubSeq(rest, 1, SelectInSeq(rest, LAMBDA b : b = 0) - 1)
<1>1. sig' = SignalDecode(got)
    <2>1. [Struct(fill) EXCEPT !.payload = Overwrite(@, wire)] = got
        BY DEF Received, Payload, Struct
    <2>. HIDE DEF got
    <2>. QED
        BY <2>1, Zenon DEF ProcessAdminRecord
<1>2. got.payload = Payload(fill) /\ got.num = Struct(fill).num
      /\ DOMAIN got = {"type_and_flag", "status", "num", "src", "payload"}
    BY DEF Struct, Received
<1>. HIDE DEF got
<1>3. sig' = [got EXCEPT !.type_and_flag = Payload(fill)[1], !.status = Payload(fill)[2],
                         !.num = NumbersGot(fill).num,
                         !.src = <<Token(text), Token(AfterToken(text))>>]
    BY <1>1, <1>2, Zenon DEF SignalDecode, NumbersGot, Order
<1>. HIDE DEF rest, text
<1>4. /\ sig'.num = NumbersGot(fill).num /\ sig'.status = Payload(fill)[2]
      /\ sig'.src = <<Token(text), Token(AfterToken(text))>>
    BY <1>2, <1>3
<1>5. /\ before' = Struct(fill).num /\ wire # <<>>
      /\ deleted' = IF IsSucceeded(sig'.status)
                    THEN {<<sig'.num["creation_time"], sig'.num["creation_sequence_number"]>>}
                    ELSE {}
    BY DEF ProcessAdminRecord
<1>. QED
    BY <1>4, <1>5 DEF rest, text

\* What the receiver deletes (bpd_bundle_list.c 292-296, bpd.c 41-52,
\* bundle.c 1195-1241).
THEOREM SignalDeletesTheKey == Spec => DeletesTheKey
<1>1. WireInv /\ [Next]_vars =>
          [wire # <<>> =>
              deleted' = {<<Over(before'["creation_time"], bundle.key[1]),
                            Over(before'["creation_sequence_number"], bundle.key[2])>>}]_vars
    <2>. SUFFICES ASSUME WireInv, Next, wire # <<>>
                  PROVE  deleted' = {<<Over(before'["creation_time"], bundle.key[1]),
                            Over(before'["creation_sequence_number"], bundle.key[2])>>}
        OBVIOUS
    <2>1. PICK fill \in Fills : ProcessAdminRecord(fill)
        BY DEF Next, SendSignal
    <2>2. PICK words \in [1..5 -> Word], status \in 128..255, src \in Sources :
              /\ words[3] = bundle.key[1] /\ words[4] = bundle.key[2]
              /\ wire = Record(words, status, src)
        BY SentRecord
    <2>3. Payload(fill)[2] = status
        <3>1. Holds(Payload(fill), Record(words, status, src))
            BY <2>2, PayloadHolds
        <3>2. Record(words, status, src)[2] = status
            BY RecordIsBytes, Zenon
        <3>3. Len(Record(words, status, src)) >= 2 + Len(FlattenSeq(Numbers(words)))
            BY RecordIsBytes, Zenon
        <3>4. Len(FlattenSeq(Numbers(words))) \in Nat
            BY RecordIsBytes, Zenon
        <3>5. Len(Record(words, status, src)) \in Nat
            BY RecordIsBytes, Zenon
        <3>6. 2 \in 1..Len(Record(words, status, src))
            BY <3>3, <3>4, <3>5
        <3>. QED
            BY <3>1, <3>2, <3>6 DEF Holds
    <2>4. IsSucceeded(sig'.status)
        <3>1. sig'.status = status
            BY <2>1, <2>3, SignalRead, Zenon
        <3>2. status \div 128 = 1
            OBVIOUS
        <3>. QED
            BY <3>1, <3>2 DEF IsSucceeded
    <2>5. ASSUME NEW k \in 1..5
          PROVE  sig'.num[Order[k]] = DecodedInto(before'[Order[k]], words[k])
        BY <2>1, <2>2, NumbersRead, SignalRead
    <2>6. /\ sig'.num["creation_time"] = DecodedInto(before'["creation_time"], words[3])
          /\ sig'.num["creation_sequence_number"]
                = DecodedInto(before'["creation_sequence_number"], words[4])
        BY <2>5, OrderOfFields
    <2>7. \A old, new : DecodedInto(old, new) = Over(old, new)
        BY DEF DecodedInto, Over
    <2>8. deleted' = {<<sig'.num["creation_time"], sig'.num["creation_sequence_number"]>>}
        BY <2>1, <2>4, SignalRead
    <2>. QED
        BY <2>2, <2>6, <2>7, <2>8
<1>. QED
    BY <1>1, WireInvHolds, PTL DEF Spec, DeletesTheKey

-----------------------------------------------------------------------------
(***************************************************************************)
(* strtok on the text behind the numbers.                                  *)
(***************************************************************************)
LEMMA PartOfSeq ==
    ASSUME NEW s \in Seq(Byte), NEW m \in 1..Len(s)+1, NEW n \in 0..Len(s), m <= n + 1
    PROVE  /\ SubSeq(s, m, n) \in Seq(Byte) /\ Len(SubSeq(s, m, n)) = n - m + 1
           /\ \A i \in 1..n-m+1 : SubSeq(s, m, n)[i] = s[m + i - 1]
           /\ Len(s) \in Nat
<1>1. Len(s) \in Nat
    BY LenProperties
<1>2. /\ SubSeq(s, m, n) \in Seq(Byte)
      /\ Len(SubSeq(s, m, n)) = IF m <= n THEN n - m + 1 ELSE 0
      /\ \A i \in 1..n-m+1 : SubSeq(s, m, n)[i] = s[m + i - 1]
    BY <1>1, SubSeqProperties
<1>3. (IF m <= n THEN n - m + 1 ELSE 0) = n - m + 1
    BY <1>1
<1>. QED
    BY <1>1, <1>2, <1>3

LEMMA FirstSkipped ==
    ASSUME NEW text, NEW m \in Nat \ {0},
           (IF {i \in 1..Len(text) : text[i] # Colon} # {}
            THEN Min({i \in 1..Len(text) : text[i] # Colon}) ELSE 0) = m
    PROVE  SkipColons(text) = SubSeq(text, m, Len(text))
<1>. DEFINE first == SelectInSeq(text, LAMBDA b : b # Colon)
<1>1. first = m
    BY DEF SelectInSeq
<1>2. SkipColons(text) = IF first = 0 THEN <<>> ELSE SubSeq(text, first, Len(text))
    BY Zenon DEF SkipColons
<1>. HIDE DEF first
<1>. QED
    BY <1>1, <1>2

\* strtok on a text that does not begin with a colon.
LEMMA FirstToken ==
    ASSUME NEW text \in Seq(Byte), NEW n \in 1..Len(text),
           \A i \in 1..n : text[i] # Colon, n < Len(text) => text[n + 1] = Colon
    PROVE  /\ Token(text) = SubSeq(text, 1, n)
           /\ AfterToken(text) = SubSeq(text, n + 1, Len(text))
<1>. DEFINE First == {i \in 1..Len(text) : text[i] # Colon}
            Ends == {i \in 1..Len(text) : text[i] = Colon}
<1>1. Len(text) \in Nat /\ n \in Nat /\ n >= 1 /\ n <= Len(text)
    BY LenProperties
<1>2. 1 \in First /\ \A i \in First : 1 <= i
    BY <1>1
<1>3. (IF First # {} THEN Min(First) ELSE 0) = 1
    BY <1>1, <1>2, FirstIs
<1>4. SubSeq(text, 1, Len(text)) = text
    <2>1. /\ SubSeq(text, 1, Len(text)) \in Seq(Byte) /\ Len(SubSeq(text, 1, Len(text))) = Len(text)
          /\ \A i \in 1..Len(text) : SubSeq(text, 1, Len(text))[i] = text[i]
        <3>1. /\ 1 \in 1..Len(text)+1 /\ Len(text) \in 0..Len(text) /\ 1 <= Len(text) + 1
              /\ Len(text) - 1 + 1 = Len(text) /\ \A i \in 1..Len(text) : 1 + i - 1 = i
            BY <1>1
        <3>. QED
            BY <3>1, PartOfSeq
    <2>. QED
        BY <2>1, SeqEqual
<1>5. SkipColons(text) = text
    BY <1>3, <1>4, FirstSkipped
<1>6. CASE n = Len(text)
    <2>1. Ends = {}
        BY <1>6
    <2>2. SelectInSeq(text, LAMBDA b : b = Colon) = 0
        BY <2>1 DEF SelectInSeq
    <2>3. Token(text) = text
        BY <1>5, <2>2 DEF Token
    <2>. QED
        BY <1>4, <1>5, <1>6, <2>3 DEF AfterToken
<1>7. CASE n < Len(text)
    <2>1. n + 1 \in Ends /\ \A i \in Ends : n + 1 <= i
        <3>1. n + 1 \in Ends
            BY <1>1, <1>7
        <3>2. ASSUME NEW i \in Ends PROVE n + 1 <= i
            <4>1. i \in 1..Len(text) /\ text[i] = Colon
                OBVIOUS
            <4>2. ~(i \in 1..n)
                BY <4>1
            <4>. QED
                BY <1>1, <4>1, <4>2
        <3>. QED
            BY <3>1, <3>2
    <2>2. SelectInSeq(text, LAMBDA b : b = Colon) = n + 1
        <3>1. (IF Ends # {} THEN Min(Ends) ELSE 0) = n + 1
            BY <1>1, <2>1, FirstIs
        <3>. QED
            BY <3>1 DEF SelectInSeq
    <2>3. Token(text) = SubSeq(text, 1, n)
        <3>1. (n + 1) - 1 = n /\ n + 1 # 0
            BY <1>1
        <3>. QED
            BY <1>5, <2>2, <3>1 DEF Token
    <2>4. Len(SubSeq(text, 1, n)) = n
        <3>1. /\ 1 \in 1..Len(text)+1 /\ n \in 0..Len(text) /\ 1 <= n + 1 /\ n - 1 + 1 = n
            BY <1>1
        <3>. QED
            BY <3>1, PartOfSeq
    <2>. QED
        BY <1>5, <2>3, <2>4 DEF AfterToken
<1>. QED
    BY <1>1, <1>6, <1>7

\* The rest of the text, behind the colon.
LEMMA LastToken ==
    ASSUME NEW text \in Seq(Byte), NEW s \in Seq(Byte), s # <<>>, Len(text) = Len(s) + 1,
           text[1] = Colon, \A i \in 1..Len(s) : text[i + 1] = s[i],
           \A i \in 1..Len(s) : s[i] # Colon
    PROVE  Token(text) = s
<1>. DEFINE First == {i \in 1..Len(text) : text[i] # Colon}
            rest == SubSeq(text, 2, Len(text))
<1>1. Len(s) \in Nat /\ Len(s) >= 1 /\ Len(text) \in Nat
    BY LenProperties, EmptySeq
<1>2. 2 \in First /\ \A i \in First : 2 <= i
    <2>1. text[1 + 1] = s[1] /\ s[1] # Colon
        BY <1>1
    <2>. QED
        BY <1>1, <2>1
<1>3. (IF First # {} THEN Min(First) ELSE 0) = 2
    BY <1>1, <1>2, FirstIs
<1>4. SkipColons(text) = rest
    BY <1>3, FirstSkipped
<1>5. rest = s
    <2>1. /\ 2 \in 1..Len(text)+1 /\ Len(text) \in 0..Len(text) /\ 2 <= Len(text) + 1
          /\ Len(text) - 2 + 1 = Len(s) /\ \A i \in 1..Len(s) : 2 + i - 1 = i + 1
        BY <1>1
    <2>2. rest \in Seq(Byte) /\ Len(rest) = Len(s) /\ \A i \in 1..Len(s) : rest[i] = s[i]
        BY <2>1, PartOfSeq
    <2>. HIDE DEF rest
    <2>. QED
        BY <2>2, SeqEqual
<1>6. SelectInSeq(s, LAMBDA b : b = Colon) = 0
    <2>1. {i \in 1..Len(s) : s[i] = Colon} = {}
        OBVIOUS
    <2>. QED
        BY <2>1 DEF SelectInSeq
<1>. HIDE DEF rest
<1>. QED
    BY <1>4, <1>5, <1>6 DEF Token

-----------------------------------------------------------------------------
(***************************************************************************)
(* The source that it reads.                                               *)
(***************************************************************************)
\* scheme ":" ssp, without the zero at the end.
Text(src) == src[1] \o <<Colon>> \o src[2]

LEMMA TextOfSource ==
    ASSUME NEW src \in Sources
    PROVE  /\ src[1] \in Seq(Byte) /\ src[2] \in Seq(Byte)
           /\ Len(src[1]) \in Nat \ {0} /\ Len(src[2]) \in Nat \ {0}
           /\ Text(src) \in Seq(Byte) /\ Len(Text(src)) = Len(src[1]) + 1 + Len(src[2])
           /\ \A i \in 1..Len(src[1]) : Text(src)[i] = src[1][i]
           /\ Text(src)[Len(src[1]) + 1] = Colon
           /\ \A i \in 1..Len(src[2]) : Text(src)[Len(src[1]) + 1 + i] = src[2][i]
<1>. DEFINE s1 == src[1]
            s2 == src[2]
            a == Len(s1)
            b == Len(s2)
            front == s1 \o <<Colon>>
            text == front \o s2
<1>1. s1 \in Seq(Byte) /\ s2 \in Seq(Byte) /\ s1 # <<>> /\ \E i \in DOMAIN s2 : s2[i] # Colon
    BY SourcesAssumption
<1>2. <<Colon>> \in Seq(Byte) /\ Len(<<Colon>>) = 1 /\ <<Colon>>[1] = Colon
    BY WidthOfByte DEF Colon
<1>. HIDE DEF s1, s2
<1>3. a \in Nat /\ b \in Nat /\ a # 0 /\ b # 0
    <2>1. a \in Nat /\ b \in Nat /\ DOMAIN s2 = 1..b
        BY <1>1, LenProperties
    <2>2. a # 0
        BY <1>1, EmptySeq
    <2>3. b # 0
        <3>1. 1..0 = {}
            OBVIOUS
        <3>. QED
            BY <1>1, <2>1, <3>1
    <2>. QED
        BY <2>1, <2>2, <2>3
<1>4. /\ front \in Seq(Byte) /\ Len(front) = a + 1
      /\ \A i \in 1..a + 1 : front[i] = IF i <= a THEN s1[i] ELSE <<Colon>>[i - a]
    BY <1>1, <1>2, ConcatProperties
<1>. HIDE DEF front
<1>5. /\ text \in Seq(Byte) /\ Len(text) = (a + 1) + b
      /\ \A i \in 1..(a + 1) + b : text[i] = IF i <= a + 1 THEN front[i] ELSE s2[i - (a + 1)]
    <2>1. /\ front \o s2 \in Seq(Byte) /\ Len(front \o s2) = Len(front) + Len(s2)
          /\ \A i \in 1..Len(front) + Len(s2) :
                (front \o s2)[i] = IF i <= Len(front) THEN front[i] ELSE s2[i - Len(front)]
        BY <1>1, <1>4, ConcatProperties, Zenon
    <2>2. Len(front) = a + 1 /\ Len(s2) = b /\ text = front \o s2
        BY <1>4
    <2>. HIDE DEF text, a, b
    <2>. QED
        BY <2>1, <2>2
<1>. HIDE DEF text, a, b
<1>6. ASSUME NEW i \in 1..a PROVE text[i] = s1[i]
    BY <1>3, <1>4, <1>5
<1>7. text[a + 1] = Colon
    <2>1. a + 1 \in 1..(a + 1) + b /\ a + 1 \in 1..a + 1 /\ ~(a + 1 <= a) /\ (a + 1) - a = 1
        BY <1>3
    <2>. QED
        BY <1>2, <1>4, <1>5, <2>1
<1>8. ASSUME NEW i \in 1..b PROVE text[a + 1 + i] = s2[i]
    <2>1. a + 1 + i \in 1..(a + 1) + b /\ ~(a + 1 + i <= a + 1) /\ (a + 1 + i) - (a + 1) = i
        BY <1>3
    <2>. QED
        BY <1>5, <2>1
<1>9. Text(src) = text
    BY DEF Text, text, front, s1, s2
<1>. QED
    BY <1>1, <1>3, <1>5, <1>6, <1>7, <1>8, <1>9 DEF a, b, s1, s2

\* The zero at the end is the only one.
LEMMA TextEnds ==
    ASSUME NEW src \in Sources
    PROVE  LET t == Len(Text(src)) IN
           /\ t \in Nat \ {0} /\ Len(SourceText(src)) = t + 1
           /\ \A i \in 1..t : SourceText(src)[i] = Text(src)[i] /\ SourceText(src)[i] # 0
           /\ SourceText(src)[t + 1] = 0
<1>. DEFINE text == Text(src)
            t == Len(text)
            s1 == src[1]
            s2 == src[2]
            a == Len(s1)
            b == Len(s2)
            all == SourceText(src)
<1>1. /\ a \in Nat \ {0} /\ b \in Nat \ {0} /\ text \in Seq(Byte) /\ t = a + 1 + b
      /\ \A i \in 1..a : text[i] = s1[i]
      /\ text[a + 1] = Colon
      /\ \A i \in 1..b : text[a + 1 + i] = s2[i]
    BY TextOfSource
<1>2. (\A i \in 1..a : s1[i] # 0) /\ (\A i \in 1..b : s2[i] # 0)
    <2>1. \A i \in 1..2 : ~Contains(src[i], 0)
        BY SourcesAssumption
    <2>2. ~Contains(src[1], 0) /\ ~Contains(src[2], 0)
        BY <2>1
    <2>. QED
        BY <2>2 DEF Contains
<1>3. /\ all = text \o <<0>>
      /\ <<0>> \in Seq(Byte) /\ Len(<<0>>) = 1 /\ <<0>>[1] = 0
    BY WidthOfByte DEF SourceText, Text
<1>. HIDE DEF text, all, a, b, s1, s2
<1>4. /\ Len(all) = t + 1
      /\ \A i \in 1..t + 1 : all[i] = IF i <= t THEN text[i] ELSE <<0>>[i - t]
    <2>1. /\ Len(text \o <<0>>) = Len(text) + Len(<<0>>)
          /\ \A i \in 1..Len(text) + Len(<<0>>) :
                (text \o <<0>>)[i] = IF i <= Len(text) THEN text[i] ELSE <<0>>[i - Len(text)]
        BY <1>1, <1>3, ConcatProperties, Zenon
    <2>2. Len(<<0>>) = 1 /\ all = text \o <<0>> /\ Len(text) = t
        BY <1>3
    <2>. HIDE DEF t
    <2>. QED
        BY <2>1, <2>2, Zenon
<1>. HIDE DEF t
<1>5. t \in Nat \ {0}
    BY <1>1
<1>6. ASSUME NEW i \in 1..t PROVE all[i] = text[i] /\ text[i] # 0
    <2>1. all[i] = text[i]
        BY <1>4, <1>5
    <2>2. CASE i <= a
        <3>1. i \in 1..a
            BY <1>1, <1>5, <2>2
        <3>. QED
            BY <1>1, <1>2, <2>1, <3>1
    <2>3. CASE i = a + 1
        BY <1>1, <2>1, <2>3 DEF Colon
    <2>4. CASE i > a + 1
        <3>. DEFINE j == i - (a + 1)
        <3>1. j \in 1..b /\ a + 1 + j = i
            BY <1>1, <1>5, <2>4
        <3>. HIDE DEF j
        <3>. QED
            BY <1>1, <1>2, <2>1, <3>1
    <2>. QED
        BY <1>1, <1>5, <2>1, <2>2, <2>3, <2>4
<1>7. all[t + 1] = 0
    <2>1. t + 1 \in 1..t + 1 /\ ~(t + 1 <= t) /\ (t + 1) - t = 1
        BY <1>5
    <2>. QED
        BY <1>3, <1>4, <2>1
<1>. QED
    BY <1>4, <1>5, <1>6, <1>7 DEF t, all, text

\* The text that custody_signal_decode finds behind the numbers.
TextFound(fill) ==
    LET rest == SubSeq(Payload(fill), NumbersGot(fill).at + 1, PayloadMax)
    IN  SubSeq(rest, 1, SelectInSeq(rest, LAMBDA b : b = 0) - 1)

LEMMA TextRead ==
    ASSUME NEW words \in [1..5 -> Word], NEW status \in 128..255, NEW src \in Sources,
           wire = Record(words, status, src), NEW fill \in Fills
    PROVE  TextFound(fill) = Text(src)
<1>. DEFINE array == Payload(fill)
            rec == Record(words, status, src)
            at == NumbersGot(fill).at
            rest == SubSeq(array, at + 1, PayloadMax)
            all == SourceText(src)
            text == Text(src)
            t == Len(text)
            m == Len(FlattenSeq(Numbers(words)))
            I == {i \in 1..Len(rest) : rest[i] = 0}
<1>1. /\ array \in Seq(Byte) /\ Len(array) = PayloadMax /\ PayloadMax \in Nat
      /\ Holds(array, rec)
    BY PayloadHolds
<1>2. at = 2 + m
    BY NumbersRead
<1>3. m \in Nat
    BY RecordIsBytes, Zenon
<1>4. TextFollows(words, src, rec)
    BY RecordIsBytes, Zenon
<1>5. Len(rec) = 2 + m + Len(all) /\ \A i \in 1..Len(all) : rec[2 + m + i] = all[i]
    BY <1>4, Zenon DEF TextFollows
<1>6. /\ t \in Nat \ {0} /\ Len(all) = t + 1
      /\ \A i \in 1..t : all[i] = text[i] /\ all[i] # 0
      /\ all[t + 1] = 0
    BY TextEnds
<1>7. Len(rec) <= PayloadMax /\ \A i \in 1..Len(rec) : array[i] = rec[i]
    BY <1>1 DEF Holds
<1>8. text \in Seq(Byte)
    BY TextOfSource
<1>. HIDE DEF array, rec, at, all, text, m, t
<1>9. /\ at \in Nat /\ at + t + 1 <= PayloadMax
      /\ \A i \in 1..t + 1 : array[at + i] = all[i]
    <2>1. at \in Nat /\ at + t + 1 <= PayloadMax
        BY <1>2, <1>3, <1>5, <1>6, <1>7
    <2>2. ASSUME NEW i \in 1..t + 1 PROVE array[at + i] = all[i]
        <3>1. at + i \in 1..Len(rec) /\ i \in 1..Len(all)
            BY <1>2, <1>3, <1>5, <1>6
        <3>. QED
            BY <1>2, <1>5, <1>7, <3>1
    <2>. QED
        BY <2>1, <2>2
<1>10. /\ rest \in Seq(Byte) /\ Len(rest) = PayloadMax - at
       /\ \A i \in 1..PayloadMax - at : rest[i] = array[at + i]
    <2>. DEFINE from == at + 1
    <2>1. /\ from \in 1..Len(array)+1 /\ PayloadMax \in 0..Len(array) /\ from <= PayloadMax + 1
          /\ PayloadMax - from + 1 = PayloadMax - at
          /\ \A i \in 1..PayloadMax - at : from + i - 1 = at + i
        BY <1>1, <1>6, <1>9
    <2>. HIDE DEF from
    <2>2. /\ SubSeq(array, from, PayloadMax) \in Seq(Byte)
          /\ Len(SubSeq(array, from, PayloadMax)) = PayloadMax - from + 1
          /\ \A i \in 1..PayloadMax-from+1 : SubSeq(array, from, PayloadMax)[i] = array[from + i - 1]
        BY <1>1, <2>1, PartOfSeq
    <2>. QED
        BY <2>1, <2>2 DEF from
<1>. HIDE DEF rest
<1>11. \A i \in 1..t + 1 : i \in 1..Len(rest) /\ rest[i] = all[i]
    BY <1>1, <1>6, <1>9, <1>10
<1>12. t + 1 \in I /\ \A i \in I : t + 1 <= i
    <2>1. t + 1 \in 1..t + 1
        BY <1>6
    <2>2. t + 1 \in I
        BY <1>6, <1>11, <2>1
    <2>3. ASSUME NEW i \in I PROVE t + 1 <= i
        <3>1. i \in 1..Len(rest) /\ rest[i] = 0
            OBVIOUS
        <3>2. i \in Nat /\ i >= 1
            BY <1>1, <1>9, <1>10, <3>1
        <3>3. ~(i \in 1..t)
            <4>1. i \in 1..t => i \in 1..t + 1
                BY <1>6
            <4>. QED
                BY <1>6, <1>11, <3>1, <4>1
        <3>. QED
            BY <1>6, <3>2, <3>3
    <2>. QED
        BY <2>2, <2>3
<1>13. SelectInSeq(rest, LAMBDA b : b = 0) = t + 1
    <2>1. Len(rest) \in Nat
        BY <1>10, LenProperties
    <2>2. (IF I # {} THEN Min(I) ELSE 0) = t + 1
        BY <1>12, <2>1, FirstIs
    <2>. QED
        BY <2>2 DEF SelectInSeq
<1>14. TextFound(fill) = SubSeq(rest, 1, SelectInSeq(rest, LAMBDA b : b = 0) - 1)
    BY DEF TextFound, rest, array, at
<1>15. TextFound(fill) = SubSeq(rest, 1, t)
    <2>1. (t + 1) - 1 = t
        BY <1>6
    <2>. QED
        BY <1>13, <1>14, <2>1
<1>16. SubSeq(rest, 1, t) = text
    <2>1. /\ 1 \in 1..Len(rest)+1 /\ t \in 0..Len(rest) /\ 1 <= t + 1 /\ t - 1 + 1 = t
          /\ \A i \in 1..t : 1 + i - 1 = i
        BY <1>1, <1>6, <1>9, <1>10
    <2>2. /\ SubSeq(rest, 1, t) \in Seq(Byte) /\ Len(SubSeq(rest, 1, t)) = t
          /\ \A i \in 1..t : SubSeq(rest, 1, t)[i] = rest[i]
        BY <1>10, <2>1, PartOfSeq
    <2>3. \A i \in 1..t : i \in 1..t + 1
        BY <1>6
    <2>4. \A i \in 1..t : SubSeq(rest, 1, t)[i] = text[i]
        BY <1>6, <1>11, <2>2, <2>3
    <2>5. Len(text) = t
        BY DEF t
    <2>. QED
        BY <1>8, <2>2, <2>4, <2>5, SeqEqual
<1>. QED
    BY <1>15, <1>16 DEF text

LEMMA SourceRead ==
    ASSUME NEW src \in Sources, \A i \in 1..2 : ~Contains(src[i], Colon)
    PROVE  Token(Text(src)) = src[1] /\ Token(AfterToken(Text(src))) = src[2]
<1>. DEFINE text == Text(src)
            s1 == src[1]
            s2 == src[2]
            a == Len(s1)
            b == Len(s2)
            after == SubSeq(text, a + 1, Len(text))
<1>1. /\ s1 \in Seq(Byte) /\ s2 \in Seq(Byte) /\ a \in Nat \ {0} /\ b \in Nat \ {0}
      /\ text \in Seq(Byte) /\ Len(text) = a + 1 + b
      /\ \A i \in 1..a : text[i] = s1[i]
      /\ text[a + 1] = Colon
      /\ \A i \in 1..b : text[a + 1 + i] = s2[i]
    BY TextOfSource
<1>2. (\A i \in 1..a : s1[i] # Colon) /\ (\A i \in 1..b : s2[i] # Colon)
    <2>1. ~Contains(src[1], Colon) /\ ~Contains(src[2], Colon)
        OBVIOUS
    <2>. QED
        BY <2>1 DEF Contains
<1>. HIDE DEF text, s1, s2
<1>. HIDE DEF a, b
<1>3. a \in 1..Len(text) /\ \A i \in 1..a : text[i] # Colon
    BY <1>1, <1>2
<1>4. Token(text) = SubSeq(text, 1, a) /\ AfterToken(text) = after
    BY <1>1, <1>3, FirstToken
<1>5. SubSeq(text, 1, a) = s1
    <2>1. /\ 1 \in 1..Len(text)+1 /\ a \in 0..Len(text) /\ 1 <= a + 1 /\ a - 1 + 1 = a
          /\ \A i \in 1..a : 1 + i - 1 = i
        BY <1>1
    <2>2. /\ SubSeq(text, 1, a) \in Seq(Byte) /\ Len(SubSeq(text, 1, a)) = a
          /\ \A i \in 1..a : SubSeq(text, 1, a)[i] = s1[i]
        BY <1>1, <2>1, PartOfSeq
    <2>3. Len(s1) = a
        BY DEF a
    <2>. QED
        BY <1>1, <2>2, <2>3, SeqEqual
<1>6. /\ after \in Seq(Byte) /\ Len(after) = b + 1
      /\ after[1] = Colon /\ \A i \in 1..b : after[i + 1] = s2[i]
    <2>. DEFINE from == a + 1
                to == Len(text)
    <2>1. /\ from \in 1..Len(text)+1 /\ to \in 0..Len(text) /\ from <= to + 1
          /\ to - from + 1 = b + 1 /\ from + 1 - 1 = a + 1 /\ 1 \in 1..b + 1
          /\ \A i \in 1..b : i + 1 \in 1..b + 1 /\ from + (i + 1) - 1 = a + 1 + i
        BY <1>1
    <2>. HIDE DEF from, to
    <2>2. /\ SubSeq(text, from, to) \in Seq(Byte) /\ Len(SubSeq(text, from, to)) = to - from + 1
          /\ \A i \in 1..to-from+1 : SubSeq(text, from, to)[i] = text[from + i - 1]
        BY <1>1, <2>1, PartOfSeq
    <2>3. after = SubSeq(text, from, to)
        BY DEF from, to
    <2>. HIDE DEF after
    <2>4. after \in Seq(Byte) /\ Len(after) = b + 1 /\ \A i \in 1..b + 1 : after[i] = text[from + i - 1]
        BY <2>1, <2>2, <2>3
    <2>5. after[1] = Colon
        BY <1>1, <2>1, <2>4
    <2>6. ASSUME NEW i \in 1..b PROVE after[i + 1] = s2[i]
        BY <1>1, <2>1, <2>4
    <2>. QED
        BY <2>4, <2>5, <2>6
<1>. HIDE DEF after
<1>7. s2 # <<>> /\ Len(s2) = b
    BY <1>1, EmptySeq DEF b
<1>8. Token(after) = s2
    BY <1>1, <1>2, <1>6, <1>7, LastToken
<1>. QED
    BY <1>4, <1>5, <1>8 DEF text, s1, s2

\* The source endpoint of a bundle, if it has no further colon, is what the
\* receiver of the signal reads (bundle.c 1231-1235).
THEOREM SignalKeepsTheSource == Spec => SourceArrives
<1>1. WireInv /\ [Next]_vars =>
          [wire # <<>> /\ (\A i \in 1..2 : ~Contains(bundle.src[i], Colon))
               => sig'.src = bundle.src]_vars
    <2>. SUFFICES ASSUME WireInv, Next, wire # <<>>,
                         \A i \in 1..2 : ~Contains(bundle.src[i], Colon)
                  PROVE  sig'.src = bundle.src
        OBVIOUS
    <2>1. PICK fill \in Fills : ProcessAdminRecord(fill)
        BY DEF Next, SendSignal
    <2>2. PICK words \in [1..5 -> Word], status \in 128..255, src \in Sources :
              src = bundle.src /\ wire = Record(words, status, src)
        BY SentRecord
    <2>3. sig'.src = <<Token(TextFound(fill)), Token(AfterToken(TextFound(fill)))>>
        BY <2>1, SignalRead DEF TextFound
    <2>4. TextFound(fill) = Text(src)
        BY <2>2, TextRead
    <2>5. Token(Text(src)) = src[1] /\ Token(AfterToken(Text(src))) = src[2]
        BY <2>2, SourceRead
    <2>6. src = <<src[1], src[2]>>
        BY SourcesAssumption
    <2>. QED
        BY <2>2, <2>3, <2>4, <2>5, <2>6
<1>. QED
    BY <1>1, WireInvHolds, PTL DEF Spec, SourceArrives
=============================================================================
