-------------------------------- MODULE Sdnv --------------------------------
(***************************************************************************)
(* Self-delimiting numeric values, as bundle.c writes and reads them.  An  *)
(* integer is its bytes in memory, least significant first; an encoding is *)
(* a sequence of bytes that each hold a continuation bit and a group of    *)
(* the remaining bits, most significant group first.                       *)
(***************************************************************************)
EXTENDS Integers, Sequences, FiniteSets, SequencesExt

CONSTANTS
    ByteBits,   \* bits of a byte: 8 in the code
    IntBytes    \* bytes of an unsigned int: 4 in the code

ASSUME BitsAssumption == ByteBits \in Nat /\ ByteBits > 1 /\ IntBytes \in Nat \ {0}

Byte == 0..(2^ByteBits - 1)
Word == [1..IntBytes -> Byte]

GroupBits == ByteBits - 1
Cont == 2^GroupBits

\* Bit i of a byte, counted from the most significant, which is bit 0.
Bit(b, i) == (b \div 2^(ByteBits - 1 - i)) % 2

\* The number that a sequence of bits, most significant first, stands for.
NumberOf(bits) == FoldLeft(LAMBDA n, b : 2*n + b, 0, bits)

\* How many binary digits a byte has, without leading zeros.
Digits(b) == Cardinality({i \in 0..ByteBits-1 : 2^i <= b})

\* The first length >= 1 that holds so many bits in units of u bits.
Units(bits, u) == IF bits = 0 THEN 1 ELSE (bits + u - 1) \div u

\* Mutant of EncodeLen: the division rounds down.
EncodeLenShort(w) ==
    ((IntBytes - 1) * ByteBits + Digits(w[IntBytes])) \div GroupBits

\* Leading zeros are left out of the most significant byte only.
EncodeLen(w) ==
    Units((IntBytes - 1) * ByteBits + Digits(w[IntBytes]), GroupBits)

Encode(w) ==
    LET n == EncodeLen(w)
        offset == n * GroupBits - IntBytes * ByteBits
        WordBit(k) == IF k < 0 THEN 0
                      ELSE Bit(w[IntBytes - k \div ByteBits], k % ByteBits)
        Group(i) == NumberOf([j \in 1..GroupBits |->
                              WordBit((i - 1) * GroupBits + j - 1 - offset)])
    IN  [i \in 1..n |-> Group(i) + IF i < n THEN Cont ELSE 0]

-----------------------------------------------------------------------------
(***************************************************************************)
(* Decoding.  Leading groups that are zero are skipped; the first byte     *)
(* without a continuation bit is the last one.                             *)
(***************************************************************************)
Decodable(from) == \E i \in DOMAIN from : from[i] < Cont

FirstGroup(from) == SelectInSeq(from, LAMBDA b : b # Cont)

\* How many bytes an encoding at the front of from takes.
LastGroup(from) == SelectInSeq(from, LAMBDA b : b < Cont)

\* Mutant of DecodeLen: it counts groups and not their digits.
DecodeLenOfGroups(from) ==
    Units((LastGroup(from) - FirstGroup(from) + 1) * GroupBits, ByteBits)

\* How many bytes of the integer are written.
DecodeLen(from) ==
    Units((LastGroup(from) - FirstGroup(from)) * GroupBits
              + Digits(from[FirstGroup(from)] % Cont), ByteBits)

\* What the memory of an integer holds after decoding from into it.
Decode(to, from) ==
    LET first == FirstGroup(from)
        len == DecodeLen(from)
        offset == (LastGroup(from) - first + 1) * GroupBits - len * ByteBits
        CodeBit(k) == IF k < 0 THEN 0
                      ELSE Bit(from[first + k \div GroupBits], (k % GroupBits) + 1)
        Written(i) == NumberOf([j \in 1..ByteBits |->
                                CodeBit((len - i) * ByteBits + j - 1 + offset)])
    IN  [i \in 1..IntBytes |-> IF i <= len THEN Written(i) ELSE to[i]]

\* How many bytes an integer takes without leading zero bytes.
Width(w) == Units(ByteBits * SelectLastInSeq(w, LAMBDA b : b # 0), ByteBits)

-----------------------------------------------------------------------------
(***************************************************************************)
(* Structs in memory: num is a function from the names of the integers to  *)
(* words, other memory is arrays of bytes.  A cursor is the integers as    *)
(* read so far, the offset of the next byte, and whether reading was       *)
(* inside the array and writing inside the integers.                       *)
(***************************************************************************)
\* An integer as the bytes of a word, and back.
WordOf(n) == [i \in 1..IntBytes |-> (n \div 2^(ByteBits * (i - 1))) % 2^ByteBits]
ValueOf(w) == FoldRight(LAMBDA b, n : n * 2^ByteBits + b, w, 0)

\* memcpy of bytes to the front of an array.
Overwrite(array, bytes) ==
    [i \in DOMAIN array |-> IF i <= Len(bytes) THEN bytes[i] ELSE array[i]]

EncodedFields(num, fields) == FlattenSeq([i \in DOMAIN fields |-> Encode(num[fields[i]])])

TakeField(array, cursor, f) ==
    LET rest == SubSeq(array, cursor.at + 1, Len(array))
    IN  IF cursor.ok /\ Decodable(rest) /\ DecodeLen(rest) <= IntBytes
        THEN [num |-> [cursor.num EXCEPT ![f] = Decode(@, rest)],
              at |-> cursor.at + LastGroup(rest), ok |-> TRUE]
        ELSE [cursor EXCEPT !.ok = FALSE]

Take(array, cursor, fields) ==
    FoldLeft(LAMBDA c, f : TakeField(array, c, f), cursor, fields)
=============================================================================
