---------------------------- MODULE BundleCodec ----------------------------
(***************************************************************************)
(* bundle_encode and bundle_decode.  A bundle is a struct in memory: the   *)
(* integers of its header, the strings of its four endpoints, flags, and   *)
(* three arrays (dictionary, payload, and the whole encoding).  Memory     *)
(* keeps what it held where nothing is written.                            *)
(*                                                                         *)
(* A sender fills a struct and encodes it.  A receiving thread, which has  *)
(* one struct for all bundles, copies the datagram into it, decodes it and *)
(* encodes it again (bpd_isock_recv_thread, bpd_bundle_list_insert).       *)
(***************************************************************************)
EXTENDS Sdnv

CONSTANTS
    BundleMax,      \* BUNDLE_MAXLEN
    DictionaryMax,  \* BUNDLE_DICTIONARY_BYTE_ARRAY_MAXLEN
    PayloadMax      \* BUNDLE_PAYLOAD_MAXLEN

\* The strings of a bundle, in the order of the dictionary: scheme and ssp of
\* destination, source, report-to and custodian.  Offsets[i] is where string i
\* begins.
Offsets == <<"dst_scheme_offset", "dst_ssp_offset",
             "src_scheme_offset", "src_ssp_offset",
             "report_to_scheme_offset", "report_to_ssp_offset",
             "custodian_scheme_offset", "custodian_ssp_offset">>

\* The integers from the offsets to the dictionary, in the order of the wire.
Header == Offsets \o <<"creation_time", "creation_sequence_number", "lifetime",
                       "dictionary_length">>

Fields == {"bundle_proc_flags", "primary_block_length", "block_proc_flags",
           "payload_block_length"} \cup {Header[i] : i \in DOMAIN Header}

AdminRecord == 2        \* BUNDLE_PROC_FLAG_ADMIN_RECORD
CustodyTransfer == 8    \* BUNDLE_PROC_FLAG_CUSTODY_TRANSFER

\* Room for everything but the payload: two octets, the sixteen integers, and the
\* dictionary.
HeaderMax == 2 + 16 * Units(IntBytes * ByteBits, GroupBits) + DictionaryMax

\* 2048, 4096 and 8192 in the code, in integers of 32 bits.
ASSUME ArraysAssumption ==
    /\ DictionaryMax \in Nat /\ PayloadMax \in Nat /\ BundleMax \in Nat
    /\ HeaderMax + PayloadMax <= BundleMax
    /\ BundleMax < 2^(IntBytes * ByteBits)
    /\ CustodyTransfer + AdminRecord < 2^(IntBytes * ByteBits)

-----------------------------------------------------------------------------
(***************************************************************************)
(* Encoding.                                                               *)
(***************************************************************************)
Dictionary(strings) == FlattenSeq([i \in DOMAIN strings |-> strings[i] \o <<0>>])

\* Mutant of OffsetOf: the zero that ends a string is not counted.
OffsetWithoutZeros(s, i) == Len(Dictionary(SubSeq(s.uri, 1, i - 1))) - (i - 1)

OffsetOf(s, i) == Len(Dictionary(SubSeq(s.uri, 1, i - 1)))

\* The integers that describe the dictionary, recomputed.
Located(s) ==
    [f \in Fields |->
        IF f = "dictionary_length" THEN WordOf(Len(Dictionary(s.uri)))
        ELSE IF Contains(Offsets, f)
             THEN WordOf(OffsetOf(s, SelectInSeq(Offsets, LAMBDA o : o = f)))
             ELSE s.num[f]]

\* bundle_clear_bundle_proc_flags, then one bit for each mark.
ProcFlags(s) == WordOf((IF s.iscustody THEN CustodyTransfer ELSE 0)
                       + (IF s.isadmin THEN AdminRecord ELSE 0))

PrimaryLength(num) ==
    FoldLeft(LAMBDA n, len : n + len, ValueOf(num["dictionary_length"]),
             [i \in DOMAIN Header |-> EncodeLen(num[Header[i]])])

PayloadOf(s) == SubSeq(s.payload, 1, ValueOf(s.num["payload_block_length"]))

\* The bytes of a bundle whose integers are up to date.
Encoding(s) ==
    <<s.version>>
    \o EncodedFields(s.num, <<"bundle_proc_flags", "primary_block_length">> \o Header)
    \o Dictionary(s.uri) \o <<s.block_type>>
    \o EncodedFields(s.num, <<"block_proc_flags", "payload_block_length">>)
    \o PayloadOf(s)

BundleEncode(s) ==
    LET located == Located(s)
        numbered == [s EXCEPT !.num = [located EXCEPT
                        !["bundle_proc_flags"] = ProcFlags(s),
                        !["primary_block_length"] = WordOf(PrimaryLength(located))]]
        bytes == Encoding(numbered)
    IN  [numbered EXCEPT !.dictionary = Overwrite(@, Dictionary(s.uri)),
                         !.bundle = Overwrite(@, bytes),
                         !.bundle_len = Len(bytes)]

-----------------------------------------------------------------------------
(***************************************************************************)
(* Decoding.                                                               *)
(***************************************************************************)
\* The cursor at the start of the dictionary.
PrimaryBlock(s) ==
    Take(s.bundle,
         [num |-> [s.num EXCEPT !["bundle_proc_flags"] = WordOf(0)], at |-> 1, ok |-> TRUE],
         <<"bundle_proc_flags", "primary_block_length">> \o Header)

DictionaryEnd(primary) == primary.at + ValueOf(primary.num["dictionary_length"])

\* Mutant of PayloadBlock: the byte of block_type is not skipped.
PayloadBlockAtOnce(s, primary) ==
    Take(s.bundle, [primary EXCEPT !.at = DictionaryEnd(primary)],
         <<"block_proc_flags", "payload_block_length">>)

\* The cursor at the start of the payload; block_type is one byte.
PayloadBlock(s, primary) ==
    Take(s.bundle, [primary EXCEPT !.at = DictionaryEnd(primary) + 1],
         <<"block_proc_flags", "payload_block_length">>)

\* strcpy from an offset of the dictionary.
StringAt(dictionary, offset) ==
    LET rest == SubSeq(dictionary, offset + 1, DictionaryMax)
    IN  SubSeq(rest, 1, SelectInSeq(rest, LAMBDA b : b = 0) - 1)

EndsInside(dictionary, offset) == \E i \in offset+1..DictionaryMax : dictionary[i] = 0

\* Mutant of IsSet: it looks at the flags of the payload block.
IsSetInBlock(num, flag) == (ValueOf(num["block_proc_flags"]) \div flag) % 2 = 1

IsSet(num, flag) == (ValueOf(num["bundle_proc_flags"]) \div flag) % 2 = 1

\* Mutant of NewDictionary: the dictionary is not copied out of the datagram.
OldDictionary(s, primary) == s.dictionary

NewDictionary(s, primary) ==
    Overwrite(s.dictionary, SubSeq(s.bundle, primary.at + 1, DictionaryEnd(primary)))

\* Decoding reads and writes inside the arrays of the struct only.
DecodesInside(s) ==
    LET primary == PrimaryBlock(s)
        block == PayloadBlock(s, primary)
        dictionary == NewDictionary(s, primary)
        len == ValueOf(block.num["payload_block_length"])
    IN  /\ primary.ok
        /\ ValueOf(primary.num["dictionary_length"]) <= DictionaryMax
        /\ DictionaryEnd(primary) < BundleMax
        /\ \A i \in DOMAIN Offsets :
               EndsInside(dictionary, ValueOf(primary.num[Offsets[i]]))
        /\ block.ok
        /\ len <= PayloadMax /\ block.at + len <= BundleMax

BundleDecode(s) ==
    LET primary == PrimaryBlock(s)
        block == PayloadBlock(s, primary)
        dictionary == NewDictionary(s, primary)
        end == block.at + ValueOf(block.num["payload_block_length"])
    IN  [s EXCEPT
            !.version = s.bundle[1],
            !.num = block.num,
            !.dictionary = dictionary,
            !.uri = [i \in DOMAIN Offsets |->
                        StringAt(dictionary, ValueOf(block.num[Offsets[i]]))],
            !.block_type = s.bundle[DictionaryEnd(primary) + 1],
            !.iscustody = IsSet(block.num, CustodyTransfer),
            !.isadmin = IsSet(block.num, AdminRecord),
            !.payload = Overwrite(@, SubSeq(s.bundle, block.at + 1, end)),
            !.bundle_len = end]
=============================================================================
