---------------------------- MODULE SignalCodec ----------------------------
(***************************************************************************)
(* Custody signals as the payload of a bundle: the daemon that took a      *)
(* bundle builds one in a struct on its stack                              *)
(* (bpd_bundle_list_send_custody_transfer_succeeded_signal), the previous  *)
(* custodian decodes it into another (bpd_process_admin_record) and deletes*)
(* the bundle it names.  Neither struct is cleared before.                 *)
(***************************************************************************)
EXTENDS Sdnv

CONSTANTS
    PayloadMax,     \* BUNDLE_PAYLOAD_MAXLEN
    Keys,           \* pairs <<creation_time, creation_sequence_number>>
    Moments,        \* pairs <<time_of_signal_sec, time_of_signal_nsec>>
    Sources,        \* pairs <<scheme, ssp>> of source endpoints
    Fills           \* bytes that memory may hold when nothing was written to it

ASSUME WidthsAssumption == ByteBits = 8
ASSUME KeysAssumption == Keys \subseteq Word \X Word /\ Moments \subseteq Word \X Word
ASSUME FillsAssumption == Fills \subseteq Byte

Colon == 58

\* An endpoint without a scheme, or with nothing but colons after it, leaves
\* strtok nothing to return and strcpy no source. Strings hold no zero byte.
ASSUME SourcesAssumption ==
    /\ Sources \subseteq Seq(Byte) \X Seq(Byte)
    /\ \A src \in Sources : src[1] # <<>> /\ \E i \in DOMAIN src[2] : src[2][i] # Colon
    /\ \A src \in Sources : \A i \in 1..2 : ~Contains(src[i], 0)

\* admin_record_set_type and admin_record_clr_flag work on half a byte each.
CustodySignalType == 2
TypeOf(b) == b \div 16
FlagOf(b) == b % 16

\* Mutant of SetType: the type's one bit is set, the old type not masked out.
SetTypeOver(b, type) == IF TypeOf(b) % 4 >= 2 THEN b ELSE b + 16 * type

SetType(b, type) == FlagOf(b) + 16 * type
ClearFlag(b) == 16 * TypeOf(b)

\* The top bit of the status byte says "succeeded", the others are the reason.
IsSucceeded(status) == status \div 128 = 1
SetSucceeded(status) == (status % 128) + 128

Times == <<"time_of_signal_sec", "time_of_signal_nsec", "creation_time",
           "creation_sequence_number">>
Fields == {Times[i] : i \in DOMAIN Times} \cup {"src_endpoint_id_len"}

\* scheme ":" ssp and the zero at the end, after its length.
SourceText(src) == src[1] \o <<Colon>> \o src[2] \o <<0>>

\* A payload of BUNDLE_PAYLOAD_MAXLEN bytes has room for two octets, five integers
\* and an endpoint of URI_SCHEME_MAXLEN and URI_SSP_MAXLEN (4096 and 1024 each).
ASSUME RoomAssumption ==
    /\ PayloadMax \in Nat
    /\ \A src \in Sources :
          2 + 5 * Units(IntBytes * ByteBits, GroupBits) + Len(SourceText(src)) <= PayloadMax

\* custody_signal_encode.
SignalEncode(sig) ==
    LET num == [sig.num EXCEPT !["src_endpoint_id_len"] = WordOf(Len(SourceText(sig.src)))]
    IN  <<sig.type_and_flag, sig.status>>
        \o EncodedFields(num, Times \o <<"src_endpoint_id_len">>)
        \o SourceText(sig.src)

\* strtok with ":": what is left of a text without the colons in front, and the
\* text up to the next colon.
SkipColons(text) ==
    LET first == SelectInSeq(text, LAMBDA b : b # Colon)
    IN  IF first = 0 THEN <<>> ELSE SubSeq(text, first, Len(text))

\* Mutant of Token: as strsep, which does not skip separators in front.
TokenUnskipped(text) ==
    LET end == SelectInSeq(text, LAMBDA b : b = Colon)
    IN  IF end = 0 THEN text ELSE SubSeq(text, 1, end - 1)

Token(text) ==
    LET rest == SkipColons(text)
        end == SelectInSeq(rest, LAMBDA b : b = Colon)
    IN  IF end = 0 THEN rest ELSE SubSeq(rest, 1, end - 1)

AfterToken(text) ==
    SubSeq(SkipColons(text), Len(Token(text)) + 1, Len(SkipColons(text)))

\* custody_signal_decode: num and src of the struct whose payload is filled.
SignalDecode(sig) ==
    LET head == Take(sig.payload, [num |-> sig.num, at |-> 2, ok |-> TRUE],
                     Times \o <<"src_endpoint_id_len">>)
        rest == SubSeq(sig.payload, head.at + 1, PayloadMax)
        text == SubSeq(rest, 1, SelectInSeq(rest, LAMBDA b : b = 0) - 1)
    IN  [sig EXCEPT !.type_and_flag = sig.payload[1],
                    !.status = sig.payload[2],
                    !.num = head.num,
                    !.src = <<Token(text), Token(AfterToken(text))>>]

-----------------------------------------------------------------------------
VARIABLES
    bundle,     \* key and source of the bundle the signal is for
    wire,       \* the payload on its way, <<>> if there is none
    sig,        \* the struct the signal was decoded into
    before,     \* the integers of that struct before (history)
    deleted     \* the keys bpd_bundle_list_delete was last called with

vars == <<bundle, wire, sig, before, deleted>>

Struct(fill) ==
    [type_and_flag |-> fill, status |-> fill,
     num |-> [f \in Fields |-> [i \in 1..IntBytes |-> fill]],
     src |-> << <<>>, <<>> >>,
     payload |-> [i \in 1..PayloadMax |-> fill]]

Init ==
    /\ bundle \in [key : Keys, src : Sources]
    /\ wire = <<>>
    /\ \E fill \in Fills : sig = Struct(fill)
    /\ before = sig.num
    /\ deleted = {}

\* What the last call left in the receiver's stack is memory like any other.
SendSignal(key, src, now, fill) ==
    /\ wire = <<>>
    /\ bundle' = [key |-> key, src |-> src]
    /\ wire' = SignalEncode(
           [Struct(fill) EXCEPT
               !.type_and_flag = ClearFlag(SetType(@, CustodySignalType)),
               !.status = SetSucceeded(@),
               !.num = [@ EXCEPT !["time_of_signal_sec"] = now[1],
                                 !["time_of_signal_nsec"] = now[2],
                                 !["creation_time"] = key[1],
                                 !["creation_sequence_number"] = key[2]],
               !.src = src])
    /\ sig' = Struct(fill)
    /\ before' = sig'.num
    /\ deleted' = {}

\* bpd_process_admin_record does not look at the type: bpd_forward has seen
\* that the bundle is an administrative record.
ProcessAdminRecord(fill) ==
    /\ wire # <<>>
    /\ sig' = SignalDecode([Struct(fill) EXCEPT !.payload = Overwrite(@, wire)])
    /\ before' = Struct(fill).num
    /\ deleted' = IF IsSucceeded(sig'.status)
                  THEN {<<sig'.num["creation_time"], sig'.num["creation_sequence_number"]>>}
                  ELSE {}
    /\ wire' = <<>>
    /\ UNCHANGED bundle

Next ==
    \/ \E key \in Keys, src \in Sources, now \in Moments, fill \in Fills :
           SendSignal(key, src, now, fill)
    \/ \E fill \in Fills : ProcessAdminRecord(fill)

Spec == Init /\ [][Next]_vars

-----------------------------------------------------------------------------
\* The n-th number in the record on the wire: bytes up to one without the
\* continuation bit, after the octets of type and status.
LastOf(n) ==
    LET ends == {i \in 3..Len(wire) : wire[i] < Cont}
    IN  CHOOSE i \in ends : Cardinality({j \in ends : j <= i}) = n
FirstOf(n) == IF n = 1 THEN 3 ELSE LastOf(n - 1) + 1

\* The binary places that are 1 in the n-th number, and in a word.
PlacesOnWire(n) ==
    {p \in (FirstOf(n)..LastOf(n)) \X (1..GroupBits) : Bit(wire[p[1]], p[2]) = 1}
PlacesSaid(n) == {(LastOf(n) - p[1]) * GroupBits + GroupBits - p[2] : p \in PlacesOnWire(n)}
PlacesOf(w) ==
    {(p[1] - 1) * ByteBits + ByteBits - 1 - p[2] :
        p \in {q \in (1..IntBytes) \X (0..ByteBits-1) : Bit(w[q[1]], q[2]) = 1}}

\* The record says which bundle is meant in the format's own terms: the groups of
\* a number, without the continuation bits, are its binary digits and nothing but
\* zeros in front, so that any reader gets the key (bundle.c 332-417).
EncodesTheKey ==
    wire # <<>> => /\ PlacesSaid(3) = PlacesOf(bundle.key[1])
                   /\ PlacesSaid(4) = PlacesOf(bundle.key[2])

\* What a word holds after the bytes of another were written over it.
Over(old, new) == [i \in 1..IntBytes |-> IF i <= Width(new) THEN new[i] ELSE old[i]]

\* A signal makes its receiver delete exactly one key: that of the bundle,
\* under whatever high bytes the receiver's stack held; so the key itself if
\* the integers were clear or the numbers need all their bytes
\* (bpd_bundle_list.c 292-296, bpd.c 41-52, bundle.c 1195-1241).
DeletesTheKey ==
    [][wire # <<>> =>
           deleted' = {<<Over(before'["creation_time"], bundle.key[1]),
                         Over(before'["creation_sequence_number"], bundle.key[2])>>}]_vars

\* However the sender's stack looked, the record on the wire is a custody
\* signal, without the fragment flag, that says "succeeded"
\* (bpd_bundle_list.c 281-284, bundle.c 939-949, 1024-1028).
SignalsSucceed ==
    wire # <<>> => TypeOf(wire[1]) = CustodySignalType /\ FlagOf(wire[1]) = 0
                   /\ IsSucceeded(wire[2])

\* The source endpoint survives the text form scheme ":" ssp if neither part
\* has a colon in it (bundle.c 1231-1235).
SourceArrives ==
    [][wire # <<>> /\ (\A i \in 1..2 : ~Contains(bundle.src[i], Colon))
           => sig'.src = bundle.src]_vars
=============================================================================
