----------------------------- MODULE StaleBytes -----------------------------
(***************************************************************************)
(* Sequence numbers as sdnv_decode reads them.  It writes only as many     *)
(* bytes as the value needs, so the bytes above them keep what the integer *)
(* held before.                                                            *)
(***************************************************************************)
EXTENDS Integers

CONSTANTS
    SeqSpan,    \* creation_sequence_number_counter is an int modulo SeqSpan
    Widths      \* SeqSpan's byte boundaries: {2^8, 2^16, 2^24, 2^32} in the code

ASSUME WidthAssumption ==
    /\ SeqSpan \in Nat \ {0}
    /\ Widths \subseteq Nat \ {0}
    /\ SeqSpan \in Widths
    /\ \A w \in Widths : SeqSpan % w = 0
\* Each boundary is a whole number of the smaller ones.
ASSUME BoundaryAssumption ==
    \A v, w \in Widths : v <= w => w % v = 0

Number == 0..SeqSpan-1

FitsIn(v) == {w \in Widths : v < w}

ByteWidth(v) == CHOOSE w \in FitsIn(v) : \A x \in FitsIn(v) : w <= x

\* Mutant of Overlay: no byte is written.
OverlayNothing(old, v) == old

Overlay(old, v) == (old \div ByteWidth(v)) * ByteWidth(v) + v

\* r may be what is left of v after it has been decoded, any number of times:
\* the bytes that v needs are v's.
ReadAs(v, r) == r % ByteWidth(v) = v
=============================================================================
