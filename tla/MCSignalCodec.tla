--------------------------- MODULE MCSignalCodec ---------------------------
(***************************************************************************)
(* Sequence numbers around those at which the number of bytes or of groups *)
(* changes, and some with zero bytes inside; times of one and of four      *)
(* bytes; sources with and without a colon in them.                        *)
(***************************************************************************)
EXTENDS SignalCodec

Edges == {[i \in 1..IntBytes |-> IF i < k THEN 255 ELSE IF i = k THEN b ELSE 0] :
             k \in 1..IntBytes, b \in {0, 1, 15, 16, 127, 128}}
         \cup {<<0, 1, 0, 0>>, <<0, 0, 1, 0>>, <<5, 0, 0, 16>>, <<255, 255, 255, 255>>}

MCKeys == {<< <<4, 3, 2, 32>>, n >> : n \in Edges}
          \cup {<< t, <<5, 0, 0, 0>> >> : t \in {<<4, 0, 0, 1>>, <<33, 0, 0, 0>>}}

MCMoments == {<< <<0, 0, 0, 33>>, <<255, 201, 154, 59>> >>}

MCSources == {<< <<100, 116>>, <<115>> >>, << <<100>>, <<47, 58, 49>> >>}
=============================================================================
