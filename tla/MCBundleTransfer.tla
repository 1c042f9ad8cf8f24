-------------------------- MODULE MCBundleTransfer --------------------------
(***************************************************************************)
(* Bytes of four bits and integers of two bytes: an offset or a length has *)
(* a second byte from 16 on.                                               *)
(***************************************************************************)
EXTENDS BundleTransfer

\* Without custodian and with one; short names, and long ones.
Short == << <<1>>, <<2>>, <<1>>, <<3>>, <<>>, <<>> >>
Long == << <<1, 1, 1>>, <<2>>, <<1, 1>>, <<3, 2, 1>>, <<>>, <<>> >>

MCNames == {Short \o << <<>>, <<>> >>, Short \o << <<1>>, <<4>> >>,
            Long \o << <<>>, <<>> >>, Long \o << <<1>>, <<4, 4>> >>}

\* A creation time takes all bytes, as since the year 2000 in the code.
MCTimes == {<<4, 1>>}
MCNumbers == {<<5, 0>>, <<0, 2>>}
MCPayloads == {<<7>>, [i \in 1..28 |-> i % 16]}
=============================================================================
