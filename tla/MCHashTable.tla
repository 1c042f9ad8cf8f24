----------------------------- MODULE MCHashTable -----------------------------
(***************************************************************************)
(* Small instances of HashTable for TLC: keys of bundles and digests whose *)
(* slots, among the 1024 of both tables, the daemon's hash function finds. *)
(***************************************************************************)
EXTENDS HashTable, HashSlot, TLC

CONSTANTS k1, k2, k3

MAXSLOTS == 1024

\* The hash of "", "a" and "foobar" in test_fnv.c.
ASSUME KnownHashes ==
    /\ fnv_32a_buf(<<>>, FNV1_32A_INIT) = <<33052, 40389>>
    /\ fnv_32a_buf(<<97>>, FNV1_32A_INIT) = <<58380, 10540>>
    /\ fnv_32a_buf(<<102, 111, 111, 98, 97, 114>>, FNV1_32A_INIT) = <<49052, 63848>>

\* Creation time, which has been above 500000000 seconds for long, and sequence
\* number: k1 and k2 have the number in common.
Octets ==
    (k1 :> <<1, 101, 205, 29, 37, 0, 0, 0>>) @@ (k2 :> <<4, 101, 205, 29, 37, 0, 0, 0>>)
    @@ (k3 :> <<0, 101, 205, 29, 5, 0, 0, 0>>)

\* Digests of SHA_DIGEST_LENGTH octets.
DigestOf(first) ==
    [i \in 1..20 |-> IF i <= Len(first) THEN first[i]
                     ELSE (7 * (i - Len(first) - 1) + first[Len(first)]) % 256]

DigestOctets ==
    (k1 :> DigestOf(<<77, 200, 5, 9, 2>>)) @@ (k2 :> DigestOf(<<77, 200, 5, 9, 4>>))
    @@ (k3 :> DigestOf(<<77, 200, 5, 9, 9>>))

SlotsOf(keys) == [k \in Key |-> HashFunc(keys[k], MAXSLOTS)]
OfKeys == SlotsOf(Octets)
OfDigests == SlotsOf(DigestOctets)
MCHash == IF Shared THEN OfDigests ELSE OfKeys

\* Two of the three share a slot.
ASSUME SlotsCollide == MCHash[k1] = MCHash[k2] /\ MCHash[k1] # MCHash[k3]

\* No operation looks at another slot.
MCSlot == {MCHash[k] : k \in Key}

\* Memory that malloc returns: cleared, in other use before, or a freed entry.
AnyPointer == Cell \cup {NULL, Wild}
NoEntry == {NULL, Wild}
Cleared == {NULL}

\* Cells are only compared for equality.
Symmetry == Permutations(Cell)

=============================================================================
