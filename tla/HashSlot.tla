------------------------------- MODULE HashSlot -------------------------------
(***************************************************************************)
(* The slot of a hash table that a key goes to: FNV-1a over the octets of  *)
(* the key, folded to the number of slots.                                 *)
(***************************************************************************)
EXTENDS Integers, Sequences, Bitwise

\* A word of 32 bits is its two halves, <<high, low>>.
Half == 2^16

FNV1_32A_INIT == <<33052, 40389>> \* 0x811c9dc5

Plus(v, w) ==
    <<(v[1] + w[1] + (v[2] + w[2]) \div Half) % Half, (v[2] + w[2]) % Half>>

LeftShift(w, k) ==
    IF k < 16 THEN <<(w[1] * 2^k + w[2] \div 2^(16 - k)) % Half, (w[2] * 2^k) % Half>>
    ELSE <<(w[2] * 2^(k - 16)) % Half, 0>>

\* w >>= k, for k < 16.
RightShift(w, k) == <<w[1] \div 2^k, (w[1] % 2^k) * 2^(16 - k) + w[2] \div 2^k>>

XorOctet(w, o) == <<w[1], w[2] ^^ o>>

\* The prime as its bits: hval += (hval<<1) + (hval<<4) + ...
TimesPrime(w) ==
    Plus(w, Plus(LeftShift(w, 1), Plus(LeftShift(w, 4), Plus(LeftShift(w, 7),
            Plus(LeftShift(w, 8), LeftShift(w, 24))))))

fnv_32a_buf(buf, init) ==
    LET hval[i \in 0..Len(buf)] ==
            IF i = 0 THEN init ELSE TimesPrime(XorOctet(hval[i - 1], buf[i]))
    IN  hval[Len(buf)]

-----------------------------------------------------------------------------
hashtable_is2power(n) == n & (n - 1) = 0

hashtable_log2(n) == CHOOSE e \in 0..30 : 2^e <= n /\ n < 2^(e + 1)

\* The upper bits are and-ed to the lower ones, so few hashes lead to a slot
\* whose number has many ones.
Fold(hash, nslots) ==
    IF hashtable_is2power(nslots)
    THEN LET nbits == hashtable_log2(nslots)
         IN  (RightShift(hash, nbits)[2] & hash[2]) & (2^nbits - 1)
    ELSE ((hash[1] % nslots) * (Half % nslots) + hash[2]) % nslots

\* bundle_list_hashfunc and replica_list_hashfunc.
HashFunc(key, nslots) == Fold(fnv_32a_buf(key, FNV1_32A_INIT), nslots)
=============================================================================
