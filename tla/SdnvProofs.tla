----------------------------- MODULE SdnvProofs -----------------------------
(***************************************************************************)
(* What the SDNV operators compute, for integers and bytes of any size.    *)
(* Induction is by sets: a set of numbers that holds 0 and with each       *)
(* number the next holds all.                                              *)
(***************************************************************************)
EXTENDS Sdnv, FiniteSetTheorems, FunctionTheorems, SequenceTheorems,
        WellFoundedInduction, TLAPS

LEMMA LeastNumber ==
    ASSUME NEW T \in SUBSET Nat, T # {}
    PROVE  \E i \in T : \A j \in T : i <= j
<1>1. PICK i \in T : \A j \in T : ~(<<j, i>> \in OpToRel(<, Nat))
    BY NatLessThanWellFounded, WFMin
<1>2. ASSUME NEW j \in Nat, j < i PROVE <<j, i>> \in OpToRel(<, Nat)
    <2>1. <<j, i>> \in Nat \X Nat /\ <<j, i>>[1] = j /\ <<j, i>>[2] = i
        OBVIOUS
    <2>. QED
        BY <1>2, <2>1, Zenon DEF OpToRel
<1>3. \A j \in T : ~(j < i)
    BY <1>1, <1>2
<1>. QED
    BY <1>3

LEMMA SetInduction ==
    ASSUME NEW T, 0 \in T, \A n \in Nat : n \in T => n + 1 \in T
    PROVE  Nat \subseteq T
<1>. DEFINE Missing == {n \in Nat : n \notin T}
<1>1. SUFFICES ASSUME Missing # {} PROVE FALSE
    OBVIOUS
<1>2. PICK n \in Missing : \A j \in Missing : n <= j
    BY <1>1, LeastNumber
<1>3. n \in Nat /\ n # 0 /\ n \notin T
    OBVIOUS
<1>4. n - 1 \in Nat /\ n - 1 \in T
    BY <1>2, <1>3
<1>5. (n - 1) + 1 \in T
    BY <1>4
<1>. QED
    BY <1>3, <1>5

\* The largest element of a set of numbers with a bound.
LEMMA MaxOf ==
    ASSUME NEW T \in SUBSET Nat, T # {}, NEW n \in Nat, \A i \in T : i <= n
    PROVE  Max(T) \in T /\ \A i \in T : i <= Max(T)
<1>. DEFINE G == {n - i : i \in T}
<1>1. G \in SUBSET Nat /\ G # {}
    <2>1. \A i \in T : i \in Nat /\ n - i \in Nat
        OBVIOUS
    <2>. QED
        BY <2>1
<1>2. PICK g \in G : \A h \in G : g <= h
    BY <1>1, LeastNumber
<1>3. PICK m \in T : g = n - m
    OBVIOUS
<1>4. ASSUME NEW i \in T PROVE m >= i
    <2>1. n - i \in G /\ i \in Nat /\ m \in Nat
        OBVIOUS
    <2>2. n - m <= n - i
        BY <1>2, <1>3, <2>1
    <2>. QED
        BY <2>1, <2>2
<1>. QED
    BY <1>4 DEF Max

LEMMA MinOf ==
    ASSUME NEW T \in SUBSET Nat, T # {}
    PROVE  Min(T) \in T /\ \A i \in T : Min(T) <= i
    BY LeastNumber DEF Min

LEMMA MaxIs ==
    ASSUME NEW T \in SUBSET Nat, NEW m \in T, \A i \in T : i <= m
    PROVE  Max(T) = m
<1>1. m \in Nat
    OBVIOUS
<1>2. Max(T) \in T /\ \A i \in T : i <= Max(T)
    BY <1>1, MaxOf
<1>3. Max(T) \in Nat /\ m <= Max(T) /\ Max(T) <= m
    BY <1>2
<1>. QED
    BY <1>1, <1>3

LEMMA MinIs ==
    ASSUME NEW T \in SUBSET Nat, NEW m \in T, \A i \in T : m <= i
    PROVE  Min(T) = m
<1>1. Min(T) \in T /\ \A i \in T : Min(T) <= i
    BY MinOf
<1>2. m \in Nat /\ Min(T) \in Nat /\ m <= Min(T) /\ Min(T) <= m
    BY <1>1
<1>. QED
    BY <1>2

-----------------------------------------------------------------------------
(***************************************************************************)
(* Powers of two: the library knows them as numbers of subsets.            *)
(***************************************************************************)
LEMMA PowerOfSubsets ==
    ASSUME NEW n \in Nat
    PROVE  /\ IsFiniteSet(1..n) /\ IsFiniteSet(SUBSET (1..n))
           /\ Cardinality(SUBSET (1..n)) = 2^n /\ 2^n \in Nat
<1>1. IsFiniteSet(1..n) /\ Cardinality(1..n) = n
    BY FS_Interval
<1>2. IsFiniteSet(SUBSET (1..n)) /\ Cardinality(SUBSET (1..n)) = 2^n
    BY <1>1, FS_SUBSET
<1>. QED
    BY <1>1, <1>2, FS_CardinalityType

LEMMA PowerDoubles ==
    ASSUME NEW n \in Nat
    PROVE  2^(n + 1) = 2 * 2^n
<1>. DEFINE A == SUBSET (1..n)
            B == {a \cup {n + 1} : a \in A}
            f == [a \in A |-> a \cup {n + 1}]
<1>1. n + 1 \in Nat /\ n + 1 \notin 1..n /\ 1..n+1 = (1..n) \cup {n + 1}
    OBVIOUS
<1>2. SUBSET (1..n+1) = A \cup B
    <2>1. ASSUME NEW s \in SUBSET (1..n+1), n + 1 \in s PROVE s \in B
        <3>1. s \ {n + 1} \in A /\ s = (s \ {n + 1}) \cup {n + 1}
            BY <1>1, <2>1
        <3>. QED
            BY <3>1
    <2>2. ASSUME NEW s \in SUBSET (1..n+1), n + 1 \notin s PROVE s \in A
        BY <1>1, <2>2
    <2>3. ASSUME NEW s \in A \cup B PROVE s \in SUBSET (1..n+1)
        BY <1>1, <2>3
    <2>. QED
        BY <2>1, <2>2, <2>3
<1>3. A \cap B = {}
    BY <1>1
<1>4. f \in Bijection(A, B)
    <2>1. \A a, c \in A : f[a] = f[c] => a = c
        <3>1. SUFFICES ASSUME NEW a \in A, NEW c \in A, a \cup {n + 1} = c \cup {n + 1}
                       PROVE  a = c
            OBVIOUS
        <3>2. n + 1 \notin a /\ n + 1 \notin c
            BY <1>1
        <3>. QED
            BY <3>1, <3>2
    <2>2. f \in [A -> B] /\ \A b \in B : \E a \in A : f[a] = b
        OBVIOUS
    <2>. QED
        BY <2>1, <2>2 DEF Bijection, Injection, Surjection, IsInjective
<1>. HIDE DEF f
<1>5. IsFiniteSet(B) /\ Cardinality(B) = Cardinality(A)
    <2>1. ExistsBijection(A, B)
        BY <1>4 DEF ExistsBijection
    <2>. QED
        BY <2>1, PowerOfSubsets, FS_Bijection
<1>. HIDE DEF A, B
<1>6. IsFiniteSet(A) /\ Cardinality(A) = 2^n /\ 2^n \in Nat
    BY PowerOfSubsets DEF A
<1>7. Cardinality(A \cup B) = Cardinality(A) + Cardinality(B) - Cardinality(A \cap B)
    BY <1>5, <1>6, FS_Union
<1>8. Cardinality(A \cup B) = 2^(n + 1)
    BY <1>1, <1>2, PowerOfSubsets
<1>. QED
    BY <1>3, <1>5, <1>6, <1>7, <1>8, FS_EmptySet

LEMMA PowerPositive ==
    ASSUME NEW n \in Nat
    PROVE  2^n \in Nat \ {0}
<1>. DEFINE T == {k \in Nat : 2^k # 0}
<1>1. 0 \in T
    <2>1. 2^0 = 1
        OBVIOUS
    <2>. QED
        BY <2>1
<1>2. \A k \in Nat : k \in T => k + 1 \in T
    BY PowerDoubles, PowerOfSubsets
<1>3. n \in T
    BY <1>1, <1>2, SetInduction
<1>. QED
    BY <1>3, PowerOfSubsets

LEMMA PowerGrows ==
    ASSUME NEW m \in Nat, NEW n \in Nat, m < n
    PROVE  2^m < 2^n
<1>. DEFINE T == {k \in Nat : 2^m < 2^(m + 1 + k)}
<1>1. 0 \in T
    <2>1. 2^(m + 1) = 2 * 2^m /\ 2^m \in Nat \ {0} /\ m + 1 + 0 = m + 1
        BY PowerDoubles, PowerPositive
    <2>. QED
        BY <2>1
<1>2. ASSUME NEW k \in Nat, k \in T PROVE k + 1 \in T
    <2>. DEFINE p == m + 1 + k
    <2>1. p \in Nat /\ m + 1 + (k + 1) = p + 1
        OBVIOUS
    <2>2. 2^(p + 1) = 2 * 2^p /\ 2^p \in Nat \ {0} /\ 2^m \in Nat
        BY <2>1, PowerDoubles, PowerPositive
    <2>3. 2^m < 2^p
        BY <1>2
    <2>4. 2^m < 2^(p + 1)
        BY <2>2, <2>3
    <2>. QED
        BY <2>1, <2>4
<1>3. n - m - 1 \in T
    <2>1. Nat \subseteq T
        <3>. HIDE DEF T
        <3>. QED
            BY <1>1, <1>2, SetInduction
    <2>. QED
        BY <2>1
<1>4. m + 1 + (n - m - 1) = n
    OBVIOUS
<1>. QED
    BY <1>3, <1>4

-----------------------------------------------------------------------------
(***************************************************************************)
(* NumberOf, digit by digit.                                               *)
(***************************************************************************)
\* The fold is over sets of positions, the largest one last.
FoldsBits(g, m, bits) ==
    g = [s \in SUBSET (1..m) |->
            IF s = {} THEN 0 ELSE 2 * g[s \ {Max(s)}] + bits[Max(s)]]

LEMMA LargestPosition ==
    ASSUME NEW m \in Nat, NEW s \in SUBSET (1..m), s # {}
    PROVE  Max(s) \in s /\ \A i \in s : i <= Max(s)
<1>1. s \in SUBSET Nat /\ \A i \in s : i <= m
    OBVIOUS
<1>. QED
    BY <1>1, MaxOf

LEMMA BitsCanBeFolded ==
    ASSUME NEW bits, NEW n \in Nat
    PROVE  \E g : FoldsBits(g, n, bits)
<1>. DEFINE T == {m \in Nat : \E g : FoldsBits(g, m, bits)}
<1>1. 0 \in T
    <2>. DEFINE g == [s \in SUBSET (1..0) |-> 0]
    <2>1. \A s \in SUBSET (1..0) : s = {}
        OBVIOUS
    <2>2. FoldsBits(g, 0, bits)
        BY <2>1 DEF FoldsBits
    <2>. QED
        BY <2>2
<1>2. ASSUME NEW m \in Nat, m \in T PROVE m + 1 \in T
    <2>1. PICK g : FoldsBits(g, m, bits)
        BY <1>2
    <2>. DEFINE h == [s \in SUBSET (1..m+1) |->
                        IF m + 1 \in s THEN 2 * g[s \ {m + 1}] + bits[m + 1] ELSE g[s]]
    <2>2. ASSUME NEW s \in SUBSET (1..m+1)
          PROVE  h[s] = IF s = {} THEN 0 ELSE 2 * h[s \ {Max(s)}] + bits[Max(s)]
        <3>1. CASE m + 1 \in s
            <4>1. s \in SUBSET Nat /\ m + 1 \in Nat /\ \A i \in s : i <= m + 1
                OBVIOUS
            <4>2. Max(s) = m + 1
                BY <3>1, <4>1, MaxIs
            <4>3. s \ {m + 1} \in SUBSET (1..m+1) /\ h[s \ {m + 1}] = g[s \ {m + 1}]
                OBVIOUS
            <4>. QED
                BY <3>1, <4>2, <4>3
        <3>2. CASE m + 1 \notin s
            <4>1. s \in SUBSET (1..m)
                BY <3>2
            <4>2. h[s] = g[s] /\ g[s] = IF s = {} THEN 0 ELSE 2 * g[s \ {Max(s)}] + bits[Max(s)]
                BY <2>1, <3>2, <4>1 DEF FoldsBits
            <4>3. h[s \ {Max(s)}] = g[s \ {Max(s)}]
                BY <3>2
            <4>. QED
                BY <4>2, <4>3
        <3>. QED
            BY <3>1, <3>2
    <2>3. FoldsBits(h, m + 1, bits)
        <3>1. h = [s \in SUBSET (1..m+1) |-> h[s]]
            OBVIOUS
        <3>. HIDE DEF h
        <3>. QED
            BY <2>2, <3>1 DEF FoldsBits
    <2>. QED
        BY <2>3
<1>. HIDE DEF T
<1>3. n \in T
    BY <1>1, <1>2, SetInduction
<1>. QED
    BY <1>3 DEF T

LEMMA NumberByDigits ==
    ASSUME NEW n \in Nat, NEW bits \in [1..n -> 0..1]
    PROVE  \E f \in [0..n -> Nat] :
              /\ f[0] = 0 /\ f[n] = NumberOf(bits)
              /\ \A k \in 1..n : f[k] = 2 * f[k - 1] + bits[k]
<1>. DEFINE g == CHOOSE g : FoldsBits(g, n, bits)
<1>1. FoldsBits(g, n, bits)
    BY BitsCanBeFolded
<1>2. NumberOf(bits) = g[1..n]
    BY DEF NumberOf, FoldLeft, MapThenFoldSet, FoldsBits
<1>. HIDE DEF g
<1>7. \A s \in SUBSET (1..n) : g[s] = IF s = {} THEN 0 ELSE 2 * g[s \ {Max(s)}] + bits[Max(s)]
    BY <1>1, Zenon DEF FoldsBits
<1>. DEFINE f == [k \in 0..n |-> g[1..k]]
<1>3. ASSUME NEW k \in 1..n PROVE f[k] = 2 * f[k - 1] + bits[k]
    <2>1. 1..k \in SUBSET (1..n) /\ 1..k # {} /\ 1..k \in SUBSET Nat /\ k \in 1..k /\ \A i \in 1..k : i <= k
        OBVIOUS
    <2>2. Max(1..k) = k
        BY <2>1, MaxIs
    <2>3. (1..k) \ {k} = 1..k-1
        OBVIOUS
    <2>4. g[1..k] = 2 * g[1..k-1] + bits[k]
        BY <1>7, <2>1, <2>2, <2>3
    <2>5. f[k] = g[1..k] /\ f[k - 1] = g[1..k-1]
        OBVIOUS
    <2>. QED
        BY <2>4, <2>5
<1>4. f[0] = 0 /\ f[n] = NumberOf(bits)
    <2>1. 1..0 = {} /\ 1..0 \in SUBSET (1..n)
        OBVIOUS
    <2>2. f[0] = g[1..0] /\ f[n] = g[1..n]
        OBVIOUS
    <2>. QED
        BY <1>7, <1>2, <2>1, <2>2
<1>. HIDE DEF f
<1>5. ASSUME NEW k \in 0..n PROVE f[k] \in Nat
    <2>. DEFINE T == {j \in Nat : j <= n => f[j] \in Nat}
    <2>1. 0 \in T
        BY <1>4
    <2>2. ASSUME NEW j \in Nat, j \in T PROVE j + 1 \in T
        <3>1. CASE j + 1 <= n
            <4>1. j + 1 \in 1..n /\ (j + 1) - 1 = j /\ f[j] \in Nat
                BY <2>2, <3>1
            <4>2. f[j + 1] = 2 * f[j] + bits[j + 1] /\ bits[j + 1] \in Nat
                BY <1>3, <4>1
            <4>. QED
                BY <4>1, <4>2
        <3>. QED
            BY <3>1
    <2>3. Nat \subseteq T
        <3>. HIDE DEF T
        <3>. QED
            BY <2>1, <2>2, SetInduction
    <2>. QED
        BY <2>3
<1>6. f \in [0..n -> Nat]
    BY <1>5 DEF f
<1>. QED
    BY <1>3, <1>4, <1>6

LEMMA DivideTwice ==
    ASSUME NEW x \in Nat, NEW d \in Nat \ {0}
    PROVE  /\ x \div d \in Nat /\ x \div (2 * d) = (x \div d) \div 2
           /\ 2 * d \in Nat \ {0}
<1>. DEFINE q == x \div d
            p == q \div 2
            a == x % d
            b == q % 2
<1>1. q \in Nat /\ a \in 0..d-1 /\ x = d * q + a
    OBVIOUS
<1>2. p \in Nat /\ b \in 0..1 /\ q = 2 * p + b
    BY <1>1
<1>. DEFINE e == 2 * d
            y == x \div e
            r == x % e
            s == d * b + a
<1>3. e \in Nat \ {0} /\ y \in Nat /\ r \in 0..e-1 /\ x = e * y + r
    <2>1. e \in Nat \ {0}
        OBVIOUS
    <2>. HIDE DEF e
    <2>. QED
        BY <2>1
<1>. HIDE DEF q, p, a, b, y, r
<1>4. s \in 0..e-1
    <2>1. CASE b = 0
        BY <1>1, <2>1
    <2>2. CASE b = 1
        BY <1>1, <2>2
    <2>. QED
        BY <1>2, <2>1, <2>2
<1>5. x = e * p + s
    BY <1>1, <1>2
<1>. HIDE DEF s, e
<1>6. e * (y - p) = s - r
    BY <1>2, <1>3, <1>4, <1>5
<1>7. y - p <= -1 => e * (y - p) <= -e
    BY <1>2, <1>3
<1>8. y - p >= 1 => e * (y - p) >= e
    BY <1>2, <1>3
<1>9. y = p
    BY <1>2, <1>3, <1>4, <1>6, <1>7, <1>8
<1>. QED
    BY <1>1, <1>3, <1>9 DEF y, p, q, e

LEMMA Halves ==
    ASSUME NEW a \in Nat, NEW b \in 0..1
    PROVE  (2 * a + b) \div 2 = a /\ (2 * a + b) % 2 = b
    OBVIOUS

\* The digits of a number are those it was put together of.
LEMMA DigitsOfNumber ==
    ASSUME NEW n \in Nat, NEW bits \in [1..n -> 0..1]
    PROVE  /\ NumberOf(bits) \in 0..2^n - 1
           /\ \A j \in 1..n : (NumberOf(bits) \div 2^(n - j)) % 2 = bits[j]
<1>1. PICK f \in [0..n -> Nat] :
            /\ f[0] = 0 /\ f[n] = NumberOf(bits)
            /\ \A k \in 1..n : f[k] = 2 * f[k - 1] + bits[k]
    BY NumberByDigits
<1>2. ASSUME NEW k \in 1..n
      PROVE  f[k] \div 2 = f[k - 1] /\ f[k] % 2 = bits[k]
    <2>1. f[k] = 2 * f[k - 1] + bits[k] /\ f[k - 1] \in Nat /\ bits[k] \in 0..1
        BY <1>1
    <2>2. PICK a \in Nat, b \in 0..1 : a = f[k - 1] /\ b = bits[k]
        BY <2>1
    <2>3. (2 * a + b) \div 2 = a /\ (2 * a + b) % 2 = b
        BY Halves
    <2>. QED
        BY <2>1, <2>2, <2>3
<1>3. \A m \in Nat : m <= n => f[n] \div 2^m = f[n - m]
    <2>. DEFINE T == {m \in Nat : m <= n => f[n] \div 2^m = f[n - m]}
    <2>1. 0 \in T
        <3>1. f[n] \in Nat /\ n - 0 = n /\ 2^0 = 1
            OBVIOUS
        <3>. QED
            BY <3>1
    <2>2. ASSUME NEW m \in Nat, m \in T PROVE m + 1 \in T
        <3>1. CASE m + 1 <= n
            <4>1. f[n] \div 2^m = f[n - m] /\ n - m \in 1..n /\ f[n] \in Nat
                BY <2>2, <3>1
            <4>2. 2^(m + 1) = 2 * 2^m /\ 2^m \in Nat \ {0}
                BY PowerDoubles, PowerPositive
            <4>3. f[n] \div (2 * 2^m) = (f[n] \div 2^m) \div 2
                BY <4>1, <4>2, DivideTwice
            <4>4. f[n - m] \div 2 = f[(n - m) - 1]
                BY <1>2, <4>1
            <4>5. (n - m) - 1 = n - (m + 1)
                OBVIOUS
            <4>6. f[n] \div 2^(m + 1) = f[n - (m + 1)]
                BY <4>1, <4>2, <4>3, <4>4, <4>5
            <4>. QED
                BY <4>6
        <3>. QED
            BY <3>1
    <2>3. Nat \subseteq T
        <3>. HIDE DEF T
        <3>. QED
            BY <2>1, <2>2, SetInduction
    <2>. QED
        BY <2>3
<1>4. ASSUME NEW j \in 1..n
      PROVE  (NumberOf(bits) \div 2^(n - j)) % 2 = bits[j]
    <2>1. n - j \in Nat /\ n - j <= n /\ n - (n - j) = j
        OBVIOUS
    <2>2. f[n] \div 2^(n - j) = f[j]
        BY <1>3, <2>1
    <2>. QED
        BY <1>1, <1>2, <2>2
<1>5. NumberOf(bits) \in 0..2^n - 1
    <2>. DEFINE p == 2^n
                x == f[n]
    <2>1. x \div p = 0
        BY <1>1, <1>3
    <2>2. p \in Nat \ {0} /\ x \in Nat
        BY PowerPositive
    <2>. HIDE DEF p, x
    <2>3. x < p
        BY <2>1, <2>2
    <2>. QED
        BY <1>1, <2>2, <2>3 DEF p, x
<1>. QED
    BY <1>4, <1>5

LEMMA TopDigit ==
    ASSUME NEW n \in Nat, NEW bits \in [1..n -> 0..1], NEW t \in 0..1
    PROVE  NumberOf([j \in 1..n+1 |-> IF j = 1 THEN t ELSE bits[j - 1]])
              = t * 2^n + NumberOf(bits)
<1>. DEFINE c == [j \in 1..n+1 |-> IF j = 1 THEN t ELSE bits[j - 1]]
<1>1. c \in [1..n+1 -> 0..1] /\ n + 1 \in Nat
    <2>1. \A j \in 1..n+1 : j # 1 => j - 1 \in 1..n
        OBVIOUS
    <2>. QED
        BY <2>1
<1>2. c[1] = t /\ \A k \in 1..n : c[k + 1] = bits[k]
    <2>1. 1 \in 1..n+1 /\ \A k \in 1..n : k + 1 \in 1..n+1 /\ k + 1 # 1 /\ (k + 1) - 1 = k
        OBVIOUS
    <2>. QED
        BY <2>1
<1>. HIDE DEF c
<1>3. PICK f \in [0..n -> Nat] :
            /\ f[0] = 0 /\ f[n] = NumberOf(bits)
            /\ \A k \in 1..n : f[k] = 2 * f[k - 1] + bits[k]
    BY NumberByDigits
<1>4. PICK g \in [0..n+1 -> Nat] :
            /\ g[0] = 0 /\ g[n + 1] = NumberOf(c)
            /\ \A k \in 1..n+1 : g[k] = 2 * g[k - 1] + c[k]
    BY <1>1, NumberByDigits
<1>. DEFINE T == {k \in Nat : k <= n => g[k + 1] = t * 2^k + f[k]}
<1>5. 0 \in T
    <2>1. g[1] = 2 * g[1 - 1] + c[1] /\ 1 - 1 = 0 /\ 2^0 = 1 /\ 0 + 1 = 1
        BY <1>4
    <2>. QED
        BY <1>2, <1>3, <1>4, <2>1
<1>6. ASSUME NEW k \in Nat, k \in T PROVE k + 1 \in T
    <2>1. CASE k + 1 <= n
        <3>1. k + 1 \in 1..n /\ (k + 1) + 1 \in 1..n+1 /\ (k + 1) - 1 = k /\ ((k + 1) + 1) - 1 = k + 1
            BY <2>1
        <3>2. g[(k + 1) + 1] = 2 * g[k + 1] + bits[k + 1]
            BY <1>2, <1>4, <3>1
        <3>3. f[k + 1] = 2 * f[k] + bits[k + 1]
            BY <1>3, <3>1
        <3>4. g[k + 1] = t * 2^k + f[k]
            BY <1>6, <2>1
        <3>5. 2^(k + 1) = 2 * 2^k /\ 2^k \in Nat
            BY PowerDoubles, PowerPositive
        <3>6. bits[k + 1] \in Nat /\ f[k] \in Nat
            <4>1. k \in 0..n
                BY <3>1
            <4>2. bits[k + 1] \in 0..1
                BY <3>1
            <4>. QED
                BY <4>1, <4>2
        <3>7. g[(k + 1) + 1] = t * 2^(k + 1) + f[k + 1]
            <4>. DEFINE P == 2^k
            <4>. HIDE DEF P
            <4>1. P \in Nat /\ 2^(k + 1) = 2 * P /\ g[k + 1] = t * P + f[k]
                BY <3>4, <3>5 DEF P
            <4>2. CASE t = 0
                BY <3>2, <3>3, <3>6, <4>1, <4>2
            <4>3. CASE t = 1
                <5>1. g[k + 1] = P + f[k]
                    BY <3>6, <4>1, <4>3
                <5>2. t * 2^(k + 1) = 2 * P
                    BY <4>1, <4>3
                <5>3. \A a, b \in Nat : 2 * (P + a) + b = 2 * P + (2 * a + b)
                    BY <4>1
                <5>4. g[(k + 1) + 1] = 2 * P + f[k + 1]
                    BY <3>2, <3>3, <3>6, <5>1, <5>3
                <5>. QED
                    BY <5>2, <5>4
            <4>. QED
                BY <4>2, <4>3
        <3>. QED
            BY <3>7
    <2>. QED
        BY <2>1
<1>7. n \in T
    <2>. HIDE DEF T
    <2>. QED
        BY <1>5, <1>6, SetInduction
<1>. QED
    BY <1>3, <1>4, <1>7 DEF c

-----------------------------------------------------------------------------
(***************************************************************************)
(* Bytes and their bits.                                                   *)
(***************************************************************************)
LEMMA Sizes ==
    /\ ByteBits \in Nat /\ ByteBits > 1 /\ GroupBits \in Nat \ {0} /\ IntBytes \in Nat \ {0}
    /\ ByteBits = GroupBits + 1
    /\ Cont \in Nat \ {0} /\ 2^ByteBits = 2 * Cont
    /\ Byte = 0..2 * Cont - 1
<1>1. ByteBits \in Nat /\ ByteBits > 1 /\ IntBytes \in Nat \ {0}
    BY BitsAssumption
<1>2. GroupBits \in Nat \ {0} /\ ByteBits = GroupBits + 1
    BY <1>1 DEF GroupBits
<1>3. 2^(GroupBits + 1) = 2 * 2^GroupBits /\ 2^GroupBits \in Nat \ {0}
    BY <1>2, PowerDoubles, PowerPositive
<1>. QED
    BY <1>1, <1>2, <1>3 DEF Cont, Byte

LEMMA BitIsBit ==
    ASSUME NEW b \in Byte, NEW i \in 0..ByteBits-1
    PROVE  Bit(b, i) \in 0..1
<1>1. ByteBits - 1 - i \in Nat /\ b \in Nat
    BY Sizes
<1>2. 2^(ByteBits - 1 - i) \in Nat \ {0}
    BY <1>1, PowerPositive
<1>3. b \div 2^(ByteBits - 1 - i) \in Nat
    BY <1>1, <1>2, DivideTwice
<1>. QED
    BY <1>3 DEF Bit

LEMMA ByteOfBits ==
    ASSUME NEW c \in [1..ByteBits -> 0..1]
    PROVE  /\ NumberOf(c) \in Byte
           /\ \A j \in 1..ByteBits : Bit(NumberOf(c), j - 1) = c[j]
<1>1. NumberOf(c) \in 0..2^ByteBits - 1
    BY Sizes, DigitsOfNumber
<1>2. ASSUME NEW j \in 1..ByteBits PROVE Bit(NumberOf(c), j - 1) = c[j]
    <2>1. (NumberOf(c) \div 2^(ByteBits - j)) % 2 = c[j]
        BY Sizes, DigitsOfNumber
    <2>2. ByteBits - 1 - (j - 1) = ByteBits - j
        BY Sizes
    <2>. QED
        BY <2>1, <2>2 DEF Bit
<1>. QED
    BY <1>1, <1>2 DEF Byte

LEMMA BitsOfByte ==
    ASSUME NEW b \in Byte
    PROVE  NumberOf([j \in 1..ByteBits |-> Bit(b, j - 1)]) = b
<1>. DEFINE n == ByteBits
            c == [j \in 1..n |-> Bit(b, j - 1)]
<1>1. n \in Nat /\ b \in Nat
    BY Sizes
<1>2. c \in [1..n -> 0..1]
    <2>1. \A j \in 1..n : j - 1 \in 0..n-1
        BY <1>1
    <2>. QED
        BY <2>1, BitIsBit
<1>3. PICK f \in [0..n -> Nat] :
            /\ f[0] = 0 /\ f[n] = NumberOf(c)
            /\ \A k \in 1..n : f[k] = 2 * f[k - 1] + c[k]
    BY <1>1, <1>2, NumberByDigits
<1>4. \A k \in 1..n : c[k] = (b \div 2^(n - k)) % 2
    <2>1. ASSUME NEW k \in 1..n PROVE c[k] = (b \div 2^(n - k)) % 2
        <3>1. n - 1 - (k - 1) = n - k
            BY <1>1
        <3>. QED
            BY <3>1 DEF Bit
    <2>. QED
        BY <2>1
<1>. HIDE DEF c
<1>. DEFINE T == {k \in Nat : k <= n => f[k] = b \div 2^(n - k)}
<1>5. 0 \in T
    <2>. DEFINE P == 2^n
    <2>1. P \in Nat \ {0} /\ b < P
        BY <1>1, Sizes, PowerPositive DEF Byte
    <2>. HIDE DEF P
    <2>2. b \div P = 0
        BY <1>1, <2>1
    <2>3. n - 0 = n
        BY <1>1
    <2>. QED
        BY <1>3, <2>2, <2>3 DEF P
<1>6. ASSUME NEW k \in Nat, k \in T PROVE k + 1 \in T
    <2>1. CASE k + 1 <= n
        <3>. DEFINE m == n - (k + 1)
        <3>1. m \in Nat /\ n - k = m + 1 /\ k + 1 \in 1..n /\ (k + 1) - 1 = k
            BY <1>1, <2>1
        <3>2. 2^(m + 1) = 2 * 2^m /\ 2^m \in Nat \ {0}
            BY <3>1, PowerDoubles, PowerPositive
        <3>3. b \div (2 * 2^m) = (b \div 2^m) \div 2 /\ b \div 2^m \in Nat
            BY <1>1, <3>2, DivideTwice
        <3>4. f[k] = (b \div 2^m) \div 2
            <4>1. k <= n
                BY <1>1, <2>1
            <4>2. f[k] = b \div 2^(n - k)
                BY <1>6, <4>1
            <4>. QED
                BY <3>1, <3>2, <3>3, <4>2
        <3>5. f[k + 1] = 2 * f[k] + ((b \div 2^m) % 2)
            <4>1. f[k + 1] = 2 * f[(k + 1) - 1] + c[k + 1]
                BY <1>3, <3>1
            <4>2. c[k + 1] = (b \div 2^(n - (k + 1))) % 2
                BY <1>4, <3>1
            <4>. QED
                BY <3>1, <4>1, <4>2
        <3>6. \A q \in Nat : 2 * (q \div 2) + (q % 2) = q
            OBVIOUS
        <3>7. f[k + 1] = b \div 2^m
            BY <3>3, <3>4, <3>5, <3>6
        <3>. QED
            BY <3>7
    <2>. QED
        BY <2>1
<1>7. n \in T
    <2>. HIDE DEF T
    <2>. QED
        BY <1>1, <1>5, <1>6, SetInduction
<1>8. f[n] = b \div 2^0
    <2>1. n - n = 0 /\ n <= n
        BY <1>1
    <2>. QED
        BY <1>7, <2>1
<1>. QED
    BY <1>1, <1>3, <1>8 DEF c

\* Digits is the place of the first bit that is 1.
LEMMA DigitsOfByte ==
    ASSUME NEW b \in Byte
    PROVE  /\ Digits(b) \in 0..ByteBits
           /\ \A i \in 0..ByteBits-1 : Bit(b, i) = 1 => ByteBits - Digits(b) <= i
           /\ Digits(b) = 0 <=> b = 0
           /\ Digits(b) > 0 => Bit(b, ByteBits - Digits(b)) = 1
<1>. DEFINE n == ByteBits
            Above == {i \in Nat : b < 2^i}
<1>1. n \in Nat /\ b \in Nat /\ n \in Above /\ Above \in SUBSET Nat /\ n > 1
    BY Sizes, PowerPositive DEF Byte
<1>2. PICK d \in Above : \A i \in Above : d <= i
    BY <1>1, LeastNumber
<1>3. d \in Nat /\ d <= n /\ b < 2^d
    BY <1>1, <1>2
<1>4. \A i \in 0..n-1 : 2^i <= b <=> i < d
    <2>1. ASSUME NEW i \in 0..n-1 PROVE 2^i <= b <=> i < d
        <3>1. i \in Nat /\ 2^i \in Nat /\ 2^d \in Nat
            BY <1>1, <1>3, PowerPositive
        <3>2. i < d => 2^i <= b
            <4>1. SUFFICES ASSUME i < d, ~(2^i <= b) PROVE FALSE
                OBVIOUS
            <4>2. i \in Above
                BY <1>1, <3>1, <4>1
            <4>. QED
                BY <1>2, <1>3, <3>1, <4>1, <4>2
        <3>3. d <= i => ~(2^i <= b)
            <4>1. d < i => 2^d < 2^i
                BY <1>3, <3>1, PowerGrows
            <4>. QED
                BY <1>1, <1>3, <3>1, <4>1
        <3>. QED
            BY <1>3, <3>1, <3>2, <3>3
    <2>. QED
        BY <2>1
<1>5. Digits(b) = d
    <2>1. {i \in 0..n-1 : 2^i <= b} = 0..d-1
        BY <1>1, <1>3, <1>4
    <2>2. Cardinality(0..d-1) = d
        BY <1>3, FS_Interval
    <2>. QED
        BY <2>1, <2>2 DEF Digits
<1>6. ASSUME NEW i \in 0..n-1, Bit(b, i) = 1 PROVE n - d <= i
    <2>. DEFINE m == n - 1 - i
                P == 2^m
    <2>1. m \in 0..n-1 /\ P \in Nat \ {0} /\ (b \div P) % 2 = 1
        BY <1>1, <1>6, PowerPositive DEF Bit
    <2>. HIDE DEF P
    <2>2. b < P => b \div P = 0
        BY <1>1, <2>1
    <2>3. ~(b < P)
        BY <2>1, <2>2
    <2>4. P <= b
        BY <1>1, <2>1, <2>3
    <2>5. m < d
        BY <1>4, <2>1, <2>4 DEF P
    <2>. QED
        BY <1>1, <1>3, <2>5
<1>7. d = 0 <=> b = 0
    <2>1. 2^0 = 1
        OBVIOUS
    <2>2. d = 0 => b = 0
        BY <1>1, <1>3, <2>1
    <2>3. b = 0 => d = 0
        <3>1. SUFFICES ASSUME b = 0, d # 0 PROVE FALSE
            OBVIOUS
        <3>2. 0 \in 0..n-1 /\ 0 < d
            BY <1>1, <1>3, <3>1
        <3>3. 2^0 <= b
            BY <1>4, <3>2
        <3>. QED
            BY <2>1, <3>1, <3>3
    <2>. QED
        BY <2>2, <2>3
<1>8. ASSUME d > 0 PROVE Bit(b, n - d) = 1
    <2>. DEFINE m == d - 1
                P == 2^m
    <2>1. m \in 0..n-1 /\ m < d /\ m + 1 = d
        BY <1>1, <1>3, <1>8
    <2>2. P <= b /\ P \in Nat \ {0} /\ b < 2 * P
        BY <1>3, <1>4, <2>1, PowerDoubles, PowerPositive
    <2>. HIDE DEF P
    <2>3. b \div P = 1
        <3>1. b = P * (b \div P) + (b % P) /\ b % P \in 0..P-1 /\ b \div P \in Nat
            BY <1>1, <2>2
        <3>. DEFINE q == b \div P
        <3>. HIDE DEF q
        <3>2. q \in Nat /\ b < P * q + P
            BY <1>1, <2>2, <3>1 DEF q
        <3>3. q = 0 => b < P
            BY <1>1, <2>2, <3>1 DEF q
        <3>4. q >= 2 => P * q >= 2 * P
            BY <2>2, <3>2
        <3>5. P * q <= b
            BY <1>1, <2>2, <3>1 DEF q
        <3>. QED
            BY <1>1, <2>2, <3>2, <3>3, <3>4, <3>5 DEF q
    <2>4. n - 1 - (n - d) = m
        BY <1>1, <1>3
    <2>. QED
        BY <2>3, <2>4 DEF Bit, P
<1>. QED
    BY <1>1, <1>3, <1>5, <1>6, <1>7, <1>8

\* A byte of an encoding: a mark and a group.
LEMMA MarkedGroup ==
    ASSUME NEW bits \in [1..GroupBits -> 0..1], NEW t \in 0..1
    PROVE  LET b == NumberOf(bits) + t * Cont IN
           /\ b \in Byte /\ (b < Cont <=> t = 0)
           /\ \A j \in 1..GroupBits : Bit(b, j) = bits[j]
           /\ NumberOf(bits) \in 0..Cont - 1 /\ b % Cont = NumberOf(bits)
<1>. DEFINE c == [j \in 1..GroupBits+1 |-> IF j = 1 THEN t ELSE bits[j - 1]]
            g == NumberOf(bits)
            b == g + t * Cont
<1>1. c \in [1..ByteBits -> 0..1]
    <2>1. \A j \in 1..GroupBits+1 : j # 1 => j - 1 \in 1..GroupBits
        BY Sizes
    <2>. QED
        BY <2>1, Sizes
<1>2. g \in 0..Cont-1
    BY Sizes, DigitsOfNumber DEF Cont
<1>3. NumberOf(c) = t * Cont + g
    BY Sizes, TopDigit DEF Cont
<1>4. b = NumberOf(c)
    BY <1>2, <1>3, Sizes
<1>5. ASSUME NEW j \in 1..GroupBits PROVE c[j + 1] = bits[j] /\ j + 1 \in 1..ByteBits /\ (j + 1) - 1 = j
    BY Sizes
<1>. HIDE DEF c
<1>6. \A j \in 1..GroupBits : Bit(b, j) = bits[j]
    BY <1>1, <1>4, <1>5, ByteOfBits
<1>7. b \in Byte
    BY <1>1, <1>4, ByteOfBits
<1>. HIDE DEF g
<1>8. (b < Cont <=> t = 0) /\ b % Cont = g
    <2>1. CASE t = 0
        BY <1>2, <2>1, Sizes
    <2>2. CASE t = 1
        <3>1. b = g + Cont
            BY <1>2, <2>2, Sizes
        <3>2. (g + Cont) % Cont = g
            BY <1>2, Sizes
        <3>. QED
            BY <1>2, <2>2, <3>1, <3>2, Sizes
    <2>. QED
        BY <2>1, <2>2
<1>. QED
    BY <1>2, <1>6, <1>7, <1>8 DEF g

-----------------------------------------------------------------------------
(***************************************************************************)
(* Sequences put one after the other.                                      *)
(***************************************************************************)
\* What the recursive function of FlattenSeq is asked to be.
Flattens(g, seqs, n) == g = [i \in 1..n |-> IF i = 1 THEN seqs[i] ELSE g[i-1] \o seqs[i]]

LEMMA SeqsCanBeFlattened ==
    ASSUME NEW n \in Nat, NEW seqs
    PROVE  \E g : Flattens(g, seqs, n)
<1>. DEFINE T == {m \in Nat : \E g : Flattens(g, seqs, m)}
<1>1. 0 \in T
    <2>. DEFINE g == [i \in 1..0 |-> 0]
    <2>1. \A i : i \notin 1..0
        OBVIOUS
    <2>2. Flattens(g, seqs, 0)
        BY <2>1 DEF Flattens
    <2>. QED
        BY <2>2
<1>2. ASSUME NEW m \in Nat, m \in T PROVE m + 1 \in T
    <2>1. PICK g : Flattens(g, seqs, m)
        BY <1>2
    <2>. DEFINE h == [i \in 1..m+1 |-> IF i = m + 1 THEN IF m + 1 = 1 THEN seqs[m + 1] ELSE g[m] \o seqs[m + 1]
                                       ELSE g[i]]
    <2>2. \A i \in 1..m : g[i] = IF i = 1 THEN seqs[i] ELSE g[i-1] \o seqs[i]
        BY <2>1 DEF Flattens
    <2>3. ASSUME NEW i \in 1..m+1 PROVE h[i] = IF i = 1 THEN seqs[i] ELSE h[i-1] \o seqs[i]
        <3>1. CASE i = m + 1
            <4>1. i # 1 => m \in 1..m+1 /\ m # m + 1 /\ i - 1 = m
                BY <3>1
            <4>. QED
                BY <3>1, <4>1
        <3>2. CASE i # m + 1
            <4>1. i \in 1..m /\ (i # 1 => i - 1 \in 1..m+1 /\ i - 1 # m + 1)
                BY <3>2
            <4>. QED
                BY <2>2, <3>2, <4>1
        <3>. QED
            BY <3>1, <3>2
    <2>4. h = [i \in 1..m+1 |-> h[i]]
        OBVIOUS
    <2>. HIDE DEF h
    <2>5. Flattens(h, seqs, m + 1)
        BY <2>3, <2>4 DEF Flattens
    <2>. QED
        BY <2>5
<1>3. n \in T
    <2>. HIDE DEF T
    <2>. QED
        BY <1>1, <1>2, SetInduction
<1>. QED
    BY <1>3

\* Each sequence is found where those before it end.
EndAt(at, seqs, n) ==
    /\ at \in [0..n -> Nat]
    /\ at[0] = 0 /\ at[n] = Len(FlattenSeq(seqs))
    /\ \A k \in 1..n : at[k] = at[k - 1] + Len(seqs[k]) /\ at[k] <= at[n]
    /\ \A k \in 1..n : \A i \in 1..Len(seqs[k]) :
          FlattenSeq(seqs)[at[k - 1] + i] = seqs[k][i]

LEMMA FlattenedSeqs ==
    ASSUME NEW S, NEW n \in Nat \ {0}, NEW seqs \in [1..n -> Seq(S)]
    PROVE  /\ FlattenSeq(seqs) \in Seq(S)
           /\ \E at : EndAt(at, seqs, n)
<1>. DEFINE g == CHOOSE g : Flattens(g, seqs, n)
            flat == FlattenSeq(seqs)
<1>1. Flattens(g, seqs, n)
    BY SeqsCanBeFlattened
<1>2. Len(seqs) = n
    <2>1. seqs \in Seq(Seq(S))
        OBVIOUS
    <2>2. DOMAIN seqs = 1..n
        OBVIOUS
    <2>. QED
        BY <2>1, <2>2, LenProperties
<1>3. flat = g[n]
    BY <1>2 DEF FlattenSeq, Flattens
<1>. HIDE DEF g, flat
<1>4. /\ g[1] = seqs[1]
      /\ \A i \in 2..n : g[i] = g[i - 1] \o seqs[i]
    <2>1. \A i \in 1..n : g[i] = IF i = 1 THEN seqs[i] ELSE g[i-1] \o seqs[i]
        BY <1>1, Zenon DEF Flattens
    <2>2. 1 \in 1..n /\ \A i \in 2..n : i \in 1..n /\ i # 1
        OBVIOUS
    <2>. QED
        BY <2>1, <2>2
<1>. DEFINE T == {k \in Nat : k <= n /\ k # 0 => g[k] \in Seq(S)}
<1>5. ASSUME NEW k \in Nat, k \in T PROVE k + 1 \in T
    <2>1. SUFFICES ASSUME k + 1 <= n PROVE g[k + 1] \in Seq(S)
        OBVIOUS
    <2>2. seqs[k + 1] \in Seq(S)
        BY <2>1
    <2>3. CASE k = 0
        BY <1>4, <2>2, <2>3
    <2>4. CASE k # 0
        <3>1. g[k] \in Seq(S) /\ k + 1 \in 2..n /\ (k + 1) - 1 = k
            BY <1>5, <2>1, <2>4
        <3>2. g[k + 1] = g[k] \o seqs[k + 1]
            BY <1>4, <3>1
        <3>. QED
            BY <2>2, <3>1, <3>2, ConcatProperties
    <2>. QED
        BY <2>3, <2>4
<1>6. ASSUME NEW k \in 1..n PROVE g[k] \in Seq(S)
    <2>1. 0 \in T /\ k \in Nat
        OBVIOUS
    <2>. HIDE DEF T
    <2>2. Nat \subseteq T
        BY <1>5, <2>1, SetInduction
    <2>3. k \in T
        BY <2>1, <2>2
    <2>. QED
        BY <2>3 DEF T
<1>. DEFINE at == [k \in 0..n |-> IF k = 0 THEN 0 ELSE Len(g[k])]
<1>7. at \in [0..n -> Nat] /\ at[0] = 0 /\ \A k \in 1..n : at[k] = Len(g[k])
    <2>1. ASSUME NEW k \in 0..n, k # 0 PROVE Len(g[k]) \in Nat
        BY <1>6, <2>1, LenProperties
    <2>. QED
        BY <2>1
<1>. HIDE DEF at
<1>8. \A k \in 1..n : seqs[k] \in Seq(S) /\ Len(seqs[k]) \in Nat
    BY LenProperties
<1>9. ASSUME NEW k \in 1..n PROVE at[k] = at[k - 1] + Len(seqs[k])
    <2>1. CASE k = 1
        BY <1>4, <1>7, <1>8, <2>1
    <2>2. CASE k # 1
        <3>1. k \in 2..n /\ k - 1 \in 1..n
            BY <2>2
        <3>2. Len(g[k - 1] \o seqs[k]) = Len(g[k - 1]) + Len(seqs[k])
            BY <1>6, <1>8, <3>1, ConcatProperties
        <3>. QED
            BY <1>4, <1>7, <3>1, <3>2
    <2>. QED
        BY <2>1, <2>2
<1>. DEFINE Found(k, m) == /\ at[m] <= at[k]
                           /\ \A i \in 1..Len(seqs[m]) : g[k][at[m - 1] + i] = seqs[m][i]
            U == {k \in Nat : k <= n => \A m \in 1..k : Found(k, m)}
<1>10. 0 \in U
    OBVIOUS
<1>11. ASSUME NEW k \in Nat, k \in U PROVE k + 1 \in U
    <2>1. SUFFICES ASSUME k + 1 <= n, NEW m \in 1..k+1 PROVE Found(k + 1, m)
        OBVIOUS
    <2>2. k + 1 \in 1..n /\ (k + 1) - 1 = k /\ k \in 0..n /\ at[k] \in Nat /\ at[k + 1] \in Nat
        BY <1>7, <2>1
    <2>3. Len(seqs[k + 1]) \in Nat /\ at[k + 1] = at[k] + Len(seqs[k + 1]) /\ seqs[k + 1] \in Seq(S)
        BY <1>8, <1>9, <2>2
    <2>4. CASE k = 0
        <3>1. m = 1 /\ k + 1 = 1 /\ m - 1 = 0 /\ 1 \in 1..n
            BY <2>1, <2>2, <2>4
        <3>2. g[1] = seqs[1] /\ at[0] = 0 /\ at[1] \in Nat /\ Len(seqs[1]) \in Nat
            BY <1>4, <1>7, <1>8, <3>1
        <3>3. \A i \in 1..Len(seqs[1]) : g[1][0 + i] = seqs[1][i]
            BY <3>2
        <3>. QED
            BY <3>1, <3>2, <3>3
    <2>5. CASE k # 0
        <3>1. k \in 1..n /\ k + 1 \in 2..n /\ g[k] \in Seq(S) /\ at[k] = Len(g[k])
            BY <1>6, <1>7, <2>2, <2>5
        <3>2. g[k + 1] = g[k] \o seqs[k + 1]
            BY <1>4, <2>2, <3>1
        <3>3. \A j \in 1..at[k] + Len(seqs[k + 1]) :
                  g[k + 1][j] = IF j <= at[k] THEN g[k][j] ELSE seqs[k + 1][j - at[k]]
            BY <2>3, <3>1, <3>2, ConcatProperties
        <3>4. CASE m = k + 1
            <4>1. ASSUME NEW i \in 1..Len(seqs[k + 1]) PROVE g[k + 1][at[k] + i] = seqs[k + 1][i]
                <5>1. at[k] + i \in 1..at[k] + Len(seqs[k + 1]) /\ ~(at[k] + i <= at[k]) /\ (at[k] + i) - at[k] = i
                    BY <2>2, <2>3
                <5>. QED
                    BY <3>3, <5>1
            <4>2. at[m] <= at[k + 1]
                BY <2>2, <3>4
            <4>. QED
                BY <2>2, <3>4, <4>1, <4>2
        <3>5. CASE m # k + 1
            <4>1. m \in 1..k /\ m \in 1..n /\ k <= n
                BY <2>1, <3>1, <3>5
            <4>2. Found(k, m)
                BY <1>11, <4>1
            <4>3. at[m - 1] \in Nat /\ at[m] \in Nat /\ Len(seqs[m]) \in Nat /\ at[m] = at[m - 1] + Len(seqs[m])
                <5>1. m - 1 \in 0..n /\ m \in 0..n
                    BY <4>1
                <5>. QED
                    BY <1>7, <1>8, <1>9, <4>1, <5>1
            <4>4. ASSUME NEW i \in 1..Len(seqs[m]) PROVE g[k + 1][at[m - 1] + i] = seqs[m][i]
                <5>. DEFINE a == at[m - 1]
                            b == at[k]
                            c == Len(seqs[k + 1])
                <5>0. a \in Nat /\ b \in Nat /\ c \in Nat /\ i \in Nat \ {0} /\ a + i <= at[m] /\ at[m] <= b
                    BY <2>2, <2>3, <4>2, <4>3
                <5>. HIDE DEF a, b, c
                <5>1. a + i \in 1..b + c /\ a + i <= b
                    BY <4>3, <5>0
                <5>. USE DEF a, b, c
                <5>2. g[k + 1][at[m - 1] + i] = g[k][at[m - 1] + i]
                    BY <3>3, <5>1
                <5>. QED
                    BY <4>2, <5>2
            <4>5. at[m] <= at[k + 1]
                BY <2>2, <2>3, <4>2, <4>3
            <4>. QED
                BY <4>4, <4>5
        <3>. QED
            BY <3>4, <3>5
    <2>. QED
        BY <2>4, <2>5
<1>12. n \in U
    <2>. HIDE DEF U
    <2>. QED
        BY <1>10, <1>11, SetInduction
<1>13. \A m \in 1..n : Found(n, m)
    BY <1>12
<1>14. flat \in Seq(S) /\ at[n] = Len(flat)
    BY <1>3, <1>6, <1>7
<1>15. /\ \A m \in 1..n : at[m] = at[m - 1] + Len(seqs[m]) /\ at[m] <= at[n]
       /\ \A m \in 1..n : \A i \in 1..Len(seqs[m]) : flat[at[m - 1] + i] = seqs[m][i]
    BY <1>3, <1>9, <1>13
<1>16. EndAt(at, seqs, n)
    BY <1>7, <1>14, <1>15 DEF flat, EndAt
<1>. QED
    BY <1>14, <1>16 DEF flat

-----------------------------------------------------------------------------
(***************************************************************************)
(* Quotients and remainders.                                               *)
(***************************************************************************)
LEMMA TimesGrows ==
    ASSUME NEW a \in Nat, NEW b \in Nat, NEW g \in Nat, a <= b
    PROVE  g * a <= g * b /\ g * a \in Nat
<1>1. PICK c \in Nat : b = a + c
    <2>1. b - a \in Nat /\ b = a + (b - a)
        OBVIOUS
    <2>. QED
        BY <2>1
<1>2. g * b = g * a + g * c /\ g * c \in Nat /\ g * a \in Nat
    BY <1>1
<1>. QED
    BY <1>2

LEMMA DivideBy ==
    ASSUME NEW t \in Nat, NEW g \in Nat \ {0}
    PROVE  t \div g \in Nat /\ t % g \in 0..g-1 /\ t = g * (t \div g) + (t % g)
    OBVIOUS

LEMMA QuotientIs ==
    ASSUME NEW q \in Nat, NEW g \in Nat \ {0}, NEW r \in 0..g-1
    PROVE  (g * q + r) \div g = q /\ (g * q + r) % g = r
<1>. DEFINE t == g * q + r
            p == t \div g
            a == t % g
<1>1. g * q \in Nat /\ t \in Nat /\ t = g * q + r
    OBVIOUS
<1>. HIDE DEF t
<1>2. p \in Nat /\ a \in 0..g-1 /\ t = g * p + a
    BY <1>1, DivideBy
<1>. HIDE DEF p, a
<1>3. ~(p < q)
    <2>1. SUFFICES ASSUME p + 1 <= q PROVE FALSE
        BY <1>2
    <2>2. g * (p + 1) <= g * q /\ g * (p + 1) = g * p + g /\ g * p \in Nat
        BY <1>2, <2>1, TimesGrows
    <2>. QED
        BY <1>1, <1>2, <2>2
<1>4. ~(q < p)
    <2>1. SUFFICES ASSUME q + 1 <= p PROVE FALSE
        BY <1>2
    <2>2. g * (q + 1) <= g * p /\ g * (q + 1) = g * q + g /\ g * p \in Nat
        BY <1>2, <2>1, TimesGrows
    <2>. QED
        BY <1>1, <1>2, <2>2
<1>5. p = q
    BY <1>2, <1>3, <1>4
<1>6. a = r
    BY <1>1, <1>2, <1>5
<1>. QED
    BY <1>5, <1>6 DEF p, a, t

LEMMA QuotientBelow ==
    ASSUME NEW t \in Nat, NEW g \in Nat \ {0}, NEW n \in Nat, t < g * n
    PROVE  t \div g \in 0..n-1
<1>. DEFINE p == t \div g
<1>1. p \in Nat /\ g * p \in Nat /\ g * p <= t
    BY DivideBy
<1>. HIDE DEF p
<1>2. n <= p => g * n <= g * p
    BY <1>1, TimesGrows
<1>3. g * n \in Nat
    OBVIOUS
<1>4. p < n
    BY <1>1, <1>2, <1>3
<1>. QED
    BY <1>1, <1>4 DEF p

-----------------------------------------------------------------------------
(***************************************************************************)
(* What an encoding looks like.                                            *)
(***************************************************************************)
WordBits == IntBytes * ByteBits
BitOfWord(w, k) == Bit(w[IntBytes - k \div ByteBits], k % ByteBits)

\* Bit k of a word, the most significant one being bit 0, is in this byte.
LEMMA ByteOfBit ==
    ASSUME NEW w \in Word, NEW k \in 0..WordBits-1
    PROVE  /\ k \div ByteBits \in 0..IntBytes-1 /\ k % ByteBits \in 0..ByteBits-1
           /\ IntBytes - k \div ByteBits \in 1..IntBytes
           /\ w[IntBytes - k \div ByteBits] \in Byte
           /\ BitOfWord(w, k) \in 0..1
           /\ k = ByteBits * (k \div ByteBits) + (k % ByteBits)
<1>1. k \in Nat /\ ByteBits \in Nat \ {0} /\ IntBytes \in Nat /\ k < ByteBits * IntBytes
    BY Sizes DEF WordBits
<1>2. k \div ByteBits \in 0..IntBytes-1
    BY <1>1, QuotientBelow
<1>3. k % ByteBits \in 0..ByteBits-1 /\ k = ByteBits * (k \div ByteBits) + (k % ByteBits)
    BY <1>1, DivideBy
<1>. DEFINE q == k \div ByteBits
<1>. HIDE DEF q
<1>4. IntBytes - q \in 1..IntBytes
    BY <1>1, <1>2 DEF q
<1>5. w[IntBytes - q] \in Byte
    BY <1>4 DEF Word
<1>6. BitOfWord(w, k) \in 0..1
    BY <1>3, <1>5, BitIsBit DEF BitOfWord, q
<1>. QED
    BY <1>2, <1>3, <1>4, <1>5, <1>6 DEF q

\* An encoding has room for all bits but the leading zeros of the top byte.
LEMMA LengthOfEncoding ==
    ASSUME NEW w \in Word
    PROVE  /\ EncodeLen(w) \in Nat \ {0}
           /\ WordBits - ByteBits + Digits(w[IntBytes]) <= EncodeLen(w) * GroupBits
<1>. DEFINE d == Digits(w[IntBytes])
            D == (IntBytes - 1) * ByteBits + d
<1>1. d \in 0..ByteBits /\ ByteBits \in Nat /\ IntBytes \in Nat \ {0}
    <2>1. w[IntBytes] \in Byte
        BY Sizes DEF Word
    <2>. QED
        BY <2>1, DigitsOfByte, Sizes
<1>2. (IntBytes - 1) * ByteBits = WordBits - ByteBits /\ (IntBytes - 1) * ByteBits \in Nat
    BY <1>1 DEF WordBits
<1>. HIDE DEF d
<1>3. D \in Nat /\ D = WordBits - ByteBits + d
    BY <1>1, <1>2
<1>. HIDE DEF D
<1>4. EncodeLen(w) = IF D = 0 THEN 1 ELSE (D + GroupBits - 1) \div GroupBits
    BY DEF EncodeLen, Units, D, d
<1>5. CASE D = 0
    <2>1. EncodeLen(w) = 1 /\ 1 * GroupBits = GroupBits /\ GroupBits \in Nat
        BY <1>4, <1>5, Sizes
    <2>. QED
        BY <1>3, <1>5, <2>1 DEF d
<1>6. CASE D # 0
    <2>. DEFINE t == D + GroupBits - 1
                n == t \div GroupBits
    <2>1. GroupBits \in Nat \ {0} /\ t \in Nat /\ t >= GroupBits /\ t = D + GroupBits - 1
        BY <1>3, <1>6, Sizes
    <2>. HIDE DEF t
    <2>2. n \in Nat /\ t % GroupBits \in 0..GroupBits-1 /\ t = GroupBits * n + (t % GroupBits)
        BY <2>1, DivideBy
    <2>. HIDE DEF n
    <2>3. n # 0
        <3>1. n = 0 => GroupBits * n = 0
            BY <2>1
        <3>. QED
            BY <2>1, <2>2, <3>1
    <2>4. GroupBits * n \in Nat
        BY <2>1, <2>2
    <2>5. D <= GroupBits * n
        BY <1>3, <2>1, <2>2, <2>4
    <2>6. EncodeLen(w) = n
        BY <1>4, <1>6 DEF n, t
    <2>7. GroupBits * n = n * GroupBits
        BY <2>1, <2>2
    <2>. QED
        BY <1>3, <2>2, <2>3, <2>5, <2>6, <2>7 DEF d
<1>. QED
    BY <1>5, <1>6

LEMMA QuotientGrows ==
    ASSUME NEW a \in Nat, NEW b \in Nat, a <= b, NEW g \in Nat \ {0}
    PROVE  a \div g <= b \div g
<1>. DEFINE p == a \div g
            q == b \div g
<1>1. p \in Nat /\ q \in Nat /\ g * p <= a /\ g * p \in Nat
    BY DivideBy
<1>2. b = g * q + (b % g) /\ b % g \in 0..g-1
    BY DivideBy
<1>. HIDE DEF p, q
<1>3. ~(q < p)
    <2>1. SUFFICES ASSUME q + 1 <= p PROVE FALSE
        BY <1>1
    <2>2. g * (q + 1) <= g * p /\ g * (q + 1) = g * q + g /\ g * q \in Nat
        BY <1>1, <2>1, TimesGrows
    <2>. QED
        BY <1>1, <1>2, <2>2
<1>. QED
    BY <1>1, <1>3 DEF p, q

\* No encoding is longer than one of all bits.
LEMMA LongestEncoding ==
    ASSUME NEW w \in Word
    PROVE  EncodeLen(w) <= Units(WordBits, GroupBits) /\ Units(WordBits, GroupBits) \in Nat
<1>. DEFINE D == (IntBytes - 1) * ByteBits + Digits(w[IntBytes])
            g == GroupBits
<1>1. IntBytes \in Nat \ {0} /\ ByteBits \in Nat \ {0} /\ g \in Nat \ {0}
    BY Sizes
<1>2. w[IntBytes] \in Byte
    BY <1>1 DEF Word
<1>3. Digits(w[IntBytes]) \in 0..ByteBits
    BY <1>2, DigitsOfByte
<1>4. (IntBytes - 1) * ByteBits = WordBits - ByteBits /\ (IntBytes - 1) * ByteBits \in Nat
    BY <1>1 DEF WordBits
<1>. DEFINE A == (IntBytes - 1) * ByteBits
            d == Digits(w[IntBytes])
<1>5. D \in Nat /\ D <= WordBits /\ WordBits \in Nat /\ WordBits # 0
    <2>1. WordBits \in Nat /\ D = A + d /\ A \in Nat /\ A = WordBits - ByteBits /\ d \in 0..ByteBits
        BY <1>1, <1>3, <1>4 DEF WordBits
    <2>. HIDE DEF A, d, D
    <2>. QED
        BY <1>1, <2>1
<1>6. EncodeLen(w) = IF D = 0 THEN 1 ELSE (D + g - 1) \div g
    BY DEF EncodeLen, Units
<1>7. Units(WordBits, GroupBits) = (WordBits + g - 1) \div g
    BY <1>5 DEF Units
<1>. HIDE DEF D, g
<1>8. D + g - 1 \in Nat /\ WordBits + g - 1 \in Nat /\ g <= WordBits + g - 1
      /\ D + g - 1 <= WordBits + g - 1
    BY <1>1, <1>5
<1>9. (WordBits + g - 1) \div g \in Nat
    BY <1>1, <1>8, DivideBy
<1>10. (D + g - 1) \div g <= (WordBits + g - 1) \div g
    BY <1>1, <1>8, QuotientGrows
<1>11. 1 <= (WordBits + g - 1) \div g
    <2>1. g * 1 + 0 = g
        BY <1>1
    <2>2. g \div g = 1
        BY <1>1, <2>1, QuotientIs
    <2>. QED
        BY <1>1, <1>8, <2>2, QuotientGrows
<1>. QED
    BY <1>6, <1>7, <1>9, <1>10, <1>11

\* The bits of a word that no group of its encoding holds are zero.
LEMMA LeftOutIsZero ==
    ASSUME NEW w \in Word, NEW k \in 0..WordBits-1, BitOfWord(w, k) = 1
    PROVE  WordBits - EncodeLen(w) * GroupBits <= k
<1>. DEFINE d == Digits(w[IntBytes])
            R == EncodeLen(w) * GroupBits
<1>1. w[IntBytes] \in Byte /\ ByteBits \in Nat \ {0} /\ WordBits \in Nat /\ R \in Nat
    BY LengthOfEncoding, Sizes DEF Word, WordBits
<1>2. d \in 0..ByteBits /\ WordBits - ByteBits + d <= R
    BY <1>1, DigitsOfByte, LengthOfEncoding
<1>. HIDE DEF R
<1>3. SUFFICES ASSUME k < WordBits - R PROVE FALSE
    BY <1>1, Sizes DEF R
<1>. HIDE DEF d
<1>4. k < ByteBits - d /\ k \in Nat /\ k \in 0..ByteBits-1
    BY <1>1, <1>2, <1>3
<1>5. ByteBits * 0 + k = k
    BY <1>1, <1>4
<1>6. k \div ByteBits = 0 /\ k % ByteBits = k
    BY <1>1, <1>4, <1>5, QuotientIs
<1>7. IntBytes - 0 = IntBytes
    BY Sizes
<1>8. Bit(w[IntBytes], k) = 1
    BY <1>6, <1>7 DEF BitOfWord
<1>9. ByteBits - d <= k
    BY <1>1, <1>4, <1>8, DigitsOfByte DEF d
<1>. QED
    BY <1>1, <1>2, <1>4, <1>9

\* Bit j of group i holds this bit of the word, or a zero in front of it.
PlaceInWord(w, i, j) == (i - 1) * GroupBits + j - 1 - (EncodeLen(w) * GroupBits - WordBits)
BitOfCode(w, i, j) ==
    IF PlaceInWord(w, i, j) < 0 THEN 0 ELSE BitOfWord(w, PlaceInWord(w, i, j))

LEMMA PlacesAreInWord ==
    ASSUME NEW w \in Word, NEW i \in 1..EncodeLen(w), NEW j \in 1..GroupBits
    PROVE  /\ PlaceInWord(w, i, j) \in Int /\ PlaceInWord(w, i, j) < WordBits
           /\ BitOfCode(w, i, j) \in 0..1
           /\ WordBits - 1 - PlaceInWord(w, i, j) = (EncodeLen(w) - i) * GroupBits + GroupBits - j
<1>. DEFINE n == EncodeLen(w)
<1>1. n \in Nat /\ GroupBits \in Nat /\ WordBits \in Nat /\ i \in Nat /\ j \in Nat
    BY LengthOfEncoding, Sizes DEF WordBits
<1>. HIDE DEF n
<1>2. i <= n /\ i >= 1 /\ j >= 1 /\ j <= GroupBits
    BY <1>1 DEF n
<1>3. (n - i) * GroupBits = n * GroupBits - i * GroupBits
    BY <1>1
<1>4. (i - 1) * GroupBits = i * GroupBits - GroupBits
    BY <1>1
<1>5. n * GroupBits \in Nat /\ i * GroupBits \in Nat /\ (n - i) * GroupBits \in Nat
    <2>1. n - i \in Nat
        BY <1>1, <1>2
    <2>. QED
        BY <1>1, <2>1
<1>6. PlaceInWord(w, i, j) = i * GroupBits - GroupBits + j - 1 - n * GroupBits + WordBits
    BY <1>1, <1>4, <1>5 DEF PlaceInWord, n
<1>7. /\ PlaceInWord(w, i, j) \in Int /\ PlaceInWord(w, i, j) < WordBits
      /\ WordBits - 1 - PlaceInWord(w, i, j) = (n - i) * GroupBits + GroupBits - j
    BY <1>1, <1>2, <1>3, <1>5, <1>6
<1>8. BitOfCode(w, i, j) \in 0..1
    <2>1. PlaceInWord(w, i, j) >= 0 => PlaceInWord(w, i, j) \in 0..WordBits-1
        BY <1>1, <1>7
    <2>. QED
        BY <1>7, <2>1, ByteOfBit DEF BitOfCode
<1>. QED
    BY <1>7, <1>8 DEF n

\* Every bit of a word but the zeros left out is in a group.
LEMMA PlaceOfBit ==
    ASSUME NEW w \in Word, NEW k \in 0..WordBits-1, WordBits - EncodeLen(w) * GroupBits <= k
    PROVE  \E i \in 1..EncodeLen(w), j \in 1..GroupBits : PlaceInWord(w, i, j) = k
<1>. DEFINE n == EncodeLen(w)
            R == n * GroupBits
            t == k + R - WordBits
            i == t \div GroupBits + 1
            j == (t % GroupBits) + 1
<1>1. n \in Nat /\ WordBits \in Nat /\ GroupBits \in Nat \ {0} /\ WordBits - R <= k /\ k < WordBits
    BY LengthOfEncoding, Sizes DEF WordBits
<1>2. R \in Nat /\ t \in Nat /\ R = GroupBits * n /\ t < R
    BY <1>1
<1>3. t \div GroupBits \in 0..n-1 /\ t % GroupBits \in 0..GroupBits-1
      /\ t = GroupBits * (t \div GroupBits) + (t % GroupBits)
    <2>. HIDE DEF t, n, R
    <2>. QED
        BY <1>1, <1>2, QuotientBelow, DivideBy
<1>. DEFINE q == t \div GroupBits
            r == t % GroupBits
<1>. HIDE DEF q, r, n
<1>4. i \in 1..n /\ j \in 1..GroupBits /\ i - 1 = q /\ j - 1 = r /\ q \in Nat
    BY <1>1, <1>3 DEF q, r
<1>5. t = GroupBits * q + r /\ GroupBits * q = (i - 1) * GroupBits
    BY <1>1, <1>3, <1>4 DEF q, r
<1>. HIDE DEF i, j
<1>6. PlaceInWord(w, i, j) = k
    <2>1. PlaceInWord(w, i, j) = (i - 1) * GroupBits + j - 1 - (R - WordBits)
        BY DEF PlaceInWord, n
    <2>2. (i - 1) * GroupBits \in Nat
        BY <1>1, <1>4, <1>5
    <2>. HIDE DEF R
    <2>. QED
        BY <1>1, <1>2, <1>4, <1>5, <2>1, <2>2
<1>. QED
    BY <1>4, <1>6 DEF n

LEMMA EncodedWord ==
    ASSUME NEW w \in Word
    PROVE  /\ Encode(w) \in [1..EncodeLen(w) -> Byte]
           /\ \A i \in 1..EncodeLen(w) : Encode(w)[i] < Cont <=> i = EncodeLen(w)
           /\ \A i \in 1..EncodeLen(w), j \in 1..GroupBits :
                 Bit(Encode(w)[i], j) = BitOfCode(w, i, j)
<1>. DEFINE n == EncodeLen(w)
            group(i) == [j \in 1..GroupBits |-> BitOfCode(w, i, j)]
            mark(i) == IF i < n THEN 1 ELSE 0
            b(i) == NumberOf(group(i)) + mark(i) * Cont
<1>1. n \in Nat \ {0}
    BY LengthOfEncoding
<1>2. Encode(w) = [i \in 1..n |-> NumberOf(group(i)) + IF i < n THEN Cont ELSE 0]
    BY DEF Encode, BitOfCode, BitOfWord, PlaceInWord, WordBits
<1>. HIDE DEF n
<1>3. ASSUME NEW i \in 1..n
      PROVE  /\ b(i) \in Byte /\ (b(i) < Cont <=> i = n)
             /\ \A j \in 1..GroupBits : Bit(b(i), j) = BitOfCode(w, i, j)
             /\ b(i) = NumberOf(group(i)) + IF i < n THEN Cont ELSE 0
    <2>1. group(i) \in [1..GroupBits -> 0..1]
        BY PlacesAreInWord DEF n
    <2>2. mark(i) \in 0..1 /\ (mark(i) = 0 <=> i = n) /\ mark(i) * Cont = IF i < n THEN Cont ELSE 0
        BY <1>1, Sizes
    <2>. HIDE DEF mark
    <2>3. /\ b(i) \in Byte /\ (b(i) < Cont <=> mark(i) = 0)
          /\ \A j \in 1..GroupBits : Bit(b(i), j) = group(i)[j]
        BY <2>1, <2>2, MarkedGroup
    <2>4. \A j \in 1..GroupBits : group(i)[j] = BitOfCode(w, i, j)
        OBVIOUS
    <2>. QED
        BY <2>2, <2>3, <2>4
<1>. HIDE DEF b, group
<1>4. Encode(w) = [i \in 1..n |-> b(i)]
    BY <1>2, <1>3
<1>. QED
    BY <1>3, <1>4 DEF n

\* Its length is found by its first byte without a continuation bit.
LEMMA EncodedAsSeq ==
    ASSUME NEW w \in Word
    PROVE  /\ Encode(w) \in Seq(Byte) /\ Len(Encode(w)) = EncodeLen(w)
           /\ EncodeLen(w) \in Nat \ {0}
           /\ \A i \in 1..Len(Encode(w)) : Encode(w)[i] < Cont <=> i = Len(Encode(w))
<1>1. Encode(w) \in [1..EncodeLen(w) -> Byte] /\ EncodeLen(w) \in Nat \ {0}
    BY EncodedWord, LengthOfEncoding
<1>2. Encode(w) \in Seq(Byte) /\ DOMAIN Encode(w) = 1..EncodeLen(w)
    BY <1>1
<1>3. Len(Encode(w)) = EncodeLen(w)
    BY <1>1, <1>2, LenProperties
<1>. QED
    BY <1>1, <1>2, <1>3, EncodedWord

-----------------------------------------------------------------------------
(***************************************************************************)
(* Encodings one after the other.                                          *)
(***************************************************************************)
LEMMA SameCountSameEnd ==
    ASSUME NEW T \in SUBSET Nat, NEW a \in T, NEW b \in T,
           IsFiniteSet({j \in T : j <= a}), IsFiniteSet({j \in T : j <= b}),
           Cardinality({j \in T : j <= a}) = Cardinality({j \in T : j <= b})
    PROVE  a = b
<1>1. ASSUME NEW x \in T, NEW y \in T, IsFiniteSet({j \in T : j <= y}), x < y
      PROVE  Cardinality({j \in T : j <= x}) # Cardinality({j \in T : j <= y})
    <2>1. x \in Nat /\ y \in Nat
        OBVIOUS
    <2>2. {j \in T : j <= x} \subseteq {j \in T : j <= y}
        <3>1. \A j \in T : j \in Nat
            OBVIOUS
        <3>2. \A j \in T : j <= x => j <= y
            BY <1>1, <2>1, <3>1
        <3>. QED
            BY <3>2
    <2>3. y \in {j \in T : j <= y} /\ y \notin {j \in T : j <= x}
        BY <1>1, <2>1
    <2>4. {j \in T : j <= x} # {j \in T : j <= y}
        BY <2>3
    <2>. QED
        BY <1>1, <2>2, <2>4, FS_Subset, FS_CardinalityType
<1>2. a \in Nat /\ b \in Nat
    OBVIOUS
<1>. QED
    BY <1>1, <1>2

\* Where bytes without a continuation bit are.
EndsIn(seq, from, to) == {i \in from..to : seq[i] < Cont}
EndsUpTo(seq, from, to, i) == {j \in EndsIn(seq, from, to) : j <= i}

EncodingsEnd(last, words, n, seq, base, to) ==
    /\ last \in [0..n -> Nat] /\ last[0] = base
    /\ \A k \in 1..n :
          /\ last[k] = last[k - 1] + EncodeLen(words[k])
          /\ last[k] \in EndsIn(seq, base + 1, to)
          /\ IsFiniteSet(EndsUpTo(seq, base + 1, to, last[k]))
          /\ Cardinality(EndsUpTo(seq, base + 1, to, last[k])) = k
    /\ \A k \in 1..n : \A i \in 1..EncodeLen(words[k]) :
          seq[last[k - 1] + i] = Encode(words[k])[i]

EncodedInARow(seqs, words, n, seq, base, to) ==
    \E last : /\ EncodingsEnd(last, words, n, seq, base, to)
              /\ last[n] = base + Len(FlattenSeq(seqs))

\* The k-th of them is the last byte of the k-th number.
LEMMA EncodingsInARow ==
    ASSUME NEW n \in Nat \ {0}, NEW words \in [1..n -> Word], NEW seqs,
           seqs = [k \in 1..n |-> Encode(words[k])],
           NEW seq, NEW base \in Nat, NEW to \in Nat, base + Len(FlattenSeq(seqs)) <= to,
           \A i \in 1..Len(FlattenSeq(seqs)) : seq[base + i] = FlattenSeq(seqs)[i]
    PROVE  EncodedInARow(seqs, words, n, seq, base, to)
<1>. DEFINE flat == FlattenSeq(seqs)
            E == EndsIn(seq, base + 1, to)
<1>1. seqs \in [1..n -> Seq(Byte)]
    BY EncodedAsSeq
<1>2. \A k \in 1..n : /\ seqs[k] = Encode(words[k]) /\ Len(seqs[k]) = EncodeLen(words[k])
                      /\ EncodeLen(words[k]) \in Nat \ {0}
    BY EncodedAsSeq
<1>3. \A k \in 1..n : \A i \in 1..Len(seqs[k]) : seqs[k][i] < Cont <=> i = Len(seqs[k])
    BY EncodedAsSeq
<1>4. flat \in Seq(Byte)
    BY <1>1, FlattenedSeqs
<1>5. Len(flat) \in Nat
    BY <1>4, LenProperties
<1>6. PICK at \in [0..n -> Nat] :
          /\ at[0] = 0 /\ at[n] = Len(flat)
          /\ \A k \in 1..n : at[k] = at[k - 1] + Len(seqs[k]) /\ at[k] <= at[n]
          /\ \A k \in 1..n : \A i \in 1..Len(seqs[k]) : flat[at[k - 1] + i] = seqs[k][i]
    <2>1. PICK at : EndAt(at, seqs, n)
        BY <1>1, FlattenedSeqs
    <2>. QED
        BY <2>1 DEF EndAt
<1>. HIDE DEF flat
<1>7. base + Len(flat) <= to /\ \A i \in 1..Len(flat) : seq[base + i] = flat[i]
    BY DEF flat
<1>. DEFINE last == [k \in 0..n |-> base + at[k]]
<1>8. last \in [0..n -> Nat] /\ last[0] = base /\ \A k \in 0..n : last[k] = base + at[k]
    BY <1>6
<1>. HIDE DEF last
<1>9. ASSUME NEW k \in 1..n
      PROVE  /\ last[k] = last[k - 1] + Len(seqs[k]) /\ Len(seqs[k]) \in Nat \ {0}
             /\ last[k] <= base + Len(flat)
             /\ last[k - 1] \in Nat /\ last[k] \in Nat /\ last[k - 1] >= base
             /\ \A i \in 1..Len(seqs[k]) : seq[last[k - 1] + i] = seqs[k][i]
    <2>1. k - 1 \in 0..n /\ k \in 0..n
        OBVIOUS
    <2>2. /\ at[k] = at[k - 1] + Len(seqs[k]) /\ at[k] <= at[n] /\ at[n] = Len(flat)
          /\ at[k - 1] \in Nat /\ at[k] \in Nat
        BY <1>6, <2>1
    <2>3. Len(seqs[k]) \in Nat \ {0}
        BY <1>2
    <2>. DEFINE a == at[k - 1]
                b == at[k]
                m == Len(seqs[k])
    <2>4. last[k - 1] = base + a /\ last[k] = base + b
        BY <1>8, <2>1
    <2>5. b = a + m /\ a \in Nat /\ b \in Nat /\ m \in Nat \ {0} /\ b <= Len(flat)
        BY <2>2, <2>3
    <2>6. \A i \in 1..m : flat[a + i] = seqs[k][i]
        BY <1>6
    <2>. HIDE DEF a, b, m
    <2>7. ASSUME NEW i \in 1..m PROVE seq[(base + a) + i] = seqs[k][i]
        <3>1. a + i \in 1..Len(flat) /\ base + (a + i) = (base + a) + i
            BY <1>5, <2>5
        <3>. QED
            BY <1>7, <2>6, <3>1
    <2>8. base + b = (base + a) + m /\ base + b <= base + Len(flat) /\ base + a >= base
          /\ base + a \in Nat /\ base + b \in Nat
        BY <1>5, <2>5
    <2>. QED
        BY <2>4, <2>5, <2>7, <2>8 DEF m
<1>. DEFINE Up(k) == EndsUpTo(seq, base + 1, to, last[k])
<1>10. E \in SUBSET Nat
    BY DEF EndsIn
<1>11. ASSUME NEW k \in 1..n
       PROVE  last[k] \in E /\ Up(k) = Up(k - 1) \cup {last[k]} /\ last[k] \notin Up(k - 1)
    <2>. DEFINE a == last[k - 1]
                b == last[k]
                m == Len(seqs[k])
    <2>1. /\ b = a + m /\ m \in Nat \ {0} /\ b <= base + Len(flat)
          /\ a \in Nat /\ b \in Nat /\ a >= base
          /\ \A i \in 1..m : seq[a + i] = seqs[k][i]
        BY <1>9
    <2>2. \A i \in 1..m : seqs[k][i] < Cont <=> i = m
        BY <1>3
    <2>. HIDE DEF a, b, m
    <2>3. b \in E
        <3>1. m \in 1..m
            BY <2>1
        <3>2. seq[a + m] < Cont
            BY <2>1, <2>2, <3>1
        <3>3. b \in base + 1..to
            BY <1>5, <1>7, <2>1
        <3>. QED
            BY <2>1, <3>2, <3>3 DEF EndsIn
    <2>4. ASSUME NEW j \in E, a < j, j <= b PROVE j = b
        <3>1. j \in Nat
            BY <1>10
        <3>2. j - a \in 1..m /\ a + (j - a) = j
            BY <2>1, <2>4, <3>1
        <3>3. seq[j] = seqs[k][j - a] /\ seq[j] < Cont
            BY <2>1, <3>2 DEF EndsIn
        <3>4. j - a = m
            BY <2>2, <3>2, <3>3
        <3>. QED
            BY <2>1, <3>1, <3>4
    <2>5. \A j \in E : j <= b <=> (j <= a \/ j = b)
        <3>1. \A j \in E : j \in Nat
            BY <1>10
        <3>. QED
            BY <2>1, <2>4, <3>1
    <2>6. ~(b <= a)
        BY <2>1
    <2>. HIDE DEF E
    <2>7. {j \in E : j <= b} = {j \in E : j <= a} \cup {b} /\ b \notin {j \in E : j <= a}
        BY <2>3, <2>5, <2>6
    <2>. QED
        BY <2>3, <2>7 DEF a, b, E, EndsUpTo
<1>12. Up(0) = {}
    <2>1. \A j \in E : ~(j <= base)
        BY DEF EndsIn
    <2>. QED
        BY <1>8, <2>1 DEF EndsUpTo
<1>13. ASSUME NEW k \in 1..n PROVE IsFiniteSet(Up(k)) /\ Cardinality(Up(k)) = k
    <2>. DEFINE T == {i \in Nat : i <= n => IsFiniteSet(Up(i)) /\ Cardinality(Up(i)) = i}
    <2>1. 0 \in T
        BY <1>12, FS_EmptySet
    <2>2. ASSUME NEW i \in Nat, i \in T PROVE i + 1 \in T
        <3>1. SUFFICES ASSUME i + 1 <= n
                       PROVE  IsFiniteSet(Up(i + 1)) /\ Cardinality(Up(i + 1)) = i + 1
            OBVIOUS
        <3>2. i + 1 \in 1..n /\ (i + 1) - 1 = i
            BY <3>1
        <3>3. IsFiniteSet(Up(i)) /\ Cardinality(Up(i)) = i
            BY <2>2, <3>1
        <3>4. Up(i + 1) = Up(i) \cup {last[i + 1]} /\ last[i + 1] \notin Up(i)
            BY <1>11, <3>2
        <3>. DEFINE before == Up(i)
                    x == last[i + 1]
        <3>5. IsFiniteSet(before) /\ Cardinality(before) = i /\ x \notin before
            BY <3>3, <3>4
        <3>. HIDE DEF before, x
        <3>6. IsFiniteSet(before \cup {x}) /\ Cardinality(before \cup {x}) = i + 1
            BY <3>5, FS_AddElement
        <3>7. Up(i + 1) = before \cup {x}
            BY <3>4 DEF before, x
        <3>. HIDE DEF Up
        <3>. QED
            BY <3>6, <3>7
    <2>. HIDE DEF T
    <2>3. Nat \subseteq T
        BY <2>1, <2>2, SetInduction
    <2>4. k \in Nat /\ k <= n /\ k \in T
        BY <2>3
    <2>. QED
        BY <2>4 DEF T
<1>14. \A k \in 1..n : /\ last[k] = last[k - 1] + EncodeLen(words[k])
                       /\ last[k] \in EndsIn(seq, base + 1, to)
                       /\ IsFiniteSet(EndsUpTo(seq, base + 1, to, last[k]))
                       /\ Cardinality(EndsUpTo(seq, base + 1, to, last[k])) = k
    BY <1>2, <1>9, <1>11, <1>13
<1>15. \A k \in 1..n : \A i \in 1..EncodeLen(words[k]) :
           seq[last[k - 1] + i] = Encode(words[k])[i]
    BY <1>2, <1>9
<1>16. EncodingsEnd(last, words, n, seq, base, to)
    BY <1>8, <1>14, <1>15 DEF EncodingsEnd
<1>17. last[n] = base + Len(FlattenSeq(seqs))
    BY <1>6, <1>8 DEF flat
<1>. QED
    BY <1>16, <1>17 DEF EncodedInARow

-----------------------------------------------------------------------------
(***************************************************************************)
(* How many bits and bytes of a word count.                                *)
(***************************************************************************)
LEMMA UnitsIs ==
    ASSUME NEW u \in Nat \ {0}, NEW m \in Nat \ {0}, NEW d \in 1..u
    PROVE  Units(u * (m - 1) + d, u) = m
<1>. DEFINE D == u * (m - 1) + d
<1>1. u * (m - 1) = u * m - u /\ u * (m - 1) \in Nat /\ u * m \in Nat
    <2>1. m - 1 \in Nat
        OBVIOUS
    <2>. QED
        BY <2>1
<1>2. D # 0 /\ D + u - 1 = u * m + (d - 1) /\ d - 1 \in 0..u-1
    BY <1>1
<1>. HIDE DEF D
<1>3. (u * m + (d - 1)) \div u = m
    BY <1>2, QuotientIs
<1>. QED
    BY <1>2, <1>3 DEF Units, D

\* The last S bits of a word, and no fewer, hold all its ones.
TakesBits(w, S) ==
    /\ S \in 0..WordBits
    /\ \A k \in 0..WordBits-1 : BitOfWord(w, k) = 1 => WordBits - S <= k
    /\ S > 0 => BitOfWord(w, WordBits - S) = 1

LEMMA TakesBitsOnce ==
    ASSUME NEW w \in Word, NEW S, NEW T, TakesBits(w, S), TakesBits(w, T)
    PROVE  S = T
<1>. WordBits \in Nat
    BY Sizes DEF WordBits
<1>1. ASSUME NEW A \in 0..WordBits, NEW B \in 0..WordBits, A < B,
             \A k \in 0..WordBits-1 : BitOfWord(w, k) = 1 => WordBits - A <= k,
             BitOfWord(w, WordBits - B) = 1
      PROVE  FALSE
    <2>1. WordBits - B \in 0..WordBits-1
        BY <1>1
    <2>. QED
        BY <1>1, <2>1
<1>2. S \in 0..WordBits /\ T \in 0..WordBits
    BY DEF TakesBits
<1>3. ~(S < T)
    BY <1>1, <1>2 DEF TakesBits
<1>4. ~(T < S)
    BY <1>1, <1>2 DEF TakesBits
<1>. QED
    BY <1>2, <1>3, <1>4

\* The last byte that is not zero.
LEMMA LastByte ==
    ASSUME NEW w \in Word
    PROVE  \E m \in 0..IntBytes :
              /\ Width(w) = Units(ByteBits * m, ByteBits)
              /\ m > 0 => w[m] # 0
              /\ \A i \in 1..IntBytes : w[i] # 0 => i <= m
<1>. DEFINE I == {i \in 1..IntBytes : w[i] # 0}
            m == IF I # {} THEN Max(I) ELSE 0
<1>1. IntBytes \in Nat /\ w \in [1..IntBytes -> Byte]
    BY Sizes DEF Word
<1>2. w \in Seq(Byte) /\ Len(w) = IntBytes
    <2>1. w \in Seq(Byte) /\ DOMAIN w = 1..IntBytes
        BY <1>1
    <2>. QED
        BY <1>1, <2>1, LenProperties
<1>3. Width(w) = Units(ByteBits * m, ByteBits)
    BY <1>2 DEF Width, SelectLastInSeq
<1>4. CASE I # {}
    <2>1. I \in SUBSET Nat /\ \A i \in I : i <= IntBytes
        BY <1>1
    <2>. HIDE DEF I
    <2>2. Max(I) \in I /\ \A i \in I : i <= Max(I)
        BY <1>1, <1>4, <2>1, MaxOf
    <2>3. m = Max(I)
        BY <1>4
    <2>. HIDE DEF m
    <2>4. m \in I /\ \A i \in I : i <= m
        BY <2>2, <2>3
    <2>5. m \in 0..IntBytes /\ m > 0 /\ w[m] # 0
        BY <1>1, <2>4 DEF I
    <2>6. \A i \in 1..IntBytes : w[i] # 0 => i <= m
        BY <2>4 DEF I
    <2>. QED
        BY <1>3, <2>5, <2>6
<1>5. CASE I = {}
    <2>1. m = 0 /\ \A i \in 1..IntBytes : w[i] = 0
        BY <1>5
    <2>. HIDE DEF m, I
    <2>. QED
        BY <1>1, <1>3, <2>1
<1>. QED
    BY <1>4, <1>5

\* Bit i of byte m of a word is this bit of the word.
LEMMA BitInWord ==
    ASSUME NEW w \in Word, NEW m \in 1..IntBytes, NEW i \in 0..ByteBits-1
    PROVE  /\ WordBits - ByteBits * m + i \in 0..WordBits-1
           /\ BitOfWord(w, WordBits - ByteBits * m + i) = Bit(w[m], i)
           /\ IntBytes - (WordBits - ByteBits * m + i) \div ByteBits = m
<1>. DEFINE q == IntBytes - m
            k == ByteBits * q + i
<1>1. ByteBits \in Nat \ {0} /\ IntBytes \in Nat \ {0} /\ WordBits = IntBytes * ByteBits
      /\ WordBits \in Nat /\ q \in Nat /\ m \in Nat /\ q <= IntBytes - 1 /\ IntBytes - q = m
    BY Sizes DEF WordBits
<1>2. ByteBits * q = WordBits - ByteBits * m /\ ByteBits * q \in Nat /\ ByteBits * m \in Nat
    BY <1>1
<1>3. ByteBits * (IntBytes - 1) = WordBits - ByteBits
    BY <1>1
<1>4. ByteBits * q <= ByteBits * (IntBytes - 1)
    BY <1>1, TimesGrows
<1>5. k = WordBits - ByteBits * m + i /\ k \in 0..WordBits-1
    BY <1>1, <1>2, <1>3, <1>4
<1>6. k \div ByteBits = q /\ k % ByteBits = i
    BY <1>1, QuotientIs
<1>. HIDE DEF k, q
<1>. QED
    BY <1>1, <1>5, <1>6 DEF BitOfWord

LEMMA WidthByBits ==
    ASSUME NEW w \in Word
    PROVE  \E T : TakesBits(w, T) /\ Width(w) = Units(T, ByteBits) /\ Width(w) \in 1..IntBytes
<1>1. PICK m \in 0..IntBytes :
          /\ Width(w) = Units(ByteBits * m, ByteBits)
          /\ m > 0 => w[m] # 0
          /\ \A i \in 1..IntBytes : w[i] # 0 => i <= m
    BY LastByte
<1>2. ByteBits \in Nat \ {0} /\ IntBytes \in Nat \ {0} /\ WordBits \in Nat /\ m \in Nat
      /\ WordBits = ByteBits * IntBytes
    BY Sizes DEF WordBits
<1>3. ASSUME NEW b \in Byte, NEW i \in 0..ByteBits-1, b = 0 PROVE Bit(b, i) # 1
    BY <1>2, <1>3, DigitsOfByte
<1>4. ASSUME NEW k \in 0..WordBits-1, BitOfWord(w, k) = 1
      PROVE  LET q == IntBytes - k \div ByteBits
             IN  q \in 1..m /\ k = WordBits - ByteBits * q + (k % ByteBits)
                 /\ k % ByteBits \in 0..ByteBits-1 /\ Bit(w[q], k % ByteBits) = 1
    <2>. DEFINE p == k \div ByteBits
                q == IntBytes - p
                r == k % ByteBits
    <2>1. p \in 0..IntBytes-1 /\ r \in 0..ByteBits-1 /\ q \in 1..IntBytes /\ w[q] \in Byte
          /\ k = ByteBits * p + r /\ Bit(w[q], r) = 1
        BY <1>4, ByteOfBit DEF BitOfWord
    <2>. HIDE DEF p, r
    <2>2. w[q] # 0
        BY <1>3, <2>1
    <2>3. q <= m
        BY <1>1, <2>1, <2>2
    <2>4. ByteBits * q = ByteBits * IntBytes - ByteBits * p
        BY <1>2, <2>1
    <2>5. ByteBits * p \in Nat
        BY <1>2, <2>1
    <2>6. k = WordBits - ByteBits * q + r
        BY <1>2, <2>1, <2>4, <2>5
    <2>. QED
        BY <2>1, <2>3, <2>6 DEF p, r
<1>5. CASE m = 0
    <2>1. ByteBits * m = 0
        BY <1>2, <1>5
    <2>2. Width(w) = 1 /\ Units(0, ByteBits) = 1
        BY <1>1, <2>1 DEF Units
    <2>3. \A k \in 0..WordBits-1 : BitOfWord(w, k) # 1
        BY <1>4, <1>5
    <2>4. TakesBits(w, 0)
        BY <1>2, <2>3 DEF TakesBits
    <2>. QED
        BY <1>2, <2>2, <2>4
<1>6. CASE m # 0
    <2>1. m \in 1..IntBytes /\ m \in Nat \ {0} /\ w[m] # 0
        BY <1>1, <1>2, <1>6
    <2>2. w[m] \in Byte
        BY <2>1 DEF Word
    <2>. DEFINE d == Digits(w[m])
                T == ByteBits * (m - 1) + d
    <2>3. /\ d \in 1..ByteBits
          /\ \A i \in 0..ByteBits-1 : Bit(w[m], i) = 1 => ByteBits - d <= i
          /\ Bit(w[m], ByteBits - d) = 1
        <3>1. /\ Digits(w[m]) \in 0..ByteBits
              /\ \A i \in 0..ByteBits-1 : Bit(w[m], i) = 1 => ByteBits - Digits(w[m]) <= i
              /\ Digits(w[m]) = 0 <=> w[m] = 0
              /\ Digits(w[m]) > 0 => Bit(w[m], ByteBits - Digits(w[m])) = 1
            BY <2>2, DigitsOfByte
        <3>2. d \in 0..ByteBits /\ d # 0
            BY <2>1, <3>1
        <3>. HIDE DEF d
        <3>3. d \in 1..ByteBits /\ d > 0
            BY <1>2, <3>2
        <3>. QED
            BY <3>1, <3>3 DEF d
    <2>. HIDE DEF d
    <2>4. ByteBits * (m - 1) = ByteBits * m - ByteBits /\ ByteBits * m \in Nat
          /\ ByteBits * (m - 1) \in Nat
        <3>1. m - 1 \in Nat
            BY <2>1
        <3>. QED
            BY <1>2, <3>1
    <2>5. T \in Nat /\ T > 0 /\ T = ByteBits * m - ByteBits + d
        BY <1>2, <2>3, <2>4
    <2>6. /\ WordBits - ByteBits * m + (ByteBits - d) \in 0..WordBits-1
          /\ BitOfWord(w, WordBits - ByteBits * m + (ByteBits - d)) = 1
        <3>1. ByteBits - d \in 0..ByteBits-1
            BY <1>2, <2>3
        <3>. QED
            BY <2>1, <2>3, <3>1, BitInWord
    <2>7. WordBits - T = WordBits - ByteBits * m + (ByteBits - d)
        BY <1>2, <2>3, <2>4, <2>5
    <2>. HIDE DEF T
    <2>8. ASSUME NEW k \in 0..WordBits-1, BitOfWord(w, k) = 1 PROVE WordBits - T <= k
        <3>. DEFINE q == IntBytes - k \div ByteBits
                    r == k % ByteBits
        <3>1. q \in 1..m /\ k = WordBits - ByteBits * q + r /\ r \in 0..ByteBits-1
              /\ Bit(w[q], r) = 1
            BY <1>4, <2>8
        <3>. HIDE DEF q, r
        <3>2. CASE q = m
            <4>1. ByteBits - d <= r
                BY <2>3, <3>1, <3>2
            <4>. QED
                BY <1>2, <2>3, <2>4, <2>7, <3>1, <3>2, <4>1
        <3>3. CASE q # m
            <4>1. q \in Nat /\ q <= m - 1 /\ m - 1 \in Nat
                BY <1>2, <3>1, <3>3
            <4>2. ByteBits * q <= ByteBits * (m - 1) /\ ByteBits * q \in Nat
                BY <1>2, <4>1, TimesGrows
            <4>. QED
                BY <1>2, <2>3, <2>4, <2>7, <3>1, <4>2
        <3>. QED
            BY <3>2, <3>3
    <2>9. TakesBits(w, T)
        <3>1. T \in 0..WordBits
            BY <1>2, <2>5, <2>6, <2>7
        <3>. QED
            BY <2>6, <2>7, <2>8, <3>1 DEF TakesBits
    <2>10. Units(T, ByteBits) = m
        BY <1>2, <2>1, <2>3, UnitsIs DEF T
    <2>11. Units(ByteBits * m, ByteBits) = m
        <3>1. ByteBits \in 1..ByteBits /\ ByteBits * (m - 1) + ByteBits = ByteBits * m
            BY <1>2, <2>4
        <3>2. Units(ByteBits * (m - 1) + ByteBits, ByteBits) = m
            BY <1>2, <2>1, <3>1, UnitsIs
        <3>. QED
            BY <3>1, <3>2
    <2>. QED
        BY <1>1, <2>1, <2>9, <2>10, <2>11
<1>. QED
    BY <1>5, <1>6

-----------------------------------------------------------------------------
(***************************************************************************)
(* Decoding what was encoded: the bits that Decode reads are those that    *)
(* Encode wrote, and it writes the bytes that count and no other.          *)
(***************************************************************************)
\* The group in a byte, without the mark.
LEMMA GroupOfByte ==
    ASSUME NEW b \in Byte
    PROVE  /\ b % Cont \in Byte
           /\ \A j \in 1..GroupBits : Bit(b % Cont, j) = Bit(b, j)
           /\ Bit(b % Cont, 0) = 0
           /\ b = Cont => b % Cont = 0
           /\ b % Cont = 0 => b = Cont \/ b = 0
<1>. DEFINE bits == [j \in 1..GroupBits |-> Bit(b, j)]
            t == Bit(b, 0)
            g == NumberOf(bits)
<1>1. bits \in [1..GroupBits -> 0..1] /\ t \in 0..1
    <2>1. \A j \in 1..GroupBits : j \in 0..ByteBits-1
        BY Sizes
    <2>2. 0 \in 0..ByteBits-1
        BY Sizes
    <2>. QED
        BY <2>1, <2>2, BitIsBit
<1>2. b = t * Cont + g
    <2>1. NumberOf([j \in 1..GroupBits+1 |-> IF j = 1 THEN t ELSE bits[j - 1]]) = t * Cont + g
        BY <1>1, Sizes, TopDigit DEF Cont
    <2>2. [j \in 1..GroupBits+1 |-> IF j = 1 THEN t ELSE bits[j - 1]]
             = [j \in 1..ByteBits |-> Bit(b, j - 1)]
        <3>1. GroupBits + 1 = ByteBits /\ ByteBits \in Nat /\ GroupBits \in Nat
            BY Sizes
        <3>2. ASSUME NEW j \in 1..ByteBits
              PROVE  (IF j = 1 THEN t ELSE bits[j - 1]) = Bit(b, j - 1)
            <4>1. j = 1 => j - 1 = 0
                OBVIOUS
            <4>2. j # 1 => j - 1 \in 1..GroupBits
                BY <3>1
            <4>. QED
                BY <4>1, <4>2
        <3>. QED
            BY <3>1, <3>2
    <2>. QED
        BY <2>1, <2>2, BitsOfByte
<1>3. /\ g \in 0..Cont-1
      /\ \A j \in 1..GroupBits : Bit(g, j) = bits[j]
    <2>1. PICK z \in 0..1 : z = 0
        OBVIOUS
    <2>. HIDE DEF bits
    <2>2. /\ \A j \in 1..GroupBits : Bit(NumberOf(bits) + z * Cont, j) = bits[j]
          /\ NumberOf(bits) \in 0..Cont - 1
        BY <1>1, MarkedGroup
    <2>3. NumberOf(bits) + z * Cont = NumberOf(bits)
        BY <2>1, <2>2, Sizes
    <2>. QED
        BY <2>2, <2>3
<1>4. Bit(g, 0) = 0
    <2>1. ByteBits - 1 - 0 = GroupBits
        BY Sizes
    <2>2. Bit(g, 0) = (g \div Cont) % 2
        BY <2>1 DEF Bit, Cont
    <2>3. Cont * 0 + g = g /\ Cont \in Nat \ {0}
        BY <1>3, Sizes
    <2>. HIDE DEF g
    <2>4. g \div Cont = 0
        BY <1>3, <2>3, QuotientIs
    <2>. QED
        BY <2>2, <2>4
<1>. HIDE DEF g
<1>5. b % Cont = g
    <2>1. b = Cont * t + g /\ Cont \in Nat \ {0} /\ t \in Nat
        BY <1>1, <1>2, <1>3, Sizes
    <2>. HIDE DEF t
    <2>. QED
        BY <1>3, <2>1, QuotientIs
<1>6. g \in Byte
    BY <1>3, Sizes
<1>7. (b = Cont => g = 0) /\ (g = 0 => b = Cont \/ b = 0)
    <2>1. t = 0 \/ t = 1
        BY <1>1
    <2>. HIDE DEF t
    <2>. QED
        BY <1>2, <1>3, <2>1, Sizes
<1>. QED
    BY <1>3, <1>4, <1>5, <1>6, <1>7

IsSeq(array) == \E S : array \in Seq(S)

BeginsWith(from, w) ==
    /\ IsSeq(from) /\ EncodeLen(w) <= Len(from)
    /\ \A i \in 1..EncodeLen(w) : from[i] = Encode(w)[i]

\* What a reader of an encoding sees of it: bytes, the mark, the bits.
LEMMA CodeAtFront ==
    ASSUME NEW w \in Word, NEW from, BeginsWith(from, w)
    PROVE  /\ EncodeLen(w) \in Nat \ {0} /\ Len(from) \in Nat /\ EncodeLen(w) <= Len(from)
           /\ \A i \in 1..EncodeLen(w) : from[i] \in Byte
           /\ \A i \in 1..EncodeLen(w) : from[i] < Cont <=> i = EncodeLen(w)
           /\ \A i \in 1..EncodeLen(w), j \in 1..GroupBits :
                 Bit(from[i], j) = BitOfCode(w, i, j)
<1>1. EncodeLen(w) \in Nat \ {0} /\ Len(from) \in Nat /\ EncodeLen(w) <= Len(from)
    BY LengthOfEncoding, LenProperties DEF BeginsWith, IsSeq
<1>2. \A i \in 1..EncodeLen(w) : from[i] = Encode(w)[i]
    BY DEF BeginsWith
<1>3. \A i \in 1..EncodeLen(w) : from[i] \in Byte
    BY <1>2, EncodedWord
<1>4. \A i \in 1..EncodeLen(w) : from[i] < Cont <=> i = EncodeLen(w)
    BY <1>2, EncodedWord
<1>5. \A i \in 1..EncodeLen(w), j \in 1..GroupBits : Bit(from[i], j) = BitOfCode(w, i, j)
    BY <1>2, EncodedWord
<1>. QED
    BY <1>1, <1>3, <1>4, <1>5

LEMMA LastGroupOfCode ==
    ASSUME NEW w \in Word, NEW from, BeginsWith(from, w)
    PROVE  Decodable(from) /\ LastGroup(from) = EncodeLen(w)
<1>. DEFINE n == EncodeLen(w)
            I == {i \in 1..Len(from) : from[i] < Cont}
<1>1. /\ n \in Nat \ {0} /\ Len(from) \in Nat /\ n <= Len(from)
      /\ \A i \in 1..n : from[i] < Cont <=> i = n
    BY CodeAtFront
<1>. HIDE DEF n
<1>2. n \in 1..Len(from) /\ from[n] < Cont /\ n \in I
    BY <1>1
<1>3. ASSUME NEW i \in I PROVE n <= i
    <2>1. i \in Nat /\ i >= 1 /\ from[i] < Cont
        OBVIOUS
    <2>. HIDE DEF I
    <2>2. i \in 1..n => i = n
        BY <1>1, <2>1
    <2>. QED
        BY <1>1, <2>1, <2>2
<1>4. I \in SUBSET Nat
    OBVIOUS
<1>5. LastGroup(from) = IF I # {} THEN Min(I) ELSE 0
    BY DEF LastGroup, SelectInSeq
<1>6. Decodable(from)
    <2>1. PICK S : from \in Seq(S)
        BY DEF BeginsWith, IsSeq
    <2>2. DOMAIN from = 1..Len(from)
        BY <2>1, LenProperties
    <2>. QED
        BY <1>2, <2>2 DEF Decodable
<1>. HIDE DEF I
<1>7. Min(I) = n
    BY <1>2, <1>3, <1>4, MinIs
<1>. QED
    BY <1>2, <1>5, <1>6, <1>7 DEF n

LEMMA FirstGroupOfCode ==
    ASSUME NEW w \in Word, NEW from, BeginsWith(from, w)
    PROVE  /\ FirstGroup(from) \in 1..EncodeLen(w)
           /\ from[FirstGroup(from)] # Cont
           /\ \A i \in 1..EncodeLen(w) : i < FirstGroup(from) => from[i] = Cont
<1>. DEFINE n == EncodeLen(w)
            I == {i \in 1..Len(from) : from[i] # Cont}
<1>1. /\ n \in Nat \ {0} /\ Len(from) \in Nat /\ n <= Len(from)
      /\ from[n] < Cont
    BY CodeAtFront
<1>. HIDE DEF n
<1>2. n \in I /\ I \in SUBSET Nat
    BY <1>1, Sizes
<1>3. FirstGroup(from) = IF I # {} THEN Min(I) ELSE 0
    BY DEF FirstGroup, SelectInSeq
<1>4. \A i \in 1..n : i \in I \/ from[i] = Cont
    BY <1>1
<1>5. \A i \in I : i >= 1 /\ from[i] # Cont
    OBVIOUS
<1>. HIDE DEF I
<1>6. Min(I) \in I /\ \A i \in I : Min(I) <= i
    BY <1>2, MinOf
<1>7. FirstGroup(from) = Min(I) /\ Min(I) \in Nat
    BY <1>2, <1>3, <1>6
<1>8. FirstGroup(from) \in 1..n
    BY <1>1, <1>2, <1>5, <1>6, <1>7
<1>9. \A i \in 1..n : i < FirstGroup(from) => from[i] = Cont
    BY <1>1, <1>4, <1>6, <1>7
<1>. QED
    BY <1>5, <1>6, <1>7, <1>8, <1>9 DEF n

\* How many bits follow in and after the first group that counts.
LEMMA BitsOfCode ==
    ASSUME NEW w \in Word, NEW from, BeginsWith(from, w)
    PROVE  LET f == FirstGroup(from)
               d == Digits(from[f] % Cont)
               S == (EncodeLen(w) - f) * GroupBits + d
           IN  d \in 0..GroupBits /\ TakesBits(w, S)
<1>. DEFINE n == EncodeLen(w)
            f == FirstGroup(from)
            b == from[f] % Cont
            d == Digits(b)
            N == (n - f) * GroupBits
            S == N + d
<1>1. /\ n \in Nat \ {0} /\ GroupBits \in Nat \ {0} /\ WordBits \in Nat
      /\ \A i \in 1..n : from[i] \in Byte
      /\ \A i \in 1..n : from[i] < Cont <=> i = n
      /\ \A i \in 1..n, j \in 1..GroupBits : Bit(from[i], j) = BitOfCode(w, i, j)
    BY CodeAtFront, Sizes DEF WordBits
<1>2. /\ f \in 1..n /\ from[f] # Cont
      /\ \A i \in 1..n : i < f => from[i] = Cont
    BY FirstGroupOfCode
<1>. HIDE DEF f
<1>3. from[f] \in Byte
    BY <1>1, <1>2
<1>4. /\ b \in Byte /\ \A j \in 1..GroupBits : Bit(b, j) = BitOfCode(w, f, j)
      /\ Bit(b, 0) = 0 /\ (b = 0 => from[f] = 0)
    BY <1>1, <1>2, <1>3, GroupOfByte
<1>. HIDE DEF b
<1>5. /\ d \in 0..ByteBits /\ (d = 0 <=> b = 0)
      /\ \A i \in 0..ByteBits-1 : Bit(b, i) = 1 => ByteBits - d <= i
      /\ d > 0 => Bit(b, ByteBits - d) = 1
    BY <1>4, DigitsOfByte
<1>. HIDE DEF d
<1>6. d \in 0..GroupBits
    <2>1. d # ByteBits
        <3>1. d = ByteBits => d > 0 /\ ByteBits - d = 0
            BY Sizes
        <3>. QED
            BY <1>4, <1>5, <3>1
    <2>. QED
        BY <1>5, <2>1, Sizes
<1>7. \A i \in 1..n, j \in 1..GroupBits :
          BitOfCode(w, i, j) = 1 <=> PlaceInWord(w, i, j) \in 0..WordBits-1
                                     /\ BitOfWord(w, PlaceInWord(w, i, j)) = 1
    <2>. SUFFICES ASSUME NEW i \in 1..n, NEW j \in 1..GroupBits
                  PROVE  BitOfCode(w, i, j) = 1 <=> PlaceInWord(w, i, j) \in 0..WordBits-1
                                     /\ BitOfWord(w, PlaceInWord(w, i, j)) = 1
        OBVIOUS
    <2>1. PlaceInWord(w, i, j) \in Int /\ PlaceInWord(w, i, j) < WordBits
        BY PlacesAreInWord
    <2>. QED
        BY <1>1, <2>1 DEF BitOfCode
<1>8. N \in Nat
    <2>1. n - f \in Nat
        BY <1>1, <1>2
    <2>. QED
        BY <1>1, <2>1
<1>9. ASSUME NEW i \in 1..n, NEW j \in 1..GroupBits, BitOfCode(w, i, j) = 1
      PROVE  WordBits - 1 - PlaceInWord(w, i, j) < S
    <2>. DEFINE p == WordBits - 1 - PlaceInWord(w, i, j)
    <2>1. p = (n - i) * GroupBits + GroupBits - j
        BY PlacesAreInWord
    <2>2. ~(i < f)
        <3>1. ASSUME i < f PROVE FALSE
            <4>1. from[i] = Cont /\ from[i] \in Byte /\ Bit(from[i], j) = 1
                BY <1>1, <1>2, <1>9, <3>1
            <4>2. from[i] % Cont = 0 /\ Bit(from[i] % Cont, j) = 1
                BY <4>1, GroupOfByte
            <4>3. 0 \in Byte /\ Bit(0, j) = 1 /\ j \in 0..ByteBits-1
                BY <4>2, Sizes
            <4>4. ByteBits - Digits(0) <= j /\ Digits(0) = 0
                BY <4>3, DigitsOfByte
            <4>. QED
                BY <4>3, <4>4, Sizes
        <3>. QED
            BY <3>1
    <2>3. CASE i = f
        <3>1. Bit(b, j) = 1 /\ j \in 0..ByteBits-1
            BY <1>4, <1>9, <2>3, Sizes
        <3>2. ByteBits - d <= j
            BY <1>5, <3>1
        <3>3. p = N + GroupBits - j
            BY <2>1, <2>3
        <3>. HIDE DEF p, N
        <3>. QED
            BY <1>6, <1>8, <3>2, <3>3, Sizes DEF p
    <2>4. CASE i > f
        <3>1. n - i \in Nat /\ n - f \in Nat /\ (n - i) + 1 <= n - f /\ (n - i) + 1 \in Nat
            BY <1>1, <1>2, <2>4
        <3>2. GroupBits * ((n - i) + 1) <= GroupBits * (n - f)
            BY <1>1, <3>1, TimesGrows
        <3>3. GroupBits * ((n - i) + 1) = (n - i) * GroupBits + GroupBits
              /\ GroupBits * (n - f) = N /\ (n - i) * GroupBits \in Nat
            BY <1>1, <3>1
        <3>. HIDE DEF p, N
        <3>. QED
            BY <1>1, <1>6, <1>8, <2>1, <3>2, <3>3 DEF p
    <2>5. i \in Nat /\ f \in Nat
        BY <1>2
    <2>. QED
        BY <2>2, <2>3, <2>4, <2>5
<1>10. CASE d = 0
    <2>1. from[f] = 0 /\ f = n
        BY <1>1, <1>2, <1>4, <1>5, <1>10, Sizes
    <2>2. n - f = 0 /\ N = 0 /\ S = 0
        BY <1>1, <1>10, <2>1
    <2>3. ASSUME NEW k \in 0..WordBits-1 PROVE BitOfWord(w, k) # 1
        <3>1. SUFFICES ASSUME BitOfWord(w, k) = 1 PROVE FALSE
            OBVIOUS
        <3>2. PICK i \in 1..n, j \in 1..GroupBits : PlaceInWord(w, i, j) = k
            BY <3>1, LeftOutIsZero, PlaceOfBit
        <3>3. BitOfCode(w, i, j) = 1
            BY <1>7, <3>1, <3>2
        <3>4. WordBits - 1 - k < 0
            BY <1>9, <2>2, <3>2, <3>3
        <3>. QED
            BY <1>1, <3>4
    <2>4. TakesBits(w, 0)
        BY <1>1, <2>3 DEF TakesBits
    <2>. QED
        BY <1>6, <2>2, <2>4 DEF d, b, f
<1>11. CASE d # 0
    <2>. DEFINE j == ByteBits - d
                k == PlaceInWord(w, f, j)
    <2>1. j \in 1..GroupBits /\ d > 0
        BY <1>6, <1>11, Sizes
    <2>2. BitOfCode(w, f, j) = 1
        BY <1>4, <1>5, <2>1
    <2>3. k \in 0..WordBits-1 /\ BitOfWord(w, k) = 1
        BY <1>2, <1>7, <2>1, <2>2
    <2>4. WordBits - 1 - k = N + GroupBits - j
        BY <1>2, <2>1, PlacesAreInWord
    <2>. HIDE DEF k, N
    <2>5. WordBits - S = k
        BY <1>1, <1>6, <1>8, <2>3, <2>4, Sizes
    <2>6. S \in 0..WordBits
        BY <1>1, <1>6, <1>8, <2>3, <2>5
    <2>. HIDE DEF S
    <2>7. ASSUME NEW h \in 0..WordBits-1, BitOfWord(w, h) = 1 PROVE WordBits - S <= h
        <3>1. PICK i \in 1..n, g \in 1..GroupBits : PlaceInWord(w, i, g) = h
            BY <2>7, LeftOutIsZero, PlaceOfBit
        <3>2. BitOfCode(w, i, g) = 1
            BY <1>7, <2>7, <3>1
        <3>3. WordBits - 1 - h < S
            BY <1>9, <3>1, <3>2 DEF S
        <3>. QED
            BY <1>1, <2>6, <3>3
    <2>8. TakesBits(w, S)
        BY <2>3, <2>5, <2>6, <2>7 DEF TakesBits
    <2>. QED
        BY <1>6, <2>8 DEF S, N, d, b, f
<1>. QED
    BY <1>10, <1>11

\* What a word holds after another was decoded into it.
DecodedInto(to, w) == [i \in 1..IntBytes |-> IF i <= Width(w) THEN w[i] ELSE to[i]]

LEMMA DecodedLength ==
    ASSUME NEW w \in Word, NEW from, BeginsWith(from, w)
    PROVE  DecodeLen(from) = Width(w) /\ Width(w) \in 1..IntBytes
<1>. DEFINE S == (EncodeLen(w) - FirstGroup(from)) * GroupBits + Digits(from[FirstGroup(from)] % Cont)
<1>1. TakesBits(w, S)
    BY BitsOfCode
<1>2. DecodeLen(from) = Units(S, ByteBits)
    BY LastGroupOfCode DEF DecodeLen
<1>. HIDE DEF S
<1>3. PICK T : TakesBits(w, T) /\ Width(w) = Units(T, ByteBits) /\ Width(w) \in 1..IntBytes
    BY WidthByBits
<1>4. S = T
    BY <1>1, <1>3, TakesBitsOnce
<1>. QED
    BY <1>2, <1>3, <1>4

\* Bit k of the groups that count, the most significant being bit 0.
CodeBitAt(from, k) ==
    IF k < 0 THEN 0
    ELSE Bit(from[FirstGroup(from) + k \div GroupBits], (k % GroupBits) + 1)

LEMMA DecodedBit ==
    ASSUME NEW w \in Word, NEW from, BeginsWith(from, w),
           NEW i \in 1..IntBytes, NEW j \in 1..ByteBits, NEW k \in Int,
           k = (EncodeLen(w) - FirstGroup(from) + 1) * GroupBits - i * ByteBits + j - 1
    PROVE  CodeBitAt(from, k) = Bit(w[i], j - 1)
<1>. DEFINE n == EncodeLen(w)
            f == FirstGroup(from)
            M == (n - f + 1) * GroupBits
            K == WordBits - ByteBits * i + (j - 1)
<1>1. /\ n \in Nat \ {0} /\ GroupBits \in Nat \ {0} /\ WordBits \in Nat /\ f \in 1..n
      /\ ByteBits \in Nat \ {0} /\ ByteBits = GroupBits + 1 /\ i \in Nat /\ i >= 1
      /\ WordBits = ByteBits * IntBytes /\ IntBytes \in Nat
    BY CodeAtFront, FirstGroupOfCode, Sizes DEF WordBits
<1>2. \A a \in 1..n, b \in 1..GroupBits : Bit(from[a], b) = BitOfCode(w, a, b)
    BY CodeAtFront
<1>3. j - 1 \in 0..ByteBits-1
    BY <1>1
<1>4. K \in 0..WordBits-1 /\ BitOfWord(w, K) = Bit(w[i], j - 1)
    BY <1>3, BitInWord
<1>5. i * ByteBits = ByteBits * i /\ ByteBits * i \in Nat
    BY <1>1
<1>6. M \in Nat /\ M = GroupBits * (n - f + 1) /\ n - f + 1 \in Nat
    <2>1. n - f + 1 \in Nat
        BY <1>1
    <2>. QED
        BY <1>1, <2>1
<1>7. k = M - i * ByteBits + j - 1 /\ k < M /\ k = M + K - WordBits
    <2>1. ByteBits * 1 <= ByteBits * i
        BY <1>1, TimesGrows
    <2>2. k = M - i * ByteBits + j - 1
        OBVIOUS
    <2>. HIDE DEF M
    <2>. QED
        BY <1>1, <1>5, <1>6, <2>1, <2>2
<1>8. /\ n * GroupBits \in Nat /\ (f - 1) * GroupBits \in Nat
      /\ M = n * GroupBits - (f - 1) * GroupBits
    <2>1. f - 1 \in Nat
        BY <1>1
    <2>. QED
        BY <1>1, <2>1
<1>. HIDE DEF K
<1>9. CASE k < 0
    <2>. DEFINE S == (n - f) * GroupBits + Digits(from[f] % Cont)
    <2>1. TakesBits(w, S) /\ Digits(from[f] % Cont) \in 0..GroupBits
        BY BitsOfCode
    <2>2. (n - f) * GroupBits = M - GroupBits
        BY <1>1
    <2>. HIDE DEF M
    <2>3. S <= M
        BY <1>1, <1>6, <2>1, <2>2
    <2>4. BitOfWord(w, K) # 1
        <3>1. S \in 0..WordBits /\ (BitOfWord(w, K) = 1 => WordBits - S <= K)
            BY <1>4, <2>1 DEF TakesBits
        <3>. HIDE DEF S
        <3>. QED
            BY <1>1, <1>4, <1>6, <1>7, <1>9, <2>3, <3>1
    <2>5. BitOfWord(w, K) \in 0..1
        BY <1>4, ByteOfBit
    <2>. QED
        BY <1>4, <1>9, <2>4, <2>5 DEF CodeBitAt
<1>10. CASE k >= 0
    <2>. DEFINE q == k \div GroupBits
                r == k % GroupBits
    <2>1. k \in Nat /\ k < GroupBits * (n - f + 1)
        BY <1>6, <1>7, <1>10
    <2>2. q \in 0..n-f /\ r \in 0..GroupBits-1 /\ k = GroupBits * q + r
        <3>. DEFINE c == n - f + 1
        <3>1. c \in Nat /\ c - 1 = n - f /\ k < GroupBits * c
            BY <1>1, <1>6, <2>1
        <3>. HIDE DEF c
        <3>2. q \in 0..c-1
            BY <1>1, <2>1, <3>1, QuotientBelow
        <3>3. r \in 0..GroupBits-1 /\ k = GroupBits * q + r
            BY <1>1, <2>1, DivideBy
        <3>. QED
            BY <3>1, <3>2, <3>3
    <2>3. CodeBitAt(from, k) = Bit(from[f + q], r + 1)
        BY <1>1, <1>10 DEF CodeBitAt
    <2>. HIDE DEF q, r
    <2>4. f + q \in 1..n /\ r + 1 \in 1..GroupBits /\ q \in Nat
        BY <1>1, <2>2
    <2>5. Bit(from[f + q], r + 1) = BitOfCode(w, f + q, r + 1)
        BY <1>2, <2>4
    <2>6. PlaceInWord(w, f + q, r + 1) = K
        <3>1. PICK a \in 1..n, b \in 1..GroupBits : a = f + q /\ b = r + 1
            BY <2>4
        <3>2. PlaceInWord(w, a, b) = (a - 1) * GroupBits + b - 1 - (n * GroupBits - WordBits)
            BY DEF PlaceInWord
        <3>3. (a - 1) * GroupBits = (f - 1) * GroupBits + GroupBits * q
            BY <1>1, <2>4, <3>1
        <3>4. GroupBits * q \in Nat
            BY <1>1, <2>4
        <3>. DEFINE A == (a - 1) * GroupBits
                    F == (f - 1) * GroupBits
                    N == n * GroupBits
                    Q == GroupBits * q
        <3>5. /\ PlaceInWord(w, a, b) = A + b - 1 - (N - WordBits) /\ A = F + Q /\ M = N - F
              /\ F \in Nat /\ Q \in Nat /\ N \in Nat /\ k = Q + r
            BY <1>8, <2>2, <3>2, <3>3, <3>4
        <3>. HIDE DEF A, F, N, Q, M
        <3>6. PlaceInWord(w, a, b) = K
            BY <1>1, <1>4, <1>7, <2>2, <3>1, <3>5
        <3>. QED
            BY <3>1, <3>6
    <2>7. BitOfCode(w, f + q, r + 1) = BitOfWord(w, K)
        BY <1>4, <2>6 DEF BitOfCode
    <2>. QED
        BY <1>4, <2>3, <2>5, <2>7
<1>. QED
    BY <1>9, <1>10

LEMMA DecodedBytes ==
    ASSUME NEW w \in Word, NEW from, BeginsWith(from, w), NEW to
    PROVE  Decode(to, from) = DecodedInto(to, w)
<1>. DEFINE first == FirstGroup(from)
            len == DecodeLen(from)
            offset == (LastGroup(from) - first + 1) * GroupBits - len * ByteBits
            bits(i) == [j \in 1..ByteBits |->
                           CodeBitAt(from, (len - i) * ByteBits + j - 1 + offset)]
<1>1. Decode(to, from)
         = [i \in 1..IntBytes |-> IF i <= len THEN NumberOf(bits(i)) ELSE to[i]]
    BY Zenon DEF Decode, CodeBitAt
<1>2. len = Width(w) /\ len \in 1..IntBytes /\ LastGroup(from) = EncodeLen(w)
    BY DecodedLength, LastGroupOfCode
<1>3. /\ first \in Nat /\ EncodeLen(w) \in Nat /\ ByteBits \in Nat /\ GroupBits \in Nat
      /\ IntBytes \in Nat
    BY CodeAtFront, FirstGroupOfCode, Sizes
<1>4. ASSUME NEW i \in 1..IntBytes, i <= len PROVE NumberOf(bits(i)) = w[i]
    <2>. DEFINE M == (EncodeLen(w) - first + 1) * GroupBits
    <2>1. M \in Int /\ offset = M - len * ByteBits
        <3>1. EncodeLen(w) - first + 1 \in Int
            BY <1>3
        <3>. QED
            BY <1>2, <1>3, <3>1
    <2>. HIDE DEF M
    <2>2. len * ByteBits \in Int /\ i * ByteBits \in Int
          /\ (len - i) * ByteBits = len * ByteBits - i * ByteBits
        BY <1>2, <1>3
    <2>3. ASSUME NEW j \in 1..ByteBits PROVE bits(i)[j] = Bit(w[i], j - 1)
        <3>. DEFINE k == (len - i) * ByteBits + j - 1 + offset
        <3>1. bits(i)[j] = CodeBitAt(from, k)
            OBVIOUS
        <3>. HIDE DEF len, offset
        <3>2. k \in Int /\ k = M - i * ByteBits + j - 1
            BY <1>3, <2>1, <2>2
        <3>. HIDE DEF k, bits
        <3>. QED
            BY <3>1, <3>2, DecodedBit DEF M
    <2>4. bits(i) = [j \in 1..ByteBits |-> Bit(w[i], j - 1)]
        BY <2>3
    <2>5. w[i] \in Byte
        BY DEF Word
    <2>. QED
        BY <2>4, <2>5, BitsOfByte
<1>. HIDE DEF bits, len
<1>. QED
    BY <1>1, <1>2, <1>4 DEF DecodedInto

\* For integers and bytes of any size: wherever an encoding is followed by other
\* bytes, reading it stops behind it, gives the integer that was encoded, and
\* leaves the integer's high bytes as they were (bundle.c 332-417, 419-513).
THEOREM DecodingUndoesEncoding ==
    ASSUME NEW w \in Word, NEW from, BeginsWith(from, w), NEW to
    PROVE  /\ Decodable(from) /\ LastGroup(from) = EncodeLen(w)
           /\ DecodeLen(from) = Width(w) /\ Width(w) \in 1..IntBytes
           /\ Decode(to, from) = DecodedInto(to, w)
    BY LastGroupOfCode, DecodedLength, DecodedBytes

-----------------------------------------------------------------------------
(***************************************************************************)
(* Decoding integers that were encoded one after the other.                *)
(***************************************************************************)
EncodedAt(array, at, w) ==
    /\ IsSeq(array) /\ at \in Nat /\ at + EncodeLen(w) <= Len(array)
    /\ \A i \in 1..EncodeLen(w) : array[at + i] = Encode(w)[i]

TakenAt(array, at, w, num, f) ==
    TakeField(array, [num |-> num, at |-> at, ok |-> TRUE], f)
        = [num |-> [num EXCEPT ![f] = DecodedInto(num[f], w)],
           at |-> at + EncodeLen(w), ok |-> TRUE]

LEMMA TakeEncoded ==
    ASSUME NEW array, NEW at, NEW w \in Word, EncodedAt(array, at, w), NEW num, NEW f
    PROVE  TakenAt(array, at, w, num, f)
<1>. DEFINE rest == SubSeq(array, at + 1, Len(array))
            cursor == [num |-> num, at |-> at, ok |-> TRUE]
<1>. PICK S : array \in Seq(S)
    BY DEF EncodedAt, IsSeq
<1>. /\ at \in Nat /\ at + EncodeLen(w) <= Len(array)
     /\ \A i \in 1..EncodeLen(w) : array[at + i] = Encode(w)[i]
    BY DEF EncodedAt
<1>1. EncodeLen(w) \in Nat \ {0} /\ Len(array) \in Nat
    BY LengthOfEncoding, LenProperties
<1>2. /\ rest \in Seq(S) /\ Len(rest) = Len(array) - at
      /\ \A i \in 1..Len(array) - at : rest[i] = array[at + i]
    <2>1. at + 1 \in 1..Len(array)+1 /\ Len(array) \in 0..Len(array)
        BY <1>1
    <2>2. /\ SubSeq(array, at + 1, Len(array)) \in Seq(S)
          /\ Len(SubSeq(array, at + 1, Len(array)))
                = IF at + 1 <= Len(array) THEN Len(array) - (at + 1) + 1 ELSE 0
          /\ \A i \in 1..Len(array) - (at + 1) + 1 :
                SubSeq(array, at + 1, Len(array))[i] = array[(at + 1) + i - 1]
        BY <1>1, <2>1, SubSeqProperties
    <2>. HIDE DEF rest
    <2>3. Len(rest) = Len(array) - at
        BY <1>1, <2>2 DEF rest
    <2>4. ASSUME NEW i \in 1..Len(array) - at PROVE rest[i] = array[at + i]
        <3>1. i \in 1..Len(array) - (at + 1) + 1 /\ (at + 1) + i - 1 = at + i
            BY <1>1
        <3>. QED
            BY <2>2, <3>1 DEF rest
    <2>. QED
        BY <2>2, <2>3, <2>4 DEF rest
<1>. HIDE DEF rest
<1>3. BeginsWith(rest, w)
    <2>1. \A i \in 1..EncodeLen(w) : i \in 1..Len(array) - at
        BY <1>1
    <2>. QED
        BY <1>1, <1>2, <2>1 DEF BeginsWith, IsSeq
<1>4. Decodable(rest) /\ LastGroup(rest) = EncodeLen(w)
    BY <1>3, DecodingUndoesEncoding
<1>5. DecodeLen(rest) <= IntBytes
    BY <1>3, DecodingUndoesEncoding
<1>6. Decode(num[f], rest) = DecodedInto(num[f], w)
    BY <1>3, DecodingUndoesEncoding
<1>7. cursor.ok /\ cursor.at = at /\ cursor.num = num
    OBVIOUS
<1>8. TakeField(array, cursor, f)
        = [num |-> [num EXCEPT ![f] = Decode(num[f], rest)],
           at |-> at + LastGroup(rest), ok |-> TRUE]
    <2>1. rest = SubSeq(array, cursor.at + 1, Len(array))
        BY <1>7 DEF rest
    <2>2. cursor.ok /\ Decodable(rest) /\ DecodeLen(rest) <= IntBytes
        BY <1>4, <1>5, <1>7
    <2>3. [cursor.num EXCEPT ![f] = Decode(@, rest)] = [num EXCEPT ![f] = Decode(num[f], rest)]
        BY <1>7
    <2>. HIDE DEF cursor
    <2>4. TakeField(array, cursor, f)
            = [num |-> [cursor.num EXCEPT ![f] = Decode(@, rest)],
               at |-> cursor.at + LastGroup(rest), ok |-> TRUE]
        BY <2>1, <2>2, Zenon DEF TakeField
    <2>. QED
        BY <1>7, <2>3, <2>4
<1>. QED
    BY <1>4, <1>6, <1>8 DEF TakenAt

\* Take, field by field: the fold is over sets of positions.
TakesAll(g, m, array, cursor, fields) ==
    g = [s \in SUBSET (1..m) |->
            IF s = {} THEN cursor ELSE TakeField(array, g[s \ {Max(s)}], fields[Max(s)])]

LEMMA FieldsCanBeTaken ==
    ASSUME NEW array, NEW cursor, NEW fields, NEW n \in Nat
    PROVE  \E g : TakesAll(g, n, array, cursor, fields)
<1>. DEFINE T == {m \in Nat : \E g : TakesAll(g, m, array, cursor, fields)}
<1>1. 0 \in T
    <2>. DEFINE g == [s \in SUBSET (1..0) |-> cursor]
    <2>1. \A s \in SUBSET (1..0) : s = {}
        OBVIOUS
    <2>2. TakesAll(g, 0, array, cursor, fields)
        BY <2>1 DEF TakesAll
    <2>. QED
        BY <2>2
<1>2. ASSUME NEW m \in Nat, m \in T PROVE m + 1 \in T
    <2>1. PICK g : TakesAll(g, m, array, cursor, fields)
        BY <1>2
    <2>. DEFINE h == [s \in SUBSET (1..m+1) |->
                        IF m + 1 \in s THEN TakeField(array, g[s \ {m + 1}], fields[m + 1])
                        ELSE g[s]]
    <2>2. ASSUME NEW s \in SUBSET (1..m+1)
          PROVE  h[s] = IF s = {} THEN cursor
                        ELSE TakeField(array, h[s \ {Max(s)}], fields[Max(s)])
        <3>1. CASE m + 1 \in s
            <4>1. s \in SUBSET Nat /\ m + 1 \in Nat /\ \A i \in s : i <= m + 1
                OBVIOUS
            <4>2. Max(s) = m + 1
                BY <3>1, <4>1, MaxIs
            <4>3. s \ {m + 1} \in SUBSET (1..m+1) /\ h[s \ {m + 1}] = g[s \ {m + 1}]
                OBVIOUS
            <4>. QED
                BY <3>1, <4>2, <4>3
        <3>2. CASE m + 1 \notin s
            <4>1. s \in SUBSET (1..m)
                BY <3>2
            <4>2. h[s] = g[s]
                  /\ g[s] = IF s = {} THEN cursor
                            ELSE TakeField(array, g[s \ {Max(s)}], fields[Max(s)])
                BY <2>1, <3>2, <4>1 DEF TakesAll
            <4>3. h[s \ {Max(s)}] = g[s \ {Max(s)}]
                BY <3>2
            <4>. QED
                BY <4>2, <4>3
        <3>. QED
            BY <3>1, <3>2
    <2>3. TakesAll(h, m + 1, array, cursor, fields)
        <3>1. h = [s \in SUBSET (1..m+1) |-> h[s]]
            OBVIOUS
        <3>. HIDE DEF h
        <3>. QED
            BY <2>2, <3>1 DEF TakesAll
    <2>. QED
        BY <2>3
<1>. HIDE DEF T
<1>3. n \in T
    BY <1>1, <1>2, SetInduction
<1>. QED
    BY <1>3 DEF T

LEMMA FirstOnes ==
    ASSUME NEW n \in Nat, NEW k \in 1..n
    PROVE  1..k \in SUBSET (1..n) /\ 1..k # {} /\ Max(1..k) = k /\ (1..k) \ {k} = 1..k-1
<1>1. /\ 1..k \in SUBSET (1..n) /\ 1..k # {} /\ 1..k \in SUBSET Nat
      /\ k \in 1..k /\ \A i \in 1..k : i <= k
    OBVIOUS
<1>2. (1..k) \ {k} = 1..k-1
    OBVIOUS
<1>. QED
    BY <1>1, <1>2, MaxIs

\* The cursor before the first field and after each.
Cursors(c, n, array, cursor, fields) ==
    /\ c[0] = cursor /\ c[n] = Take(array, cursor, fields)
    /\ \A k \in 1..n : c[k] = TakeField(array, c[k - 1], fields[k])

LEMMA TakeByFields ==
    ASSUME NEW array, NEW cursor, NEW fields, NEW n \in Nat, DOMAIN fields = 1..n
    PROVE  \E c : Cursors(c, n, array, cursor, fields)
<1>. DEFINE g == CHOOSE g : TakesAll(g, n, array, cursor, fields)
<1>1. TakesAll(g, n, array, cursor, fields)
    BY FieldsCanBeTaken
<1>2. Take(array, cursor, fields) = g[1..n]
    BY DEF Take, FoldLeft, MapThenFoldSet, TakesAll
<1>. HIDE DEF g
<1>3. \A s \in SUBSET (1..n) :
          g[s] = IF s = {} THEN cursor ELSE TakeField(array, g[s \ {Max(s)}], fields[Max(s)])
    BY <1>1, Zenon DEF TakesAll
<1>. DEFINE c == [k \in 0..n |-> g[1..k]]
<1>4. ASSUME NEW k \in 1..n PROVE c[k] = TakeField(array, c[k - 1], fields[k])
    <2>. HIDE DEF c
    <2>1. 1..k \in SUBSET (1..n) /\ 1..k # {} /\ Max(1..k) = k /\ (1..k) \ {k} = 1..k-1
        BY FirstOnes
    <2>4. g[1..k] = TakeField(array, g[1..k-1], fields[k])
        BY <1>3, <2>1
    <2>5. c[k] = g[1..k] /\ c[k - 1] = g[1..k-1]
        BY DEF c
    <2>. QED
        BY <2>4, <2>5
<1>5. c[0] = cursor /\ c[n] = Take(array, cursor, fields)
    <2>1. 1..0 = {} /\ 1..0 \in SUBSET (1..n)
        OBVIOUS
    <2>2. c[0] = g[1..0] /\ c[n] = g[1..n]
        OBVIOUS
    <2>. QED
        BY <1>2, <1>3, <2>1, <2>2
<1>. HIDE DEF c
<1>. QED
    BY <1>4, <1>5 DEF Cursors

\* The integers after the first k fields were taken.
TakenNums(nums, k, Names, num, words, fields) ==
    /\ DOMAIN nums = Names
    /\ \A i \in 1..k : nums[fields[i]] = DecodedInto(num[fields[i]], words[i])
    /\ \A f \in Names : (\A i \in 1..k : fields[i] # f) => nums[f] = num[f]

LEMMA EncodingAt ==
    ASSUME NEW last, NEW n \in Nat, NEW words, NEW seq, NEW base, NEW to,
           EncodingsEnd(last, words, n, seq, base, to), NEW k \in 1..n
    PROVE  last[k - 1] \in Nat /\ last[k] <= to
<1>1. last \in [0..n -> Nat]
    BY Zenon DEF EncodingsEnd
<1>2. last[k] \in EndsIn(seq, base + 1, to)
    BY Zenon DEF EncodingsEnd
<1>3. k - 1 \in 0..n
    OBVIOUS
<1>. QED
    BY <1>1, <1>2, <1>3 DEF EndsIn

TakenFrom(array, base, end, n, Names, num, words, fields) ==
    \E nums : /\ TakenNums(nums, n, Names, num, words, fields)
              /\ Take(array, [num |-> num, at |-> base, ok |-> TRUE], fields)
                    = [num |-> nums, at |-> end, ok |-> TRUE]

\* Encodings one after the other are taken into the fields, one after the other.
LEMMA TakeEncodings ==
    ASSUME NEW n \in Nat, NEW words \in [1..n -> Word], NEW Names,
           NEW fields, DOMAIN fields = 1..n, \A k \in 1..n : fields[k] \in Names,
           \A i, k \in 1..n : fields[i] = fields[k] => i = k,
           NEW num, DOMAIN num = Names,
           NEW array, IsSeq(array), NEW base, NEW last,
           EncodingsEnd(last, words, n, array, base, Len(array))
    PROVE  TakenFrom(array, base, last[n], n, Names, num, words, fields)
<1>. DEFINE cursor == [num |-> num, at |-> base, ok |-> TRUE]
            At(nums, k) == [num |-> nums, at |-> last[k], ok |-> TRUE]
            Good(nums, k) == TakenNums(nums, k, Names, num, words, fields)
<1>1. PICK c : Cursors(c, n, array, cursor, fields)
    BY TakeByFields
<1>. DEFINE T == {k \in Nat : k <= n => \E nums : Good(nums, k) /\ c[k] = At(nums, k)}
<1>2. 0 \in T
    <2>1. last[0] = base
        BY Zenon DEF EncodingsEnd
    <2>2. c[0] = At(num, 0)
        BY <1>1, <2>1 DEF Cursors
    <2>3. Good(num, 0)
        BY DEF TakenNums
    <2>. HIDE DEF At, Good
    <2>. QED
        BY <2>2, <2>3
<1>3. ASSUME NEW m \in Nat, m \in T PROVE m + 1 \in T
    <2>. SUFFICES ASSUME m + 1 <= n
                  PROVE  \E nums : Good(nums, m + 1) /\ c[m + 1] = At(nums, m + 1)
        <3>1. m + 1 \in Nat
            OBVIOUS
        <3>. HIDE DEF At, Good
        <3>. QED
            BY <3>1, Zenon
    <2>. DEFINE k == m + 1
                f == fields[k]
                w == words[k]
    <2>1. k \in 1..n /\ k - 1 = m /\ f \in Names /\ w \in Word
        OBVIOUS
    <2>2. PICK nums : Good(nums, m) /\ c[m] = At(nums, m)
        <3>1. m \in T /\ m <= n
            BY <1>3
        <3>. HIDE DEF At, Good
        <3>. QED
            BY <3>1, Zenon
    <2>3. /\ last[m] \in Nat /\ last[k] = last[m] + EncodeLen(w) /\ last[k] <= Len(array)
          /\ \A i \in 1..EncodeLen(w) : array[last[m] + i] = Encode(w)[i]
        <3>. HIDE DEF k
        <3>1. last[k - 1] \in Nat
            BY <2>1, EncodingAt, Zenon
        <3>2. last[k] = last[k - 1] + EncodeLen(words[k])
            BY <2>1, Zenon DEF EncodingsEnd
        <3>3. last[k] <= Len(array)
            BY <2>1, EncodingAt, Zenon
        <3>4. \A i \in 1..EncodeLen(words[k]) : array[last[k - 1] + i] = Encode(words[k])[i]
            BY <2>1, Zenon DEF EncodingsEnd
        <3>. QED
            BY <2>1, <3>1, <3>2, <3>3, <3>4
    <2>. DEFINE next == [nums EXCEPT ![f] = DecodedInto(nums[f], w)]
    <2>4. DOMAIN nums = Names
        BY <2>2 DEF TakenNums
    <2>5. TakeField(array, At(nums, m), f) = At(next, k)
        <3>. DEFINE at == last[m]
        <3>1. at \in Nat /\ at + EncodeLen(w) <= Len(array) /\ last[k] = at + EncodeLen(w)
              /\ \A i \in 1..EncodeLen(w) : array[at + i] = Encode(w)[i]
            BY <2>3
        <3>2. EncodedAt(array, at, w)
            BY <3>1 DEF EncodedAt
        <3>. HIDE DEF at, w, f, k
        <3>3. TakenAt(array, at, w, nums, f)
            BY <2>1, <3>2, TakeEncoded, Zenon
        <3>. QED
            BY <3>1, <3>3, Zenon DEF at, TakenAt
    <2>6. c[k] = TakeField(array, c[m], f)
        <3>. HIDE DEF k
        <3>1. c[k] = TakeField(array, c[k - 1], fields[k])
            BY <1>1, <2>1, Zenon DEF Cursors
        <3>. QED
            BY <2>1, <3>1
    <2>7. c[k] = At(next, k)
        BY <2>2, <2>5, <2>6
    <2>8. \A i \in 1..m : i \in 1..n /\ fields[i] # f
        <3>. SUFFICES ASSUME NEW i \in 1..m PROVE i \in 1..n /\ fields[i] # f
            OBVIOUS
        <3>1. i \in 1..n /\ i # k
            BY <2>1
        <3>. QED
            BY <2>1, <3>1
    <2>9. nums[f] = num[f]
        BY <2>1, <2>2, <2>8 DEF TakenNums
    <2>10. Good(next, k)
        <3>1. DOMAIN next = Names
            BY <2>4
        <3>2. ASSUME NEW i \in 1..k
              PROVE  next[fields[i]] = DecodedInto(num[fields[i]], words[i])
            <4>1. CASE i = k
                BY <2>1, <2>4, <2>9, <4>1
            <4>2. CASE i # k
                <5>1. i \in 1..m
                    BY <4>2
                <5>2. fields[i] # f /\ nums[fields[i]] = DecodedInto(num[fields[i]], words[i])
                    BY <2>2, <2>8, <5>1 DEF TakenNums
                <5>3. fields[i] \in Names
                    BY <2>8, <5>1
                <5>. QED
                    BY <2>4, <5>2, <5>3
            <4>. QED
                BY <4>1, <4>2
        <3>3. ASSUME NEW g \in Names, \A i \in 1..k : fields[i] # g PROVE next[g] = num[g]
            <4>1. k \in 1..k /\ \A i \in 1..m : i \in 1..k
                OBVIOUS
            <4>2. g # f /\ \A i \in 1..m : fields[i] # g
                BY <3>3, <4>1
            <4>3. nums[g] = num[g]
                BY <2>2, <4>2 DEF TakenNums
            <4>. QED
                BY <2>4, <4>2, <4>3
        <3>. HIDE DEF next, k
        <3>. QED
            BY <3>1, <3>2, <3>3 DEF TakenNums
    <2>. HIDE DEF At, Good, next
    <2>. QED
        BY <2>7, <2>10
<1>. HIDE DEF T
<1>4. n \in T
    BY <1>2, <1>3, SetInduction
<1>5. PICK nums : Good(nums, n) /\ c[n] = At(nums, n)
    BY <1>4 DEF T
<1>6. c[n] = Take(array, cursor, fields)
    BY <1>1 DEF Cursors
<1>. QED
    BY <1>5, <1>6 DEF TakenFrom

-----------------------------------------------------------------------------
(***************************************************************************)
(* Integers as numbers: WordOf and ValueOf.                                *)
(***************************************************************************)
LEMMA PowerAdds ==
    ASSUME NEW a \in Nat, NEW b \in Nat
    PROVE  2^(a + b) = 2^a * 2^b
<1>. DEFINE T == {k \in Nat : 2^(a + k) = 2^a * 2^k}
<1>1. 0 \in T
    <2>1. a + 0 = a /\ 2^0 = 1 /\ 2^a \in Nat
        BY PowerPositive
    <2>. HIDE DEF T
    <2>2. 2^(a + 0) = 2^a * 2^0
        BY <2>1
    <2>. QED
        BY <2>2 DEF T
<1>2. ASSUME NEW k \in Nat, k \in T PROVE k + 1 \in T
    <2>. DEFINE A == 2^a
                K == 2^k
    <2>1. A \in Nat /\ K \in Nat /\ a + k \in Nat
        BY PowerPositive
    <2>2. 2^(a + k) = A * K
        BY <1>2
    <2>3. 2^(k + 1) = 2 * K
        BY PowerDoubles
    <2>4. 2^((a + k) + 1) = 2 * 2^(a + k)
        BY <2>1, PowerDoubles
    <2>5. (a + k) + 1 = a + (k + 1)
        OBVIOUS
    <2>6. 2 * (A * K) = A * (2 * K)
        <3>. HIDE DEF A, K
        <3>. QED
            BY <2>1
    <2>7. 2^(a + (k + 1)) = 2^a * 2^(k + 1)
        BY <2>2, <2>3, <2>4, <2>5, <2>6
    <2>. QED
        BY <2>7
<1>. HIDE DEF T
<1>3. b \in T
    BY <1>1, <1>2, SetInduction
<1>. QED
    BY <1>3 DEF T

LEMMA DivideInSteps ==
    ASSUME NEW x \in Nat, NEW a \in Nat \ {0}, NEW b \in Nat \ {0}
    PROVE  (x \div a) \div b = x \div (a * b) /\ a * b \in Nat \ {0}
<1>. DEFINE q == x \div a
            r == x % a
            p == q \div b
            s == q % b
<1>1. q \in Nat /\ r \in 0..a-1 /\ x = a * q + r
    BY DivideBy
<1>2. p \in Nat /\ s \in 0..b-1 /\ q = b * p + s
    BY <1>1, DivideBy
<1>. HIDE DEF q, r, p, s
<1>3. a * b \in Nat \ {0}
    <2>1. a * 1 <= a * b
        <3>1. 1 \in Nat /\ 1 <= b
            OBVIOUS
        <3>. QED
            BY <3>1, TimesGrows
    <2>. QED
        BY <2>1
<1>4. x = (a * b) * p + (a * s + r)
    <2>1. a * (b * p + s) = (a * b) * p + a * s
        BY <1>2
    <2>. QED
        BY <1>1, <1>2, <2>1
<1>5. a * s + r \in 0..a * b - 1
    <2>1. a * s <= a * (b - 1) /\ a * s \in Nat
        <3>1. s \in Nat /\ b - 1 \in Nat /\ s <= b - 1
            BY <1>2
        <3>. QED
            BY <3>1, TimesGrows
    <2>2. a * (b - 1) = a * b - a
        OBVIOUS
    <2>. DEFINE A == a * b
                B == a * s
    <2>3. A \in Nat /\ B \in Nat /\ B <= A - a
        BY <1>3, <2>1, <2>2
    <2>. HIDE DEF A, B
    <2>4. B + r \in 0..A - 1
        BY <1>1, <2>3
    <2>. QED
        BY <2>4 DEF A, B
<1>. DEFINE A == a * b
            B == a * s + r
<1>6. (A * p + B) \div A = p
    <2>1. A \in Nat \ {0} /\ B \in 0..A-1
        BY <1>3, <1>5
    <2>. HIDE DEF A, B
    <2>. QED
        BY <1>2, <2>1, QuotientIs
<1>7. x \div (a * b) = p
    BY <1>4, <1>6
<1>. QED
    BY <1>3, <1>7 DEF p, q

-----------------------------------------------------------------------------
\* The fold of ValueOf: over sets of positions, from the first.
FoldsBytes(g, P, w) ==
    g = [s \in SUBSET P |-> IF s = {} THEN 0 ELSE g[s \ {Min(s)}] * 2^ByteBits + w[Min(s)]]

LEMMA BytesCanBeFolded ==
    ASSUME NEW w, NEW n \in Nat
    PROVE  \E g : FoldsBytes(g, 1..n, w)
<1>. DEFINE T == {m \in Nat : m <= n => \E g : FoldsBytes(g, n - m + 1..n, w)}
<1>1. 0 \in T
    <2>. DEFINE g == [s \in SUBSET (n - 0 + 1..n) |-> 0]
    <2>1. \A s \in SUBSET (n - 0 + 1..n) : s = {}
        OBVIOUS
    <2>2. FoldsBytes(g, n - 0 + 1..n, w)
        BY <2>1 DEF FoldsBytes
    <2>. HIDE DEF g
    <2>. QED
        BY <2>2
<1>2. ASSUME NEW m \in Nat, m \in T PROVE m + 1 \in T
    <2>. SUFFICES ASSUME m + 1 <= n PROVE \E g : FoldsBytes(g, n - (m + 1) + 1..n, w)
        OBVIOUS
    <2>1. PICK g : FoldsBytes(g, n - m + 1..n, w)
        BY <1>2
    <2>. DEFINE k == n - m
                P == k..n
                h == [s \in SUBSET P |->
                        IF k \in s THEN g[s \ {k}] * 2^ByteBits + w[k] ELSE g[s]]
    <2>2. k \in Nat /\ n - (m + 1) + 1 = k /\ n - m + 1 = k + 1
        OBVIOUS
    <2>3. \A s \in SUBSET (k+1..n) :
              g[s] = IF s = {} THEN 0 ELSE g[s \ {Min(s)}] * 2^ByteBits + w[Min(s)]
        <3>1. FoldsBytes(g, k+1..n, w)
            BY <2>1, <2>2
        <3>. QED
            BY <3>1, Zenon DEF FoldsBytes
    <2>. HIDE DEF k
    <2>4. ASSUME NEW s \in SUBSET P
          PROVE  h[s] = IF s = {} THEN 0 ELSE h[s \ {Min(s)}] * 2^ByteBits + w[Min(s)]
        <3>1. CASE k \in s
            <4>1. s \in SUBSET Nat /\ \A i \in s : k <= i
                BY <2>2
            <4>2. Min(s) = k
                BY <3>1, <4>1, MinIs
            <4>3. s \ {k} \in SUBSET P /\ h[s \ {k}] = g[s \ {k}]
                OBVIOUS
            <4>4. h[s] = g[s \ {k}] * 2^ByteBits + w[k]
                BY <3>1
            <4>. HIDE DEF h
            <4>. QED
                BY <3>1, <4>2, <4>3, <4>4
        <3>2. CASE k \notin s
            <4>1. s \in SUBSET (k+1..n)
                BY <2>2, <3>2
            <4>2. h[s] = g[s] /\ h[s \ {Min(s)}] = g[s \ {Min(s)}]
                BY <3>2
            <4>. HIDE DEF h
            <4>. QED
                BY <2>3, <4>1, <4>2
        <3>. QED
            BY <3>1, <3>2
    <2>5. FoldsBytes(h, P, w)
        <3>1. h = [s \in SUBSET P |-> h[s]]
            OBVIOUS
        <3>. HIDE DEF h, P
        <3>. QED
            BY <2>4, <3>1 DEF FoldsBytes
    <2>. HIDE DEF h
    <2>. QED
        BY <2>2, <2>5
<1>. HIDE DEF T
<1>3. n \in T
    BY <1>1, <1>2, SetInduction
<1>. QED
    <2>1. n - n + 1 = 1
        OBVIOUS
    <2>. QED
        BY <1>3, <2>1 DEF T

LEMMA ValueByBytes ==
    ASSUME NEW w \in Word
    PROVE  \E v \in [1..IntBytes+1 -> Nat] :
              /\ v[IntBytes + 1] = 0 /\ v[1] = ValueOf(w)
              /\ \A k \in 1..IntBytes : v[k] = v[k + 1] * 2^ByteBits + w[k]
<1>. DEFINE n == IntBytes
            g == CHOOSE g : FoldsBytes(g, 1..n, w)
<1>1. n \in Nat \ {0} /\ ByteBits \in Nat /\ 2^ByteBits \in Nat
    BY Sizes, PowerPositive
<1>2. FoldsBytes(g, 1..n, w)
    BY <1>1, BytesCanBeFolded
<1>3. DOMAIN w = 1..n
    BY DEF Word
<1>4. ValueOf(w) = g[1..n]
    BY <1>3 DEF ValueOf, FoldRight, MapThenFoldSet, FoldsBytes
<1>. HIDE DEF g
<1>5. \A s \in SUBSET (1..n) :
          g[s] = IF s = {} THEN 0 ELSE g[s \ {Min(s)}] * 2^ByteBits + w[Min(s)]
    BY <1>2, Zenon DEF FoldsBytes
<1>. DEFINE v == [k \in 1..n+1 |-> g[k..n]]
<1>6. v[n + 1] = 0 /\ v[1] = ValueOf(w)
    <2>1. n+1..n = {} /\ n + 1 \in 1..n+1 /\ 1 \in 1..n+1 /\ {} \in SUBSET (1..n)
        BY <1>1
    <2>. QED
        BY <1>4, <1>5, <2>1
<1>7. ASSUME NEW k \in 1..n PROVE v[k] = v[k + 1] * 2^ByteBits + w[k]
    <2>1. /\ k..n \in SUBSET (1..n) /\ k..n # {} /\ k..n \in SUBSET Nat /\ k \in k..n
          /\ \A i \in k..n : k <= i
          /\ (k..n) \ {k} = k+1..n /\ k \in 1..n+1 /\ k + 1 \in 1..n+1
        BY <1>1
    <2>2. Min(k..n) = k
        BY <2>1, MinIs
    <2>3. g[k..n] = g[k+1..n] * 2^ByteBits + w[k]
        BY <1>5, <2>1, <2>2
    <2>4. v[k] = g[k..n] /\ v[k + 1] = g[k+1..n]
        BY <2>1
    <2>. HIDE DEF v
    <2>. QED
        BY <2>3, <2>4
<1>8. v \in [1..n+1 -> Nat]
    <2>. DEFINE T == {m \in Nat : m <= n => v[n + 1 - m] \in Nat}
    <2>1. 0 \in T
        <3>1. n + 1 - 0 = n + 1
            BY <1>1
        <3>. HIDE DEF v
        <3>. QED
            BY <1>6, <3>1
    <2>2. ASSUME NEW m \in Nat, m \in T PROVE m + 1 \in T
        <3>. SUFFICES ASSUME m + 1 <= n PROVE v[n + 1 - (m + 1)] \in Nat
            OBVIOUS
        <3>. DEFINE k == n + 1 - (m + 1)
        <3>1. k \in 1..n /\ k + 1 = n + 1 - m
            BY <1>1
        <3>2. v[n + 1 - m] \in Nat
            BY <1>1, <2>2
        <3>. HIDE DEF v, k
        <3>3. w[k] \in Nat
            BY <3>1, Sizes DEF Word
        <3>4. v[k] = v[k + 1] * 2^ByteBits + w[k]
            BY <1>7, <3>1
        <3>5. v[k] \in Nat
            BY <1>1, <3>1, <3>2, <3>3, <3>4
        <3>. QED
            BY <3>5 DEF k
    <2>. HIDE DEF T
    <2>3. Nat \subseteq T
        BY <2>1, <2>2, SetInduction
    <2>4. ASSUME NEW k \in 1..n+1 PROVE v[k] \in Nat
        <3>1. n + 1 - k \in Nat /\ n + 1 - k <= n /\ n + 1 - (n + 1 - k) = k
            BY <1>1
        <3>2. n + 1 - k \in T
            BY <2>3, <3>1
        <3>. HIDE DEF v
        <3>. QED
            BY <3>1, <3>2 DEF T
    <2>. QED
        BY <2>4
<1>. HIDE DEF v
<1>. QED
    BY <1>6, <1>7, <1>8

LEMMA WordOfIsWord ==
    ASSUME NEW n \in Nat
    PROVE  WordOf(n) \in Word
<1>1. ByteBits \in Nat /\ IntBytes \in Nat /\ 2^ByteBits \in Nat \ {0} /\ Byte = 0..2^ByteBits - 1
    BY Sizes, PowerPositive DEF Byte
<1>2. ASSUME NEW i \in 1..IntBytes
      PROVE  (n \div 2^(ByteBits * (i - 1))) % 2^ByteBits \in Byte
    <2>. DEFINE d == 2^(ByteBits * (i - 1))
    <2>1. ByteBits * (i - 1) \in Nat
        <3>1. i - 1 \in Nat
            BY <1>1
        <3>. QED
            BY <1>1, <3>1
    <2>2. d \in Nat \ {0}
        BY <2>1, PowerPositive
    <2>. HIDE DEF d
    <2>3. n \div d \in Nat
        BY <2>2, DivideBy
    <2>4. (n \div d) % 2^ByteBits \in 0..2^ByteBits - 1
        BY <1>1, <2>3, DivideBy
    <2>. QED
        BY <1>1, <2>4 DEF d
<1>. QED
    BY <1>2 DEF WordOf, Word

LEMMA DividedTwice ==
    ASSUME NEW x \in Nat
    PROVE  \A a \in Nat \ {0}, b \in Nat \ {0} : (x \div a) \div b = x \div (a * b)
    BY DivideInSteps, ZenonT(60)

\* An integer's bytes put together give the integer.
LEMMA ValueOfWord ==
    ASSUME NEW n \in Nat, n < 2^(IntBytes * ByteBits)
    PROVE  ValueOf(WordOf(n)) = n
<1>. DEFINE w == WordOf(n)
            m == IntBytes
            B == 2^ByteBits
            p(i) == 2^(ByteBits * i)
<1>0. \A a \in Nat \ {0}, b \in Nat \ {0} : (n \div a) \div b = n \div (a * b)
    BY DividedTwice, ZenonT(60)
<1>1. m \in Nat \ {0} /\ ByteBits \in Nat /\ B \in Nat \ {0}
    BY Sizes, PowerPositive
<1>2. w \in Word
    BY WordOfIsWord
<1>3. PICK v \in [1..m+1 -> Nat] :
            /\ v[m + 1] = 0 /\ v[1] = ValueOf(w)
            /\ \A k \in 1..m : v[k] = v[k + 1] * B + w[k]
    BY <1>2, ValueByBytes
<1>4. \A i \in Nat : ByteBits * i \in Nat /\ p(i) \in Nat \ {0}
    <2>1. \A i \in Nat : ByteBits * i \in Nat
        BY <1>1
    <2>. QED
        BY <2>1, PowerPositive
<1>5. \A i \in Nat : p(i + 1) = p(i) * B
    <2>. TAKE i \in Nat
    <2>1. ByteBits * (i + 1) = ByteBits * i + ByteBits /\ ByteBits * i \in Nat
        BY <1>1
    <2>. QED
        BY <1>1, <2>1, PowerAdds
<1>6. p(0) = 1 /\ p(m) = 2^(IntBytes * ByteBits)
    <2>1. ByteBits * 0 = 0 /\ ByteBits * m = IntBytes * ByteBits
        BY <1>1
    <2>2. 2^0 = 1
        OBVIOUS
    <2>. QED
        BY <2>1, <2>2
<1>7. \A k \in 1..m : w[k] = (n \div p(k - 1)) % B
    BY DEF WordOf
<1>. HIDE DEF w, p, B
<1>. DEFINE T == {i \in Nat : i <= m => v[m + 1 - i] = n \div p(m - i)}
<1>8. 0 \in T
    <2>1. m + 1 - 0 = m + 1 /\ m - 0 = m
        BY <1>1
    <2>2. n \div p(m) = 0
        <3>1. p(m) \in Nat \ {0} /\ n < p(m)
            BY <1>1, <1>4, <1>6
        <3>2. n \in 0..p(m)-1 /\ p(m) * 0 + n = n
            BY <3>1
        <3>. QED
            BY <3>1, <3>2, QuotientIs
    <2>. QED
        BY <1>3, <2>1, <2>2
<1>9. ASSUME NEW i \in Nat, i \in T PROVE i + 1 \in T
    <2>. SUFFICES ASSUME i + 1 <= m PROVE v[m + 1 - (i + 1)] = n \div p(m - (i + 1))
        OBVIOUS
    <2>. DEFINE k == m - i
    <2>1. k \in 1..m /\ k + 1 = m + 1 - i /\ m + 1 - (i + 1) = k /\ m - (i + 1) = k - 1
          /\ k - 1 \in Nat /\ (k - 1) + 1 = k
        BY <1>1
    <2>2. v[m + 1 - i] = n \div p(m - i)
        BY <1>1, <1>9
    <2>3. v[k + 1] = n \div p(k)
        BY <2>1, <2>2
    <2>. HIDE DEF k
    <2>. DEFINE q == p(k - 1)
                x == n \div q
    <2>4. q \in Nat \ {0} /\ p(k) = q * B
        <3>1. p((k - 1) + 1) = p(k - 1) * B
            BY <1>5, <2>1
        <3>. QED
            BY <1>4, <2>1, <3>1
    <2>5. w[k] = x % B
        BY <1>7, <2>1
    <2>6. v[k] = v[k + 1] * B + w[k]
        BY <1>3, <2>1
    <2>. HIDE DEF q
    <2>7. x \in Nat
        BY <2>4, DivideBy
    <2>8. x \div B = n \div p(k)
        <3>1. (n \div q) \div B = n \div (q * B)
            BY <1>0, <1>1, <2>4, Zenon
        <3>. QED
            BY <2>4, <3>1
    <2>. HIDE DEF x
    <2>9. x = B * (x \div B) + (x % B) /\ x \div B \in Nat
        BY <1>1, <2>7, DivideBy
    <2>10. v[k] = x
        BY <1>1, <2>3, <2>5, <2>6, <2>8, <2>9
    <2>. QED
        BY <2>1, <2>10 DEF x, q
<1>. HIDE DEF T
<1>10. m \in T
    BY <1>1, <1>8, <1>9, SetInduction
<1>11. v[m + 1 - m] = n \div p(m - m)
    BY <1>1, <1>10 DEF T
<1>12. m + 1 - m = 1 /\ m - m = 0 /\ n \div 1 = n
    BY <1>1
<1>. QED
    BY <1>3, <1>6, <1>11, <1>12 DEF w

\* Decoding over an integer whose high bytes are zero gives the one sent.
LEMMA DecodedOverNarrower ==
    ASSUME NEW w \in Word, NEW old, \A i \in Width(w)+1..IntBytes : old[i] = 0
    PROVE  DecodedInto(old, w) = w
<1>1. PICK m \in 0..IntBytes :
              /\ Width(w) = Units(ByteBits * m, ByteBits)
              /\ \A i \in 1..IntBytes : w[i] # 0 => i <= m
    BY LastByte
<1>2. ByteBits \in Nat \ {0} /\ IntBytes \in Nat \ {0}
    BY Sizes
<1>3. Width(w) \in Nat /\ m <= Width(w)
    <2>1. CASE m = 0
        <3>1. ByteBits * m = 0
            BY <1>2, <2>1
        <3>. QED
            BY <1>1, <2>1, <3>1 DEF Units
    <2>2. CASE m # 0
        <3>1. m - 1 \in Nat /\ ByteBits * (m - 1) + ByteBits = ByteBits * m
            BY <1>2, <2>2
        <3>2. ByteBits \in 1..ByteBits /\ m \in Nat \ {0}
            BY <1>2, <2>2
        <3>3. Units(ByteBits * (m - 1) + ByteBits, ByteBits) = m
            BY <1>2, <3>2, UnitsIs
        <3>. QED
            BY <1>1, <3>1, <3>2, <3>3
    <2>. QED
        BY <2>1, <2>2
<1>4. ASSUME NEW i \in 1..IntBytes PROVE (IF i <= Width(w) THEN w[i] ELSE old[i]) = w[i]
    <2>1. CASE i <= Width(w)
        BY <2>1
    <2>2. CASE ~(i <= Width(w))
        <3>1. i \in Width(w)+1..IntBytes /\ ~(i <= m)
            BY <1>2, <1>3, <2>2
        <3>. QED
            BY <1>1, <2>2, <3>1
    <2>. QED
        BY <2>1, <2>2
<1>5. w = [i \in 1..IntBytes |-> w[i]]
    BY DEF Word
<1>. QED
    BY <1>4, <1>5 DEF DecodedInto

LEMMA WidthIsNat ==
    ASSUME NEW w \in Word
    PROVE  Width(w) \in Nat
<1>1. BeginsWith(Encode(w), w)
    BY EncodedAsSeq DEF BeginsWith, IsSeq
<1>. QED
    BY <1>1, DecodingUndoesEncoding

LEMMA ZeroWord ==
    /\ WordOf(0) \in Word /\ \A i \in 1..IntBytes : WordOf(0)[i] = 0
<1>1. ASSUME NEW i \in 1..IntBytes PROVE (0 \div 2^(ByteBits * (i - 1))) % 2^ByteBits = 0
    <2>. DEFINE d == 2^(ByteBits * (i - 1))
    <2>1. i - 1 \in Nat /\ ByteBits \in Nat
        BY Sizes
    <2>2. ByteBits * (i - 1) \in Nat
        BY <2>1
    <2>3. d \in Nat \ {0} /\ 2^ByteBits \in Nat \ {0}
        BY <2>1, <2>2, PowerPositive
    <2>. HIDE DEF d
    <2>4. 0 \div d = 0
        BY <2>3
    <2>5. 0 % 2^ByteBits = 0
        BY <2>3
    <2>. QED
        BY <2>4, <2>5 DEF d
<1>. QED
    BY <1>1, WordOfIsWord DEF WordOf

-----------------------------------------------------------------------------
(***************************************************************************)
(* Several integers, one after the other, into those of a struct.          *)
(***************************************************************************)
\* What was taken, from the integers that had been encoded.
FieldsFrom(array, base, Names, num, was, fields) ==
    \E nums : /\ DOMAIN nums = Names
              /\ \A k \in DOMAIN fields :
                    nums[fields[k]] = DecodedInto(num[fields[k]], was[fields[k]])
              /\ \A f \in Names : (\A k \in DOMAIN fields : fields[k] # f) => nums[f] = num[f]
              /\ Take(array, [num |-> num, at |-> base, ok |-> TRUE], fields)
                    = [num |-> nums, at |-> base + Len(EncodedFields(was, fields)), ok |-> TRUE]

LEMMA FieldsTaken ==
    ASSUME NEW n \in Nat \ {0}, NEW fields, DOMAIN fields = 1..n, NEW Names,
           \A k \in 1..n : fields[k] \in Names,
           \A i, k \in 1..n : fields[i] = fields[k] => i = k,
           NEW was, \A k \in 1..n : was[fields[k]] \in Word,
           NEW num, DOMAIN num = Names,
           NEW array, IsSeq(array), NEW base \in Nat,
           base + Len(EncodedFields(was, fields)) <= Len(array),
           \A i \in 1..Len(EncodedFields(was, fields)) :
               array[base + i] = EncodedFields(was, fields)[i]
    PROVE  FieldsFrom(array, base, Names, num, was, fields)
<1>. DEFINE words == [k \in 1..n |-> was[fields[k]]]
            seqs == [k \in 1..n |-> Encode(words[k])]
<1>1. words \in [1..n -> Word] /\ \A k \in 1..n : words[k] = was[fields[k]]
    OBVIOUS
<1>2. EncodedFields(was, fields) = FlattenSeq(seqs)
    <2>1. seqs = [k \in DOMAIN fields |-> Encode(was[fields[k]])]
        OBVIOUS
    <2>. HIDE DEF seqs
    <2>. QED
        BY <2>1, Zenon DEF EncodedFields
<1>. HIDE DEF words
<1>3. seqs = [k \in 1..n |-> Encode(words[k])]
    OBVIOUS
<1>. HIDE DEF seqs
<1>4. Len(array) \in Nat
    BY LenProperties DEF IsSeq
<1>5. base + Len(FlattenSeq(seqs)) <= Len(array)
      /\ \A i \in 1..Len(FlattenSeq(seqs)) : array[base + i] = FlattenSeq(seqs)[i]
    BY <1>2
<1>6. EncodedInARow(seqs, words, n, array, base, Len(array))
    BY <1>1, <1>3, <1>4, <1>5, EncodingsInARow, Zenon
<1>7. PICK last : /\ EncodingsEnd(last, words, n, array, base, Len(array))
                  /\ last[n] = base + Len(FlattenSeq(seqs))
    BY <1>6, Zenon DEF EncodedInARow
<1>8. n \in Nat
    OBVIOUS
<1>9. TakenFrom(array, base, last[n], n, Names, num, words, fields)
    BY <1>1, <1>7, <1>8, TakeEncodings, Zenon
<1>10. PICK nums : /\ TakenNums(nums, n, Names, num, words, fields)
                   /\ Take(array, [num |-> num, at |-> base, ok |-> TRUE], fields)
                         = [num |-> nums, at |-> last[n], ok |-> TRUE]
    BY <1>9, Zenon DEF TakenFrom
<1>11. \A k \in DOMAIN fields :
           nums[fields[k]] = DecodedInto(num[fields[k]], was[fields[k]])
    BY <1>1, <1>10, Zenon DEF TakenNums
<1>12. /\ DOMAIN nums = Names
       /\ \A f \in Names : (\A k \in DOMAIN fields : fields[k] # f) => nums[f] = num[f]
    BY <1>10, Zenon DEF TakenNums
<1>13. Take(array, [num |-> num, at |-> base, ok |-> TRUE], fields)
          = [num |-> nums, at |-> base + Len(EncodedFields(was, fields)), ok |-> TRUE]
    BY <1>2, <1>7, <1>10
<1>. QED
    BY <1>11, <1>12, <1>13, Zenon DEF FieldsFrom

\* Whatever the bytes are, taking fields changes no other.
LEMMA TakeKeeps ==
    ASSUME NEW n \in Nat, NEW fields, DOMAIN fields = 1..n, NEW array, NEW num, NEW at, NEW ok
    PROVE  LET c == Take(array, [num |-> num, at |-> at, ok |-> ok], fields)
           IN  /\ DOMAIN c.num = DOMAIN num
               /\ \A f \in DOMAIN num : (\A k \in 1..n : fields[k] # f) => c.num[f] = num[f]
<1>. DEFINE cursor == [num |-> num, at |-> at, ok |-> ok]
            Kept(d) == /\ "num" \in DOMAIN d /\ DOMAIN d.num = DOMAIN num
                       /\ \A f \in DOMAIN num : (\A k \in 1..n : fields[k] # f) => d.num[f] = num[f]
<1>1. PICK c : Cursors(c, n, array, cursor, fields)
    BY TakeByFields
<1>. DEFINE T == {k \in Nat : k <= n => Kept(c[k])}
<1>2. 0 \in T
    <2>1. c[0] = cursor
        BY <1>1, Zenon DEF Cursors
    <2>2. Kept(cursor)
        OBVIOUS
    <2>. HIDE DEF Kept
    <2>. QED
        BY <2>1, <2>2
<1>3. ASSUME NEW m \in Nat, m \in T PROVE m + 1 \in T
    <2>. SUFFICES ASSUME m + 1 <= n PROVE Kept(c[m + 1])
        <3>1. m + 1 \in Nat
            OBVIOUS
        <3>. HIDE DEF Kept
        <3>. QED
            BY <3>1, Zenon
    <2>. DEFINE d == c[m]
                f == fields[m + 1]
                rest == SubSeq(array, d.at + 1, Len(array))
    <2>1. m + 1 \in 1..n /\ m <= n /\ (m + 1) - 1 = m
        OBVIOUS
    <2>2. Kept(d)
        <3>. HIDE DEF Kept
        <3>. QED
            BY <1>3, <2>1
    <2>3. c[m + 1] = TakeField(array, d, f)
        <3>. PICK k \in 1..n : k = m + 1
            BY <2>1
        <3>1. c[k] = TakeField(array, c[k - 1], fields[k])
            BY <1>1, Zenon DEF Cursors
        <3>. QED
            BY <2>1, <3>1
    <2>. HIDE DEF d, f
    <2>4. CASE d.ok /\ Decodable(rest) /\ DecodeLen(rest) <= IntBytes
        <3>1. TakeField(array, d, f) = [num |-> [d.num EXCEPT ![f] = Decode(@, rest)],
                                        at |-> d.at + LastGroup(rest), ok |-> TRUE]
            BY <2>4, Zenon DEF TakeField
        <3>2. TakeField(array, d, f).num = [d.num EXCEPT ![f] = Decode(d.num[f], rest)]
            BY <3>1
        <3>3. "num" \in DOMAIN TakeField(array, d, f)
            BY <3>1
        <3>4. ASSUME NEW g \in DOMAIN num, \A k \in 1..n : fields[k] # g
              PROVE  TakeField(array, d, f).num[g] = num[g]
            <4>1. g # f
                BY <2>1, <3>4 DEF f
            <4>. QED
                BY <2>2, <3>2, <3>4, <4>1
        <3>. QED
            BY <2>2, <2>3, <3>2, <3>3, <3>4
    <2>5. CASE ~(d.ok /\ Decodable(rest) /\ DecodeLen(rest) <= IntBytes)
        <3>1. TakeField(array, d, f) = [d EXCEPT !.ok = FALSE]
            BY <2>5, Zenon DEF TakeField
        <3>. QED
            BY <2>2, <2>3, <3>1
    <2>. QED
        BY <2>4, <2>5
<1>4. n \in T
    <2>. HIDE DEF T
    <2>. QED
        BY <1>2, <1>3, SetInduction
<1>5. Kept(c[n])
    <2>. HIDE DEF Kept
    <2>. QED
        BY <1>4
<1>6. c[n] = Take(array, cursor, fields)
    BY <1>1, Zenon DEF Cursors
<1>. HIDE DEF cursor
<1>. QED
    BY <1>5, <1>6 DEF cursor

-----------------------------------------------------------------------------
(***************************************************************************)
(* Parts of sequences and arrays.                                          *)
(***************************************************************************)
LEMMA FirstIs ==
    ASSUME NEW n \in Nat, NEW I \in SUBSET (1..n), NEW m \in I, \A i \in I : m <= i
    PROVE  (IF I # {} THEN Min(I) ELSE 0) = m
<1>1. I \in SUBSET Nat
    OBVIOUS
<1>2. Min(I) = m
    BY <1>1, MinIs
<1>. QED
    BY <1>2

LEMMA SameSeqs ==
    ASSUME NEW s, NEW t, IsSeq(s), IsSeq(t), Len(s) = Len(t), \A i \in 1..Len(s) : s[i] = t[i]
    PROVE  s = t
<1>1. PICK S, T : s \in Seq(S) /\ t \in Seq(T)
    BY DEF IsSeq
<1>2. s \in Seq(S \cup T) /\ t \in Seq(S \cup T)
    BY <1>1
<1>. QED
    BY <1>2, SeqEqual

\* From the m-th to the n-th, of anything that can be applied.
LEMMA PartOf ==
    ASSUME NEW s, NEW m \in Int, NEW n \in Int, m <= n + 1
    PROVE  /\ IsSeq(SubSeq(s, m, n)) /\ Len(SubSeq(s, m, n)) = n - m + 1
           /\ \A i \in 1..n-m+1 : SubSeq(s, m, n)[i] = s[m + i - 1]
<1>. DEFINE S == {s[i] : i \in m..n}
<1>1. \A i \in m..n : s[i] \in S
    OBVIOUS
<1>. HIDE DEF S
<1>2. /\ SubSeq(s, m, n) \in Seq(S)
      /\ Len(SubSeq(s, m, n)) = IF m <= n THEN n - m + 1 ELSE 0
      /\ \A i \in 1..n-m+1 : SubSeq(s, m, n)[i] = s[m + i - 1]
    BY <1>1, SubSeqProperties
<1>3. (IF m <= n THEN n - m + 1 ELSE 0) = n - m + 1
    OBVIOUS
<1>. QED
    BY <1>2, <1>3 DEF IsSeq

\* The part that begins after the first at.
LEMMA PartAfter ==
    ASSUME NEW s, NEW at \in Nat, NEW n \in Nat
    PROVE  /\ IsSeq(SubSeq(s, at + 1, at + n)) /\ Len(SubSeq(s, at + 1, at + n)) = n
           /\ \A i \in 1..n : SubSeq(s, at + 1, at + n)[i] = s[at + i]
<1>. DEFINE a == at + 1
            b == at + n
<1>1. /\ a \in Int /\ b \in Int /\ a <= b + 1 /\ b - a + 1 = n
      /\ \A i \in 1..n : a + i - 1 = at + i
    OBVIOUS
<1>. HIDE DEF a, b
<1>2. /\ IsSeq(SubSeq(s, a, b)) /\ Len(SubSeq(s, a, b)) = b - a + 1
      /\ \A i \in 1..b-a+1 : SubSeq(s, a, b)[i] = s[a + i - 1]
    BY <1>1, PartOf
<1>3. IsSeq(SubSeq(s, a, b)) /\ Len(SubSeq(s, a, b)) = n
      /\ \A i \in 1..n : SubSeq(s, a, b)[i] = s[at + i]
    BY <1>1, <1>2
<1>. QED
    BY <1>3 DEF a, b

LEMMA FirstPart ==
    ASSUME NEW s, NEW n \in Nat
    PROVE  /\ IsSeq(SubSeq(s, 1, n)) /\ Len(SubSeq(s, 1, n)) = n
           /\ \A i \in 1..n : SubSeq(s, 1, n)[i] = s[i]
<1>1. PICK at \in Nat : at = 0
    OBVIOUS
<1>2. at + 1 = 1 /\ at + n = n /\ \A i \in 1..n : at + i = i
    BY <1>1
<1>3. /\ IsSeq(SubSeq(s, at + 1, at + n)) /\ Len(SubSeq(s, at + 1, at + n)) = n
      /\ \A i \in 1..n : SubSeq(s, at + 1, at + n)[i] = s[at + i]
    BY PartAfter
<1>. QED
    BY <1>2, <1>3

\* memcpy to the front of an array that is long enough.
LEMMA Overwritten ==
    ASSUME NEW array, NEW n \in Nat, DOMAIN array = 1..n, NEW bytes, Len(bytes) \in Nat
    PROVE  LET a == Overwrite(array, bytes) IN
           /\ DOMAIN a = 1..n /\ IsSeq(a) /\ Len(a) = n
           /\ \A i \in 1..n : a[i] = IF i <= Len(bytes) THEN bytes[i] ELSE array[i]
<1>. DEFINE a == Overwrite(array, bytes)
            S == {a[i] : i \in 1..n}
<1>1. a = [i \in 1..n |-> IF i <= Len(bytes) THEN bytes[i] ELSE array[i]]
    BY DEF Overwrite
<1>2. DOMAIN a = 1..n /\ a = [i \in 1..n |-> a[i]]
      /\ \A i \in 1..n : a[i] = IF i <= Len(bytes) THEN bytes[i] ELSE array[i]
    BY <1>1
<1>. HIDE DEF a
<1>3. \A i \in 1..n : a[i] \in S
    OBVIOUS
<1>. HIDE DEF S
<1>4. a \in [1..n -> S]
    BY <1>2, <1>3
<1>5. a \in Seq(S)
    BY <1>4
<1>6. Len(a) = n
    BY <1>2, <1>5, LenProperties
<1>. QED
    BY <1>2, <1>5, <1>6 DEF a, IsSeq

LEMMA FrontOfOverwritten ==
    ASSUME NEW array, NEW n \in Nat, DOMAIN array = 1..n, NEW bytes, IsSeq(bytes), Len(bytes) <= n
    PROVE  SubSeq(Overwrite(array, bytes), 1, Len(bytes)) = bytes
<1>. DEFINE a == Overwrite(array, bytes)
            m == Len(bytes)
            part == SubSeq(a, 1, m)
<1>1. m \in Nat
    BY LenProperties DEF IsSeq
<1>2. \A i \in 1..n : a[i] = IF i <= m THEN bytes[i] ELSE array[i]
    BY <1>1, Overwritten
<1>. HIDE DEF a
<1>3. \A i \in 1..m : a[i] = bytes[i]
    BY <1>1, <1>2
<1>4. IsSeq(part) /\ Len(part) = m /\ \A i \in 1..m : part[i] = a[i]
    BY <1>1, FirstPart
<1>. HIDE DEF part
<1>5. part = bytes
    BY <1>3, <1>4, SameSeqs
<1>. QED
    BY <1>5 DEF part, a

\* The text before the first zero.
LEMMA TextBeforeZero ==
    ASSUME NEW rest, IsSeq(rest), NEW text, IsSeq(text), Len(text) < Len(rest),
           \A i \in 1..Len(text) : rest[i] = text[i] /\ text[i] # 0,
           rest[Len(text) + 1] = 0
    PROVE  SubSeq(rest, 1, SelectInSeq(rest, LAMBDA b : b = 0) - 1) = text
<1>. DEFINE t == Len(text)
            n == Len(rest)
            I == {i \in 1..n : rest[i] = 0}
            first == SelectInSeq(rest, LAMBDA b : b = 0)
            part == SubSeq(rest, 1, t)
<1>1. t \in Nat /\ n \in Nat
    BY LenProperties DEF IsSeq
<1>2. t + 1 \in I /\ \A i \in I : t + 1 <= i
    <2>1. t + 1 \in I
        BY <1>1
    <2>2. ASSUME NEW i \in I PROVE t + 1 <= i
        <3>1. i \in Nat /\ i >= 1 /\ rest[i] = 0
            BY <1>1
        <3>2. ~(i \in 1..t)
            BY <1>1, <3>1
        <3>. QED
            BY <1>1, <3>1, <3>2
    <2>. QED
        BY <2>1, <2>2
<1>3. (IF I # {} THEN Min(I) ELSE 0) = t + 1
    BY <1>1, <1>2, FirstIs
<1>4. first = t + 1
    BY <1>3 DEF SelectInSeq
<1>5. first - 1 = t
    BY <1>1, <1>4
<1>. HIDE DEF first
<1>6. IsSeq(part) /\ Len(part) = t /\ \A i \in 1..t : part[i] = rest[i]
    BY <1>1, FirstPart
<1>. HIDE DEF part
<1>7. part = text
    BY <1>6, SameSeqs
<1>. QED
    BY <1>5, <1>7 DEF part, first
=============================================================================
