----------------------------- MODULE SpiProofs ------------------------------
(*****************************************************************************)
(* What spi.c puts on the wire arrives: the chip finds the address, the word *)
(* and every byte of a transfer, and a read returns the chip's answer, for   *)
(* every address, every word and buffers of every length.                    *)
(*****************************************************************************)
EXTENDS Spi, TLAPS, WellFoundedInduction

-----------------------------------------------------------------------------
(* Numbers and rows *)

\* A set of numbers has a least one.
LEMMA LeastNumber ==
    ASSUME NEW T \in SUBSET Nat, T # {}
    PROVE  \E m \in T : \A n \in T : m <= n
<1> DEFINE R == {ss \in Nat \X Nat : ss[1] < ss[2]}
<1>1. \A n, m \in Nat : n < m => <<n, m>> \in R
  OBVIOUS
<1>2. IsWellFoundedOn(R, Nat)
  BY NatLessThanWellFounded DEF OpToRel
<1> HIDE DEF R
<1>3. PICK m \in T : \A n \in T : ~ (<<n, m>> \in R)
  BY <1>2, WFMin
<1>4. \A n \in T : n \in Nat /\ m \in Nat /\ ~(n < m)
  BY <1>1, <1>3
<1>5. \A n \in T : m <= n
  BY <1>4
<1> QED BY <1>5

\* A set with 0 and with the successor of each of its members has all numbers.
LEMMA AllNumbers ==
    ASSUME NEW T \in SUBSET Nat, 0 \in T, \A n \in T : n + 1 \in T
    PROVE  T = Nat
<1> SUFFICES ASSUME Nat \ T # {} PROVE FALSE
    OBVIOUS
<1>1. PICK m \in Nat \ T : \A n \in Nat \ T : m <= n
  BY LeastNumber
<1>2. m - 1 \in Nat /\ ~(m <= m - 1) /\ (m - 1) + 1 = m
  BY <1>1
<1> QED BY <1>1, <1>2

\* A row of values, each computed from the one before it, exists.
Computes(f, x, F, n) == f[0] = x /\ \A i \in 1 .. n : f[i] = F[<<f[i - 1], i>>]

LEMMA RowExists ==
    ASSUME NEW D, NEW N \in Nat, NEW F \in [D \X (1 .. N) -> D], NEW x \in D
    PROVE  \E f \in [0 .. N -> D] : Computes(f, x, F, N)
<1> DEFINE P(n) == \E f \in [0 .. n -> D] : Computes(f, x, F, n)
           T == {n \in Nat : n <= N => P(n)}
<1>1. 0 \in T
  <2>1. [i \in 0 .. 0 |-> x] \in [0 .. 0 -> D] /\ Computes([i \in 0 .. 0 |-> x], x, F, 0)
    BY DEF Computes
  <2> QED BY <2>1
<1>2. ASSUME NEW n \in T PROVE n + 1 \in T
  <2> SUFFICES ASSUME n + 1 <= N PROVE P(n + 1)
      OBVIOUS
  <2>0. n \in Nat /\ n + 1 \in 1 .. N /\ n <= N
    OBVIOUS
  <2>1. PICK f \in [0 .. n -> D] : Computes(f, x, F, n)
    BY <2>0
  <2> DEFINE y == F[<<f[n], n + 1>>]
             g == [i \in 0 .. n + 1 |-> IF i = n + 1 THEN y ELSE f[i]]
  <2>2. f[n] \in D
    BY <2>0
  <2>3. y \in D
    BY <2>0, <2>2
  <2>4. \A i \in 0 .. n : f[i] \in D /\ g[i] = f[i] /\ i \in 0 .. n + 1
    BY <2>0
  <2>5. g[n + 1] = y
    BY <2>0
  <2>6. \A i \in 0 .. n + 1 : i \in 0 .. n \/ i = n + 1
    BY <2>0
  <2>7. g \in [0 .. n + 1 -> D]
    BY <2>3, <2>6
  <2> HIDE DEF g
  <2>8. ASSUME NEW i \in 1 .. n + 1 PROVE g[i] = F[<<g[i - 1], i>>]
    <3>1. CASE i = n + 1
      <4>1. i - 1 = n /\ n \in 0 .. n
        BY <2>0, <3>1
      <4> QED BY <4>1, <3>1, <2>4, <2>5
    <3>2. CASE i # n + 1
      <4>1. i \in 1 .. n /\ i \in 0 .. n /\ i - 1 \in 0 .. n
        BY <2>0, <3>2
      <4> QED BY <4>1, <2>1, <2>4 DEF Computes
    <3> QED BY <3>1, <3>2
  <2>9. g[0] = x
    BY <2>0, <2>1, <2>4 DEF Computes
  <2> QED BY <2>7, <2>8, <2>9 DEF Computes
<1> HIDE DEF P
<1>3. T = Nat
  BY <1>1, <1>2, AllNumbers
<1>4. P(N)
  BY <1>3
<1> QED BY <1>4 DEF P

Shifted(f, start, bits, m) ==
    /\ f \in [0 .. Len(bits) -> Nat] /\ f[0] = start
    /\ \A i \in 1 .. Len(bits) : f[i] = ((2 * f[i - 1]) % m) + bits[i]

\* The values a register goes through while bits are shifted in
Through(start, bits, w, m) ==
    \E f : Shifted(f, start, bits, m) /\ ShiftIn(start, bits, w) = f[Len(bits)]

\* ShiftIn is the last of the values the register goes through.
LEMMA ShiftInRow ==
    ASSUME NEW start \in Nat, NEW bits \in Seq(0 .. 1), NEW w, NEW m \in Nat \ {0}, 2 ^ w = m
    PROVE  Through(start, bits, w, m)
<1> DEFINE N == Len(bits)
           F == [p \in Nat \X (1 .. N) |-> ((2 * p[1]) % m) + bits[p[2]]]
           Val == CHOOSE val : val = [n \in 0 .. N |->
                     IF n = 0 THEN start ELSE ((2 * val[n - 1]) % m) + bits[n]]
<1>1. N \in Nat /\ m \in Nat \ {0} /\ \A i \in 1 .. N : bits[i] \in Nat
  OBVIOUS
<1>2. ShiftIn(start, bits, w) = Val[N]
  BY DEF ShiftIn
<1> HIDE DEF N
<1>3. \A v \in Nat, i \in 1 .. N : ((2 * v) % m) + bits[i] \in Nat
  BY <1>1
<1>4. F \in [Nat \X (1 .. N) -> Nat]
  <2>1. \A p \in Nat \X (1 .. N) : ((2 * p[1]) % m) + bits[p[2]] \in Nat
    <3>1. \A p \in Nat \X (1 .. N) : p[1] \in Nat /\ p[2] \in 1 .. N
      OBVIOUS
    <3> QED BY <1>3, <3>1
  <2> QED BY <2>1
<1>5. \A v \in Nat, i \in 1 .. N : F[<<v, i>>] = ((2 * v) % m) + bits[i]
  OBVIOUS
<1> HIDE DEF F
<1>6. PICK f \in [0 .. N -> Nat] : Computes(f, start, F, N)
  BY <1>1, <1>4, RowExists
<1>7. /\ f[0] = start
      /\ \A i \in 1 .. N : i - 1 \in 0 .. N /\ f[i - 1] \in Nat
                           /\ f[i] = ((2 * f[i - 1]) % m) + bits[i]
  <2>1. \A i \in 1 .. N : i - 1 \in 0 .. N /\ f[i - 1] \in Nat
    BY <1>1
  <2>2. f[0] = start /\ \A i \in 1 .. N : f[i] = F[<<f[i - 1], i>>]
    BY <1>6 DEF Computes
  <2> QED BY <1>5, <2>1, <2>2
<1>8. f = [n \in 0 .. N |-> IF n = 0 THEN start ELSE ((2 * f[n - 1]) % m) + bits[n]]
  <2>1. \A n \in 0 .. N : f[n] = IF n = 0 THEN start ELSE ((2 * f[n - 1]) % m) + bits[n]
    <3> SUFFICES ASSUME NEW n \in 0 .. N
                 PROVE f[n] = IF n = 0 THEN start ELSE ((2 * f[n - 1]) % m) + bits[n]
        OBVIOUS
    <3>1. CASE n = 0
      BY <3>1, <1>7
    <3>2. CASE n # 0
      <4>1. n \in 1 .. N
        BY <1>1, <3>2
      <4> QED BY <3>2, <4>1, <1>7
    <3> QED BY <3>1, <3>2
  <2> QED BY <2>1
<1>9. Val = [n \in 0 .. N |-> IF n = 0 THEN start ELSE ((2 * Val[n - 1]) % m) + bits[n]]
  BY <1>8, Zenon
<1> HIDE DEF Val
<1>10. /\ Val[0] = start
       /\ \A i \in 1 .. N : Val[i] = ((2 * Val[i - 1]) % m) + bits[i]
  BY <1>1, <1>9
<1>11. \A i \in 0 .. N : Val[i] = f[i]
  <2> DEFINE T == {i \in Nat : i <= N => Val[i] = f[i]}
  <2>1. 0 \in T
    BY <1>7, <1>10
  <2>2. ASSUME NEW i \in T PROVE i + 1 \in T
    <3> SUFFICES ASSUME i + 1 <= N PROVE Val[i + 1] = f[i + 1]
        OBVIOUS
    <3>1. i + 1 \in 1 .. N /\ (i + 1) - 1 = i /\ Val[i] = f[i]
      BY <1>1
    <3> QED BY <3>1, <1>7, <1>10
  <2>3. T = Nat
    BY <2>1, <2>2, AllNumbers
  <2> QED BY <1>1, <2>3
<1>12. Shifted(f, start, bits, m)
  BY <1>6, <1>7 DEF Shifted, N
<1>13. ShiftIn(start, bits, w) = f[N]
  BY <1>1, <1>2, <1>11
<1> QED BY <1>12, <1>13 DEF N, Through

Weight(i) == 2 ^ i

\* Each bit weighs twice as much as the one before it.
LEMMA Doubling == \A i \in 1 .. 16 : Weight(i - 1) \in Nat /\ Weight(i) = 2 * Weight(i - 1)
<1> SUFFICES ASSUME NEW i \in 1 .. 16 PROVE Weight(i - 1) \in Nat /\ Weight(i) = 2 * Weight(i - 1)
    OBVIOUS
<1>1. CASE i = 1
  BY <1>1, SMT DEF Weight
<1>2. CASE i = 2
  BY <1>2, SMT DEF Weight
<1>3. CASE i = 3
  BY <1>3, SMT DEF Weight
<1>4. CASE i = 4
  BY <1>4, SMT DEF Weight
<1>5. CASE i = 5
  BY <1>5, SMT DEF Weight
<1>6. CASE i = 6
  BY <1>6, SMT DEF Weight
<1>7. CASE i = 7
  BY <1>7, SMT DEF Weight
<1>8. CASE i = 8
  BY <1>8, SMT DEF Weight
<1>9. CASE i = 9
  BY <1>9, SMT DEF Weight
<1>10. CASE i = 10
  BY <1>10, SMT DEF Weight
<1>11. CASE i = 11
  BY <1>11, SMT DEF Weight
<1>12. CASE i = 12
  BY <1>12, SMT DEF Weight
<1>13. CASE i = 13
  BY <1>13, SMT DEF Weight
<1>14. CASE i = 14
  BY <1>14, SMT DEF Weight
<1>15. CASE i = 15
  BY <1>15, SMT DEF Weight
<1>16. CASE i = 16
  BY <1>16, SMT DEF Weight
<1> QED BY <1>1, <1>2, <1>3, <1>4, <1>5, <1>6, <1>7, <1>8, <1>9, <1>10, <1>11, <1>12, <1>13, <1>14, <1>15, <1>16

\* A register of 16 bits
Mod16 == 65536
Top16 == 32768
Words == 0 .. 65535

LEMMA Weights == Weight(0) = 1 /\ Weight(7) = 128 /\ Weight(8) = 256 /\ Weight(16) = Mod16
BY SMT DEF Weight, Mod16

\* m is the modulus of a register, and h its top bit.
Halves(m, h) ==
    /\ m \in Nat \ {0}
    /\ \A x \in Nat : ((2 * ((x \div m) % m)) % m) + ((x % m) \div h) = ((2 * x) \div m) % m
    /\ \A x \in Nat : (x * m) \div m = x /\ (x % m) \div h \in 0 .. 1

\* A word, a byte and an address are shifted alike.
LEMMA Registers == Halves(Mod16, Top16) /\ Halves(256, 128) /\ Halves(128, 64)
<1>1. Halves(Mod16, Top16)
  BY SMT DEF Halves, Mod16, Top16
<1>2. Halves(256, 128)
  BY SMT DEF Halves
<1>3. Halves(128, 64)
  BY SMT DEF Halves
<1> QED BY <1>1, <1>2, <1>3

\* The bits of v, the top one of w first
AreOut(bits, v, w, m, h) ==
    /\ bits \in Seq(0 .. 1) /\ Len(bits) = w
    /\ \A i \in 1 .. w : bits[i] = ((v * Weight(i - 1)) % m) \div h

\* The register holds the upper part of y before, and the lower part afterwards.
LEMMA ShiftedThrough ==
    ASSUME NEW w \in 1 .. 16, NEW m, NEW h, Halves(m, h), Weight(w) = m,
           NEW y \in Nat, NEW bits, AreOut(bits, y, w, m, h)
    PROVE  ShiftIn((y \div m) % m, bits, w) = y % m
<1> DEFINE start == (y \div m) % m
<1>1. m \in Nat \ {0}
  BY DEF Halves
<1>2. start \in Nat
  BY <1>1
<1>3. Through(start, bits, w, m)
  <2>1. 2 ^ w = m
    BY DEF Weight
  <2> QED BY <1>1, <1>2, <2>1, ShiftInRow DEF AreOut
<1>4. PICK f : Shifted(f, start, bits, m) /\ ShiftIn(start, bits, w) = f[w]
  BY <1>3 DEF Through, AreOut
<1>5. f[0] = start
  BY <1>4 DEF Shifted
<1>6. \A i \in 1 .. w : f[i] = ((2 * f[i - 1]) % m) + ((y * Weight(i - 1)) % m) \div h
  BY <1>4 DEF Shifted, AreOut
<1> HIDE DEF start
<1> DEFINE T == {i \in Nat : i <= w => f[i] = ((y * Weight(i)) \div m) % m}
<1>7. 0 \in T
  <2>1. Weight(0) = 1 /\ y * 1 = y
    BY Weights
  <2> QED BY <1>5, <2>1 DEF start
<1>8. ASSUME NEW i \in T PROVE i + 1 \in T
  <2> SUFFICES ASSUME i + 1 <= w PROVE f[i + 1] = ((y * Weight(i + 1)) \div m) % m
      OBVIOUS
  <2>1. i + 1 \in 1 .. w /\ i + 1 \in 1 .. 16 /\ (i + 1) - 1 = i
    OBVIOUS
  <2> DEFINE p == Weight(i)
  <2>2. p \in Nat /\ Weight(i + 1) = 2 * p
    BY <2>1, Doubling
  <2>3. f[i + 1] = ((2 * f[i]) % m) + ((y * p) % m) \div h
    BY <2>1, <1>6
  <2>4. f[i] = ((y * p) \div m) % m
    BY <2>1
  <2> HIDE DEF p, T
  <2> DEFINE x == y * p
  <2>5. x \in Nat /\ y * (2 * p) = 2 * x
    BY <2>2, SMT
  <2>6. ((2 * ((x \div m) % m)) % m) + ((x % m) \div h) = ((2 * x) \div m) % m
    BY <2>5 DEF Halves
  <2> QED BY <2>2, <2>3, <2>4, <2>5, <2>6
<1>9. T = Nat
  <2> HIDE DEF T
  <2>1. T \in SUBSET Nat
    BY DEF T
  <2> QED BY <1>7, <1>8, <2>1, AllNumbers
<1>10. f[w] = ((y * m) \div m) % m
  <2>1. w \in T
    <3> HIDE DEF T
    <3> QED BY <1>9
  <2>2. f[w] = ((y * Weight(w)) \div m) % m
    BY <2>1
  <2> QED BY <2>2, Zenon
<1>11. (y * m) \div m = y
  BY DEF Halves
<1> QED BY <1>4, <1>10, <1>11 DEF start

-----------------------------------------------------------------------------
(* Single transfers *)

\* The bits of a word on the wire, and those of a byte, as arithmetic
LEMMA WordBits ==
    ASSUME NEW v \in Nat
    PROVE  ShiftOut(v, 16) = [i \in 1 .. 16 |-> ((v * Weight(i - 1)) % 65536) \div 32768]
BY SMT DEF ShiftOut, TopBit, Weight

LEMMA ByteBits ==
    ASSUME NEW v \in Nat
    PROVE  ShiftOut(v, 8) = [i \in 1 .. 8 |-> ((v * Weight(i - 1)) % 256) \div 128]
BY SMT DEF ShiftOut, TopBit, Weight

\* The values of a byte
Octets == 0 .. 255

\* Whatever is shifted out of a register with top bit h is a bit.
IsOut(bits, v, w, m, h) == bits = [i \in 1 .. w |-> ((v * Weight(i - 1)) % m) \div h]

\* The top bit is 0 or 1.
LEMMA TopIsBit ==
    ASSUME NEW v \in Nat, NEW w \in 1 .. 16, NEW m, NEW h, Halves(m, h),
           NEW bits, IsOut(bits, v, w, m, h)
    PROVE  AreOut(bits, v, w, m, h)
<1>1. ASSUME NEW i \in 1 .. w PROVE ((v * Weight(i - 1)) % m) \div h \in 0 .. 1
  <2>1. i \in 1 .. 16
    OBVIOUS
  <2> DEFINE p == Weight(i - 1)
  <2>2. p \in Nat
    BY <2>1, Doubling
  <2> HIDE DEF p
  <2>3. v * p \in Nat
    BY <2>2
  <2>4. ((v * p) % m) \div h \in 0 .. 1
    BY <2>3 DEF Halves
  <2> QED BY <2>4 DEF p
<1>2. bits \in [1 .. w -> 0 .. 1]
  BY <1>1, Zenon DEF IsOut
<1> QED BY <1>2 DEF IsOut, AreOut

\* What ShiftOut sends of a word
LEMMA WordOut ==
    ASSUME NEW v \in Nat
    PROVE  AreOut(ShiftOut(v, 16), v, 16, Mod16, Top16)
<1>1. IsOut(ShiftOut(v, 16), v, 16, Mod16, Top16)
  BY WordBits DEF IsOut, Mod16, Top16
<1>2. 16 \in 1 .. 16
  OBVIOUS
<1> QED BY <1>1, <1>2, Registers, TopIsBit, Zenon

\* What ShiftOut sends of a byte
LEMMA ByteOut ==
    ASSUME NEW v \in Nat
    PROVE  AreOut(ShiftOut(v, 8), v, 8, 256, 128)
<1> DEFINE m == 256
           h == 128
           bits == ShiftOut(v, 8)
           w == 8
<1>1. Halves(m, h)
  BY Registers
<1>2. IsOut(bits, v, w, m, h)
  BY ByteBits DEF IsOut
<1>3. w \in 1 .. 16
  OBVIOUS
<1> HIDE DEF m, h, bits, w
<1>4. AreOut(bits, v, w, m, h)
  BY <1>1, <1>2, <1>3, TopIsBit, Zenon
<1> QED BY <1>4 DEF m, h, bits, w

\* What fits into a register is not changed by it.
LEMMA Fits ==
    /\ \A x \in Words : x \in Nat /\ (x \div Mod16) % Mod16 = 0 /\ x % Mod16 = x
    /\ \A x \in 0 .. 127 : x \in Nat /\ (x \div 128) % 128 = 0 /\ x % 128 = x
BY SMT DEF Mod16, Words

\* A word that is shifted out and in again is the same.
LEMMA WordThrough ==
    ASSUME NEW v \in Words, NEW bits, AreOut(bits, v, 16, Mod16, Top16)
    PROVE  ShiftIn(0, bits, 16) = v
<1>1. (v \div Mod16) % Mod16 = 0 /\ v % Mod16 = v /\ v \in Nat
  BY Fits
<1>2. 16 \in 1 .. 16
  OBVIOUS
<1>3. ShiftIn((v \div Mod16) % Mod16, bits, 16) = v % Mod16
  BY <1>1, <1>2, Registers, Weights, ShiftedThrough
<1> QED BY <1>1, <1>3

\* A byte pushes out all eight bits of the value before it.
LEMMA ByteThrough ==
    ASSUME NEW v \in 0 .. 255, NEW start \in 0 .. 255, NEW bits, AreOut(bits, v, 8, 256, 128)
    PROVE  ShiftIn(start, bits, 8) = v
<1> DEFINE y == 256 * start + v
           m == 256
           h == 128
           w == 8
<1>1. y \in Nat /\ (y \div m) % m = start /\ y % m = v
  BY SMT
<1>2. ASSUME NEW p \in Nat PROVE ((256 * start + v) * p) % 256 = (v * p) % 256
  <2>1. (256 * start + v) * p = 256 * (start * p) + v * p /\ start * p \in Nat /\ v * p \in Nat
    BY SMT
  <2>2. \A a, b \in Nat : (256 * a + b) % 256 = b % 256
    BY SMT
  <2> QED BY <2>1, <2>2
<1>3. ASSUME NEW i \in 1 .. w PROVE bits[i] = ((y * Weight(i - 1)) % m) \div h
  <2>1. Weight(i - 1) \in Nat
    BY Doubling
  <2>2. bits[i] = ((v * Weight(i - 1)) % 256) \div 128
    BY DEF AreOut
  <2> QED BY <1>2, <2>1, <2>2
<1>4. AreOut(bits, y, w, m, h)
  BY <1>3 DEF AreOut
<1>5. Halves(m, h) /\ Weight(w) = m /\ w \in 1 .. 16
  BY Registers, Weights, SMT
<1> HIDE DEF m, h, y, w
<1>6. ShiftIn((y \div m) % m, bits, w) = y % m
  BY <1>1, <1>4, <1>5, ShiftedThrough
<1> QED BY <1>1, <1>6 DEF w

\* t is the n bits of s from the a-th on.
IsPiece(t, s, a, n) ==
    t \in Seq(0 .. 1) /\ Len(t) = n /\ \A i \in 1 .. n : t[i] = s[a + i - 1]

\* Seven bits of an address, after the bit that says write or read
LEMMA AddressThrough ==
    ASSUME NEW a \in 0 .. 127, NEW t \in {0, 128}, NEW out, AreOut(out, a + t, 8, 256, 128),
           NEW bits, IsPiece(bits, out, 2, 7)
    PROVE  ShiftIn(0, bits, 7) = a
<1> DEFINE m == 128
           h == 64
           w == 7
<1>1. ASSUME NEW i \in 1 .. 7 PROVE bits[i] = (((a + t) * Weight(i)) % 256) \div 128
  <2>1. i + 1 \in 1 .. 8 /\ (i + 1) - 1 = i /\ 2 + i - 1 = i + 1
    OBVIOUS
  <2>2. bits[i] = out[i + 1]
    BY <2>1 DEF IsPiece
  <2> QED BY <2>1, <2>2 DEF AreOut
<1>2. ASSUME NEW p \in Nat PROVE (((a + t) * (2 * p)) % 256) \div 128 = ((a * p) % 128) \div 64
  <2>1. \A x, s \in Nat : ((2 * x + 256 * s) % 256) \div 128 = (x % 128) \div 64
    BY SMT
  <2>2. PICK s \in {0, 1} : t = 128 * s
    OBVIOUS
  <2>3. \A x, q \in Nat : (x + 128 * 0) * (2 * q) = 2 * (x * q) + 256 * 0
                          /\ (x + 128 * 1) * (2 * q) = 2 * (x * q) + 256 * q
    BY SMT
  <2> DEFINE x == a * p
             r == IF s = 0 THEN 0 ELSE p
  <2>4. x \in Nat /\ r \in Nat /\ a \in Nat
    BY SMT
  <2>5. (a + t) * (2 * p) = 2 * x + 256 * r
    BY <2>2, <2>3, <2>4
  <2> HIDE DEF x, r
  <2>6. ((2 * x + 256 * r) % 256) \div 128 = (x % 128) \div 64
    BY <2>1, <2>4
  <2> QED BY <2>5, <2>6 DEF x
<1>3. ASSUME NEW i \in 1 .. w PROVE bits[i] = ((a * Weight(i - 1)) % m) \div h
  <2>0. i \in 1 .. 7 /\ i \in 1 .. 16
    OBVIOUS
  <2>1. Weight(i - 1) \in Nat /\ Weight(i) = 2 * Weight(i - 1)
    BY <2>0, Doubling
  <2>2. bits[i] = (((a + t) * Weight(i)) % 256) \div 128
    BY <1>1, <2>0
  <2> DEFINE p == Weight(i - 1)
  <2>3. p \in Nat /\ bits[i] = (((a + t) * (2 * p)) % 256) \div 128
    BY <2>1, <2>2
  <2> HIDE DEF p
  <2>4. bits[i] = ((a * p) % 128) \div 64
    BY <1>2, <2>3
  <2> QED BY <2>4 DEF p
<1>4. AreOut(bits, a, w, m, h)
  BY <1>3 DEF AreOut, IsPiece
<1>5. Halves(m, h) /\ Weight(w) = m /\ w \in 1 .. 16
  BY Registers, Weights, SMT
<1>6. (a \div m) % m = 0 /\ a % m = a /\ a \in Nat
  BY Fits
<1> HIDE DEF m, h, w
<1>7. ShiftIn((a \div m) % m, bits, w) = a % m
  BY <1>4, <1>5, <1>6, ShiftedThrough
<1> QED BY <1>6, <1>7 DEF w

-----------------------------------------------------------------------------
(* The chip finds in a transfer what spi.c has put there, and the other way round *)

\* The bits that the chip cuts out of a transfer
LEMMA Piece ==
    ASSUME NEW s \in Seq(0 .. 1), NEW a \in Nat \ {0}, NEW n \in Nat, NEW b, b = a + n - 1, b <= Len(s)
    PROVE  IsPiece(SubSeq(s, a, b), s, a, n)
BY DEF IsPiece

\* t follows s in st.
Follows(st, s, t) ==
    /\ st \in Seq(0 .. 1) /\ Len(st) = Len(s) + Len(t)
    /\ \A i \in 1 .. Len(s) : st[i] = s[i]
    /\ \A i \in 1 .. Len(t) : st[Len(s) + i] = t[i]

\* A transfer is the command, then what is sent after it.
LEMMA Joined == ASSUME NEW s \in Seq(0 .. 1), NEW t \in Seq(0 .. 1) PROVE Follows(s \o t, s, t)
BY DEF Follows

LEMMA ByteLength == \A v \in Octets : v \in Nat /\ ShiftOut(v, 8) \in Seq(0 .. 1) /\ Len(ShiftOut(v, 8)) = 8
<1> SUFFICES ASSUME NEW v \in Octets
             PROVE  v \in Nat /\ ShiftOut(v, 8) \in Seq(0 .. 1) /\ Len(ShiftOut(v, 8)) = 8
    OBVIOUS
<1>1. v \in Nat
  BY SMT DEF Octets
<1> QED BY <1>1, ByteOut DEF AreOut

\* The command to write or read at an address, whose first bit says which
LEMMA CommandOut ==
    ASSUME NEW a \in 0 .. 127
    PROVE  /\ AreOut(WriteCommand(a), a + 128, 8, 256, 128)
           /\ AreOut(ReadCommand(a), a + 0, 8, 256, 128)
           /\ WriteCommand(a)[1] = 1
<1>1. a % 128 = a
  OBVIOUS
<1>2. AreOut(WriteCommand(a), a + 128, 8, 256, 128) /\ AreOut(ReadCommand(a), a + 0, 8, 256, 128)
  <2>1. a + 128 \in Nat /\ a + 0 \in Nat /\ a + 0 = a
    OBVIOUS
  <2> QED BY <1>1, <2>1, ByteOut DEF WriteCommand, ReadCommand
<1>3. WriteCommand(a)[1] = (((a + 128) * Weight(1 - 1)) % 256) \div 128
  <2>1. 1 \in 1 .. 8
    OBVIOUS
  <2> QED BY <1>2, <2>1 DEF AreOut
<1>4. (((a + 128) * 1) % 256) \div 128 = 1
  OBVIOUS
<1>5. 1 - 1 = 0
  BY SMTT(30)
<1> QED BY <1>2, <1>3, <1>4, <1>5, Weights

LEMMA CommandLength ==
    ASSUME NEW a \in 0 .. 127
    PROVE  WriteCommand(a) \in Seq(0 .. 1) /\ Len(WriteCommand(a)) = 8
BY CommandOut DEF AreOut

\* A wire that begins with the command to write at an address
Begins(wire, c) == wire \in Seq(0 .. 1) /\ Len(wire) >= 8 /\ \A i \in 1 .. 8 : wire[i] = c[i]

\* The chip finds the address, and that this is a write.
LEMMA Commanded ==
    ASSUME NEW a \in 0 .. 127, NEW wire, Begins(wire, WriteCommand(a))
    PROVE  IsWrite(wire) /\ Address(wire) = a
<1> DEFINE c == WriteCommand(a)
           bits == SubSeq(wire, 2, 8)
<1>1. AreOut(c, a + 128, 8, 256, 128) /\ c[1] = 1
  BY CommandOut
<1>2. Begins(wire, c)
  OBVIOUS
<1> HIDE DEF c
<1>3. c \in Seq(0 .. 1) /\ Len(c) = 8
  BY <1>1 DEF AreOut
<1>4. wire \in Seq(0 .. 1) /\ Len(wire) >= 8 /\ \A i \in 1 .. 8 : wire[i] = c[i]
  BY <1>2 DEF Begins
<1>5. 8 = 2 + 7 - 1 /\ 8 <= Len(wire) /\ 2 \in Nat \ {0} /\ 7 \in Nat
  BY <1>4
<1>6. IsPiece(bits, wire, 2, 7)
  BY <1>4, <1>5, Piece
<1> HIDE DEF bits
<1>7. IsPiece(bits, c, 2, 7)
  BY <1>4, <1>6 DEF IsPiece
<1>8. ShiftIn(0, bits, 7) = a
  <2>1. 128 \in {0, 128}
    OBVIOUS
  <2> QED BY <1>1, <1>7, <2>1, AddressThrough
<1> QED BY <1>1, <1>4, <1>8 DEF bits, Address, IsWrite

\* spi_write16 (spi.c:32-64): the chip finds the register and the value in the transfer, for
\* every address and every word.
THEOREM WriteThrough ==
    ASSUME NEW a \in 0 .. 127, NEW v \in Words
    PROVE  LET wire == spi_write16(a, v)
           IN  IsWrite(wire) /\ Address(wire) = a /\ Word(wire) = v
<1> DEFINE c == WriteCommand(a)
           s == ShiftOut(v, 16)
           wire == c \o s
           bits == SubSeq(wire, 9, 24)
<1>1. AreOut(s, v, 16, Mod16, Top16) /\ c \in Seq(0 .. 1)
  BY WordOut, CommandOut, Fits, ZenonT(30) DEF AreOut
<1>2. spi_write16(a, v) = wire
  BY DEF spi_write16
<1> HIDE DEF s
<1>3. s \in Seq(0 .. 1) /\ Len(s) = 16
  BY <1>1 DEF AreOut
<1>4. Follows(wire, c, s)
  <2> HIDE DEF c
  <2> QED BY <1>1, <1>3, Joined
<1> HIDE DEF wire
<1>5. /\ wire \in Seq(0 .. 1) /\ Len(wire) = 24 /\ \A i \in 1 .. 16 : wire[9 + i - 1] = s[i]
      /\ Begins(wire, c)
  <2>1. Len(c) = 8
    BY CommandLength
  <2>2. wire \in Seq(0 .. 1) /\ Len(wire) = 24
    BY <1>3, <1>4, <2>1 DEF Follows
  <2>3. ASSUME NEW i \in 1 .. 16 PROVE wire[9 + i - 1] = s[i]
    <3>1. i \in 1 .. Len(s) /\ Len(c) + i = 9 + i - 1
      BY <1>3, <2>1
    <3>2. wire[Len(c) + i] = s[i]
      BY <1>4, <3>1 DEF Follows
    <3> QED BY <3>1, <3>2
  <2>4. Begins(wire, c)
    BY <1>4, <2>1, <2>2 DEF Follows, Begins
  <2> QED BY <2>2, <2>3, <2>4
<1>6. 24 = 9 + 16 - 1 /\ 24 <= Len(wire) /\ 9 \in Nat \ {0} /\ 16 \in Nat
  BY <1>5
<1>7. IsPiece(bits, wire, 9, 16)
  BY <1>5, <1>6, Piece
<1> HIDE DEF bits
<1>8. bits \in Seq(0 .. 1) /\ Len(bits) = 16 /\ \A i \in 1 .. 16 : bits[i] = s[i]
  BY <1>5, <1>7 DEF IsPiece
<1>9. AreOut(bits, v, 16, Mod16, Top16)
  BY <1>1, <1>8 DEF AreOut
<1>10. ShiftIn(0, bits, 16) = v
  BY <1>9, WordThrough
<1> QED BY <1>2, <1>5, <1>10, Commanded DEF Word, bits, c

\* The chip finds the address of a register that is read.
LEMMA ReadAddress ==
    ASSUME NEW a \in 0 .. 127
    PROVE  ReadCommand(a) \in ReadCommands /\ Address(ReadCommand(a)) = a
<1> DEFINE c == ReadCommand(a)
           bits == SubSeq(c, 2, 8)
<1>1. AreOut(c, a + 0, 8, 256, 128)
  BY CommandOut
<1>2. c \in ReadCommands
  BY DEF ReadCommands
<1> HIDE DEF c
<1>3. c \in Seq(0 .. 1) /\ Len(c) = 8
  BY <1>1 DEF AreOut
<1>4. 8 = 2 + 7 - 1 /\ 8 <= Len(c) /\ 2 \in Nat \ {0} /\ 7 \in Nat
  BY <1>3
<1>5. IsPiece(bits, c, 2, 7)
  BY <1>3, <1>4, Piece
<1> HIDE DEF bits
<1>6. ShiftIn(0, bits, 7) = a
  <2>1. 0 \in {0, 128}
    OBVIOUS
  <2> QED BY <1>1, <1>5, <2>1, AddressThrough
<1> QED BY <1>2, <1>6 DEF Address, bits, c

\* spi_read16 (spi.c:66-102): a register is read as the word the chip puts on the wire, for
\* every address and every word.
THEOREM ReadThrough ==
    ASSUME NEW a \in 0 .. 127, NEW v \in Words, NEW Miso, Miso[ReadCommand(a)] = ShiftOut(v, 16)
    PROVE  spi_read16(a, Miso) = v
<1> DEFINE s == ShiftOut(v, 16)
           bits == SubSeq(s, 1, 16)
<1>1. AreOut(s, v, 16, Mod16, Top16)
  BY WordOut, Fits
<1>2. spi_read16(a, Miso) = ShiftIn(0, bits, 16)
  BY DEF spi_read16
<1> HIDE DEF s
<1>3. s \in Seq(0 .. 1) /\ Len(s) = 16
  BY <1>1 DEF AreOut
<1>4. bits \in Seq(0 .. 1) /\ Len(bits) = 16 /\ \A i \in 1 .. 16 : bits[i] = s[1 + i - 1]
  <2>1. 16 = 1 + 16 - 1 /\ 16 <= Len(s) /\ 1 \in Nat \ {0} /\ 16 \in Nat
    BY <1>3
  <2>2. IsPiece(bits, s, 1, 16)
    BY <1>3, <2>1, Piece
  <2> QED BY <2>2 DEF IsPiece
<1> HIDE DEF bits
<1>5. \A i \in 1 .. 16 : bits[i] = s[i]
  BY <1>4, SMTT(30)
<1>6. AreOut(bits, v, 16, Mod16, Top16)
  BY <1>1, <1>4, <1>5 DEF AreOut
<1> QED BY <1>2, <1>6, WordThrough

\* The wire as it grows byte by byte
Grows(f, addr, buffer) ==
    /\ f \in [0 .. Len(buffer) -> Seq(0 .. 1)] /\ f[0] = WriteCommand(addr)
    /\ \A i \in 1 .. Len(buffer) : f[i] = f[i - 1] \o ShiftOut(buffer[i], 8)

Grown(addr, buffer) ==
    \E f : Grows(f, addr, buffer) /\ spi_writebytes(addr, buffer) = f[Len(buffer)]

\* The wire of spi_writebytes is built byte by byte, with no byte left out.
LEMMA WireRow ==
    ASSUME NEW addr \in 0 .. 127, NEW buffer \in Seq(Octets)
    PROVE  Grown(addr, buffer)
<1> DEFINE N == Len(buffer)
           D == Seq(0 .. 1)
           c == WriteCommand(addr)
           b == [i \in 1 .. N |-> ShiftOut(buffer[i], 8)]
           F == [p \in D \X (1 .. N) |-> p[1] \o b[p[2]]]
           Wire == CHOOSE wire : wire = [n \in 0 .. N |->
                     IF n = 0 THEN WriteCommand(addr) ELSE wire[n - 1] \o ShiftOut(buffer[n], 8)]
<1>1. N \in Nat /\ c \in D
  <2>1. N \in Nat
    OBVIOUS
  <2>2. c \in D
    BY CommandLength
  <2> QED BY <2>1, <2>2
<1>2. \A i \in 1 .. N : b[i] \in D /\ b[i] = ShiftOut(buffer[i], 8)
  <2> SUFFICES ASSUME NEW i \in 1 .. N PROVE ShiftOut(buffer[i], 8) \in D
      OBVIOUS
  <2>1. buffer[i] \in Octets
    OBVIOUS
  <2> QED BY <2>1, ByteLength
<1>3. spi_writebytes(addr, buffer) = Wire[N]
  BY DEF spi_writebytes
<1> HIDE DEF N, c, b
<1>4. F \in [D \X (1 .. N) -> D]
  <2>1. \A p \in D \X (1 .. N) : p[1] \in D /\ b[p[2]] \in D
    <3>1. \A p \in D \X (1 .. N) : p[1] \in D /\ p[2] \in 1 .. N
      <4> HIDE DEF D
      <4> QED OBVIOUS
    <3> HIDE DEF D
    <3> QED BY <1>2, <3>1
  <2>2. \A s, t \in D : s \o t \in D
    OBVIOUS
  <2> HIDE DEF D
  <2> QED BY <2>1, <2>2
<1>5. \A s \in D, i \in 1 .. N : F[<<s, i>>] = s \o b[i]
  <2> HIDE DEF D
  <2> QED OBVIOUS
<1> HIDE DEF F, D
<1>6. PICK f \in [0 .. N -> D] : Computes(f, c, F, N)
  BY <1>1, <1>4, RowExists
<1>7. f[0] = c /\ \A i \in 1 .. N : f[i] = f[i - 1] \o ShiftOut(buffer[i], 8)
  <2>1. \A i \in 1 .. N : i - 1 \in 0 .. N /\ f[i - 1] \in D
    BY <1>1
  <2>2. f[0] = c /\ \A i \in 1 .. N : f[i] = F[<<f[i - 1], i>>]
    BY <1>6 DEF Computes
  <2> QED BY <1>2, <1>5, <2>1, <2>2
<1>8. f = [n \in 0 .. N |-> IF n = 0 THEN c ELSE f[n - 1] \o ShiftOut(buffer[n], 8)]
  <2>1. \A n \in 0 .. N : n # 0 => n \in 1 .. N
    BY <1>1
  <2>2. \A n \in 0 .. N : f[n] = IF n = 0 THEN c ELSE f[n - 1] \o ShiftOut(buffer[n], 8)
    BY <1>7, <2>1, Zenon
  <2> QED BY <2>2
<1>9. Wire = [n \in 0 .. N |-> IF n = 0 THEN c ELSE Wire[n - 1] \o ShiftOut(buffer[n], 8)]
  BY <1>8, Zenon DEF c
<1> HIDE DEF Wire
<1>10. Wire[0] = c /\ \A i \in 1 .. N : Wire[i] = Wire[i - 1] \o ShiftOut(buffer[i], 8)
  <2>1. \A i \in 1 .. N : i \in 0 .. N /\ i # 0
    BY <1>1
  <2>2. 0 \in 0 .. N
    BY <1>1
  <2> QED BY <1>9, <2>1, <2>2, Zenon
<1>11. \A i \in 0 .. N : Wire[i] = f[i]
  <2> DEFINE T == {i \in Nat : i <= N => Wire[i] = f[i]}
  <2>1. 0 \in T
    BY <1>7, <1>10
  <2>2. ASSUME NEW i \in T PROVE i + 1 \in T
    <3> SUFFICES ASSUME i + 1 <= N PROVE Wire[i + 1] = f[i + 1]
        OBVIOUS
    <3>1. i + 1 \in 1 .. N /\ (i + 1) - 1 = i /\ Wire[i] = f[i]
      BY <1>1
    <3> QED BY <3>1, <1>7, <1>10
  <2>3. T = Nat
    BY <2>1, <2>2, AllNumbers
  <2> QED BY <1>1, <2>3
<1>12. Grows(f, addr, buffer)
  BY <1>6, <1>7 DEF Grows, N, D, c
<1>13. spi_writebytes(addr, buffer) = f[N]
  BY <1>1, <1>3, <1>11
<1> QED BY <1>12, <1>13 DEF N, Grown

\* After the command, byte k of the buffer is at bits 8 * k + 1 to 8 * k + 8.
Carries(wire, c, buffer, n) ==
    /\ Begins(wire, c) /\ Len(wire) = 8 * n + 8
    /\ \A k \in 1 .. n : \A j \in 1 .. 8 : wire[8 * k + j] = ShiftOut(buffer[k], 8)[j]

\* One more byte does not disturb those before it.
LEMMA CarriesMore ==
    ASSUME NEW n \in Nat, NEW buffer, NEW wire, NEW c, Carries(wire, c, buffer, n),
           buffer[n + 1] \in Octets
    PROVE  Carries(wire \o ShiftOut(buffer[n + 1], 8), c, buffer, n + 1)
<1> DEFINE b == ShiftOut(buffer[n + 1], 8)
           more == wire \o b
<1>1. /\ wire \in Seq(0 .. 1) /\ Len(wire) = 8 * n + 8 /\ b \in Seq(0 .. 1) /\ Len(b) = 8
      /\ \A i \in 1 .. 8 : wire[i] = c[i]
  BY ByteLength DEF Carries, Begins
<1> HIDE DEF b
<1>2. Follows(more, wire, b)
  BY <1>1, Joined
<1> HIDE DEF more
<1>3. /\ more \in Seq(0 .. 1) /\ Len(more) = 8 * (n + 1) + 8
      /\ \A i \in 1 .. 8 * n + 8 : more[i] = wire[i]
      /\ \A j \in 1 .. 8 : more[8 * (n + 1) + j] = b[j]
  <2>0. (8 * n + 8) + 8 = 8 * (n + 1) + 8
    OBVIOUS
  <2>1. Len(more) = Len(wire) + Len(b) /\ more \in Seq(0 .. 1)
    BY <1>2 DEF Follows
  <2>2. \A i \in 1 .. 8 * n + 8 : more[i] = wire[i]
    BY <1>1, <1>2 DEF Follows
  <2>3. ASSUME NEW j \in 1 .. 8 PROVE more[8 * (n + 1) + j] = b[j]
    <3>1. j \in 1 .. Len(b) /\ Len(wire) + j = 8 * (n + 1) + j
      BY <1>1
    <3>2. more[Len(wire) + j] = b[j]
      BY <1>2, <3>1 DEF Follows
    <3> QED BY <3>1, <3>2
  <2>4. Len(more) = 8 * (n + 1) + 8
    BY <1>1, <2>0, <2>1
  <2>5. \A j \in 1 .. 8 : more[8 * (n + 1) + j] = b[j]
    BY <2>3
  <2> QED BY <2>1, <2>2, <2>4, <2>5
<1>4. ASSUME NEW k \in 1 .. n + 1, NEW j \in 1 .. 8
      PROVE  more[8 * k + j] = ShiftOut(buffer[k], 8)[j]
  <2>1. CASE k = n + 1
    BY <1>3, <2>1 DEF b
  <2>2. CASE k # n + 1
    <3>1. k \in 1 .. n /\ 8 * k + j \in 1 .. 8 * n + 8
      BY <2>2
    <3> QED BY <1>3, <3>1 DEF Carries
  <2> QED BY <2>1, <2>2
<1>5. Begins(more, c)
  BY <1>1, <1>3 DEF Begins
<1> QED BY <1>3, <1>4, <1>5 DEF Carries, more, b

\* spi_writebytes (spi.c:176-211): the chip finds every byte of the buffer, in order, however
\* many there are.
THEOREM BytesThrough ==
    ASSUME NEW a \in 0 .. 127, NEW buffer \in Seq(Octets)
    PROVE  LET wire == spi_writebytes(a, buffer)
           IN  IsWrite(wire) /\ Address(wire) = a /\ Bytes(wire) = buffer
<1> DEFINE N == Len(buffer)
           c == WriteCommand(a)
           wire == spi_writebytes(a, buffer)
<1>1. PICK f : Grows(f, a, buffer) /\ wire = f[N]
  BY WireRow DEF Grown
<1>2. N \in Nat /\ \A i \in 1 .. N : buffer[i] \in Octets
  OBVIOUS
<1>3. f[0] = c /\ \A i \in 1 .. N : f[i] = f[i - 1] \o ShiftOut(buffer[i], 8)
  BY <1>1 DEF Grows
<1>4. c \in Seq(0 .. 1) /\ Len(c) = 8
  BY CommandLength
<1> HIDE DEF N, c, wire
<1>5. Carries(wire, c, buffer, N)
  <2> DEFINE T == {n \in Nat : n <= N => Carries(f[n], c, buffer, n)}
  <2>1. 0 \in T
    BY <1>3, <1>4 DEF Carries, Begins
  <2>2. ASSUME NEW n \in T PROVE n + 1 \in T
    <3> SUFFICES ASSUME n + 1 <= N PROVE Carries(f[n + 1], c, buffer, n + 1)
        OBVIOUS
    <3>1. n \in Nat /\ n + 1 \in 1 .. N /\ (n + 1) - 1 = n /\ Carries(f[n], c, buffer, n)
      BY <1>2
    <3>2. f[n + 1] = f[n] \o ShiftOut(buffer[n + 1], 8)
      BY <1>3, <3>1
    <3> QED BY <1>2, <3>1, <3>2, CarriesMore
  <2>3. T = Nat
    BY <2>1, <2>2, AllNumbers
  <2> QED BY <1>1, <1>2, <2>3
<1>6. IsWrite(wire) /\ Address(wire) = a
  BY <1>5, Commanded DEF Carries, c
<1>7. ASSUME NEW i \in 1 .. N
      PROVE  ShiftIn(0, SubSeq(wire, 8 * i + 1, 8 * i + 8), 8) = buffer[i]
  <2> DEFINE bits == SubSeq(wire, 8 * i + 1, 8 * i + 8)
             out == ShiftOut(buffer[i], 8)
  <2>1. wire \in Seq(0 .. 1) /\ Len(wire) = 8 * N + 8
    BY <1>5 DEF Carries, Begins
  <2>2. 8 * i + 8 = (8 * i + 1) + 8 - 1 /\ 8 * i + 8 <= Len(wire) /\ 8 * i + 1 \in Nat \ {0} /\ 8 \in Nat
    BY <1>2, <2>1
  <2>3. IsPiece(bits, wire, 8 * i + 1, 8)
    BY <2>1, <2>2, Piece
  <2>4. \A j \in 1 .. 8 : wire[8 * i + j] = out[j]
    BY <1>5 DEF Carries
  <2> HIDE DEF bits
  <2>5. bits \in Seq(0 .. 1) /\ Len(bits) = 8 /\ \A j \in 1 .. 8 : bits[j] = wire[(8 * i + 1) + j - 1]
    BY <2>3 DEF IsPiece
  <2>6. \A j \in 1 .. 8 : (8 * i + 1) + j - 1 = 8 * i + j
    BY <1>2
  <2>7. buffer[i] \in Octets
    BY <1>2
  <2>8. AreOut(out, buffer[i], 8, 256, 128)
    BY <2>7, ByteLength, ByteOut
  <2> HIDE DEF out
  <2>9. \A j \in 1 .. 8 : bits[j] = out[j]
    BY <2>4, <2>5, <2>6, SMTT(30)
  <2>10. AreOut(bits, buffer[i], 8, 256, 128)
    BY <2>5, <2>8, <2>9 DEF AreOut
  <2>11. ShiftIn(0, bits, 8) = buffer[i]
    <3>1. 0 \in 0 .. 255 /\ buffer[i] \in 0 .. 255
      BY <2>7, SMT DEF Octets
    <3> QED BY <2>10, <3>1, ByteThrough
  <2> QED BY <2>11 DEF bits
<1>8. Bytes(wire) = buffer
  <2>1. (Len(wire) - 8) \div 8 = N
    BY <1>2, <1>5 DEF Carries
  <2>2. Bytes(wire) = [i \in 1 .. N |-> ShiftIn(0, SubSeq(wire, 8 * i + 1, 8 * i + 8), 8)]
    BY <2>1 DEF Bytes
  <2>3. buffer = [i \in 1 .. N |-> buffer[i]]
    BY DEF N
  <2> QED BY <1>7, <2>2, <2>3
<1> QED BY <1>6, <1>8 DEF wire

-----------------------------------------------------------------------------
(* Reading a buffer *)

\* bits holds the bytes of the buffer one after another, from the start.
Answers(bits, buffer) ==
    \A i \in 1 .. Len(buffer) : SubSeq(bits, 8 * i - 7, 8 * i) = ShiftOut(buffer[i], 8)

\* A byte is read right whatever byte the value still holds from the one before.
LEMMA ByteRead ==
    ASSUME NEW bits, NEW buffer \in Seq(Octets), Answers(bits, buffer), NEW old \in Octets,
           NEW i \in 1 .. Len(buffer)
    PROVE  ShiftIn(old, SubSeq(bits, 8 * i - 7, 8 * i), 8) = buffer[i] /\ buffer[i] \in Octets
<1>0. Len(buffer) \in Nat /\ \A k \in 1 .. Len(buffer) : buffer[k] \in Octets
  OBVIOUS
<1>1. buffer[i] \in Octets /\ Octets = 0 .. 255
  BY <1>0, Zenon DEF Octets
<1>2. buffer[i] \in Nat
  BY <1>1, ByteLength
<1>3. AreOut(ShiftOut(buffer[i], 8), buffer[i], 8, 256, 128)
  BY <1>2, ByteOut
<1>4. SubSeq(bits, 8 * i - 7, 8 * i) = ShiftOut(buffer[i], 8)
  BY DEF Answers
<1>5. ShiftIn(old, ShiftOut(buffer[i], 8), 8) = buffer[i]
  BY <1>1, <1>3, ByteThrough, Zenon
<1> QED BY <1>1, <1>4, <1>5

\* A buffer is read as the bytes the chip puts on the wire, for every length: a value
\* that is not cleared between two bytes leaves nothing of the old one behind
\* (spi.c:213-249).
THEOREM ReadBytesThrough ==
    ASSUME NEW a \in 0 .. 127, NEW buffer \in Seq(Octets), NEW Miso,
           Answers(Miso[ReadCommand(a)], buffer)
    PROVE  spi_readbytes(a, Len(buffer), Miso) = buffer
<1> DEFINE N == Len(buffer)
           bits == Miso[ReadCommand(a)]
           piece(i) == SubSeq(bits, 8 * i - 7, 8 * i)
           Val == CHOOSE val : val = [n \in 0 .. N |->
                     IF n = 0 THEN 0 ELSE ShiftIn(val[n - 1], piece(n), 8)]
           f == [i \in 0 .. N |-> IF i = 0 THEN 0 ELSE buffer[i]]
<1>1. N \in Nat /\ buffer = [i \in 1 .. N |-> buffer[i]] /\ 0 \in Octets
  BY DEF Octets
<1>2. spi_readbytes(a, N, Miso) = [i \in 1 .. N |-> Val[i]]
  BY DEF spi_readbytes
<1>3. \A old \in Octets, i \in 1 .. N : ShiftIn(old, piece(i), 8) = buffer[i] /\ buffer[i] \in Octets
  BY ByteRead
<1> HIDE DEF N, piece
<1>4. f[0] = 0 /\ \A i \in 1 .. N : f[i] = buffer[i] /\ f[i - 1] \in Octets
  <2>1. \A i \in 1 .. N : i \in 0 .. N /\ i # 0 /\ i - 1 \in 0 .. N
                           /\ (i - 1 = 0 \/ i - 1 \in 1 .. N)
    BY <1>1
  <2>2. 0 \in 0 .. N
    BY <1>1
  <2>3. \A i \in 1 .. N : buffer[i] \in Octets
    BY <1>1, <1>3
  <2> QED BY <1>1, <2>1, <2>2, <2>3
<1> HIDE DEF f
<1>5. f = [n \in 0 .. N |-> IF n = 0 THEN 0 ELSE ShiftIn(f[n - 1], piece(n), 8)]
  <2>1. f = [i \in 0 .. N |-> IF i = 0 THEN 0 ELSE buffer[i]]
    BY DEF f
  <2>2. \A n \in 0 .. N : n # 0 => n \in 1 .. N
    BY <1>1
  <2>3. \A n \in 1 .. N : ShiftIn(f[n - 1], piece(n), 8) = buffer[n]
    BY <1>3, <1>4, Zenon
  <2> QED BY <2>1, <2>2, <2>3, Zenon
<1>6. Val = [n \in 0 .. N |-> IF n = 0 THEN 0 ELSE ShiftIn(Val[n - 1], piece(n), 8)]
  BY <1>5, Zenon
<1> HIDE DEF Val
<1>7. Val[0] = 0 /\ \A i \in 1 .. N : Val[i] = ShiftIn(Val[i - 1], piece(i), 8)
  <2>1. \A i \in 1 .. N : i \in 0 .. N /\ i # 0
    BY <1>1
  <2>2. 0 \in 0 .. N
    BY <1>1
  <2> QED BY <1>6, <2>1, <2>2, Zenon
<1>8. \A i \in 0 .. N : Val[i] = f[i]
  <2> DEFINE T == {i \in Nat : i <= N => Val[i] = f[i]}
  <2>1. 0 \in T
    BY <1>4, <1>7
  <2>2. ASSUME NEW i \in T PROVE i + 1 \in T
    <3> SUFFICES ASSUME i + 1 <= N PROVE Val[i + 1] = f[i + 1]
        OBVIOUS
    <3>1. i + 1 \in 1 .. N /\ (i + 1) - 1 = i /\ Val[i] = f[i]
      BY <1>1
    <3>2. f[i + 1] = buffer[i + 1] /\ f[i] \in Octets
      BY <3>1, <1>4
    <3>3. Val[i + 1] = ShiftIn(f[i], piece(i + 1), 8)
      BY <3>1, <1>7
    <3>4. ShiftIn(f[i], piece(i + 1), 8) = buffer[i + 1]
      BY <3>1, <3>2, <1>3
    <3> QED BY <3>2, <3>3, <3>4
  <2>3. T = Nat
    BY <2>1, <2>2, AllNumbers
  <2> QED BY <1>1, <2>3
<1>9. \A i \in 1 .. N : Val[i] = buffer[i]
  <2>1. \A i \in 1 .. N : i \in 0 .. N
    BY <1>1
  <2> QED BY <1>4, <1>8, <2>1
<1> QED BY <1>1, <1>2, <1>9 DEF N
=============================================================================
