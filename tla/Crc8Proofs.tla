----------------------------- MODULE Crc8Proofs -----------------------------
(***************************************************************************)
(* The checksum, for sequences of bytes of any length: the table replaces  *)
(* the loop of AddToCRC, a packet with its checksum checks, one changed    *)
(* byte is always noticed, and the checksum is the remainder of CrcDivision.*)
(***************************************************************************)
EXTENDS CrcDivision, SequencesExt, SequenceTheorems, WellFoundedInduction, TLAPS

-----------------------------------------------------------------------------
(* Bits of a byte                                                           *)

LEMMA Powers ==
  2^0 = 1 /\ 2^1 = 2 /\ 2^2 = 4 /\ 2^3 = 8 /\ 2^4 = 16 /\ 2^5 = 32 /\ 2^6 = 64 /\ 2^7 = 128
OBVIOUS

LEMMA BitIs ==
  ASSUME NEW x
  PROVE  /\ Bit(x, 0) = (x \div 1) % 2 /\ Bit(x, 1) = (x \div 2) % 2
         /\ Bit(x, 2) = (x \div 4) % 2 /\ Bit(x, 3) = (x \div 8) % 2
         /\ Bit(x, 4) = (x \div 16) % 2 /\ Bit(x, 5) = (x \div 32) % 2
         /\ Bit(x, 6) = (x \div 64) % 2 /\ Bit(x, 7) = (x \div 128) % 2
BY Powers DEF Bit

LEMMA Indices ==
  \A i \in 0..7 : i = 0 \/ i = 1 \/ i = 2 \/ i = 3 \/ i = 4 \/ i = 5 \/ i = 6 \/ i = 7
OBVIOUS

LEMMA AreIndices == {0, 1, 2, 3, 4, 5, 6, 7} \subseteq 0..7
OBVIOUS

LEMMA BitType == \A x \in Byte, i \in 0..7 : Bit(x, i) \in {0, 1}
<1> SUFFICES ASSUME NEW x \in Byte, NEW i \in 0..7 PROVE Bit(x, i) \in {0, 1}
  OBVIOUS
<1>1. /\ Bit(x, 0) \in {0, 1} /\ Bit(x, 1) \in {0, 1} /\ Bit(x, 2) \in {0, 1}
      /\ Bit(x, 3) \in {0, 1} /\ Bit(x, 4) \in {0, 1} /\ Bit(x, 5) \in {0, 1}
      /\ Bit(x, 6) \in {0, 1} /\ Bit(x, 7) \in {0, 1}
  <2>1. \A y \in Nat : y % 2 \in {0, 1}
    OBVIOUS
  <2>2. /\ x \div 1 \in Nat /\ x \div 2 \in Nat /\ x \div 4 \in Nat /\ x \div 8 \in Nat
        /\ x \div 16 \in Nat /\ x \div 32 \in Nat /\ x \div 64 \in Nat
        /\ x \div 128 \in Nat
    BY DEF Byte
  <2>3. /\ (x \div 1) % 2 \in {0, 1} /\ (x \div 2) % 2 \in {0, 1}
        /\ (x \div 4) % 2 \in {0, 1} /\ (x \div 8) % 2 \in {0, 1}
        /\ (x \div 16) % 2 \in {0, 1} /\ (x \div 32) % 2 \in {0, 1}
        /\ (x \div 64) % 2 \in {0, 1} /\ (x \div 128) % 2 \in {0, 1}
    BY <2>1, <2>2
  <2>4. QED
    BY <2>3, BitIs
<1>2. QED
  BY <1>1, Indices

(* A byte is the number of its bits.                                        *)
LEMMA Halved ==
  ASSUME NEW x \in Byte, NEW a, a = x \div 1, NEW b, b = x \div 2, NEW c, c = x \div 4,
         NEW d, d = x \div 8, NEW e, e = x \div 16, NEW f, f = x \div 32,
         NEW g, g = x \div 64, NEW h, h = x \div 128
  PROVE  x = (a % 2) + 2 * (b % 2) + 4 * (c % 2) + 8 * (d % 2) + 16 * (e % 2)
               + 32 * (f % 2) + 64 * (g % 2) + 128 * (h % 2)
<1>1. \A y \in Nat : y = (y % 2) + 2 * (y \div 2)
  OBVIOUS
<1>2. /\ x \in Nat /\ a = x /\ b = a \div 2 /\ b \in Nat /\ c = b \div 2 /\ c \in Nat
      /\ d = c \div 2 /\ d \in Nat /\ e = d \div 2 /\ e \in Nat
      /\ f = e \div 2 /\ f \in Nat /\ g = f \div 2 /\ g \in Nat
      /\ h = g \div 2 /\ h \in {0, 1}
  BY DEF Byte
<1>3. h % 2 = h
  BY <1>2
<1>4. QED
  BY <1>1, <1>2, <1>3

LEMMA ByteIsItsBits ==
  ASSUME NEW x \in Byte
  PROVE  x = Bit(x, 0) + 2 * Bit(x, 1) + 4 * Bit(x, 2) + 8 * Bit(x, 3) + 16 * Bit(x, 4)
               + 32 * Bit(x, 5) + 64 * Bit(x, 6) + 128 * Bit(x, 7)
BY Halved, BitIs

LEMMA SameBits ==
  ASSUME NEW x \in Byte, NEW y \in Byte, \A i \in 0..7 : Bit(x, i) = Bit(y, i)
  PROVE  x = y
<1>1. /\ Bit(x, 0) = Bit(y, 0) /\ Bit(x, 1) = Bit(y, 1) /\ Bit(x, 2) = Bit(y, 2)
      /\ Bit(x, 3) = Bit(y, 3) /\ Bit(x, 4) = Bit(y, 4) /\ Bit(x, 5) = Bit(y, 5)
      /\ Bit(x, 6) = Bit(y, 6) /\ Bit(x, 7) = Bit(y, 7)
  BY Indices
<1>2. QED
  BY <1>1, ByteIsItsBits, Zenon

(* Number() makes a byte with the bits that it is given.                    *)
LEMMA BitsOfNumber ==
  ASSUME NEW bit \in [0..7 -> {0, 1}]
  PROVE  Number(bit) \in Byte /\ \A i \in 0..7 : Bit(Number(bit), i) = bit[i]
<1> SUFFICES ASSUME NEW n, n = Number(bit)
             PROVE  n \in Byte /\ \A i \in 0..7 : Bit(n, i) = bit[i]
  OBVIOUS
<1>1. /\ bit[0] \in {0, 1} /\ bit[1] \in {0, 1} /\ bit[2] \in {0, 1} /\ bit[3] \in {0, 1}
      /\ bit[4] \in {0, 1} /\ bit[5] \in {0, 1} /\ bit[6] \in {0, 1} /\ bit[7] \in {0, 1}
  OBVIOUS
<1>2. n = bit[0] + 2 * bit[1] + 4 * bit[2] + 8 * bit[3] + 16 * bit[4] + 32 * bit[5]
            + 64 * bit[6] + 128 * bit[7]
  BY DEF Number
<1>3. n \in Byte
  BY <1>1, <1>2 DEF Byte
<1>4. /\ Bit(n, 0) = bit[0] /\ Bit(n, 1) = bit[1] /\ Bit(n, 2) = bit[2] /\ Bit(n, 3) = bit[3]
      /\ Bit(n, 4) = bit[4] /\ Bit(n, 5) = bit[5] /\ Bit(n, 6) = bit[6] /\ Bit(n, 7) = bit[7]
  <2>1. PICK a \in {0, 1}, b \in {0, 1}, c \in {0, 1}, d \in {0, 1},
             e \in {0, 1}, f \in {0, 1}, g \in {0, 1}, h \in {0, 1} :
               /\ a = bit[0] /\ b = bit[1] /\ c = bit[2] /\ d = bit[3]
               /\ e = bit[4] /\ f = bit[5] /\ g = bit[6] /\ h = bit[7]
    BY <1>1
  <2>2. n = a + 2 * b + 4 * c + 8 * d + 16 * e + 32 * f + 64 * g + 128 * h
    BY <1>2, <2>1
  <2>3. /\ (n \div 1) % 2 = a /\ (n \div 2) % 2 = b /\ (n \div 4) % 2 = c
        /\ (n \div 8) % 2 = d /\ (n \div 16) % 2 = e /\ (n \div 32) % 2 = f
        /\ (n \div 64) % 2 = g /\ (n \div 128) % 2 = h
    <3>1. \A z \in {0, 1}, y \in Nat : (z + 2 * y) % 2 = z
      OBVIOUS
    <3>2. /\ n \div 1 = n /\ n \div 128 = h
          /\ n \div 64 = g + 2 * h
          /\ n \div 32 = f + 2 * g + 4 * h
          /\ n \div 16 = e + 2 * f + 4 * g + 8 * h
          /\ n \div 8 = d + 2 * e + 4 * f + 8 * g + 16 * h
          /\ n \div 4 = c + 2 * d + 4 * e + 8 * f + 16 * g + 32 * h
          /\ n \div 2 = b + 2 * c + 4 * d + 8 * e + 16 * f + 32 * g + 64 * h
      BY <2>2
    <3>3. /\ n \div 64 = g + 2 * h /\ n \div 32 = f + 2 * (g + 2 * h)
          /\ n \div 16 = e + 2 * (f + 2 * g + 4 * h)
          /\ n \div 8 = d + 2 * (e + 2 * f + 4 * g + 8 * h)
          /\ n \div 4 = c + 2 * (d + 2 * e + 4 * f + 8 * g + 16 * h)
          /\ n \div 2 = b + 2 * (c + 2 * d + 4 * e + 8 * f + 16 * g + 32 * h)
          /\ n \div 1 = a + 2 * (b + 2 * c + 4 * d + 8 * e + 16 * f + 32 * g + 64 * h)
      BY <2>2, <3>2
    <3>4. QED
      BY <3>1, <3>2, <3>3
  <2>4. QED
    BY <2>1, <2>3, BitIs
<1>5. QED
  BY <1>3, <1>4, Indices

-----------------------------------------------------------------------------
(* Exclusive or                                                             *)

LEMMA XorBits ==
  ASSUME NEW x \in Byte, NEW y \in Byte
  PROVE  /\ Xor(x, y) \in Byte
         /\ \A i \in 0..7 : Bit(Xor(x, y), i) = (Bit(x, i) + Bit(y, i)) % 2
<1> DEFINE bit == [i \in 0..7 |-> (Bit(x, i) + Bit(y, i)) % 2]
<1>1. \A a, b \in {0, 1} : (a + b) % 2 \in {0, 1}
  OBVIOUS
<1>2. bit \in [0..7 -> {0, 1}]
  BY <1>1, BitType
<1>3. Xor(x, y) = Number(bit)
  BY DEF Xor
<1>4. \A i \in 0..7 : bit[i] = (Bit(x, i) + Bit(y, i)) % 2
  OBVIOUS
<1> HIDE DEF bit
<1>5. QED
  BY <1>2, <1>3, <1>4, BitsOfNumber

LEMMA Parity ==
  /\ \A a, b \in {0, 1} : (a + b) % 2 \in {0, 1} /\ (a + b) % 2 = (b + a) % 2
  /\ \A a, b, c \in {0, 1} : (((a + b) % 2) + c) % 2 = (a + ((b + c) % 2)) % 2
  /\ \A a \in {0, 1} : (a + a) % 2 = 0 /\ (a + 0) % 2 = a /\ (0 + a) % 2 = a
OBVIOUS

LEMMA ZeroBits == 0 \in Byte /\ \A i \in 0..7 : Bit(0, i) = 0
<1>1. /\ Bit(0, 0) = 0 /\ Bit(0, 1) = 0 /\ Bit(0, 2) = 0 /\ Bit(0, 3) = 0
      /\ Bit(0, 4) = 0 /\ Bit(0, 5) = 0 /\ Bit(0, 6) = 0 /\ Bit(0, 7) = 0
  BY BitIs
<1>2. QED
  BY <1>1, Indices DEF Byte

LEMMA XorCommutes ==
  ASSUME NEW x \in Byte, NEW y \in Byte
  PROVE  Xor(x, y) = Xor(y, x)
<1>1. \A i \in 0..7 : Bit(Xor(x, y), i) = Bit(Xor(y, x), i)
  BY XorBits, BitType, Parity
<1>2. QED
  BY <1>1, XorBits, SameBits

LEMMA XorAssociates ==
  ASSUME NEW x \in Byte, NEW y \in Byte, NEW z \in Byte
  PROVE  Xor(Xor(x, y), z) = Xor(x, Xor(y, z))
<1>1. Xor(x, y) \in Byte /\ Xor(y, z) \in Byte
  BY XorBits
<1>2. ASSUME NEW i \in 0..7 PROVE Bit(Xor(Xor(x, y), z), i) = Bit(Xor(x, Xor(y, z)), i)
  <2>1. Bit(Xor(Xor(x, y), z), i) = (((Bit(x, i) + Bit(y, i)) % 2) + Bit(z, i)) % 2
    BY <1>1, XorBits
  <2>2. Bit(Xor(x, Xor(y, z)), i) = (Bit(x, i) + ((Bit(y, i) + Bit(z, i)) % 2)) % 2
    BY <1>1, XorBits
  <2>3. QED
    BY <2>1, <2>2, BitType, Parity
<1>3. QED
  BY <1>1, <1>2, XorBits, SameBits

LEMMA XorZero ==
  ASSUME NEW x \in Byte
  PROVE  Xor(x, x) = 0 /\ Xor(x, 0) = x /\ Xor(0, x) = x
<1>1. /\ \A i \in 0..7 : Bit(Xor(x, x), i) = Bit(0, i)
      /\ \A i \in 0..7 : Bit(Xor(x, 0), i) = Bit(x, i)
      /\ \A i \in 0..7 : Bit(Xor(0, x), i) = Bit(x, i)
  BY XorBits, ZeroBits, BitType, Parity
<1>2. QED
  BY <1>1, XorBits, ZeroBits, SameBits

LEMMA XorCancels ==
  ASSUME NEW x \in Byte, NEW y \in Byte, NEW z \in Byte
  PROVE  /\ Xor(x, Xor(x, y)) = y /\ Xor(Xor(y, x), x) = y
         /\ Xor(x, y) = Xor(x, z) => y = z
         /\ Xor(y, x) = Xor(z, x) => y = z
         /\ Xor(x, y) = 0 => x = y
<1>1. Xor(x, Xor(x, y)) = y /\ Xor(x, Xor(x, z)) = z
  BY XorAssociates, XorZero
<1>2. Xor(Xor(y, x), x) = y /\ Xor(Xor(z, x), x) = z
  BY XorAssociates, XorZero
<1>3. Xor(x, y) = 0 => x = y
  BY <1>2, XorZero, XorCommutes
<1>4. QED
  BY <1>1, <1>2, <1>3

-----------------------------------------------------------------------------
(* Induction and loops                                                      *)

LEMMA LeastNumber ==
  ASSUME NEW S, S \subseteq Nat, S # {}
  PROVE  \E n \in S : \A m \in S : n <= m
<1> DEFINE R == {ss \in Nat \X Nat : ss[1] < ss[2]}
<1>1. IsWellFoundedOn(R, Nat)
  BY NatLessThanWellFounded DEF OpToRel
<1>2. \A m, k \in Nat : m < k => <<m, k>> \in R
  OBVIOUS
<1> HIDE DEF R
<1>3. PICK n \in S : \A m \in S : <<m, n>> \notin R
  BY <1>1, WFMin
<1>4. ASSUME NEW m \in S PROVE n <= m
  <2>1. m \in Nat /\ n \in Nat /\ ~(m < n)
    BY <1>2, <1>3
  <2>2. QED
    BY <2>1
<1>5. QED
  BY <1>4

LEMMA InductionUpTo ==
  ASSUME NEW n \in Nat, NEW P, 0 \in P,
         \A i \in 1..n : i - 1 \in P => i \in P
  PROVE  0..n \subseteq P
<1> SUFFICES ASSUME NEW k \in 0..n, k \notin P PROVE FALSE
  OBVIOUS
<1> DEFINE Q == {i \in 0..n : i \notin P}
<1>1. PICK i \in Q : \A j \in Q : i <= j
  <2>1. Q \subseteq Nat /\ Q # {}
    OBVIOUS
  <2> HIDE DEF Q
  <2>2. QED
    BY <2>1, LeastNumber
<1>2. i \in 1..n /\ i - 1 \in 0..n /\ ~(i <= i - 1)
  BY <1>1
<1>3. i - 1 \in P
  BY <1>1, <1>2
<1>4. QED
  BY <1>1, <1>2, <1>3

(* What a loop computes from "first" with a step for each i.                *)
IsLoop(f, n, first, step) == f[0] = first /\ \A i \in 1..n : f[i] = step[i][f[i - 1]]

LEMMA LoopExists ==
  ASSUME NEW n \in Nat, NEW S, NEW first \in S, NEW step \in [1..n -> [S -> S]]
  PROVE  \E f \in [0..n -> S] : IsLoop(f, n, first, step)
<1> DEFINE Loop(k, f) == f[0] = first /\ \A i \in 1..k : f[i] = step[i][f[i - 1]]
           P == {k \in 0..n : \E f \in [0..k -> S] : Loop(k, f)}
<1>1. 0 \in P
  <2>1. [i \in 0..0 |-> first] \in [0..0 -> S] /\ Loop(0, [i \in 0..0 |-> first])
    OBVIOUS
  <2>2. \E f \in [0..0 -> S] : Loop(0, f)
    BY <2>1
  <2>3. QED
    BY <2>2
<1>2. ASSUME NEW k \in 1..n, k - 1 \in P PROVE k \in P
  <2>1. PICK f \in [0..k - 1 -> S] : Loop(k - 1, f)
    BY <1>2
  <2> DEFINE g == [i \in 0..k |-> IF i = k THEN step[k][f[k - 1]] ELSE f[i]]
  <2>2. g \in [0..k -> S]
    <3>1. step[k][f[k - 1]] \in S
      BY <2>1
    <3>2. \A i \in 0..k : i = k \/ i \in 0..k - 1
      OBVIOUS
    <3>3. QED
      BY <3>1, <3>2
  <2>3. g[0] = first
    BY <2>1
  <2>4. ASSUME NEW i \in 1..k PROVE g[i] = step[i][g[i - 1]]
    <3>1. i - 1 \in 0..k - 1 /\ g[i - 1] = f[i - 1]
      OBVIOUS
    <3>2. CASE i = k
      BY <3>1, <3>2
    <3>3. CASE i # k
      <4>1. i \in 1..k - 1 /\ g[i] = f[i]
        BY <3>3
      <4>2. f[i] = step[i][f[i - 1]]
        BY <2>1, <4>1
      <4>3. QED
        BY <3>1, <4>1, <4>2
    <3>4. QED
      BY <3>2, <3>3
  <2> HIDE DEF g
  <2>5. Loop(k, g)
    BY <2>3, <2>4
  <2> HIDE DEF Loop
  <2>6. k \in 0..n
    OBVIOUS
  <2>7. QED
    BY <2>2, <2>5, <2>6
<1>3. n \in P
  <2> HIDE DEF P
  <2>1. 0..n \subseteq P
    BY <1>1, <1>2, InductionUpTo
  <2>2. QED
    BY <2>1
<1>4. QED
  BY <1>3 DEF IsLoop

-----------------------------------------------------------------------------
(* The turns of AddToCRC                                                    *)

LEMMA HalfBits ==
  ASSUME NEW x \in Byte
  PROVE  /\ x \div 2 \in Byte /\ x % 2 = Bit(x, 0)
         /\ \A i \in 0..7 : Bit(x \div 2, i) = IF i < 7 THEN Bit(x, i + 1) ELSE 0
<1>1. x \div 2 \in Byte
  BY DEF Byte
<1>2. x % 2 = Bit(x, 0)
  <2>1. x % 2 = (x \div 1) % 2
    BY DEF Byte
  <2>2. QED
    BY <2>1, BitIs
<1>3. /\ ((x \div 2) \div 1) = x \div 2 /\ ((x \div 2) \div 2) = x \div 4
      /\ ((x \div 2) \div 4) = x \div 8 /\ ((x \div 2) \div 8) = x \div 16
      /\ ((x \div 2) \div 16) = x \div 32 /\ ((x \div 2) \div 32) = x \div 64
      /\ ((x \div 2) \div 64) = x \div 128 /\ ((x \div 2) \div 128) % 2 = 0
  BY DEF Byte
<1>4. /\ Bit(x \div 2, 0) = Bit(x, 1) /\ Bit(x \div 2, 1) = Bit(x, 2)
      /\ Bit(x \div 2, 2) = Bit(x, 3) /\ Bit(x \div 2, 3) = Bit(x, 4)
      /\ Bit(x \div 2, 4) = Bit(x, 5) /\ Bit(x \div 2, 5) = Bit(x, 6)
      /\ Bit(x \div 2, 6) = Bit(x, 7) /\ Bit(x \div 2, 7) = 0
  BY <1>3, BitIs
<1>5. ASSUME NEW i \in 0..7
      PROVE  Bit(x \div 2, i) = IF i < 7 THEN Bit(x, i + 1) ELSE 0
  BY <1>4, Indices
<1>6. QED
  BY <1>1, <1>2, <1>5

Taps == {2, 3, 7}

LEMMA PolynomialBits ==
  140 \in Byte /\ \A i \in 0..7 : Bit(140, i) = IF i \in Taps THEN 1 ELSE 0
<1>1. /\ Bit(140, 0) = 0 /\ Bit(140, 1) = 0 /\ Bit(140, 2) = 1 /\ Bit(140, 3) = 1
      /\ Bit(140, 4) = 0 /\ Bit(140, 5) = 0 /\ Bit(140, 6) = 0 /\ Bit(140, 7) = 1
  BY BitIs
<1>2. QED
  BY <1>1, Indices DEF Byte, Taps

(* What a turn does to b ^ crc.                                             *)
Turn(z) == IF Bit(z, 0) = 1 THEN Xor(z \div 2, 140) ELSE z \div 2

LEMMA TurnBits ==
  ASSUME NEW z \in Byte
  PROVE  /\ Turn(z) \in Byte
         /\ \A i \in 0..7 :
              Bit(Turn(z), i) = ((IF i < 7 THEN Bit(z, i + 1) ELSE 0)
                                   + (IF i \in Taps THEN Bit(z, 0) ELSE 0)) % 2
<1>1. 0 \in 0..7 /\ Bit(z, 0) \in {0, 1}
  BY BitType
<1>2. \A i \in 0..7 : (IF i < 7 THEN Bit(z, i + 1) ELSE 0) \in {0, 1}
  <2>1. \A i \in 0..7 : i < 7 => i + 1 \in 0..7
    OBVIOUS
  <2>2. QED
    BY <2>1, BitType
<1>3. CASE Bit(z, 0) = 1
  BY <1>3, HalfBits, XorBits, PolynomialBits DEF Turn
<1>4. CASE Bit(z, 0) = 0
  BY <1>2, <1>4, HalfBits, Parity DEF Turn
<1>5. QED
  BY <1>1, <1>3, <1>4

LEMMA TurnOfXor ==
  ASSUME NEW x \in Byte, NEW y \in Byte
  PROVE  Turn(Xor(x, y)) = Xor(Turn(x), Turn(y))
<1>1. Xor(x, y) \in Byte /\ Turn(x) \in Byte /\ Turn(y) \in Byte /\ 0 \in 0..7
  BY XorBits, TurnBits
<1>2. ASSUME NEW i \in 0..7
      PROVE  Bit(Turn(Xor(x, y)), i) = Bit(Xor(Turn(x), Turn(y)), i)
  <2> DEFINE a(z) == IF i < 7 THEN Bit(z, i + 1) ELSE 0
             b(z) == IF i \in Taps THEN Bit(z, 0) ELSE 0
  <2>1. /\ \A z \in Byte : a(z) \in {0, 1} /\ b(z) \in {0, 1}
        /\ \A z \in Byte : Bit(Turn(z), i) = (a(z) + b(z)) % 2
    <3>1. i < 7 => i + 1 \in 0..7
      OBVIOUS
    <3>2. \A z \in Byte : a(z) \in {0, 1} /\ b(z) \in {0, 1}
      BY <3>1, BitType, <1>1
    <3>3. QED
      BY <3>2, TurnBits
  <2>2. /\ a(Xor(x, y)) = (a(x) + a(y)) % 2
        /\ b(Xor(x, y)) = (b(x) + b(y)) % 2
    <3>1. i < 7 => i + 1 \in 0..7
      OBVIOUS
    <3>2. QED
      BY <1>1, <3>1, XorBits, Parity
  <2>3. Bit(Xor(Turn(x), Turn(y)), i) = (Bit(Turn(x), i) + Bit(Turn(y), i)) % 2
    BY <1>1, XorBits
  <2>4. \A p, q, r, s \in {0, 1} :
          (((p + q) % 2) + ((r + s) % 2)) % 2 = (((p + r) % 2) + ((q + s) % 2)) % 2
    OBVIOUS
  <2> HIDE DEF a, b
  <2>5. QED
    BY <1>1, <2>1, <2>2, <2>3, <2>4
<1>3. QED
  BY <1>1, <1>2, XorBits, TurnBits, SameBits

LEMMA TurnInjective ==
  ASSUME NEW z \in Byte, Turn(z) = 0
  PROVE  z = 0
<1>1. 7 \in 0..7 /\ 0 \in 0..7 /\ 7 \in Taps /\ Bit(z, 0) \in {0, 1}
  BY BitType DEF Taps
<1>2. Bit(z, 0) = 0
  <2>1. Bit(Turn(z), 7) = (0 + Bit(z, 0)) % 2
    BY <1>1, TurnBits
  <2>2. Bit(Turn(z), 7) = 0
    BY <1>1, ZeroBits
  <2>3. QED
    BY <1>1, <2>1, <2>2, Parity
<1>3. z \div 2 = 0
  BY <1>2 DEF Turn
<1>4. z = 0
  BY <1>2, <1>3, HalfBits DEF Byte
<1>5. QED
  BY <1>4

Turns(z) == Turn(Turn(Turn(Turn(Turn(Turn(Turn(Turn(z))))))))

LEMMA TurnsLinear ==
  /\ \A z \in Byte : Turns(z) \in Byte /\ (Turns(z) = 0 <=> z = 0)
  /\ \A x, y \in Byte : Turns(Xor(x, y)) = Xor(Turns(x), Turns(y))
  /\ \A x, y \in Byte : Turns(x) = Turns(y) => x = y
<1>1. \A z \in Byte : Turn(z) \in Byte
  BY TurnBits
<1>2. \A z \in Byte : Turn(z) = 0 <=> z = 0
  <2>1. Turn(0) = 0
    BY ZeroBits, XorZero DEF Turn
  <2>2. QED
    BY <2>1, TurnInjective
<1>3. \A x, y \in Byte : Turn(Xor(x, y)) = Xor(Turn(x), Turn(y))
  BY TurnOfXor
<1>4. \A z \in Byte : Turns(z) \in Byte /\ (Turns(z) = 0 <=> z = 0)
  BY <1>1, <1>2 DEF Turns
<1>5. \A x, y \in Byte : Turns(Xor(x, y)) = Xor(Turns(x), Turns(y))
  BY <1>1, <1>3 DEF Turns
<1>6. \A x, y \in Byte : Turns(x) = Turns(y) => x = y
  <2> SUFFICES ASSUME NEW x \in Byte, NEW y \in Byte, Turns(x) = Turns(y) PROVE x = y
    OBVIOUS
  <2>1. Turns(Xor(x, y)) = 0
    BY <1>4, <1>5, XorZero
  <2>2. QED
    BY <1>4, <2>1, XorBits, XorCancels
<1>7. QED
  BY <1>4, <1>5, <1>6

(* One turn of the loop on the pair of b and crc: their exclusive or is     *)
(* turned, and a bit of b is used up.                                       *)
LEMMA ShiftTurns ==
  ASSUME NEW b \in Byte, NEW c \in Byte
  PROVE  LET s == Shift(<<b, c>>)
         IN  s \in Byte \X Byte /\ s[1] = b \div 2 /\ Xor(s[1], s[2]) = Turn(Xor(b, c))
<1> DEFINE t == IF b % 2 # c % 2 THEN Xor(c \div 2, 140) ELSE c \div 2
<1>1. Shift(<<b, c>>) = <<b \div 2, t>>
  BY DEF Shift
<1>2. b \div 2 \in Byte /\ c \div 2 \in Byte /\ 140 \in Byte /\ t \in Byte
  BY HalfBits, PolynomialBits, XorBits
<1>3. Xor(b, c) \in Byte /\ Xor(b, c) \div 2 = Xor(b \div 2, c \div 2)
  <2>1. Xor(b, c) \in Byte
    BY XorBits
  <2>2. ASSUME NEW i \in 0..7
        PROVE  Bit(Xor(b, c) \div 2, i) = Bit(Xor(b \div 2, c \div 2), i)
    <3>1. i < 7 => i + 1 \in 0..7
      OBVIOUS
    <3>2. CASE i < 7
      BY <1>2, <2>1, <3>1, <3>2, HalfBits, XorBits
    <3>3. CASE ~(i < 7)
      BY <1>2, <2>1, <3>3, HalfBits, XorBits, Parity
    <3>4. QED
      BY <3>2, <3>3
  <2>3. QED
    BY <1>2, <2>1, <2>2, HalfBits, XorBits, SameBits
<1>4. Bit(Xor(b, c), 0) = 1 <=> b % 2 # c % 2
  <2>1. /\ Bit(Xor(b, c), 0) = (Bit(b, 0) + Bit(c, 0)) % 2
        /\ Bit(b, 0) \in {0, 1} /\ Bit(c, 0) \in {0, 1}
    <3>1. 0 \in 0..7
      OBVIOUS
    <3>2. QED
      BY <3>1, XorBits, BitType
  <2>2. b % 2 = Bit(b, 0) /\ c % 2 = Bit(c, 0)
    BY HalfBits
  <2>3. QED
    BY <2>1, <2>2
<1>5. Xor(b \div 2, t) = Turn(Xor(b, c))
  BY <1>2, <1>3, <1>4, XorAssociates DEF Turn
<1>6. QED
  BY <1>1, <1>2, <1>5

(* The loop of AddToCRC depends on b ^ crc only, and is Turns of it.        *)
LEMMA AddToCRCIsTurns ==
  ASSUME NEW b \in Byte, NEW crc \in Byte
  PROVE  AddToCRC(b, crc) = Turns(Xor(b, crc))
<1> DEFINE S == Byte \X Byte
           first == <<IF b < 0 THEN b + 256 ELSE b, crc>>
           IsTurn(t) == t = [i \in 0..8 |-> IF i = 0 THEN first ELSE Shift(t[i - 1])]
           turn == CHOOSE t : IsTurn(t)
           step == [i \in 1..8 |-> [v \in S |-> Shift(v)]]
<1>1. first = <<b, crc>> /\ first \in S
  BY DEF Byte
<1>2. \A v \in S : Shift(v) \in S
  <2>1. \A v \in S : \E x, y \in Byte : v = <<x, y>>
    OBVIOUS
  <2>2. QED
    BY <2>1, ShiftTurns
<1>3. \E t : IsTurn(t)
  <2>1. step \in [1..8 -> [S -> S]]
    BY <1>2
  <2> HIDE DEF step, first, S
  <2>2. PICK t \in [0..8 -> S] : t[0] = first /\ \A i \in 1..8 : t[i] = step[i][t[i - 1]]
    <3>1. PICK t \in [0..8 -> S] : IsLoop(t, 8, first, step)
      BY <1>1, <2>1, LoopExists
    <3>2. QED
      BY <3>1 DEF IsLoop
  <2>3. \A i \in 1..8 : i - 1 \in 0..8 /\ step[i][t[i - 1]] = Shift(t[i - 1])
    BY <2>2 DEF step
  <2>4. \A i \in 0..8 : i = 0 \/ i \in 1..8
    OBVIOUS
  <2>5. \A i \in 0..8 : t[i] = IF i = 0 THEN first ELSE Shift(t[i - 1])
    BY <2>2, <2>3, <2>4
  <2>6. IsTurn(t)
    BY <2>2, <2>5
  <2>7. QED
    BY <2>6
<1>4. IsTurn(turn)
  <2> HIDE DEF IsTurn
  <2>1. QED
    BY <1>3
<1>5. AddToCRC(b, crc) = turn[8][2]
  BY DEF AddToCRC
<1> HIDE DEF turn
<1>6. turn[0] = <<b, crc>> /\ \A i \in 1..8 : turn[i] = Shift(turn[i - 1])
  BY <1>1, <1>4
<1> HIDE DEF first, IsTurn
<1>7. ASSUME NEW i \in 1..8, turn[i - 1] \in S
      PROVE  /\ turn[i] \in S /\ turn[i][1] = turn[i - 1][1] \div 2
             /\ Xor(turn[i][1], turn[i][2]) = Turn(Xor(turn[i - 1][1], turn[i - 1][2]))
  <2>1. PICK x \in Byte, y \in Byte : turn[i - 1] = <<x, y>>
    BY <1>7
  <2>2. turn[i] = Shift(<<x, y>>)
    BY <1>6, <2>1
  <2>3. QED
    BY <2>1, <2>2, ShiftTurns
<1> DEFINE z(i) == Xor(turn[i][1], turn[i][2])
           Good(i) == turn[i] \in S
           Goes(i, j) == Good(j) /\ turn[j][1] = turn[i][1] \div 2 /\ z(j) = Turn(z(i))
<1>8. \A i \in 1..8 : Good(i - 1) => Goes(i - 1, i)
  BY <1>7
<1>9. /\ Good(0) => Goes(0, 1)
      /\ Good(1) => Goes(1, 2)
      /\ Good(2) => Goes(2, 3)
      /\ Good(3) => Goes(3, 4)
      /\ Good(4) => Goes(4, 5)
      /\ Good(5) => Goes(5, 6)
      /\ Good(6) => Goes(6, 7)
      /\ Good(7) => Goes(7, 8)
  <2> HIDE DEF Good, Goes
  <2>1. QED
    BY <1>8
<1>10. Good(0) /\ turn[0][1] = b /\ z(0) = Xor(b, crc)
  BY <1>6
<1>11. Good(8) /\ z(8) = Turns(Xor(b, crc))
  <2>1. Good(8) /\ z(8) = Turns(z(0))
    <3> HIDE DEF Good, z
    <3>1. QED
      BY <1>9, <1>10 DEF Turns
  <2>2. QED
    BY <1>10, <2>1
<1>12. turn[8][1] = 0
  <2>1. turn[8][1] = (((((((b \div 2) \div 2) \div 2) \div 2) \div 2) \div 2) \div 2) \div 2
    <3> HIDE DEF Good, z
    <3>1. QED
      BY <1>9, <1>10
  <2>2. QED
    BY <2>1 DEF Byte
<1>13. turn[8][2] \in Byte
  BY <1>11
<1>14. QED
  BY <1>5, <1>11, <1>12, <1>13, XorZero

LEMMA AddToCRCType ==
  \A b, crc \in Byte : AddToCRC(b, crc) \in Byte
BY AddToCRCIsTurns, XorBits, TurnsLinear

(* The table of the model gives what the loop of the code does.             *)
THEOREM TableIsLoop ==
  \A b, crc \in Byte : NextCRC(b)[crc] = AddToCRC(b, crc)
<1> SUFFICES ASSUME NEW b \in Byte, NEW crc \in Byte
             PROVE  NextCRC(b)[crc] = AddToCRC(b, crc)
  OBVIOUS
<1>1. Xor(b, crc) \in Byte /\ 0 \in Byte
  BY XorBits, ZeroBits
<1>2. NextCRC(b)[crc] = AddToCRC(Xor(b, crc), 0)
  BY <1>1 DEF NextCRC, CrcTable
<1>3. QED
  BY <1>1, <1>2, AddToCRCIsTurns, XorZero

-----------------------------------------------------------------------------
(* The checksum of a sequence                                               *)

(* g[i] is the checksum after i bytes of s.                                 *)
Sums(s, g) ==
  /\ g \in [0..Len(s) -> Byte] /\ g[0] = 0
  /\ \A i \in 1..Len(s) : g[i] = Turns(Xor(s[i], g[i - 1]))

LEMMA Positions ==
  ASSUME NEW n \in Nat
  PROVE  /\ 0 \in 0..n /\ n \in 0..n
         /\ \A i \in 1..n : i \in 0..n /\ i - 1 \in 0..n
         /\ \A i \in 0..n : i = 0 \/ i \in 1..n
OBVIOUS

LEMMA BytesOf ==
  ASSUME NEW s \in Seq(Byte)
  PROVE  Len(s) \in Nat /\ \A i \in 1..Len(s) : s[i] \in Byte
BY LenProperties, ElementOfSeq

LEMMA SumsExist ==
  ASSUME NEW s \in Seq(Byte)
  PROVE  \E g : Sums(s, g)
<1> DEFINE n == Len(s)
           step == [i \in 1..n |-> [v \in Byte |-> Turns(Xor(s[i], v))]]
<1>1. n \in Nat /\ \A i \in 1..n : s[i] \in Byte
  BY BytesOf
<1> HIDE DEF n
<1>2. step \in [1..n -> [Byte -> Byte]]
  BY <1>1, XorBits, TurnsLinear
<1>3. \A i \in 1..n, v \in Byte : step[i][v] = Turns(Xor(s[i], v))
  OBVIOUS
<1> HIDE DEF step
<1>4. PICK g \in [0..n -> Byte] : IsLoop(g, n, 0, step)
  BY <1>1, <1>2, ZeroBits, LoopExists
<1>5. \A i \in 1..n : g[i] = Turns(Xor(s[i], g[i - 1]))
  <2>1. \A i \in 1..n : g[i - 1] \in Byte
    BY <1>1, <1>4, Positions
  <2>2. QED
    BY <1>3, <1>4, <2>1 DEF IsLoop
<1>6. QED
  BY <1>4, <1>5 DEF Sums, IsLoop, n

(* Both functions of the model compute these sums.                          *)
LEMMA ChecksumIs ==
  ASSUME NEW s \in Seq(Byte), NEW g, Sums(s, g)
  PROVE  Checksum(s) = g[Len(s)] /\ Checksum(s) \in Byte
<1> DEFINE n == Len(s)
           IsCrc(c) == c = [i \in 0..n |-> IF i = 0 THEN 0 ELSE NextCRC(s[i])[c[i - 1]]]
           crc == CHOOSE c : IsCrc(c)
<1>1. n \in Nat /\ \A i \in 1..n : s[i] \in Byte
  BY BytesOf
<1>2. /\ g \in [0..n -> Byte] /\ g[0] = 0
      /\ \A i \in 1..n : g[i] = Turns(Xor(s[i], g[i - 1]))
  BY DEF Sums
<1>3. Checksum(s) = crc[n]
  BY DEF Checksum
<1> HIDE DEF n
<1>4. \A i \in 1..n : g[i] = NextCRC(s[i])[g[i - 1]]
  BY <1>1, <1>2, Positions, TableIsLoop, AddToCRCIsTurns
<1>5. IsCrc(g)
  <2>1. \A i \in 0..n : g[i] = IF i = 0 THEN 0 ELSE NextCRC(s[i])[g[i - 1]]
    BY <1>1, <1>2, <1>4, Positions
  <2>2. QED
    BY <1>2, <2>1
<1>6. IsCrc(crc)
  <2> HIDE DEF IsCrc
  <2>1. QED
    BY <1>5
<1> HIDE DEF crc
<1>7. crc[0] = 0 /\ \A i \in 1..n : crc[i] = NextCRC(s[i])[crc[i - 1]]
  BY <1>1, <1>6, Positions
<1> HIDE DEF IsCrc
<1>8. 0..n \subseteq {i \in 0..n : crc[i] = g[i]}
  <2> DEFINE P == {i \in 0..n : crc[i] = g[i]}
  <2>1. 0 \in P
    BY <1>1, <1>2, <1>7, Positions
  <2>2. \A i \in 1..n : i - 1 \in P => i \in P
    BY <1>1, <1>4, <1>7, Positions
  <2> HIDE DEF P
  <2>3. 0..n \subseteq P
    BY <1>1, <2>1, <2>2, InductionUpTo
  <2>4. QED
    BY <2>3 DEF P
<1>9. QED
  BY <1>1, <1>2, <1>3, <1>8, Positions DEF n

LEMMA CrcOfBytesIs ==
  ASSUME NEW s \in Seq(Byte), NEW g, Sums(s, g)
  PROVE  CrcOfBytes(s) = g[Len(s)]
<1> DEFINE n == Len(s)
           IsCrc(c) == c = [i \in 0..n |-> IF i = 0 THEN 0 ELSE AddToCRC(s[i], c[i - 1])]
           crc == CHOOSE c : IsCrc(c)
<1>1. n \in Nat /\ \A i \in 1..n : s[i] \in Byte
  BY BytesOf
<1>2. /\ g \in [0..n -> Byte] /\ g[0] = 0
      /\ \A i \in 1..n : g[i] = Turns(Xor(s[i], g[i - 1]))
  BY DEF Sums
<1>3. CrcOfBytes(s) = crc[n]
  BY DEF CrcOfBytes
<1> HIDE DEF n
<1>4. \A i \in 1..n : g[i] = AddToCRC(s[i], g[i - 1])
  BY <1>1, <1>2, Positions, AddToCRCIsTurns
<1>5. IsCrc(g)
  <2>1. \A i \in 0..n : g[i] = IF i = 0 THEN 0 ELSE AddToCRC(s[i], g[i - 1])
    BY <1>1, <1>2, <1>4, Positions
  <2>2. QED
    BY <1>2, <2>1
<1>6. IsCrc(crc)
  <2> HIDE DEF IsCrc
  <2>1. QED
    BY <1>5
<1> HIDE DEF crc
<1>7. crc[0] = 0 /\ \A i \in 1..n : crc[i] = AddToCRC(s[i], crc[i - 1])
  BY <1>1, <1>6, Positions
<1> HIDE DEF IsCrc
<1>8. 0..n \subseteq {i \in 0..n : crc[i] = g[i]}
  <2> DEFINE P == {i \in 0..n : crc[i] = g[i]}
  <2>1. 0 \in P
    BY <1>1, <1>2, <1>7, Positions
  <2>2. \A i \in 1..n : i - 1 \in P => i \in P
    BY <1>1, <1>4, <1>7, Positions
  <2> HIDE DEF P
  <2>3. 0..n \subseteq P
    BY <1>1, <2>1, <2>2, InductionUpTo
  <2>4. QED
    BY <2>3 DEF P
<1>9. QED
  BY <1>1, <1>3, <1>8, Positions DEF n

(* The checksum is a byte, and the loop of calc_crc_for_byte_array() gives  *)
(* the same one.                                                            *)
LEMMA ChecksumType ==
  ASSUME NEW s \in Seq(Byte)
  PROVE  Checksum(s) \in Byte /\ CrcOfBytes(s) = Checksum(s)
<1>1. PICK g : Sums(s, g)
  BY SumsExist
<1>2. QED
  BY <1>1, ChecksumIs, CrcOfBytesIs

-----------------------------------------------------------------------------
(* A packet and its checksum                                                *)

LEMMA ChecksumOfAppend ==
  ASSUME NEW s \in Seq(Byte), NEW b \in Byte
  PROVE  Checksum(Append(s, b)) = Turns(Xor(b, Checksum(s)))
<1> DEFINE n == Len(s)
<1>1. PICK a : a = Append(s, b)
  OBVIOUS
<1>2. /\ n \in Nat /\ a \in Seq(Byte) /\ Len(a) = n + 1 /\ a[n + 1] = b
      /\ \A i \in 1..n : a[i] = s[i]
  BY <1>1, AppendProperties, LenProperties
<1>3. PICK g : Sums(a, g)
  BY <1>2, SumsExist
<1>4. /\ g \in [0..n + 1 -> Byte] /\ g[0] = 0
      /\ \A i \in 1..n + 1 : g[i] = Turns(Xor(a[i], g[i - 1]))
  BY <1>2, <1>3 DEF Sums
<1>5. PICK h : h = [i \in 0..n |-> g[i]]
  OBVIOUS
<1>6. Sums(s, h)
  <2>1. h \in [0..n -> Byte] /\ h[0] = 0 /\ \A i \in 0..n : h[i] = g[i]
    <3>1. \A i \in 0..n : i \in 0..n + 1
      BY <1>2
    <3>2. QED
      BY <1>2, <1>4, <1>5, <3>1, Positions
  <2>2. \A i \in 1..n : i \in 1..n + 1 /\ i - 1 \in 0..n /\ i \in 0..n
    BY <1>2
  <2>3. \A i \in 1..n : h[i] = Turns(Xor(s[i], h[i - 1]))
    BY <1>2, <1>4, <2>1, <2>2
  <2>4. QED
    BY <2>1, <2>3 DEF Sums
<1>7. Checksum(s) = g[n]
  <2>1. Checksum(s) = h[n]
    BY <1>6, ChecksumIs
  <2>2. QED
    BY <1>2, <1>5, <2>1, Positions
<1>8. Checksum(a) = g[n + 1]
  BY <1>2, <1>3, ChecksumIs
<1>9. n + 1 \in 1..n + 1 /\ (n + 1) - 1 = n
  BY <1>2
<1>10. g[n + 1] = Turns(Xor(a[n + 1], g[(n + 1) - 1]))
  BY <1>4, <1>9
<1>11. QED
  BY <1>1, <1>2, <1>7, <1>8, <1>9, <1>10

(* The last byte of a sequence that checks is the checksum of the others.   *)
LEMMA ChecksMeans ==
  ASSUME NEW s \in Seq(Byte), NEW b \in Byte
  PROVE  Check(Append(s, b)) <=> b = Checksum(s)
<1>1. Checksum(s) \in Byte /\ Checksum(Append(s, b)) = Turns(Xor(b, Checksum(s)))
  BY ChecksumType, ChecksumOfAppend
<1>2. Turns(Xor(b, Checksum(s))) = 0 <=> Xor(b, Checksum(s)) = 0
  BY <1>1, XorBits, TurnsLinear
<1>3. Xor(b, Checksum(s)) = 0 <=> b = Checksum(s)
  BY <1>1, XorZero, XorCancels
<1>4. QED
  BY <1>1, <1>2, <1>3 DEF Check

(* append() makes what check() accepts.                                     *)
THEOREM AppendedChecksumChecks ==
  \A s \in Seq(Byte) : AppendChecksum(s) \in Seq(Byte) /\ Check(AppendChecksum(s))
<1> SUFFICES ASSUME NEW s \in Seq(Byte)
             PROVE  AppendChecksum(s) \in Seq(Byte) /\ Check(AppendChecksum(s))
  OBVIOUS
<1>1. Checksum(s) \in Byte
  BY ChecksumType
<1>2. QED
  BY <1>1, ChecksMeans, AppendProperties DEF AppendChecksum

(* Two sequences that differ in exactly one byte have different checksums.  *)
THEOREM OneByteIsNoticed ==
  ASSUME NEW s \in Seq(Byte), NEW t \in Seq(Byte), Len(s) = Len(t),
         NEW j \in 1..Len(s), s[j] # t[j], \A i \in 1..Len(s) : i # j => s[i] = t[i]
  PROVE  Checksum(s) # Checksum(t)
<1> DEFINE n == Len(s)
<1>1. /\ n \in Nat /\ \A i \in 1..n : s[i] \in Byte /\ t[i] \in Byte
  BY BytesOf
<1>2. PICK g : Sums(s, g)
  BY SumsExist
<1>3. PICK h : Sums(t, h)
  BY SumsExist
<1>4. /\ g \in [0..n -> Byte] /\ h \in [0..n -> Byte] /\ g[0] = 0 /\ h[0] = 0
      /\ \A i \in 1..n : g[i] = Turns(Xor(s[i], g[i - 1])) /\ h[i] = Turns(Xor(t[i], h[i - 1]))
  BY <1>2, <1>3 DEF Sums
<1>5. j \in 1..n /\ s[j] # t[j] /\ \A i \in 1..n : i # j => s[i] = t[i]
  OBVIOUS
<1>6. Checksum(s) = g[n] /\ Checksum(t) = h[n]
  BY <1>2, <1>3, ChecksumIs
<1> HIDE DEF n
<1> DEFINE P == {i \in 0..n : g[i] = h[i] <=> i < j}
<1>7. 0 \in P
  BY <1>1, <1>4, <1>5
<1>8. ASSUME NEW i \in 1..n, i - 1 \in P PROVE i \in P
  <2>1. /\ s[i] \in Byte /\ t[i] \in Byte /\ g[i - 1] \in Byte /\ h[i - 1] \in Byte
        /\ g[i] = Turns(Xor(s[i], g[i - 1])) /\ h[i] = Turns(Xor(t[i], h[i - 1]))
        /\ i \in 0..n
    BY <1>1, <1>4, Positions
  <2>2. g[i] = h[i] <=> Xor(s[i], g[i - 1]) = Xor(t[i], h[i - 1])
    BY <2>1, XorBits, TurnsLinear
  <2>3. CASE i < j
    <3>1. g[i - 1] = h[i - 1] /\ s[i] = t[i]
      BY <1>1, <1>5, <1>8, <2>3
    <3>2. QED
      BY <2>1, <2>2, <2>3, <3>1
  <2>4. CASE i = j
    <3>1. g[i - 1] = h[i - 1] /\ s[i] # t[i] /\ ~(i < j)
      BY <1>1, <1>5, <1>8, <2>4
    <3>2. g[i] # h[i]
      BY <2>1, <2>2, <3>1, XorCancels
    <3>3. QED
      BY <2>1, <3>1, <3>2
  <2>5. CASE i > j
    <3>1. g[i - 1] # h[i - 1] /\ s[i] = t[i] /\ ~(i < j)
      BY <1>1, <1>5, <1>8, <2>5
    <3>2. g[i] # h[i]
      BY <2>1, <2>2, <3>1, XorCancels
    <3>3. QED
      BY <2>1, <3>1, <3>2
  <2>6. i < j \/ i = j \/ i > j
    BY <1>1, <1>5
  <2>7. QED
    BY <2>3, <2>4, <2>5, <2>6
<1>9. n \in P
  <2> HIDE DEF P
  <2>1. 0..n \subseteq P
    BY <1>1, <1>7, <1>8, InductionUpTo
  <2>2. QED
    BY <1>1, <2>1, Positions
<1>10. ~(n < j)
  BY <1>1, <1>5
<1>11. QED
  BY <1>6, <1>9, <1>10

-----------------------------------------------------------------------------
(* Long division                                                            *)

Register == [0..7 -> {0, 1}]

LEMMA DivisionBits ==
  ASSUME NEW reg \in Register, NEW next \in {0, 1}
  PROVE  /\ DivisionStep(reg, next) \in Register
         /\ \A i \in 0..7 :
              DivisionStep(reg, next)[i] = ((IF i < 7 THEN reg[i + 1] ELSE next)
                                              + (IF i \in Taps THEN reg[0] ELSE 0)) % 2
<1> DEFINE shifted == [i \in 0..7 |-> IF i < 7 THEN reg[i + 1] ELSE next]
<1>1. reg[0] \in {0, 1} /\ \A i \in 0..7 : i < 7 => reg[i + 1] \in {0, 1}
  BY DEF Register
<1>2. shifted \in Register
  BY <1>1 DEF Register
<1>3. CASE reg[0] = 1
  <2>1. DivisionStep(reg, next) = [i \in 0..7 |-> IF i \in Taps THEN 1 - shifted[i] ELSE shifted[i]]
    BY <1>3 DEF DivisionStep, Taps
  <2>2. \A a \in {0, 1} : 1 - a \in {0, 1} /\ 1 - a = (a + 1) % 2
    OBVIOUS
  <2>3. \A i \in 0..7 : shifted[i] \in {0, 1} /\ shifted[i] = IF i < 7 THEN reg[i + 1] ELSE next
    BY <1>2 DEF Register
  <2> HIDE DEF shifted
  <2>4. DivisionStep(reg, next) \in Register
    BY <2>1, <2>2, <2>3 DEF Register
  <2>5. \A i \in 0..7 :
          DivisionStep(reg, next)[i] = (shifted[i] + (IF i \in Taps THEN 1 ELSE 0)) % 2
    BY <2>1, <2>2, <2>3, Parity
  <2>6. QED
    BY <1>3, <2>3, <2>4, <2>5
<1>4. CASE reg[0] = 0
  <2>1. DivisionStep(reg, next) = shifted
    BY <1>4 DEF DivisionStep
  <2>2. \A i \in 0..7 : shifted[i] \in {0, 1} /\ shifted[i] = IF i < 7 THEN reg[i + 1] ELSE next
    BY <1>2 DEF Register
  <2> HIDE DEF shifted
  <2>3. \A i \in 0..7 : DivisionStep(reg, next)[i] = (shifted[i] + 0) % 2
    BY <2>1, <2>2, Parity
  <2>4. QED
    BY <1>2, <1>4, <2>1, <2>2, <2>3
<1>5. QED
  BY <1>1, <1>3, <1>4

(* The register holds y, with t bits of b shifted in.                       *)
Fed(b, t, i) == IF i >= 8 - t THEN Bit(b, i + t - 8) ELSE 0

Holds(reg, y, b, t) ==
  /\ reg \in Register
  /\ \A i \in 0..7 : reg[i] = (Bit(y, i) + Fed(b, t, i)) % 2

(* A step of the division turns y, as AddToCRC does, and shifts in a bit.   *)
LEMMA DivisionTurns ==
  ASSUME NEW y \in Byte, NEW b \in Byte, NEW t \in 0..7, NEW reg, Holds(reg, y, b, t)
  PROVE  Holds(DivisionStep(reg, Bit(b, t)), Turn(y), b, t + 1)
<1>1. reg \in Register /\ Bit(b, t) \in {0, 1}
  BY BitType DEF Holds
<1>2. PICK next \in Register : next = DivisionStep(reg, Bit(b, t))
  BY <1>1, DivisionBits
<1>3. \A i \in 0..7 : next[i] = ((IF i < 7 THEN reg[i + 1] ELSE Bit(b, t))
                                   + (IF i \in Taps THEN reg[0] ELSE 0)) % 2
  BY <1>1, <1>2, DivisionBits
<1>4. reg[0] = Bit(y, 0) /\ Bit(y, 0) \in {0, 1}
  <2>1. 0 \in 0..7 /\ Fed(b, t, 0) = 0
    BY DEF Fed
  <2>2. QED
    BY <2>1, BitType, Parity DEF Holds
<1>5. ASSUME NEW i \in 0..7
      PROVE  next[i] = (Bit(Turn(y), i) + Fed(b, t + 1, i)) % 2
  <2> DEFINE p == IF i < 7 THEN Bit(y, i + 1) ELSE 0
             q == IF i \in Taps THEN Bit(y, 0) ELSE 0
             f == Fed(b, t + 1, i)
  <2>1. i < 7 => i + 1 \in 0..7
    OBVIOUS
  <2>2. p \in {0, 1} /\ q \in {0, 1} /\ Bit(Turn(y), i) = (p + q) % 2
    <3>1. p \in {0, 1} /\ q \in {0, 1}
      BY <1>4, <2>1, BitType
    <3>2. QED
      BY <3>1, TurnBits
  <2>3. f \in {0, 1}
    <3>1. i >= 8 - (t + 1) => i + (t + 1) - 8 \in 0..7
      OBVIOUS
    <3>2. QED
      BY <3>1, BitType DEF Fed
  <2>4. (IF i < 7 THEN reg[i + 1] ELSE Bit(b, t)) = (p + f) % 2
    <3>1. CASE i < 7
      <4>1. Fed(b, t, i + 1) = f
        <5>1. (i + 1 >= 8 - t <=> i >= 8 - (t + 1)) /\ i + 1 + t - 8 = i + (t + 1) - 8
          OBVIOUS
        <5>2. QED
          BY <5>1 DEF Fed
      <4>2. QED
        BY <2>1, <3>1, <4>1 DEF Holds
    <3>2. CASE ~(i < 7)
      <4>1. i >= 8 - (t + 1) /\ i + (t + 1) - 8 = t
        BY <3>2
      <4>2. f = Bit(b, t)
        BY <4>1 DEF Fed
      <4>3. QED
        BY <2>3, <3>2, <4>2, Parity
    <3>3. QED
      BY <3>1, <3>2
  <2>5. next[i] = (((p + f) % 2) + q) % 2
    BY <1>3, <1>4, <2>4
  <2>6. \A u, v, w \in {0, 1} : (((u + w) % 2) + v) % 2 = (((u + v) % 2) + w) % 2
    OBVIOUS
  <2> HIDE DEF p, q, f
  <2>7. next[i] = (((p + q) % 2) + f) % 2
    BY <2>2, <2>3, <2>5, <2>6
  <2>8. QED
    BY <2>2, <2>7 DEF f
<1>6. QED
  BY <1>2, <1>5 DEF Holds

(* When eight bits have been shifted in, the register holds another byte.   *)
LEMMA ByteFed ==
  ASSUME NEW y \in Byte, NEW b \in Byte, NEW reg, Holds(reg, y, b, 8)
  PROVE  \A c : Holds(reg, Xor(y, b), c, 0)
<1> SUFFICES ASSUME NEW c, NEW i \in 0..7
             PROVE  reg[i] = (Bit(Xor(y, b), i) + Fed(c, 0, i)) % 2
  BY DEF Holds
<1>1. Fed(c, 0, i) = 0 /\ Fed(b, 8, i) = Bit(b, i)
  <2>1. ~(i >= 8 - 0) /\ i >= 8 - 8 /\ i + 8 - 8 = i
    OBVIOUS
  <2>2. QED
    BY <2>1 DEF Fed
<1>2. reg[i] = Bit(Xor(y, b), i)
  BY <1>1, XorBits DEF Holds
<1>3. Xor(y, b) \in Byte
  BY XorBits
<1>4. QED
  BY <1>1, <1>2, <1>3, BitType, Parity

(* Eight steps take the register from one byte to the next.                 *)
LEMMA EightSteps ==
  ASSUME NEW y \in Byte, NEW b \in Byte, NEW r, NEW k \in Nat,
         Holds(r[k], y, b, 0),
         \A t \in 0..7 : r[k + t + 1] = DivisionStep(r[k + t], Bit(b, t))
  PROVE  Holds(r[k + 8], Turns(y), b, 8)
<1> DEFINE H(t, z) == Holds(r[k + t], z, b, t)
<1>1. ASSUME NEW t \in 0..7, NEW z \in Byte, H(t, z)
      PROVE  H(t + 1, Turn(z)) /\ Turn(z) \in Byte
  <2>1. Holds(DivisionStep(r[k + t], Bit(b, t)), Turn(z), b, t + 1)
    BY <1>1, DivisionTurns
  <2>2. k + t + 1 = k + (t + 1)
    OBVIOUS
  <2>3. r[k + (t + 1)] = DivisionStep(r[k + t], Bit(b, t))
    BY <2>2
  <2>4. Turn(z) \in Byte
    BY TurnBits
  <2>5. QED
    BY <2>1, <2>3, <2>4
<1>2. H(0, y)
  OBVIOUS
<1>3. /\ 0 \in 0..7 /\ 1 \in 0..7 /\ 2 \in 0..7 /\ 3 \in 0..7 /\ 4 \in 0..7 /\ 5 \in 0..7
      /\ 6 \in 0..7 /\ 7 \in 0..7 /\ 0 + 1 = 1 /\ 1 + 1 = 2 /\ 2 + 1 = 3 /\ 3 + 1 = 4
      /\ 4 + 1 = 5 /\ 5 + 1 = 6 /\ 6 + 1 = 7 /\ 7 + 1 = 8
  OBVIOUS
<1> HIDE DEF H
<1>4. H(8, Turns(y))
  BY <1>1, <1>2, <1>3 DEF Turns
<1>5. QED
  BY <1>4 DEF H

(* The remainder of the long division is the checksum, for a message of any *)
(* length.                                                                  *)
THEOREM ChecksumIsTheRemainder ==
  \A m \in Seq(Byte) : Remainder(m) = Checksum(m) /\ Remainder(m) = CrcOfBytes(m)
<1> SUFFICES ASSUME NEW m \in Seq(Byte) PROVE Remainder(m) = Checksum(m)
  BY ChecksumType
<1> DEFINE n == Len(m)
           last == 8 * n + 8
           start == [i \in 0..7 |-> 0]
           IsReg(r) == r = [k \in 0..last |->
                              IF k = 0 THEN start
                              ELSE DivisionStep(r[k - 1], MessageBit(m, k - 1))]
           reg == CHOOSE r : IsReg(r)
           step == [k \in 1..last |-> [v \in Register |-> DivisionStep(v, MessageBit(m, k - 1))]]
           byte(j) == IF j <= n THEN m[j] ELSE 0
<1>1. n \in Nat /\ \A i \in 1..n : m[i] \in Byte
  BY BytesOf
<1>2. last \in Nat /\ start \in Register
  BY <1>1 DEF Register
<1>3. Remainder(m) = Number(reg[last])
  BY DEF Remainder
<1>4. \A j \in 0..n, t \in 0..7 :
        /\ 8 * j + t \in 0..last - 1 /\ byte(j + 1) \in Byte
        /\ MessageBit(m, 8 * j + t) = Bit(byte(j + 1), t)
  <2> SUFFICES ASSUME NEW j \in 0..n, NEW t \in 0..7
               PROVE  /\ 8 * j + t \in 0..last - 1 /\ byte(j + 1) \in Byte
                      /\ MessageBit(m, 8 * j + t) = Bit(byte(j + 1), t)
    OBVIOUS
  <2>1. 8 * j + t \in 0..last - 1
    BY <1>1
  <2>2. (8 * j + t) \div 8 = j /\ (8 * j + t) % 8 = t
    BY <1>1
  <2>3. CASE j < n
    <3>1. 8 * j + t < 8 * n /\ j + 1 <= n /\ j + 1 \in 1..n
      BY <1>1, <2>3
    <3>2. QED
      BY <1>1, <2>1, <2>2, <3>1 DEF MessageBit
  <2>4. CASE j = n
    <3>1. ~(8 * j + t < 8 * n) /\ ~(j + 1 <= n)
      BY <1>1, <2>4
    <3>2. MessageBit(m, 8 * j + t) = 0 /\ byte(j + 1) = 0
      BY <3>1 DEF MessageBit
    <3>3. QED
      BY <2>1, <3>2, ZeroBits
  <2>5. j < n \/ j = n
    BY <1>1
  <2>6. QED
    BY <2>3, <2>4, <2>5
<1> HIDE DEF byte, n
<1>5. \A k \in 1..last : MessageBit(m, k - 1) \in {0, 1}
  <2> SUFFICES ASSUME NEW k \in 1..last PROVE MessageBit(m, k - 1) \in {0, 1}
    OBVIOUS
  <2>1. PICK j \in 0..n, t \in 0..7 : k - 1 = 8 * j + t
    <3>1. (k - 1) \div 8 \in 0..n /\ (k - 1) % 8 \in 0..7
          /\ k - 1 = 8 * ((k - 1) \div 8) + ((k - 1) % 8)
      BY <1>1
    <3>2. QED
      BY <3>1
  <2>2. QED
    BY <1>4, <2>1, BitType
<1>6. IsReg(reg)
  <2>1. step \in [1..last -> [Register -> Register]]
    BY <1>5, DivisionBits
  <2>2. \A k \in 1..last, v \in Register : step[k][v] = DivisionStep(v, MessageBit(m, k - 1))
    OBVIOUS
  <2> HIDE DEF step, last, start
  <2>3. PICK r \in [0..last -> Register] : IsLoop(r, last, start, step)
    BY <1>2, <2>1, LoopExists
  <2>4. \A k \in 1..last : r[k] = DivisionStep(r[k - 1], MessageBit(m, k - 1))
    BY <1>2, <2>2, <2>3, Positions DEF IsLoop
  <2>5. \A k \in 0..last :
          r[k] = IF k = 0 THEN start ELSE DivisionStep(r[k - 1], MessageBit(m, k - 1))
    BY <1>2, <2>3, <2>4, Positions DEF IsLoop
  <2>6. IsReg(r)
    BY <2>3, <2>5
  <2> HIDE DEF IsReg
  <2>7. QED
    BY <2>6
<1> HIDE DEF reg, step
<1>7. reg[0] = start /\ \A k \in 1..last : reg[k] = DivisionStep(reg[k - 1], MessageBit(m, k - 1))
  <2> HIDE DEF last, start
  <2>1. QED
    BY <1>2, <1>6, Positions
<1> HIDE DEF IsReg
<1>8. PICK g : Sums(m, g)
  BY SumsExist
<1>9. /\ g \in [0..n -> Byte] /\ g[0] = 0 /\ Checksum(m) = g[n]
      /\ \A i \in 1..n : g[i] = Turns(Xor(m[i], g[i - 1]))
  BY <1>8, ChecksumIs DEF Sums, n
<1> DEFINE P == {j \in 0..n : Holds(reg[8 * j + 8], Xor(g[j], byte(j + 1)), 0, 0)}
<1>10. ASSUME NEW j \in 0..n, NEW y \in Byte, Turns(y) = g[j], Holds(reg[8 * j], y, byte(j + 1), 0)
       PROVE  j \in P
  <2>1. 8 * j \in Nat /\ byte(j + 1) \in Byte
    BY <1>1, <1>4
  <2>2. ASSUME NEW t \in 0..7
        PROVE  reg[8 * j + t + 1] = DivisionStep(reg[8 * j + t], Bit(byte(j + 1), t))
    <3>1. PICK k \in 1..last : k = 8 * j + t + 1
      BY <1>4, <1>1
    <3>2. k - 1 = 8 * j + t
      BY <3>1, <2>1
    <3>3. QED
      BY <1>4, <1>7, <3>1, <3>2
  <2>3. Holds(reg[8 * j + 8], Turns(y), byte(j + 1), 8)
    BY <1>10, <2>1, <2>2, EightSteps
  <2>4. g[j] \in Byte
    BY <1>9
  <2>5. QED
    BY <1>10, <2>1, <2>3, <2>4, ByteFed
<1>11. \A z \in Byte : Holds(reg[0], 0, z, 0)
  <2>1. \A z : \A i \in 0..7 : Fed(z, 0, i) = 0
    BY DEF Fed
  <2>2. \A i \in 0..7 : start[i] = (Bit(0, i) + 0) % 2
    BY ZeroBits
  <2>3. QED
    BY <1>2, <1>7, <2>1, <2>2 DEF Holds
<1>12. 0 \in P
  <2>1. 0 \in 0..n /\ 0 \in Byte /\ Turns(0) = g[0] /\ byte(0 + 1) \in Byte
    <3>1. 0 \in 0..n /\ 0 \in 0..7
      BY <1>1
    <3>2. 0 \in Byte /\ Turns(0) = g[0]
      BY <1>9, ZeroBits, TurnsLinear
    <3>3. QED
      BY <1>4, <3>1, <3>2
  <2>2. Holds(reg[8 * 0], 0, byte(0 + 1), 0)
    BY <1>11, <2>1
  <2>3. QED
    BY <1>10, <2>1, <2>2
<1>13. ASSUME NEW j \in 1..n, j - 1 \in P PROVE j \in P
  <2> DEFINE y == Xor(g[j - 1], byte((j - 1) + 1))
  <2>1. j \in 0..n /\ j - 1 \in 0..n /\ (j - 1) + 1 = j /\ 8 * (j - 1) + 8 = 8 * j
    BY <1>1
  <2>2. byte(j) = m[j]
    BY <1>1 DEF byte
  <2>3. y \in Byte /\ Turns(y) = g[j]
    <3>1. g[j - 1] \in Byte /\ m[j] \in Byte /\ g[j] = Turns(Xor(m[j], g[j - 1]))
      BY <1>1, <1>9, <2>1
    <3>2. y = Xor(m[j], g[j - 1])
      BY <2>1, <2>2, <3>1, XorCommutes
    <3>3. QED
      BY <3>1, <3>2, XorBits
  <2>4. Holds(reg[8 * j], y, 0, 0)
    BY <1>13, <2>1
  <2>5. Holds(reg[8 * j], y, byte(j + 1), 0)
    <3>1. \A z : \A i \in 0..7 : Fed(z, 0, i) = 0
      BY DEF Fed
    <3>2. QED
      BY <2>4, <3>1 DEF Holds
  <2> HIDE DEF y, P
  <2>6. QED
    BY <1>10, <2>1, <2>3, <2>5
<1>14. n \in P
  <2> HIDE DEF P
  <2>1. 0..n \subseteq P
    BY <1>1, <1>12, <1>13, InductionUpTo
  <2>2. QED
    BY <1>1, <2>1, Positions
<1>15. Holds(reg[last], g[n], 0, 0)
  <2>1. byte(n + 1) = 0 /\ g[n] \in Byte
    BY <1>1, <1>9, Positions DEF byte
  <2>2. QED
    BY <1>14, <2>1, XorZero
<1>16. Number(reg[last]) = g[n]
  <2>1. g[n] \in Byte
    BY <1>1, <1>9, Positions
  <2>2. PICK v \in Register : v = reg[last]
    BY <1>15 DEF Holds
  <2>3. \A i \in 0..7 : v[i] = Bit(g[n], i)
    <3>1. \A i \in 0..7 : Fed(0, 0, i) = 0
      BY DEF Fed
    <3>2. QED
      BY <1>15, <2>1, <2>2, <3>1, BitType, Parity DEF Holds
  <2>4. Number(v) \in Byte /\ \A i \in 0..7 : Bit(Number(v), i) = v[i]
    BY BitsOfNumber DEF Register
  <2>5. QED
    BY <2>1, <2>2, <2>3, <2>4, SameBits
<1>17. QED
  BY <1>3, <1>9, <1>16

-----------------------------------------------------------------------------
(* Sequences of bytes, for the proofs about packets                         *)

LEMMA ConcatenatedOf ==
  ASSUME NEW S, NEW s \in Seq(S), NEW t \in Seq(S)
  PROVE  /\ s \o t \in Seq(S) /\ Len(s \o t) = Len(s) + Len(t)
         /\ Len(s) \in Nat /\ Len(t) \in Nat
         /\ \A i \in 1..Len(s) : (s \o t)[i] = s[i]
         /\ \A i \in 1..Len(t) : (s \o t)[Len(s) + i] = t[i]
<1>1. Len(s) \in Nat /\ Len(t) \in Nat
  BY LenProperties
<1>2. PICK u \in Seq(S) : u = s \o t
  BY ConcatProperties
<1>3. /\ Len(u) = Len(s) + Len(t)
      /\ \A i \in 1..Len(s) + Len(t) : u[i] = IF i <= Len(s) THEN s[i] ELSE t[i - Len(s)]
  BY <1>2, ConcatProperties
<1>4. ASSUME NEW i \in 1..Len(s) PROVE u[i] = s[i]
  <2>1. i \in 1..Len(s) + Len(t) /\ i <= Len(s)
    BY <1>1
  <2>2. QED
    BY <1>3, <2>1
<1>5. ASSUME NEW i \in 1..Len(t) PROVE u[Len(s) + i] = t[i]
  <2>1. Len(s) + i \in 1..Len(s) + Len(t)
    BY <1>1
  <2>2. PICK j \in 1..Len(s) + Len(t) : j = Len(s) + i
    BY <2>1
  <2>3. ~(j <= Len(s)) /\ j - Len(s) = i
    BY <1>1, <2>2
  <2>4. u[j] = t[j - Len(s)]
    BY <1>3, <2>3
  <2>5. QED
    BY <2>2, <2>3, <2>4
<1>6. QED
  BY <1>1, <1>2, <1>3, <1>4, <1>5

LEMMA Concatenated ==
  ASSUME NEW s \in Seq(Byte), NEW t \in Seq(Byte)
  PROVE  /\ s \o t \in Seq(Byte) /\ Len(s \o t) = Len(s) + Len(t)
         /\ Len(s) \in Nat /\ Len(t) \in Nat
         /\ \A i \in 1..Len(s) : (s \o t)[i] = s[i]
         /\ \A i \in 1..Len(t) : (s \o t)[Len(s) + i] = t[i]
BY ConcatenatedOf

LEMMA NumbersConcatenated ==
  ASSUME NEW s \in Seq(Nat), NEW t \in Seq(Nat)
  PROVE  /\ s \o t \in Seq(Nat) /\ Len(s \o t) = Len(s) + Len(t)
         /\ Len(s) \in Nat /\ Len(t) \in Nat
         /\ \A i \in 1..Len(s) : (s \o t)[i] = s[i]
         /\ \A i \in 1..Len(t) : (s \o t)[Len(s) + i] = t[i]
BY ConcatenatedOf

LEMMA SubSeqIs ==
  ASSUME NEW S, NEW s \in Seq(S), NEW t \in Seq(S),
         NEW m \in Nat \ {0}, NEW n \in Nat, n <= Len(s), Len(t) = n - m + 1,
         \A i \in 1..Len(t) : s[m - 1 + i] = t[i]
  PROVE  SubSeq(s, m, n) = t
<1>1. Len(s) \in Nat /\ Len(t) \in Nat
  BY LenProperties
<1>2. \A i \in m..n : i \in 1..Len(s)
  BY <1>1
<1>3. \A i \in m..n : s[i] \in S
  BY <1>2, ElementOfSeq
<1>4. PICK u \in Seq(S) : u = SubSeq(s, m, n)
  BY <1>3, SubSeqProperties
<1>5. Len(u) = (IF m <= n THEN n - m + 1 ELSE 0) /\ \A i \in 1..n - m + 1 : u[i] = s[m + i - 1]
  BY <1>3, <1>4, SubSeqProperties
<1>6. Len(u) = Len(t)
  BY <1>1, <1>5
<1>7. ASSUME NEW i \in 1..Len(t) PROVE u[i] = t[i]
  <2>1. i \in 1..n - m + 1 /\ m + i - 1 = m - 1 + i
    BY <1>1
  <2>2. u[i] = s[m + i - 1]
    BY <1>5, <2>1
  <2>3. QED
    BY <2>1, <2>2
<1>8. QED
  BY <1>4, <1>6, <1>7, SeqEqual

LEMMA FrontAndLast ==
  ASSUME NEW s \in Seq(Byte), NEW b \in Byte, NEW a, a = Append(s, b)
  PROVE  a \in Seq(Byte) /\ Front(a) = s /\ Last(a) = b
<1>1. /\ a \in Seq(Byte) /\ Len(s) \in Nat /\ Len(a) = Len(s) + 1 /\ a[Len(s) + 1] = b
      /\ \A i \in 1..Len(s) : a[i] = s[i]
  BY AppendProperties, LenProperties
<1>2. \A i \in 1..Len(s) : a[1 - 1 + i] = s[i]
  BY <1>1
<1>3. /\ Len(a) - 1 \in Nat /\ Len(a) - 1 <= Len(a) /\ Len(s) = (Len(a) - 1) - 1 + 1
      /\ 1 \in Nat \ {0}
  BY <1>1
<1>4. SubSeq(a, 1, Len(a) - 1) = s
  BY <1>1, <1>2, <1>3, SubSeqIs
<1>5. QED
  BY <1>1, <1>4 DEF Front, Last

LEMMA ChangedAt ==
  ASSUME NEW S, NEW s \in Seq(S), NEW i \in 1..Len(s), NEW e \in S,
         NEW d, d = [s EXCEPT ![i] = e]
  PROVE  /\ d \in Seq(S) /\ Len(d) = Len(s)
         /\ \A j \in 1..Len(s) : d[j] = IF j = i THEN e ELSE s[j]
BY ExceptSeq
=============================================================================
