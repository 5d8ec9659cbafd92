---------------------------- MODULE Packets_proofs ----------------------------
(***************************************************************************)
(* Proofs about the packet code: crc16.c, the fields of ecss_pkt.c, the    *)
(* path of a packet through the bridge and bitcpy.  Registers and octets   *)
(* are reasoned about as sets of bits (BitSets); what a recursive function *)
(* computes is shown by induction, in the form of Induct below: the set of *)
(* numbers for which the claim holds contains 0 and every successor.       *)
(***************************************************************************)
EXTENDS PusPath, Bitman, WellFoundedInduction, TLAPS

-----------------------------------------------------------------------------
(* Induction over the natural numbers, from the well-foundedness of <.     *)

\* A non-empty set of natural numbers has a least element.
LEMMA MinNat ==
  ASSUME NEW T, T \subseteq Nat, T # {}
  PROVE  \E x \in T : \A y \in T : x <= y
<1>1. PICK x \in T : \A y \in T : ~ (<<y, x>> \in OpToRel(<, Nat))
  BY NatLessThanWellFounded, WFMin, Zenon
<1> DEFINE R == {ss \in Nat \X Nat : ss[1] < ss[2]}
<1>2. OpToRel(<, Nat) = R
  BY Zenon DEF OpToRel
<1>3. \A y, z \in Nat : <<y, z>> \in R <=> y < z
  BY SMT
<1> HIDE DEF R
<1>4. x \in Nat /\ \A y \in T : y \in Nat
  OBVIOUS
<1>5. \A y \in T : ~(y < x)
  BY <1>1, <1>2, <1>3, <1>4, Zenon
<1>6. QED
  BY <1>4, <1>5

\* A set that holds 0 and the successor of each number it holds, holds all.
LEMMA Induct ==
  ASSUME NEW G, 0 \in G, \A n \in Nat : n \in G => n + 1 \in G
  PROVE  Nat \subseteq G
<1> SUFFICES ASSUME ~(Nat \subseteq G) PROVE FALSE
  OBVIOUS
<1>1. PICK x \in Nat \ G : \A y \in Nat \ G : x <= y
  BY MinNat
<1>2. x # 0
  BY <1>1
<1>3. x - 1 \in Nat /\ x - 1 \in G
  BY <1>1, <1>2
<1>4. QED
  BY <1>1, <1>3

-----------------------------------------------------------------------------
(* BitSets: a number of 16 bits and the set of its bits determine each     *)
(* other, and what the shifts do to the bits.                              *)

IsWord(x)  == x \in Nat /\ x < 65536
IsOctet(x) == x \in Nat /\ x < 256

Shr(x, k) == x \div 2 ^ k

LEMMA OctetIsWord == ASSUME NEW x, IsOctet(x) PROVE IsWord(x)
BY DEF IsWord, IsOctet

\* One bit to the right.
LEMMA ShrSteps ==
  ASSUME NEW x \in Nat
  PROVE  /\ Shr(x, 0) = x
         /\ Shr(x, 0) \in Nat /\ Shr(x, 0) \div 2 = Shr(x, 1)
         /\ Shr(x, 1) \in Nat /\ Shr(x, 1) \div 2 = Shr(x, 2)
         /\ Shr(x, 2) \in Nat /\ Shr(x, 2) \div 2 = Shr(x, 3)
         /\ Shr(x, 3) \in Nat /\ Shr(x, 3) \div 2 = Shr(x, 4)
         /\ Shr(x, 4) \in Nat /\ Shr(x, 4) \div 2 = Shr(x, 5)
         /\ Shr(x, 5) \in Nat /\ Shr(x, 5) \div 2 = Shr(x, 6)
         /\ Shr(x, 6) \in Nat /\ Shr(x, 6) \div 2 = Shr(x, 7)
         /\ Shr(x, 7) \in Nat /\ Shr(x, 7) \div 2 = Shr(x, 8)
         /\ Shr(x, 8) \in Nat /\ Shr(x, 8) \div 2 = Shr(x, 9)
         /\ Shr(x, 9) \in Nat /\ Shr(x, 9) \div 2 = Shr(x, 10)
         /\ Shr(x, 10) \in Nat /\ Shr(x, 10) \div 2 = Shr(x, 11)
         /\ Shr(x, 11) \in Nat /\ Shr(x, 11) \div 2 = Shr(x, 12)
         /\ Shr(x, 12) \in Nat /\ Shr(x, 12) \div 2 = Shr(x, 13)
         /\ Shr(x, 13) \in Nat /\ Shr(x, 13) \div 2 = Shr(x, 14)
         /\ Shr(x, 14) \in Nat /\ Shr(x, 14) \div 2 = Shr(x, 15)
<1> Shr(x, 0) = x
  BY 2 ^ 0 = 1 DEF Shr
<1>0. Shr(x, 0) \in Nat /\ Shr(x, 0) \div 2 = Shr(x, 1)
  BY 2 ^ 0 = 1, 2 ^ 1 = 2 DEF Shr
<1>1. Shr(x, 1) \in Nat /\ Shr(x, 1) \div 2 = Shr(x, 2)
  BY 2 ^ 1 = 2, 2 ^ 2 = 4 DEF Shr
<1>2. Shr(x, 2) \in Nat /\ Shr(x, 2) \div 2 = Shr(x, 3)
  BY 2 ^ 2 = 4, 2 ^ 3 = 8 DEF Shr
<1>3. Shr(x, 3) \in Nat /\ Shr(x, 3) \div 2 = Shr(x, 4)
  BY 2 ^ 3 = 8, 2 ^ 4 = 16 DEF Shr
<1>4. Shr(x, 4) \in Nat /\ Shr(x, 4) \div 2 = Shr(x, 5)
  BY 2 ^ 4 = 16, 2 ^ 5 = 32 DEF Shr
<1>5. Shr(x, 5) \in Nat /\ Shr(x, 5) \div 2 = Shr(x, 6)
  BY 2 ^ 5 = 32, 2 ^ 6 = 64 DEF Shr
<1>6. Shr(x, 6) \in Nat /\ Shr(x, 6) \div 2 = Shr(x, 7)
  BY 2 ^ 6 = 64, 2 ^ 7 = 128 DEF Shr
<1>7. Shr(x, 7) \in Nat /\ Shr(x, 7) \div 2 = Shr(x, 8)
  BY 2 ^ 7 = 128, 2 ^ 8 = 256 DEF Shr
<1>8. Shr(x, 8) \in Nat /\ Shr(x, 8) \div 2 = Shr(x, 9)
  BY 2 ^ 8 = 256, 2 ^ 9 = 512 DEF Shr
<1>9. Shr(x, 9) \in Nat /\ Shr(x, 9) \div 2 = Shr(x, 10)
  BY 2 ^ 9 = 512, 2 ^ 10 = 1024 DEF Shr
<1>10. Shr(x, 10) \in Nat /\ Shr(x, 10) \div 2 = Shr(x, 11)
  BY 2 ^ 10 = 1024, 2 ^ 11 = 2048 DEF Shr
<1>11. Shr(x, 11) \in Nat /\ Shr(x, 11) \div 2 = Shr(x, 12)
  BY 2 ^ 11 = 2048, 2 ^ 12 = 4096 DEF Shr
<1>12. Shr(x, 12) \in Nat /\ Shr(x, 12) \div 2 = Shr(x, 13)
  BY 2 ^ 12 = 4096, 2 ^ 13 = 8192 DEF Shr
<1>13. Shr(x, 13) \in Nat /\ Shr(x, 13) \div 2 = Shr(x, 14)
  BY 2 ^ 13 = 8192, 2 ^ 14 = 16384 DEF Shr
<1>14. Shr(x, 14) \in Nat /\ Shr(x, 14) \div 2 = Shr(x, 15)
  BY 2 ^ 14 = 16384, 2 ^ 15 = 32768 DEF Shr
<1> QED
  BY <1>0, <1>1, <1>2, <1>3, <1>4, <1>5, <1>6, <1>7, <1>8, <1>9, <1>10, <1>11, <1>12, <1>13, <1>14

LEMMA ShrStep ==
  ASSUME NEW x \in Nat, NEW k \in 0 .. 14
  PROVE  Shr(x, k) \in Nat /\ Shr(x, k) \div 2 = Shr(x, k + 1)
<1>1. k = 0 \/ k = 1 \/ k = 2 \/ k = 3 \/ k = 4 \/ k = 5 \/ k = 6 \/ k = 7 \/ k = 8
      \/ k = 9 \/ k = 10 \/ k = 11 \/ k = 12 \/ k = 13 \/ k = 14
  OBVIOUS
<1>2. QED
  BY <1>1, ShrSteps

LEMMA ShrTop == ASSUME NEW x, IsWord(x) PROVE Shr(x, 15) \in {0, 1}
BY 2 ^ 15 = 32768 DEF Shr, IsWord

LEMMA Halve ==
  ASSUME NEW b \in {0, 1}, NEW h \in Nat
  PROVE  (b + 2 * h) % 2 = b /\ (b + 2 * h) \div 2 = h
OBVIOUS

LEMMA SameHalves ==
  ASSUME NEW x \in Nat, NEW y \in Nat,
         x \div 2 = y \div 2, (x % 2 = 1) <=> (y % 2 = 1)
  PROVE  x = y
OBVIOUS

LEMMA NumWord == ASSUME NEW S PROVE IsWord(Num(S))
BY SMT DEF Num, IsWord

\* Num(S) has exactly the bits S: Horner's scheme, the low bit first.
LEMMA NumBits ==
  ASSUME NEW S
  PROVE  \A k \in 0 .. 15 : (Num(S) \div 2 ^ k) % 2 = 1 <=> k \in S
<1> DEFINE b(k) == IF k \in S THEN 1 ELSE 0
<1> DEFINE h15 == b(15)
           h14 == b(14) + 2 * h15
           h13 == b(13) + 2 * h14
           h12 == b(12) + 2 * h13
           h11 == b(11) + 2 * h12
           h10 == b(10) + 2 * h11
           h9 == b(9) + 2 * h10
           h8 == b(8) + 2 * h9
           h7 == b(7) + 2 * h8
           h6 == b(6) + 2 * h7
           h5 == b(5) + 2 * h6
           h4 == b(4) + 2 * h5
           h3 == b(3) + 2 * h4
           h2 == b(2) + 2 * h3
           h1 == b(1) + 2 * h2
           h0 == b(0) + 2 * h1
<1>b. \A k : b(k) \in {0, 1} /\ (b(k) = 1 <=> k \in S)
  OBVIOUS
<1>s. Num(S) = h0
  BY SMT DEF Num
<1> HIDE DEF b
<1>t15. h15 \in Nat /\ h15 % 2 = b(15)
  BY <1>b
<1> HIDE DEF h15
<1>t14. h14 \in Nat /\ h14 % 2 = b(14) /\ h14 \div 2 = h15
  BY <1>b, <1>t15, Halve
<1> HIDE DEF h14
<1>t13. h13 \in Nat /\ h13 % 2 = b(13) /\ h13 \div 2 = h14
  BY <1>b, <1>t14, Halve
<1> HIDE DEF h13
<1>t12. h12 \in Nat /\ h12 % 2 = b(12) /\ h12 \div 2 = h13
  BY <1>b, <1>t13, Halve
<1> HIDE DEF h12
<1>t11. h11 \in Nat /\ h11 % 2 = b(11) /\ h11 \div 2 = h12
  BY <1>b, <1>t12, Halve
<1> HIDE DEF h11
<1>t10. h10 \in Nat /\ h10 % 2 = b(10) /\ h10 \div 2 = h11
  BY <1>b, <1>t11, Halve
<1> HIDE DEF h10
<1>t9. h9 \in Nat /\ h9 % 2 = b(9) /\ h9 \div 2 = h10
  BY <1>b, <1>t10, Halve
<1> HIDE DEF h9
<1>t8. h8 \in Nat /\ h8 % 2 = b(8) /\ h8 \div 2 = h9
  BY <1>b, <1>t9, Halve
<1> HIDE DEF h8
<1>t7. h7 \in Nat /\ h7 % 2 = b(7) /\ h7 \div 2 = h8
  BY <1>b, <1>t8, Halve
<1> HIDE DEF h7
<1>t6. h6 \in Nat /\ h6 % 2 = b(6) /\ h6 \div 2 = h7
  BY <1>b, <1>t7, Halve
<1> HIDE DEF h6
<1>t5. h5 \in Nat /\ h5 % 2 = b(5) /\ h5 \div 2 = h6
  BY <1>b, <1>t6, Halve
<1> HIDE DEF h5
<1>t4. h4 \in Nat /\ h4 % 2 = b(4) /\ h4 \div 2 = h5
  BY <1>b, <1>t5, Halve
<1> HIDE DEF h4
<1>t3. h3 \in Nat /\ h3 % 2 = b(3) /\ h3 \div 2 = h4
  BY <1>b, <1>t4, Halve
<1> HIDE DEF h3
<1>t2. h2 \in Nat /\ h2 % 2 = b(2) /\ h2 \div 2 = h3
  BY <1>b, <1>t3, Halve
<1> HIDE DEF h2
<1>t1. h1 \in Nat /\ h1 % 2 = b(1) /\ h1 \div 2 = h2
  BY <1>b, <1>t2, Halve
<1> HIDE DEF h1
<1>t0. h0 \in Nat /\ h0 % 2 = b(0) /\ h0 \div 2 = h1
  BY <1>b, <1>t1, Halve
<1> HIDE DEF h0
<1>x. Num(S) \in Nat
  BY <1>s, <1>t0
<1>0. Shr(Num(S), 0) = h0
  BY <1>s, <1>t0, ShrSteps
<1>1. Shr(Num(S), 1) = h1
  BY <1>x, <1>0, <1>t0, ShrSteps, Zenon
<1>2. Shr(Num(S), 2) = h2
  BY <1>x, <1>1, <1>t1, ShrSteps, Zenon
<1>3. Shr(Num(S), 3) = h3
  BY <1>x, <1>2, <1>t2, ShrSteps, Zenon
<1>4. Shr(Num(S), 4) = h4
  BY <1>x, <1>3, <1>t3, ShrSteps, Zenon
<1>5. Shr(Num(S), 5) = h5
  BY <1>x, <1>4, <1>t4, ShrSteps, Zenon
<1>6. Shr(Num(S), 6) = h6
  BY <1>x, <1>5, <1>t5, ShrSteps, Zenon
<1>7. Shr(Num(S), 7) = h7
  BY <1>x, <1>6, <1>t6, ShrSteps, Zenon
<1>8. Shr(Num(S), 8) = h8
  BY <1>x, <1>7, <1>t7, ShrSteps, Zenon
<1>9. Shr(Num(S), 9) = h9
  BY <1>x, <1>8, <1>t8, ShrSteps, Zenon
<1>10. Shr(Num(S), 10) = h10
  BY <1>x, <1>9, <1>t9, ShrSteps, Zenon
<1>11. Shr(Num(S), 11) = h11
  BY <1>x, <1>10, <1>t10, ShrSteps, Zenon
<1>12. Shr(Num(S), 12) = h12
  BY <1>x, <1>11, <1>t11, ShrSteps, Zenon
<1>13. Shr(Num(S), 13) = h13
  BY <1>x, <1>12, <1>t12, ShrSteps, Zenon
<1>14. Shr(Num(S), 14) = h14
  BY <1>x, <1>13, <1>t13, ShrSteps, Zenon
<1>15. Shr(Num(S), 15) = h15
  BY <1>x, <1>14, <1>t14, ShrSteps, Zenon
<1>q. SUFFICES ASSUME NEW k \in 0 .. 15 PROVE Shr(Num(S), k) % 2 = b(k)
  BY <1>b, Zenon DEF Shr
<1> QED
  BY <1>0, <1>1, <1>2, <1>3, <1>4, <1>5, <1>6, <1>7,
     <1>8, <1>9, <1>10, <1>11, <1>12, <1>13, <1>14, <1>15,
     <1>t0, <1>t1, <1>t2, <1>t3, <1>t4, <1>t5, <1>t6, <1>t7,
     <1>t8, <1>t9, <1>t10, <1>t11, <1>t12, <1>t13, <1>t14, <1>t15

LEMMA BitsOfNum == ASSUME NEW S PROVE BitsOf(Num(S)) = S \cap (0 .. 15)
<1>1. \A k \in 0 .. 15 : (Num(S) \div 2 ^ k) % 2 = 1 <=> k \in S
  BY NumBits, Zenon
<1>2. QED
  BY <1>1, Zenon DEF BitsOf

\* Words with the same bits are equal: from the highest bit down.
LEMMA SameBits ==
  ASSUME NEW x, NEW y, IsWord(x), IsWord(y), BitsOf(x) = BitsOf(y)
  PROVE  x = y
<1>x. x \in Nat /\ y \in Nat
  BY DEF IsWord
<1>b. \A k \in 0 .. 15 : (Shr(x, k) % 2 = 1) <=> (Shr(y, k) % 2 = 1)
  BY Zenon DEF BitsOf, Shr
<1> DEFINE G == {n \in Nat : n <= 15 => Shr(x, 15 - n) = Shr(y, 15 - n)}
<1>1. 0 \in G
  BY <1>b, ShrTop
<1>2. ASSUME NEW n \in Nat, n \in G PROVE n + 1 \in G
  <2> SUFFICES ASSUME n + 1 <= 15 PROVE Shr(x, 15 - (n + 1)) = Shr(y, 15 - (n + 1))
    OBVIOUS
  <2> DEFINE k == 14 - n
  <2>1. k \in 0 .. 14 /\ 15 - (n + 1) = k /\ 15 - n = k + 1
    OBVIOUS
  <2>2. Shr(x, k + 1) = Shr(y, k + 1)
    BY <1>2, <2>1
  <2> HIDE DEF k
  <2>3. Shr(x, k) \in Nat /\ Shr(y, k) \in Nat /\ Shr(x, k) \div 2 = Shr(y, k) \div 2
    <3>1. \A z \in Nat : Shr(z, k) \in Nat /\ Shr(z, k) \div 2 = Shr(z, k + 1)
      BY <2>1, ShrStep
    <3>2. QED
      BY <1>x, <2>2, <3>1, Zenon
  <2>4. k \in 0 .. 15
    BY <2>1
  <2>5. Shr(x, k) = Shr(y, k)
    BY <1>b, <2>3, <2>4, SameHalves, Zenon
  <2>6. QED
    BY <2>1, <2>5
<1>3. 15 \in G
  BY <1>1, <1>2, Induct
<1>4. QED
  BY <1>3, <1>x, ShrSteps

LEMMA NumBitsOf == ASSUME NEW x, IsWord(x) PROVE Num(BitsOf(x)) = x
<1>1. BitsOf(x) \subseteq 0 .. 15
  BY DEF BitsOf
<1>2. BitsOf(Num(BitsOf(x))) = BitsOf(x)
  BY <1>1, BitsOfNum, Zenon
<1>3. QED
  BY <1>2, NumWord, SameBits, Zenon

LEMMA BitsEqual ==
  ASSUME NEW x, NEW y, IsWord(x), IsWord(y),
         \A k \in 0 .. 15 : k \in BitsOf(x) <=> k \in BitsOf(y)
  PROVE  x = y
<1>1. BitsOf(x) = BitsOf(y)
  BY DEF BitsOf
<1>2. QED
  BY <1>1, SameBits

LEMMA XorBits ==
  ASSUME NEW x, NEW y
  PROVE  /\ IsWord(Xor(x, y))
         /\ \A k \in 0 .. 15 :
               k \in BitsOf(Xor(x, y)) <=> ~(k \in BitsOf(x) <=> k \in BitsOf(y))
<1> DEFINE S == (BitsOf(x) \ BitsOf(y)) \cup (BitsOf(y) \ BitsOf(x))
<1>1. IsWord(Num(S)) /\ BitsOf(Num(S)) = S \cap (0 .. 15)
  BY NumWord, BitsOfNum
<1>2. QED
  BY <1>1 DEF Xor

LEMMA RunExists ==
  ASSUME NEW V, NEW a \in V, NEW n \in Nat, NEW step \in [1 .. n -> [V -> V]]
  PROVE  \E f \in [0 .. n -> V] : f[0] = a /\ \A k \in 1 .. n : f[k] = step[k][f[k - 1]]
<1> DEFINE Q(m, f) == f \in [0 .. m -> V] /\ f[0] = a /\ \A k \in 1 .. m : f[k] = step[k][f[k - 1]]
           G == {m \in Nat : m <= n => \E f : Q(m, f)}
<1>1. 0 \in G
  <2>1. Q(0, [k \in 0 .. 0 |-> a])
    OBVIOUS
  <2>2. QED
    BY <2>1
<1>2. ASSUME NEW m \in Nat, m \in G PROVE m + 1 \in G
  <2> SUFFICES ASSUME m + 1 <= n PROVE \E f : Q(m + 1, f)
    OBVIOUS
  <2>1. PICK f : Q(m, f)
    BY <1>2
  <2> DEFINE g == [k \in 0 .. m + 1 |-> IF k <= m THEN f[k] ELSE step[m + 1][f[m]]]
  <2>2. f[m] \in V /\ step[m + 1] \in [V -> V]
    BY <2>1
  <2>3. g \in [0 .. m + 1 -> V] /\ g[0] = a
    BY <2>1, <2>2
  <2>4. \A k \in 1 .. m + 1 : g[k] = step[k][g[k - 1]]
    BY <2>1, <2>2
  <2>5. QED
    BY <2>3, <2>4
<1>3. n \in G
  BY <1>1, <1>2, Induct
<1>4. QED
  BY <1>3

LEMMA RunSame ==
  ASSUME NEW n \in Nat, NEW f, NEW g, f[0] = g[0],
         \A k \in 1 .. n : f[k - 1] = g[k - 1] => f[k] = g[k]
  PROVE  f[n] = g[n]
<1> DEFINE G == {m \in Nat : m <= n => f[m] = g[m]}
<1>1. 0 \in G
  OBVIOUS
<1>2. ASSUME NEW m \in Nat, m \in G PROVE m + 1 \in G
  <2>1. m + 1 <= n => (m + 1 \in 1 .. n /\ (m + 1) - 1 = m)
    OBVIOUS
  <2>2. QED
    BY <1>2, <2>1
<1>3. n \in G
  <2> HIDE DEF G
  <2> QED BY <1>1, <1>2, Induct
<1>4. QED
  BY <1>3

LEMMA OctetwiseRun ==
  ASSUME NEW s, NEW i \in Nat, NEW n \in Nat, NEW a, NEW g, g[0] = a,
         \A k \in 1 .. n : g[k] = Crc(s[i + k], g[k - 1])
  PROVE  Octetwise(a, s, i, n) = g[n]
<1> DEFINE E(f) == [k \in 0 .. n |-> IF k = 0 THEN a ELSE Crc(s[i + k], f[k - 1])]
           r == CHOOSE f : f = E(f)
<1>1. \E f : f = E(f)
  <2> DEFINE f == [k \in 0 .. n |-> g[k]]
  <2>1. ASSUME NEW k \in 0 .. n PROVE f[k] = E(f)[k]
    <3>1. CASE k = 0
      BY <3>1
    <3>2. CASE k # 0
      <4>1. k \in 1 .. n /\ k - 1 \in 0 .. n
        BY <3>2
      <4> QED BY <3>2, <4>1
    <3> QED BY <3>1, <3>2
  <2>2. f = E(f)
    BY <2>1
  <2>3. QED
    BY <2>2
<1>2. r = E(r)
  BY <1>1, Zenon
<1>3. r[0] = a /\ \A k \in 1 .. n : r[k] = Crc(s[i + k], r[k - 1])
  <2> HIDE DEF r
  <2>1. \A f : E(f)[0] = a /\ \A k \in 1 .. n : E(f)[k] = Crc(s[i + k], f[k - 1])
    OBVIOUS
  <2> HIDE DEF E
  <2>2. QED
    BY <1>2, <2>1, Zenon
<1>4. r[n] = g[n]
  <2> HIDE DEF r
  <2>1. QED BY <1>3, RunSame
<1>5. Octetwise(a, s, i, n) = r[n]
  BY DEF Octetwise, Iterate
<1>6. QED
  BY <1>4, <1>5

LEMMA UpBits ==
  ASSUME NEW c, IsWord(c)
  PROVE  /\ IsWord(Up(c))
         /\ \A k \in 0 .. 15 : k \in BitsOf(Up(c)) <=> (k >= 8 /\ k - 8 \in BitsOf(c))
<1>1. IsWord(Up(c))
  BY SMT DEF Up, Hi, IsWord, IsOctet
<1> DEFINE T == {k \in 0 .. 15 : (k >= 8 /\ k - 8 \in BitsOf(c))}
<1>2. Num(T) = Up(c)
  <2> DEFINE b(k) == IF k \in BitsOf(c) THEN 1 ELSE 0
             lo == b(0) + 2 * b(1) + 4 * b(2) + 8 * b(3) + 16 * b(4) + 32 * b(5) + 64 * b(6)
                   + 128 * b(7)
             hi == b(8) + 2 * b(9) + 4 * b(10) + 8 * b(11) + 16 * b(12) + 32 * b(13)
                   + 64 * b(14) + 128 * b(15)
  <2>1. c = lo + 256 * hi
    BY NumBitsOf DEF Num
  <2>2. lo \in Nat /\ lo < 256 /\ hi \in Nat /\ hi < 256
    OBVIOUS
  <2>3. Num(T) = 256 * lo
    BY DEF Num
  <2> HIDE DEF lo, hi, T
  <2>4. QED
    BY <2>1, <2>2, <2>3, SMT DEF Up, Hi
<1>3. QED
  BY <1>1, <1>2, BitsOfNum

LEMMA HiBits ==
  ASSUME NEW c, IsWord(c)
  PROVE  /\ IsOctet(Hi(c))
         /\ \A k \in 0 .. 15 : k \in BitsOf(Hi(c)) <=> (k < 8 /\ k + 8 \in BitsOf(c))
<1>1. IsOctet(Hi(c))
  BY SMT DEF Up, Hi, IsWord, IsOctet
<1> DEFINE T == {k \in 0 .. 15 : (k < 8 /\ k + 8 \in BitsOf(c))}
<1>2. Num(T) = Hi(c)
  <2> DEFINE b(k) == IF k \in BitsOf(c) THEN 1 ELSE 0
             lo == b(0) + 2 * b(1) + 4 * b(2) + 8 * b(3) + 16 * b(4) + 32 * b(5) + 64 * b(6)
                   + 128 * b(7)
             hi == b(8) + 2 * b(9) + 4 * b(10) + 8 * b(11) + 16 * b(12) + 32 * b(13)
                   + 64 * b(14) + 128 * b(15)
  <2>1. c = lo + 256 * hi
    BY NumBitsOf DEF Num
  <2>2. lo \in Nat /\ lo < 256 /\ hi \in Nat /\ hi < 256
    OBVIOUS
  <2>3. Num(T) = hi
    BY DEF Num
  <2> HIDE DEF lo, hi, T
  <2>4. QED
    BY <2>1, <2>2, <2>3, SMT DEF Up, Hi
<1>3. QED
  BY <1>1, <1>2, BitsOfNum

LEMMA LoBits ==
  ASSUME NEW c, IsWord(c)
  PROVE  /\ IsOctet(c % 256)
         /\ \A k \in 0 .. 15 : k \in BitsOf(c % 256) <=> (k < 8 /\ k \in BitsOf(c))
<1>1. IsOctet(c % 256)
  BY SMT DEF Up, Hi, IsWord, IsOctet
<1> DEFINE T == {k \in 0 .. 15 : (k < 8 /\ k \in BitsOf(c))}
<1>2. Num(T) = c % 256
  <2> DEFINE b(k) == IF k \in BitsOf(c) THEN 1 ELSE 0
             lo == b(0) + 2 * b(1) + 4 * b(2) + 8 * b(3) + 16 * b(4) + 32 * b(5) + 64 * b(6)
                   + 128 * b(7)
             hi == b(8) + 2 * b(9) + 4 * b(10) + 8 * b(11) + 16 * b(12) + 32 * b(13)
                   + 64 * b(14) + 128 * b(15)
  <2>1. c = lo + 256 * hi
    BY NumBitsOf DEF Num
  <2>2. lo \in Nat /\ lo < 256 /\ hi \in Nat /\ hi < 256
    OBVIOUS
  <2>3. Num(T) = lo
    BY DEF Num
  <2> HIDE DEF lo, hi, T
  <2>4. QED
    BY <2>1, <2>2, <2>3, SMT DEF Up, Hi
<1>3. QED
  BY <1>1, <1>2, BitsOfNum

LEMMA Doubled ==
  ASSUME NEW lo \in Nat, lo < 32768, NEW t \in {0, 1}
  PROVE  ((lo + 32768 * t) * 2) % 65536 = 2 * lo
BY SMT

LEMMA DoubleBits ==
  ASSUME NEW c, IsWord(c)
  PROVE  /\ IsWord(Double(c))
         /\ \A k \in 0 .. 15 : k \in BitsOf(Double(c)) <=> (k >= 1 /\ k - 1 \in BitsOf(c))
<1>1. IsWord(Double(c))
  BY SMT DEF IsWord, Double
<1> DEFINE T == {k \in 0 .. 15 : k >= 1 /\ k - 1 \in BitsOf(c)}
<1>2. Num(T) = Double(c)
  <2> DEFINE b(k) == IF k \in BitsOf(c) THEN 1 ELSE 0
             lo == b(0) + 2 * b(1) + 4 * b(2) + 8 * b(3) + 16 * b(4) + 32 * b(5) + 64 * b(6)
                   + 128 * b(7) + 256 * b(8) + 512 * b(9) + 1024 * b(10) + 2048 * b(11)
                   + 4096 * b(12) + 8192 * b(13) + 16384 * b(14)
  <2>1. c = lo + 32768 * b(15)
    BY NumBitsOf DEF Num
  <2>2. lo \in Nat /\ lo < 32768 /\ b(15) \in {0, 1}
    OBVIOUS
  <2>3. Num(T) = 2 * lo
    BY DEF Num
  <2> HIDE DEF lo, b, T
  <2>4. ((lo + 32768 * b(15)) * 2) % 65536 = 2 * lo
    BY <2>2, Doubled
  <2>5. QED
    BY <2>1, <2>3, <2>4 DEF Double
<1>3. QED
  BY <1>1, <1>2, BitsOfNum

LEMMA PolyBits == \A k \in 0 .. 15 : k \in BitsOf(Poly) <=> k \in {0, 5, 12}
<1>1. Num({0, 5, 12}) = Poly
  BY DEF Num, Poly
<1>2. QED
  BY <1>1, BitsOfNum

\* The bits after one step of the division: a shift, and the polynomial added
\* when the bit shifted out differs from the bit fed in.
LEMMA DivideBits ==
  ASSUME NEW c, IsWord(c), NEW bit
  PROVE  LET d == DivideBit(c, bit)
             t == ~(15 \in BitsOf(c) <=> bit = 1)
         IN  /\ IsWord(d)
             /\ 0 \in BitsOf(d) <=> t
             /\ \A k \in 0 .. 14 :
                   k + 1 \in BitsOf(d) <=> ~(k \in BitsOf(c) <=> (t /\ k + 1 \in {5, 12}))
<1> DEFINE dbl == Double(c)
           t == ~(15 \in BitsOf(c) <=> bit = 1)
           d == DivideBit(c, bit)
<1>1. IsWord(dbl) /\ \A k \in 0 .. 15 : k \in BitsOf(dbl) <=> (k >= 1 /\ k - 1 \in BitsOf(c))
  BY DoubleBits
<1>2. d = IF t THEN Xor(dbl, Poly) ELSE dbl
  BY DEF DivideBit
<1> HIDE DEF dbl, t, d
<1>3. CASE t
  <2>1. IsWord(d) /\ \A k \in 0 .. 15 : k \in BitsOf(d) <=> ~(k \in BitsOf(dbl) <=> k \in {0, 5, 12})
    <3>1. d = Xor(dbl, Poly)
      BY <1>2, <1>3
    <3>2. QED
      BY <3>1, XorBits, PolyBits
  <2>2. QED
    BY <1>1, <1>3, <2>1, SMT DEF d, t
<1>4. CASE ~t
  BY <1>1, <1>2, <1>4, SMT DEF d, t
<1>5. QED
  BY <1>3, <1>4

-----------------------------------------------------------------------------
(* crc16 is eight steps of the division.                                   *)

On(x, k) == k \in BitsOf(x)

\* d is c after one step that was fed bit: a shift, and the polynomial added
\* when the bit shifted out differs from the bit fed in.
Step(d, c, bit) ==
    LET t == ~(On(c, 15) <=> bit = 1)
    IN  /\ On(d, 0) <=> t
        /\ On(d, 1) <=> On(c, 0)
        /\ On(d, 2) <=> On(c, 1)
        /\ On(d, 3) <=> On(c, 2)
        /\ On(d, 4) <=> On(c, 3)
        /\ On(d, 5) <=> ~(On(c, 4) <=> t)
        /\ On(d, 6) <=> On(c, 5)
        /\ On(d, 7) <=> On(c, 6)
        /\ On(d, 8) <=> On(c, 7)
        /\ On(d, 9) <=> On(c, 8)
        /\ On(d, 10) <=> On(c, 9)
        /\ On(d, 11) <=> On(c, 10)
        /\ On(d, 12) <=> ~(On(c, 11) <=> t)
        /\ On(d, 13) <=> On(c, 12)
        /\ On(d, 14) <=> On(c, 13)
        /\ On(d, 15) <=> On(c, 14)

LEMMA DivideStep ==
  ASSUME NEW c, IsWord(c), NEW bit
  PROVE  IsWord(DivideBit(c, bit)) /\ Step(DivideBit(c, bit), c, bit)
<1>1. \A k \in 0 .. 14 : k + 1 \in BitsOf(DivideBit(c, bit)) <=>
         ~(k \in BitsOf(c) <=> (~(15 \in BitsOf(c) <=> bit = 1) /\ k + 1 \in {5, 12}))
  BY DivideBits
<1>2. QED
  BY <1>1, DivideBits DEF Step, On

\* The bits of the constants of crc_init_lookup_table.
LEMMA BasisBits ==
  /\ \A k \in 0 .. 15 : k \in BitsOf(Basis[1]) <=> k \in {0, 5, 12}
  /\ \A k \in 0 .. 15 : k \in BitsOf(Basis[2]) <=> k \in {1, 6, 13}
  /\ \A k \in 0 .. 15 : k \in BitsOf(Basis[3]) <=> k \in {2, 7, 14}
  /\ \A k \in 0 .. 15 : k \in BitsOf(Basis[4]) <=> k \in {3, 8, 15}
  /\ \A k \in 0 .. 15 : k \in BitsOf(Basis[5]) <=> k \in {0, 4, 5, 9, 12}
  /\ \A k \in 0 .. 15 : k \in BitsOf(Basis[6]) <=> k \in {1, 5, 6, 10, 13}
  /\ \A k \in 0 .. 15 : k \in BitsOf(Basis[7]) <=> k \in {2, 6, 7, 11, 14}
  /\ \A k \in 0 .. 15 : k \in BitsOf(Basis[8]) <=> k \in {3, 7, 8, 12, 15}
<1>1. Num({0, 5, 12}) = Basis[1]
  BY DEF Num, Basis
<1>2. Num({1, 6, 13}) = Basis[2]
  BY DEF Num, Basis
<1>3. Num({2, 7, 14}) = Basis[3]
  BY DEF Num, Basis
<1>4. Num({3, 8, 15}) = Basis[4]
  BY DEF Num, Basis
<1>5. Num({0, 4, 5, 9, 12}) = Basis[5]
  BY DEF Num, Basis
<1>6. Num({1, 5, 6, 10, 13}) = Basis[6]
  BY DEF Num, Basis
<1>7. Num({2, 6, 7, 11, 14}) = Basis[7]
  BY DEF Num, Basis
<1>8. Num({3, 7, 8, 12, 15}) = Basis[8]
  BY DEF Num, Basis
<1>9. QED
  BY <1>1, <1>2, <1>3, <1>4, <1>5, <1>6, <1>7, <1>8, BitsOfNum

\* y has the bits of entry i of the table, in those of i.
Entry(y, i) ==
    /\ On(y, 0) <=> ~(On(i, 0) <=> On(i, 4))
    /\ On(y, 1) <=> ~(On(i, 1) <=> On(i, 5))
    /\ On(y, 2) <=> ~(On(i, 2) <=> On(i, 6))
    /\ On(y, 3) <=> ~(On(i, 3) <=> On(i, 7))
    /\ On(y, 4) <=> On(i, 4)
    /\ On(y, 5) <=> ~(~(On(i, 0) <=> On(i, 4)) <=> On(i, 5))
    /\ On(y, 6) <=> ~(~(On(i, 1) <=> On(i, 5)) <=> On(i, 6))
    /\ On(y, 7) <=> ~(~(On(i, 2) <=> On(i, 6)) <=> On(i, 7))
    /\ On(y, 8) <=> ~(On(i, 3) <=> On(i, 7))
    /\ On(y, 9) <=> On(i, 4)
    /\ On(y, 10) <=> On(i, 5)
    /\ On(y, 11) <=> On(i, 6)
    /\ On(y, 12) <=> ~(~(On(i, 0) <=> On(i, 4)) <=> On(i, 7))
    /\ On(y, 13) <=> ~(On(i, 1) <=> On(i, 5))
    /\ On(y, 14) <=> ~(On(i, 2) <=> On(i, 6))
    /\ On(y, 15) <=> ~(On(i, 3) <=> On(i, 7))

LEMMA LutBits ==
  ASSUME NEW i, IsOctet(i)
  PROVE  IsWord(Lut[i]) /\ Entry(Lut[i], i)
<1> DEFINE term(k) == IF k \in BitsOf(i) THEN Basis[k + 1] ELSE 0
           s0 == Xor(0, term(0))
           s1 == Xor(s0, term(1))
           s2 == Xor(s1, term(2))
           s3 == Xor(s2, term(3))
           s4 == Xor(s3, term(4))
           s5 == Xor(s4, term(5))
           s6 == Xor(s5, term(6))
           s7 == Xor(s6, term(7))
<1>0. Lut[i] = s7
  BY DEF Lut, IsOctet
<1>z. \A k \in 0 .. 15 : ~(k \in BitsOf(0))
  <2>1. Num({}) = 0
    BY DEF Num
  <2>2. QED
    BY <2>1, BitsOfNum
<1>t0. \A k \in 0 .. 15 : k \in BitsOf(term(0)) <=> (0 \in BitsOf(i) /\ k \in {0, 5, 12})
  BY <1>z, BasisBits
<1>t1. \A k \in 0 .. 15 : k \in BitsOf(term(1)) <=> (1 \in BitsOf(i) /\ k \in {1, 6, 13})
  BY <1>z, BasisBits
<1>t2. \A k \in 0 .. 15 : k \in BitsOf(term(2)) <=> (2 \in BitsOf(i) /\ k \in {2, 7, 14})
  BY <1>z, BasisBits
<1>t3. \A k \in 0 .. 15 : k \in BitsOf(term(3)) <=> (3 \in BitsOf(i) /\ k \in {3, 8, 15})
  BY <1>z, BasisBits
<1>t4. \A k \in 0 .. 15 : k \in BitsOf(term(4)) <=> (4 \in BitsOf(i) /\ k \in {0, 4, 5, 9, 12})
  BY <1>z, BasisBits
<1>t5. \A k \in 0 .. 15 : k \in BitsOf(term(5)) <=> (5 \in BitsOf(i) /\ k \in {1, 5, 6, 10, 13})
  BY <1>z, BasisBits
<1>t6. \A k \in 0 .. 15 : k \in BitsOf(term(6)) <=> (6 \in BitsOf(i) /\ k \in {2, 6, 7, 11, 14})
  BY <1>z, BasisBits
<1>t7. \A k \in 0 .. 15 : k \in BitsOf(term(7)) <=> (7 \in BitsOf(i) /\ k \in {3, 7, 8, 12, 15})
  BY <1>z, BasisBits
<1> HIDE DEF term
<1>1. \A k \in 0 .. 15 : k \in BitsOf(s0) <=> ~(k \in BitsOf(0) <=> k \in BitsOf(term(0)))
  BY XorBits
<1> HIDE DEF s0
<1>2. \A k \in 0 .. 15 : k \in BitsOf(s1) <=> ~(k \in BitsOf(s0) <=> k \in BitsOf(term(1)))
  BY XorBits
<1> HIDE DEF s1
<1>3. \A k \in 0 .. 15 : k \in BitsOf(s2) <=> ~(k \in BitsOf(s1) <=> k \in BitsOf(term(2)))
  BY XorBits
<1> HIDE DEF s2
<1>4. \A k \in 0 .. 15 : k \in BitsOf(s3) <=> ~(k \in BitsOf(s2) <=> k \in BitsOf(term(3)))
  BY XorBits
<1> HIDE DEF s3
<1>5. \A k \in 0 .. 15 : k \in BitsOf(s4) <=> ~(k \in BitsOf(s3) <=> k \in BitsOf(term(4)))
  BY XorBits
<1> HIDE DEF s4
<1>6. \A k \in 0 .. 15 : k \in BitsOf(s5) <=> ~(k \in BitsOf(s4) <=> k \in BitsOf(term(5)))
  BY XorBits
<1> HIDE DEF s5
<1>7. \A k \in 0 .. 15 : k \in BitsOf(s6) <=> ~(k \in BitsOf(s5) <=> k \in BitsOf(term(6)))
  BY XorBits
<1> HIDE DEF s6
<1>8. \A k \in 0 .. 15 : k \in BitsOf(s7) <=> ~(k \in BitsOf(s6) <=> k \in BitsOf(term(7)))
  BY XorBits
<1>w. IsWord(s7)
  BY XorBits
<1> HIDE DEF s7
<1>9. Entry(s7, i)
  <2>0. On(s7, 0) <=> ~(On(i, 0) <=> On(i, 4))
    BY <1>z, <1>t0, <1>t1, <1>t2, <1>t3, <1>t4, <1>t5, <1>t6, <1>t7,
     <1>1, <1>2, <1>3, <1>4, <1>5, <1>6, <1>7, <1>8 DEF On
  <2>1. On(s7, 1) <=> ~(On(i, 1) <=> On(i, 5))
    BY <1>z, <1>t0, <1>t1, <1>t2, <1>t3, <1>t4, <1>t5, <1>t6, <1>t7,
     <1>1, <1>2, <1>3, <1>4, <1>5, <1>6, <1>7, <1>8 DEF On
  <2>2. On(s7, 2) <=> ~(On(i, 2) <=> On(i, 6))
    BY <1>z, <1>t0, <1>t1, <1>t2, <1>t3, <1>t4, <1>t5, <1>t6, <1>t7,
     <1>1, <1>2, <1>3, <1>4, <1>5, <1>6, <1>7, <1>8 DEF On
  <2>3. On(s7, 3) <=> ~(On(i, 3) <=> On(i, 7))
    BY <1>z, <1>t0, <1>t1, <1>t2, <1>t3, <1>t4, <1>t5, <1>t6, <1>t7,
     <1>1, <1>2, <1>3, <1>4, <1>5, <1>6, <1>7, <1>8 DEF On
  <2>4. On(s7, 4) <=> On(i, 4)
    BY <1>z, <1>t0, <1>t1, <1>t2, <1>t3, <1>t4, <1>t5, <1>t6, <1>t7,
     <1>1, <1>2, <1>3, <1>4, <1>5, <1>6, <1>7, <1>8 DEF On
  <2>5. On(s7, 5) <=> ~(~(On(i, 0) <=> On(i, 4)) <=> On(i, 5))
    BY <1>z, <1>t0, <1>t1, <1>t2, <1>t3, <1>t4, <1>t5, <1>t6, <1>t7,
     <1>1, <1>2, <1>3, <1>4, <1>5, <1>6, <1>7, <1>8 DEF On
  <2>6. On(s7, 6) <=> ~(~(On(i, 1) <=> On(i, 5)) <=> On(i, 6))
    BY <1>z, <1>t0, <1>t1, <1>t2, <1>t3, <1>t4, <1>t5, <1>t6, <1>t7,
     <1>1, <1>2, <1>3, <1>4, <1>5, <1>6, <1>7, <1>8 DEF On
  <2>7. On(s7, 7) <=> ~(~(On(i, 2) <=> On(i, 6)) <=> On(i, 7))
    BY <1>z, <1>t0, <1>t1, <1>t2, <1>t3, <1>t4, <1>t5, <1>t6, <1>t7,
     <1>1, <1>2, <1>3, <1>4, <1>5, <1>6, <1>7, <1>8 DEF On
  <2>8. On(s7, 8) <=> ~(On(i, 3) <=> On(i, 7))
    BY <1>z, <1>t0, <1>t1, <1>t2, <1>t3, <1>t4, <1>t5, <1>t6, <1>t7,
     <1>1, <1>2, <1>3, <1>4, <1>5, <1>6, <1>7, <1>8 DEF On
  <2>9. On(s7, 9) <=> On(i, 4)
    BY <1>z, <1>t0, <1>t1, <1>t2, <1>t3, <1>t4, <1>t5, <1>t6, <1>t7,
     <1>1, <1>2, <1>3, <1>4, <1>5, <1>6, <1>7, <1>8 DEF On
  <2>10. On(s7, 10) <=> On(i, 5)
    BY <1>z, <1>t0, <1>t1, <1>t2, <1>t3, <1>t4, <1>t5, <1>t6, <1>t7,
     <1>1, <1>2, <1>3, <1>4, <1>5, <1>6, <1>7, <1>8 DEF On
  <2>11. On(s7, 11) <=> On(i, 6)
    BY <1>z, <1>t0, <1>t1, <1>t2, <1>t3, <1>t4, <1>t5, <1>t6, <1>t7,
     <1>1, <1>2, <1>3, <1>4, <1>5, <1>6, <1>7, <1>8 DEF On
  <2>12. On(s7, 12) <=> ~(~(On(i, 0) <=> On(i, 4)) <=> On(i, 7))
    BY <1>z, <1>t0, <1>t1, <1>t2, <1>t3, <1>t4, <1>t5, <1>t6, <1>t7,
     <1>1, <1>2, <1>3, <1>4, <1>5, <1>6, <1>7, <1>8 DEF On
  <2>13. On(s7, 13) <=> ~(On(i, 1) <=> On(i, 5))
    BY <1>z, <1>t0, <1>t1, <1>t2, <1>t3, <1>t4, <1>t5, <1>t6, <1>t7,
     <1>1, <1>2, <1>3, <1>4, <1>5, <1>6, <1>7, <1>8 DEF On
  <2>14. On(s7, 14) <=> ~(On(i, 2) <=> On(i, 6))
    BY <1>z, <1>t0, <1>t1, <1>t2, <1>t3, <1>t4, <1>t5, <1>t6, <1>t7,
     <1>1, <1>2, <1>3, <1>4, <1>5, <1>6, <1>7, <1>8 DEF On
  <2>15. On(s7, 15) <=> ~(On(i, 3) <=> On(i, 7))
    BY <1>z, <1>t0, <1>t1, <1>t2, <1>t3, <1>t4, <1>t5, <1>t6, <1>t7,
     <1>1, <1>2, <1>3, <1>4, <1>5, <1>6, <1>7, <1>8 DEF On
  <2>16. QED
    BY <2>0, <2>1, <2>2, <2>3, <2>4, <2>5, <2>6, <2>7, <2>8, <2>9, <2>10, <2>11, <2>12, <2>13, <2>14, <2>15 DEF Entry
<1>10. QED
  BY <1>0, <1>9, <1>w

\* An octet has no bits above the seventh, and a word without them is one.
LEMMA OctetBits ==
  ASSUME NEW x
  PROVE  /\ IsOctet(x) => \A k \in 8 .. 15 : ~(k \in BitsOf(x))
         /\ (IsWord(x) /\ \A k \in 8 .. 15 : ~(k \in BitsOf(x))) => IsOctet(x)
<1>1. ASSUME IsOctet(x), NEW k \in 8 .. 15 PROVE ~(k \in BitsOf(x))
  <2>1. x \in Nat /\ x < 256
    BY <1>1 DEF IsOctet
  <2>2. Shr(x, 8) = 0 /\ Shr(x, 9) = 0 /\ Shr(x, 10) = 0 /\ Shr(x, 11) = 0
        /\ Shr(x, 12) = 0 /\ Shr(x, 13) = 0 /\ Shr(x, 14) = 0 /\ Shr(x, 15) = 0
    BY <2>1, 2 ^ 8 = 256, 2 ^ 9 = 512, 2 ^ 10 = 1024, 2 ^ 11 = 2048, 2 ^ 12 = 4096,
       2 ^ 13 = 8192, 2 ^ 14 = 16384, 2 ^ 15 = 32768 DEF Shr
  <2>3. Shr(x, k) % 2 = 0
    BY <2>2
  <2>4. QED
    BY <2>3 DEF BitsOf, Shr
<1>2. ASSUME IsWord(x), \A k \in 8 .. 15 : ~(k \in BitsOf(x)) PROVE IsOctet(x)
  <2>1. IsOctet(Num(BitsOf(x)))
    BY <1>2, SMT DEF Num, IsOctet
  <2>2. QED
    BY <1>2, <2>1, NumBitsOf
<1>3. QED
  BY <1>1, <1>2

LEMMA XorOctet == ASSUME NEW x, NEW y, IsOctet(x), IsOctet(y) PROVE IsOctet(Xor(x, y))
<1>1. \A k \in 8 .. 15 : ~(k \in BitsOf(Xor(x, y)))
  <2>1. \A k \in 8 .. 15 : k \in 0 .. 15
    OBVIOUS
  <2>2. QED
    BY <2>1, OctetBits, XorBits, Zenon
<1>2. QED
  BY <1>1, OctetBits, XorBits

\* What crc16 makes of the bits: y is the entry of the table.
Combined(d, c, y) ==
    /\ On(d, 0) <=> On(y, 0)
    /\ On(d, 1) <=> On(y, 1)
    /\ On(d, 2) <=> On(y, 2)
    /\ On(d, 3) <=> On(y, 3)
    /\ On(d, 4) <=> On(y, 4)
    /\ On(d, 5) <=> On(y, 5)
    /\ On(d, 6) <=> On(y, 6)
    /\ On(d, 7) <=> On(y, 7)
    /\ On(d, 8) <=> ~(On(c, 0) <=> On(y, 8))
    /\ On(d, 9) <=> ~(On(c, 1) <=> On(y, 9))
    /\ On(d, 10) <=> ~(On(c, 2) <=> On(y, 10))
    /\ On(d, 11) <=> ~(On(c, 3) <=> On(y, 11))
    /\ On(d, 12) <=> ~(On(c, 4) <=> On(y, 12))
    /\ On(d, 13) <=> ~(On(c, 5) <=> On(y, 13))
    /\ On(d, 14) <=> ~(On(c, 6) <=> On(y, 14))
    /\ On(d, 15) <=> ~(On(c, 7) <=> On(y, 15))

Mixed(x, c, e) ==
    /\ On(x, 0) <=> ~(On(c, 8) <=> e[0] = 1)
    /\ On(x, 1) <=> ~(On(c, 9) <=> e[1] = 1)
    /\ On(x, 2) <=> ~(On(c, 10) <=> e[2] = 1)
    /\ On(x, 3) <=> ~(On(c, 11) <=> e[3] = 1)
    /\ On(x, 4) <=> ~(On(c, 12) <=> e[4] = 1)
    /\ On(x, 5) <=> ~(On(c, 13) <=> e[5] = 1)
    /\ On(x, 6) <=> ~(On(c, 14) <=> e[6] = 1)
    /\ On(x, 7) <=> ~(On(c, 15) <=> e[7] = 1)

LEMMA CrcIsDivision ==
  ASSUME NEW c, IsWord(c), NEW b, IsOctet(b),
         NEW e, \A k \in 0 .. 7 : e[k] = 1 <=> k \in BitsOf(b),
         NEW c1, c1 = DivideBit(c, e[7]),  NEW c2, c2 = DivideBit(c1, e[6]),
         NEW c3, c3 = DivideBit(c2, e[5]), NEW c4, c4 = DivideBit(c3, e[4]),
         NEW c5, c5 = DivideBit(c4, e[3]), NEW c6, c6 = DivideBit(c5, e[2]),
         NEW c7, c7 = DivideBit(c6, e[1]), NEW c8, c8 = DivideBit(c7, e[0])
  PROVE  Crc(b, c) = c8 /\ IsWord(c8)
<1> DEFINE x == Xor(Hi(c), b)
           d == Crc(b, c)
<1>1. IsOctet(x) /\ Mixed(x, c, e)
  <2>1. \A k \in 0 .. 15 : k \in BitsOf(x) <=> ~(k \in BitsOf(Hi(c)) <=> k \in BitsOf(b))
    BY XorBits
  <2>2. \A k \in 0 .. 15 : k \in BitsOf(Hi(c)) <=> (k < 8 /\ k + 8 \in BitsOf(c))
    BY HiBits
  <2>3. IsOctet(x)
    BY HiBits, XorOctet
  <2>4. QED
    BY <2>1, <2>2, <2>3 DEF Mixed, On
<1>2. IsWord(d) /\ Combined(d, c, Lut[x])
  <2>1. /\ IsWord(d)
        /\ \A k \in 0 .. 15 : k \in BitsOf(d) <=> ~(k \in BitsOf(Up(c)) <=> k \in BitsOf(Lut[x]))
    BY XorBits DEF Crc
  <2>2. \A k \in 0 .. 15 : k \in BitsOf(Up(c)) <=> (k >= 8 /\ k - 8 \in BitsOf(c))
    BY UpBits
  <2> HIDE DEF d
  <2>3. QED
    BY <2>1, <2>2 DEF Combined, On
<1> HIDE DEF x, d
<1>3. Entry(Lut[x], x)
  BY <1>1, LutBits
<1>4. IsWord(c1) /\ Step(c1, c, e[7]) /\ IsWord(c2) /\ Step(c2, c1, e[6])
  BY DivideStep
<1>5. IsWord(c3) /\ Step(c3, c2, e[5]) /\ IsWord(c4) /\ Step(c4, c3, e[4])
  BY <1>4, DivideStep
<1>6. IsWord(c5) /\ Step(c5, c4, e[3]) /\ IsWord(c6) /\ Step(c6, c5, e[2])
  BY <1>5, DivideStep
<1>7. IsWord(c7) /\ Step(c7, c6, e[1]) /\ IsWord(c8) /\ Step(c8, c7, e[0])
  BY <1>6, DivideStep
<1>b0. On(d, 0) <=> On(c8, 0)
  BY <1>1, <1>2, <1>3, <1>4, <1>5, <1>6, <1>7 DEF Step, Entry, Combined, Mixed
<1>b1. On(d, 1) <=> On(c8, 1)
  BY <1>1, <1>2, <1>3, <1>4, <1>5, <1>6, <1>7 DEF Step, Entry, Combined, Mixed
<1>b2. On(d, 2) <=> On(c8, 2)
  BY <1>1, <1>2, <1>3, <1>4, <1>5, <1>6, <1>7 DEF Step, Entry, Combined, Mixed
<1>b3. On(d, 3) <=> On(c8, 3)
  BY <1>1, <1>2, <1>3, <1>4, <1>5, <1>6, <1>7 DEF Step, Entry, Combined, Mixed
<1>b4. On(d, 4) <=> On(c8, 4)
  BY <1>1, <1>2, <1>3, <1>4, <1>5, <1>6, <1>7 DEF Step, Entry, Combined, Mixed
<1>b5. On(d, 5) <=> On(c8, 5)
  BY <1>1, <1>2, <1>3, <1>4, <1>5, <1>6, <1>7 DEF Step, Entry, Combined, Mixed
<1>b6. On(d, 6) <=> On(c8, 6)
  BY <1>1, <1>2, <1>3, <1>4, <1>5, <1>6, <1>7 DEF Step, Entry, Combined, Mixed
<1>b7. On(d, 7) <=> On(c8, 7)
  BY <1>1, <1>2, <1>3, <1>4, <1>5, <1>6, <1>7 DEF Step, Entry, Combined, Mixed
<1>b8. On(d, 8) <=> On(c8, 8)
  BY <1>1, <1>2, <1>3, <1>4, <1>5, <1>6, <1>7 DEF Step, Entry, Combined, Mixed
<1>b9. On(d, 9) <=> On(c8, 9)
  BY <1>1, <1>2, <1>3, <1>4, <1>5, <1>6, <1>7 DEF Step, Entry, Combined, Mixed
<1>b10. On(d, 10) <=> On(c8, 10)
  BY <1>1, <1>2, <1>3, <1>4, <1>5, <1>6, <1>7 DEF Step, Entry, Combined, Mixed
<1>b11. On(d, 11) <=> On(c8, 11)
  BY <1>1, <1>2, <1>3, <1>4, <1>5, <1>6, <1>7 DEF Step, Entry, Combined, Mixed
<1>b12. On(d, 12) <=> On(c8, 12)
  BY <1>1, <1>2, <1>3, <1>4, <1>5, <1>6, <1>7 DEF Step, Entry, Combined, Mixed
<1>b13. On(d, 13) <=> On(c8, 13)
  BY <1>1, <1>2, <1>3, <1>4, <1>5, <1>6, <1>7 DEF Step, Entry, Combined, Mixed
<1>b14. On(d, 14) <=> On(c8, 14)
  BY <1>1, <1>2, <1>3, <1>4, <1>5, <1>6, <1>7 DEF Step, Entry, Combined, Mixed
<1>b15. On(d, 15) <=> On(c8, 15)
  BY <1>1, <1>2, <1>3, <1>4, <1>5, <1>6, <1>7 DEF Step, Entry, Combined, Mixed
<1>8. \A k \in 0 .. 15 : k \in BitsOf(d) <=> k \in BitsOf(c8)
  BY <1>b0, <1>b1, <1>b2, <1>b3, <1>b4, <1>b5, <1>b6, <1>b7,
     <1>b8, <1>b9, <1>b10, <1>b11, <1>b12, <1>b13, <1>b14, <1>b15 DEF On
<1>9. QED
  BY <1>2, <1>7, <1>8, BitsEqual DEF d

-----------------------------------------------------------------------------
(* The register of the division as it moves over the bits of s, and the    *)
(* CRC taken octet by octet, which is in it after every eighth bit.        *)

Words == {x \in Nat : IsWord(x)}

Register(d, s, n) ==
    /\ d[0] = Preset
    /\ \A k \in 0 .. 8 * n : IsWord(d[k])
    /\ \A k \in 1 .. 8 * n : d[k] = DivideBit(d[k - 1], StreamBit(s, k))

Octal(s, n) == \A k \in 1 .. n : IsOctet(s[k])

LEMMA RegisterExists == ASSUME NEW s, NEW n \in Nat PROVE \E d : Register(d, s, n)
<1> DEFINE N == 8 * n
           step == [k \in 1 .. N |-> [c \in Words |-> DivideBit(c, StreamBit(s, k))]]
<1>1. N \in Nat
  OBVIOUS
<1>2. step \in [1 .. N -> [Words -> Words]]
  BY DivideStep DEF Words, IsWord
<1>3. Preset \in Words
  BY SMT DEF Words, IsWord, Preset
<1> HIDE DEF N, step
<1>4. PICK d \in [0 .. N -> Words] : d[0] = Preset /\ \A k \in 1 .. N : d[k] = step[k][d[k - 1]]
  BY <1>1, <1>2, <1>3, RunExists
<1>5. \A k \in 0 .. N : IsWord(d[k]) /\ d[k] \in Words
  BY <1>4 DEF Words
<1>6. \A k \in 1 .. N : d[k] = DivideBit(d[k - 1], StreamBit(s, k))
  <2> SUFFICES ASSUME NEW k \in 1 .. N PROVE d[k] = DivideBit(d[k - 1], StreamBit(s, k))
    OBVIOUS
  <2>1. k - 1 \in 0 .. N
    BY <1>1
  <2>2. step[k][d[k - 1]] = DivideBit(d[k - 1], StreamBit(s, k))
    BY <1>5, <2>1, Zenon DEF step
  <2>3. QED
    BY <1>4, <2>2, Zenon
<1>7. QED
  BY <1>4, <1>5, <1>6 DEF Register, N

LEMMA DivisionRun ==
  ASSUME NEW s, Len(s) \in Nat, NEW d, Register(d, s, Len(s))
  PROVE  Division(s) = d[8 * Len(s)]
<1> DEFINE n == 8 * Len(s)
           E(f) == [k \in 0 .. n |-> IF k = 0 THEN Preset ELSE DivideBit(f[k - 1], StreamBit(s, k))]
           r == CHOOSE f : f = E(f)
<1>n. n \in Nat
  OBVIOUS
<1>d. d[0] = Preset /\ \A k \in 1 .. n : d[k] = DivideBit(d[k - 1], StreamBit(s, k))
  BY DEF Register
<1> HIDE DEF n
<1>1. \E f : f = E(f)
  <2> DEFINE f == [k \in 0 .. n |-> d[k]]
  <2>1. \A k \in 1 .. n : k \in 0 .. n /\ k - 1 \in 0 .. n /\ k # 0
    BY <1>n
  <2>2. f = E(f)
    BY <1>n, <1>d, <2>1
  <2>3. QED
    BY <2>2
<1>2. r = E(r)
  BY <1>1, Zenon
<1>3. r[0] = Preset /\ \A k \in 1 .. n : r[k] = DivideBit(r[k - 1], StreamBit(s, k))
  <2> HIDE DEF r
  <2>1. \A f : E(f)[0] = Preset /\ \A k \in 1 .. n : E(f)[k] = DivideBit(f[k - 1], StreamBit(s, k))
    BY <1>n
  <2> HIDE DEF E
  <2>2. QED
    BY <1>2, <2>1
<1>4. r[n] = d[n]
  <2> HIDE DEF r
  <2>1. r[0] = d[0] /\ \A k \in 1 .. n : r[k - 1] = d[k - 1] => r[k] = d[k]
    BY <1>d, <1>3, Zenon
  <2>2. QED
    BY <1>n, <2>1, RunSame
<1>5. Division(s) = r[n]
  BY DEF Division, Iterate, n
<1>6. QED
  BY <1>4, <1>5 DEF n

\* Bit j of octet k is the one fed in step 8 * k - j.
LEMMA StreamBitAt ==
  ASSUME NEW s, NEW k \in Nat, k >= 1, NEW j \in 0 .. 7
  PROVE  StreamBit(s, 8 * k - j) = 1 <=> j \in BitsOf(s[k])
<1>1. (8 * k - j - 1) % 8 = 7 - j /\ (8 * k - j - 1) \div 8 = k - 1
  OBVIOUS
<1>2. 7 - ((8 * k - j - 1) % 8) = j /\ (8 * k - j - 1) \div 8 + 1 = k
  BY <1>1
<1>3. QED
  BY <1>2 DEF StreamBit

LEMMA RegisterOctet ==
  ASSUME NEW s, NEW n \in Nat, NEW d, Register(d, s, n), NEW k \in 1 .. n, IsOctet(s[k])
  PROVE  d[8 * k] = Crc(s[k], d[8 * (k - 1)])
<1> DEFINE m == 8 * k
           e == [j \in 0 .. 7 |-> StreamBit(s, m - j)]
<1>1. \A j \in 0 .. 7 : e[j] = 1 <=> j \in BitsOf(s[k])
  BY StreamBitAt
<1>2. \A j \in 0 .. 7 : m - j \in 1 .. 8 * n
  OBVIOUS
<1>3. m - 8 = 8 * (k - 1) /\ m \in Nat /\ m - 8 \in 0 .. 8 * n
  OBVIOUS
<1>4. \A j \in 0 .. 7 : d[m - j] = DivideBit(d[(m - j) - 1], e[j])
  BY <1>2 DEF Register
<1> HIDE DEF m, e
<1>5. IsWord(d[m - 8])
  BY <1>3 DEF Register
<1>6. /\ d[m - 7] = DivideBit(d[m - 8], e[7]) /\ d[m - 6] = DivideBit(d[m - 7], e[6])
      /\ d[m - 5] = DivideBit(d[m - 6], e[5]) /\ d[m - 4] = DivideBit(d[m - 5], e[4])
      /\ d[m - 3] = DivideBit(d[m - 4], e[3]) /\ d[m - 2] = DivideBit(d[m - 3], e[2])
      /\ d[m - 1] = DivideBit(d[m - 2], e[1]) /\ d[m] = DivideBit(d[m - 1], e[0])
  <2>1. /\ (m - 7) - 1 = m - 8 /\ (m - 6) - 1 = m - 7 /\ (m - 5) - 1 = m - 6
        /\ (m - 4) - 1 = m - 5 /\ (m - 3) - 1 = m - 4 /\ (m - 2) - 1 = m - 3
        /\ (m - 1) - 1 = m - 2 /\ m - 0 = m
    BY <1>3
  <2>2. QED
    BY <1>4, <2>1
<1>7. Crc(s[k], d[m - 8]) = d[m]
  BY <1>1, <1>5, <1>6, CrcIsDivision
<1>8. QED
  BY <1>3, <1>7 DEF m

\* The octets between i and i + m move the register on by 8 * m bits.
LEMMA OctetwiseIs ==
  ASSUME NEW s, NEW n \in Nat, NEW d, Register(d, s, n), Octal(s, n),
         NEW i \in Nat, NEW m \in Nat, i + m <= n
  PROVE  Octetwise(d[8 * i], s, i, m) = d[8 * (i + m)]
<1> DEFINE g == [k \in 0 .. m |-> d[8 * (i + k)]]
<1>1. g[0] = d[8 * i]
  OBVIOUS
<1>2. ASSUME NEW k \in 1 .. m PROVE g[k] = Crc(s[i + k], g[k - 1])
  <2>1. i + k \in 1 .. n /\ k \in 0 .. m /\ k - 1 \in 0 .. m /\ (i + k) - 1 = i + (k - 1)
    OBVIOUS
  <2>2. d[8 * (i + k)] = Crc(s[i + k], d[8 * ((i + k) - 1)])
    BY <2>1, RegisterOctet DEF Octal
  <2>3. QED
    BY <2>1, <2>2
<1>3. g[m] = d[8 * (i + m)]
  OBVIOUS
<1> HIDE DEF g
<1>4. Octetwise(g[0], s, i, m) = g[m]
  BY <1>2, OctetwiseRun
<1>5. QED
  BY <1>1, <1>3, <1>4, Zenon

-----------------------------------------------------------------------------
(* The sliced versions.  The table is linear, so a word of octets is the   *)
(* sum of what each of its octets becomes with the later ones zero.        *)

LEMMA XorWord == ASSUME NEW x, NEW y PROVE IsWord(Xor(x, y))
BY XorBits

LEMMA XorZero == ASSUME NEW x, IsWord(x) PROVE Xor(x, 0) = x
<1>1. Num({}) = 0
  BY DEF Num
<1>2. \A k \in 0 .. 15 : ~(k \in BitsOf(0))
  BY <1>1, BitsOfNum
<1>3. \A k \in 0 .. 15 : k \in BitsOf(Xor(x, 0)) <=> k \in BitsOf(x)
  BY <1>2, XorBits, Zenon
<1>4. QED
  BY <1>3, XorWord, BitsEqual

LEMMA XorSwap == ASSUME NEW x, NEW y PROVE Xor(x, y) = Xor(y, x)
<1>1. \A k \in 0 .. 15 : k \in BitsOf(Xor(x, y)) <=> k \in BitsOf(Xor(y, x))
  BY XorBits, Zenon
<1>2. QED
  BY <1>1, XorWord, BitsEqual

LEMMA XorAssoc == ASSUME NEW x, NEW y, NEW z PROVE Xor(Xor(x, y), z) = Xor(x, Xor(y, z))
<1> DEFINE l == Xor(Xor(x, y), z)
           r == Xor(x, Xor(y, z))
<1>1. \A k \in 0 .. 15 : k \in BitsOf(l) <=> k \in BitsOf(r)
  <2> SUFFICES ASSUME NEW k \in 0 .. 15 PROVE k \in BitsOf(l) <=> k \in BitsOf(r)
    OBVIOUS
  <2>1. k \in BitsOf(l) <=> ~(k \in BitsOf(Xor(x, y)) <=> k \in BitsOf(z))
    BY XorBits
  <2>2. k \in BitsOf(r) <=> ~(k \in BitsOf(x) <=> k \in BitsOf(Xor(y, z)))
    BY XorBits
  <2>3. k \in BitsOf(Xor(x, y)) <=> ~(k \in BitsOf(x) <=> k \in BitsOf(y))
    BY XorBits
  <2>4. k \in BitsOf(Xor(y, z)) <=> ~(k \in BitsOf(y) <=> k \in BitsOf(z))
    BY XorBits
  <2>5. QED
    BY <2>1, <2>2, <2>3, <2>4
<1>2. IsWord(l) /\ IsWord(r)
  BY XorWord
<1>3. QED
  BY <1>1, <1>2, BitsEqual

\* Two sums added pairwise.
LEMMA XorPairs ==
  ASSUME NEW p, NEW q, NEW x, NEW y
  PROVE  Xor(Xor(p, q), Xor(x, y)) = Xor(Xor(p, x), Xor(q, y))
<1>1. Xor(Xor(p, q), Xor(x, y)) = Xor(p, Xor(q, Xor(x, y)))
  BY XorAssoc
<1>2. Xor(q, Xor(x, y)) = Xor(Xor(x, y), q)
  BY XorSwap
<1>3. Xor(Xor(x, y), q) = Xor(x, Xor(y, q))
  BY XorAssoc
<1>4. Xor(y, q) = Xor(q, y)
  BY XorSwap
<1>5. Xor(p, Xor(x, Xor(q, y))) = Xor(Xor(p, x), Xor(q, y))
  BY XorAssoc
<1>6. QED
  BY <1>1, <1>2, <1>3, <1>4, <1>5, Zenon

LEMMA LutLinear ==
  ASSUME NEW i, IsOctet(i), NEW j, IsOctet(j)
  PROVE  Lut[Xor(i, j)] = Xor(Lut[i], Lut[j])
<1> DEFINE x == Xor(i, j)
           y == Xor(Lut[i], Lut[j])
<1>1. IsOctet(x) /\ IsWord(y)
  BY XorOctet, XorWord
<1>2. \A k \in 0 .. 15 : On(x, k) <=> ~(On(i, k) <=> On(j, k))
  BY XorBits DEF On
<1>3. \A k \in 0 .. 15 : On(y, k) <=> ~(On(Lut[i], k) <=> On(Lut[j], k))
  BY XorBits DEF On
<1> HIDE DEF x, y
<1>4. IsWord(Lut[x]) /\ Entry(Lut[x], x) /\ Entry(Lut[i], i) /\ Entry(Lut[j], j)
  BY <1>1, LutBits
<1>5. ASSUME NEW k \in 0 .. 15 PROVE On(Lut[x], k) <=> On(y, k)
  <2>1. CASE k \in 0 .. 7
    BY <1>2, <1>3, <1>4, <2>1 DEF Entry
  <2>2. CASE k \in 8 .. 15
    BY <1>2, <1>3, <1>4, <2>2 DEF Entry
  <2>3. QED
    BY <2>1, <2>2
<1>6. Lut[x] = y
  BY <1>1, <1>4, <1>5, BitsEqual DEF On
<1>7. QED
  BY <1>6 DEF x, y

LEMMA HiLinear ==
  ASSUME NEW x, NEW y, IsWord(x), IsWord(y)
  PROVE  Hi(Xor(x, y)) = Xor(Hi(x), Hi(y))
<1> DEFINE l == Hi(Xor(x, y))
           r == Xor(Hi(x), Hi(y))
<1>1. \A k \in 0 .. 15 : k \in BitsOf(l) <=> (k < 8 /\ k + 8 \in BitsOf(Xor(x, y)))
  BY HiBits, XorWord
<1>2. \A k \in 0 .. 15 : k \in BitsOf(r) <=> ~(k \in BitsOf(Hi(x)) <=> k \in BitsOf(Hi(y)))
  BY XorBits
<1>3. \A k \in 0 .. 15 : /\ k \in BitsOf(Hi(x)) <=> (k < 8 /\ k + 8 \in BitsOf(x))
                         /\ k \in BitsOf(Hi(y)) <=> (k < 8 /\ k + 8 \in BitsOf(y))
  BY HiBits
<1>4. \A k \in 0 .. 15 : k < 8 => (k + 8 \in BitsOf(Xor(x, y)) <=> ~(k + 8 \in BitsOf(x) <=> k + 8 \in BitsOf(y)))
  <2>1. \A k \in 0 .. 15 : k < 8 => k + 8 \in 0 .. 15
    OBVIOUS
  <2>2. QED
    BY <2>1, XorBits
<1>5. IsWord(l) /\ IsWord(r)
  BY HiBits, OctetIsWord, XorWord
<1> HIDE DEF l, r
<1>6. \A k \in 0 .. 15 : k \in BitsOf(l) <=> k \in BitsOf(r)
  BY <1>1, <1>2, <1>3, <1>4, Zenon
<1>7. l = r
  BY <1>5, <1>6, BitsEqual
<1>8. QED
  BY <1>7 DEF l, r

LEMMA UpLinear ==
  ASSUME NEW x, NEW y, IsWord(x), IsWord(y)
  PROVE  Up(Xor(x, y)) = Xor(Up(x), Up(y))
<1> DEFINE l == Up(Xor(x, y))
           r == Xor(Up(x), Up(y))
<1>1. \A k \in 0 .. 15 : k \in BitsOf(l) <=> (k >= 8 /\ k - 8 \in BitsOf(Xor(x, y)))
  BY UpBits, XorWord
<1>2. \A k \in 0 .. 15 : k \in BitsOf(r) <=> ~(k \in BitsOf(Up(x)) <=> k \in BitsOf(Up(y)))
  BY XorBits
<1>3. \A k \in 0 .. 15 : /\ k \in BitsOf(Up(x)) <=> (k >= 8 /\ k - 8 \in BitsOf(x))
                         /\ k \in BitsOf(Up(y)) <=> (k >= 8 /\ k - 8 \in BitsOf(y))
  BY UpBits
<1>4. \A k \in 0 .. 15 : k >= 8 => (k - 8 \in BitsOf(Xor(x, y)) <=> ~(k - 8 \in BitsOf(x) <=> k - 8 \in BitsOf(y)))
  <2>1. \A k \in 0 .. 15 : k >= 8 => k - 8 \in 0 .. 15
    OBVIOUS
  <2>2. QED
    BY <2>1, XorBits
<1>5. IsWord(l) /\ IsWord(r)
  BY UpBits, XorWord
<1> HIDE DEF l, r
<1>6. \A k \in 0 .. 15 : k \in BitsOf(l) <=> k \in BitsOf(r)
  BY <1>1, <1>2, <1>3, <1>4, Zenon
<1>7. l = r
  BY <1>5, <1>6, BitsEqual
<1>8. QED
  BY <1>7 DEF l, r

LEMMA ZeroOctetWord == ASSUME NEW x PROVE IsWord(ZeroOctet(x))
BY XorWord DEF ZeroOctet

LEMMA ZeroOctetLinear ==
  ASSUME NEW x, NEW y, IsWord(x), IsWord(y)
  PROVE  ZeroOctet(Xor(x, y)) = Xor(ZeroOctet(x), ZeroOctet(y))
<1>1. IsOctet(Hi(x)) /\ IsOctet(Hi(y))
  BY HiBits
<1>2. Hi(Xor(x, y)) = Xor(Hi(x), Hi(y)) /\ Up(Xor(x, y)) = Xor(Up(x), Up(y))
  BY HiLinear, UpLinear
<1>3. Lut[Xor(Hi(x), Hi(y))] = Xor(Lut[Hi(x)], Lut[Hi(y)])
  BY <1>1, LutLinear
<1>4. Xor(Xor(Lut[Hi(x)], Lut[Hi(y)]), Xor(Up(x), Up(y)))
        = Xor(Xor(Lut[Hi(x)], Up(x)), Xor(Lut[Hi(y)], Up(y)))
  BY XorPairs
<1>5. QED
  BY <1>2, <1>3, <1>4 DEF ZeroOctet

\* crc16 in terms of the zero octet
LEMMA CrcSum ==
  ASSUME NEW c, IsWord(c), NEW b, IsOctet(b)
  PROVE  Crc(b, c) = Xor(ZeroOctet(c), Lut[b])
<1>1. Lut[Xor(Hi(c), b)] = Xor(Lut[Hi(c)], Lut[b])
  BY HiBits, LutLinear
<1>2. Xor(Up(c), Xor(Lut[Hi(c)], Lut[b])) = Xor(Xor(Up(c), Lut[Hi(c)]), Lut[b])
  BY XorAssoc
<1>3. Xor(Up(c), Lut[Hi(c)]) = Xor(Lut[Hi(c)], Up(c))
  BY XorSwap
<1>4. QED
  BY <1>1, <1>2, <1>3, Zenon DEF Crc, ZeroOctet

\* Two octets on, the octets of c itself are indices of the table.
LEMMA ZeroOctetTwice ==
  ASSUME NEW c, IsWord(c)
  PROVE  ZeroOctet(ZeroOctet(c)) = Xor(ZeroOctet(Lut[Hi(c)]), Lut[c % 256])
<1>1. Hi(Up(c)) = c % 256 /\ Up(Up(c)) = 0
  BY SMT DEF Hi, Up, IsWord
<1>2. IsOctet(c % 256) /\ IsOctet(Hi(c)) /\ IsWord(Up(c))
  BY LoBits, HiBits, UpBits
<1>3. IsWord(Lut[c % 256]) /\ IsWord(Lut[Hi(c)])
  BY <1>2, LutBits
<1>4. ZeroOctet(Up(c)) = Lut[c % 256]
  BY <1>1, <1>3, XorZero DEF ZeroOctet
<1>5. ZeroOctet(Xor(Lut[Hi(c)], Up(c))) = Xor(ZeroOctet(Lut[Hi(c)]), ZeroOctet(Up(c)))
  BY <1>2, <1>3, ZeroOctetLinear
<1>6. QED
  BY <1>4, <1>5 DEF ZeroOctet

\* The rows of the sliced table: each is the one before, one zero octet on.
LEMMA SlicedRows ==
  /\ Sliced[0] = Lut
  /\ \A k \in 1 .. 7 : \A i \in 0 .. 255 : Sliced[k][i] = ZeroOctet(Sliced[k - 1][i])
<1> DEFINE Rows == [0 .. 255 -> Words]
           step == [k \in 1 .. 7 |-> [t \in Rows |-> [i \in 0 .. 255 |-> ZeroOctet(t[i])]]]
           E(f) == [k \in 0 .. Slices - 1 |->
                       IF k = 0 THEN Lut ELSE [i \in 0 .. 255 |-> ZeroOctet(f[k - 1][i])]]
<1>1. Lut \in Rows
  <2>1. \A i \in 0 .. 255 : IsOctet(i)
    BY DEF IsOctet
  <2>2. \A i \in 0 .. 255 : Lut[i] \in Words
    BY <2>1, LutBits DEF Words, IsWord
  <2>3. Lut = [i \in 0 .. 255 |-> Lut[i]]
    BY DEF Lut
  <2>4. QED
    BY <2>2, <2>3
<1>2. step \in [1 .. 7 -> [Rows -> Rows]]
  <2>1. \A x : ZeroOctet(x) \in Words
    BY ZeroOctetWord DEF Words, IsWord
  <2>2. \A t : [i \in 0 .. 255 |-> ZeroOctet(t[i])] \in Rows
    BY <2>1, Zenon
  <2> HIDE DEF Rows
  <2>3. \A k \in 1 .. 7 : [t \in Rows |-> [i \in 0 .. 255 |-> ZeroOctet(t[i])]] \in [Rows -> Rows]
    BY <2>2, Zenon
  <2>4. QED
    BY <2>3, Zenon
<1>3. PICK f \in [0 .. 7 -> Rows] : f[0] = Lut /\ \A k \in 1 .. 7 : f[k] = step[k][f[k - 1]]
  <2> DEFINE N == 7
  <2>1. N \in Nat /\ step \in [1 .. N -> [Rows -> Rows]]
    BY <1>2
  <2> HIDE DEF step, Rows, N
  <2>2. \E f \in [0 .. N -> Rows] : f[0] = Lut /\ \A k \in 1 .. N : f[k] = step[k][f[k - 1]]
    BY <1>1, <2>1, RunExists
  <2>3. QED
    BY <2>2 DEF N
<1>4. f = E(f)
  <2>1. \A k \in 1 .. 7 : f[k] = [i \in 0 .. 255 |-> ZeroOctet(f[k - 1][i])]
    <3> SUFFICES ASSUME NEW k \in 1 .. 7 PROVE f[k] = [i \in 0 .. 255 |-> ZeroOctet(f[k - 1][i])]
      OBVIOUS
    <3> HIDE DEF Rows
    <3>1. k - 1 \in 0 .. 7
      OBVIOUS
    <3>2. f[k - 1] \in Rows
      BY <3>1
    <3>3. step[k][f[k - 1]] = [i \in 0 .. 255 |-> ZeroOctet(f[k - 1][i])]
      BY <3>2, Zenon
    <3>4. QED
      BY <1>3, <3>3, Zenon
  <2>2. \A k \in 0 .. 7 : f[k] = IF k = 0 THEN Lut ELSE [i \in 0 .. 255 |-> ZeroOctet(f[k - 1][i])]
    <3>1. \A k \in 0 .. 7 : k # 0 => k \in 1 .. 7
      OBVIOUS
    <3>2. QED
      BY <1>3, <2>1, <3>1, Zenon
  <2>3. 0 .. Slices - 1 = 0 .. 7
    BY DEF Slices
  <2>4. f = [k \in 0 .. 7 |-> f[k]]
    OBVIOUS
  <2>5. QED
    BY <2>2, <2>3, <2>4, Zenon
<1>5. Sliced = E(Sliced)
  <2>1. Sliced = CHOOSE g : g = E(g)
    BY DEF Sliced
  <2> HIDE DEF E
  <2>2. QED
    BY <1>4, <2>1, Zenon
<1> DEFINE T == E(Sliced)
<1>6. /\ T[0] = Lut
      /\ \A k \in 1 .. 7 : T[k] = [i \in 0 .. 255 |-> ZeroOctet(Sliced[k - 1][i])]
  <2>1. 0 \in 0 .. Slices - 1 /\ \A k \in 1 .. 7 : k \in 0 .. Slices - 1 /\ k # 0
    BY DEF Slices
  <2>2. QED
    BY <2>1, Zenon
<1>7. \A k : Sliced[k] = T[k]
  <2>1. Sliced = T
    BY <1>5
  <2> HIDE DEF T
  <2>2. QED
    BY <2>1, Zenon
<1> HIDE DEF T
<1>8. Sliced[0] = Lut
  BY <1>6, <1>7, Zenon
<1>9. ASSUME NEW k \in 1 .. 7, NEW i \in 0 .. 255 PROVE Sliced[k][i] = ZeroOctet(Sliced[k - 1][i])
  <2>1. T[k] = [j \in 0 .. 255 |-> ZeroOctet(Sliced[k - 1][j])] /\ Sliced[k] = T[k]
    BY <1>6, <1>7
  <2>2. QED
    BY <2>1
<1>10. QED
  BY <1>8, <1>9

Pad1(x) == ZeroOctet(x)
Pad2(x) == Pad1(Pad1(x))
Pad3(x) == Pad1(Pad2(x))
Pad4(x) == Pad1(Pad3(x))
Pad5(x) == Pad1(Pad4(x))
Pad6(x) == Pad1(Pad5(x))

LEMMA RowWord == ASSUME NEW k \in 0 .. 7, NEW i, IsOctet(i) PROVE IsWord(Sliced[k][i])
<1>1. i \in 0 .. 255
  BY DEF IsOctet
<1>2. CASE k = 0
  BY <1>2, LutBits, SlicedRows
<1>3. CASE k # 0
  <2>1. k \in 1 .. 7
    BY <1>3
  <2>2. Sliced[k][i] = ZeroOctet(Sliced[k - 1][i])
    BY <1>1, <2>1, SlicedRows, Zenon
  <2>3. QED
    BY <2>2, ZeroOctetWord, Zenon
<1>4. QED
  BY <1>2, <1>3

\* A zero octet moves an entry to the next row.
LEMMA RowNext ==
  ASSUME NEW i, IsOctet(i)
  PROVE  /\ Sliced[0][i] = Lut[i]         /\ Sliced[1][i] = Pad1(Sliced[0][i])
         /\ Sliced[2][i] = Pad1(Sliced[1][i]) /\ Sliced[3][i] = Pad1(Sliced[2][i])
         /\ Sliced[4][i] = Pad1(Sliced[3][i]) /\ Sliced[5][i] = Pad1(Sliced[4][i])
         /\ Sliced[6][i] = Pad1(Sliced[5][i]) /\ Sliced[7][i] = Pad1(Sliced[6][i])
<1>1. i \in 0 .. 255
  BY DEF IsOctet
<1>2. \A k \in 1 .. 7 : Sliced[k][i] = ZeroOctet(Sliced[k - 1][i])
  BY <1>1, SlicedRows
<1>3. /\ 1 \in 1 .. 7 /\ 1 - 1 = 0 /\ 2 \in 1 .. 7 /\ 2 - 1 = 1 /\ 3 \in 1 .. 7 /\ 3 - 1 = 2
      /\ 4 \in 1 .. 7 /\ 4 - 1 = 3 /\ 5 \in 1 .. 7 /\ 5 - 1 = 4 /\ 6 \in 1 .. 7 /\ 6 - 1 = 5
      /\ 7 \in 1 .. 7 /\ 7 - 1 = 6
  OBVIOUS
<1>4. Sliced[0][i] = Lut[i]
  BY SlicedRows, Zenon
<1>5. QED
  BY <1>2, <1>3, <1>4, Zenon DEF Pad1

\* An entry m rows up is added before m zero octets or after them.
LEMMA RowShift ==
  ASSUME NEW y, IsWord(y), NEW i, IsOctet(i)
  PROVE  /\ Xor(Pad1(y), Sliced[1][i]) = Pad1(Xor(y, Sliced[0][i]))
         /\ Xor(Pad2(y), Sliced[2][i]) = Pad2(Xor(y, Sliced[0][i]))
         /\ Xor(Pad3(y), Sliced[3][i]) = Pad3(Xor(y, Sliced[0][i]))
         /\ Xor(Pad4(y), Sliced[4][i]) = Pad4(Xor(y, Sliced[0][i]))
         /\ Xor(Pad5(y), Sliced[5][i]) = Pad5(Xor(y, Sliced[0][i]))
         /\ Xor(Pad6(y), Sliced[6][i]) = Pad6(Xor(y, Sliced[0][i]))
<1>w. /\ IsWord(Sliced[0][i]) /\ IsWord(Sliced[1][i]) /\ IsWord(Sliced[2][i])
      /\ IsWord(Sliced[3][i]) /\ IsWord(Sliced[4][i]) /\ IsWord(Sliced[5][i])
  BY RowWord
<1>z. IsWord(Pad1(y)) /\ IsWord(Pad2(y)) /\ IsWord(Pad3(y)) /\ IsWord(Pad4(y)) /\ IsWord(Pad5(y))
  BY ZeroOctetWord DEF Pad1, Pad2, Pad3, Pad4, Pad5
<1>l. \A p, q : IsWord(p) /\ IsWord(q) => Xor(Pad1(p), Pad1(q)) = Pad1(Xor(p, q))
  BY ZeroOctetLinear DEF Pad1
<1>1. Xor(Pad1(y), Sliced[1][i]) = Pad1(Xor(y, Sliced[0][i]))
  BY <1>w, <1>l, RowNext
<1>2. Xor(Pad2(y), Sliced[2][i]) = Pad2(Xor(y, Sliced[0][i]))
  BY <1>w, <1>z, <1>l, <1>1, RowNext DEF Pad2
<1>3. Xor(Pad3(y), Sliced[3][i]) = Pad3(Xor(y, Sliced[0][i]))
  BY <1>w, <1>z, <1>l, <1>2, RowNext DEF Pad3
<1>4. Xor(Pad4(y), Sliced[4][i]) = Pad4(Xor(y, Sliced[0][i]))
  BY <1>w, <1>z, <1>l, <1>3, RowNext DEF Pad4
<1>5. Xor(Pad5(y), Sliced[5][i]) = Pad5(Xor(y, Sliced[0][i]))
  BY <1>w, <1>z, <1>l, <1>4, RowNext DEF Pad5
<1>6. Xor(Pad6(y), Sliced[6][i]) = Pad6(Xor(y, Sliced[0][i]))
  BY <1>w, <1>z, <1>l, <1>5, RowNext DEF Pad6
<1>7. QED
  BY <1>1, <1>2, <1>3, <1>4, <1>5, <1>6

\* The first two octets of a word, with c in their indices, m octets before the end.
LEMMA FirstTwo ==
  ASSUME NEW c, IsWord(c), NEW o1, IsOctet(o1), NEW o2, IsOctet(o2)
  PROVE  LET i1 == Xor(o1, Hi(c))
             i2 == Xor(o2, c % 256)
             c2 == Crc(o2, Crc(o1, c))
         IN  /\ IsWord(c2)
             /\ Xor(Sliced[1][i1], Sliced[0][i2]) = c2
             /\ Xor(Sliced[3][i1], Sliced[2][i2]) = Pad2(c2)
             /\ Xor(Sliced[7][i1], Sliced[6][i2]) = Pad6(c2)
<1> DEFINE i1 == Xor(o1, Hi(c))
           i2 == Xor(o2, c % 256)
           lo == c % 256
           c1 == Crc(o1, c)
           c2 == Crc(o2, c1)
<1>1. IsOctet(Hi(c)) /\ IsOctet(lo) /\ IsOctet(i1) /\ IsOctet(i2)
  BY HiBits, LoBits, XorOctet
<1>2. Lut[i1] = Xor(Lut[o1], Lut[Hi(c)]) /\ Lut[i2] = Xor(Lut[o2], Lut[lo])
  BY <1>1, LutLinear
<1>3. IsWord(Lut[o1]) /\ IsWord(Lut[o2]) /\ IsWord(Lut[Hi(c)]) /\ IsWord(Lut[lo])
  BY <1>1, LutBits
<1>4. c1 = Xor(Pad1(c), Lut[o1])
  BY CrcSum DEF Pad1
<1>5. IsWord(c1)
  BY <1>4, XorWord
<1>6. c2 = Xor(Pad1(c1), Lut[o2])
  BY <1>5, CrcSum DEF Pad1
<1>7. Pad1(Pad1(c)) = Xor(Pad1(Lut[Hi(c)]), Lut[lo])
  BY ZeroOctetTwice DEF Pad1
<1> HIDE DEF i1, i2, lo, c1, c2
<1>8. \A p, q : IsWord(p) /\ IsWord(q) => Pad1(Xor(p, q)) = Xor(Pad1(p), Pad1(q))
  BY ZeroOctetLinear DEF Pad1
<1>9. Pad1(c1) = Xor(Xor(Pad1(Lut[Hi(c)]), Lut[lo]), Pad1(Lut[o1]))
  <2>1. IsWord(Pad1(c))
    BY ZeroOctetWord DEF Pad1
  <2>2. QED
    BY <1>3, <1>4, <1>7, <1>8, <2>1
<1>10. Sliced[1][i1] = Xor(Pad1(Lut[o1]), Pad1(Lut[Hi(c)])) /\ Sliced[0][i2] = Xor(Lut[o2], Lut[lo])
  <2>1. Sliced[1][i1] = Pad1(Lut[i1]) /\ Sliced[0][i2] = Lut[i2]
    BY <1>1, RowNext
  <2>2. QED
    BY <1>2, <1>3, <1>8, <2>1
<1>11. Xor(Sliced[1][i1], Sliced[0][i2]) = c2
  <2> DEFINE p == Pad1(Lut[o1])
             h == Pad1(Lut[Hi(c)])
             l == Lut[lo]
             q == Lut[o2]
  <2>1. Sliced[1][i1] = Xor(p, h) /\ Sliced[0][i2] = Xor(q, l) /\ c2 = Xor(Xor(Xor(h, l), p), q)
    BY <1>6, <1>9, <1>10
  <2> HIDE DEF p, h, l, q
  <2>2. Xor(p, h) = Xor(h, p) /\ Xor(q, l) = Xor(l, q)
    BY XorSwap
  <2>3. Xor(Xor(h, p), Xor(l, q)) = Xor(Xor(h, l), Xor(p, q))
    BY XorPairs
  <2>4. Xor(Xor(h, l), Xor(p, q)) = Xor(Xor(Xor(h, l), p), q)
    BY XorAssoc
  <2>5. QED
    BY <2>1, <2>2, <2>3, <2>4, Zenon
<1>12. IsWord(c2) /\ IsWord(Sliced[1][i1])
  BY <1>1, <1>6, XorWord, RowWord
<1>13. Sliced[3][i1] = Pad2(Sliced[1][i1]) /\ Sliced[7][i1] = Pad6(Sliced[1][i1])
  BY <1>1, RowNext DEF Pad2, Pad3, Pad4, Pad5, Pad6
<1>14. /\ Xor(Pad2(Sliced[1][i1]), Sliced[2][i2]) = Pad2(Xor(Sliced[1][i1], Sliced[0][i2]))
       /\ Xor(Pad6(Sliced[1][i1]), Sliced[6][i2]) = Pad6(Xor(Sliced[1][i1], Sliced[0][i2]))
  BY <1>1, <1>12, RowShift
<1>15. QED
  BY <1>11, <1>12, <1>13, <1>14, Zenon DEF i1, i2, c1, c2, lo

\* A further octet of a word, with none, one, ... five more after it.
LEMMA FurtherOctet ==
  ASSUME NEW c, IsWord(c), NEW b, IsOctet(b)
  PROVE  LET d == Crc(b, c)
         IN  /\ IsWord(d)
             /\ Xor(Pad1(c), Sliced[0][b]) = d
             /\ Xor(Pad2(c), Sliced[1][b]) = Pad1(d)
             /\ Xor(Pad3(c), Sliced[2][b]) = Pad2(d)
             /\ Xor(Pad4(c), Sliced[3][b]) = Pad3(d)
             /\ Xor(Pad5(c), Sliced[4][b]) = Pad4(d)
             /\ Xor(Pad6(c), Sliced[5][b]) = Pad5(d)
<1> DEFINE d == Crc(b, c)
           y == Pad1(c)
<1>1. d = Xor(y, Sliced[0][b])
  BY CrcSum, RowNext DEF Pad1
<1>2. IsWord(y) /\ IsWord(d)
  BY <1>1, ZeroOctetWord, XorWord DEF Pad1
<1>3. Pad2(c) = Pad1(y) /\ Pad3(c) = Pad2(y) /\ Pad4(c) = Pad3(y) /\ Pad5(c) = Pad4(y) /\ Pad6(c) = Pad5(y)
  BY DEF Pad2, Pad3, Pad4, Pad5, Pad6
<1> HIDE DEF d, y
<1>4. QED
  BY <1>1, <1>2, <1>3, RowShift DEF d, y

LEMMA WordIs ==
  ASSUME NEW s, NEW n \in Nat, NEW d, Register(d, s, n), Octal(s, n),
         NEW i \in Nat, NEW w \in {2, 4, 8}, i + w <= n
  PROVE  Word(w, d[8 * i], s, i) = d[8 * (i + w)]
<1> DEFINE o(j) == s[i + j]
           c(j) == d[8 * (i + j)]
           i1 == Xor(o(1), Hi(c(0)))
           i2 == Xor(o(2), c(0) % 256)
<1>1. ASSUME NEW j \in 1 .. w PROVE IsOctet(o(j)) /\ c(j) = Crc(o(j), c(j - 1))
  <2>1. i + j \in 1 .. n /\ (i + j) - 1 = i + (j - 1)
    OBVIOUS
  <2>2. QED
    BY <2>1, RegisterOctet DEF Octal
<1>2. IsWord(c(0)) /\ c(0) = d[8 * i]
  <2>1. i + 0 = i /\ 8 * i \in 0 .. 8 * n
    OBVIOUS
  <2>2. QED
    BY <2>1 DEF Register
<1>3. IsOctet(o(1)) /\ IsOctet(o(2)) /\ c(1) = Crc(o(1), c(0)) /\ c(2) = Crc(o(2), c(1))
  <2>1. 1 \in 1 .. w /\ 2 \in 1 .. w /\ 1 - 1 = 0 /\ 2 - 1 = 1
    OBVIOUS
  <2> HIDE DEF o, c
  <2>2. QED
    BY <1>1, <2>1
<1>4. w \in {4, 8} => IsOctet(o(3)) /\ IsOctet(o(4)) /\ c(3) = Crc(o(3), c(2)) /\ c(4) = Crc(o(4), c(3))
  <2>1. w \in {4, 8} => 3 \in 1 .. w /\ 4 \in 1 .. w /\ 3 - 1 = 2 /\ 4 - 1 = 3
    OBVIOUS
  <2> HIDE DEF o, c
  <2>2. QED
    BY <1>1, <2>1
<1>5. w = 8 => /\ IsOctet(o(5)) /\ IsOctet(o(6)) /\ c(5) = Crc(o(5), c(4)) /\ c(6) = Crc(o(6), c(5))
               /\ IsOctet(o(7)) /\ IsOctet(o(8)) /\ c(7) = Crc(o(7), c(6)) /\ c(8) = Crc(o(8), c(7))
  <2>1. w = 8 => /\ 5 \in 1 .. w /\ 6 \in 1 .. w /\ 5 - 1 = 4 /\ 6 - 1 = 5
                 /\ 7 \in 1 .. w /\ 8 \in 1 .. w /\ 7 - 1 = 6 /\ 8 - 1 = 7
    OBVIOUS
  <2> HIDE DEF o, c
  <2>2. QED
    BY <1>1, <2>1
<1>6. CASE w = 2
  <2>1. Word(w, d[8 * i], s, i) = Xor(Sliced[2 - 1][i1], Sliced[2 - 2][i2])
    BY <1>2, <1>6 DEF Word
  <2>2. 2 - 1 = 1 /\ 2 - 2 = 0
    OBVIOUS
  <2> HIDE DEF o, c, i1, i2
  <2>3. Xor(Sliced[1][i1], Sliced[0][i2]) = c(2)
    BY <1>2, <1>3, FirstTwo DEF i1, i2
  <2>4. QED
    BY <1>6, <2>1, <2>2, <2>3 DEF c
<1>7. CASE w = 4
  <2>1. Word(w, d[8 * i], s, i)
          = Xor(Xor(Xor(Sliced[4 - 1][i1], Sliced[4 - 2][i2]), Sliced[4 - 3][o(3)]), Sliced[4 - 4][o(4)])
    BY <1>2, <1>7 DEF Word
  <2>2. 4 - 1 = 3 /\ 4 - 2 = 2 /\ 4 - 3 = 1 /\ 4 - 4 = 0
    OBVIOUS
  <2> HIDE DEF o, c, i1, i2
  <2>3. IsWord(c(2)) /\ Xor(Sliced[3][i1], Sliced[2][i2]) = Pad2(c(2))
    BY <1>2, <1>3, FirstTwo DEF i1, i2
  <2>4. IsWord(c(3)) /\ Xor(Pad2(c(2)), Sliced[1][o(3)]) = Pad1(c(3))
    BY <1>4, <1>7, <2>3, FurtherOctet
  <2>5. Xor(Pad1(c(3)), Sliced[0][o(4)]) = c(4)
    BY <1>4, <1>7, <2>4, FurtherOctet
  <2>6. QED
    BY <1>7, <2>1, <2>2, <2>3, <2>4, <2>5 DEF c
<1>8. CASE w = 8
  <2>1. Word(w, d[8 * i], s, i)
          = Xor(Xor(Xor(Xor(Xor(Xor(Xor(Sliced[8 - 1][i1], Sliced[8 - 2][i2]), Sliced[8 - 3][o(3)]),
                                Sliced[8 - 4][o(4)]), Sliced[8 - 5][o(5)]), Sliced[8 - 6][o(6)]),
                    Sliced[8 - 7][o(7)]), Sliced[8 - 8][o(8)])
    BY <1>2, <1>8 DEF Word
  <2>2. 8 - 1 = 7 /\ 8 - 2 = 6 /\ 8 - 3 = 5 /\ 8 - 4 = 4 /\ 8 - 5 = 3 /\ 8 - 6 = 2 /\ 8 - 7 = 1 /\ 8 - 8 = 0
    OBVIOUS
  <2> HIDE DEF o, c, i1, i2
  <2>3. IsWord(c(2)) /\ Xor(Sliced[7][i1], Sliced[6][i2]) = Pad6(c(2))
    BY <1>2, <1>3, FirstTwo DEF i1, i2
  <2>4. IsWord(c(3)) /\ Xor(Pad6(c(2)), Sliced[5][o(3)]) = Pad5(c(3))
    BY <1>4, <1>8, <2>3, FurtherOctet
  <2>5. IsWord(c(4)) /\ Xor(Pad5(c(3)), Sliced[4][o(4)]) = Pad4(c(4))
    BY <1>4, <1>8, <2>4, FurtherOctet
  <2>6. IsWord(c(5)) /\ Xor(Pad4(c(4)), Sliced[3][o(5)]) = Pad3(c(5))
    BY <1>5, <1>8, <2>5, FurtherOctet
  <2>7. IsWord(c(6)) /\ Xor(Pad3(c(5)), Sliced[2][o(6)]) = Pad2(c(6))
    BY <1>5, <1>8, <2>6, FurtherOctet
  <2>8. IsWord(c(7)) /\ Xor(Pad2(c(6)), Sliced[1][o(7)]) = Pad1(c(7))
    BY <1>5, <1>8, <2>7, FurtherOctet
  <2>9. Xor(Pad1(c(7)), Sliced[0][o(8)]) = c(8)
    BY <1>5, <1>8, <2>8, FurtherOctet
  <2>10. QED
    BY <1>8, <2>1, <2>2, <2>3, <2>4, <2>5, <2>6, <2>7, <2>8, <2>9 DEF c
<1>9. QED
  BY <1>6, <1>7, <1>8

\* m words from octet h on.
Place(h, k, w) == h + (k - 1) * w

\* g[k] is the CRC after k words
Moves(g, w, s, h, m) == \A k \in 1 .. m : g[k] = Word(w, g[k - 1], s, Place(h, k, w))

LEMMA WordsRun ==
  ASSUME NEW s, NEW w, NEW h, NEW m \in Nat, NEW g, Moves(g, w, s, h, m)
  PROVE  Wordwise(w, g[0], s, h, m) = g[m]
<1> USE DEF Moves
<1> DEFINE E(f) == [k \in 0 .. m |-> IF k = 0 THEN g[0] ELSE Word(w, f[k - 1], s, Place(h, k, w))]
           r == CHOOSE f : f = E(f)
<1>1. \E f : f = E(f)
  <2> DEFINE f == [k \in 0 .. m |-> g[k]]
  <2>1. \A k \in 0 .. m : k # 0 => k \in 1 .. m /\ k - 1 \in 0 .. m
    OBVIOUS
  <2>2. ASSUME NEW k \in 0 .. m PROVE f[k] = E(f)[k]
    <3>1. CASE k = 0
      BY <3>1
    <3>2. CASE k # 0
      <4>1. k \in 1 .. m /\ f[k - 1] = g[k - 1] /\ f[k] = g[k]
        BY <2>1, <3>2
      <4>2. E(f)[k] = Word(w, f[k - 1], s, Place(h, k, w))
        BY <3>2, Zenon
      <4> HIDE DEF f, E
      <4>3. QED
        BY <4>1, <4>2, Zenon
    <3>3. QED
      BY <3>1, <3>2
  <2>3. f = E(f)
    BY <2>2, Zenon
  <2>4. QED
    BY <2>3, Zenon
<1>2. r = E(r)
  BY <1>1, Zenon
<1>3. r[0] = g[0] /\ \A k \in 1 .. m : r[k] = Word(w, r[k - 1], s, Place(h, k, w))
  <2> HIDE DEF r
  <2>0. 0 \in 0 .. m /\ \A k \in 1 .. m : k \in 0 .. m /\ k # 0
    OBVIOUS
  <2>1. \A f : E(f)[0] = g[0] /\ \A k \in 1 .. m : E(f)[k] = Word(w, f[k - 1], s, Place(h, k, w))
    BY <2>0, Zenon
  <2> HIDE DEF E
  <2>2. QED
    BY <1>2, <2>1, Zenon
<1>4. r[m] = g[m]
  <2> HIDE DEF r
  <2>1. r[0] = g[0] /\ \A k \in 1 .. m : r[k - 1] = g[k - 1] => r[k] = g[k]
    BY <1>3, Zenon
  <2>2. QED
    BY <2>1, RunSame
<1>5. Wordwise(w, g[0], s, h, m) = r[m]
  BY DEF Wordwise, Iterate, Place
<1>6. QED
  BY <1>4, <1>5

LEMMA Crc16BufIs ==
  ASSUME NEW s, NEW n \in Nat, NEW d, Register(d, s, n), Octal(s, n), NEW m \in Nat, m <= n
  PROVE  Crc16Buf(s, m) = d[8 * m]
<1>1. d[8 * 0] = Preset /\ 0 + m = m
  BY DEF Register
<1>2. Octetwise(d[8 * 0], s, 0, m) = d[8 * (0 + m)]
  BY OctetwiseIs
<1>3. QED
  BY <1>1, <1>2 DEF Crc16Buf

LEMMA CrcSliceIs ==
  ASSUME NEW s, Len(s) \in Nat, NEW d, Register(d, s, Len(s)), Octal(s, Len(s)),
         NEW a \in 0 .. 7, NEW w \in {2, 4, 8}
  PROVE  CrcSlice(w, s, a) = d[8 * Len(s)]
<1>r. \A i \in Nat : i + w <= Len(s) => Word(w, d[8 * i], s, i) = d[8 * (i + w)]
  BY WordIs
<1> DEFINE n == Len(s)
           h == LeadIn(s, a)
           m == (n - h) \div w
           body == Wordwise(w, Crc16Buf(s, h), s, h, m)
           g == [k \in 0 .. m |-> d[8 * (h + k * w)]]
<1>1. h \in Nat /\ h <= n
  BY DEF LeadIn
<1>2. n \in Nat /\ m \in Nat /\ w \in Nat /\ h + m * w <= n
  <2> HIDE DEF h
  <2>1. CASE w = 2
    BY <1>1, <2>1
  <2>2. CASE w = 4
    BY <1>1, <2>2
  <2>3. CASE w = 8
    BY <1>1, <2>3
  <2>4. QED
    BY <2>1, <2>2, <2>3
<1> HIDE DEF h, m, n
<1>3. g[0] = Crc16Buf(s, h)
  <2>1. Crc16Buf(s, h) = d[8 * h]
    BY <1>1, <1>2, Crc16BufIs DEF n
  <2>2. h + 0 * w = h /\ 0 \in 0 .. m
    BY <1>1, <1>2
  <2>3. QED
    BY <2>1, <2>2
<1>4. ASSUME NEW k \in 1 .. m PROVE g[k] = Word(w, g[k - 1], s, Place(h, k, w))
  <2> DEFINE i == Place(h, k, w)
  <2>1. i \in Nat /\ i + w = h + k * w /\ i + w <= n
    <3>1. CASE w = 2
      BY <1>1, <1>2, <3>1 DEF Place
    <3>2. CASE w = 4
      BY <1>1, <1>2, <3>2 DEF Place
    <3>3. CASE w = 8
      BY <1>1, <1>2, <3>3 DEF Place
    <3>4. QED
      BY <3>1, <3>2, <3>3
  <2>2. g[k - 1] = d[8 * i] /\ g[k] = d[8 * (h + k * w)]
    BY <1>2 DEF Place
  <2> HIDE DEF i, g
  <2>3. Word(w, d[8 * i], s, i) = d[8 * (i + w)]
    BY <1>r, <2>1 DEF n
  <2>4. QED
    BY <2>1, <2>2, <2>3, Zenon DEF i
<1>5. body = g[m]
  <2> HIDE DEF g
  <2>1. QED
    <3>1. Moves(g, w, s, h, m)
      BY <1>4, Zenon DEF Moves
    <3>2. m \in Nat
      BY <1>2
    <3>3. Wordwise(w, g[0], s, h, m) = g[m]
      BY <3>1, <3>2, WordsRun
    <3>4. QED
      BY <1>3, <3>3
<1>6. g[m] = d[8 * (h + m * w)]
  BY <1>2
<1>7. TailOf(d[8 * (h + m * w)], s, h + m * w) = d[8 * n]
  <2> DEFINE i == h + m * w
  <2>1. i \in Nat /\ n - i \in Nat /\ i + (n - i) = n /\ i + (n - i) <= n
    <3>1. i \in Nat
      BY <1>1, <1>2
    <3> HIDE DEF i
    <3>2. i <= n
      BY <1>2 DEF i
    <3>3. QED
      BY <1>2, <3>1, <3>2
  <2> HIDE DEF i
  <2>2. Octetwise(d[8 * i], s, i, n - i) = d[8 * (i + (n - i))]
    BY <1>2, <2>1, OctetwiseIs DEF n
  <2>3. QED
    BY <2>1, <2>2 DEF TailOf, n, i
<1>8. CrcSlice(w, s, a) = TailOf(body, s, h + m * w)
  BY DEF CrcSlice, h, m, n
<1>9. QED
  BY <1>5, <1>6, <1>7, <1>8 DEF n

-----------------------------------------------------------------------------
(* crc16.c computes the CRC16 of its definition.                           *)

OctetsInv == /\ Len(octets) \in Nat /\ Octal(octets, Len(octets)) /\ octets \in Seq(Nat)
             /\ align \in 0 .. 7 /\ seed \in 0 .. 255

LEMMA OctetsInductive ==
  /\ CrcInit => OctetsInv
  /\ OctetsInv /\ [CrcNext]_cvars => OctetsInv'
<1>1. CrcInit => OctetsInv
  BY CrcAssumption DEF CrcInit, OctetsInv, Octal
<1>2. ASSUME OctetsInv, [CrcNext]_cvars PROVE OctetsInv'
  <2>1. CASE UNCHANGED octets
    BY <1>2, <2>1 DEF OctetsInv, Octal, CrcNext, InitLookupTable, InitSliced, Extend, cvars
  <2>2. CASE Extend
    <3> DEFINE b == (seed + 29 * Len(octets)) % 256
    <3>1. IsOctet(b) /\ b \in Nat /\ octets' = Append(octets, b) /\ align' = align /\ seed' = seed
      BY <1>2, <2>2 DEF Extend, OctetsInv, IsOctet
    <3> HIDE DEF b
    <3>2. QED
      BY <1>2, <3>1 DEF OctetsInv, Octal
  <2>3. QED
    BY <1>2, <2>1, <2>2 DEF CrcNext, InitLookupTable, InitSliced, cvars
<1>3. QED
  BY <1>1, <1>2

\* CrcByDefinition: crc16_buf and the three sliced versions give the remainder
\* of the division, for a buffer of any length at any address.
THEOREM CrcCorrect == CrcSpec => []CrcByDefinition
<1>1. OctetsInv => CrcByDefinition
  <2> SUFFICES ASSUME OctetsInv PROVE CrcByDefinition
    OBVIOUS
  <2>1. Len(octets) \in Nat /\ Octal(octets, Len(octets)) /\ align \in 0 .. 7
    BY DEF OctetsInv
  <2>2. PICK d : Register(d, octets, Len(octets))
    BY <2>1, RegisterExists
  <2>3. Division(octets) = d[8 * Len(octets)]
    BY <2>1, <2>2, DivisionRun
  <2>4. Len(octets) <= Len(octets)
    BY <2>1
  <2>5. Crc16Buf(octets, Len(octets)) = d[8 * Len(octets)]
    BY <2>1, <2>2, <2>4, Crc16BufIs
  <2>6. \A w \in {2, 4, 8} : CrcSlice(w, octets, align) = d[8 * Len(octets)]
    BY <2>1, <2>2, CrcSliceIs
  <2>7. QED
    BY <2>3, <2>5, <2>6 DEF CrcByDefinition
<1>2. QED
  BY <1>1, OctetsInductive, PTL DEF CrcSpec

-----------------------------------------------------------------------------
(* The check of pus_pkt_crc_valid: the register ends up empty exactly when *)
(* the last two octets are the CRC of those before them.                   *)

\* What of the register c is left to come out, with j more bits of s fed from
\* bit n on, if these empty it.
Pending(c, s, n, j) ==
    \A k \in 0 .. 15 : On(c, k) <=> (k > 15 - j /\ StreamBit(s, n + 16 - k) = 1)

LEMMA PendingStep ==
  ASSUME NEW s, NEW n \in Nat, NEW j \in 0 .. 15, NEW c, IsWord(c), NEW d,
         d = DivideBit(c, StreamBit(s, n + 1))
  PROVE  Pending(d, s, n + 1, j) <=> Pending(c, s, n, j + 1)
<1> DEFINE b == StreamBit(s, n + 1)
           t == ~(15 \in BitsOf(c) <=> b = 1)
           e == [k \in 0 .. 15 |-> StreamBit(s, n + 16 - k)]
<1>1. 0 \in BitsOf(d) <=> t
  BY DivideBits
<1>2. \A k \in 0 .. 14 : k + 1 \in BitsOf(d) <=> ~(k \in BitsOf(c) <=> (t /\ k + 1 \in {5, 12}))
  BY DivideBits
<1>3. \A k \in 0 .. 14 : (n + 1) + 16 - (k + 1) = n + 16 - k
  OBVIOUS
<1>4. n + 16 - 15 = n + 1
  OBVIOUS
<1>5. Pending(d, s, n + 1, j) => ~t
  BY <1>1 DEF Pending, On
<1>6. Pending(c, s, n, j + 1) => ~t
  <2>1. 15 \in 0 .. 15 /\ 15 > 15 - (j + 1)
    OBVIOUS
  <2>2. QED
    BY <1>4, <2>1 DEF Pending, On
<1> HIDE DEF t, b
<1>7. ASSUME Pending(d, s, n + 1, j) PROVE Pending(c, s, n, j + 1)
  <2> SUFFICES ASSUME NEW k \in 0 .. 15
               PROVE  On(c, k) <=> (k > 15 - (j + 1) /\ StreamBit(s, n + 16 - k) = 1)
    BY DEF Pending
  <2>1. ~t
    BY <1>5, <1>7
  <2>2. CASE k = 15
    BY <1>4, <2>1, <2>2 DEF On, t, b
  <2>3. CASE k # 15
    <3>1. k \in 0 .. 14 /\ k + 1 \in 0 .. 15 /\ (k + 1 > 15 - j <=> k > 15 - (j + 1))
      BY <2>3
    <3>2. On(c, k) <=> On(d, k + 1)
      BY <1>2, <2>1, <3>1 DEF On
    <3>3. On(d, k + 1) <=> (k + 1 > 15 - j /\ StreamBit(s, n + 1 + 16 - (k + 1)) = 1)
      BY <1>7, <3>1 DEF Pending
    <3>4. n + 1 + 16 - (k + 1) = n + 16 - k
      BY <3>1
    <3>5. QED
      BY <3>1, <3>2, <3>3, <3>4
  <2>4. QED
    BY <2>2, <2>3
<1>8. ASSUME Pending(c, s, n, j + 1) PROVE Pending(d, s, n + 1, j)
  <2> SUFFICES ASSUME NEW m \in 0 .. 15
               PROVE  On(d, m) <=> (m > 15 - j /\ StreamBit(s, n + 1 + 16 - m) = 1)
    BY DEF Pending
  <2>1. ~t
    BY <1>6, <1>8
  <2>2. CASE m = 0
    BY <1>1, <2>1, <2>2 DEF On
  <2>3. CASE m # 0
    <3> DEFINE k == m - 1
    <3>1. k \in 0 .. 14 /\ k \in 0 .. 15 /\ m = k + 1 /\ (m > 15 - j <=> k > 15 - (j + 1))
      BY <2>3
    <3>2. n + 1 + 16 - m = n + 16 - k
      OBVIOUS
    <3> HIDE DEF k
    <3>3. On(c, k) <=> On(d, m)
      BY <1>2, <2>1, <3>1 DEF On
    <3>4. On(c, k) <=> (k > 15 - (j + 1) /\ StreamBit(s, n + 16 - k) = 1)
      BY <1>8, <3>1 DEF Pending
    <3>5. QED
      BY <3>1, <3>2, <3>3, <3>4
  <2>4. QED
    BY <2>2, <2>3
<1>9. QED
  BY <1>7, <1>8

\* The last sixteen bits empty the register if and only if they are its own.
LEMMA Emptied ==
  ASSUME NEW s, NEW n \in Nat, NEW d, Register(d, s, n), n >= 2
  PROVE  d[8 * n] = 0 <=> \A k \in 0 .. 15 : On(d[8 * n - 16], k) <=> StreamBit(s, 8 * n - k) = 1
<1> DEFINE N == 8 * n
           P(j) == Pending(d[N - j], s, N - j, j)
           G == {j \in Nat : j <= 16 => (P(j) <=> P(0))}
<1>1. 0 \in G
  OBVIOUS
<1>2. ASSUME NEW j \in Nat, j \in G PROVE j + 1 \in G
  <2> SUFFICES ASSUME j + 1 <= 16 PROVE P(j + 1) <=> P(0)
    OBVIOUS
  <2> DEFINE i == N - (j + 1)
  <2>1. i \in Nat /\ j \in 0 .. 15 /\ i + 1 = N - j /\ i + 1 \in 1 .. N /\ i \in 0 .. N /\ (i + 1) - 1 = i
    OBVIOUS
  <2>2. IsWord(d[i]) /\ d[i + 1] = DivideBit(d[i], StreamBit(s, i + 1))
    <3> HIDE DEF i
    <3>1. d[i + 1] = DivideBit(d[(i + 1) - 1], StreamBit(s, i + 1))
      BY <2>1 DEF Register
    <3>2. QED
      BY <2>1, <3>1 DEF Register
  <2>3. P(j) <=> P(0)
    BY <1>2
  <2>4. P(j) <=> Pending(d[i + 1], s, i + 1, j)
    BY <2>1
  <2>5. P(j + 1) <=> Pending(d[i], s, i, j + 1)
    OBVIOUS
  <2> HIDE DEF P, i
  <2>6. Pending(d[i + 1], s, i + 1, j) <=> Pending(d[i], s, i, j + 1)
    BY <2>1, <2>2, PendingStep
  <2>7. QED
    BY <2>3, <2>4, <2>5, <2>6
<1>3. P(16) <=> P(0)
  <2> HIDE DEF P
  <2>1. 16 \in G
    <3> HIDE DEF G
    <3>1. QED BY <1>1, <1>2, Induct
  <2>2. QED
    BY <2>1
<1>4. N \in 0 .. 8 * n /\ N - 0 = N /\ IsWord(d[N])
  <2>1. N \in 0 .. 8 * n /\ N - 0 = N
    OBVIOUS
  <2>2. QED
    BY <2>1 DEF Register
<1>5. P(0) <=> \A k \in 0 .. 15 : ~On(d[N], k)
  BY <1>4 DEF Pending
<1>6. d[N] = 0 <=> \A k \in 0 .. 15 : ~On(d[N], k)
  <2>1. IsWord(0) /\ \A k \in 0 .. 15 : ~On(0, k)
    <3>1. Num({}) = 0
      BY DEF Num
    <3>2. QED
      BY <3>1, NumWord, BitsOfNum DEF On
  <2>2. QED
    BY <1>4, <2>1, BitsEqual DEF On
<1>7. P(16) <=> \A k \in 0 .. 15 : On(d[N - 16], k) <=> StreamBit(s, N - k) = 1
  <2>1. \A k \in 0 .. 15 : k > 15 - 16 /\ N - 16 + 16 - k = N - k
    OBVIOUS
  <2>2. QED
    BY <2>1 DEF Pending
<1> HIDE DEF P
<1>8. QED
  BY <1>3, <1>5, <1>6, <1>7 DEF N

\* Two octets as one number.
LEMMA JoinBits ==
  ASSUME NEW h, NEW l, IsOctet(h), IsOctet(l)
  PROVE  /\ IsWord(h * 256 + l)
         /\ \A k \in 0 .. 7 : /\ On(h * 256 + l, k) <=> On(l, k)
                              /\ On(h * 256 + l, k + 8) <=> On(h, k)
<1> DEFINE x == h * 256 + l
<1>1. IsWord(x) /\ Hi(x) = h /\ x % 256 = l
  BY SMT DEF IsWord, IsOctet, Hi
<1> HIDE DEF x
<1>2. \A k \in 0 .. 15 : On(h, k) <=> (k < 8 /\ On(x, k + 8))
  BY <1>1, HiBits DEF On
<1>3. \A k \in 0 .. 15 : On(l, k) <=> (k < 8 /\ On(x, k))
  BY <1>1, LoBits DEF On
<1>4. QED
  BY <1>1, <1>2, <1>3 DEF x

\* pus_pkt_crc_valid accepts exactly the packets that leave the register of
\* the division empty.
LEMMA ValidEmpties ==
  ASSUME NEW s, Len(s) \in Nat, Octal(s, Len(s)), Len(s) > 2, NEW d, Register(d, s, Len(s))
  PROVE  CrcValid(s) <=> d[8 * Len(s)] = 0
<1> DEFINE n == Len(s)
           c == d[8 * (n - 2)]
           v == s[n - 1] * 256 + s[n]
<1>0. n \in Nat /\ n >= 2 /\ n - 1 \in 1 .. n /\ n \in 1 .. n /\ n - 2 \in Nat /\ n - 2 <= n /\ 8 * (n - 2) = 8 * n - 16
      /\ 8 * (n - 2) \in 0 .. 8 * n
  OBVIOUS
<1>1. Crc16Buf(s, n - 2) = c
  BY <1>0, Crc16BufIs
<1>2. CrcValid(s) <=> c = v
  BY <1>1 DEF CrcValid, CrcLen
<1>3. IsWord(c) /\ IsOctet(s[n - 1]) /\ IsOctet(s[n])
  BY <1>0 DEF Register, Octal
<1>4. IsWord(v) /\ \A k \in 0 .. 7 : (On(v, k) <=> On(s[n], k)) /\ (On(v, k + 8) <=> On(s[n - 1], k))
  BY <1>3, JoinBits
<1>5. ASSUME NEW k \in 0 .. 15 PROVE StreamBit(s, 8 * n - k) = 1 <=> On(v, k)
  <2>1. CASE k < 8
    <3>1. k \in 0 .. 7 /\ n >= 1
      BY <2>1, <1>0
    <3>2. StreamBit(s, 8 * n - k) = 1 <=> k \in BitsOf(s[n])
      BY <1>0, <3>1, StreamBitAt
    <3>3. QED
      BY <1>4, <3>1, <3>2 DEF On
  <2>2. CASE k >= 8
    <3> DEFINE j == k - 8
               m == n - 1
    <3>1. j \in 0 .. 7 /\ m \in Nat /\ m >= 1 /\ 8 * m - j = 8 * n - k /\ j + 8 = k
      BY <1>0, <2>2
    <3>2. StreamBit(s, 8 * m - j) = 1 <=> j \in BitsOf(s[m])
      BY <3>1, StreamBitAt
    <3>3. On(v, j + 8) <=> On(s[m], j)
      BY <1>4, <3>1
    <3> HIDE DEF j, m, v
    <3>4. QED
      BY <3>1, <3>2, <3>3 DEF On
  <2>3. QED
    BY <2>1, <2>2
<1>6. d[8 * n] = 0 <=> \A k \in 0 .. 15 : On(d[8 * n - 16], k) <=> StreamBit(s, 8 * n - k) = 1
  BY <1>0, Emptied
<1>7. d[8 * n] = 0 <=> \A k \in 0 .. 15 : On(c, k) <=> On(v, k)
  <2> HIDE DEF v
  <2> QED BY <1>0, <1>5, <1>6
<1>8. c = v <=> \A k \in 0 .. 15 : On(c, k) <=> On(v, k)
  <2> HIDE DEF v, c
  <2> QED BY <1>3, <1>4, BitsEqual DEF On
<1>9. QED
  BY <1>2, <1>7, <1>8

-----------------------------------------------------------------------------
(* A burst: from the first flipped bit on the two registers never agree.   *)

Differ(c, e, k) == ~(On(c, k) <=> On(e, k))

\* One step with the same bit fed to both keeps them apart; so does one with
\* different bits, unless the only difference is in the top bit.
LEMMA StepApart ==
  ASSUME NEW c, NEW e, IsWord(c), IsWord(e), NEW x, NEW y,
         NEW i \in 0 .. 15, Differ(c, e, i), i = 15 => (x = 1 <=> y = 1)
  PROVE  \E k \in 0 .. 15 : k <= i + 1 /\ Differ(DivideBit(c, x), DivideBit(e, y), k)
<1> DEFINE p == DivideBit(c, x)
           q == DivideBit(e, y)
           t == ~(15 \in BitsOf(c) <=> x = 1)
           u == ~(15 \in BitsOf(e) <=> y = 1)
<1>1. (0 \in BitsOf(p) <=> t) /\ (0 \in BitsOf(q) <=> u)
  BY DivideBits
<1>2. \A k \in 0 .. 14 : k + 1 \in BitsOf(p) <=> ~(k \in BitsOf(c) <=> (t /\ k + 1 \in {5, 12}))
  BY DivideBits
<1>3. \A k \in 0 .. 14 : k + 1 \in BitsOf(q) <=> ~(k \in BitsOf(e) <=> (u /\ k + 1 \in {5, 12}))
  BY DivideBits
<1>4. CASE ~(t <=> u)
  <2>1. Differ(p, q, 0) /\ 0 \in 0 .. 15 /\ 0 <= i + 1
    BY <1>1, <1>4 DEF Differ, On
  <2>2. QED
    BY <2>1
<1>5. CASE t <=> u
  <2>1. i # 15
    BY <1>5 DEF Differ, On
  <2>2. i \in 0 .. 14 /\ i + 1 \in 0 .. 15 /\ i + 1 <= i + 1
    BY <2>1
  <2> HIDE DEF t, u, p, q
  <2>3. Differ(p, q, i + 1)
    BY <1>2, <1>3, <1>5, <2>2 DEF Differ, On
  <2>4. QED
    BY <2>2, <2>3 DEF p, q
<1>6. QED
  BY <1>4, <1>5

\* The first flipped bit sets them apart in bit 0.
LEMMA FirstApart ==
  ASSUME NEW c, IsWord(c), NEW x, NEW y, ~(x = 1 <=> y = 1)
  PROVE  Differ(DivideBit(c, x), DivideBit(c, y), 0)
BY DivideBits DEF Differ, On

LEMMA BurstApart ==
  ASSUME NEW n \in Nat, NEW s, NEW r, NEW d, NEW e, Register(d, s, n), Register(e, r, n),
         NEW f \in Nat, f < 8 * n,
         \A k \in 1 .. f : StreamBit(s, k) = StreamBit(r, k),
         ~(StreamBit(s, f + 1) = 1 <=> StreamBit(r, f + 1) = 1),
         \A k \in f + 17 .. 8 * n : StreamBit(s, k) = StreamBit(r, k)
  PROVE  d[8 * n] # e[8 * n]
<1> DEFINE N == 8 * n
<1>0. N \in Nat
  OBVIOUS
<1>d. /\ \A k \in 0 .. N : IsWord(d[k]) /\ IsWord(e[k])
      /\ \A k \in 1 .. N : /\ d[k] = DivideBit(d[k - 1], StreamBit(s, k))
                           /\ e[k] = DivideBit(e[k - 1], StreamBit(r, k))
      /\ d[0] = e[0]
  BY DEF Register
<1>1. d[f] = e[f]
  <2>1. \A k \in 1 .. f : k \in 1 .. N
    OBVIOUS
  <2> HIDE DEF N
  <2>2. \A k \in 1 .. f : d[k - 1] = e[k - 1] => d[k] = e[k]
    BY <1>d, <2>1, Zenon
  <2>3. QED
    BY <1>d, <2>2, RunSame
<1> DEFINE A(j) == \E i \in 0 .. 15 : i <= j /\ Differ(d[f + 1 + j], e[f + 1 + j], i)
           G == {j \in Nat : f + 1 + j <= N => A(j)}
<1>2. 0 \in G
  <2>1. f + 1 \in 1 .. N /\ (f + 1) - 1 = f /\ f \in 0 .. N /\ f + 1 + 0 = f + 1 /\ 0 \in 0 .. 15 /\ 0 <= 0
    OBVIOUS
  <2> HIDE DEF N
  <2>2. d[f + 1] = DivideBit(d[f], StreamBit(s, f + 1)) /\ e[f + 1] = DivideBit(e[f], StreamBit(r, f + 1))
    BY <1>d, <2>1
  <2>3. Differ(d[f + 1], e[f + 1], 0)
    BY <1>d, <1>1, <2>1, <2>2, FirstApart
  <2>4. A(0)
    BY <2>1, <2>3
  <2> HIDE DEF A
  <2>5. QED
    BY <2>4
<1>3. ASSUME NEW j \in Nat, j \in G PROVE j + 1 \in G
  <2> SUFFICES ASSUME f + 1 + (j + 1) <= N PROVE A(j + 1)
    OBVIOUS
  <2> DEFINE k == f + 1 + j
  <2>1. k \in 0 .. N /\ k + 1 \in 1 .. N /\ (k + 1) - 1 = k /\ f + 1 + (j + 1) = k + 1
    OBVIOUS
  <2>2. PICK i \in 0 .. 15 : i <= j /\ Differ(d[k], e[k], i)
    <3> HIDE DEF N
    <3>1. A(j)
      BY <1>3, <1>0, <2>1
    <3>2. QED
      BY <3>1
  <2>3. i = 15 => StreamBit(s, k + 1) = StreamBit(r, k + 1)
    <3>1. i = 15 => k + 1 \in f + 17 .. 8 * n
      BY <2>1, <2>2
    <3>2. QED
      BY <3>1
  <2> HIDE DEF N, k
  <2>4. d[k + 1] = DivideBit(d[k], StreamBit(s, k + 1)) /\ e[k + 1] = DivideBit(e[k], StreamBit(r, k + 1))
    BY <1>d, <2>1
  <2>5. \E m \in 0 .. 15 : m <= i + 1 /\ Differ(d[k + 1], e[k + 1], m)
    BY <1>d, <2>1, <2>2, <2>3, <2>4, StepApart
  <2>6. PICK m \in 0 .. 15 : m <= i + 1 /\ Differ(d[k + 1], e[k + 1], m)
    BY <2>5
  <2>7. m <= j + 1
    BY <2>2, <2>6
  <2>8. Differ(d[f + 1 + (j + 1)], e[f + 1 + (j + 1)], m)
    BY <2>1, <2>6
  <2>9. QED
    BY <2>6, <2>7, <2>8
<1>4. N - f - 1 \in G
  <2> HIDE DEF G
  <2>1. Nat \subseteq G
    BY <1>2, <1>3, Induct
  <2>2. N - f - 1 \in Nat
    OBVIOUS
  <2>3. QED
    BY <2>1, <2>2
<1>5. f + 1 + (N - f - 1) = N /\ f + 1 + (N - f - 1) <= N
  OBVIOUS
<1>6. A(N - f - 1)
  <2> HIDE DEF A, N
  <2> QED BY <1>4, <1>5
<1>7. QED
  BY <1>5, <1>6 DEF Differ

LEMMA NumOctet ==
  ASSUME NEW S, S \subseteq 0 .. 7
  PROVE  IsOctet(Num(S)) /\ \A j \in 0 .. 15 : On(Num(S), j) <=> j \in S
<1>1. \A j : j \in BitsOf(Num(S)) <=> (j \in S /\ j \in 0 .. 15)
  BY BitsOfNum, Zenon
<1>2. \A k \in 8 .. 15 : ~(k \in BitsOf(Num(S)))
  BY <1>1
<1>3. QED
  BY <1>1, <1>2, NumWord, OctetBits DEF On

\* Flipped flips the bits it is told to, counted from 0, and no others.
LEMMA FlippedBits ==
  ASSUME NEW s, NEW b, Len(s) \in Nat, Octal(s, Len(s))
  PROVE  /\ Len(Flipped(s, b)) = Len(s) /\ Octal(Flipped(s, b), Len(s))
         /\ Flipped(s, b) \in Seq(Nat)
         /\ \A n \in 1 .. 8 * Len(s) :
               ~(StreamBit(s, n) = 1 <=> StreamBit(Flipped(s, b), n) = 1) <=> n - 1 \in b
<1> DEFINE S(k) == {j \in 0 .. 7 : 8 * (k - 1) + 7 - j \in b}
           r == Flipped(s, b)
<1>1. \A k : IsOctet(Num(S(k))) /\ \A j \in 0 .. 15 : On(Num(S(k)), j) <=> j \in S(k)
  <2>1. \A k : S(k) \subseteq 0 .. 7
    BY Zenon
  <2> HIDE DEF S
  <2>2. QED
    BY <2>1, NumOctet, Zenon
<1> HIDE DEF S
<1>2. \A k \in 1 .. Len(s) : r[k] = Xor(s[k], Num(S(k)))
  BY DEF Flipped, S
<1>3. \A k \in 1 .. Len(s) : IsOctet(r[k])
  BY <1>1, <1>2, XorOctet DEF Octal
<1>4. Len(r) = Len(s) /\ r \in Seq(Nat)
  <2> DEFINE g == [k \in 1 .. Len(s) |-> r[k]]
  <2>1. r = g
    BY DEF Flipped
  <2>2. \A k \in 1 .. Len(s) : r[k] \in Nat
    BY <1>3 DEF IsOctet
  <2> HIDE DEF r
  <2>3. g \in Seq(Nat) /\ Len(g) = Len(s)
    BY <2>2
  <2>4. QED
    BY <2>1, <2>3
<1> HIDE DEF r
<1>5. ASSUME NEW n \in 1 .. 8 * Len(s)
      PROVE  ~(StreamBit(s, n) = 1 <=> StreamBit(r, n) = 1) <=> n - 1 \in b
  <2> DEFINE k == (n - 1) \div 8 + 1
             j == 7 - ((n - 1) % 8)
  <2>1. k \in Nat /\ k >= 1 /\ k <= Len(s) /\ j \in 0 .. 7 /\ n = 8 * k - j /\ 8 * (k - 1) + 7 - j = n - 1
    <3> DEFINE m == n - 1
               q == m \div 8
    <3>1. m \in Nat /\ m < 8 * Len(s) /\ q \in Nat /\ m % 8 \in 0 .. 7 /\ m = 8 * q + (m % 8)
      OBVIOUS
    <3>2. k = q + 1 /\ j = 7 - (m % 8) /\ n = m + 1
      OBVIOUS
    <3> HIDE DEF k, j, m, q
    <3>3. QED
      BY <3>1, <3>2
  <2> HIDE DEF k, j
  <2>2. (StreamBit(s, n) = 1 <=> j \in BitsOf(s[k])) /\ (StreamBit(r, n) = 1 <=> j \in BitsOf(r[k]))
    BY <2>1, StreamBitAt
  <2>3. j \in 0 .. 15 /\ k \in 1 .. Len(s)
    BY <2>1
  <2>4. j \in BitsOf(r[k]) <=> ~(j \in BitsOf(s[k]) <=> j \in S(k))
    <3>1. r[k] = Xor(s[k], Num(S(k))) /\ (j \in BitsOf(Num(S(k))) <=> j \in S(k))
      BY <1>1, <1>2, <2>3, Zenon DEF On
    <3>2. QED
      BY <2>3, <3>1, XorBits, Zenon
  <2>5. j \in S(k) <=> n - 1 \in b
    BY <2>1 DEF S
  <2>6. QED
    BY <2>2, <2>4, <2>5
<1>6. QED
  BY <1>3, <1>4, <1>5 DEF r, Octal

\* b lies within sixteen bits, the first of them in a packet of n octets.
Burst(b, n) == \E f \in b : f < 8 * n /\ b \subseteq f .. f + 15

LEMMA BurstDetected ==
  ASSUME NEW s, NEW b, Len(s) \in Nat, Octal(s, Len(s)), Len(s) > 2,
         b \subseteq Nat, Burst(b, Len(s)), CrcValid(s)
  PROVE  ~CrcValid(Flipped(s, b))
<1> DEFINE r == Flipped(s, b)
           n == Len(s)
<1>1. Len(r) = n /\ Octal(r, n)
      /\ \A k \in 1 .. 8 * n : ~(StreamBit(s, k) = 1 <=> StreamBit(r, k) = 1) <=> k - 1 \in b
  BY FlippedBits
<1> HIDE DEF r
<1>2. PICK d : Register(d, s, n)
  BY RegisterExists
<1>3. PICK e : Register(e, r, n)
  BY RegisterExists
<1>4. PICK f \in b : f < 8 * n /\ b \subseteq f .. f + 15
  BY DEF Burst
<1>5. f \in Nat
  BY <1>4
<1>6. \A k : StreamBit(s, k) \in {0, 1} /\ StreamBit(r, k) \in {0, 1}
  BY DEF StreamBit
<1>7. \A k \in 1 .. f : StreamBit(s, k) = StreamBit(r, k)
  <2> SUFFICES ASSUME NEW k \in 1 .. f PROVE StreamBit(s, k) = StreamBit(r, k)
    OBVIOUS
  <2>1. k \in 1 .. 8 * n /\ ~(k - 1 \in b)
    BY <1>4, <1>5
  <2>2. StreamBit(s, k) = 1 <=> StreamBit(r, k) = 1
    BY <1>1, <2>1
  <2>3. QED
    BY <1>6, <2>2
<1>8. ~(StreamBit(s, f + 1) = 1 <=> StreamBit(r, f + 1) = 1)
  <2>1. f + 1 \in 1 .. 8 * n /\ (f + 1) - 1 \in b
    BY <1>4, <1>5
  <2>2. QED
    BY <1>1, <2>1
<1>9. \A k \in f + 17 .. 8 * n : StreamBit(s, k) = StreamBit(r, k)
  <2> SUFFICES ASSUME NEW k \in f + 17 .. 8 * n PROVE StreamBit(s, k) = StreamBit(r, k)
    OBVIOUS
  <2>1. k \in 1 .. 8 * n /\ ~(k - 1 \in b)
    BY <1>4, <1>5
  <2>2. StreamBit(s, k) = 1 <=> StreamBit(r, k) = 1
    BY <1>1, <2>1
  <2>3. QED
    BY <1>6, <2>2
<1>10. d[8 * n] # e[8 * n]
  BY <1>2, <1>3, <1>4, <1>5, <1>7, <1>8, <1>9, BurstApart
<1>11. d[8 * n] = 0
  BY <1>2, ValidEmpties
<1>12. CrcValid(r) <=> e[8 * n] = 0
  <2>1. Len(r) \in Nat /\ Octal(r, Len(r)) /\ Len(r) > 2 /\ Register(e, r, Len(r))
    BY <1>1, <1>3
  <2>2. CrcValid(r) <=> e[8 * Len(r)] = 0
    BY <2>1, ValidEmpties
  <2>3. QED
    BY <1>1, <2>2
<1>13. QED
  BY <1>10, <1>11, <1>12 DEF r

-----------------------------------------------------------------------------
(* The fields of the headers: what Raw reads and what Put writes, field by *)
(* field.                                                                  *)

LEMMA FieldsAre ==
  Fields = {"version", "type", "flag", "apid", "seq_flags", "seq_cnt", "data_len", "pus",
            "time_ref", "ack", "st", "sst", "msg_cntr", "dest", "source", "time"}
BY DEF Fields, Layout

LEMMA AndBits ==
  ASSUME NEW x, NEW y
  PROVE  IsWord(And(x, y)) /\ \A k \in 0 .. 15 : On(And(x, y), k) <=> (On(x, k) /\ On(y, k))
<1>1. IsWord(And(x, y)) /\ BitsOf(And(x, y)) = (BitsOf(x) \cap BitsOf(y)) \cap (0 .. 15)
  BY NumWord, BitsOfNum DEF And
<1>2. QED
  BY <1>1, Zenon DEF On

LEMMA OrBits ==
  ASSUME NEW x, NEW y
  PROVE  IsWord(Or(x, y)) /\ \A k \in 0 .. 15 : On(Or(x, y), k) <=> (On(x, k) \/ On(y, k))
<1>1. IsWord(Or(x, y)) /\ BitsOf(Or(x, y)) = (BitsOf(x) \cup BitsOf(y)) \cap (0 .. 15)
  BY NumWord, BitsOfNum DEF Or
<1>2. QED
  BY <1>1, Zenon DEF On

LEMMA RawIs ==
  ASSUME NEW p
  PROVE  /\ Raw(p, "version") = And(p[0], 224) \div 32
         /\ Raw(p, "type") = And(p[0], 16) \div 16
         /\ Raw(p, "flag") = And(p[0], 15) \div 8
         /\ Raw(p, "apid") = And(p[0], 7) * 256 + p[1]
         /\ Raw(p, "seq_flags") = And(p[2], 192) \div 64
         /\ Raw(p, "seq_cnt") = And(p[2], 63) * 256 + p[3]
         /\ Raw(p, "data_len") = And(p[4], 255) * 256 + p[5]
         /\ Raw(p, "pus") = And(p[6], 240) \div 16
         /\ Raw(p, "time_ref") = And(p[6], 15)
         /\ Raw(p, "ack") = And(p[6], 15)
         /\ Raw(p, "st") = And(p[7], 255)
         /\ Raw(p, "sst") = And(p[8], 255)
         /\ Raw(p, "msg_cntr") = And(p[9], 255) * 256 + p[10]
         /\ Raw(p, "dest") = And(p[11], 255) * 256 + p[12]
         /\ Raw(p, "source") = And(p[9], 255) * 256 + p[10]
         /\ Raw(p, "time") = IF \A j \in 1 .. 5 : p[13 + j] = Follow("time", And(p[13], 255), j)
                             THEN And(p[13], 255) ELSE Garbled
<1>0. 2 ^ 0 = 1 /\ 2 ^ 3 = 8 /\ 2 ^ 4 = 16 /\ 2 ^ 5 = 32 /\ 2 ^ 6 = 64
  OBVIOUS
<1>1. \A x, y : And(x, y) \in Nat /\ And(x, y) \div 1 = And(x, y)
  BY AndBits DEF IsWord
<1>2. Layout["version"] = F(0, 224, 5, 0)
  BY DEF Layout
<1>3. Layout["type"] = F(0, 16, 4, 0)
  BY DEF Layout
<1>4. Layout["flag"] = F(0, 15, 3, 0)
  BY DEF Layout
<1>5. Layout["apid"] = F(0, 7, 0, 1)
  BY DEF Layout
<1>6. Layout["seq_flags"] = F(2, 192, 6, 0)
  BY DEF Layout
<1>7. Layout["seq_cnt"] = F(2, 63, 0, 1)
  BY DEF Layout
<1>8. Layout["data_len"] = F(4, 255, 0, 1)
  BY DEF Layout
<1>9. Layout["pus"] = F(6, 240, 4, 0)
  BY DEF Layout
<1>10. Layout["time_ref"] = F(6, 15, 0, 0)
  BY DEF Layout
<1>11. Layout["ack"] = F(6, 15, 0, 0)
  BY DEF Layout
<1>12. Layout["st"] = F(7, 255, 0, 0)
  BY DEF Layout
<1>13. Layout["sst"] = F(8, 255, 0, 0)
  BY DEF Layout
<1>14. Layout["msg_cntr"] = F(9, 255, 0, 1)
  BY DEF Layout
<1>15. Layout["dest"] = F(11, 255, 0, 1)
  BY DEF Layout
<1>16. Layout["source"] = F(9, 255, 0, 1)
  BY DEF Layout
<1>17. Layout["time"] = F(13, 255, 0, 5)
  BY DEF Layout
<1>18. Raw(p, "version") = And(p[0], 224) \div 32
  BY <1>0, <1>1, <1>2 DEF Raw, F
<1>19. Raw(p, "type") = And(p[0], 16) \div 16
  BY <1>0, <1>1, <1>3 DEF Raw, F
<1>20. Raw(p, "flag") = And(p[0], 15) \div 8
  BY <1>0, <1>1, <1>4 DEF Raw, F
<1>21. Raw(p, "apid") = And(p[0], 7) * 256 + p[1]
  BY <1>0, <1>1, <1>5 DEF Raw, F
<1>22. Raw(p, "seq_flags") = And(p[2], 192) \div 64
  BY <1>0, <1>1, <1>6 DEF Raw, F
<1>23. Raw(p, "seq_cnt") = And(p[2], 63) * 256 + p[3]
  BY <1>0, <1>1, <1>7 DEF Raw, F
<1>24. Raw(p, "data_len") = And(p[4], 255) * 256 + p[5]
  BY <1>0, <1>1, <1>8 DEF Raw, F
<1>25. Raw(p, "pus") = And(p[6], 240) \div 16
  BY <1>0, <1>1, <1>9 DEF Raw, F
<1>26. Raw(p, "time_ref") = And(p[6], 15)
  BY <1>0, <1>1, <1>10 DEF Raw, F
<1>27. Raw(p, "ack") = And(p[6], 15)
  BY <1>0, <1>1, <1>11 DEF Raw, F
<1>28. Raw(p, "st") = And(p[7], 255)
  BY <1>0, <1>1, <1>12 DEF Raw, F
<1>29. Raw(p, "sst") = And(p[8], 255)
  BY <1>0, <1>1, <1>13 DEF Raw, F
<1>30. Raw(p, "msg_cntr") = And(p[9], 255) * 256 + p[10]
  BY <1>0, <1>1, <1>14 DEF Raw, F
<1>31. Raw(p, "dest") = And(p[11], 255) * 256 + p[12]
  BY <1>0, <1>1, <1>15 DEF Raw, F
<1>32. Raw(p, "source") = And(p[9], 255) * 256 + p[10]
  BY <1>0, <1>1, <1>16 DEF Raw, F
<1>33. Raw(p, "time") = IF \A j \in 1 .. 5 : p[13 + j] = Follow("time", And(p[13], 255), j)
                          THEN And(p[13], 255) ELSE Garbled
  BY <1>0, <1>1, <1>17 DEF Raw, F
<1>34. QED
  BY <1>18, <1>19, <1>20, <1>21, <1>22, <1>23, <1>24, <1>25, <1>26, <1>27, <1>28, <1>29, <1>30, <1>31, <1>32, <1>33

\* Bit k as a number, and an octet as the sum of its bits.
B(y, k) == IF On(y, k) THEN 1 ELSE 0

LEMMA OctetSum ==
  ASSUME NEW y, IsOctet(y)
  PROVE  y = B(y, 0) + 2 * B(y, 1) + 4 * B(y, 2) + 8 * B(y, 3)
             + 16 * B(y, 4) + 32 * B(y, 5) + 64 * B(y, 6) + 128 * B(y, 7)
<1>1. \A k \in 8 .. 15 : ~(k \in BitsOf(y))
  BY OctetBits
<1>2. Num(BitsOf(y)) = y
  BY OctetIsWord, NumBitsOf
<1>3. /\ 2 ^ 0 = 1 /\ 2 ^ 1 = 2 /\ 2 ^ 2 = 4 /\ 2 ^ 3 = 8
      /\ 2 ^ 4 = 16 /\ 2 ^ 5 = 32 /\ 2 ^ 6 = 64 /\ 2 ^ 7 = 128
  OBVIOUS
<1>4. QED
  BY <1>1, <1>2, <1>3, SMT DEF Num, B, On

LEMMA BitType == \A y, k : B(y, k) \in {0, 1}
BY DEF B

LEMMA Divided ==
  ASSUME NEW r \in Nat, NEW q \in Nat
  PROVE  /\ r < 8 => (r + 8 * q) \div 8 = q /\ (r + 8 * q) % 8 = r
         /\ r < 16 => (r + 16 * q) \div 16 = q /\ (r + 16 * q) % 16 = r
         /\ r < 32 => (r + 32 * q) \div 32 = q
         /\ r < 64 => (r + 64 * q) \div 64 = q /\ (r + 64 * q) % 64 = r
OBVIOUS

\* The parts of an octet that are fields.
LEMMA Parts ==
  ASSUME NEW y, IsOctet(y)
  PROVE  /\ y \div 32 = B(y, 5) + 2 * B(y, 6) + 4 * B(y, 7)
         /\ (y \div 16) % 2 = B(y, 4)
         /\ (y \div 8) % 2 = B(y, 3)
         /\ y % 8 = B(y, 0) + 2 * B(y, 1) + 4 * B(y, 2)
         /\ y \div 64 = B(y, 6) + 2 * B(y, 7)
         /\ y % 64 = B(y, 0) + 2 * B(y, 1) + 4 * B(y, 2) + 8 * B(y, 3) + 16 * B(y, 4) + 32 * B(y, 5)
         /\ y \div 16 = B(y, 4) + 2 * B(y, 5) + 4 * B(y, 6) + 8 * B(y, 7)
         /\ y % 16 = B(y, 0) + 2 * B(y, 1) + 4 * B(y, 2) + 8 * B(y, 3)
<1> DEFINE b(k) == B(y, k)
<1>1. /\ b(0) \in {0, 1} /\ b(1) \in {0, 1} /\ b(2) \in {0, 1} /\ b(3) \in {0, 1}
      /\ b(4) \in {0, 1} /\ b(5) \in {0, 1} /\ b(6) \in {0, 1} /\ b(7) \in {0, 1}
  BY BitType
<1>2. y = b(0) + 2 * b(1) + 4 * b(2) + 8 * b(3) + 16 * b(4) + 32 * b(5) + 64 * b(6) + 128 * b(7)
  BY OctetSum
<1> HIDE DEF b
<1> DEFINE lo3 == b(0) + 2 * b(1) + 4 * b(2)
           lo4 == lo3 + 8 * b(3)
           lo5 == lo4 + 16 * b(4)
           lo6 == lo5 + 32 * b(5)
           up6 == b(6) + 2 * b(7)
           up5 == b(5) + 2 * up6
           up4 == b(4) + 2 * up5
           up3 == b(3) + 2 * up4
<1>3. /\ lo3 \in 0 .. 7 /\ lo4 \in 0 .. 15 /\ lo5 \in 0 .. 31 /\ lo6 \in 0 .. 63
      /\ up3 \in Nat /\ up4 \in Nat /\ up5 \in Nat /\ up6 \in Nat
  BY <1>1
<1>4. y = lo3 + 8 * up3 /\ y = lo4 + 16 * up4 /\ y = lo5 + 32 * up5 /\ y = lo6 + 64 * up6
  BY <1>1, <1>2
<1>5. up4 = b(4) + 2 * up5 /\ up3 = b(3) + 2 * up4
  OBVIOUS
<1> HIDE DEF lo3, lo4, lo5, lo6, up3, up4, up5, up6
<1>6. /\ y \div 8 = up3 /\ y % 8 = lo3 /\ y \div 16 = up4 /\ y % 16 = lo4
      /\ y \div 32 = up5 /\ y \div 64 = up6 /\ y % 64 = lo6
  BY <1>3, <1>4, Divided
<1>7. up4 % 2 = b(4) /\ up3 % 2 = b(3)
  BY <1>1, <1>3, <1>5, Halve
<1>8. QED
  BY <1>1, <1>6, <1>7 DEF b, lo3, lo4, lo5, lo6, up3, up4, up5, up6

\* The bits of the masks.
LEMMA MaskBits ==
  /\ \A k \in 0 .. 15 : On(224, k) <=> k \in {5, 6, 7}
  /\ \A k \in 0 .. 15 : On(31, k) <=> k \in 0 .. 4
  /\ \A k \in 0 .. 15 : On(16, k) <=> k = 4
  /\ \A k \in 0 .. 15 : On(239, k) <=> k \in (0 .. 7) \ {4}
  /\ \A k \in 0 .. 15 : On(15, k) <=> k \in 0 .. 3
  /\ \A k \in 0 .. 15 : On(240, k) <=> k \in 4 .. 7
  /\ \A k \in 0 .. 15 : On(7, k) <=> k \in 0 .. 2
  /\ \A k \in 0 .. 15 : On(248, k) <=> k \in 3 .. 7
  /\ \A k \in 0 .. 15 : On(192, k) <=> k \in 6 .. 7
  /\ \A k \in 0 .. 15 : On(63, k) <=> k \in 0 .. 5
  /\ \A k \in 0 .. 15 : On(255, k) <=> k \in 0 .. 7
  /\ \A k \in 0 .. 15 : ~On(0, k)
<1> DEFINE A(x, S) == \A k \in 0 .. 15 : On(x, k) <=> k \in S
<1>0. \A S : A(Num(S), S)
  BY BitsOfNum, Zenon DEF On
<1> HIDE DEF A
<1>1. Num({5, 6, 7}) = 224 /\ Num({0, 1, 2, 3, 4}) = 31 /\ Num({4}) = 16
  BY DEF Num
<1>2. Num({0, 1, 2, 3, 5, 6, 7}) = 239 /\ Num({0, 1, 2, 3}) = 15 /\ Num({4, 5, 6, 7}) = 240
  BY DEF Num
<1>3. Num({0, 1, 2}) = 7 /\ Num({3, 4, 5, 6, 7}) = 248 /\ Num({6, 7}) = 192
  BY DEF Num
<1>4. Num({0, 1, 2, 3, 4, 5}) = 63 /\ Num({0, 1, 2, 3, 4, 5, 6, 7}) = 255 /\ Num({}) = 0
  BY DEF Num
<1>5. A(224, {5, 6, 7}) /\ A(31, {0, 1, 2, 3, 4}) /\ A(16, {4})
  BY <1>0, <1>1
<1>6. A(239, {0, 1, 2, 3, 5, 6, 7}) /\ A(15, {0, 1, 2, 3}) /\ A(240, {4, 5, 6, 7})
  BY <1>0, <1>2
<1>7. A(7, {0, 1, 2}) /\ A(248, {3, 4, 5, 6, 7}) /\ A(192, {6, 7})
  BY <1>0, <1>3
<1>8. A(63, {0, 1, 2, 3, 4, 5}) /\ A(255, {0, 1, 2, 3, 4, 5, 6, 7}) /\ A(0, {})
  BY <1>0, <1>4
<1>9. QED
  BY <1>5, <1>6, <1>7, <1>8 DEF A

LEMMA AndOctet == ASSUME NEW x, NEW m, IsOctet(x) PROVE IsOctet(And(x, m))
<1>1. \A k \in 8 .. 15 : k \in 0 .. 15
  OBVIOUS
<1>2. \A k \in 8 .. 15 : ~On(x, k)
  BY OctetBits DEF On
<1>3. \A k \in 8 .. 15 : ~On(And(x, m), k)
  BY <1>1, <1>2, AndBits
<1>4. QED
  BY <1>3, AndBits, OctetBits DEF On

LEMMA OrOctet == ASSUME NEW x, NEW y, IsOctet(x), IsOctet(y) PROVE IsOctet(Or(x, y))
<1>1. \A k \in 8 .. 15 : k \in 0 .. 15
  OBVIOUS
<1>2. \A k \in 8 .. 15 : ~On(x, k) /\ ~On(y, k)
  BY OctetBits DEF On
<1>3. \A k \in 8 .. 15 : ~On(Or(x, y), k)
  BY <1>1, <1>2, OrBits
<1>4. QED
  BY <1>3, OrBits, OctetBits DEF On

\* Masks and shifts as divisions.
LEMMA Masked ==
  ASSUME NEW y, IsOctet(y)
  PROVE  /\ And(y, 224) \div 32 = y \div 32
         /\ And(y, 16) \div 16 = (y \div 16) % 2
         /\ And(y, 15) \div 8 = (y \div 8) % 2
         /\ And(y, 7) = y % 8
         /\ And(y, 192) \div 64 = y \div 64
         /\ And(y, 63) = y % 64
         /\ And(y, 255) = y
         /\ And(y, 240) \div 16 = y \div 16
         /\ And(y, 15) = y % 16
<1>0. \A m : IsOctet(And(y, m)) /\ \A k \in 0 .. 15 : B(And(y, m), k) = IF On(m, k) THEN B(y, k) ELSE 0
  BY AndOctet, AndBits, Zenon DEF B
<1>k. /\ 0 \in 0 .. 15 /\ 1 \in 0 .. 15 /\ 2 \in 0 .. 15 /\ 3 \in 0 .. 15
      /\ 4 \in 0 .. 15 /\ 5 \in 0 .. 15 /\ 6 \in 0 .. 15 /\ 7 \in 0 .. 15
  OBVIOUS
<1>1. And(y, 224) \div 32 = y \div 32
  BY <1>0, <1>k, MaskBits, Parts
<1>2. And(y, 16) \div 16 = (y \div 16) % 2
  <2> DEFINE z == And(y, 16)
  <2>1. IsOctet(z) /\ B(z, 4) = B(y, 4) /\ B(z, 5) = 0 /\ B(z, 6) = 0 /\ B(z, 7) = 0
    BY <1>0, <1>k, MaskBits
  <2> HIDE DEF z
  <2>2. z \div 16 = B(y, 4)
    BY <2>1, Parts, BitType
  <2>3. QED
    BY <2>2, Parts DEF z
<1>3. And(y, 15) \div 8 = (y \div 8) % 2
  <2> DEFINE z == And(y, 15)
  <2>1. IsOctet(z) /\ B(z, 3) = B(y, 3) /\ B(z, 4) = 0 /\ B(z, 5) = 0 /\ B(z, 6) = 0 /\ B(z, 7) = 0
    BY <1>0, <1>k, MaskBits
  <2> HIDE DEF z
  <2>2. (z \div 8) % 2 = B(y, 3) /\ z \div 16 = 0
    BY <2>1, Parts
  <2>3. z \div 8 = B(y, 3)
    BY <2>1, <2>2 DEF IsOctet
  <2>4. QED
    BY <2>3, Parts DEF z
<1>4. And(y, 7) = y % 8
  <2> DEFINE z == And(y, 7)
  <2>1. IsOctet(z) /\ B(z, 0) = B(y, 0) /\ B(z, 1) = B(y, 1) /\ B(z, 2) = B(y, 2)
        /\ B(z, 3) = 0 /\ B(z, 4) = 0 /\ B(z, 5) = 0 /\ B(z, 6) = 0 /\ B(z, 7) = 0
    BY <1>0, <1>k, MaskBits
  <2> HIDE DEF z
  <2>2. QED
    BY <2>1, OctetSum, Parts, BitType DEF z
<1>5. And(y, 192) \div 64 = y \div 64
  BY <1>0, <1>k, MaskBits, Parts
<1>6. And(y, 63) = y % 64
  <2> DEFINE z == And(y, 63)
  <2>1. IsOctet(z) /\ B(z, 0) = B(y, 0) /\ B(z, 1) = B(y, 1) /\ B(z, 2) = B(y, 2)
        /\ B(z, 3) = B(y, 3) /\ B(z, 4) = B(y, 4) /\ B(z, 5) = B(y, 5) /\ B(z, 6) = 0 /\ B(z, 7) = 0
    BY <1>0, <1>k, MaskBits
  <2> HIDE DEF z
  <2>2. QED
    BY <2>1, OctetSum, Parts, BitType DEF z
<1>7. And(y, 255) = y
  <2> DEFINE z == And(y, 255)
  <2>1. IsOctet(z) /\ B(z, 0) = B(y, 0) /\ B(z, 1) = B(y, 1) /\ B(z, 2) = B(y, 2)
        /\ B(z, 3) = B(y, 3) /\ B(z, 4) = B(y, 4) /\ B(z, 5) = B(y, 5) /\ B(z, 6) = B(y, 6) /\ B(z, 7) = B(y, 7)
    BY <1>0, <1>k, MaskBits
  <2> HIDE DEF z
  <2>2. QED
    BY <2>1, OctetSum DEF z
<1>8. And(y, 240) \div 16 = y \div 16
  BY <1>0, <1>k, MaskBits, Parts
<1>9. And(y, 15) = y % 16
  <2> DEFINE z == And(y, 15)
  <2>1. IsOctet(z) /\ B(z, 0) = B(y, 0) /\ B(z, 1) = B(y, 1) /\ B(z, 2) = B(y, 2) /\ B(z, 3) = B(y, 3)
        /\ B(z, 4) = 0 /\ B(z, 5) = 0 /\ B(z, 6) = 0 /\ B(z, 7) = 0
    BY <1>0, <1>k, MaskBits
  <2> HIDE DEF z
  <2>2. QED
    BY <2>1, OctetSum, Parts, BitType DEF z
<1>10. QED
  BY <1>1, <1>2, <1>3, <1>4, <1>5, <1>6, <1>7, <1>8, <1>9

\* An octet with t put over the bits that the mask leaves.
Merged(x, mask, t) == Or(And(x, mask), t)

LEMMA MergedBits ==
  ASSUME NEW x, NEW mask, NEW t, IsOctet(x), IsOctet(t)
  PROVE  /\ IsOctet(Merged(x, mask, t))
         /\ \A k \in 0 .. 7 : B(Merged(x, mask, t), k) = IF On(mask, k) /\ B(x, k) = 1 THEN 1 ELSE B(t, k)
<1>1. \A k \in 0 .. 7 : k \in 0 .. 15
  OBVIOUS
<1>2. \A k \in 0 .. 7 : On(Merged(x, mask, t), k) <=> ((On(x, k) /\ On(mask, k)) \/ On(t, k))
  BY <1>1, AndBits, OrBits DEF Merged
<1>3. IsOctet(Merged(x, mask, t))
  BY AndOctet, OrOctet DEF Merged
<1>4. QED
  BY <1>2, <1>3 DEF B

\* ccsds_set_pkt_version
LEMMA MergeVersion ==
  ASSUME NEW x, NEW t, IsOctet(x), IsOctet(t), (t \div 16) % 2 = 0, t % 16 = 0
  PROVE  LET y == Merged(x, 31, t) IN IsOctet(y) /\ y \div 32 = t \div 32 /\ (y \div 16) % 2 = (x \div 16) % 2 /\ (y \div 8) % 2 = (x \div 8) % 2 /\ y % 8 = x % 8
<1> DEFINE y == Merged(x, 31, t)
<1>k. /\ 0 \in 0 .. 7 /\ 1 \in 0 .. 7 /\ 2 \in 0 .. 7 /\ 3 \in 0 .. 7
      /\ 4 \in 0 .. 7 /\ 5 \in 0 .. 7 /\ 6 \in 0 .. 7 /\ 7 \in 0 .. 7
      /\ \A k \in 0 .. 7 : k \in 0 .. 15
  OBVIOUS
<1>2. B(t, 0) = 0 /\ B(t, 1) = 0 /\ B(t, 2) = 0 /\ B(t, 3) = 0 /\ B(t, 4) = 0
  BY Parts, BitType
<1>3. IsOctet(y) /\ \A k \in 0 .. 7 : B(y, k) = IF On(31, k) /\ B(x, k) = 1 THEN 1 ELSE B(t, k)
  BY MergedBits
<1> HIDE DEF y
<1>4. /\ B(y, 0) = B(x, 0)
      /\ B(y, 1) = B(x, 1)
      /\ B(y, 2) = B(x, 2)
      /\ B(y, 3) = B(x, 3)
      /\ B(y, 4) = B(x, 4)
      /\ B(y, 5) = B(t, 5)
      /\ B(y, 6) = B(t, 6)
      /\ B(y, 7) = B(t, 7)
  BY <1>k, <1>2, <1>3, MaskBits, BitType
<1>5. QED
  BY <1>3, <1>4, Parts DEF y

\* ccsds_set_pkt_type
LEMMA MergeType ==
  ASSUME NEW x, NEW t, IsOctet(x), IsOctet(t), t \div 32 = 0, t % 16 = 0
  PROVE  LET y == Merged(x, 239, t) IN IsOctet(y) /\ y \div 32 = x \div 32 /\ (y \div 16) % 2 = (t \div 16) % 2 /\ (y \div 8) % 2 = (x \div 8) % 2 /\ y % 8 = x % 8
<1> DEFINE y == Merged(x, 239, t)
<1>k. /\ 0 \in 0 .. 7 /\ 1 \in 0 .. 7 /\ 2 \in 0 .. 7 /\ 3 \in 0 .. 7
      /\ 4 \in 0 .. 7 /\ 5 \in 0 .. 7 /\ 6 \in 0 .. 7 /\ 7 \in 0 .. 7
      /\ \A k \in 0 .. 7 : k \in 0 .. 15
  OBVIOUS
<1>2. B(t, 0) = 0 /\ B(t, 1) = 0 /\ B(t, 2) = 0 /\ B(t, 3) = 0 /\ B(t, 5) = 0 /\ B(t, 6) = 0 /\ B(t, 7) = 0
  <2>1. 0 = B(t, 0) + 2 * B(t, 1) + 4 * B(t, 2) + 8 * B(t, 3)
    BY Parts
  <2>2. 0 = B(t, 5) + 2 * B(t, 6) + 4 * B(t, 7)
    BY Parts
  <2>3. QED
    BY <2>1, <2>2, BitType
<1>3. IsOctet(y) /\ \A k \in 0 .. 7 : B(y, k) = IF On(239, k) /\ B(x, k) = 1 THEN 1 ELSE B(t, k)
  BY MergedBits
<1> HIDE DEF y
<1>4. /\ B(y, 0) = B(x, 0)
      /\ B(y, 1) = B(x, 1)
      /\ B(y, 2) = B(x, 2)
      /\ B(y, 3) = B(x, 3)
      /\ B(y, 5) = B(x, 5)
      /\ B(y, 6) = B(x, 6)
      /\ B(y, 7) = B(x, 7)
      /\ B(y, 4) = B(t, 4)
  BY <1>k, <1>2, <1>3, MaskBits, BitType
<1>5. QED
  BY <1>3, <1>4, Parts DEF y

\* ccsds_set_2nd_hdr_flag
LEMMA MergeFlag ==
  ASSUME NEW x, NEW t, IsOctet(x), IsOctet(t), t \div 16 = 0
  PROVE  LET y == Merged(x, 240, t) IN IsOctet(y) /\ y \div 32 = x \div 32 /\ (y \div 16) % 2 = (x \div 16) % 2 /\ (y \div 8) % 2 = (t \div 8) % 2
<1> DEFINE y == Merged(x, 240, t)
<1>k. /\ 0 \in 0 .. 7 /\ 1 \in 0 .. 7 /\ 2 \in 0 .. 7 /\ 3 \in 0 .. 7
      /\ 4 \in 0 .. 7 /\ 5 \in 0 .. 7 /\ 6 \in 0 .. 7 /\ 7 \in 0 .. 7
      /\ \A k \in 0 .. 7 : k \in 0 .. 15
  OBVIOUS
<1>2. B(t, 4) = 0 /\ B(t, 5) = 0 /\ B(t, 6) = 0 /\ B(t, 7) = 0
  BY Parts, BitType
<1>3. IsOctet(y) /\ \A k \in 0 .. 7 : B(y, k) = IF On(240, k) /\ B(x, k) = 1 THEN 1 ELSE B(t, k)
  BY MergedBits
<1> HIDE DEF y
<1>4. /\ B(y, 4) = B(x, 4)
      /\ B(y, 5) = B(x, 5)
      /\ B(y, 6) = B(x, 6)
      /\ B(y, 7) = B(x, 7)
      /\ B(y, 0) = B(t, 0)
      /\ B(y, 1) = B(t, 1)
      /\ B(y, 2) = B(t, 2)
      /\ B(y, 3) = B(t, 3)
  BY <1>k, <1>2, <1>3, MaskBits, BitType
<1>5. QED
  BY <1>3, <1>4, Parts DEF y

\* ccsds_set_apid, first octet
LEMMA MergeApid ==
  ASSUME NEW x, NEW t, IsOctet(x), IsOctet(t), t \div 16 = 0, (t \div 8) % 2 = 0
  PROVE  LET y == Merged(x, 248, t) IN IsOctet(y) /\ y \div 32 = x \div 32 /\ (y \div 16) % 2 = (x \div 16) % 2 /\ (y \div 8) % 2 = (x \div 8) % 2 /\ y % 8 = t % 8
<1> DEFINE y == Merged(x, 248, t)
<1>k. /\ 0 \in 0 .. 7 /\ 1 \in 0 .. 7 /\ 2 \in 0 .. 7 /\ 3 \in 0 .. 7
      /\ 4 \in 0 .. 7 /\ 5 \in 0 .. 7 /\ 6 \in 0 .. 7 /\ 7 \in 0 .. 7
      /\ \A k \in 0 .. 7 : k \in 0 .. 15
  OBVIOUS
<1>2. B(t, 3) = 0 /\ B(t, 4) = 0 /\ B(t, 5) = 0 /\ B(t, 6) = 0 /\ B(t, 7) = 0
  BY Parts, BitType
<1>3. IsOctet(y) /\ \A k \in 0 .. 7 : B(y, k) = IF On(248, k) /\ B(x, k) = 1 THEN 1 ELSE B(t, k)
  BY MergedBits
<1> HIDE DEF y
<1>4. /\ B(y, 3) = B(x, 3)
      /\ B(y, 4) = B(x, 4)
      /\ B(y, 5) = B(x, 5)
      /\ B(y, 6) = B(x, 6)
      /\ B(y, 7) = B(x, 7)
      /\ B(y, 0) = B(t, 0)
      /\ B(y, 1) = B(t, 1)
      /\ B(y, 2) = B(t, 2)
  BY <1>k, <1>2, <1>3, MaskBits, BitType
<1>5. QED
  BY <1>3, <1>4, Parts DEF y

\* ccsds_set_seq_flags
LEMMA MergeSeqFlags ==
  ASSUME NEW x, NEW t, IsOctet(x), IsOctet(t), t % 64 = 0
  PROVE  LET y == Merged(x, 63, t) IN IsOctet(y) /\ y \div 64 = t \div 64 /\ y % 64 = x % 64
<1> DEFINE y == Merged(x, 63, t)
<1>k. /\ 0 \in 0 .. 7 /\ 1 \in 0 .. 7 /\ 2 \in 0 .. 7 /\ 3 \in 0 .. 7
      /\ 4 \in 0 .. 7 /\ 5 \in 0 .. 7 /\ 6 \in 0 .. 7 /\ 7 \in 0 .. 7
      /\ \A k \in 0 .. 7 : k \in 0 .. 15
  OBVIOUS
<1>2. B(t, 0) = 0 /\ B(t, 1) = 0 /\ B(t, 2) = 0 /\ B(t, 3) = 0 /\ B(t, 4) = 0 /\ B(t, 5) = 0
  BY Parts, BitType
<1>3. IsOctet(y) /\ \A k \in 0 .. 7 : B(y, k) = IF On(63, k) /\ B(x, k) = 1 THEN 1 ELSE B(t, k)
  BY MergedBits
<1> HIDE DEF y
<1>4. /\ B(y, 0) = B(x, 0)
      /\ B(y, 1) = B(x, 1)
      /\ B(y, 2) = B(x, 2)
      /\ B(y, 3) = B(x, 3)
      /\ B(y, 4) = B(x, 4)
      /\ B(y, 5) = B(x, 5)
      /\ B(y, 6) = B(t, 6)
      /\ B(y, 7) = B(t, 7)
  BY <1>k, <1>2, <1>3, MaskBits, BitType
<1>5. QED
  BY <1>3, <1>4, Parts DEF y

\* ccsds_set_seq_cnt, first octet
LEMMA MergeSeqCnt ==
  ASSUME NEW x, NEW t, IsOctet(x), IsOctet(t), t \div 64 = 0
  PROVE  LET y == Merged(x, 192, t) IN IsOctet(y) /\ y \div 64 = x \div 64 /\ y % 64 = t % 64
<1> DEFINE y == Merged(x, 192, t)
<1>k. /\ 0 \in 0 .. 7 /\ 1 \in 0 .. 7 /\ 2 \in 0 .. 7 /\ 3 \in 0 .. 7
      /\ 4 \in 0 .. 7 /\ 5 \in 0 .. 7 /\ 6 \in 0 .. 7 /\ 7 \in 0 .. 7
      /\ \A k \in 0 .. 7 : k \in 0 .. 15
  OBVIOUS
<1>2. B(t, 6) = 0 /\ B(t, 7) = 0
  BY Parts, BitType
<1>3. IsOctet(y) /\ \A k \in 0 .. 7 : B(y, k) = IF On(192, k) /\ B(x, k) = 1 THEN 1 ELSE B(t, k)
  BY MergedBits
<1> HIDE DEF y
<1>4. /\ B(y, 6) = B(x, 6)
      /\ B(y, 7) = B(x, 7)
      /\ B(y, 0) = B(t, 0)
      /\ B(y, 1) = B(t, 1)
      /\ B(y, 2) = B(t, 2)
      /\ B(y, 3) = B(t, 3)
      /\ B(y, 4) = B(t, 4)
      /\ B(y, 5) = B(t, 5)
  BY <1>k, <1>2, <1>3, MaskBits, BitType
<1>5. QED
  BY <1>3, <1>4, Parts DEF y

\* ecss_set_pkt_version
LEMMA MergePus ==
  ASSUME NEW x, NEW t, IsOctet(x), IsOctet(t), t % 16 = 0
  PROVE  LET y == Merged(x, 15, t) IN IsOctet(y) /\ y \div 16 = t \div 16 /\ y % 16 = x % 16
<1> DEFINE y == Merged(x, 15, t)
<1>k. /\ 0 \in 0 .. 7 /\ 1 \in 0 .. 7 /\ 2 \in 0 .. 7 /\ 3 \in 0 .. 7
      /\ 4 \in 0 .. 7 /\ 5 \in 0 .. 7 /\ 6 \in 0 .. 7 /\ 7 \in 0 .. 7
      /\ \A k \in 0 .. 7 : k \in 0 .. 15
  OBVIOUS
<1>2. B(t, 0) = 0 /\ B(t, 1) = 0 /\ B(t, 2) = 0 /\ B(t, 3) = 0
  BY Parts, BitType
<1>3. IsOctet(y) /\ \A k \in 0 .. 7 : B(y, k) = IF On(15, k) /\ B(x, k) = 1 THEN 1 ELSE B(t, k)
  BY MergedBits
<1> HIDE DEF y
<1>4. /\ B(y, 0) = B(x, 0)
      /\ B(y, 1) = B(x, 1)
      /\ B(y, 2) = B(x, 2)
      /\ B(y, 3) = B(x, 3)
      /\ B(y, 4) = B(t, 4)
      /\ B(y, 5) = B(t, 5)
      /\ B(y, 6) = B(t, 6)
      /\ B(y, 7) = B(t, 7)
  BY <1>k, <1>2, <1>3, MaskBits, BitType
<1>5. QED
  BY <1>3, <1>4, Parts DEF y

\* ecss_set_ack_flags, and ecss_set_sc_time_ref_status if its argument fits
LEMMA MergeAck ==
  ASSUME NEW x, NEW t, IsOctet(x), IsOctet(t), t \div 16 = 0
  PROVE  LET y == Merged(x, 240, t) IN IsOctet(y) /\ y \div 16 = x \div 16 /\ y % 16 = t % 16
<1> DEFINE y == Merged(x, 240, t)
<1>k. /\ 0 \in 0 .. 7 /\ 1 \in 0 .. 7 /\ 2 \in 0 .. 7 /\ 3 \in 0 .. 7
      /\ 4 \in 0 .. 7 /\ 5 \in 0 .. 7 /\ 6 \in 0 .. 7 /\ 7 \in 0 .. 7
      /\ \A k \in 0 .. 7 : k \in 0 .. 15
  OBVIOUS
<1>2. B(t, 4) = 0 /\ B(t, 5) = 0 /\ B(t, 6) = 0 /\ B(t, 7) = 0
  BY Parts, BitType
<1>3. IsOctet(y) /\ \A k \in 0 .. 7 : B(y, k) = IF On(240, k) /\ B(x, k) = 1 THEN 1 ELSE B(t, k)
  BY MergedBits
<1> HIDE DEF y
<1>4. /\ B(y, 4) = B(x, 4)
      /\ B(y, 5) = B(x, 5)
      /\ B(y, 6) = B(x, 6)
      /\ B(y, 7) = B(x, 7)
      /\ B(y, 0) = B(t, 0)
      /\ B(y, 1) = B(t, 1)
      /\ B(y, 2) = B(t, 2)
      /\ B(y, 3) = B(t, 3)
  BY <1>k, <1>2, <1>3, MaskBits, BitType
<1>5. QED
  BY <1>3, <1>4, Parts DEF y

\* ecss_set_sc_time_ref_status: the low four bits are those of its argument
LEMMA MergeTimeRef ==
  ASSUME NEW x, NEW t, IsOctet(x), IsOctet(t)
  PROVE  LET y == Merged(x, 240, t) IN IsOctet(y) /\ y % 16 = t % 16
<1> DEFINE y == Merged(x, 240, t)
<1>k. /\ 0 \in 0 .. 7 /\ 1 \in 0 .. 7 /\ 2 \in 0 .. 7 /\ 3 \in 0 .. 7
      /\ 4 \in 0 .. 7 /\ 5 \in 0 .. 7 /\ 6 \in 0 .. 7 /\ 7 \in 0 .. 7
      /\ \A k \in 0 .. 7 : k \in 0 .. 15
  OBVIOUS
<1>3. IsOctet(y) /\ \A k \in 0 .. 7 : B(y, k) = IF On(240, k) /\ B(x, k) = 1 THEN 1 ELSE B(t, k)
  BY MergedBits
<1> HIDE DEF y
<1>4. /\ B(y, 0) = B(t, 0)
      /\ B(y, 1) = B(t, 1)
      /\ B(y, 2) = B(t, 2)
      /\ B(y, 3) = B(t, 3)
  BY <1>k, <1>3, MaskBits, BitType
<1>5. QED
  BY <1>3, <1>4, Parts DEF y

\* Four bits are determined by their sum.
LEMMA FourBits ==
  ASSUME NEW b0 \in {0, 1}, NEW b1 \in {0, 1}, NEW b2 \in {0, 1}, NEW b3 \in {0, 1},
         NEW c0 \in {0, 1}, NEW c1 \in {0, 1}, NEW c2 \in {0, 1}, NEW c3 \in {0, 1},
         b0 + 2 * b1 + 4 * b2 + 8 * b3 = c0 + 2 * c1 + 4 * c2 + 8 * c3
  PROVE  b0 = c0 /\ b1 = c1 /\ b2 = c2 /\ b3 = c3
BY SMT

\* The high half of an octet has its high bits.
LEMMA HighHalf ==
  ASSUME NEW y, IsOctet(y)
  PROVE  /\ IsOctet(y \div 16) /\ y \div 16 < 16
         /\ B(y \div 16, 0) = B(y, 4) /\ B(y \div 16, 1) = B(y, 5)
         /\ B(y \div 16, 2) = B(y, 6) /\ B(y \div 16, 3) = B(y, 7)
<1> DEFINE h == y \div 16
           b(k) == B(y, k)
           c(k) == B(h, k)
<1>1. IsOctet(h) /\ h < 16 /\ h % 16 = h
  BY DEF IsOctet
<1>2. /\ b(4) \in {0, 1} /\ b(5) \in {0, 1} /\ b(6) \in {0, 1} /\ b(7) \in {0, 1}
      /\ c(0) \in {0, 1} /\ c(1) \in {0, 1} /\ c(2) \in {0, 1} /\ c(3) \in {0, 1}
  BY BitType
<1>3. h = b(4) + 2 * b(5) + 4 * b(6) + 8 * b(7)
  BY Parts
<1> HIDE DEF h
<1>4. h % 16 = c(0) + 2 * c(1) + 4 * c(2) + 8 * c(3)
  BY <1>1, Parts
<1> HIDE DEF b, c
<1>5. c(0) = b(4) /\ c(1) = b(5) /\ c(2) = b(6) /\ c(3) = b(7)
  <2>1. c(0) + 2 * c(1) + 4 * c(2) + 8 * c(3) = b(4) + 2 * b(5) + 4 * b(6) + 8 * b(7)
    BY <1>1, <1>3, <1>4
  <2>2. QED
    BY <1>2, <2>1, FourBits
<1>6. QED
  BY <1>1, <1>5 DEF b, c, h

\* ... and the high four bits of it are put over the PUS version
LEMMA MergeOverPus ==
  ASSUME NEW x, NEW t, IsOctet(x), IsOctet(t)
  PROVE  Merged(x, 240, t) \div 16 = Or(x \div 16, t \div 16)
<1> DEFINE y == Merged(x, 240, t)
           m == x \div 16
           n == t \div 16
           z == Or(m, n)
<1>k. /\ 0 \in 0 .. 7 /\ 1 \in 0 .. 7 /\ 2 \in 0 .. 7 /\ 3 \in 0 .. 7
      /\ 4 \in 0 .. 7 /\ 5 \in 0 .. 7 /\ 6 \in 0 .. 7 /\ 7 \in 0 .. 7
      /\ \A k \in 0 .. 7 : k \in 0 .. 15
  OBVIOUS
<1>1. IsOctet(y) /\ \A k \in 0 .. 7 : B(y, k) = IF On(240, k) /\ B(x, k) = 1 THEN 1 ELSE B(t, k)
  BY MergedBits
<1>2. /\ IsOctet(m) /\ m < 16
      /\ B(m, 0) = B(x, 4) /\ B(m, 1) = B(x, 5) /\ B(m, 2) = B(x, 6) /\ B(m, 3) = B(x, 7)
  BY HighHalf
<1>3. /\ IsOctet(n) /\ n < 16
      /\ B(n, 0) = B(t, 4) /\ B(n, 1) = B(t, 5) /\ B(n, 2) = B(t, 6) /\ B(n, 3) = B(t, 7)
  BY HighHalf
<1> HIDE DEF y, m, n
<1>4. IsOctet(z) /\ \A k \in 0 .. 7 : B(z, k) = IF B(m, k) = 1 THEN 1 ELSE B(n, k)
  <2>1. IsOctet(z)
    BY <1>2, <1>3, OrOctet
  <2>2. \A k \in 0 .. 7 : On(z, k) <=> (On(m, k) \/ On(n, k))
    BY <1>k, OrBits
  <2>3. QED
    BY <2>1, <2>2 DEF B
<1> HIDE DEF z
<1>5. /\ m \div 16 = 0 /\ n \div 16 = 0
      /\ m \div 16 = B(m, 4) + 2 * B(m, 5) + 4 * B(m, 6) + 8 * B(m, 7)
      /\ n \div 16 = B(n, 4) + 2 * B(n, 5) + 4 * B(n, 6) + 8 * B(n, 7)
  <2>1. m \div 16 = 0 /\ n \div 16 = 0
    BY <1>2, <1>3 DEF IsOctet
  <2>2. QED
    BY <1>2, <1>3, <2>1, Parts
<1>6. /\ B(m, 4) = 0 /\ B(m, 5) = 0 /\ B(m, 6) = 0 /\ B(m, 7) = 0
      /\ B(n, 4) = 0 /\ B(n, 5) = 0 /\ B(n, 6) = 0 /\ B(n, 7) = 0
  BY <1>5, BitType
<1>7. B(z, 4) = 0 /\ B(z, 5) = 0 /\ B(z, 6) = 0 /\ B(z, 7) = 0
  BY <1>k, <1>4, <1>6
<1>8. B(z, 0) = B(y, 4) /\ B(z, 1) = B(y, 5) /\ B(z, 2) = B(y, 6) /\ B(z, 3) = B(y, 7)
  BY <1>k, <1>1, <1>2, <1>3, <1>4, MaskBits
<1>9. z = B(z, 0) + 2 * B(z, 1) + 4 * B(z, 2) + 8 * B(z, 3)
  <2>1. z \div 16 = 0 /\ z % 16 = B(z, 0) + 2 * B(z, 1) + 4 * B(z, 2) + 8 * B(z, 3)
    BY <1>4, <1>7, Parts
  <2>2. z \in Nat
    BY <1>4 DEF IsOctet
  <2>3. z = z % 16
    BY <2>1, <2>2
  <2>4. QED
    BY <2>1, <2>3
<1>10. y \div 16 = B(y, 4) + 2 * B(y, 5) + 4 * B(y, 6) + 8 * B(y, 7)
  BY <1>1, Parts
<1>11. QED
  BY <1>8, <1>9, <1>10 DEF y, z, m, n

\* a whole octet
LEMMA MergeOctet ==
  ASSUME NEW x, NEW t, IsOctet(x), IsOctet(t)
  PROVE  LET y == Merged(x, 0, t) IN IsOctet(y) /\ y = t
<1> DEFINE y == Merged(x, 0, t)
<1>k. /\ 0 \in 0 .. 7 /\ 1 \in 0 .. 7 /\ 2 \in 0 .. 7 /\ 3 \in 0 .. 7
      /\ 4 \in 0 .. 7 /\ 5 \in 0 .. 7 /\ 6 \in 0 .. 7 /\ 7 \in 0 .. 7
      /\ \A k \in 0 .. 7 : k \in 0 .. 15
  OBVIOUS
<1>3. IsOctet(y) /\ \A k \in 0 .. 7 : B(y, k) = IF On(0, k) /\ B(x, k) = 1 THEN 1 ELSE B(t, k)
  BY MergedBits
<1> HIDE DEF y
<1>4. /\ B(y, 0) = B(t, 0)
      /\ B(y, 1) = B(t, 1)
      /\ B(y, 2) = B(t, 2)
      /\ B(y, 3) = B(t, 3)
      /\ B(y, 4) = B(t, 4)
      /\ B(y, 5) = B(t, 5)
      /\ B(y, 6) = B(t, 6)
      /\ B(y, 7) = B(t, 7)
  BY <1>k, <1>3, MaskBits, BitType
<1>5. QED
  BY <1>3, <1>4, Parts, OctetSum DEF y

Buffers == [Octets -> 0 .. 255]

\* The fields of a buffer of octets, in numbers.
LEMMA RawOctets ==
  ASSUME NEW p \in Buffers
  PROVE  /\ Raw(p, "version") = p[0] \div 32
         /\ Raw(p, "type") = (p[0] \div 16) % 2
         /\ Raw(p, "flag") = (p[0] \div 8) % 2
         /\ Raw(p, "apid") = (p[0] % 8) * 256 + p[1]
         /\ Raw(p, "seq_flags") = p[2] \div 64
         /\ Raw(p, "seq_cnt") = (p[2] % 64) * 256 + p[3]
         /\ Raw(p, "data_len") = p[4] * 256 + p[5]
         /\ Raw(p, "pus") = p[6] \div 16
         /\ Raw(p, "time_ref") = p[6] % 16
         /\ Raw(p, "ack") = p[6] % 16
         /\ Raw(p, "st") = p[7]
         /\ Raw(p, "sst") = p[8]
         /\ Raw(p, "msg_cntr") = p[9] * 256 + p[10]
         /\ Raw(p, "dest") = p[11] * 256 + p[12]
         /\ Raw(p, "source") = p[9] * 256 + p[10]
         /\ Raw(p, "time") = IF \A j \in 1 .. 5 : p[13 + j] = Follow("time", p[13], j)
                             THEN p[13] ELSE Garbled
<1>1. \A k \in 0 .. 18 : IsOctet(p[k])
  <2> SUFFICES ASSUME NEW k \in 0 .. 18 PROVE IsOctet(p[k])
    OBVIOUS
  <2>1. p[k] \in 0 .. 255
    BY Zenon DEF Buffers, Octets
  <2>2. QED
    BY <2>1 DEF IsOctet
<1>k. /\ 0 \in 0 .. 18 /\ 2 \in 0 .. 18 /\ 4 \in 0 .. 18 /\ 6 \in 0 .. 18 /\ 7 \in 0 .. 18
      /\ 8 \in 0 .. 18 /\ 9 \in 0 .. 18 /\ 11 \in 0 .. 18 /\ 13 \in 0 .. 18
  OBVIOUS
<1>2. /\ IsOctet(p[0]) /\ IsOctet(p[2]) /\ IsOctet(p[4]) /\ IsOctet(p[6]) /\ IsOctet(p[7])
      /\ IsOctet(p[8]) /\ IsOctet(p[9]) /\ IsOctet(p[11]) /\ IsOctet(p[13])
  BY <1>1, <1>k, Zenon
<1>3. /\ And(p[0], 224) \div 32 = p[0] \div 32 /\ And(p[0], 16) \div 16 = (p[0] \div 16) % 2
      /\ And(p[0], 15) \div 8 = (p[0] \div 8) % 2 /\ And(p[0], 7) = p[0] % 8
  BY <1>2, Masked
<1>4. /\ And(p[2], 192) \div 64 = p[2] \div 64 /\ And(p[2], 63) = p[2] % 64
      /\ And(p[6], 240) \div 16 = p[6] \div 16 /\ And(p[6], 15) = p[6] % 16
  BY <1>2, Masked
<1>5. /\ And(p[4], 255) = p[4] /\ And(p[7], 255) = p[7] /\ And(p[8], 255) = p[8]
      /\ And(p[9], 255) = p[9] /\ And(p[11], 255) = p[11] /\ And(p[13], 255) = p[13]
  BY <1>2, Masked
<1>6. /\ Raw(p, "version") = p[0] \div 32 /\ Raw(p, "type") = (p[0] \div 16) % 2
      /\ Raw(p, "flag") = (p[0] \div 8) % 2 /\ Raw(p, "apid") = (p[0] % 8) * 256 + p[1]
  BY <1>3, RawIs
<1>7. /\ Raw(p, "seq_flags") = p[2] \div 64 /\ Raw(p, "seq_cnt") = (p[2] % 64) * 256 + p[3]
      /\ Raw(p, "pus") = p[6] \div 16 /\ Raw(p, "time_ref") = p[6] % 16 /\ Raw(p, "ack") = p[6] % 16
  BY <1>4, RawIs
<1>8. /\ Raw(p, "data_len") = p[4] * 256 + p[5] /\ Raw(p, "st") = p[7] /\ Raw(p, "sst") = p[8]
      /\ Raw(p, "msg_cntr") = p[9] * 256 + p[10] /\ Raw(p, "dest") = p[11] * 256 + p[12]
      /\ Raw(p, "source") = p[9] * 256 + p[10]
  BY <1>5, RawIs
<1>9. Raw(p, "time") = IF \A j \in 1 .. 5 : p[13 + j] = Follow("time", p[13], j)
                       THEN p[13] ELSE Garbled
  BY <1>5, RawIs
<1>10. QED
  BY <1>6, <1>7, <1>8, <1>9

LEMMA LayoutIs ==
  /\ Layout["version"] = F(0, 224, 5, 0) /\ Layout["type"] = F(0, 16, 4, 0)
  /\ Layout["flag"] = F(0, 15, 3, 0)     /\ Layout["apid"] = F(0, 7, 0, 1)
  /\ Layout["seq_flags"] = F(2, 192, 6, 0) /\ Layout["seq_cnt"] = F(2, 63, 0, 1)
  /\ Layout["data_len"] = F(4, 255, 0, 1)  /\ Layout["pus"] = F(6, 240, 4, 0)
  /\ Layout["time_ref"] = F(6, 15, 0, 0)   /\ Layout["ack"] = F(6, 15, 0, 0)
  /\ Layout["st"] = F(7, 255, 0, 0)        /\ Layout["sst"] = F(8, 255, 0, 0)
  /\ Layout["msg_cntr"] = F(9, 255, 0, 1)  /\ Layout["dest"] = F(11, 255, 0, 1)
  /\ Layout["source"] = F(9, 255, 0, 1)    /\ Layout["time"] = F(13, 255, 0, 5)
BY DEF Layout

\* The first octet of each field and the last; fields that start in different
\* octets have none in common.
At(f) == Layout[f].at
More(f) == Layout[f].more

LEMMA Places ==
  ASSUME NEW f \in Fields
  PROVE  /\ f \in {"version", "type", "flag"} => At(f) = 0 /\ More(f) = 0
         /\ f = "apid" => At(f) = 0 /\ More(f) = 1
         /\ f = "seq_flags" => At(f) = 2 /\ More(f) = 0
         /\ f = "seq_cnt" => At(f) = 2 /\ More(f) = 1
         /\ f = "data_len" => At(f) = 4 /\ More(f) = 1
         /\ f \in {"pus", "time_ref", "ack"} => At(f) = 6 /\ More(f) = 0
         /\ f = "st" => At(f) = 7 /\ More(f) = 0
         /\ f = "sst" => At(f) = 8 /\ More(f) = 0
         /\ f \in {"msg_cntr", "source"} => At(f) = 9 /\ More(f) = 1
         /\ f = "dest" => At(f) = 11 /\ More(f) = 1
         /\ f = "time" => At(f) = 13 /\ More(f) = 5
BY LayoutIs DEF At, More, F

LEMMA Ends ==
  ASSUME NEW f \in Fields
  PROVE  /\ At(f) \in {0, 2, 4, 6, 7, 8, 9, 11, 13} /\ More(f) \in {0, 1, 5}
         /\ More(f) = 1 => At(f) \in {0, 2, 4, 9, 11}
         /\ More(f) = 5 => At(f) = 13
BY Places, FieldsAre

LEMMA RawFrame ==
  ASSUME NEW p, NEW q, NEW f \in Fields, \A k \in At(f) .. At(f) + More(f) : p[k] = q[k]
  PROVE  Raw(p, f) = Raw(q, f)
<1>1. At(f) \in Nat /\ More(f) \in Nat
  BY Ends
<1>2. p[At(f)] = q[At(f)] /\ \A j \in 1 .. More(f) : p[At(f) + j] = q[At(f) + j]
  BY <1>1
<1>3. More(f) = 1 => p[At(f) + 1] = q[At(f) + 1]
  BY <1>2
<1>4. QED
  BY <1>2, <1>3, Zenon DEF Raw, At, More

\* The octets after Put.
First(f, v, x) ==
    Merged(x, 255 - Layout[f].mask, ((IF More(f) = 1 THEN v \div 256 ELSE v) * 2 ^ Layout[f].shift) % 256)

LEMMA FirstIs ==
  ASSUME NEW x, NEW v \in Nat
  PROVE  /\ First("version", v, x) = Merged(x, 31, (v * 32) % 256)
         /\ First("type", v, x) = Merged(x, 239, (v * 16) % 256)
         /\ First("flag", v, x) = Merged(x, 240, (v * 8) % 256)
         /\ First("apid", v, x) = Merged(x, 248, (v \div 256) % 256)
         /\ First("seq_flags", v, x) = Merged(x, 63, (v * 64) % 256)
         /\ First("seq_cnt", v, x) = Merged(x, 192, (v \div 256) % 256)
         /\ First("pus", v, x) = Merged(x, 15, (v * 16) % 256)
         /\ First("time_ref", v, x) = Merged(x, 240, v % 256)
         /\ First("ack", v, x) = Merged(x, 240, v % 256)
         /\ First("st", v, x) = Merged(x, 0, v % 256)
         /\ First("sst", v, x) = Merged(x, 0, v % 256)
         /\ First("time", v, x) = Merged(x, 0, v % 256)
         /\ First("data_len", v, x) = Merged(x, 0, (v \div 256) % 256)
         /\ First("msg_cntr", v, x) = Merged(x, 0, (v \div 256) % 256)
         /\ First("dest", v, x) = Merged(x, 0, (v \div 256) % 256)
         /\ First("source", v, x) = Merged(x, 0, (v \div 256) % 256)
<1>0. 2 ^ 0 = 1 /\ 2 ^ 3 = 8 /\ 2 ^ 4 = 16 /\ 2 ^ 5 = 32 /\ 2 ^ 6 = 64
  OBVIOUS
<1>1. /\ First("version", v, x) = Merged(x, 31, (v * 32) % 256)
      /\ First("type", v, x) = Merged(x, 239, (v * 16) % 256)
      /\ First("flag", v, x) = Merged(x, 240, (v * 8) % 256)
      /\ First("apid", v, x) = Merged(x, 248, (v \div 256) % 256)
  BY <1>0, LayoutIs DEF First, More, F
<1>2. /\ First("seq_flags", v, x) = Merged(x, 63, (v * 64) % 256)
      /\ First("seq_cnt", v, x) = Merged(x, 192, (v \div 256) % 256)
      /\ First("pus", v, x) = Merged(x, 15, (v * 16) % 256)
      /\ First("time_ref", v, x) = Merged(x, 240, v % 256)
      /\ First("ack", v, x) = Merged(x, 240, v % 256)
  BY <1>0, LayoutIs DEF First, More, F
<1>3. /\ First("st", v, x) = Merged(x, 0, v % 256)
      /\ First("sst", v, x) = Merged(x, 0, v % 256)
      /\ First("time", v, x) = Merged(x, 0, v % 256)
  BY <1>0, LayoutIs DEF First, More, F
<1>4. /\ First("data_len", v, x) = Merged(x, 0, (v \div 256) % 256)
      /\ First("msg_cntr", v, x) = Merged(x, 0, (v \div 256) % 256)
      /\ First("dest", v, x) = Merged(x, 0, (v \div 256) % 256)
      /\ First("source", v, x) = Merged(x, 0, (v \div 256) % 256)
  BY <1>0, LayoutIs DEF First, More, F
<1>5. QED
  BY <1>1, <1>2, <1>3, <1>4

LEMMA PutFrame ==
  ASSUME NEW p \in Buffers, NEW f \in Fields, NEW v \in Nat, NEW q, q = Put(p, f, v)
  PROVE  /\ q \in Buffers
         /\ q[At(f)] = First(f, v, p[At(f)])
         /\ \A k \in At(f) + 1 .. At(f) + More(f) : q[k] = Follow(f, v, k - At(f))
         /\ \A g \in Fields : At(g) # At(f) => Raw(q, g) = Raw(p, g)
<1> DEFINE a == At(f)
           m == More(f)
<1>0. a \in 0 .. 13 /\ m \in 0 .. 5 /\ a + m <= 18
  BY Ends
<1>1. q = [k \in Octets |-> CASE k = a -> First(f, v, p[a])
                             [] k \in a + 1 .. a + m -> Follow(f, v, k - a)
                             [] OTHER -> p[k]]
  <2>1. DOMAIN p = Octets
    BY DEF Buffers
  <2>2. QED
    BY <2>1 DEF Put, First, Merged, At, More
<1> HIDE DEF a, m
<1>2. \A k \in Octets : k \in Nat /\ (k = a => ~(k \in a + 1 .. a + m))
  BY <1>0 DEF Octets
<1>3. q[a] = First(f, v, p[a])
  <2>1. a \in Octets
    BY <1>0 DEF Octets
  <2>2. QED
    BY <1>1, <1>2, <2>1, Zenon
<1>4. \A k \in a + 1 .. a + m : k \in Octets /\ k # a
  BY <1>0 DEF Octets
<1>5. \A k \in a + 1 .. a + m : q[k] = Follow(f, v, k - a)
  BY <1>1, <1>4, Zenon
<1>6. \A k \in Octets \ (a .. a + m) : q[k] = p[k]
  <2> SUFFICES ASSUME NEW k \in Octets \ (a .. a + m) PROVE q[k] = p[k]
    OBVIOUS
  <2>1. k # a /\ ~(k \in a + 1 .. a + m)
    BY <1>0, <1>2
  <2>2. QED
    BY <1>1, <2>1, Zenon
<1>7. q \in Buffers
  <2>1. IsOctet(First(f, v, p[a]))
    <3>1. IsOctet(p[a])
      <4>1. a \in Octets
        BY <1>0 DEF Octets
      <4>2. p[a] \in 0 .. 255
        BY <4>1 DEF Buffers
      <4>3. QED
        BY <4>2 DEF IsOctet
    <3>2. Layout[f].shift \in {0, 3, 4, 5, 6}
      BY FieldsAre, LayoutIs DEF F
    <3>3. 2 ^ Layout[f].shift \in Nat
      <4>0. 2 ^ 0 \in Nat /\ 2 ^ 3 \in Nat /\ 2 ^ 4 \in Nat /\ 2 ^ 5 \in Nat /\ 2 ^ 6 \in Nat
        BY 2 ^ 0 = 1, 2 ^ 3 = 8, 2 ^ 4 = 16, 2 ^ 5 = 32, 2 ^ 6 = 64
      <4>1. \A e \in {0, 3, 4, 5, 6} : 2 ^ e \in Nat
        BY <4>0, Zenon
      <4>2. QED
        BY <3>2, <4>1, Zenon
    <3> DEFINE u == (IF More(f) = 1 THEN v \div 256 ELSE v)
               w == 2 ^ Layout[f].shift
    <3>4. u \in Nat /\ w \in Nat
      BY <3>3
    <3> HIDE DEF u, w
    <3>5. IsOctet((u * w) % 256)
      <4>1. u * w \in Nat
        BY <3>4
      <4>2. QED
        BY <4>1 DEF IsOctet
    <3>6. QED
      BY <3>1, <3>5, MergedBits DEF First, u, w
  <2>2. \A k \in a + 1 .. a + m : IsOctet(Follow(f, v, k - a))
    BY <1>0 DEF Follow, IsOctet
  <2>3. \A k \in Octets : q[k] \in 0 .. 255
    <3> SUFFICES ASSUME NEW k \in Octets PROVE q[k] \in 0 .. 255
      OBVIOUS
    <3>1. CASE k = a
      BY <1>3, <2>1, <3>1 DEF IsOctet
    <3>2. CASE k \in a + 1 .. a + m
      <4>1. IsOctet(q[k])
        BY <1>5, <2>2, <3>2, Zenon
      <4>2. QED
        BY <4>1 DEF IsOctet
    <3>3. CASE ~(k \in a .. a + m)
      BY <1>6, <3>3 DEF Buffers
    <3>4. QED
      BY <1>0, <1>2, <3>1, <3>2, <3>3
  <2>4. QED
    BY <1>1, <2>3 DEF Buffers
<1>8. ASSUME NEW g \in Fields, At(g) # At(f) PROVE Raw(q, g) = Raw(p, g)
  <2>1. \A k \in At(g) .. At(g) + More(g) : k \in Octets \ (a .. a + m)
    BY <1>8, Ends DEF Octets, a, m
  <2>2. \A k \in At(g) .. At(g) + More(g) : q[k] = p[k]
    BY <1>6, <2>1
  <2>3. QED
    BY <2>2, RawFrame
<1>9. QED
  BY <1>3, <1>5, <1>7, <1>8 DEF a, m

\* The values a field of a given width holds, or the setter cuts to it.
Fits(f, v) ==
    CASE f \in {"type", "flag"}  -> v <= 1     [] f = "apid"      -> v <= 2047
      [] f = "seq_cnt"           -> v <= 16383 [] f = "seq_flags" -> v <= 3
      [] f \in {"pus", "ack"}    -> v <= 15
      [] f \in {"data_len", "msg_cntr", "dest", "source"} -> v < 65536
      [] OTHER                   -> v <= 255

Shown(f, v) == CASE f = "version" -> v % 8 [] f = "time_ref" -> v % 16 [] OTHER -> v

LEMMA OctetAt == ASSUME NEW p \in Buffers, NEW k \in Octets PROVE IsOctet(p[k])
<1>1. p[k] \in 0 .. 255
  BY DEF Buffers
<1>2. QED
  BY <1>1 DEF IsOctet

\* a setter of one octet leaves the next one alone
LEMMA PutNext ==
  ASSUME NEW p \in Buffers, NEW v
  PROVE  /\ Put(p, "version", v)[1] = p[1] /\ Put(p, "type", v)[1] = p[1]
         /\ Put(p, "flag", v)[1] = p[1] /\ Put(p, "seq_flags", v)[3] = p[3]
<1>1. DOMAIN p = Octets /\ 1 \in Octets /\ 3 \in Octets
  BY DEF Buffers, Octets
<1>2. QED
  BY <1>1, LayoutIs DEF Put, F

\* What Put does, seen through Raw: the field holds what was put there, and
\* the others but those of Beside what they held.
Beside(f) == CASE f = "time_ref" -> {"ack", "pus"}
               [] f = "ack"      -> {"time_ref"}
               [] f = "msg_cntr" -> {"source"}
               [] f = "source"   -> {"msg_cntr"}
               [] f = "flag"     -> {"apid"}
               [] OTHER          -> {}

LEMMA PutRaw ==
  ASSUME NEW p \in Buffers, NEW f \in Fields, NEW v \in Nat, Fits(f, v), NEW q, q = Put(p, f, v)
  PROVE  /\ q \in Buffers
         /\ Raw(q, f) = Shown(f, v)
         /\ \A g \in Fields \ ({f} \cup Beside(f)) : Raw(q, g) = Raw(p, g)
<1>1. /\ q \in Buffers
      /\ q[At(f)] = First(f, v, p[At(f)])
      /\ \A k \in At(f) + 1 .. At(f) + More(f) : q[k] = Follow(f, v, k - At(f))
      /\ \A g \in Fields : At(g) # At(f) => Raw(q, g) = Raw(p, g)
  BY PutFrame
<1>2. IsOctet(p[0]) /\ IsOctet(p[2]) /\ IsOctet(p[4]) /\ IsOctet(p[6])
  BY OctetAt DEF Octets
<1>3. /\ IsOctet(p[7]) /\ IsOctet(p[8]) /\ IsOctet(p[9]) /\ IsOctet(p[11]) /\ IsOctet(p[13])
  BY OctetAt DEF Octets
<1>4. CASE f = "version"
  <2>1. At(f) = 0 /\ More(f) = 0
    BY <1>4, Places
  <2>v. v \in 0 .. 255
    BY <1>4, SMT DEF Fits
  <2> DEFINE t == (v * 32) % 256
  <2>t. IsOctet(t) /\ t \div 32 = v % 8 /\ (t \div 16) % 2 = 0 /\ t % 16 = 0
    BY <2>v, SMT DEF IsOctet
  <2>2. q[0] = Merged(p[0], 31, t)
    <3>1. q[0] = First("version", v, p[0])
      BY <1>1, <1>4, <2>1, SMT
    <3>2. QED
      BY <3>1, FirstIs, SMT
  <2> HIDE DEF t
  <2>3. q[0] \div 32 = v % 8 /\ (q[0] \div 16) % 2 = (p[0] \div 16) % 2 /\ (q[0] \div 8) % 2 = (p[0] \div 8) % 2 /\ q[0] % 8 = p[0] % 8
    BY <1>2, <2>t, <2>2, MergeVersion, SMT
  <2>4. Raw(q, "version") = v % 8
    BY <1>1, <2>v, <2>3, RawOctets, SMT
  <2>5. q[1] = p[1]
    BY <1>4, PutNext
  <2>6. Raw(q, "type") = Raw(p, "type") /\ Raw(q, "flag") = Raw(p, "flag") /\ Raw(q, "apid") = Raw(p, "apid")
    BY <1>1, <2>3, <2>5, RawOctets
  <2>7. \A g \in Fields \ ({f} \cup Beside(f)) : Raw(q, g) = Raw(p, g)
    BY <1>1, <1>4, <2>1, <2>6, FieldsAre, Places, SMT DEF Beside
  <2>8. QED
    BY <1>1, <1>4, <2>4, <2>7 DEF Shown
<1>5. CASE f = "type"
  <2>1. At(f) = 0 /\ More(f) = 0
    BY <1>5, Places
  <2>v. v \in {0, 1}
    BY <1>5, SMT DEF Fits
  <2> DEFINE t == (v * 16) % 256
  <2>t. IsOctet(t) /\ (t \div 16) % 2 = v /\ t \div 32 = 0 /\ t % 16 = 0
    BY <2>v, SMT DEF IsOctet
  <2>2. q[0] = Merged(p[0], 239, t)
    <3>1. q[0] = First("type", v, p[0])
      BY <1>1, <1>5, <2>1, SMT
    <3>2. QED
      BY <3>1, FirstIs, SMT
  <2> HIDE DEF t
  <2>3. q[0] \div 32 = p[0] \div 32 /\ (q[0] \div 16) % 2 = v /\ (q[0] \div 8) % 2 = (p[0] \div 8) % 2 /\ q[0] % 8 = p[0] % 8
    BY <1>2, <2>t, <2>2, MergeType, SMT
  <2>4. Raw(q, "type") = v
    BY <1>1, <2>v, <2>3, RawOctets, SMT
  <2>5. q[1] = p[1]
    BY <1>5, PutNext
  <2>6. Raw(q, "version") = Raw(p, "version") /\ Raw(q, "flag") = Raw(p, "flag") /\ Raw(q, "apid") = Raw(p, "apid")
    BY <1>1, <2>3, <2>5, RawOctets
  <2>7. \A g \in Fields \ ({f} \cup Beside(f)) : Raw(q, g) = Raw(p, g)
    BY <1>1, <1>5, <2>1, <2>6, FieldsAre, Places, SMT DEF Beside
  <2>8. QED
    BY <1>1, <1>5, <2>4, <2>7 DEF Shown
<1>6. CASE f = "flag"
  <2>1. At(f) = 0 /\ More(f) = 0
    BY <1>6, Places
  <2>v. v \in {0, 1}
    BY <1>6, SMT DEF Fits
  <2> DEFINE t == (v * 8) % 256
  <2>t. IsOctet(t) /\ (t \div 8) % 2 = v /\ t \div 16 = 0
    BY <2>v, SMT DEF IsOctet
  <2>2. q[0] = Merged(p[0], 240, t)
    <3>1. q[0] = First("flag", v, p[0])
      BY <1>1, <1>6, <2>1, SMT
    <3>2. QED
      BY <3>1, FirstIs, SMT
  <2> HIDE DEF t
  <2>3. q[0] \div 32 = p[0] \div 32 /\ (q[0] \div 16) % 2 = (p[0] \div 16) % 2 /\ (q[0] \div 8) % 2 = v
    BY <1>2, <2>t, <2>2, MergeFlag, SMT
  <2>4. Raw(q, "flag") = v
    BY <1>1, <2>v, <2>3, RawOctets, SMT
  <2>5. Raw(q, "version") = Raw(p, "version") /\ Raw(q, "type") = Raw(p, "type")
    BY <1>1, <2>3, RawOctets
  <2>6. \A g \in Fields \ ({f} \cup Beside(f)) : Raw(q, g) = Raw(p, g)
    BY <1>1, <1>6, <2>1, <2>5, FieldsAre, Places, SMT DEF Beside
  <2>7. QED
    BY <1>1, <1>6, <2>4, <2>6 DEF Shown
<1>7. CASE f = "apid"
  <2>1. At(f) = 0 /\ More(f) = 1
    BY <1>7, Places
  <2>v. v <= 2047
    BY <1>7, SMT DEF Fits
  <2>w. v \div 256 \in 0 .. 7
    BY <2>v, SMT
  <2> DEFINE t == (v \div 256) % 256
  <2>t. IsOctet(t) /\ t % 8 = v \div 256 /\ t \div 16 = 0 /\ (t \div 8) % 2 = 0
    BY <2>w, SMT DEF IsOctet
  <2>2. q[0] = Merged(p[0], 248, t)
    <3>1. q[0] = First("apid", v, p[0])
      BY <1>1, <1>7, <2>1, SMT
    <3>2. QED
      BY <3>1, FirstIs, SMT
  <2> HIDE DEF t
  <2>3. q[0] \div 32 = p[0] \div 32 /\ (q[0] \div 16) % 2 = (p[0] \div 16) % 2 /\ (q[0] \div 8) % 2 = (p[0] \div 8) % 2 /\ q[0] % 8 = v \div 256
    BY <1>2, <2>t, <2>2, MergeApid, SMT
  <2>4. q[1] = v % 256
    BY <1>1, <1>7, <2>1, SMT DEF Follow
  <2>5. Raw(q, "apid") = v
    BY <1>1, <2>v, <2>3, <2>4, RawOctets, SMT
  <2>6. Raw(q, "version") = Raw(p, "version") /\ Raw(q, "type") = Raw(p, "type") /\ Raw(q, "flag") = Raw(p, "flag")
    BY <1>1, <2>3, RawOctets
  <2>7. \A g \in Fields \ ({f} \cup Beside(f)) : Raw(q, g) = Raw(p, g)
    BY <1>1, <1>7, <2>1, <2>6, FieldsAre, Places, SMT DEF Beside
  <2>8. QED
    BY <1>1, <1>7, <2>5, <2>7 DEF Shown
<1>8. CASE f = "seq_flags"
  <2>1. At(f) = 2 /\ More(f) = 0
    BY <1>8, Places
  <2>v. v \in 0 .. 3
    BY <1>8, SMT DEF Fits
  <2> DEFINE t == (v * 64) % 256
  <2>t. IsOctet(t) /\ t \div 64 = v /\ t % 64 = 0
    BY <2>v, SMT DEF IsOctet
  <2>2. q[2] = Merged(p[2], 63, t)
    <3>1. q[2] = First("seq_flags", v, p[2])
      BY <1>1, <1>8, <2>1, SMT
    <3>2. QED
      BY <3>1, FirstIs, SMT
  <2> HIDE DEF t
  <2>3. q[2] \div 64 = v /\ q[2] % 64 = p[2] % 64
    BY <1>2, <2>t, <2>2, MergeSeqFlags, SMT
  <2>4. Raw(q, "seq_flags") = v
    BY <1>1, <2>v, <2>3, RawOctets, SMT
  <2>5. q[3] = p[3]
    BY <1>8, PutNext
  <2>6. Raw(q, "seq_cnt") = Raw(p, "seq_cnt")
    BY <1>1, <2>3, <2>5, RawOctets
  <2>7. \A g \in Fields \ ({f} \cup Beside(f)) : Raw(q, g) = Raw(p, g)
    BY <1>1, <1>8, <2>1, <2>6, FieldsAre, Places, SMT DEF Beside
  <2>8. QED
    BY <1>1, <1>8, <2>4, <2>7 DEF Shown
<1>9. CASE f = "seq_cnt"
  <2>1. At(f) = 2 /\ More(f) = 1
    BY <1>9, Places
  <2>v. v <= 16383
    BY <1>9, SMT DEF Fits
  <2>w. v \div 256 \in 0 .. 63
    BY <2>v, SMT
  <2> DEFINE t == (v \div 256) % 256
  <2>t. IsOctet(t) /\ t % 64 = v \div 256 /\ t \div 64 = 0
    BY <2>w, SMT DEF IsOctet
  <2>2. q[2] = Merged(p[2], 192, t)
    <3>1. q[2] = First("seq_cnt", v, p[2])
      BY <1>1, <1>9, <2>1, SMT
    <3>2. QED
      BY <3>1, FirstIs, SMT
  <2> HIDE DEF t
  <2>3. q[2] \div 64 = p[2] \div 64 /\ q[2] % 64 = v \div 256
    BY <1>2, <2>t, <2>2, MergeSeqCnt, SMT
  <2>4. q[3] = v % 256
    BY <1>1, <1>9, <2>1, SMT DEF Follow
  <2>5. Raw(q, "seq_cnt") = v
    BY <1>1, <2>v, <2>3, <2>4, RawOctets, SMT
  <2>6. Raw(q, "seq_flags") = Raw(p, "seq_flags")
    BY <1>1, <2>3, RawOctets
  <2>7. \A g \in Fields \ ({f} \cup Beside(f)) : Raw(q, g) = Raw(p, g)
    BY <1>1, <1>9, <2>1, <2>6, FieldsAre, Places, SMT DEF Beside
  <2>8. QED
    BY <1>1, <1>9, <2>5, <2>7 DEF Shown
<1>10. CASE f = "data_len"
  <2>1. At(f) = 4 /\ More(f) = 1
    BY <1>10, Places
  <2>v. v < 65536
    BY <1>10, SMT DEF Fits
  <2>w. v \div 256 \in 0 .. 255
    BY <2>v, SMT
  <2> DEFINE t == (v \div 256) % 256
  <2>t. IsOctet(t) /\ t = v \div 256
    BY <2>w, SMT DEF IsOctet
  <2>2. q[4] = Merged(p[4], 0, t)
    <3>1. q[4] = First("data_len", v, p[4])
      BY <1>1, <1>10, <2>1, SMT
    <3>2. QED
      BY <3>1, FirstIs, SMT
  <2> HIDE DEF t
  <2>3. q[4] = v \div 256
    BY <1>2, <2>t, <2>2, MergeOctet, SMT
  <2>4. q[5] = v % 256
    BY <1>1, <1>10, <2>1, SMT DEF Follow
  <2>5. Raw(q, "data_len") = v
    BY <1>1, <2>v, <2>3, <2>4, RawOctets, SMT
  <2>6. \A g \in Fields \ ({f} \cup Beside(f)) : Raw(q, g) = Raw(p, g)
    BY <1>1, <1>10, <2>1, FieldsAre, Places, SMT DEF Beside
  <2>7. QED
    BY <1>1, <1>10, <2>5, <2>6 DEF Shown
<1>11. CASE f = "pus"
  <2>1. At(f) = 6 /\ More(f) = 0
    BY <1>11, Places
  <2>v. v \in 0 .. 15
    BY <1>11, SMT DEF Fits
  <2> DEFINE t == (v * 16) % 256
  <2>t. IsOctet(t) /\ t \div 16 = v /\ t % 16 = 0
    BY <2>v, SMT DEF IsOctet
  <2>2. q[6] = Merged(p[6], 15, t)
    <3>1. q[6] = First("pus", v, p[6])
      BY <1>1, <1>11, <2>1, SMT
    <3>2. QED
      BY <3>1, FirstIs, SMT
  <2> HIDE DEF t
  <2>3. q[6] \div 16 = v /\ q[6] % 16 = p[6] % 16
    BY <1>2, <2>t, <2>2, MergePus, SMT
  <2>4. Raw(q, "pus") = v
    BY <1>1, <2>v, <2>3, RawOctets, SMT
  <2>5. Raw(q, "time_ref") = Raw(p, "time_ref") /\ Raw(q, "ack") = Raw(p, "ack")
    BY <1>1, <2>3, RawOctets
  <2>6. \A g \in Fields \ ({f} \cup Beside(f)) : Raw(q, g) = Raw(p, g)
    BY <1>1, <1>11, <2>1, <2>5, FieldsAre, Places, SMT DEF Beside
  <2>7. QED
    BY <1>1, <1>11, <2>4, <2>6 DEF Shown
<1>12. CASE f = "time_ref"
  <2>1. At(f) = 6 /\ More(f) = 0
    BY <1>12, Places
  <2>v. v \in 0 .. 255
    BY <1>12, SMT DEF Fits
  <2> DEFINE t == v % 256
  <2>t. IsOctet(t) /\ t % 16 = v % 16
    BY <2>v, SMT DEF IsOctet
  <2>2. q[6] = Merged(p[6], 240, t)
    <3>1. q[6] = First("time_ref", v, p[6])
      BY <1>1, <1>12, <2>1, SMT
    <3>2. QED
      BY <3>1, FirstIs, SMT
  <2> HIDE DEF t
  <2>3. q[6] % 16 = v % 16
    BY <1>2, <2>t, <2>2, MergeTimeRef, SMT
  <2>4. Raw(q, "time_ref") = v % 16
    BY <1>1, <2>v, <2>3, RawOctets, SMT
  <2>5. \A g \in Fields \ ({f} \cup Beside(f)) : Raw(q, g) = Raw(p, g)
    BY <1>1, <1>12, <2>1, FieldsAre, Places, SMT DEF Beside
  <2>6. QED
    BY <1>1, <1>12, <2>4, <2>5 DEF Shown
<1>13. CASE f = "ack"
  <2>1. At(f) = 6 /\ More(f) = 0
    BY <1>13, Places
  <2>v. v \in 0 .. 15
    BY <1>13, SMT DEF Fits
  <2> DEFINE t == v % 256
  <2>t. IsOctet(t) /\ t % 16 = v /\ t \div 16 = 0
    BY <2>v, SMT DEF IsOctet
  <2>2. q[6] = Merged(p[6], 240, t)
    <3>1. q[6] = First("ack", v, p[6])
      BY <1>1, <1>13, <2>1, SMT
    <3>2. QED
      BY <3>1, FirstIs, SMT
  <2> HIDE DEF t
  <2>3. q[6] \div 16 = p[6] \div 16 /\ q[6] % 16 = v
    BY <1>2, <2>t, <2>2, MergeAck, SMT
  <2>4. Raw(q, "ack") = v
    BY <1>1, <2>v, <2>3, RawOctets, SMT
  <2>5. Raw(q, "pus") = Raw(p, "pus")
    BY <1>1, <2>3, RawOctets
  <2>6. \A g \in Fields \ ({f} \cup Beside(f)) : Raw(q, g) = Raw(p, g)
    BY <1>1, <1>13, <2>1, <2>5, FieldsAre, Places, SMT DEF Beside
  <2>7. QED
    BY <1>1, <1>13, <2>4, <2>6 DEF Shown
<1>14. CASE f = "st"
  <2>1. At(f) = 7 /\ More(f) = 0
    BY <1>14, Places
  <2>v. v \in 0 .. 255
    BY <1>14, SMT DEF Fits
  <2> DEFINE t == v % 256
  <2>t. IsOctet(t) /\ t = v
    BY <2>v, SMT DEF IsOctet
  <2>2. q[7] = Merged(p[7], 0, t)
    <3>1. q[7] = First("st", v, p[7])
      BY <1>1, <1>14, <2>1, SMT
    <3>2. QED
      BY <3>1, FirstIs, SMT
  <2> HIDE DEF t
  <2>3. q[7] = v
    BY <1>3, <2>t, <2>2, MergeOctet, SMT
  <2>4. Raw(q, "st") = v
    BY <1>1, <2>v, <2>3, RawOctets, SMT
  <2>5. \A g \in Fields \ ({f} \cup Beside(f)) : Raw(q, g) = Raw(p, g)
    BY <1>1, <1>14, <2>1, FieldsAre, Places, SMT DEF Beside
  <2>6. QED
    BY <1>1, <1>14, <2>4, <2>5 DEF Shown
<1>15. CASE f = "sst"
  <2>1. At(f) = 8 /\ More(f) = 0
    BY <1>15, Places
  <2>v. v \in 0 .. 255
    BY <1>15, SMT DEF Fits
  <2> DEFINE t == v % 256
  <2>t. IsOctet(t) /\ t = v
    BY <2>v, SMT DEF IsOctet
  <2>2. q[8] = Merged(p[8], 0, t)
    <3>1. q[8] = First("sst", v, p[8])
      BY <1>1, <1>15, <2>1, SMT
    <3>2. QED
      BY <3>1, FirstIs, SMT
  <2> HIDE DEF t
  <2>3. q[8] = v
    BY <1>3, <2>t, <2>2, MergeOctet, SMT
  <2>4. Raw(q, "sst") = v
    BY <1>1, <2>v, <2>3, RawOctets, SMT
  <2>5. \A g \in Fields \ ({f} \cup Beside(f)) : Raw(q, g) = Raw(p, g)
    BY <1>1, <1>15, <2>1, FieldsAre, Places, SMT DEF Beside
  <2>6. QED
    BY <1>1, <1>15, <2>4, <2>5 DEF Shown
<1>16. CASE f = "msg_cntr"
  <2>1. At(f) = 9 /\ More(f) = 1
    BY <1>16, Places
  <2>v. v < 65536
    BY <1>16, SMT DEF Fits
  <2>w. v \div 256 \in 0 .. 255
    BY <2>v, SMT
  <2> DEFINE t == (v \div 256) % 256
  <2>t. IsOctet(t) /\ t = v \div 256
    BY <2>w, SMT DEF IsOctet
  <2>2. q[9] = Merged(p[9], 0, t)
    <3>1. q[9] = First("msg_cntr", v, p[9])
      BY <1>1, <1>16, <2>1, SMT
    <3>2. QED
      BY <3>1, FirstIs, SMT
  <2> HIDE DEF t
  <2>3. q[9] = v \div 256
    BY <1>3, <2>t, <2>2, MergeOctet, SMT
  <2>4. q[10] = v % 256
    BY <1>1, <1>16, <2>1, SMT DEF Follow
  <2>5. Raw(q, "msg_cntr") = v
    BY <1>1, <2>v, <2>3, <2>4, RawOctets, SMT
  <2>6. \A g \in Fields \ ({f} \cup Beside(f)) : Raw(q, g) = Raw(p, g)
    BY <1>1, <1>16, <2>1, FieldsAre, Places, SMT DEF Beside
  <2>7. QED
    BY <1>1, <1>16, <2>5, <2>6 DEF Shown
<1>17. CASE f = "dest"
  <2>1. At(f) = 11 /\ More(f) = 1
    BY <1>17, Places
  <2>v. v < 65536
    BY <1>17, SMT DEF Fits
  <2>w. v \div 256 \in 0 .. 255
    BY <2>v, SMT
  <2> DEFINE t == (v \div 256) % 256
  <2>t. IsOctet(t) /\ t = v \div 256
    BY <2>w, SMT DEF IsOctet
  <2>2. q[11] = Merged(p[11], 0, t)
    <3>1. q[11] = First("dest", v, p[11])
      BY <1>1, <1>17, <2>1, SMT
    <3>2. QED
      BY <3>1, FirstIs, SMT
  <2> HIDE DEF t
  <2>3. q[11] = v \div 256
    BY <1>3, <2>t, <2>2, MergeOctet, SMT
  <2>4. q[12] = v % 256
    BY <1>1, <1>17, <2>1, SMT DEF Follow
  <2>5. Raw(q, "dest") = v
    BY <1>1, <2>v, <2>3, <2>4, RawOctets, SMT
  <2>6. \A g \in Fields \ ({f} \cup Beside(f)) : Raw(q, g) = Raw(p, g)
    BY <1>1, <1>17, <2>1, FieldsAre, Places, SMT DEF Beside
  <2>7. QED
    BY <1>1, <1>17, <2>5, <2>6 DEF Shown
<1>18. CASE f = "source"
  <2>1. At(f) = 9 /\ More(f) = 1
    BY <1>18, Places
  <2>v. v < 65536
    BY <1>18, SMT DEF Fits
  <2>w. v \div 256 \in 0 .. 255
    BY <2>v, SMT
  <2> DEFINE t == (v \div 256) % 256
  <2>t. IsOctet(t) /\ t = v \div 256
    BY <2>w, SMT DEF IsOctet
  <2>2. q[9] = Merged(p[9], 0, t)
    <3>1. q[9] = First("source", v, p[9])
      BY <1>1, <1>18, <2>1, SMT
    <3>2. QED
      BY <3>1, FirstIs, SMT
  <2> HIDE DEF t
  <2>3. q[9] = v \div 256
    BY <1>3, <2>t, <2>2, MergeOctet, SMT
  <2>4. q[10] = v % 256
    BY <1>1, <1>18, <2>1, SMT DEF Follow
  <2>5. Raw(q, "source") = v
    BY <1>1, <2>v, <2>3, <2>4, RawOctets, SMT
  <2>6. \A g \in Fields \ ({f} \cup Beside(f)) : Raw(q, g) = Raw(p, g)
    BY <1>1, <1>18, <2>1, FieldsAre, Places, SMT DEF Beside
  <2>7. QED
    BY <1>1, <1>18, <2>5, <2>6 DEF Shown
<1>19. CASE f = "time"
  <2>1. At(f) = 13 /\ More(f) = 5
    BY <1>19, Places
  <2>v. v \in 0 .. 255
    BY <1>19, SMT DEF Fits
  <2> DEFINE t == v % 256
  <2>t. IsOctet(t) /\ t = v
    BY <2>v, SMT DEF IsOctet
  <2>2. q[13] = Merged(p[13], 0, t)
    <3>1. q[13] = First("time", v, p[13])
      BY <1>1, <1>19, <2>1, SMT
    <3>2. QED
      BY <3>1, FirstIs, SMT
  <2> HIDE DEF t
  <2>3. q[13] = v
    BY <1>3, <2>t, <2>2, MergeOctet, SMT
  <2>4. \A j \in 1 .. 5 : q[13 + j] = Follow("time", v, j)
    BY <1>1, <1>19, <2>1
  <2>5. Raw(q, "time") = v
    BY <1>1, <2>v, <2>3, <2>4, RawOctets, SMT
  <2>6. \A g \in Fields \ ({f} \cup Beside(f)) : Raw(q, g) = Raw(p, g)
    BY <1>1, <1>19, <2>1, FieldsAre, Places, SMT DEF Beside
  <2>7. QED
    BY <1>1, <1>19, <2>5, <2>6 DEF Shown
<1>20. QED
  BY <1>4, <1>5, <1>6, <1>7, <1>8, <1>9, <1>10, <1>11, <1>12, <1>13, <1>14, <1>15, <1>16, <1>17, <1>18, <1>19, FieldsAre

-----------------------------------------------------------------------------
(* The setters and getters of the packet library.                          *)

\* Nothing but its own setter, and those that share its bits, changes what a
\* field holds, whether or not the packet has the field at the moment.
Kept == /\ sp \in Buffers
        /\ \A f \in Fields : given[f] # Unset => Get(sp, f) = given[f]

\* What a setter that accepts its argument writes fits into the field, and its
\* getter makes of it what the caller expects.
LEMMA Encodes ==
  ASSUME NEW f \in Fields, NEW v \in Values[f], NEW p, Accepted(p, f, v), NEW e, e = Encoded(f, v)
  PROVE  /\ e \in Nat /\ Fits(f, e)
         /\ f # "data_len" => Shown(f, e) = Expected(f, v)
         /\ f = "data_len" => Shown(f, e) = e /\ (e + 1) % 65536 = Expected(f, v)
<1>1. v \in Nat /\ v < (IF Layout[f].more = 1 THEN 65536 ELSE 256)
  BY PktAssumption
<1>2. More(f) = 1 => v < 65536
  BY <1>1, SMT DEF More
<1>3. More(f) # 1 => v < 256
  BY <1>1, SMT DEF More
<1>4. v <= Largest(f) /\ (f = "pus" => v \in {1, 2})
  BY DEF Accepted, VersionValid, PusA, PusC
<1>5. CASE f = "data_len"
  <2>1. e = (v - 1) % 65536 /\ v < 65536
    BY <1>2, <1>5, Places, SMT DEF Encoded
  <2>2. e \in Nat /\ e < 65536 /\ (e + 1) % 65536 = v
    BY <1>1, <2>1, SMT
  <2>3. QED
    BY <1>5, <2>2, SMT DEF Fits, Shown, Expected
<1>6. CASE f \in {"type", "flag"}
  <2>1. e = IF v = 0 THEN 0 ELSE 1
    BY <1>6, SMT DEF Encoded
  <2>2. QED
    BY <1>6, <2>1, SMT DEF Fits, Shown, Expected
<1>7. CASE f \in {"apid", "seq_flags", "seq_cnt", "ack", "pus"}
  <2>1. e = v
    BY <1>7, SMT DEF Encoded
  <2>2. Fits(f, v)
    BY <1>1, <1>4, <1>7, SMT DEF Fits, Largest
  <2>3. QED
    BY <1>1, <1>7, <2>1, <2>2, SMT DEF Shown, Expected
<1>8. CASE f \in {"msg_cntr", "dest", "source"}
  <2>1. e = v /\ v < 65536
    BY <1>2, <1>8, Places, SMT DEF Encoded
  <2>2. QED
    BY <1>1, <1>8, <2>1, SMT DEF Fits, Shown, Expected
<1>9. CASE f \in {"version", "time_ref", "st", "sst", "time"}
  <2>1. e = v /\ v <= 255
    BY <1>1, <1>3, <1>9, Places, SMT DEF Encoded
  <2>2. QED
    BY <1>1, <1>9, <2>1, SMT DEF Fits, Shown, Expected
<1>10. QED
  BY <1>5, <1>6, <1>7, <1>8, <1>9, FieldsAre, SMT

\* What Put does to the fields beside the one it writes.
LEMMA PutBeside ==
  ASSUME NEW p \in Buffers, NEW v \in Nat, NEW q
  PROVE  /\ q = Put(p, "flag", v) /\ v <= 1 => Raw(q, "apid") = Raw(p, "apid") % 256
         /\ q = Put(p, "time_ref", v) /\ v <= 255 => Raw(q, "pus") = Or(Raw(p, "pus"), v \div 16)
<1>f. "flag" \in Fields /\ "time_ref" \in Fields
  BY FieldsAre
<1>o. /\ IsOctet(p[0]) /\ IsOctet(p[1]) /\ IsOctet(p[6])
  BY OctetAt DEF Octets
<1>1. ASSUME q = Put(p, "flag", v), v <= 1 PROVE Raw(q, "apid") = Raw(p, "apid") % 256
  <2>1. q \in Buffers /\ q[0] = First("flag", v, p[0]) /\ q[1] = p[1]
    <3>1. q \in Buffers /\ q[At("flag")] = First("flag", v, p[At("flag")])
      BY <1>f, <1>1, PutFrame, Zenon
    <3>2. At("flag") = 0
      BY <1>f, Places, SMT
    <3>3. q[1] = p[1]
      BY <1>1, PutNext
    <3>4. QED
      BY <3>1, <3>2, <3>3, Zenon
  <2> DEFINE t == (v * 8) % 256
  <2>2. IsOctet(t) /\ t % 8 = 0
    BY <1>1 DEF IsOctet
  <2>3. q[0] = Merged(p[0], 240, t)
    BY <2>1, FirstIs
  <2> HIDE DEF t
  <2>4. IsOctet(q[0]) /\ q[0] % 16 = t % 16
    BY <1>o, <2>2, <2>3, MergeTimeRef
  <2>5. q[0] % 8 = 0
    BY <2>2, <2>4, SMT DEF IsOctet
  <2>6. Raw(q, "apid") = (q[0] % 8) * 256 + q[1] /\ Raw(p, "apid") = (p[0] % 8) * 256 + p[1]
    BY <2>1, RawOctets
  <2>7. p[1] \in 0 .. 255 /\ p[0] % 8 \in 0 .. 7
    BY <1>o DEF IsOctet
  <2>8. ((p[0] % 8) * 256 + p[1]) % 256 = p[1]
    BY <2>7
  <2>9. Raw(q, "apid") = p[1]
    BY <2>1, <2>5, <2>6, <2>7
  <2>10. QED
    BY <2>6, <2>8, <2>9
<1>2. ASSUME q = Put(p, "time_ref", v), v <= 255
      PROVE  Raw(q, "pus") = Or(Raw(p, "pus"), v \div 16)
  <2>1. q \in Buffers /\ q[6] = First("time_ref", v, p[6])
    <3>1. q \in Buffers /\ q[At("time_ref")] = First("time_ref", v, p[At("time_ref")])
      BY <1>f, <1>2, PutFrame, Zenon
    <3>2. At("time_ref") = 6
      BY <1>f, Places, SMT
    <3>3. QED
      BY <3>1, <3>2, Zenon
  <2>2. IsOctet(v) /\ v % 256 = v
    BY <1>2 DEF IsOctet
  <2>3. q[6] = Merged(p[6], 240, v)
    BY <2>1, <2>2, FirstIs
  <2>4. QED
    BY <1>o, <2>1, <2>2, <2>3, MergeOverPus, RawOctets
<1>3. QED
  BY <1>1, <1>2

\* Two fields at one place hold the same.
LEMMA SharedRaw ==
  ASSUME NEW p \in Buffers, NEW f \in Fields, NEW g \in Fields, Shares(f, g)
  PROVE  Raw(p, g) = Raw(p, f) /\ f # "data_len" /\ g # "data_len" /\ g \in Beside(f)
<1>1. \/ f = "time_ref" /\ g = "ack"
      \/ f = "ack" /\ g = "time_ref"
      \/ f = "msg_cntr" /\ g = "source"
      \/ f = "source" /\ g = "msg_cntr"
      \/ f = g
  BY DEF Shares
<1>2. {"time_ref", "ack"} # {f} /\ {"msg_cntr", "source"} # {f}
  OBVIOUS
<1>3. f # g
  BY <1>2 DEF Shares
<1>4. QED
  BY <1>1, <1>3, RawOctets DEF Beside

LEMMA SetKeeps ==
  ASSUME Kept, NEW f \in Fields, NEW v \in Values[f], Set(f, v)
  PROVE  Kept'
<1>1. CASE ~Accepted(sp, f, v)
  BY <1>1 DEF Set, Kept, Get, Raw
<1>2. CASE Accepted(sp, f, v)
  <2> DEFINE e == Encoded(f, v)
  <2>1. sp' = Put(sp, f, e) /\ given' = [g \in Fields |-> After(f, v, g, given[g])] /\ sp \in Buffers
    BY <1>2 DEF Set, Kept
  <2>2. /\ e \in Nat /\ Fits(f, e)
        /\ f # "data_len" => Shown(f, e) = Expected(f, v)
        /\ f = "data_len" => Shown(f, e) = e /\ (e + 1) % 65536 = Expected(f, v)
        /\ f = "time_ref" => e = v
    BY <1>2, Encodes DEF Encoded
  <2> HIDE DEF e
  <2>3. /\ sp' \in Buffers
        /\ Raw(sp', f) = Shown(f, e)
        /\ \A g \in Fields \ ({f} \cup Beside(f)) : Raw(sp', g) = Raw(sp, g)
    BY <2>1, <2>2, PutRaw
  <2>4. Get(sp', f) = Expected(f, v)
    BY <2>2, <2>3, SMT DEF Get
  <2>5. ASSUME NEW g \in Fields, given'[g] # Unset PROVE Get(sp', g) = given'[g]
    <3>0. given'[g] = After(f, v, g, given[g])
      BY <2>1
    <3>1. CASE g = f
      BY <2>4, <3>0, <3>1, Zenon DEF After
    <3>2. CASE g # f /\ Shares(f, g)
      <4>1. given'[g] = Expected(f, v)
        BY <3>0, <3>2 DEF After, Shares
      <4>2. Raw(sp', g) = Raw(sp', f) /\ f # "data_len" /\ g # "data_len"
        BY <2>3, <3>2, SharedRaw
      <4>3. QED
        BY <2>4, <4>1, <4>2 DEF Get
    <3>3. CASE f = "flag" /\ g = "apid"
      <4>1. given[g] # Unset /\ given'[g] = given[g] % 256
        BY <2>5, <3>0, <3>3 DEF After, Shares
      <4>2. Raw(sp, g) = given[g]
        BY <3>3, <4>1 DEF Kept, Get
      <4>3. e <= 1
        BY <2>2, <3>3 DEF Fits
      <4>4. Raw(sp', g) = Raw(sp, g) % 256
        BY <2>1, <2>2, <3>3, <4>3, PutBeside
      <4>5. QED
        BY <3>3, <4>1, <4>2, <4>4 DEF Get
    <3>4. CASE f = "time_ref" /\ g = "pus"
      <4>1. given[g] # Unset /\ given'[g] = Or(given[g], v \div 16)
        BY <2>5, <3>0, <3>4 DEF After, Shares
      <4>2. Raw(sp, g) = given[g]
        BY <3>4, <4>1 DEF Kept, Get
      <4>3. e <= 255 /\ e = v
        BY <2>2, <3>4 DEF Fits
      <4>4. Raw(sp', g) = Or(Raw(sp, g), v \div 16)
        BY <2>1, <2>2, <3>4, <4>3, PutBeside
      <4>5. QED
        BY <3>4, <4>1, <4>2, <4>4 DEF Get
    <3>5. CASE /\ g # f /\ ~Shares(f, g) /\ ~(f = "flag" /\ g = "apid")
               /\ ~(f = "time_ref" /\ g = "pus")
      <4>1. given'[g] = given[g]
        BY <3>0, <3>5, Zenon DEF After
      <4>2. ~(g \in Beside(f))
        BY <3>5 DEF Beside, Shares
      <4>3. Raw(sp', g) = Raw(sp, g)
        BY <2>3, <3>5, <4>2
      <4>4. Get(sp, g) = given[g]
        BY <2>5, <4>1 DEF Kept
      <4>5. Get(sp', g) = Get(sp, g)
        BY <4>3, SMT DEF Get
      <4>6. QED
        BY <4>1, <4>4, <4>5
    <3>6. QED
      BY <3>1, <3>2, <3>3, <3>4, <3>5
  <2>6. QED
    BY <2>3, <2>5 DEF Kept
<1>3. QED
  BY <1>1, <1>2

\* ReadsBack: for every argument of the C types and any order of the setters, a
\* field reads back what it was last set to, the top bits of the APID taken off
\* by ccsds_set_2nd_hdr_flag and the bits put over the PUS version by
\* ecss_set_sc_time_ref_status accounted for, and nothing else disturbed.
THEOREM FieldsReadBack == PktSpec => []ReadsBack
<1>1. PktInit => Kept
  <2> SUFFICES ASSUME PktInit PROVE Kept
    OBVIOUS
  <2>1. PICK c \in Contents : sp = [k \in Octets |-> c]
    BY DEF PktInit
  <2>2. c \in 0 .. 255
    BY PktAssumption
  <2>3. sp \in Buffers
    BY <2>1, <2>2 DEF Buffers
  <2>4. QED
    BY <2>3 DEF PktInit, Kept
<1>2. Kept /\ [PktNext]_pvars => Kept'
  <2> SUFFICES ASSUME Kept, [PktNext]_pvars PROVE Kept'
    OBVIOUS
  <2>1. CASE UNCHANGED pvars
    BY <2>1 DEF pvars, Kept, Get, Raw
  <2>2. CASE PktNext
    BY <2>2, SetKeeps DEF PktNext
  <2>3. QED
    BY <2>1, <2>2
<1>3. Kept => ReadsBack
  BY DEF Kept, ReadsBack
<1>4. QED
  BY <1>1, <1>2, <1>3, PTL DEF PktSpec

-----------------------------------------------------------------------------
(* The packet that is sent.                                                *)

\* The headers are octets, and the fields of the primary header are where the
\* setters put them.
LEMMA HeaderRaw ==
  ASSUME NEW h \in Sources
  PROVE  /\ Header(h) \in Buffers
         /\ Raw(Header(h), "version") = 0
         /\ Raw(Header(h), "type") = h.type
         /\ Raw(Header(h), "data_len") = h.len - 1
<1>h. /\ h.type \in {0, 1} /\ h.flag \in {0, 1} /\ h.pus \in 0 .. 15
      /\ h.apid \in Nat /\ h.apid <= 2047 /\ h.count \in Nat /\ h.count <= 16383
      /\ h.len - 1 \in Nat /\ h.len - 1 < 65536
  BY PathAssumption, SMT DEF TM, TC, Largest, CrcLen
<1> DEFINE e0 == [k \in Octets |-> 0]
           e1 == Put(e0, "type", h.type)
           e2 == Put(e1, "flag", h.flag)
           e3 == Put(e2, "apid", h.apid)
           e4 == Put(e3, "seq_cnt", h.count)
           e5 == Put(e4, "pus", h.pus)
           e6 == Put(e5, "data_len", h.len - 1)
           e7 == Put(e6, "st", 3)
           e8 == Put(e7, "seq_flags", 3)
           K(p) == p \in Buffers /\ Raw(p, "version") = 0
           T(p) == Raw(p, "type") = h.type
           L(p) == Raw(p, "data_len") = h.len - 1
<1>f. {"version", "type", "flag", "apid", "seq_flags", "seq_cnt", "data_len", "pus", "st"} \subseteq Fields
  BY FieldsAre, Zenon
<1>n. Header(h) = e8
  BY DEF Header
<1>0. K(e0)
  <2>1. e0 \in Buffers /\ e0[0] = 0
    BY DEF Buffers, Octets
  <2>2. Raw(e0, "version") = e0[0] \div 32
    BY <2>1, RawOctets
  <2>3. QED
    BY <2>1, <2>2, SMT
<1> HIDE DEF e0
<1>1. K(e1) /\ T(e1)
  <2>1. Fits("type", h.type) /\ Beside("type") = {} /\ Shown("type", h.type) = h.type /\ h.type \in Nat
    BY <1>h, SMT DEF Fits, Beside, Shown
  <2>2. QED
    BY <1>0, <1>f, <2>1, PutRaw
<1> HIDE DEF e1
<1>2. K(e2) /\ T(e2)
  <2>1. Fits("flag", h.flag) /\ Beside("flag") = {"apid"} /\ h.flag \in Nat
    BY <1>h, SMT DEF Fits, Beside
  <2>2. QED
    BY <1>1, <1>f, <2>1, PutRaw
<1> HIDE DEF e2
<1>3. K(e3) /\ T(e3)
  <2>1. Fits("apid", h.apid) /\ Beside("apid") = {}
    BY <1>h, SMT DEF Fits, Beside
  <2>2. QED
    BY <1>h, <1>2, <1>f, <2>1, PutRaw
<1> HIDE DEF e3
<1>4. K(e4) /\ T(e4)
  <2>1. Fits("seq_cnt", h.count) /\ Beside("seq_cnt") = {}
    BY <1>h, SMT DEF Fits, Beside
  <2>2. QED
    BY <1>h, <1>3, <1>f, <2>1, PutRaw
<1> HIDE DEF e4
<1>5. K(e5) /\ T(e5)
  <2>1. Fits("pus", h.pus) /\ Beside("pus") = {} /\ h.pus \in Nat
    BY <1>h, SMT DEF Fits, Beside
  <2>2. QED
    BY <1>4, <1>f, <2>1, PutRaw
<1> HIDE DEF e5
<1>6. K(e6) /\ T(e6) /\ L(e6)
  <2> DEFINE v == h.len - 1
  <2>1. v \in Nat
    BY <1>h
  <2>2. Fits("data_len", v) /\ Beside("data_len") = {} /\ Shown("data_len", v) = v
    BY <1>h, SMT DEF Fits, Beside, Shown
  <2> HIDE DEF v
  <2>3. e6 = Put(e5, "data_len", v)
    BY DEF v
  <2> HIDE DEF e6
  <2>4. K(e6) /\ T(e6) /\ Raw(e6, "data_len") = v
    BY <1>5, <1>f, <2>1, <2>2, <2>3, PutRaw
  <2>5. QED
    BY <2>4 DEF v
<1> HIDE DEF e6
<1>7. K(e7) /\ T(e7) /\ L(e7)
  <2>1. Fits("st", 3) /\ Beside("st") = {}
    BY SMT DEF Fits, Beside
  <2>2. QED
    BY <1>6, <1>f, <2>1, PutRaw
<1> HIDE DEF e7
<1>8. K(e8) /\ T(e8) /\ L(e8)
  <2>1. Fits("seq_flags", 3) /\ Beside("seq_flags") = {}
    BY SMT DEF Fits, Beside
  <2>2. QED
    BY <1>7, <1>f, <2>1, PutRaw
<1> HIDE DEF e8
<1>9. QED
  BY <1>n, <1>8

\* Taking the CRC of n octets looks at no others.
LEMMA CrcOfPrefix ==
  ASSUME NEW s, NEW r, NEW n \in Nat, Octal(s, n), \A k \in 1 .. n : r[k] = s[k]
  PROVE  Crc16Buf(r, n) = Crc16Buf(s, n) /\ IsWord(Crc16Buf(s, n))
<1>1. PICK d : Register(d, s, n)
  BY RegisterExists
<1>2. Crc16Buf(s, n) = d[8 * n]
  BY <1>1, Crc16BufIs
<1>3. IsWord(d[8 * n])
  <2>1. 8 * n \in 0 .. 8 * n
    OBVIOUS
  <2>2. QED
    BY <1>1, <2>1 DEF Register
<1> DEFINE g == [k \in 0 .. n |-> d[8 * k]]
<1>4. \A k \in 1 .. n : g[k] = Crc(r[0 + k], g[k - 1])
  <2> SUFFICES ASSUME NEW k \in 1 .. n PROVE g[k] = Crc(r[0 + k], g[k - 1])
    OBVIOUS
  <2>1. g[k] = d[8 * k] /\ g[k - 1] = d[8 * (k - 1)] /\ 0 + k = k /\ r[k] = s[k]
    OBVIOUS
  <2>2. IsOctet(s[k])
    BY DEF Octal
  <2>3. d[8 * k] = Crc(s[k], d[8 * (k - 1)])
    BY <1>1, <2>2, RegisterOctet
  <2> HIDE DEF g
  <2>4. QED
    BY <2>1, <2>3
<1>5. g[0] = Preset /\ g[n] = d[8 * n]
  <2>1. d[0] = Preset
    BY <1>1 DEF Register
  <2>2. g[0] = d[8 * 0] /\ g[n] = d[8 * n] /\ 8 * 0 = 0
    OBVIOUS
  <2> HIDE DEF g
  <2>3. QED
    BY <2>1, <2>2
<1> HIDE DEF g
<1>6. Octetwise(Preset, r, 0, n) = g[n]
  BY <1>4, <1>5, OctetwiseRun
<1>7. QED
  BY <1>2, <1>3, <1>5, <1>6 DEF Crc16Buf

LEMMA AppendTwo ==
  ASSUME NEW b \in Seq(Nat), NEW x \in Nat, NEW y \in Nat, NEW s, s = b \o <<x, y>>
  PROVE  /\ s \in Seq(Nat) /\ Len(s) = Len(b) + 2
         /\ s[Len(b) + 1] = x /\ s[Len(b) + 2] = y
         /\ \A k \in 1 .. Len(b) : s[k] = b[k]
<1> DEFINE e == <<x, y>>
<1>1. e \in Seq(Nat) /\ Len(e) = 2 /\ e[1] = x /\ e[2] = y
  OBVIOUS
<1>2. s = b \o e
  OBVIOUS
<1> HIDE DEF e
<1>3. QED
  BY <1>1, <1>2

\* The CRC behind the octets it was taken of makes a packet whose check passes.
LEMMA CrcAppended ==
  ASSUME NEW n \in Nat, n > 0, NEW b, Octal(b, n), NEW x, NEW y, IsOctet(x), IsOctet(y),
         Crc16Buf(b, n) = x * 256 + y, NEW s, Len(s) = n + 2,
         s[n + 1] = x, s[n + 2] = y, \A k \in 1 .. n : s[k] = b[k]
  PROVE  Octal(s, n + 2) /\ CrcValid(s)
<1>1. Octal(s, n + 2)
  <2> SUFFICES ASSUME NEW k \in 1 .. n + 2 PROVE IsOctet(s[k])
    BY DEF Octal
  <2>1. k \in 1 .. n \/ k = n + 1 \/ k = n + 2
    OBVIOUS
  <2>2. \A j \in 1 .. n : IsOctet(b[j])
    BY DEF Octal
  <2>3. QED
    BY <2>1, <2>2
<1>2. CrcValid(s)
  <2>1. Crc16Buf(s, n) = x * 256 + y
    BY CrcOfPrefix
  <2>2. Len(s) - CrcLen = n /\ Len(s) - 1 = n + 1 /\ Len(s) > CrcLen
    BY DEF CrcLen
  <2>3. QED
    BY <2>1, <2>2 DEF CrcValid
<1>3. QED
  BY <1>1, <1>2

\* The packet as it is sent: octets, with a CRC that is right.
LEMMA WholeIs ==
  ASSUME NEW h \in Sources
  PROVE  /\ Whole(h) \in Seq(Nat) /\ Len(Whole(h)) = 6 + h.len
         /\ Octal(Whole(h), Len(Whole(h))) /\ CrcValid(Whole(h))
         /\ \A k \in 0 .. 5 : Whole(h)[k + 1] = Header(h)[k]
         /\ h.len \in Nat /\ h.len >= 2 /\ h.len <= 65536
<1>h. h.len \in Nat /\ h.len >= 2 /\ h.len <= 65536
  BY PathAssumption, SMT DEF CrcLen
<1> DEFINE n == PrimaryHdr + h.len - CrcLen
           m(k) == IF k - 1 \in Octets THEN Header(h)[k - 1] ELSE 90
           b == [k \in 1 .. n |-> m(k)]
           c == Crc16Buf(b, n)
           s == b \o <<c \div 256, c % 256>>
<1>1. Whole(h) = s
  BY DEF Whole
<1>2. n \in Nat /\ n = h.len + 4 /\ n >= 6
  BY <1>h DEF PrimaryHdr, CrcLen
<1>3. \A k \in 1 .. n : IsOctet(m(k))
  <2>1. \A k \in Octets : IsOctet(Header(h)[k])
    BY HeaderRaw, OctetAt
  <2>2. IsOctet(90)
    BY DEF IsOctet
  <2> HIDE DEF n
  <2>3. QED
    BY <2>1, <2>2
<1>4. \A k \in 0 .. 5 : k + 1 \in 1 .. n /\ m(k + 1) = Header(h)[k]
  <2> SUFFICES ASSUME NEW k \in 0 .. 5 PROVE k + 1 \in 1 .. n /\ m(k + 1) = Header(h)[k]
    OBVIOUS
  <2>1. k + 1 \in 1 .. n /\ (k + 1) - 1 = k /\ k \in Octets
    BY <1>2 DEF Octets
  <2> HIDE DEF n
  <2>2. QED
    BY <2>1
<1> HIDE DEF n, m
<1>5. b \in Seq(Nat) /\ Len(b) = n /\ \A k \in 1 .. n : b[k] = m(k)
  <2>1. \A k \in 1 .. n : m(k) \in Nat
    BY <1>3 DEF IsOctet
  <2>2. QED
    BY <1>2, <2>1
<1> HIDE DEF b
<1>6. Octal(b, Len(b)) /\ Len(b) > 0
  BY <1>2, <1>3, <1>5 DEF Octal
<1>7. IsWord(c)
  <2>1. \A k \in 1 .. n : b[k] = b[k]
    OBVIOUS
  <2>2. QED
    BY <1>2, <1>5, <1>6, <2>1, CrcOfPrefix
<1> DEFINE x == c \div 256
           y == c % 256
<1>8. IsOctet(x) /\ IsOctet(y) /\ c = x * 256 + y
  <2> HIDE DEF c
  <2> QED BY <1>7, SMT DEF IsWord, IsOctet
<1>9. s = b \o <<x, y>>
  OBVIOUS
<1>c. c = Crc16Buf(b, n)
  OBVIOUS
<1> HIDE DEF x, y, s, c
<1>10. /\ s \in Seq(Nat) /\ Len(s) = n + 2 /\ s[n + 1] = x /\ s[n + 2] = y
       /\ \A k \in 1 .. n : s[k] = b[k]
  <2>1. x \in Nat /\ y \in Nat
    BY <1>8 DEF IsOctet
  <2>2. /\ s \in Seq(Nat) /\ Len(s) = Len(b) + 2 /\ s[Len(b) + 1] = x /\ s[Len(b) + 2] = y
        /\ \A k \in 1 .. Len(b) : s[k] = b[k]
    <3>1. b \in Seq(Nat)
      BY <1>5
    <3>2. QED
      BY <1>9, <2>1, <3>1, AppendTwo
  <2>3. QED
    BY <1>5, <2>2
<1>11. Octal(s, n + 2) /\ CrcValid(s)
  <2>1. n > 0 /\ Octal(b, n) /\ Crc16Buf(b, n) = x * 256 + y
    BY <1>2, <1>5, <1>6, <1>8, <1>c
  <2>2. QED
    BY <1>2, <1>8, <1>10, <2>1, CrcAppended
<1>12. Len(s) = 6 + h.len
  BY <1>h, <1>2, <1>10
<1>13. \A k \in 0 .. 5 : s[k + 1] = Header(h)[k]
  BY <1>4, <1>5, <1>10
<1>14. QED
  <2>1. Octal(s, Len(s))
    BY <1>10, <1>11
  <2>2. QED
    <3>1. /\ Whole(h) \in Seq(Nat) /\ Len(Whole(h)) = 6 + h.len
          /\ Octal(Whole(h), Len(Whole(h))) /\ CrcValid(Whole(h))
          /\ \A k \in 0 .. 5 : Whole(h)[k + 1] = Header(h)[k]
      BY <1>1, <1>10, <1>11, <1>12, <1>13, <2>1, Zenon
    <3>2. QED
      BY <1>h, <3>1, SMT

-----------------------------------------------------------------------------
(* The packet that arrives.                                                *)

\* What came, c, of a packet s that met with the damage d.
Came(c, s, d) ==
    /\ \E h \in Sources : s = Whole(h)
    /\ c \in Seq(Nat) /\ Octal(c, Len(c)) /\ Len(c) <= Len(s)
    /\ d = "none" => c = s
    /\ d = "bits" => \E b \in Flips : c = Flipped(s, b)

\* The octets behind the path, which net_pkt_sink looks at.
Cargo == IF way \in {"rx", "rx_done"} THEN Slice(rx, PathBytes, Len(rx) - PathBytes) ELSE rx

\* What net_pkt_sink and net_to_spw have made of the octets s.
Printed(s) == \E beyond \in {0, 255} : dumped = Dump(Memory(s, beyond), Len(s))
Sunk(s) ==
    /\ Printed(s)
    /\ crc_err = CrcReported(s)
    /\ diverted = LooksLikeRmap(s)
    /\ checked = IF LooksLikeRmap(s) THEN <<>> ELSE Checked(s)
    /\ out = Passed(s)
Relayed(s) ==
    /\ Printed(s)
    /\ crc_err = (~opt.udp /\ CrcReported(s))
    /\ checked = IF opt.udp THEN <<>> ELSE Checked(s)
    /\ out = s

PathInv ==
    /\ way \in {"idle", "rx", "rx_done", "tx", "tx_done"}
    /\ rx \in Seq(Nat)
    /\ way # "idle" => Came(Cargo, sent, damage)
    /\ way \in {"idle", "rx", "tx"} => dumped = {}
    /\ way = "rx_done" => (Cargo = <<>> /\ dumped = {}) \/ Sunk(Cargo)
    /\ way = "tx_done" => Relayed(rx)

LEMMA SliceIs ==
  ASSUME NEW r \in Seq(Nat), NEW m \in Int, m + PathBytes = Len(r)
  PROVE  /\ Slice(r, PathBytes, m) \in Seq(Nat)
         /\ Len(Slice(r, PathBytes, m)) = IF m > 0 THEN m ELSE 0
         /\ m <= 0 => Slice(r, PathBytes, m) = <<>>
         /\ \A k \in 1 .. m : Slice(r, PathBytes, m)[k] = r[PathBytes + k]
<1>1. PathBytes \in Nat
  BY PathAssumption
<1> DEFINE d == SubSeq(r, PathBytes + 1, PathBytes + m)
<1>2. d = Slice(r, PathBytes, m)
  BY DEF Slice
<1>3. PathBytes + m = Len(r) /\ Len(r) \in Nat
  BY <1>1
<1>4. d \in Seq(Nat)
  BY <1>1, <1>3
<1>5. Len(d) = IF m > 0 THEN m ELSE 0
  BY <1>1, <1>3
<1>6. m <= 0 => d = <<>>
  BY <1>1, <1>3
<1>7. \A k \in 1 .. m : d[k] = r[PathBytes + k]
  BY <1>1, <1>3
<1> HIDE DEF d
<1>8. QED
  BY <1>2, <1>4, <1>5, <1>6, <1>7

LEMMA SameSeq ==
  ASSUME NEW c \in Seq(Nat), NEW d \in Seq(Nat), Len(d) = Len(c), \A k \in 1 .. Len(c) : d[k] = c[k]
  PROVE  d = c
OBVIOUS

LEMMA JoinedLen ==
  ASSUME NEW a \in Seq(Nat), NEW c \in Seq(Nat)
  PROVE  Len(a \o c) = Len(a) + Len(c)
OBVIOUS

LEMMA Joined ==
  ASSUME NEW a \in Seq(Nat), NEW c \in Seq(Nat), NEW n, Len(a) = n
  PROVE  /\ a \o c \in Seq(Nat) /\ Len(a \o c) = n + Len(c)
         /\ \A k \in 1 .. Len(c) : (a \o c)[n + k] = c[k]
<1>1. Len(a) \in Nat /\ Len(c) \in Nat
  OBVIOUS
<1>2. a \o c \in Seq(Nat) /\ Len(a \o c) = n + Len(c)
  <2>1. a \o c \in Seq(Nat)
    OBVIOUS
  <2>2. Len(a \o c) = n + Len(c)
    BY JoinedLen, Zenon
  <2>3. QED
    BY <2>1, <2>2, Zenon
<1>3. ASSUME NEW k \in 1 .. Len(c) PROVE (a \o c)[n + k] = c[k]
  <2>1. n + k \in 1 .. (n + Len(c)) /\ n + k > n /\ (n + k) - n = k
    BY <1>1
  <2>2. QED
    BY <1>1, <2>1
<1>4. QED
  BY <1>2, <1>3

\* What follows the path is what was sent behind it.
LEMMA BehindPath ==
  ASSUME NEW path \in Seq(Nat), Len(path) = PathBytes, NEW c \in Seq(Nat)
  PROVE  /\ path \o c \in Seq(Nat) /\ Len(path \o c) = PathBytes + Len(c)
         /\ \A k \in 1 .. Len(c) : (path \o c)[PathBytes + k] = c[k]
         /\ Slice(path \o c, PathBytes, Len(path \o c) - PathBytes) = c
<1>1. PathBytes \in Nat
  BY PathAssumption
<1> DEFINE r == path \o c
           m == Len(r) - PathBytes
           d == Slice(r, PathBytes, m)
<1>3. r \in Seq(Nat) /\ Len(r) = PathBytes + Len(c) /\ \A k \in 1 .. Len(c) : r[PathBytes + k] = c[k]
  BY Joined
<1> HIDE DEF r
<1>4. Len(c) \in Nat
  OBVIOUS
<1>5. m = Len(c) /\ m \in Nat /\ m \in Int /\ m + PathBytes = Len(r)
  BY <1>1, <1>3, <1>4
<1> HIDE DEF m
<1>6. d \in Seq(Nat) /\ Len(d) = (IF m > 0 THEN m ELSE 0) /\ \A k \in 1 .. m : d[k] = r[PathBytes + k]
  BY <1>3, <1>5, SliceIs
<1> HIDE DEF d
<1>7. Len(d) = m
  BY <1>5, <1>6
<1>8. d = c
  BY <1>3, <1>5, <1>6, <1>7, SameSeq
<1>9. QED
  BY <1>3, <1>8, Zenon DEF d, m, r

LEMMA CutIs ==
  ASSUME NEW t \in Seq(Nat), NEW e \in Int, e <= Len(t)
  PROVE  /\ SubSeq(t, 1, e) \in Seq(Nat) /\ Len(SubSeq(t, 1, e)) <= Len(t)
         /\ \A k \in 1 .. Len(SubSeq(t, 1, e)) : SubSeq(t, 1, e)[k] = t[k]
OBVIOUS

\* Losing the end leaves a part of what was sent.
LEMMA CutPath ==
  ASSUME NEW t \in Seq(Nat), NEW c \in Seq(Nat), Octal(c, Len(c)), Len(t) = PathBytes + Len(c),
         \A k \in 1 .. Len(c) : t[PathBytes + k] = c[k],
         NEW r \in Seq(Nat), Len(r) <= Len(t), \A k \in 1 .. Len(r) : r[k] = t[k],
         NEW m, m = Len(r) - PathBytes
  PROVE  LET d == Slice(r, PathBytes, m) IN d \in Seq(Nat) /\ Octal(d, Len(d)) /\ Len(d) <= Len(c)
<1> DEFINE d == Slice(r, PathBytes, m)
<1>1. PathBytes \in Nat /\ Len(c) \in Nat /\ Len(r) \in Nat
  BY PathAssumption
<1>2. m \in Int /\ m <= Len(c) /\ m + PathBytes = Len(r)
  BY <1>1
<1>3. d \in Seq(Nat) /\ Len(d) = (IF m > 0 THEN m ELSE 0) /\ \A k \in 1 .. m : d[k] = r[PathBytes + k]
  BY <1>2, SliceIs
<1> HIDE DEF d
<1>4. Len(d) <= Len(c)
  BY <1>1, <1>2, <1>3
<1>5. ASSUME NEW k \in 1 .. Len(d) PROVE IsOctet(d[k])
  <2>1. k \in 1 .. m
    BY <1>2, <1>3
  <2>2. PathBytes + k \in 1 .. Len(r) /\ k \in 1 .. Len(c)
    BY <1>1, <1>2, <2>1
  <2>3. d[k] = c[k]
    BY <1>3, <2>1, <2>2
  <2>4. QED
    BY <2>2, <2>3 DEF Octal
<1>6. Octal(d, Len(d))
  BY <1>5 DEF Octal
<1>7. QED
  BY <1>3, <1>4, <1>6 DEF d

LEMMA FlippedCame ==
  ASSUME NEW h \in Sources, NEW b \in Flips
  PROVE  Came(Flipped(Whole(h), b), Whole(h), "bits")
<1> DEFINE s == Whole(h)
<1>1. s \in Seq(Nat) /\ Octal(s, Len(s))
  BY WholeIs
<1>2. Len(s) \in Nat
  BY <1>1
<1>3. Len(Flipped(s, b)) = Len(s) /\ Octal(Flipped(s, b), Len(s)) /\ Flipped(s, b) \in Seq(Nat)
  BY <1>1, <1>2, FlippedBits
<1> HIDE DEF s
<1>4. Len(Flipped(s, b)) <= Len(s) /\ Octal(Flipped(s, b), Len(Flipped(s, b)))
  BY <1>2, <1>3
<1>5. \E g \in Sources : s = Whole(g)
  BY DEF s
<1>6. Came(Flipped(s, b), s, "bits")
  BY <1>3, <1>4, <1>5, Zenon DEF Came
<1>7. QED
  BY <1>6 DEF s

LEMMA WholeCame ==
  ASSUME NEW h \in Sources
  PROVE  Came(Whole(h), Whole(h), "none")
<1> DEFINE s == Whole(h)
<1>1. s \in Seq(Nat) /\ Octal(s, Len(s))
  BY WholeIs
<1> HIDE DEF s
<1>2. Len(s) <= Len(s)
  BY <1>1
<1>3. \E g \in Sources : s = Whole(g)
  BY DEF s
<1>4. Came(s, s, "none")
  BY <1>1, <1>2, <1>3, Zenon DEF Came
<1>5. QED
  BY <1>4 DEF s

Path == [k \in 1 .. PathBytes |-> 7]

LEMMA PathSeq == Path \in Seq(Nat) /\ Len(Path) = PathBytes
<1>1. PathBytes \in Nat
  BY PathAssumption
<1>2. QED
  BY <1>1 DEF Path

LEMMA FromLinkKeeps ==
  ASSUME PathInv, FromLink
  PROVE  PathInv'
<1>1. PICK h \in Sources :
         /\ sent' = Whole(h)
         /\ \/ Arrive("rx", Path \o Whole(h), "none")
            \/ \E n \in Losses :
                  Arrive("rx", SubSeq(Path \o Whole(h), 1, Len(Path \o Whole(h)) - n), "cut")
            \/ \E b \in Flips : Arrive("rx", Path \o Flipped(Whole(h), b), "bits")
  BY DEF FromLink, Path
<1> DEFINE s == Whole(h)
<1>2. way = "idle" /\ dumped = {}
  BY DEF PathInv, FromLink
<1>3. s \in Seq(Nat) /\ Octal(s, Len(s))
  BY WholeIs
<1>4. way' = "rx" /\ dumped' = {}
  BY <1>1, <1>2 DEF Arrive
<1>5. Cargo' = Slice(rx', PathBytes, Len(rx') - PathBytes)
  BY <1>4 DEF Cargo
<1>6. ASSUME rx' \in Seq(Nat), Came(Cargo', s, damage') PROVE PathInv'
  <2>1. Came(Cargo', sent', damage')
    BY <1>1, <1>6
  <2>2. QED
    BY <1>4, <1>6, <2>1, Zenon DEF PathInv, Came
<1>7. CASE Arrive("rx", Path \o s, "none")
  <2>1. rx' = Path \o s /\ damage' = "none"
    BY <1>7 DEF Arrive
  <2>2. Path \o s \in Seq(Nat) /\ Slice(Path \o s, PathBytes, Len(Path \o s) - PathBytes) = s
    BY <1>3, PathSeq, BehindPath
  <2>3. rx' \in Seq(Nat) /\ Cargo' = s
    BY <1>5, <2>1, <2>2, Zenon
  <2>4. Came(s, s, "none")
    BY WholeCame
  <2>5. QED
    BY <1>6, <2>1, <2>3, <2>4
<1>8. CASE \E n \in Losses : Arrive("rx", SubSeq(Path \o s, 1, Len(Path \o s) - n), "cut")
  <2>1. PICK n \in Losses : Arrive("rx", SubSeq(Path \o s, 1, Len(Path \o s) - n), "cut")
    BY <1>8
  <2> DEFINE t == Path \o s
             e == Len(t) - n
  <2>2. rx' = SubSeq(t, 1, e) /\ damage' = "cut"
    BY <2>1 DEF Arrive
  <2>3. /\ t \in Seq(Nat) /\ Len(t) = PathBytes + Len(s)
        /\ \A k \in 1 .. Len(s) : t[PathBytes + k] = s[k]
    BY <1>3, PathSeq, BehindPath
  <2> HIDE DEF s, t
  <2>4. n \in Nat
    BY PathAssumption
  <2>5. e \in Int /\ e <= Len(t)
    BY <2>3, <2>4
  <2> HIDE DEF e
  <2>6. rx' \in Seq(Nat) /\ Len(rx') <= Len(t) /\ \A k \in 1 .. Len(rx') : rx'[k] = t[k]
    BY <2>2, <2>3, <2>5, CutIs, Zenon
  <2>7. Cargo' \in Seq(Nat) /\ Octal(Cargo', Len(Cargo')) /\ Len(Cargo') <= Len(s)
    BY <1>3, <1>5, <2>3, <2>6, CutPath, Zenon
  <2>8. \E g \in Sources : s = Whole(g)
    BY DEF s
  <2>9. Came(Cargo', s, damage')
    BY <2>2, <2>7, <2>8, Zenon DEF Came
  <2>10. QED
    BY <1>6, <2>6, <2>9
<1>9. CASE \E b \in Flips : Arrive("rx", Path \o Flipped(s, b), "bits")
  <2>1. PICK b \in Flips : Arrive("rx", Path \o Flipped(s, b), "bits")
    BY <1>9
  <2> DEFINE c == Flipped(s, b)
  <2>2. rx' = Path \o c /\ damage' = "bits"
    BY <2>1 DEF Arrive
  <2>3. Came(c, s, "bits")
    BY FlippedCame
  <2>4. c \in Seq(Nat)
    BY <2>3 DEF Came
  <2> HIDE DEF c
  <2>5. Path \o c \in Seq(Nat) /\ Slice(Path \o c, PathBytes, Len(Path \o c) - PathBytes) = c
    BY <2>4, PathSeq, BehindPath
  <2>6. rx' \in Seq(Nat) /\ Cargo' = c
    BY <1>5, <2>2, <2>5, Zenon
  <2>7. QED
    BY <1>6, <2>2, <2>3, <2>6
<1>10. QED
  BY <1>1, <1>7, <1>8, <1>9

LEMMA FromNetKeeps ==
  ASSUME PathInv, FromNet
  PROVE  PathInv'
<1>1. PICK h \in Sources :
         /\ sent' = Whole(h)
         /\ \/ Arrive("tx", Whole(h), "none")
            \/ \E b \in Flips : Arrive("tx", Flipped(Whole(h), b), "bits")
  BY DEF FromNet
<1>2. way = "idle" /\ dumped = {}
  BY DEF PathInv, FromNet
<1>3. way' = "tx" /\ dumped' = {}
  BY <1>1, <1>2 DEF Arrive
<1>4. Cargo' = rx'
  BY <1>3 DEF Cargo
<1>5. Came(rx', sent', damage')
  <2>1. CASE Arrive("tx", Whole(h), "none")
    BY <1>1, <2>1, WholeCame DEF Arrive
  <2>2. CASE \E b \in Flips : Arrive("tx", Flipped(Whole(h), b), "bits")
    BY <1>1, <2>2, FlippedCame DEF Arrive
  <2>3. QED
    BY <1>1, <2>1, <2>2
<1>6. rx' \in Seq(Nat)
  BY <1>5 DEF Came
<1>7. QED
  BY <1>3, <1>4, <1>5, <1>6, Zenon DEF PathInv

LEMMA NetPktSinkKeeps ==
  ASSUME PathInv, NetPktSink
  PROVE  PathInv'
<1> DEFINE n == Len(rx) - PathBytes
           s == Slice(rx, PathBytes, n)
<1>1. way = "rx" /\ way' = "rx_done" /\ UNCHANGED <<opt, sent, damage, rx>>
  BY DEF NetPktSink
<1>2. Cargo = s /\ Cargo' = s
  BY <1>1 DEF Cargo
<1>3. rx \in Seq(Nat) /\ Came(Cargo, sent, damage) /\ dumped = {}
  BY <1>1 DEF PathInv
<1>4. n \in Int /\ n + PathBytes = Len(rx)
  <2>1. PathBytes \in Nat /\ Len(rx) \in Nat
    BY <1>3, PathAssumption
  <2>2. QED
    BY <2>1
<1>5. CASE n <= 0
  <2>1. dumped' = dumped
    BY <1>5 DEF NetPktSink
  <2>2. s = <<>>
    <3> HIDE DEF n
    <3> QED BY <1>3, <1>4, <1>5, SliceIs
  <2> HIDE DEF s, n
  <2>3. QED
    BY <1>1, <1>2, <1>3, <2>1, <2>2, Zenon DEF PathInv
<1>6. CASE ~(n <= 0)
  <2>1. Len(s) = n
    <3> HIDE DEF n
    <3> QED BY <1>3, <1>4, <1>6, SliceIs
  <2>2. /\ \E beyond \in {0, 255} : dumped' = Dump(Memory(s, beyond), n)
        /\ crc_err' = CrcReported(s)
        /\ diverted' = LooksLikeRmap(s)
        /\ checked' = IF LooksLikeRmap(s) THEN <<>> ELSE Checked(s)
        /\ out' = Passed(s)
    BY <1>6, Zenon DEF NetPktSink
  <2>3. opt' = opt
    BY <1>1
  <2>4. s' = s
    BY <1>1 DEF Slice
  <2> HIDE DEF s, n
  <2>5. Sunk(s)'
    BY <2>1, <2>2, <2>3, <2>4, Zenon
      DEF Sunk, Printed, Dump, CrcReported, LooksLikeRmap, Passed, Forwarded
  <2>6. QED
    BY <1>1, <1>2, <1>3, <2>4, <2>5, Zenon DEF PathInv, Sunk, Printed
<1>7. QED
  BY <1>5, <1>6

LEMMA NetToSpwKeeps ==
  ASSUME PathInv, NetToSpw
  PROVE  PathInv'
<1>1. way = "tx" /\ way' = "tx_done" /\ UNCHANGED <<opt, sent, damage, rx>>
  BY DEF NetToSpw
<1>2. Cargo = rx /\ Cargo' = rx
  BY <1>1 DEF Cargo
<1>3. rx \in Seq(Nat) /\ Came(Cargo, sent, damage)
  BY <1>1 DEF PathInv
<1>4. Relayed(rx)'
  <2>1. opt' = opt /\ rx' = rx
    BY <1>1
  <2>2. Printed(rx)'
    BY <2>1 DEF NetToSpw, Printed, Dump
  <2>3. (crc_err = (~opt.udp /\ CrcReported(rx)))'
    BY <2>1 DEF NetToSpw, CrcReported
  <2>4. (checked = IF opt.udp THEN <<>> ELSE Checked(rx))' /\ (out = rx)'
    BY <2>1 DEF NetToSpw
  <2>5. QED
    BY <2>2, <2>3, <2>4, Zenon DEF Relayed
<1>5. QED
  BY <1>1, <1>2, <1>3, <1>4, Zenon DEF PathInv

LEMMA PathInductive ==
  /\ PathInit => PathInv
  /\ PathInv /\ [PathNext]_rvars => PathInv'
<1>1. PathInit => PathInv
  BY DEF PathInit, PathInv
<1>2. ASSUME PathInv, UNCHANGED rvars PROVE PathInv'
  BY <1>2 DEF rvars, PathInv, Cargo, Came, Sunk, Relayed, Printed, Dump, CrcReported,
              LooksLikeRmap, Passed, Forwarded
<1>3. QED
  BY <1>1, <1>2, FromLinkKeeps, FromNetKeeps, NetPktSinkKeeps, NetToSpwKeeps, Zenon DEF PathNext

\* At the end Arrived is the cargo.
LEMMA ArrivedIs == ASSUME PathInv, Over PROVE Arrived = Cargo /\ Came(Arrived, sent, damage)
<1>1. Arrived = Cargo
  BY DEF Over, Arrived, Cargo
<1>2. way # "idle"
  BY DEF Over
<1>3. QED
  BY <1>1, <1>2 DEF PathInv

-----------------------------------------------------------------------------
(* What is sent on.                                                        *)

\* The size in the three octets of the envelope is the size of its contents.
In24(n) == n < 16777216

LEMMA DivideBy256 ==
  ASSUME NEW x \in Nat
  PROVE  x \div 256 \in Nat /\ x % 256 \in Nat /\ x = 256 * (x \div 256) + (x % 256)
<1>1. x \div 256 \in Nat /\ x % 256 \in Nat
  OBVIOUS
<1>2. x = 256 * (x \div 256) + (x % 256)
  OBVIOUS
<1>3. QED
  BY <1>1, <1>2

LEMMA SizeSplit ==
  ASSUME NEW n \in Nat, In24(n), NEW q, q = n \div 256, NEW h, h = n \div 65536
  PROVE  (h % 256) * 65536 + (q % 256) * 256 + (n % 256) = n
<1>1. q \in Nat /\ n % 256 \in Nat /\ n = 256 * q + (n % 256)
  BY DivideBy256
<1>2. h = q \div 256
  BY SMT
<1>3. q < 65536
  BY <1>1, SMT DEF In24
<1>4. h \in Nat /\ q % 256 \in Nat /\ q = 256 * h + (q % 256)
  BY <1>1, <1>2, DivideBy256
<1>5. h < 256 /\ h % 256 = h
  BY <1>3, <1>4, SMT
<1>6. QED
  BY <1>1, <1>4, <1>5, SMT

LEMMA JoinedFront ==
  ASSUME NEW a \in Seq(Nat), NEW c \in Seq(Nat), NEW k \in 1 .. Len(a)
  PROVE  (a \o c)[k] = a[k]
OBVIOUS

LEMMA AfterFour ==
  ASSUME NEW b \in Seq(Nat), NEW n \in Nat, Len(b) = 4 + n
  PROVE  /\ SubSeq(b, 5, Len(b)) \in Seq(Nat) /\ Len(SubSeq(b, 5, Len(b))) = n
         /\ \A k \in 1 .. n : SubSeq(b, 5, Len(b))[k] = b[4 + k]
OBVIOUS

LEMMA EnvelopeIs ==
  ASSUME NEW s \in Seq(Nat), In24(Len(s))
  PROVE  LET b == HostPkt(s)
             o == SubSeq(b, 1, HostSize(b))
         IN  Len(o) = HostHdr + Len(s) /\ SubSeq(o, HostHdr + 1, Len(o)) = s
<1> DEFINE n == Len(s)
           q == n \div 256
           h == n \div 65536
           e == <<0, h % 256, q % 256, n % 256>>
           b == HostPkt(s)
           o == SubSeq(b, 1, HostSize(b))
<1>0. n \in Nat
  OBVIOUS
<1>1. h % 256 \in Nat /\ q % 256 \in Nat /\ n % 256 \in Nat
  <2>1. q \in Nat /\ h \in Nat
    BY <1>0, SMT
  <2> HIDE DEF q, h, n
  <2>2. QED
    BY <1>0, <2>1, DivideBy256
<1>2. (h % 256) * 65536 + (q % 256) * 256 + (n % 256) = n
  BY <1>0, SizeSplit, SMT
<1>3. b = e \o s
  BY DEF HostPkt
<1> HIDE DEF q, h, b
<1>e. e \in Seq(Nat) /\ Len(e) = 4 /\ e[2] = h % 256 /\ e[3] = q % 256 /\ e[4] = n % 256
  BY <1>1
<1> HIDE DEF e
<1>4. b \in Seq(Nat) /\ Len(b) = 4 + n /\ \A k \in 1 .. n : b[4 + k] = s[k]
  <2>1. e \o s \in Seq(Nat) /\ Len(e \o s) = 4 + n /\ \A k \in 1 .. n : (e \o s)[4 + k] = s[k]
    <3> DEFINE w == 4
    <3>1. e \in Seq(Nat) /\ Len(e) = w
      BY <1>e
    <3> HIDE DEF w
    <3>2. e \o s \in Seq(Nat) /\ Len(e \o s) = w + n /\ \A k \in 1 .. n : (e \o s)[w + k] = s[k]
      BY <3>1, Joined
    <3>3. QED
      BY <3>2, Zenon DEF w
  <2>2. QED
    BY <1>3, <2>1, Zenon
<1>5. b[2] = e[2] /\ b[3] = e[3] /\ b[4] = e[4]
  <2>1. 2 \in 1 .. Len(e) /\ 3 \in 1 .. Len(e) /\ 4 \in 1 .. Len(e) /\ e \in Seq(Nat)
    BY <1>e
  <2>2. QED
    BY <1>3, <2>1, JoinedFront
<1>6. HostSize(b) = 4 + n
  <2>1. HostSize(b) = 4 + b[2] * 65536 + b[3] * 256 + b[4]
    BY SMT DEF HostSize, HostHdr
  <2>2. b[2] = h % 256 /\ b[3] = q % 256 /\ b[4] = n % 256
    BY <1>5, <1>e, Zenon
  <2> DEFINE x == h % 256
             y == q % 256
             z == n % 256
  <2>3. x \in Nat /\ y \in Nat /\ z \in Nat /\ x * 65536 + y * 256 + z = n
    BY <1>1, <1>2, SMT
  <2>4. b[2] = x /\ b[3] = y /\ b[4] = z
    BY <2>2, Zenon
  <2> HIDE DEF x, y, z, n
  <2>5. QED
    BY <1>0, <2>1, <2>3, <2>4, SMT
<1>7. o = b
  <2>1. o = SubSeq(b, 1, Len(b))
    BY <1>4, <1>6, Zenon
  <2> HIDE DEF o
  <2>2. QED
    BY <1>4, <2>1
<1>8. SubSeq(b, 5, Len(b)) = s
  <2> DEFINE d == SubSeq(b, 5, Len(b))
  <2>1. d \in Seq(Nat) /\ Len(d) = n /\ \A k \in 1 .. n : d[k] = b[4 + k]
    BY <1>0, <1>4, AfterFour
  <2> HIDE DEF d
  <2>2. d = s
    BY <1>4, <2>1, SameSeq
  <2>3. QED
    BY <2>2 DEF d
<1> HIDE DEF o
<1>9. Len(o) = HostHdr + n /\ SubSeq(o, HostHdr + 1, Len(o)) = s
  <2>1. HostHdr = 4 /\ HostHdr + 1 = 5
    BY DEF HostHdr
  <2>2. QED
    BY <1>4, <1>7, <1>8, <2>1, Zenon
<1>10. QED
  BY <1>9, Zenon DEF b, o

\* NeverDropped: whatever its check says, a packet that is not taken for an
\* RMAP reply is sent on as it arrived, in its envelope or bare, and its
\* counter is checked under the sender's APID.
THEOREM PacketsPass == PathSpec => []NeverDropped
<1>1. ASSUME PathInv PROVE NeverDropped
  <2> SUFFICES ASSUME Over, ~diverted, Len(Arrived) > 0
               PROVE  /\ IF way = "rx_done" /\ opt.gresb
                         THEN /\ Len(out) = HostHdr + Len(Arrived)
                              /\ SubSeq(out, HostHdr + 1, Len(out)) = Arrived
                         ELSE out = Arrived
                      /\ (damage = "none" /\ ~(way = "tx_done" /\ opt.udp)) =>
                            checked = <<Get(Memory(sent, 0), "apid"), Get(Memory(sent, 0), "seq_cnt")>>
    BY Zenon DEF NeverDropped
  <2>1. Arrived = Cargo /\ Came(Arrived, sent, damage)
    BY <1>1, ArrivedIs
  <2> DEFINE s == Arrived
  <2>2. PICK h \in Sources : sent = Whole(h)
    BY <2>1 DEF Came
  <2>3. sent \in Seq(Nat) /\ Len(sent) >= 8 /\ In24(Len(sent))
    <3>1. Whole(h) \in Seq(Nat) /\ Len(Whole(h)) = 6 + h.len /\ h.len \in Nat /\ h.len >= 2 /\ h.len <= 65536
      BY WholeIs, SMT
    <3>2. QED
      BY <2>2, <3>1, SMT DEF In24
  <2>4. s \in Seq(Nat) /\ Len(s) <= Len(sent) /\ (damage = "none" => s = sent)
    BY <2>1 DEF Came
  <2>5. s # <<>>
    <3>1. Len(<<>>) = 0
      OBVIOUS
    <3>2. QED
      BY <3>1
  <2>6. Checked(sent) = <<Get(Memory(sent, 0), "apid"), Get(Memory(sent, 0), "seq_cnt")>>
    <3>1. ~(Len(sent) < PrimaryHdr)
      BY <2>3, SMT DEF PrimaryHdr
    <3>2. QED
      BY <3>1, Zenon DEF Checked
  <2> HIDE DEF s
  <2>7. CASE way = "rx_done"
    <3>1. Sunk(s)
      BY <1>1, <2>1, <2>5, <2>7 DEF PathInv, s
    <3>2. ~LooksLikeRmap(s) /\ checked = Checked(s) /\ out = Forwarded(s)
      <4>1. ~LooksLikeRmap(s)
        BY <3>1, Zenon DEF Sunk
      <4>2. QED
        BY <3>1, <4>1, Zenon DEF Sunk, Passed
    <3>3. damage = "none" => checked = <<Get(Memory(sent, 0), "apid"), Get(Memory(sent, 0), "seq_cnt")>>
      BY <2>4, <2>6, <3>2, Zenon
    <3>4. CASE opt.gresb
      <4>1. out = SubSeq(HostPkt(s), 1, HostSize(HostPkt(s)))
        BY <3>2, <3>4, Zenon DEF Forwarded
      <4>2. In24(Len(s))
        <5>1. Len(s) \in Nat /\ Len(sent) \in Nat
          BY <2>3, <2>4
        <5>2. QED
          BY <2>3, <2>4, <5>1, SMT DEF In24
      <4>3. Len(out) = HostHdr + Len(s) /\ SubSeq(out, HostHdr + 1, Len(out)) = s
        BY <2>4, <4>1, <4>2, EnvelopeIs
      <4>4. QED
        BY <2>7, <3>3, <3>4, <4>3, Zenon DEF s
    <3>5. CASE ~opt.gresb
      <4>1. out = s
        BY <3>2, <3>5, Zenon DEF Forwarded
      <4>2. QED
        BY <2>7, <3>3, <3>5, <4>1, Zenon DEF s
    <3>6. QED
      BY <3>4, <3>5
  <2>8. CASE way = "tx_done"
    <3>1. Relayed(s)
      BY <1>1, <2>1, <2>8 DEF PathInv, Cargo, s
    <3>2. out = s /\ (~opt.udp => checked = Checked(s))
      BY <3>1, Zenon DEF Relayed
    <3>3. (damage = "none" /\ ~opt.udp) => checked = <<Get(Memory(sent, 0), "apid"), Get(Memory(sent, 0), "seq_cnt")>>
      BY <2>4, <2>6, <3>2, Zenon
    <3>4. ~(way = "rx_done")
      BY <2>8
    <3>5. QED
      BY <2>8, <3>2, <3>3, <3>4, Zenon DEF s
  <2>9. QED
    BY <2>7, <2>8 DEF Over
<1>2. QED
  BY <1>1, PathInductive, PTL DEF PathSpec

-----------------------------------------------------------------------------
(* What is reported.                                                       *)

\* Every set of flipped bits is a burst in every packet that is sent.
Bursts == \A h \in Sources : \A b \in Flips : Burst(b, 6 + h.len)

\* DamageReported: with the check on, an undamaged packet is never reported,
\* and one hit by a burst of up to sixteen bits always is, whatever the packet
\* and wherever the burst.
THEOREM BurstsReported == ASSUME Bursts PROVE PathSpec => []DamageReported
<1>1. ASSUME PathInv PROVE DamageReported
  <2> SUFFICES ASSUME Over, opt.crc, ~(way = "tx_done" /\ opt.udp)
               PROVE  (damage = "none" => ~crc_err) /\ (damage = "bits" => crc_err)
    BY DEF DamageReported
  <2> DEFINE s == Arrived
  <2>1. Arrived = Cargo /\ Came(s, sent, damage)
    BY <1>1, ArrivedIs
  <2>2. PICK h \in Sources : sent = Whole(h)
    BY <2>1 DEF Came
  <2>3. sent \in Seq(Nat) /\ Len(sent) = 6 + h.len /\ Len(sent) > 2 /\ Octal(sent, Len(sent)) /\ CrcValid(sent)
    <3>1. Whole(h) \in Seq(Nat) /\ Len(Whole(h)) = 6 + h.len /\ h.len \in Nat /\ Octal(Whole(h), Len(Whole(h))) /\ CrcValid(Whole(h))
      BY WholeIs, SMT
    <3>2. Len(Whole(h)) > 2
      BY <3>1
    <3>3. QED
      BY <2>2, <3>1, <3>2, Zenon
  <2>4. damage = "none" => CrcValid(s)
    BY <2>1, <2>3, Zenon DEF Came
  <2>5. damage = "bits" => ~CrcValid(s)
    <3> SUFFICES ASSUME damage = "bits" PROVE ~CrcValid(s)
      OBVIOUS
    <3>1. PICK b \in Flips : s = Flipped(sent, b)
      BY <2>1, Zenon DEF Came
    <3>2. b \subseteq Nat /\ Burst(b, Len(sent)) /\ Len(sent) \in Nat
      <4>1. b \subseteq Nat
        BY PathAssumption
      <4>2. Burst(b, 6 + h.len)
        BY Zenon DEF Bursts
      <4>3. QED
        BY <2>3, <4>1, <4>2
    <3>3. ~CrcValid(Flipped(sent, b))
      BY <2>3, <3>2, BurstDetected
    <3>4. QED
      BY <3>1, <3>3, Zenon
  <2>6. s # <<>> \/ damage \notin {"none", "bits"}
    <3>1. ASSUME damage \in {"none", "bits"} PROVE Len(s) = Len(sent)
      <4>1. CASE damage = "none"
        BY <2>1, <4>1, Zenon DEF Came
      <4>2. CASE damage = "bits"
        <5>1. PICK b \in Flips : s = Flipped(sent, b)
          BY <2>1, <4>2, Zenon DEF Came
        <5>2. Len(sent) \in Nat
          BY <2>3
        <5>3. Len(Flipped(sent, b)) = Len(sent)
          BY <2>3, <5>2, FlippedBits
        <5>4. QED
          BY <5>1, <5>3, Zenon
      <4>3. QED
        BY <3>1, <4>1, <4>2
    <3>2. Len(<<>>) = 0
      OBVIOUS
    <3>3. QED
      BY <2>3, <3>1, <3>2
  <2> HIDE DEF s
  <2>7. CASE damage \in {"none", "bits"}
    <3>1. crc_err = CrcReported(s)
      <4>1. CASE way = "rx_done"
        <5>1. Sunk(s)
          BY <1>1, <2>1, <2>6, <2>7, <4>1 DEF PathInv, s
        <5>2. QED
          BY <5>1, Zenon DEF Sunk
      <4>2. CASE way = "tx_done"
        <5>1. Relayed(s)
          BY <1>1, <2>1, <4>2 DEF PathInv, Cargo, s
        <5>2. ~opt.udp
          BY <4>2, Zenon
        <5>3. QED
          BY <5>1, <5>2, Zenon DEF Relayed, CrcReported
      <4>3. QED
        BY <4>1, <4>2 DEF Over
    <3>2. (CrcValid(s) => ~crc_err) /\ (~CrcValid(s) => crc_err)
      BY <3>1, Zenon DEF CrcReported
    <3>3. QED
      BY <2>4, <2>5, <3>2, Zenon
  <2>8. QED
    BY <2>7, Zenon
<1>2. QED
  BY <1>1, PathInductive, PTL DEF PathSpec

-----------------------------------------------------------------------------
(* What is printed.                                                        *)

LEMMA OctetRange == ASSUME NEW x, IsOctet(x) PROVE x \in 0 .. 255
BY DEF IsOctet

LEMMA MemoryIs ==
  ASSUME NEW s, Len(s) \in Nat, Octal(s, Len(s)), NEW y \in {0, 255}
  PROVE  /\ Memory(s, y) \in Buffers
         /\ \A k \in Octets : k < Len(s) => Memory(s, y)[k] = s[k + 1]
<1> DEFINE m(k) == IF k < Len(s) THEN s[k + 1] ELSE y
<1>1. Memory(s, y) = [k \in Octets |-> m(k)]
  BY DEF Memory
<1>2. \A k \in Octets : k \in Nat
  BY DEF Octets
<1>3. ASSUME NEW k \in Octets PROVE m(k) \in 0 .. 255
  <2>1. CASE k < Len(s)
    <3>1. k + 1 \in 1 .. Len(s)
      BY <1>2, <2>1
    <3>2. IsOctet(s[k + 1])
      BY <3>1 DEF Octal
    <3>3. s[k + 1] \in 0 .. 255
      BY <3>2, OctetRange
    <3>4. QED
      BY <2>1, <3>3, Zenon
  <2>2. CASE ~(k < Len(s))
    BY <2>2
  <2>3. QED
    BY <2>1, <2>2
<1>4. Memory(s, y) \in Buffers
  <2> HIDE DEF m
  <2> QED BY <1>1, <1>3 DEF Buffers
<1>5. QED
  BY <1>1, <1>4

LEMMA HdrSizes == ASSUME NEW t PROVE HdrSizeOf(t) \in {0, 6, 11, 19} /\ SecondHdr(t) \in {0, 5, 13}
<1>1. SecondHdr(t) \in {0, 5, 13}
  BY DEF SecondHdr, TM, TC
<1>2. QED
  BY <1>1 DEF HdrSizeOf, PrimaryHdr

\* Whatever the packet declares, the printout ends with what arrived.
LEMMA DumpWithin ==
  ASSUME NEW p \in Buffers, NEW n \in Nat
  PROVE  PusDump(p, n) \subseteq 0 .. n - 1
<1> DEFINE off == HdrSizeOf(Type(p))
           z == PldSize(p)
<1>1. off \in Nat
  BY HdrSizes
<1>2. z \in Int
  <2>1. Raw(p, "data_len") = p[4] * 256 + p[5]
    BY RawOctets
  <2>2. p[4] \in Nat /\ p[5] \in Nat
    BY OctetAt DEF Octets, IsOctet
  <2>3. Raw(p, "data_len") \in Nat
    BY <2>1, <2>2, SMT
  <2>4. Get(p, "data_len") \in Int
    BY <2>3, SMT DEF Get
  <2>5. SecondHdr(Type(p)) \in Int
    BY HdrSizes
  <2>6. QED
    BY <2>4, <2>5, SMT DEF PldSize
<1>3. PusDump(p, n) = {} \/ (off < n /\ PusDump(p, n) = off .. off + Avail(p, off, n) - 1)
  <2>1. off >= n \/ off < n
    BY <1>1
  <2> HIDE DEF off
  <2>2. QED
    BY <2>1 DEF PusDump, off
<1>4. off < n => Avail(p, off, n) \in Int /\ Avail(p, off, n) <= n - off
  <2> HIDE DEF off
  <2>1. Avail(p, off, n) = IF z < 0 \/ z > n - off THEN n - off ELSE z
    BY DEF Avail
  <2> HIDE DEF z
  <2>2. QED
    BY <1>1, <1>2, <2>1
<1> DEFINE a == Avail(p, off, n)
<1> HIDE DEF off, a
<1>5. off < n => off .. off + a - 1 \subseteq 0 .. n - 1
  BY <1>1, <1>4 DEF a
<1>6. QED
  BY <1>3, <1>5 DEF a

\* Of a packet that arrived whole, all that follows the headers.
LEMMA DumpWhole ==
  ASSUME NEW h \in Sources, NEW y \in {0, 255}
  PROVE  LET s == Whole(h)
             q == Memory(s, 0)
             p == Memory(s, y)
         IN  PusVersion(q) = PusC => PusDump(p, Len(s)) = HdrSizeOf(Type(q)) .. Len(s) - 1
<1> DEFINE s == Whole(h)
           q == Memory(s, 0)
           p == Memory(s, y)
           n == Len(s)
<1>1. s \in Seq(Nat) /\ n = 6 + h.len /\ Octal(s, n) /\ \A k \in 0 .. 5 : s[k + 1] = Header(h)[k]
  BY WholeIs, SMT
<1>2. h.len \in Nat /\ h.len >= 2 /\ h.len <= 65536
  BY WholeIs, SMT
<1>3. n \in Nat /\ n >= 8
  BY <1>1, <1>2, SMT
<1> HIDE DEF s
<1>4. /\ p \in Buffers /\ \A k \in Octets : k < n => p[k] = s[k + 1]
      /\ q \in Buffers /\ \A k \in Octets : k < n => q[k] = s[k + 1]
  <2>1. Len(s) \in Nat /\ Octal(s, Len(s)) /\ 0 \in {0, 255}
    BY <1>1, <1>3
  <2>2. p \in Buffers /\ \A k \in Octets : k < Len(s) => p[k] = s[k + 1]
    BY <2>1, MemoryIs
  <2>3. q \in Buffers /\ \A k \in Octets : k < Len(s) => q[k] = s[k + 1]
    BY <2>1, MemoryIs
  <2> HIDE DEF p, q
  <2>4. QED
    BY <2>2, <2>3
<1> HIDE DEF p, q, n
<1>5. \A k \in 0 .. 6 : p[k] = q[k]
  <2>1. \A k \in 0 .. 6 : k \in Octets /\ k < n
    BY <1>3 DEF Octets
  <2>2. QED
    BY <1>4, <2>1
<1>6. \A k \in 0 .. 5 : p[k] = Header(h)[k]
  <2>1. \A k \in 0 .. 5 : k \in Octets /\ k < n
    BY <1>3 DEF Octets
  <2>2. \A k \in 0 .. 5 : p[k] = s[k + 1]
    BY <1>4, <2>1
  <2>3. \A k \in 0 .. 5 : s[k + 1] = Header(h)[k]
    BY <1>1
  <2>4. QED
    BY <2>2, <2>3
<1>f. {"version", "type", "flag", "data_len", "pus"} \subseteq Fields
  BY FieldsAre, Zenon
<1>7. Raw(p, "type") = Raw(q, "type") /\ Raw(p, "flag") = Raw(q, "flag") /\ Raw(p, "pus") = Raw(q, "pus")
  BY <1>4, <1>5, RawOctets
<1>8. Raw(p, "version") = 0 /\ Raw(p, "type") = h.type /\ Raw(p, "data_len") = h.len - 1
  <2>1. /\ Header(h) \in Buffers /\ Raw(Header(h), "version") = 0
        /\ Raw(Header(h), "type") = h.type /\ Raw(Header(h), "data_len") = h.len - 1
    BY HeaderRaw
  <2>2. /\ Raw(p, "version") = Raw(Header(h), "version") /\ Raw(p, "type") = Raw(Header(h), "type")
        /\ Raw(p, "data_len") = Raw(Header(h), "data_len")
    BY <1>4, <1>6, <2>1, RawOctets
  <2>3. QED
    BY <2>1, <2>2
<1>9. h.type \in {0, 1}
  BY PathAssumption, SMT DEF TM, TC
<1> DEFINE z == SecondHdr(h.type)
           off == HdrSizeOf(h.type)
<1>10. z \in {5, 13} /\ off = 6 + z
  BY <1>9 DEF SecondHdr, HdrSizeOf, TM, TC, PrimaryHdr
<1>11. Type(p) = h.type /\ Type(q) = h.type /\ PusVersion(p) = PusVersion(q)
  BY <1>7, <1>8 DEF Type, PusVersion, Flag
<1> SUFFICES ASSUME PusVersion(q) = PusC PROVE PusDump(p, n) = HdrSizeOf(Type(q)) .. n - 1
  BY DEF s, p, q, n
<1>12. PktValid(p) /\ PusVersion(p) = PusC
  BY <1>8, <1>11 DEF PktValid, VersionValid
<1>13. PldSize(p) = (h.len % 65536) - z
  <2>1. Get(p, "data_len") = ((h.len - 1) + 1) % 65536
    BY <1>8, SMT DEF Get
  <2>2. (h.len - 1) + 1 = h.len
    BY <1>2, SMT
  <2>3. QED
    BY <1>11, <1>12, <2>1, <2>2, SMT DEF PldSize
<1> HIDE DEF z, off
<1>14. PldSize(p) < 0 \/ PldSize(p) = n - off
  <2>1. n - off = h.len - z
    BY <1>1, <1>2, <1>10, SMT
  <2>2. h.len = 65536 \/ h.len % 65536 = h.len
    BY <1>2, SMT
  <2>3. h.len = 65536 => h.len % 65536 = 0
    BY SMT
  <2>4. QED
    BY <1>2, <1>10, <1>13, <2>1, <2>2, <2>3, SMT
<1>15. Avail(p, off, n) = n - off
  BY <1>14, SMT DEF Avail
<1>16. HdrSizeOf(Type(p)) = off /\ HdrSizeOf(Type(q)) = off
  BY <1>11, Zenon DEF off
<1>17. ~(n < PrimaryHdr)
  BY <1>3 DEF PrimaryHdr
<1>18. CASE off >= n
  <2>1. PusDump(p, n) = {}
    BY <1>16, <1>18, Zenon DEF PusDump
  <2>2. off .. n - 1 = {}
    BY <1>3, <1>10, <1>18
  <2>3. QED
    BY <1>16, <2>1, <2>2
<1>19. CASE ~(off >= n)
  <2>1. PusDump(p, n) = off .. off + Avail(p, off, n) - 1
    BY <1>12, <1>16, <1>17, <1>19, Zenon DEF PusDump
  <2>2. off + Avail(p, off, n) - 1 = n - 1
    BY <1>3, <1>10, <1>15
  <2>3. QED
    BY <1>16, <2>1, <2>2, Zenon
<1>20. QED
  BY <1>18, <1>19

\* DumpFromPacket: the payload part of the printout never reaches past the
\* octets that arrived, whatever length a damaged packet declares, and is the
\* whole payload of an undamaged one, the longest packet, whose length wraps to
\* 0, included.  The lines before it, which print the secondary header, are not
\* covered: of a packet shorter than its headers they show what follows it.
THEOREM DumpStaysInside == PathSpec => []DumpFromPacket
<1>1. ASSUME PathInv PROVE DumpFromPacket
  <2> SUFFICES ASSUME Over
               PROVE  /\ dumped \subseteq 0 .. Len(Arrived) - 1
                      /\ (damage = "none" /\ opt.debug /\ ~opt.short /\ ~opt.gresb
                             /\ PusVersion(Memory(sent, 0)) = PusC)
                         => dumped = HdrSizeOf(Type(Memory(sent, 0))) .. Len(sent) - 1
    BY Zenon DEF DumpFromPacket
  <2> DEFINE s == Arrived
  <2>1. Arrived = Cargo /\ Came(s, sent, damage)
    BY <1>1, ArrivedIs
  <2>2. PICK h \in Sources : sent = Whole(h)
    BY <2>1 DEF Came
  <2>3. s \in Seq(Nat) /\ Octal(s, Len(s)) /\ (damage = "none" => s = sent)
    BY <2>1 DEF Came
  <2>4. Len(s) \in Nat
    BY <2>3
  <2>5. sent # <<>>
    <3>1. Len(Whole(h)) = 6 + h.len /\ h.len \in Nat
      BY WholeIs, SMT
    <3>2. Len(<<>>) = 0
      OBVIOUS
    <3>3. QED
      BY <2>2, <3>1, <3>2
  <2>6. (s = <<>> /\ dumped = {}) \/ Printed(s)
    BY <1>1, <2>1 DEF Over, PathInv, Cargo, Sunk, Relayed
  <2> HIDE DEF s
  <2>7. CASE s = <<>> /\ dumped = {}
    <3>1. damage # "none"
      BY <2>3, <2>5, <2>7
    <3>2. QED
      BY <2>7, <3>1
  <2>8. CASE Printed(s)
    <3>1. PICK y \in {0, 255} : dumped = Dump(Memory(s, y), Len(s))
      BY <2>8 DEF Printed
    <3>2. Memory(s, y) \in Buffers
      BY <2>3, <2>4, MemoryIs
    <3>3. PusDump(Memory(s, y), Len(s)) \subseteq 0 .. Len(s) - 1
      BY <2>4, <3>2, DumpWithin
    <3>4. dumped \subseteq 0 .. Len(s) - 1
      BY <3>1, <3>3, Zenon DEF Dump
    <3>5. ASSUME damage = "none", opt.debug, ~opt.short, ~opt.gresb, PusVersion(Memory(sent, 0)) = PusC
          PROVE  dumped = HdrSizeOf(Type(Memory(sent, 0))) .. Len(sent) - 1
      <4>1. dumped = PusDump(Memory(s, y), Len(s))
        BY <3>1, <3>5, Zenon DEF Dump
      <4>2. s = Whole(h)
        BY <2>2, <2>3, <3>5
      <4>3. dumped = PusDump(Memory(Whole(h), y), Len(Whole(h)))
        BY <4>1, <4>2, Zenon
      <4>4. PusVersion(Memory(Whole(h), 0)) = PusC
        BY <2>2, <3>5, Zenon
      <4>5. dumped = HdrSizeOf(Type(Memory(Whole(h), 0))) .. Len(Whole(h)) - 1
        BY <4>3, <4>4, DumpWhole, Zenon
      <4>6. QED
        BY <2>2, <4>5, Zenon
    <3>6. QED
      BY <3>4, <3>5, Zenon DEF s
  <2>9. QED
    BY <2>6, <2>7, <2>8
<1>2. QED
  BY <1>1, PathInductive, PTL DEF PathSpec

-----------------------------------------------------------------------------
(* The bit copy.                                                           *)

LEMMA ShiftBits ==
  ASSUME NEW S, NEW j
  PROVE  /\ \A b \in 0 .. 7 : (b \in Right(S, j) <=> b + j \in S) /\ (b \in Left(S, j) <=> b - j \in S)
         /\ Right(S, j) \subseteq 0 .. 7 /\ Left(S, j) \subseteq 0 .. 7
BY DEF Right, Left

LEMMA ReplacedBits ==
  ASSUME NEW x, NEW S, NEW T
  PROVE  \A b \in 0 .. 7 : b \in BitsOf(Replaced(x, S, T)) <=> ((b \in BitsOf(x) /\ ~(b \in S)) \/ b \in T)
<1>1. BitsOf(Replaced(x, S, T)) = ((BitsOf(x) \ S) \cup T) \cap (0 .. 15)
  BY BitsOfNum DEF Replaced
<1>2. \A b \in 0 .. 7 : b \in 0 .. 15
  OBVIOUS
<1>3. QED
  BY <1>1, <1>2, Zenon

\* Where bit i is.
Oct(i) == i \div 8 + 1
Pos(i) == i % 8

LEMMA Places8 ==
  ASSUME NEW i \in Nat
  PROVE  /\ Oct(i) \in Nat /\ Oct(i) >= 1 /\ Pos(i) \in 0 .. 7
         /\ i = 8 * (Oct(i) - 1) + Pos(i)
BY DEF Oct, Pos

LEMMA BitAtIs == ASSUME NEW a, NEW i PROVE BitAt(a, i) <=> 7 - Pos(i) \in BitsOf(a[Oct(i)])
BY DEF BitAt, Oct, Pos

LEMMA PlaceOf ==
  ASSUME NEW i \in Nat, NEW p \in Nat, NEW k \in 0 .. 7, p >= 1, i = 8 * (p - 1) + k
  PROVE  Oct(i) = p /\ Pos(i) = k
BY DEF Oct, Pos

\* tmp holds the bits that start at off, the last of them in bit 0.
LEMMA FetchBits ==
  ASSUME NEW a, NEW off \in Nat, NEW n \in 1 .. 8, NEW j \in 0 .. n - 1, NEW i, i = off + n - 1 - j
  PROVE  j \in Fetch(a, off, n) <=> BitAt(a, i)
<1> DEFINE p == Oct(off)
           k == Pos(off)
           nb == n + k - 8
<1>1. p \in Nat /\ p >= 1 /\ k \in 0 .. 7 /\ off = 8 * (p - 1) + k
  BY Places8
<1>2. Fetch(a, off, n) = IF k + n <= 8 THEN Right(BitsOf(a[p]), 8 - n - k) \cap Low(n)
                         ELSE Left(BitsOf(a[p]) \cap Low(8 - k), nb)
                              \cup (Right(BitsOf(a[p + 1]), 8 - nb) \cap Low(nb))
  BY DEF Fetch, Oct, Pos
<1> HIDE DEF p, k
<1>3. i \in Nat /\ j \in 0 .. 7
  BY <1>1
<1>4. CASE k + n <= 8
  <2>1. j \in Fetch(a, off, n) <=> j + (8 - n - k) \in BitsOf(a[p])
    BY <1>1, <1>2, <1>3, <1>4, ShiftBits DEF Low
  <2>2. Oct(i) = p /\ Pos(i) = k + n - 1 - j
    <3>1. k + n - 1 - j \in 0 .. 7 /\ i = 8 * (p - 1) + (k + n - 1 - j)
      BY <1>1, <1>4
    <3>2. QED
      BY <1>1, <1>3, <3>1, PlaceOf
  <2>3. 7 - Pos(i) = j + (8 - n - k)
    BY <1>1, <2>2
  <2>4. QED
    BY <2>1, <2>2, <2>3, BitAtIs
<1>5. CASE k + n > 8
  <2>1. nb \in 1 .. 7 /\ k >= 1
    BY <1>1, <1>5
  <2>2. CASE j >= nb
    <3>1. j \in Fetch(a, off, n) <=> j - nb \in BitsOf(a[p])
      <4>1. j - nb \in Low(8 - k) /\ ~(j \in Low(nb))
        BY <1>1, <2>1, <2>2 DEF Low
      <4>2. j \in Left(BitsOf(a[p]) \cap Low(8 - k), nb) <=> j - nb \in BitsOf(a[p]) \cap Low(8 - k)
        BY <1>3, ShiftBits
      <4>3. ~(k + n <= 8)
        BY <1>1, <1>5
      <4>4. QED
        BY <1>2, <4>1, <4>2, <4>3, Zenon
    <3>2. Oct(i) = p /\ Pos(i) = k + n - 1 - j
      <4>1. k + n - 1 - j \in 0 .. 7 /\ i = 8 * (p - 1) + (k + n - 1 - j)
        BY <1>1, <1>5, <2>2
      <4>2. QED
        BY <1>1, <1>3, <4>1, PlaceOf
    <3>3. 7 - Pos(i) = j - nb
      BY <1>1, <3>2
    <3>4. QED
      BY <3>1, <3>2, <3>3, BitAtIs
  <2>3. CASE j < nb
    <3>1. j \in Fetch(a, off, n) <=> j + (8 - nb) \in BitsOf(a[p + 1])
      <4>1. j \in Low(nb) /\ ~(j - nb \in Low(8 - k))
        BY <1>1, <2>1, <2>3 DEF Low
      <4>2. j \in Left(BitsOf(a[p]) \cap Low(8 - k), nb) <=> j - nb \in BitsOf(a[p]) \cap Low(8 - k)
        BY <1>3, ShiftBits
      <4>3. j \in Right(BitsOf(a[p + 1]), 8 - nb) <=> j + (8 - nb) \in BitsOf(a[p + 1])
        BY <1>3, ShiftBits
      <4>4. ~(k + n <= 8)
        BY <1>1, <1>5
      <4>5. QED
        BY <1>2, <4>1, <4>2, <4>3, <4>4, Zenon
    <3>2. Oct(i) = p + 1 /\ Pos(i) = nb - 1 - j
      <4>1. nb - 1 - j \in 0 .. 7 /\ i = 8 * ((p + 1) - 1) + (nb - 1 - j) /\ p + 1 \in Nat /\ p + 1 >= 1
        BY <1>1, <2>1, <2>3
      <4>2. QED
        BY <1>3, <4>1, PlaceOf
    <3>3. 7 - Pos(i) = j + (8 - nb)
      BY <1>1, <3>2
    <3>4. QED
      BY <3>1, <3>2, <3>3, BitAtIs
  <2>4. QED
    BY <1>3, <2>1, <2>2, <2>3
<1>6. QED
  BY <1>1, <1>4, <1>5

LEMMA FetchLow ==
  ASSUME NEW a, NEW off \in Nat, NEW n \in 1 .. 8
  PROVE  Fetch(a, off, n) \subseteq 0 .. n - 1
<1> DEFINE p == Oct(off)
           k == Pos(off)
           nb == n + k - 8
<1>1. k \in 0 .. 7
  BY Places8
<1>2. Fetch(a, off, n) = IF k + n <= 8 THEN Right(BitsOf(a[p]), 8 - n - k) \cap Low(n)
                         ELSE Left(BitsOf(a[p]) \cap Low(8 - k), nb)
                              \cup (Right(BitsOf(a[p + 1]), 8 - nb) \cap Low(nb))
  BY DEF Fetch, Oct, Pos
<1> HIDE DEF p, k
<1>3. CASE k + n <= 8
  BY <1>2, <1>3 DEF Low
<1>4. CASE ~(k + n <= 8)
  <2>1. ASSUME NEW b \in Left(BitsOf(a[p]) \cap Low(8 - k), nb) PROVE b \in 0 .. n - 1
    <3>1. b \in 0 .. 7 /\ b - nb \in Low(8 - k)
      BY <2>1 DEF Left
    <3>2. QED
      BY <1>1, <1>4, <3>1 DEF Low
  <2>2. Low(nb) \subseteq 0 .. n - 1
    BY <1>1, <1>4 DEF Low
  <2>3. QED
    BY <1>2, <1>4, <2>1, <2>2, Zenon
<1>5. QED
  BY <1>3, <1>4

\* A piece within one octet of the destination.
LEMMA StoreFits ==
  ASSUME NEW N \in Nat, NEW a, DOMAIN a = 1 .. N, NEW off \in Nat, NEW n \in 1 .. 8, Pos(off) + n <= 8,
         NEW tmp, tmp \subseteq 0 .. n - 1, NEW r \in Stored(a, off, n, tmp)
  PROVE  /\ DOMAIN r = 1 .. N
         /\ \A i \in 0 .. 8 * N - 1 :
               BitAt(r, i) <=> IF i \in off .. off + n - 1 THEN off + n - 1 - i \in tmp ELSE BitAt(a, i)
<1> DEFINE p == Oct(off)
           k == Pos(off)
           j == 8 - k - n
           y == Replaced(a[p], Left(Low(n), j), Left(tmp, j))
<1>1. p \in Nat /\ p >= 1 /\ k \in 0 .. 7 /\ off = 8 * (p - 1) + k
  BY Places8
<1>2. r = [a EXCEPT ![p] = y]
  <2>1. (off % 8) + n <= 8
    BY DEF Pos
  <2>2. Stored(a, off, n, tmp) = {[a EXCEPT ![p] = y]}
    BY <2>1 DEF Stored, Oct, Pos
  <2> HIDE DEF y, p
  <2>3. QED
    BY <2>2
<1>3. \A b \in 0 .. 7 : b \in BitsOf(y) <=> ((b \in BitsOf(a[p]) /\ ~(b - j \in Low(n))) \/ b - j \in tmp)
  <2> DEFINE S == Left(Low(n), j)
             T == Left(tmp, j)
  <2>1. \A b \in 0 .. 7 : (b \in S <=> b - j \in Low(n)) /\ (b \in T <=> b - j \in tmp)
    BY ShiftBits, Zenon
  <2> HIDE DEF S, T
  <2>2. \A b \in 0 .. 7 : b \in BitsOf(Replaced(a[p], S, T)) <=> ((b \in BitsOf(a[p]) /\ ~(b \in S)) \/ b \in T)
    BY ReplacedBits, Zenon
  <2>3. y = Replaced(a[p], S, T)
    BY DEF S, T
  <2> HIDE DEF y, p, j
  <2>4. QED
    BY <2>1, <2>2, <2>3, Zenon
<1> HIDE DEF p, y
<1>4. DOMAIN r = 1 .. N /\ \A m \in 1 .. N : r[m] = IF m = p THEN y ELSE a[m]
  BY <1>2
<1>5. ASSUME NEW i \in 0 .. 8 * N - 1
      PROVE  BitAt(r, i) <=> IF i \in off .. off + n - 1 THEN off + n - 1 - i \in tmp ELSE BitAt(a, i)
  <2> DEFINE m == Oct(i)
             b == 7 - Pos(i)
  <2>1. m \in 1 .. N /\ b \in 0 .. 7 /\ i = 8 * (m - 1) + 7 - b
    <3>1. i \in Nat
      OBVIOUS
    <3>2. m \in Nat /\ m >= 1 /\ Pos(i) \in 0 .. 7 /\ i = 8 * (m - 1) + Pos(i)
      BY <3>1, Places8
    <3> HIDE DEF m
    <3>3. QED
      BY <3>2
  <2>2. (BitAt(r, i) <=> b \in BitsOf(r[m])) /\ (BitAt(a, i) <=> b \in BitsOf(a[m]))
    BY BitAtIs
  <2> HIDE DEF m, b, k
  <2>3. CASE m # p
    <3>1. ~(i \in off .. off + n - 1)
      <4>1. off + n - 1 <= 8 * (p - 1) + 7 /\ off >= 8 * (p - 1)
        BY <1>1 DEF k
      <4>2. m <= p - 1 \/ m >= p + 1
        BY <1>1, <2>1, <2>3
      <4>3. QED
        BY <1>1, <2>1, <4>1, <4>2
    <3>2. r[m] = a[m]
      BY <1>4, <2>1, <2>3
    <3>3. QED
      BY <2>2, <3>1, <3>2
  <2>4. CASE m = p
    <3>1. b - j = off + n - 1 - i /\ (b - j \in Low(n) <=> i \in off .. off + n - 1)
      BY <1>1, <2>1, <2>4 DEF Low
    <3>2. BitAt(r, i) <=> ((b \in BitsOf(a[p]) /\ ~(b - j \in Low(n))) \/ b - j \in tmp)
      BY <1>3, <1>4, <2>1, <2>2, <2>4
    <3>3. b - j \in tmp => b - j \in Low(n)
      BY DEF Low
    <3>4. QED
      BY <2>2, <2>4, <3>1, <3>2, <3>3
  <2>5. QED
    BY <2>3, <2>4
<1>6. QED
  BY <1>4, <1>5

\* A whole octet, across two of the destination.
LEMMA StoreAcross ==
  ASSUME NEW N \in Nat, NEW a, DOMAIN a = 1 .. N, NEW off \in Nat, Pos(off) # 0,
         NEW tmp, tmp \subseteq 0 .. 7, NEW r \in Stored(a, off, 8, tmp)
  PROVE  /\ DOMAIN r = 1 .. N
         /\ \A i \in 0 .. 8 * N - 1 :
               BitAt(r, i) <=> IF i \in off .. off + 7 THEN off + 7 - i \in tmp ELSE BitAt(a, i)
<1> DEFINE p == Oct(off)
           k == Pos(off)
           S == Left(Low(k), 8 - k)
           y == Replaced(a[p], Low(8 - k), Right(tmp, k))
           z == Replaced(a[p + 1], S, Left(tmp, 8 - k))
<1>1. p \in Nat /\ p >= 1 /\ k \in 1 .. 7 /\ off = 8 * (p - 1) + k
  BY Places8
<1>2. r = [a EXCEPT ![p] = y, ![p + 1] = z]
  <2>1. ~(k + 8 <= 8) /\ 8 >= k /\ 8 - (8 - k) = k
    BY <1>1
  <2>2. Stored(a, off, 8, tmp) = {[a EXCEPT ![p] = y, ![p + 1] = Replaced(@, T, Left(tmp, 8 - k))] : T \in {S}}
    BY <2>1 DEF Stored, Oct, Pos
  <2>3. p + 1 # p
    BY <1>1
  <2> HIDE DEF y, p, k, S
  <2>4. QED
    BY <2>2, <2>3
<1>3. \A b \in 0 .. 7 : b \in BitsOf(y) <=> ((b \in BitsOf(a[p]) /\ ~(b \in Low(8 - k))) \/ b + k \in tmp)
  <2> DEFINE T == Right(tmp, k)
             U == Low(8 - k)
  <2>1. \A b \in 0 .. 7 : b \in T <=> b + k \in tmp
    BY ShiftBits, Zenon
  <2> HIDE DEF T, U
  <2>2. \A b \in 0 .. 7 : b \in BitsOf(Replaced(a[p], U, T)) <=> ((b \in BitsOf(a[p]) /\ ~(b \in U)) \/ b \in T)
    BY ReplacedBits, Zenon
  <2>3. y = Replaced(a[p], U, T)
    BY DEF T, U
  <2> HIDE DEF y, p, k
  <2>4. QED
    BY <2>1, <2>2, <2>3, Zenon DEF U
<1>4. \A b \in 0 .. 7 :
         b \in BitsOf(z) <=> ((b \in BitsOf(a[p + 1]) /\ ~(b - (8 - k) \in Low(k))) \/ b - (8 - k) \in tmp)
  <2> DEFINE T == Left(tmp, 8 - k)
             x == a[p + 1]
  <2>1. \A b \in 0 .. 7 : (b \in S <=> b - (8 - k) \in Low(k)) /\ (b \in T <=> b - (8 - k) \in tmp)
    BY ShiftBits, Zenon
  <2> HIDE DEF S, T
  <2>2. \A b \in 0 .. 7 : b \in BitsOf(Replaced(x, S, T)) <=> ((b \in BitsOf(x) /\ ~(b \in S)) \/ b \in T)
    BY ReplacedBits, Zenon
  <2>3. z = Replaced(x, S, T)
    BY DEF T
  <2> HIDE DEF z, p, k
  <2>4. QED
    BY <2>1, <2>2, <2>3, Zenon
<1> HIDE DEF p, y, z, k
<1>5. DOMAIN r = 1 .. N /\ \A m \in 1 .. N : r[m] = IF m = p + 1 THEN z ELSE IF m = p THEN y ELSE a[m]
  BY <1>1, <1>2
<1>6. ASSUME NEW i \in 0 .. 8 * N - 1
      PROVE  BitAt(r, i) <=> IF i \in off .. off + 7 THEN off + 7 - i \in tmp ELSE BitAt(a, i)
  <2> DEFINE m == Oct(i)
             b == 7 - Pos(i)
  <2>1. m \in 1 .. N /\ b \in 0 .. 7 /\ i = 8 * (m - 1) + 7 - b
    <3>1. i \in Nat
      OBVIOUS
    <3>2. m \in Nat /\ m >= 1 /\ Pos(i) \in 0 .. 7 /\ i = 8 * (m - 1) + Pos(i)
      BY <3>1, Places8
    <3> HIDE DEF m
    <3>3. QED
      BY <3>2
  <2>2. (BitAt(r, i) <=> b \in BitsOf(r[m])) /\ (BitAt(a, i) <=> b \in BitsOf(a[m]))
    BY BitAtIs
  <2> HIDE DEF m, b
  <2>3. CASE m = p
    <3>1. b + k = off + 7 - i /\ (b \in Low(8 - k) <=> i \in off .. off + 7)
      BY <1>1, <2>1, <2>3 DEF Low
    <3>2. r[m] = y
      BY <1>1, <1>5, <2>1, <2>3
    <3>3. BitAt(r, i) <=> ((b \in BitsOf(a[p]) /\ ~(b \in Low(8 - k))) \/ b + k \in tmp)
      BY <1>3, <2>1, <2>2, <3>2
    <3>4. b + k \in tmp => b \in Low(8 - k)
      BY <1>1, <2>1 DEF Low
    <3>5. QED
      BY <2>2, <2>3, <3>1, <3>3, <3>4
  <2>4. CASE m = p + 1
    <3>1. b - (8 - k) = off + 7 - i /\ (b - (8 - k) \in Low(k) <=> i \in off .. off + 7)
      BY <1>1, <2>1, <2>4 DEF Low
    <3>2. r[m] = z
      BY <1>5, <2>1, <2>4
    <3>3. BitAt(r, i) <=> ((b \in BitsOf(a[p + 1]) /\ ~(b - (8 - k) \in Low(k))) \/ b - (8 - k) \in tmp)
      BY <1>4, <2>1, <2>2, <3>2
    <3>4. b - (8 - k) \in tmp => b - (8 - k) \in Low(k)
      BY <1>1, <2>1 DEF Low
    <3>5. QED
      BY <2>2, <2>4, <3>1, <3>3, <3>4
  <2>5. CASE m # p /\ m # p + 1
    <3>1. ~(i \in off .. off + 7)
      <4>1. m <= p - 1 \/ m >= p + 2
        BY <1>1, <2>1, <2>5
      <4>2. QED
        BY <1>1, <2>1, <4>1
    <3>2. r[m] = a[m]
      BY <1>5, <2>1, <2>5
    <3>3. QED
      BY <2>2, <3>1, <3>2
  <2>6. QED
    BY <2>3, <2>4, <2>5
<1>7. QED
  BY <1>5, <1>6

LEMMA ReplacedNat == ASSUME NEW x, NEW S, NEW T PROVE Replaced(x, S, T) \in Nat
BY NumWord DEF Replaced, IsWord

LEMMA StoredType ==
  ASSUME NEW N \in Nat, NEW a \in [1 .. N -> Nat], NEW off, NEW n, NEW tmp,
         NEW r \in Stored(a, off, n, tmp)
  PROVE  r \in [1 .. N -> Nat]
<1>1. \A p, x : x \in Nat => [a EXCEPT ![p] = x] \in [1 .. N -> Nat]
  OBVIOUS
<1>2. \A p, q, x, y : (x \in Nat /\ y \in Nat) => [a EXCEPT ![p] = x, ![q] = y] \in [1 .. N -> Nat]
  OBVIOUS
<1> DEFINE p == off \div 8 + 1
           k == off % 8
<1>3. CASE k + n <= 8
  <2>1. r = [a EXCEPT ![p] = Replaced(a[p], Left(Low(n), 8 - k - n), Left(tmp, 8 - k - n))]
    BY <1>3 DEF Stored
  <2>2. QED
    BY <1>1, <2>1, ReplacedNat
<1>4. CASE ~(k + n <= 8)
  <2>1. \E S : r = [a EXCEPT ![p] = Replaced(@, Low(8 - k), Right(tmp, k)),
                             ![p + 1] = Replaced(@, S, Left(tmp, 8 - k))]
    BY <1>4 DEF Stored
  <2>2. PICK S : r = [a EXCEPT ![p] = Replaced(@, Low(8 - k), Right(tmp, k)),
                               ![p + 1] = Replaced(@, S, Left(tmp, 8 - k))]
    BY <2>1
  <2>3. QED
    BY <1>2, <2>2, ReplacedNat
<1>5. QED
  BY <1>3, <1>4

\* One call of putbits8 that does not cut a short piece: exactly its bits.
LEMMA PieceCopied ==
  ASSUME NEW N \in Nat, NEW a \in [1 .. N -> Nat], NEW d \in Nat, NEW b, NEW s \in Nat,
         NEW n \in 1 .. 8, Pos(d) + n <= 8 \/ n = 8, NEW r \in Putbits8(a, d, b, s, n)
  PROVE  /\ r \in [1 .. N -> Nat]
         /\ \A i \in 0 .. 8 * N - 1 :
               BitAt(r, i) <=> IF i \in d .. d + n - 1 THEN BitAt(b, i - d + s) ELSE BitAt(a, i)
<1> DEFINE tmp == Fetch(b, s, n)
<1>1. r \in Stored(a, d, n, tmp)
  BY DEF Putbits8
<1>2. tmp \subseteq 0 .. n - 1
  BY FetchLow
<1>3. \A i \in d .. d + n - 1 : d + n - 1 - i \in tmp <=> BitAt(b, i - d + s)
  <2> SUFFICES ASSUME NEW i \in d .. d + n - 1 PROVE d + n - 1 - i \in tmp <=> BitAt(b, i - d + s)
    OBVIOUS
  <2> DEFINE j == d + n - 1 - i
             q == i - d + s
  <2>1. j \in 0 .. n - 1 /\ q = s + n - 1 - j
    OBVIOUS
  <2> HIDE DEF j, q
  <2>2. j \in Fetch(b, s, n) <=> BitAt(b, q)
    BY <2>1, FetchBits
  <2>3. QED
    BY <2>2 DEF j, q
<1> HIDE DEF tmp
<1>4. DOMAIN a = 1 .. N
  OBVIOUS
<1>5. \A i \in 0 .. 8 * N - 1 :
         BitAt(r, i) <=> IF i \in d .. d + n - 1 THEN d + n - 1 - i \in tmp ELSE BitAt(a, i)
  <2>1. CASE Pos(d) + n <= 8
    BY <1>1, <1>2, <1>4, <2>1, StoreFits
  <2>2. CASE ~(Pos(d) + n <= 8)
    <3>1. n = 8 /\ Pos(d) # 0
      BY <2>2
    <3>2. tmp \subseteq 0 .. 7 /\ r \in Stored(a, d, 8, tmp)
      BY <1>1, <1>2, <3>1
    <3>3. \A i \in 0 .. 8 * N - 1 :
             BitAt(r, i) <=> IF i \in d .. d + 7 THEN d + 7 - i \in tmp ELSE BitAt(a, i)
      BY <1>4, <3>1, <3>2, StoreAcross
    <3>4. ASSUME NEW i \in 0 .. 8 * N - 1
          PROVE  BitAt(r, i) <=> IF i \in d .. d + n - 1 THEN d + n - 1 - i \in tmp ELSE BitAt(a, i)
      <4>1. (d + n) - 1 = d + 7
        BY <3>1
      <4>2. BitAt(r, i) <=> IF i \in d .. d + 7 THEN d + 7 - i \in tmp ELSE BitAt(a, i)
        BY <3>3
      <4>3. QED
        BY <3>1, <4>2
    <3>5. QED
      BY <3>4
  <2>3. QED
    BY <2>1, <2>2
<1>6. r \in [1 .. N -> Nat]
  BY <1>1, StoredType
<1>7. QED
  BY <1>3, <1>5, <1>6

-----------------------------------------------------------------------------
(* The invariant of bitcpy: how far the copy is, and that what is left     *)
(* needs no piece the code would misplace.                                 *)

\* The bits of the call up to e are copied, and no others.
CopiedTo(e) ==
    \A i \in 0 .. 8 * Len(call.dst) - 1 :
        BitAt(dst, i) <=> IF i \in call.d_off .. e - 1 THEN BitAt(src, i - call.d_off + call.s_off)
                          ELSE BitAt(call.dst, i)

CallOk ==
    /\ call.d_off \in Nat /\ call.s_off \in Nat /\ call.nbits \in Nat
    /\ call.dst \in Seq(0 .. 255) /\ src \in Seq(0 .. 255)
    /\ call.d_off + call.nbits <= 8 * Len(call.dst)
    /\ call.s_off + call.nbits <= 8 * Len(src)

\* What is left, and how far the copy is.
Progress ==
    /\ bpc \in {"call", "lead", "tail", "done"}
    /\ d_off \in Nat /\ s_off \in Nat /\ nbits \in Nat /\ lead \in Nat
    /\ d_off >= call.d_off /\ d_off + call.s_off = s_off + call.d_off
    /\ d_off + lead + nbits = call.d_off + call.nbits
    /\ bpc = "call" => dst = call.dst /\ d_off = call.d_off /\ s_off = call.s_off
                       /\ nbits = call.nbits /\ lead = 0
    /\ bpc = "tail" => lead = 0

\* No piece that is left is cut.
Aligned ==
    /\ bpc = "lead" => /\ lead > 0 => (d_off % 8) + (lead % 8) <= 8
                       /\ nbits > 0 => (d_off + lead) % 8 = 0 /\ (s_off + lead) % 8 = 0
    /\ bpc = "tail" => nbits < 8 /\ (nbits > 0 => d_off % 8 = 0)

Exact ==
    /\ dst \in [1 .. Len(call.dst) -> Nat]
    /\ bpc # "done" => CopiedTo(d_off)
    /\ bpc = "done" => CopiedTo(call.d_off + call.nbits)

BitInv == CallOk /\ Progress /\ (PieceFits => Aligned /\ Exact)

\* r is a with the bits from o to e - 1 taken from b, where they start at s.
Moved(r, a, b, o, s, e, N) ==
    \A i \in 0 .. 8 * N - 1 :
        BitAt(r, i) <=> IF i \in o .. e - 1 THEN BitAt(b, i - o + s) ELSE BitAt(a, i)

\* Two moves one after the other are one.
LEMMA MovedOn ==
  ASSUME NEW N \in Nat, NEW o \in Nat, NEW c \in Nat, NEW d \in Nat, NEW s \in Nat, NEW e \in Nat,
         o <= d, d <= e, d + c = s + o,
         NEW a0, NEW a1, NEW a2, NEW b,
         Moved(a1, a0, b, o, c, d, N), Moved(a2, a1, b, d, s, e, N)
  PROVE  Moved(a2, a0, b, o, c, e, N)
<1> SUFFICES ASSUME NEW i \in 0 .. 8 * N - 1
             PROVE  BitAt(a2, i) <=> IF i \in o .. e - 1 THEN BitAt(b, i - o + c) ELSE BitAt(a0, i)
  BY DEF Moved
<1>1. BitAt(a1, i) <=> IF i \in o .. d - 1 THEN BitAt(b, i - o + c) ELSE BitAt(a0, i)
  BY DEF Moved
<1>2. BitAt(a2, i) <=> IF i \in d .. e - 1 THEN BitAt(b, i - d + s) ELSE BitAt(a1, i)
  BY DEF Moved
<1>3. i - d + s = i - o + c
  OBVIOUS
<1>4. CASE i \in d .. e - 1
  <2>1. i \in o .. e - 1
    BY <1>4
  <2>2. QED
    BY <1>2, <1>3, <1>4, <2>1
<1>5. CASE ~(i \in d .. e - 1)
  <2>1. (i \in o .. e - 1) <=> (i \in o .. d - 1)
    BY <1>5
  <2>2. QED
    BY <1>1, <1>2, <1>5, <2>1, Zenon
<1>6. QED
  BY <1>4, <1>5

LEMMA CopiedToIs == ASSUME NEW e PROVE CopiedTo(e) <=> Moved(dst, call.dst, src, call.d_off, call.s_off, e, Len(call.dst))
BY DEF CopiedTo, Moved

\* memcpy() of c octets between two aligned places.
LEMMA OctetsMoved ==
  ASSUME NEW N \in Nat, NEW M \in Nat, NEW a \in [1 .. N -> Nat], NEW b \in [1 .. M -> Nat],
         NEW d \in Nat, NEW s \in Nat, NEW c \in Nat, d + c <= N, s + c <= M,
         NEW r, r = [k \in 1 .. N |-> IF k \in d + 1 .. d + c THEN b[k - d + s] ELSE a[k]]
  PROVE  r \in [1 .. N -> Nat] /\ Moved(r, a, b, 8 * d, 8 * s, 8 * d + 8 * c, N)
<1>1. \A k \in 1 .. N : k \in d + 1 .. d + c => k - d + s \in 1 .. M
  OBVIOUS
<1>2. r \in [1 .. N -> Nat]
  BY <1>1
<1> DEFINE o == 8 * d
           u == 8 * s
           e == 8 * d + 8 * c
<1> HIDE DEF o, u, e
<1>3. ASSUME NEW i \in 0 .. 8 * N - 1
      PROVE  BitAt(r, i) <=> IF i \in o .. e - 1 THEN BitAt(b, i - o + u) ELSE BitAt(a, i)
  <2> DEFINE p == Oct(i)
             k == Pos(i)
             j == i - o + u
  <2>0. i \in Nat
    BY <1>3
  <2>1. p \in Nat /\ p >= 1 /\ k \in 0 .. 7 /\ i = 8 * (p - 1) + k
    BY <2>0, Places8, Zenon
  <2>2. BitAt(r, i) <=> 7 - k \in BitsOf(r[p])
    BY BitAtIs
  <2>3. BitAt(a, i) <=> 7 - k \in BitsOf(a[p])
    BY BitAtIs
  <2>4. BitAt(b, j) <=> 7 - Pos(j) \in BitsOf(b[Oct(j)])
    BY BitAtIs
  <2> HIDE DEF p, k, j
  <2>5. p \in 1 .. N
    BY <2>1
  <2>6. CASE i \in o .. e - 1
    <3>1. p \in d + 1 .. d + c
      BY <2>1, <2>6 DEF o, e
    <3>2. j \in Nat /\ p - d + s \in Nat /\ p - d + s >= 1 /\ j = 8 * ((p - d + s) - 1) + k
      BY <2>1, <2>6, <3>1 DEF j, o, e, u
    <3>3. Oct(j) = p - d + s /\ Pos(j) = k
      BY <2>1, <3>2, PlaceOf
    <3>4. r[p] = b[p - d + s]
      BY <2>5, <3>1
    <3>5. BitAt(r, i) <=> BitAt(b, j)
      BY <2>2, <2>4, <3>3, <3>4, Zenon
    <3>6. QED
      BY <2>6, <3>5 DEF j
  <2>7. CASE ~(i \in o .. e - 1)
    <3>1. ~(p \in d + 1 .. d + c)
      BY <2>1, <2>7 DEF o, e
    <3>2. r[p] = a[p]
      BY <2>5, <3>1
    <3>3. QED
      BY <2>2, <2>3, <2>7, <3>2, Zenon
  <2>8. QED
    BY <2>6, <2>7
<1>4. Moved(r, a, b, o, u, e, N)
  BY <1>3, Zenon DEF Moved
<1>5. QED
  BY <1>2, <1>4 DEF o, u, e

LEMMA PieceMoved ==
  ASSUME NEW N \in Nat, NEW a \in [1 .. N -> Nat], NEW d \in Nat, NEW b, NEW s \in Nat,
         NEW n \in 1 .. 8, Pos(d) + n <= 8 \/ n = 8, NEW r \in Putbits8(a, d, b, s, n)
  PROVE  r \in [1 .. N -> Nat] /\ Moved(r, a, b, d, s, d + n, N)
<1> DEFINE Bitwise == \A i \in 0 .. 8 * N - 1 :
               BitAt(r, i) <=> IF i \in d .. d + n - 1 THEN BitAt(b, i - d + s) ELSE BitAt(a, i)
<1>1. r \in [1 .. N -> Nat] /\ Bitwise
  BY PieceCopied
<1>2. Bitwise => Moved(r, a, b, d, s, d + n, N)
  BY DEF Moved
<1>3. QED
  BY <1>1, <1>2

LEMMA OctetArray ==
  ASSUME NEW a \in Seq(0 .. 255)
  PROVE  Len(a) \in Nat /\ a \in [1 .. Len(a) -> Nat]
<1>1. \A S : \A x \in Seq(S) : Len(x) \in Nat /\ DOMAIN x = 1 .. Len(x) /\ x = [k \in DOMAIN x |-> x[k]]
  OBVIOUS
<1>2. \A S : \A x \in Seq(S) : \A k \in 1 .. Len(x) : x[k] \in S
  OBVIOUS
<1>3. \A k \in 1 .. Len(a) : a[k] \in Nat
  <2>1. ASSUME NEW k \in 1 .. Len(a) PROVE a[k] \in 0 .. 255
    BY <1>2
  <2>2. \A v \in 0 .. 255 : v \in Nat
    OBVIOUS
  <2>3. QED
    BY <2>1, <2>2
<1>4. QED
  BY <1>1, <1>3

\* BitInv holds when bitcpy is called.
LEMMA BitmanStarts == BitmanInit => BitInv
<1> SUFFICES ASSUME BitmanInit PROVE BitInv
  OBVIOUS
<1>1. CallOk
  <2>1. /\ dst \in Dsts /\ src \in Srcs /\ d_off \in Offsets /\ s_off \in Offsets
        /\ nbits \in 0 .. MaxBits
        /\ call.dst = dst /\ call.d_off = d_off /\ call.s_off = s_off /\ call.nbits = nbits
    BY DEF BitmanInit
  <2>2. dst \in Seq(0 .. 255) /\ src \in Seq(0 .. 255) /\ d_off \in Nat /\ s_off \in Nat
    BY <2>1, BitmanAssumption
  <2>3. d_off + MaxBits <= 8 * Len(dst) /\ s_off + MaxBits <= 8 * Len(src) /\ MaxBits \in Nat
    BY <2>1, BitmanAssumption
  <2>4. Len(dst) \in Nat /\ Len(src) \in Nat
    BY <2>2
  <2>5. nbits \in Nat /\ d_off + nbits <= 8 * Len(dst) /\ s_off + nbits <= 8 * Len(src)
    BY <2>1, <2>2, <2>3, <2>4
  <2>6. QED
    BY <2>1, <2>2, <2>5 DEF CallOk
<1>2. Progress
  BY <1>1 DEF BitmanInit, Progress, CallOk
<1>3. Aligned
  BY DEF BitmanInit, Aligned
<1>4. Exact
  <2>1. call.dst = dst /\ call.d_off = d_off /\ bpc = "call"
    BY DEF BitmanInit
  <2>2. dst \in [1 .. Len(call.dst) -> Nat]
    BY <1>1, <2>1, OctetArray DEF CallOk
  <2>3. \A i : ~(i \in call.d_off .. d_off - 1)
    BY <1>1, <2>1 DEF CallOk
  <2>4. CopiedTo(d_off)
    BY <2>1, <2>3, Zenon DEF CopiedTo
  <2>5. QED
    BY <2>1, <2>2, <2>4 DEF Exact
<1>5. QED
  BY <1>1, <1>2, <1>3, <1>4 DEF BitInv

\* The lead-in never exceeds the call, and where PieceFits it cuts no piece and
\* leaves both offsets aligned for memcpy().
LEMMA LeadIs ==
  ASSUME BitInv, bpc = "call"
  PROVE  /\ LeadBits \in 0 .. nbits
         /\ PieceFits /\ nbits > 0 =>
               /\ LeadBits > 0 => (d_off % 8) + (LeadBits % 8) <= 8
               /\ nbits - LeadBits > 0 => (d_off + LeadBits) % 8 = 0 /\ (s_off + LeadBits) % 8 = 0
<1>1. /\ d_off \in Nat /\ s_off \in Nat /\ nbits \in Nat
      /\ d_off = call.d_off /\ s_off = call.s_off /\ nbits = call.nbits
  BY DEF BitInv, Progress
<1>2. CASE nbits = 0 \/ (d_off % 8 = 0 /\ s_off % 8 = 0)
  <2>1. LeadBits = 0
    BY <1>1, <1>2 DEF LeadBits
  <2>2. (d_off + 0) % 8 = d_off % 8 /\ (s_off + 0) % 8 = s_off % 8 /\ nbits - 0 = nbits
    BY <1>1
  <2>3. nbits > 0 => d_off % 8 = 0 /\ s_off % 8 = 0
    BY <1>1, <1>2
  <2>4. 0 \in 0 .. nbits /\ ~(0 > 0)
    BY <1>1
  <2>5. QED
    BY <2>1, <2>2, <2>3, <2>4
<1>3. CASE /\ nbits > 0 /\ (d_off % 8 # 0 \/ s_off % 8 # 0)
           /\ (nbits < 8 \/ d_off % 8 # s_off % 8)
  <2>1. LeadBits = nbits
    BY <1>1, <1>3 DEF LeadBits
  <2>2. PieceFits => (d_off % 8) + (nbits % 8) <= 8
    BY <1>1, <1>3 DEF PieceFits
  <2>3. QED
    BY <1>1, <1>3, <2>1, <2>2
<1>4. CASE nbits >= 8 /\ d_off % 8 = s_off % 8 /\ d_off % 8 # 0
  <2>1. LeadBits = 8 - (d_off % 8)
    BY <1>1, <1>4 DEF LeadBits
  <2>2. d_off % 8 \in 1 .. 7
    BY <1>1, <1>4
  <2>3. (8 - (d_off % 8)) % 8 = 8 - (d_off % 8)
    BY <2>2
  <2>4. (d_off + (8 - (d_off % 8))) % 8 = 0
    BY <1>1
  <2>5. (s_off + (8 - (d_off % 8))) % 8 = 0
    BY <1>1, <1>4
  <2>6. 8 - (d_off % 8) \in 0 .. nbits
    BY <1>1, <1>4, <2>2
  <2>7. (d_off % 8) + (8 - (d_off % 8)) <= 8
    BY <2>2
  <2>8. QED
    BY <2>1, <2>3, <2>4, <2>5, <2>6, <2>7
<1>5. QED
  BY <1>1, <1>2, <1>3, <1>4

\* Where a copy is after n more bits, and how far a copy of whole octets reaches.
LEMMA FurtherOn ==
  ASSUME NEW o \in Nat, NEW c \in Nat, NEW k \in Nat, NEW d \in Nat, NEW s \in Nat,
         NEW l \in Nat, NEW b \in Nat, NEW n \in Nat,
         d >= o, d + c = s + o, d + l + b = o + k
  PROVE  /\ d + n >= o /\ (d + n) + c = (s + n) + o
         /\ (d + n) + (l - n) + b = o + k
OBVIOUS

LEMMA OctetsReach ==
  ASSUME NEW o \in Nat, NEW c \in Nat, NEW k \in Nat, NEW d \in Nat, NEW s \in Nat,
         NEW n \in Nat, NEW r \in Nat, NEW N \in Nat, NEW M \in Nat,
         8 * d + c = 8 * s + o, 8 * d + (8 * n + r) = o + k, o + k <= 8 * N, c + k <= 8 * M
  PROVE  d + n <= N /\ s + n <= M
OBVIOUS

-----------------------------------------------------------------------------
(* Each step keeps it.                                                     *)

LEMMA CallCopies ==
  ASSUME BitInv, Bitcpy
  PROVE  BitInv'
<1> USE DEF Bitcpy
<1>1. CallOk'
  BY DEF BitInv, CallOk
<1>2. LeadBits \in 0 .. nbits
  BY LeadIs
<1>3. Progress'
  BY <1>2 DEF BitInv, Progress
<1>4. PieceFits' <=> PieceFits
  BY DEF PieceFits
<1>5. ASSUME PieceFits PROVE Aligned'
  <2>1. CASE nbits = 0
    BY <2>1 DEF Aligned
  <2>2. CASE nbits # 0
    <3>1. nbits > 0
      BY <2>2 DEF BitInv, Progress
    <3>2. /\ LeadBits > 0 => (d_off % 8) + (LeadBits % 8) <= 8
          /\ nbits - LeadBits > 0 => (d_off + LeadBits) % 8 = 0 /\ (s_off + LeadBits) % 8 = 0
      BY <1>5, <3>1, LeadIs
    <3>3. bpc' = "lead" /\ lead' = LeadBits /\ nbits' = nbits - LeadBits /\ d_off' = d_off /\ s_off' = s_off
      BY <2>2
    <3>4. QED
      BY <3>2, <3>3, Zenon DEF Aligned
  <2>3. QED
    BY <2>1, <2>2
<1>6. ASSUME PieceFits PROVE Exact'
  <2>1. dst \in [1 .. Len(call.dst) -> Nat] /\ CopiedTo(d_off)
    BY <1>6 DEF BitInv, Exact
  <2>2. bpc' = "done" => call.d_off + call.nbits = d_off
    BY DEF BitInv, Progress, CallOk
  <2>3. CopiedTo(d_off)' /\ (bpc' = "done" => CopiedTo(call.d_off + call.nbits)')
    BY <2>1, <2>2 DEF CopiedTo
  <2>4. QED
    BY <2>1, <2>3 DEF Exact
<1>7. QED
  BY <1>1, <1>3, <1>4, <1>5, <1>6 DEF BitInv

LEMMA LeadCopies ==
  ASSUME BitInv, CopyLead
  PROVE  BitInv'
<1> DEFINE n == IF lead < 8 THEN lead ELSE 8
<1>1. /\ bpc = "lead" /\ lead > 0 /\ dst' \in Putbits8(dst, d_off, src, s_off, n)
      /\ lead' = lead - n /\ d_off' = d_off + n /\ s_off' = s_off + n
      /\ bpc' = bpc /\ src' = src /\ nbits' = nbits /\ call' = call
  BY DEF CopyLead
<1>2. lead \in Nat /\ d_off \in Nat /\ s_off \in Nat /\ nbits \in Nat
  BY DEF BitInv, Progress
<1>3. n \in 1 .. 8 /\ n <= lead /\ (lead < 8 => n = lead) /\ (lead >= 8 => n = 8)
  BY <1>1, <1>2
<1> HIDE DEF n
<1>4. CallOk'
  BY <1>1 DEF BitInv, CallOk
<1>5. Progress'
  <2>1. Progress /\ CallOk
    BY DEF BitInv
  <2>2. /\ bpc = "lead" /\ bpc' = "lead" /\ nbits' = nbits /\ call' = call
        /\ lead' = lead - n /\ d_off' = d_off + n /\ s_off' = s_off + n
    BY <1>1
  <2>3. lead - n \in Nat /\ d_off + n \in Nat /\ s_off + n \in Nat
    BY <1>2, <1>3
  <2>4. /\ d_off + n >= call.d_off /\ (d_off + n) + call.s_off = (s_off + n) + call.d_off
        /\ (d_off + n) + (lead - n) + nbits = call.d_off + call.nbits
    <3>1. /\ call.d_off \in Nat /\ call.s_off \in Nat /\ call.nbits \in Nat /\ d_off >= call.d_off
          /\ d_off + call.s_off = s_off + call.d_off /\ d_off + lead + nbits = call.d_off + call.nbits
      BY <2>1 DEF Progress, CallOk
    <3>2. n \in Nat
      BY <1>3
    <3>3. d_off + n >= call.d_off /\ (d_off + n) + call.s_off = (s_off + n) + call.d_off
      BY <1>2, <3>1, <3>2, FurtherOn
    <3>4. (d_off + n) + (lead - n) + nbits = d_off + lead + nbits
      BY <1>2, <3>2
    <3>5. QED
      BY <3>1, <3>3, <3>4
  <2>5. QED
    BY <1>2, <2>2, <2>3, <2>4 DEF Progress
<1>6. PieceFits' <=> PieceFits
  BY <1>1 DEF PieceFits
<1>7. ASSUME PieceFits PROVE Aligned' /\ Exact'
  <2>1. /\ (d_off % 8) + (lead % 8) <= 8
        /\ nbits > 0 => (d_off + lead) % 8 = 0 /\ (s_off + lead) % 8 = 0
    BY <1>1, <1>7 DEF BitInv, Aligned
  <2>2. Aligned'
    <3>1. (d_off + n) + (lead - n) = d_off + lead /\ (s_off + n) + (lead - n) = s_off + lead
      BY <1>2, <1>3
    <3>2. lead - n > 0 => ((d_off + n) % 8) + ((lead - n) % 8) <= 8
      <4>1. SUFFICES ASSUME lead - n > 0 PROVE ((d_off + n) % 8) + ((lead - n) % 8) <= 8
        OBVIOUS
      <4>2. n = 8 /\ lead > 8
        BY <1>2, <1>3, <4>1
      <4>3. (d_off + 8) % 8 = d_off % 8 /\ (lead - 8) % 8 = lead % 8
        BY <1>2, <4>2
      <4>4. QED
        BY <2>1, <4>2, <4>3
    <3>3. QED
      BY <1>1, <2>1, <3>1, <3>2 DEF Aligned
  <2>3. Pos(d_off) + n <= 8 \/ n = 8
    <3>1. CASE lead < 8
      BY <1>2, <1>3, <2>1, <3>1 DEF Pos
    <3>2. CASE lead >= 8
      BY <1>3, <3>2
    <3>3. QED
      BY <1>2, <3>1, <3>2
  <2> DEFINE N == Len(call.dst)
  <2>4. N \in Nat
    BY DEF BitInv, CallOk
  <2>5. dst \in [1 .. N -> Nat] /\ CopiedTo(d_off)
    BY <1>1, <1>7 DEF BitInv, Exact
  <2>6. dst' \in [1 .. N -> Nat] /\ Moved(dst', dst, src, d_off, s_off, d_off + n, N)
    BY <1>1, <1>2, <1>3, <2>3, <2>4, <2>5, PieceMoved
  <2>7. Moved(dst, call.dst, src, call.d_off, call.s_off, d_off, N)
    BY <2>5, CopiedToIs
  <2>8. /\ call.d_off \in Nat /\ call.s_off \in Nat /\ call.d_off <= d_off
        /\ d_off + call.s_off = s_off + call.d_off
    BY DEF BitInv, CallOk, Progress
  <2>9. d_off <= d_off + n /\ d_off + n \in Nat
    BY <1>2, <1>3
  <2>10. Moved(dst', call.dst, src, call.d_off, call.s_off, d_off + n, N)
    BY <1>2, <2>4, <2>6, <2>7, <2>8, <2>9, MovedOn
  <2>11. CopiedTo(d_off)'
    BY <1>1, <2>10 DEF CopiedTo, Moved
  <2>12. Exact'
    BY <1>1, <2>6, <2>11 DEF Exact
  <2>13. QED
    BY <2>2, <2>12
<1>8. QED
  BY <1>4, <1>5, <1>6, <1>7 DEF BitInv

LEMMA TailCopies ==
  ASSUME BitInv, CopyTail
  PROVE  BitInv'
<1>1. /\ bpc = "tail" /\ bpc' = "done" /\ dst' \in Putbits8(dst, d_off, src, s_off, nbits)
      /\ src' = src /\ nbits' = nbits /\ call' = call /\ d_off' = d_off /\ s_off' = s_off /\ lead' = lead
  BY DEF CopyTail
<1>2. lead = 0 /\ d_off \in Nat /\ s_off \in Nat /\ nbits \in Nat
  BY <1>1 DEF BitInv, Progress
<1>3. CallOk'
  BY <1>1 DEF BitInv, CallOk
<1>4. Progress'
  BY <1>1 DEF BitInv, Progress
<1>5. PieceFits' <=> PieceFits
  BY <1>1 DEF PieceFits
<1>6. ASSUME PieceFits PROVE Aligned' /\ Exact'
  <2>1. nbits < 8 /\ (nbits > 0 => d_off % 8 = 0)
    BY <1>1, <1>6 DEF BitInv, Aligned
  <2>2. Aligned'
    BY <1>1 DEF Aligned
  <2> DEFINE N == Len(call.dst)
  <2>3. N \in Nat
    BY DEF BitInv, CallOk
  <2>4. dst \in [1 .. N -> Nat] /\ CopiedTo(d_off)
    BY <1>1, <1>6 DEF BitInv, Exact
  <2>5. d_off + nbits = call.d_off + call.nbits
    BY <1>2 DEF BitInv, CallOk, Progress
  <2>6. Moved(dst, call.dst, src, call.d_off, call.s_off, d_off, N)
    BY <2>4, CopiedToIs
  <2>7. dst' \in [1 .. N -> Nat] /\ Moved(dst', call.dst, src, call.d_off, call.s_off, d_off + nbits, N)
    <3>1. CASE nbits = 0
      <4>1. dst' = dst
        BY <1>1, <3>1 DEF Putbits8
      <4>2. d_off + nbits = d_off
        BY <1>2, <3>1
      <4>3. QED
        BY <2>4, <2>6, <4>1, <4>2
    <3>2. CASE nbits # 0
      <4>1. nbits \in 1 .. 8 /\ Pos(d_off) + nbits <= 8
        BY <1>2, <2>1, <3>2 DEF Pos
      <4>2. dst' \in [1 .. N -> Nat] /\ Moved(dst', dst, src, d_off, s_off, d_off + nbits, N)
        BY <1>1, <1>2, <2>3, <2>4, <4>1, PieceMoved
      <4>3. /\ call.d_off \in Nat /\ call.s_off \in Nat /\ call.d_off <= d_off
            /\ d_off + call.s_off = s_off + call.d_off
        BY DEF BitInv, CallOk, Progress
      <4>4. d_off <= d_off + nbits /\ d_off + nbits \in Nat
        BY <1>2
      <4>5. Moved(dst', call.dst, src, call.d_off, call.s_off, d_off + nbits, N)
        BY <1>2, <2>3, <2>6, <4>2, <4>3, <4>4, MovedOn
      <4>6. QED
        BY <4>2, <4>5
    <3>3. QED
      BY <3>1, <3>2
  <2>8. CopiedTo(call.d_off + call.nbits)'
    <3>1. Moved(dst', call.dst, src, call.d_off, call.s_off, call.d_off + call.nbits, N)
      BY <2>5, <2>7
    <3>2. QED
      BY <1>1, <3>1 DEF CopiedTo, Moved
  <2>9. QED
    BY <1>1, <2>2, <2>7, <2>8 DEF Exact
<1>7. QED
  BY <1>3, <1>4, <1>5, <1>6 DEF BitInv

LEMMA OctetsCopy ==
  ASSUME BitInv, CopyOctets
  PROVE  BitInv'
<1> DEFINE c == nbits \div 8
           d == d_off \div 8
           s == s_off \div 8
           r == nbits % 8
<1>1. /\ bpc = "lead" /\ lead = 0 /\ bpc' = "tail"
      /\ dst' = [k \in DOMAIN dst |-> IF k \in d + 1 .. d + c THEN src[k - d + s] ELSE dst[k]]
      /\ d_off' = d_off + 8 * c /\ s_off' = s_off + 8 * c /\ nbits' = r
      /\ src' = src /\ lead' = lead /\ call' = call
  BY DEF CopyOctets
<1>2. d_off \in Nat /\ s_off \in Nat /\ nbits \in Nat
  BY DEF BitInv, Progress
<1>3. c \in Nat /\ d \in Nat /\ s \in Nat /\ nbits = 8 * c + r /\ r \in 0 .. 7
  BY <1>2
<1>4. d_off = 8 * d + (d_off % 8) /\ s_off = 8 * s + (s_off % 8) /\ d_off % 8 \in Nat /\ s_off % 8 \in Nat
  BY <1>2
<1> HIDE DEF c, d, s, r
<1>5. CallOk'
  BY <1>1 DEF BitInv, CallOk
<1>6. Progress'
  <2>1. Progress /\ CallOk
    BY DEF BitInv
  <2>2. /\ bpc' = "tail" /\ nbits' = r /\ call' = call /\ lead' = 0
        /\ d_off' = d_off + 8 * c /\ s_off' = s_off + 8 * c
    BY <1>1
  <2>3. r \in Nat /\ d_off + 8 * c \in Nat /\ s_off + 8 * c \in Nat
    BY <1>2, <1>3
  <2>4. /\ d_off + 8 * c >= call.d_off /\ (d_off + 8 * c) + call.s_off = (s_off + 8 * c) + call.d_off
        /\ (d_off + 8 * c) + 0 + r = call.d_off + call.nbits
    <3> DEFINE n == 8 * c
    <3>1. /\ call.d_off \in Nat /\ call.s_off \in Nat /\ call.nbits \in Nat /\ d_off >= call.d_off
          /\ d_off + call.s_off = s_off + call.d_off /\ d_off + lead + nbits = call.d_off + call.nbits
      BY <2>1 DEF Progress, CallOk
    <3>2. n \in Nat /\ lead \in Nat /\ nbits = n + r /\ lead = 0
      BY <1>1, <1>3
    <3> HIDE DEF n
    <3>3. /\ d_off + n >= call.d_off /\ (d_off + n) + call.s_off = (s_off + n) + call.d_off
          /\ (d_off + n) + (lead - n) + nbits = call.d_off + call.nbits
      BY <1>2, <3>1, <3>2, FurtherOn
    <3>4. (d_off + n) + (lead - n) + nbits = (d_off + n) + 0 + r
      BY <1>2, <2>3, <3>2
    <3>5. QED
      BY <3>3, <3>4 DEF n
  <2>5. QED
    BY <2>2, <2>3, <2>4 DEF Progress
<1>7. PieceFits' <=> PieceFits
  BY <1>1 DEF PieceFits
<1>8. ASSUME PieceFits PROVE Aligned' /\ Exact'
  <2>1. nbits > 0 => d_off % 8 = 0 /\ s_off % 8 = 0
    <3>1. nbits > 0 => (d_off + lead) % 8 = 0 /\ (s_off + lead) % 8 = 0
      BY <1>1, <1>8 DEF BitInv, Aligned
    <3>2. d_off + lead = d_off /\ s_off + lead = s_off
      BY <1>1, <1>2
    <3>3. QED
      BY <3>1, <3>2
  <2>2. Aligned'
    <3>1. r > 0 => (d_off + 8 * c) % 8 = 0
      BY <1>2, <1>3, <2>1
    <3>2. r < 8
      BY <1>3
    <3>3. QED
      BY <1>1, <3>1, <3>2 DEF Aligned
  <2> DEFINE N == Len(call.dst)
             M == Len(src)
  <2>3. /\ N \in Nat /\ M \in Nat /\ src \in [1 .. M -> Nat]
        /\ call.d_off \in Nat /\ call.s_off \in Nat /\ call.nbits \in Nat
        /\ call.d_off + call.nbits <= 8 * N /\ call.s_off + call.nbits <= 8 * M
    BY OctetArray DEF BitInv, CallOk
  <2>4. dst \in [1 .. N -> Nat] /\ CopiedTo(d_off)
    BY <1>1, <1>8 DEF BitInv, Exact
  <2>5. /\ call.d_off <= d_off /\ d_off + call.s_off = s_off + call.d_off
        /\ d_off + nbits = call.d_off + call.nbits
    BY <1>1, <1>2, <2>3 DEF BitInv, Progress
  <2> HIDE DEF N, M
  <2>6. Moved(dst, call.dst, src, call.d_off, call.s_off, d_off, N)
    BY <2>4, CopiedToIs DEF N
  <2>7. dst' \in [1 .. N -> Nat] /\ Moved(dst', call.dst, src, call.d_off, call.s_off, d_off + 8 * c, N)
    <3>1. DOMAIN dst = 1 .. N
      BY <2>4
    <3>2. dst' = [k \in 1 .. N |-> IF k \in d + 1 .. d + c THEN src[k - d + s] ELSE dst[k]]
      BY <1>1, <3>1
    <3>3. CASE c = 0
      <4>1. \A k \in 1 .. N : ~(k \in d + 1 .. d + c)
        BY <1>3, <3>3
      <4>2. dst' = dst
        BY <2>4, <3>2, <4>1
      <4>3. d_off + 8 * c = d_off
        BY <1>2, <3>3
      <4>4. QED
        BY <2>4, <2>6, <4>2, <4>3
    <3>4. CASE c # 0
      <4>1. d_off = 8 * d /\ s_off = 8 * s
        BY <1>2, <1>3, <1>4, <2>1, <3>4
      <4>2. d + c <= N /\ s + c <= M
        <5>1. r \in Nat /\ nbits = 8 * c + r
          BY <1>3
        <5>2. 8 * d + call.s_off = 8 * s + call.d_off
          BY <2>5, <4>1
        <5>3. 8 * d + (8 * c + r) = call.d_off + call.nbits
          BY <2>5, <4>1, <5>1
        <5>4. QED
          BY <1>3, <2>3, <5>1, <5>2, <5>3, OctetsReach
      <4>3. dst' \in [1 .. N -> Nat] /\ Moved(dst', dst, src, 8 * d, 8 * s, 8 * d + 8 * c, N)
        <5>1. \A q : q = [k \in 1 .. N |-> IF k \in d + 1 .. d + c THEN src[k - d + s] ELSE dst[k]] =>
                  q \in [1 .. N -> Nat] /\ Moved(q, dst, src, 8 * d, 8 * s, 8 * d + 8 * c, N)
          BY <1>3, <2>3, <2>4, <4>2, OctetsMoved, Zenon
        <5>2. QED
          BY <3>2, <5>1, Zenon
      <4>4. Moved(dst', dst, src, d_off, s_off, d_off + 8 * c, N)
        BY <4>1, <4>3
      <4>5. d_off <= d_off + 8 * c /\ d_off + 8 * c \in Nat
        BY <1>2, <1>3
      <4>6. Moved(dst', call.dst, src, call.d_off, call.s_off, d_off + 8 * c, N)
        <5> DEFINE e == d_off + 8 * c
        <5>1. d_off <= e /\ e \in Nat /\ Moved(dst', dst, src, d_off, s_off, e, N)
          BY <4>4, <4>5
        <5> HIDE DEF e
        <5>2. Moved(dst', call.dst, src, call.d_off, call.s_off, e, N)
          BY <1>2, <2>3, <2>5, <2>6, <5>1, MovedOn
        <5>3. QED
          BY <5>2 DEF e
      <4>7. QED
        BY <4>3, <4>6
    <3>5. QED
      BY <3>3, <3>4
  <2>8. CopiedTo(d_off)'
    BY <1>1, <2>7 DEF CopiedTo, Moved, N
  <2>9. QED
    BY <1>1, <2>2, <2>7, <2>8 DEF Exact, N
<1>9. QED
  BY <1>5, <1>6, <1>7, <1>8 DEF BitInv

-----------------------------------------------------------------------------
LEMMA BitmanInvariant == BitmanSpec => []BitInv
<1>1. BitInv /\ [BitmanNext]_bvars => BitInv'
  <2> SUFFICES ASSUME BitInv, [BitmanNext]_bvars PROVE BitInv'
    OBVIOUS
  <2>1. CASE UNCHANGED bvars
    BY <2>1 DEF bvars, BitInv, CallOk, Progress, Aligned, Exact, CopiedTo, PieceFits
  <2>2. QED
    BY <2>1, CallCopies, LeadCopies, OctetsCopy, TailCopies DEF BitmanNext
<1>2. QED
  BY <1>1, BitmanStarts, PTL DEF BitmanSpec

LEMMA BitInvExact == BitInv => CopiedExactly
<1> SUFFICES ASSUME BitInv, bpc = "done", PieceFits PROVE CopiedExactly
  BY DEF CopiedExactly
<1> DEFINE N == Len(call.dst)
           e == call.d_off + call.nbits
<1>1. N \in Nat /\ dst \in [1 .. N -> Nat] /\ CopiedTo(e)
  BY DEF BitInv, CallOk, Exact
<1>2. Len(dst) = N
  <2> HIDE DEF N
  <2>1. dst \in Seq(Nat) /\ DOMAIN dst = 1 .. N
    BY <1>1
  <2>2. QED
    BY <1>1, <2>1
<1>3. \A i \in 0 .. 8 * Len(dst) - 1 :
         BitAt(dst, i) <=> IF i \in call.d_off .. e - 1
                           THEN BitAt(src, i - call.d_off + call.s_off) ELSE BitAt(call.dst, i)
  <2>1. \A i \in 0 .. 8 * N - 1 :
           BitAt(dst, i) <=> IF i \in call.d_off .. e - 1
                             THEN BitAt(src, i - call.d_off + call.s_off) ELSE BitAt(call.dst, i)
    <3> HIDE DEF e
    <3>1. QED
      BY <1>1, Zenon DEF CopiedTo
  <2> HIDE DEF N, e
  <2>2. QED
    BY <1>2, <2>1
<1>4. SUFFICES ASSUME NEW i \in 0 .. 8 * Len(dst) - 1
               PROVE  BitAt(dst, i) <=> IF i \in call.d_off .. call.d_off + call.nbits - 1
                                        THEN BitAt(src, i - call.d_off + call.s_off)
                                        ELSE BitAt(call.dst, i)
  BY DEF CopiedExactly
<1>5. QED
  <2> HIDE DEF e
  <2>1. BitAt(dst, i) <=> IF i \in call.d_off .. e - 1
                          THEN BitAt(src, i - call.d_off + call.s_off) ELSE BitAt(call.dst, i)
    BY <1>3, <1>4, Zenon
  <2>2. e - 1 = call.d_off + call.nbits - 1
    <3>1. call.d_off \in Nat /\ call.nbits \in Nat
      BY DEF BitInv, CallOk
    <3>2. QED
      BY <3>1 DEF e
  <2>3. QED
    BY <2>1, <2>2

\* CopiedExactly for every call: bitcpy copies the bits it was asked for and
\* leaves the rest of the destination as it was, for all arrays, offsets and
\* lengths within them.
THEOREM BitsCopied == BitmanSpec => []CopiedExactly
BY BitmanInvariant, BitInvExact, PTL
=============================================================================
