--------------------------------- MODULE Crc16 ---------------------------------
(***************************************************************************)
(* The CRC16 of PUS packets, crc16.c: the lookup tables, which start out   *)
(* zero and are filled by the two init functions, the CRC taken octet by   *)
(* octet, and the CRC taken two, four or eight octets at a time from the   *)
(* first aligned address on.                                               *)
(***************************************************************************)
EXTENDS Sequences, BitSets

CONSTANTS
    Seeds,     \* where the octets of a buffer start
    MaxOctets  \* bound: octets of a buffer

ASSUME CrcAssumption == Seeds \subseteq 0 .. 255 /\ MaxOctets \in Nat

VARIABLES
    tables,  \* rows of crc16_sliced_LUT filled: 0, 1 or 8
    octets,  \* the buffer
    align,   \* its address modulo 8
    seed

cvars == <<tables, octets, align, seed>>

-----------------------------------------------------------------------------
\* The CRC of each single bit of an octet.
Basis == <<4129, 8258, 16516, 33032, 4657, 9314, 18628, 37256>>
Slices == 8
Preset == 65535    \* the CRC of no octets

Hi(c) == c \div 256
Up(c) == (c * 256) % 65536

\* crc_init_lookup_table: one if for each bit of i
Lut == [i \in 0 .. 255 |->
           LET add(s, k) == Xor(s, IF k \in BitsOf(i) THEN Basis[k + 1] ELSE 0)
           IN  add(add(add(add(add(add(add(add(0, 0), 1), 2), 3), 4), 5), 6), 7)]

\* crc16
Crc(b, crc) == Xor(Up(crc), Lut[Xor(Hi(crc), b)])

\* n octets of s, from the one after the first i on
Octetwise(crc, s, i, n) == Iterate(LAMBDA k, c : Crc(s[i + k], c), crc, n)

\* crc16_buf, for the first n octets
Crc16Buf(s, n) == Octetwise(Preset, s, 0, n)

\* crc16_init_sliced_lookup_table: row k is row 0 with k zero octets behind it
ZeroOctet(crc) == Xor(Lut[Hi(crc)], Up(crc))
Sliced[k \in 0 .. Slices - 1] ==
    IF k = 0 THEN Lut ELSE [n \in 0 .. 255 |-> ZeroOctet(Sliced[k - 1][n])]

\* One word of w octets: the CRC so far goes into the first two of them.
Word(w, crc, s, i) ==
    LET idx(j) == CASE j = 1 -> Xor(s[i + 1], Hi(crc))
                    [] j = 2 -> Xor(s[i + 2], crc % 256)
                    [] OTHER -> s[i + j]
        row(j) == Sliced[w - j][idx(j)]
        two    == Xor(row(1), row(2))
        four   == Xor(Xor(two, row(3)), row(4))
    IN  CASE w = 2 -> two
          [] w = 4 -> four
          [] w = 8 -> Xor(Xor(Xor(Xor(four, row(5)), row(6)), row(7)), row(8))

\* m words of s, from the octet after the first i on
Wordwise(w, crc, s, i, m) == Iterate(LAMBDA j, c : Word(w, c, s, i + (j - 1) * w), crc, m)

\* Octets up to the first dword boundary.
LeadIn(s, a) == IF Len(s) < (8 - a) % 8 THEN Len(s) ELSE (8 - a) % 8

\* The rest after the last whole word.
Tail_Dropped(crc, s, i) == crc
TailOf(crc, s, i) == Octetwise(crc, s, i, Len(s) - i)

\* crc16_slice2, crc16_slice4, crc16_slice8 for w = 2, 4, 8
CrcSlice(w, s, a) ==
    LET h == LeadIn(s, a)
        m == (Len(s) - h) \div w
    IN  TailOf(Wordwise(w, Crc16Buf(s, h), s, h, m), s, h + m * w)

-----------------------------------------------------------------------------
CrcInit == tables = 0 /\ octets = <<>> /\ align \in 0 .. 7 /\ seed \in Seeds

InitLookupTable == tables < 1 /\ tables' = 1 /\ UNCHANGED <<octets, align, seed>>
InitSliced == tables < Slices /\ tables' = Slices /\ UNCHANGED <<octets, align, seed>>

\* the buffer of the caller, one octet longer
Extend == /\ tables > 0 /\ Len(octets) < MaxOctets
          /\ octets' = Append(octets, (seed + 29 * Len(octets)) % 256)
          /\ UNCHANGED <<tables, align, seed>>

CrcNext == InitLookupTable \/ InitSliced \/ Extend

CrcSpec == CrcInit /\ [][CrcNext]_cvars

-----------------------------------------------------------------------------
\* The CRC by its definition, CCITT-FALSE: division by x^16 + x^12 + x^5 + 1,
\* one bit at a time.
Poly == 4129
Double(c) == (c * 2) % 65536
DivideBit(crc, bit) ==
    IF (15 \in BitsOf(crc)) # (bit = 1) THEN Xor(Double(crc), Poly) ELSE Double(crc)

\* bit n of a sequence of octets, from 1, high bits first
StreamBit(s, n) == IF 7 - ((n - 1) % 8) \in BitsOf(s[(n - 1) \div 8 + 1]) THEN 1 ELSE 0

Division(s) == Iterate(LAMBDA n, c : DivideBit(c, StreamBit(s, n)), Preset, 8 * Len(s))

\* crc16_buf computes the CRC16 of its definition once the table is filled,
\* and so do the three sliced versions, wherever the buffer starts and ends.
CrcByDefinition ==
    /\ tables >= 1 => Crc16Buf(octets, Len(octets)) = Division(octets)
    /\ tables = Slices => \A w \in {2, 4, 8} : CrcSlice(w, octets, align) = Division(octets)
=============================================================================
