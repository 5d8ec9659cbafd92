-------------------------------- MODULE Bitman --------------------------------
(***************************************************************************)
(* bitcpy of bitman.c, one call: a lead-in copied in pieces of at most     *)
(* eight bits until both offsets are aligned (or to the end, if they never *)
(* are), whole octets with memcpy(), and the bits that are left.  Bit 0 of *)
(* an octet array is the highest bit of its first octet.                   *)
(***************************************************************************)
EXTENDS Sequences, BitSets

CONSTANTS
    Dsts, Srcs,  \* contents of the two arrays
    Offsets,     \* bit offsets
    MaxBits      \* bound: bits copied

ASSUME BitmanAssumption ==
    /\ Offsets \subseteq Nat /\ MaxBits \in Nat
    /\ \A a \in Dsts \cup Srcs :    \* arrays of uint8_t that hold what is copied
          /\ a \in Seq(0 .. 255)
          /\ \A off \in Offsets : off + MaxBits <= 8 * Len(a)

VARIABLES
    bpc,         \* "call", "lead", "tail", "done"
    dst, src,    \* the arrays
    d_off, s_off,
    nbits,       \* bits left after the lead-in
    lead,        \* c, bits of the lead-in left
    call         \* the arguments: dst, d_off, s_off and nbits

bvars == <<bpc, dst, src, d_off, s_off, nbits, lead, call>>

-----------------------------------------------------------------------------
\* Shifts of an octet, in terms of the bits set in it, and 0xff >> (8 - n).
Right(S, j) == {b \in 0 .. 7 : b + j \in S}
Left(S, j)  == {b \in 0 .. 7 : b - j \in S}
Low(n)      == 0 .. n - 1

\* putbits8, first part: n bits of the source, which may straddle two octets
Fetch(a, off, n) ==
    LET p == off \div 8 + 1
        k == off % 8
        nb == n + k - 8
    IN  IF k + n <= 8 THEN Right(BitsOf(a[p]), 8 - n - k) \cap Low(n)
        ELSE Left(BitsOf(a[p]) \cap Low(8 - k), nb)
             \cup (Right(BitsOf(a[p + 1]), 8 - nb) \cap Low(nb))

\* an octet with the bits S cleared and those of T set
Replaced(x, S, T) == Num((BitsOf(x) \ S) \cup T)

\* putbits8, second part.  The branch for a destination that straddles two
\* octets is written for n = 8: a shorter piece lands in the wrong bits, and
\* for n < k the shift of 0xff is undefined and may clear any bits.
Stored(a, off, n, tmp) ==
    LET p == off \div 8 + 1
        k == off % 8
        Cleared == IF n >= k THEN {Left(Low(8 - (n - k)), 8 - k)} ELSE {{}, Low(8)}
    IN  IF k + n <= 8
        THEN {[a EXCEPT ![p] = Replaced(@, Left(Low(n), 8 - k - n), Left(tmp, 8 - k - n))]}
        ELSE {[a EXCEPT ![p] = Replaced(@, Low(8 - k), Right(tmp, k)),
                        ![p + 1] = Replaced(@, S, Left(tmp, 8 - k))] : S \in Cleared}

Putbits8(a, off, b, boff, n) == IF n = 0 THEN {a} ELSE Stored(a, off, n, Fetch(b, boff, n))

-----------------------------------------------------------------------------
BitmanInit ==
    /\ dst \in Dsts /\ src \in Srcs /\ d_off \in Offsets /\ s_off \in Offsets
    /\ nbits \in 0 .. MaxBits
    /\ bpc = "call" /\ lead = 0
    /\ call = [dst |-> dst, d_off |-> d_off, s_off |-> s_off, nbits |-> nbits]

\* how many bits go before the first memcpy()
LeadBits ==
    CASE nbits = 0 \/ (d_off % 8 = 0 /\ s_off % 8 = 0) -> 0
      [] nbits > 0 /\ (d_off % 8 # 0 \/ s_off % 8 # 0)
         /\ (nbits < 8 \/ d_off % 8 # s_off % 8)       -> nbits
      [] OTHER                                         -> 8 - (d_off % 8)

Bitcpy ==
    /\ bpc = "call"
    /\ bpc' = IF nbits = 0 THEN "done" ELSE "lead"
    /\ lead' = LeadBits
    /\ nbits' = nbits - LeadBits
    /\ UNCHANGED <<dst, src, d_off, s_off, call>>

CopyLead ==
    /\ bpc = "lead" /\ lead > 0
    /\ LET n == IF lead < 8 THEN lead ELSE 8
       IN  /\ dst' \in Putbits8(dst, d_off, src, s_off, n)
           /\ lead' = lead - n /\ d_off' = d_off + n /\ s_off' = s_off + n
    /\ UNCHANGED <<bpc, src, nbits, call>>

CopyOctets_RoundsUp ==
    /\ bpc = "lead" /\ lead = 0
    /\ LET c == (nbits + 7) \div 8
           d == d_off \div 8
           s == s_off \div 8
       IN  /\ dst' = [k \in DOMAIN dst |-> IF k \in d + 1 .. d + c THEN src[k - d + s] ELSE dst[k]]
           /\ d_off' = d_off + 8 * c /\ s_off' = s_off + 8 * c /\ nbits' = 0
    /\ bpc' = "tail"
    /\ UNCHANGED <<src, lead, call>>

\* memcpy() of the whole octets
CopyOctets ==
    /\ bpc = "lead" /\ lead = 0
    /\ LET c == nbits \div 8
           d == d_off \div 8
           s == s_off \div 8
       IN  /\ dst' = [k \in DOMAIN dst |-> IF k \in d + 1 .. d + c THEN src[k - d + s] ELSE dst[k]]
           /\ d_off' = d_off + 8 * c /\ s_off' = s_off + 8 * c /\ nbits' = nbits % 8
    /\ bpc' = "tail"
    /\ UNCHANGED <<src, lead, call>>

CopyTail ==
    /\ bpc = "tail"
    /\ dst' \in Putbits8(dst, d_off, src, s_off, nbits)
    /\ bpc' = "done"
    /\ UNCHANGED <<src, d_off, s_off, nbits, lead, call>>

BitmanNext == Bitcpy \/ CopyLead \/ CopyOctets \/ CopyTail

BitmanSpec == BitmanInit /\ [][BitmanNext]_bvars

-----------------------------------------------------------------------------
\* Bit i of an array is set.
BitAt(a, i) == 7 - (i % 8) \in BitsOf(a[i \div 8 + 1])

\* The calls for which every piece shorter than an octet ends in the octet of
\* the destination it starts in.
PieceFits ==
    LET d == call.d_off % 8
        s == call.s_off % 8
    IN  CASE call.nbits < 8          -> d + call.nbits <= 8
          [] call.nbits >= 8 /\ d = s -> TRUE
          [] OTHER                   -> d + (call.nbits % 8) <= 8

\* bitcpy copies exactly the bits it was asked to, to the place it was asked
\* to, and leaves every other bit of the destination alone, whatever the two
\* offsets are, unless a last piece shorter than an octet crosses into the next
\* octet of the destination; the timestamps of ecss_pkt.c never do that.
CopiedExactly ==
    (bpc = "done" /\ PieceFits) =>
        \A i \in 0 .. 8 * Len(dst) - 1 :
            BitAt(dst, i) <=> IF i \in call.d_off .. call.d_off + call.nbits - 1
                              THEN BitAt(src, i - call.d_off + call.s_off)
                              ELSE BitAt(call.dst, i)
=============================================================================
