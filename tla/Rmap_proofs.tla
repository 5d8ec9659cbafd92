----------------------------- MODULE Rmap_proofs -----------------------------
(***************************************************************************)
(* What rmap.c builds it can decode, for every command, path, address and  *)
(* length of data: the proofs of the four properties of module Rmap.       *)
(***************************************************************************)
EXTENDS Rmap, TLAPS

-----------------------------------------------------------------------------
\* Numbers and their bytes.

\* Quotient and remainder are what they are called.
LEMMA Quotient ==
  ASSUME NEW x \in Nat, NEW q \in Nat, NEW r \in 0 .. 255, x = q * 256 + r
  PROVE  x \div 256 = q /\ x % 256 = r
  BY SMT

\* A number is its low byte and the rest.
LEMMA DivMod ==
  ASSUME NEW x \in Nat
  PROVE  /\ x \div 256 \in Nat /\ x % 256 \in 0 .. 255
         /\ (x \div 256) * 256 + (x % 256) = x
<1>1. x \div 256 \in Nat /\ x % 256 \in 0 .. 255
  BY SMT
<1>2. (x \div 256) * 256 <= x
  BY SMT
<1>3. x < (x \div 256) * 256 + 256
  BY SMT
<1>4. PICK q \in Nat : q = x \div 256
  BY <1>1
<1>5. PICK r \in 0 .. 255 : x = q * 256 + r
  <2>1. x - q * 256 \in 0 .. 255 /\ x = q * 256 + (x - q * 256)
    BY <1>2, <1>3, <1>4, SMT
  <2>2. QED
    BY <2>1
<1>6. x % 256 = r
  BY <1>5, Quotient
<1>7. QED
  BY <1>1, <1>4, <1>5, <1>6, SMT

\* The bytes rmap_build_hdr shifts out of a field: the last, and the others as
\* the bytes of what is left without it.
LEMMA Bytes ==
  ASSUME NEW x \in Nat
  PROVE  /\ Byte(x, 0) = x % 256
         /\ Byte(x, 1) = Byte(x \div 256, 0)
         /\ Byte(x, 2) = Byte(x \div 256, 1)
         /\ Byte(x, 3) = Byte(x \div 256, 2)
<1>1. 256 ^ 0 = 1 /\ 256 ^ 1 = 256 /\ 256 ^ 2 = 65536 /\ 256 ^ 3 = 16777216
  BY SMT
<1>2. x \div 65536 = (x \div 256) \div 256
  BY SMT
<1>3. x \div 16777216 = (x \div 256) \div 65536
  BY SMT
<1>4. x \div 1 = x /\ (x \div 256) \div 1 = x \div 256
  BY SMT
<1>5. QED
  BY <1>1, <1>2, <1>3, <1>4, SMT DEF Byte

\* Byte gives a byte.
LEMMA ByteType ==
  ASSUME NEW x \in Nat
  PROVE  Byte(x, 0) \in Octet /\ Byte(x, 1) \in Octet /\ Byte(x, 2) \in Octet /\ Byte(x, 3) \in Octet
<1>1. \A y \in Nat : Byte(y, 0) \in Octet
  <2>1. \A y \in Nat : y % 256 \in Octet
    BY DivMod, SMT DEF Octet
  <2>2. QED
    BY <2>1, Bytes
<1>2. \A y \in Nat : Byte(y, 1) \in Octet
  BY <1>1, Bytes, DivMod
<1>3. \A y \in Nat : Byte(y, 2) \in Octet
  BY <1>2, Bytes, DivMod
<1>4. \A y \in Nat : Byte(y, 3) \in Octet
  BY <1>3, Bytes, DivMod
<1>5. QED
  BY <1>1, <1>2, <1>3, <1>4

\* Two bytes hold a transaction identifier, three a length, four an address.
LEMMA TwoBytes ==
  ASSUME NEW x \in Nat, x <= MaxId
  PROVE  Byte(x, 1) * 256 + Byte(x, 0) = x
<1>1. x \div 256 <= 255
  BY SMT DEF MaxId
<1>2. x \div 256 \in Nat
  BY DivMod
<1>3. PICK y \in 0 .. 255 : y = x \div 256
  BY <1>1, <1>2
<1>4. Byte(y, 0) = y
  <2>1. y \in Nat /\ y % 256 = y
    BY SMT
  <2>2. QED
    BY <2>1, Bytes
<1>5. Byte(x, 1) = y /\ Byte(x, 0) = x % 256
  BY <1>3, <1>4, Bytes
<1>6. y * 256 + (x % 256) = x
  BY <1>3, DivMod
<1>7. QED
  BY <1>5, <1>6

\* A data length is what its three bytes say.
LEMMA ThreeBytes ==
  ASSUME NEW x \in Nat, x <= MaxData
  PROVE  (Byte(x, 2) * 256 + Byte(x, 1)) * 256 + Byte(x, 0) = x
<1>1. x \div 256 <= MaxId
  BY SMT DEF MaxData, MaxId
<1>2. x \div 256 \in Nat
  BY DivMod
<1>3. PICK y \in Nat : y = x \div 256 /\ y <= MaxId
  BY <1>1, <1>2
<1>4. Byte(y, 1) * 256 + Byte(y, 0) = y
  BY <1>3, TwoBytes
<1>5. Byte(x, 2) = Byte(y, 1) /\ Byte(x, 1) = Byte(y, 0) /\ Byte(x, 0) = x % 256
  BY <1>3, Bytes
<1>6. y * 256 + (x % 256) = x
  BY <1>3, DivMod
<1>7. QED
  BY <1>4, <1>5, <1>6

\* An address is what its four bytes say.
LEMMA FourBytes ==
  ASSUME NEW x \in Nat, InFourBytes(x)
  PROVE  ((Byte(x, 3) * 256 + Byte(x, 2)) * 256 + Byte(x, 1)) * 256 + Byte(x, 0) = x
<1>1. x \div 256 <= MaxData /\ x \div 256 \in Nat
  BY DivMod, SMT DEF MaxData, InFourBytes
<1>2. PICK y \in Nat : y = x \div 256 /\ y <= MaxData
  BY <1>1
<1>3. (Byte(y, 2) * 256 + Byte(y, 1)) * 256 + Byte(y, 0) = y
  BY <1>2, ThreeBytes
<1>4. Byte(x, 3) = Byte(y, 2) /\ Byte(x, 2) = Byte(y, 1) /\ Byte(x, 1) = Byte(y, 0) /\ Byte(x, 0) = x % 256
  BY <1>2, Bytes
<1>5. y * 256 + (x % 256) = x
  BY <1>2, DivMod
<1>6. QED
  BY <1>3, <1>4, <1>5

\* The instruction byte gives its three fields back.
LEMMA InstructionFields ==
  ASSUME NEW c \in 0 .. 15, NEW r \in 0 .. 3, NEW e \in {0, 1}
  PROVE  /\ ((e * 64 + c * 4 + r) \div 64) % 2 = e
         /\ ((e * 64 + c * 4 + r) \div 4) % 16 = c
         /\ (e * 64 + c * 4 + r) % 4 = r
         /\ e * 64 + c * 4 + r \in Octet
<1>1. CASE e = 0
  BY <1>1, SMT DEF Octet
<1>2. CASE e = 1
  BY <1>2, SMT DEF Octet
<1>3. QED
  BY <1>1, <1>2

-----------------------------------------------------------------------------
\* The invariant.

\* A packet from rmap_create_packet satisfies the invariant.
LEMMA InvInit == Init => RmapInv
<1> SUFFICES ASSUME Init PROVE RmapInv
  OBVIOUS
<1>1. NewPkt \in PktType
  BY DEF NewPkt, PktType, Octet
<1>2. Fits(NewPkt)
  BY SMT DEF Fits, NewPkt, MaxId, MaxData, InFourBytes
<1>4. FieldsInv
  BY <1>1, <1>2 DEF Init, FieldsInv, NewPkt
<1>3. QED
  BY <1>4 DEF Init, RmapInv, NewPkt

\* Every setter, the link and the target keep it.
LEMMA InvNext == RmapInv /\ [Next]_vars => RmapInv'
<1> SUFFICES ASSUME RmapInv, [Next]_vars PROVE RmapInv'
  OBVIOUS
<1> USE DEF Setter
<1>a. FieldsInv
  BY DEF RmapInv
<1>s. ASSUME stage = "setup", UNCHANGED <<stage, buf, cut>>, FieldsInv' PROVE RmapInv'
  BY <1>s DEF RmapInv
<1>1. CASE SetCmd
  <2>1. PICK c \in Codes : pkt' = IF ValidCmd(c) THEN [pkt EXCEPT !.cmd = c, !.resp = 1] ELSE pkt
    BY <1>1 DEF SetCmd
  <2>2. ASSUME ValidCmd(c) PROVE FieldsInv'
    <3>1. c \in 0 .. 15
      BY <2>2 DEF ValidCmd, Reads, Writes
    <3>2. pkt' \in PktType
      BY <1>a, <2>1, <2>2, <3>1 DEF FieldsInv, PktType
    <3>3. /\ pkt'.rpath = pkt.rpath /\ pkt'.rlen = pkt.rlen /\ pkt'.addr = pkt.addr
          /\ pkt'.tr_id = pkt.tr_id /\ pkt'.data_len = pkt.data_len
          /\ pkt'.resp = 1 /\ pkt'.cmd = c
      BY <1>a, <2>1, <2>2 DEF FieldsInv, PktType
    <3>4. QED
      BY <1>a, <2>2, <3>2, <3>3, SMT DEF FieldsInv, Fits
  <2>3. ASSUME ~ValidCmd(c) PROVE FieldsInv'
    BY <1>a, <2>1, <2>3, SMT DEF FieldsInv, Fits
  <2>4. QED
    BY <1>1, <1>s, <2>2, <2>3 DEF SetCmd
<1>2. CASE SetDestPath
  <2>1. PICK n \in PathLens : pkt' = IF n > MaxPath THEN pkt ELSE [pkt EXCEPT !.path = Fill(n, 5)]
    BY <1>2 DEF SetDestPath
  <2>2. Fill(n, 5) \in Seq(Octet)
    <3>1. n \in Nat
      BY RmapAssumption, SMT
    <3>2. QED
      BY <3>1, SMT DEF Fill, Octet
  <2>3. pkt' \in PktType
    BY <1>a, <2>1, <2>2 DEF FieldsInv, PktType
  <2>4. /\ pkt'.rpath = pkt.rpath /\ pkt'.rlen = pkt.rlen /\ pkt'.addr = pkt.addr
        /\ pkt'.tr_id = pkt.tr_id /\ pkt'.data_len = pkt.data_len
        /\ pkt'.resp = pkt.resp /\ pkt'.cmd = pkt.cmd
    BY <1>a, <2>1 DEF FieldsInv, PktType
  <2>5. FieldsInv'
    BY <1>a, <2>3, <2>4, SMT DEF FieldsInv, Fits
  <2>6. QED
    BY <1>2, <1>s, <2>5 DEF SetDestPath
<1>3. CASE SetReplyPath
  <2>1. PICK n \in RpathLens :
           pkt' = IF RpathRefused(n) THEN pkt
                  ELSE [pkt EXCEPT !.rpath = Fill(n, 6), !.rlen = n \div 4]
    BY <1>3 DEF SetReplyPath
  <2>2. n \in Nat
    BY RmapAssumption, SMT
  <2>3. ASSUME RpathRefused(n) PROVE FieldsInv'
    BY <1>a, <2>1, <2>3, SMT DEF FieldsInv, Fits
  <2>4. ASSUME ~RpathRefused(n) PROVE FieldsInv'
    <3>1. n \in 0 .. 12 /\ n % 4 = 0
      BY <2>2, <2>4 DEF RpathRefused, MaxRpath
    <3>2. n \div 4 \in 0 .. 3 /\ n = 4 * (n \div 4)
      BY <3>1, SMT
    <3>3. Fill(n, 6) \in Seq(Octet) /\ Len(Fill(n, 6)) = n
      BY <2>2, SMT DEF Fill, Octet
    <3>4. pkt' \in PktType
      BY <1>a, <2>1, <2>4, <3>2, <3>3 DEF FieldsInv, PktType
    <3>5. /\ pkt'.rpath = Fill(n, 6) /\ pkt'.rlen = n \div 4 /\ pkt'.addr = pkt.addr
          /\ pkt'.tr_id = pkt.tr_id /\ pkt'.data_len = pkt.data_len
          /\ pkt'.resp = pkt.resp /\ pkt'.cmd = pkt.cmd
      BY <1>a, <2>1, <2>4 DEF FieldsInv, PktType
    <3>6. QED
      BY <1>a, <3>2, <3>3, <3>4, <3>5, SMT DEF FieldsInv, Fits
  <2>5. QED
    BY <1>3, <1>s, <2>3, <2>4 DEF SetReplyPath
<1>4. CASE SetDataLen
  <2>1. PICK n \in DataLens : pkt' = IF n > MaxData THEN pkt ELSE [pkt EXCEPT !.data_len = n]
    BY <1>4 DEF SetDataLen
  <2>2. n \in Nat /\ (~(n > MaxData) => n <= MaxData)
    BY RmapAssumption, SMT DEF MaxData
  <2>3. pkt' \in PktType
    BY <1>a, <2>1, <2>2 DEF FieldsInv, PktType
  <2>4. /\ pkt'.rpath = pkt.rpath /\ pkt'.rlen = pkt.rlen /\ pkt'.addr = pkt.addr
        /\ pkt'.tr_id = pkt.tr_id /\ pkt'.data_len \in {pkt.data_len, n}
        /\ pkt'.data_len = n => ~(n > MaxData) \/ n = pkt.data_len
        /\ pkt'.resp = pkt.resp /\ pkt'.cmd = pkt.cmd
    BY <1>a, <2>1 DEF FieldsInv, PktType
  <2>5. FieldsInv'
    BY <1>a, <2>2, <2>3, <2>4, SMT DEF FieldsInv, Fits
  <2>6. QED
    BY <1>4, <1>s, <2>5 DEF SetDataLen
<1>5. CASE SetFields
  <2>1. PICK a \in Addrs :
          pkt' = [pkt EXCEPT !.addr = a, !.dst = 254, !.src = 48, !.key = 171, !.tr_id = 515]
    BY <1>5 DEF SetFields
  <2>2. a \in Nat /\ InFourBytes(a)
    BY RmapAssumption, SMT
  <2>7. PICK d \in Octet, s \in Octet, k \in Octet, t \in Nat : d = 254 /\ s = 48 /\ k = 171 /\ t = 515
    BY DEF Octet
  <2>8. pkt' = [pkt EXCEPT !.addr = a, !.dst = d, !.src = s, !.key = k, !.tr_id = t]
    BY <2>1, <2>7
  <2>3. pkt' \in PktType
    <3>1. pkt \in PktType
      BY <1>a DEF FieldsInv
    <3>2. QED
      BY <2>2, <2>8, <3>1 DEF PktType
  <2>4. /\ pkt'.rpath = pkt.rpath /\ pkt'.rlen = pkt.rlen /\ pkt'.addr = a
        /\ pkt'.tr_id = 515 /\ pkt'.data_len = pkt.data_len
        /\ pkt'.resp = pkt.resp /\ pkt'.cmd = pkt.cmd
    BY <1>a, <2>1, SMT DEF FieldsInv, PktType
  <2>5. FieldsInv'
    BY <1>a, <2>2, <2>3, <2>4, SMT DEF FieldsInv, Fits, MaxId
  <2>6. QED
    BY <1>5, <1>s, <2>5 DEF SetFields
<1>6. CASE Transmit
  <2>1. FieldsInv'
    BY <1>a, <1>6, SMT DEF FieldsInv, Transmit
  <2>2. PICK n \in Cuts : /\ n <= Len(CommandOf(pkt))
                          /\ buf' = SubSeq(CommandOf(pkt), 1, Len(CommandOf(pkt)) - n)
                          /\ cut' = (n > 0)
    BY <1>6 DEF Transmit
  <2>3. pkt' = pkt /\ CommandOf(pkt)' = CommandOf(pkt)
    BY <1>6 DEF Transmit
  <2>4. CutFrom(n)'
    BY <2>2, <2>3 DEF CutFrom
  <2>5. QED
    BY <1>6, <2>1, <2>4 DEF RmapInv, Transmit
<1>7. CASE Reply
  <2>1. FieldsInv'
    BY <1>a, <1>7, SMT DEF FieldsInv, Reply
  <2>2. buf' = ReplyOf(pkt)' /\ stage' = "reply" /\ pkt'.resp = 1
    BY <1>7 DEF Reply, RmapInv
  <2>3. QED
    BY <2>1, <2>2 DEF RmapInv
<1>8. CASE UNCHANGED vars
  BY <1>8 DEF vars, RmapInv, FieldsInv, CutFrom
<1>9. QED
  BY <1>1, <1>2, <1>3, <1>4, <1>5, <1>6, <1>7, <1>8 DEF Next

\* What the setters and the link leave behind.
LEMMA Invariant == Spec => []RmapInv
  BY InvInit, InvNext, PTL DEF Spec

-----------------------------------------------------------------------------
\* The bytes of a command.

\* The piece p of l bytes is in b behind the first n.
Holds(b, n, p, l) == \A k \in 1 .. l : b[n + k] = p[k]
IsSeq(x, n)       == x \in Seq(Octet) /\ Len(x) = n
Prefix(x, y, n)   == \A k \in 1 .. n : y[k] = x[k]

\* A piece appended leaves what is there where it is.
LEMMA Piece ==
  ASSUME NEW x, NEW y, NEW n, NEW m, IsSeq(x, n), IsSeq(y, m)
  PROVE  IsSeq(x \o y, n + m) /\ Prefix(x, x \o y, n) /\ Holds(x \o y, n, y, m)
<1>1. ASSUME NEW a \in Seq(Octet), NEW b \in Seq(Octet)
      PROVE  /\ a \o b \in Seq(Octet) /\ Len(a \o b) = Len(a) + Len(b)
             /\ \A k \in 1 .. Len(a) : (a \o b)[k] = a[k]
             /\ \A k \in 1 .. Len(b) : (a \o b)[Len(a) + k] = b[k]
  OBVIOUS
<1>2. QED
  BY <1>1, Zenon DEF IsSeq, Prefix, Holds

\* What a prefix holds, the whole holds.
LEMMA Keep ==
  ASSUME NEW n \in Nat, NEW l \in Nat, NEW h \in Nat, NEW x, NEW y, NEW p, n + l <= h,
         Holds(x, n, p, l), Prefix(x, y, h)
  PROVE  Holds(y, n, p, l)
  BY DEF Holds, Prefix

\* With the first n bytes taken off, everything is n bytes nearer.
LEMMA TakenOff ==
  ASSUME NEW n \in Nat, NEW l \in Nat, NEW b, IsSeq(b, n + l)
  PROVE  /\ IsSeq(SubSeq(b, n + 1, n + l), l)
         /\ \A o \in Nat, j \in Nat : \A p :
              o + j <= l /\ Holds(b, n + o, p, j) => Holds(SubSeq(b, n + 1, n + l), o, p, j)
<1>1. /\ SubSeq(b, n + 1, n + l) \in Seq(Octet) /\ Len(SubSeq(b, n + 1, n + l)) = l
      /\ \A k \in 1 .. l : SubSeq(b, n + 1, n + l)[k] = b[n + k]
  BY DEF IsSeq
<1> DEFINE c == SubSeq(b, n + 1, n + l)
<1>2. IsSeq(c, l) /\ \A k \in 1 .. l : c[k] = b[n + k]
  BY <1>1 DEF IsSeq
<1> HIDE DEF c
<1>3. ASSUME NEW o \in Nat, NEW j \in Nat, NEW p, o + j <= l, Holds(b, n + o, p, j)
      PROVE  Holds(c, o, p, j)
  <2>1. SUFFICES ASSUME NEW k \in 1 .. j PROVE c[o + k] = p[k]
    BY DEF Holds
  <2>2. b[n + o + k] = p[k]
    BY <1>3 DEF Holds
  <2>3. o + k \in 1 .. l /\ n + o + k = n + (o + k)
    BY <1>3
  <2>4. c[o + k] = b[n + (o + k)]
    BY <1>2, <2>3
  <2>5. QED
    BY <2>2, <2>3, <2>4
<1>4. QED
  BY <1>2, <1>3 DEF c

\* Six pieces in a row: a path, four bytes, a path, three, five and three bytes.
InRow(u, p4, v, p3, p5, q3) == u \o p4 \o v \o p3 \o p5 \o q3

\* Where the six parts of a header are when they are put in a row.
LEMMA Row ==
  ASSUME NEW u, NEW v, NEW p4, NEW p3, NEW p5, NEW q3, NEW n \in Nat, NEW m \in Nat,
         IsSeq(u, n), IsSeq(p4, 4), IsSeq(v, m), IsSeq(p3, 3), IsSeq(p5, 5), IsSeq(q3, 3),
         NEW b, b = InRow(u, p4, v, p3, p5, q3)
  PROVE  /\ IsSeq(b, n + (15 + m))
         /\ Holds(b, n + 0, p4, 4)
         /\ Holds(b, n + 4, v, m)
         /\ Holds(b, n + (4 + m), p3, 3)
         /\ Holds(b, n + (7 + m), p5, 5)
         /\ Holds(b, n + (12 + m), q3, 3)
<1> DEFINE x1 == u \o p4
           x2 == x1 \o v
           x3 == x2 \o p3
           x4 == x3 \o p5
           x5 == x4 \o q3
<1>1. b = x5
  BY DEF InRow
<1>2. IsSeq(x1, n + 4) /\ Holds(x1, n, p4, 4)
  BY Piece, Zenon
<1> HIDE DEF x1
<1>3. IsSeq(x2, n + 4 + m) /\ Prefix(x1, x2, n + 4) /\ Holds(x2, n + 4, v, m)
  BY <1>2, Piece, Zenon
<1> HIDE DEF x2
<1>4. IsSeq(x3, n + 4 + m + 3) /\ Prefix(x2, x3, n + 4 + m) /\ Holds(x3, n + 4 + m, p3, 3)
  BY <1>3, Piece, Zenon
<1> HIDE DEF x3
<1>5. IsSeq(x4, n + 4 + m + 3 + 5) /\ Prefix(x3, x4, n + 4 + m + 3) /\ Holds(x4, n + 4 + m + 3, p5, 5)
  BY <1>4, Piece, Zenon
<1> HIDE DEF x4
<1>6. /\ IsSeq(x5, n + 4 + m + 3 + 5 + 3) /\ Prefix(x4, x5, n + 4 + m + 3 + 5)
      /\ Holds(x5, n + 4 + m + 3 + 5, q3, 3)
  BY <1>5, Piece, Zenon
<1> HIDE DEF x5
<1>7. Holds(x2, n, p4, 4)
  BY <1>2, <1>3, Keep
<1>8. Holds(x3, n, p4, 4) /\ Holds(x3, n + 4, v, m)
  BY <1>3, <1>4, <1>7, Keep
<1>9. Holds(x4, n, p4, 4) /\ Holds(x4, n + 4, v, m) /\ Holds(x4, n + 4 + m, p3, 3)
  BY <1>4, <1>5, <1>8, Keep
<1>10. /\ Holds(x5, n, p4, 4) /\ Holds(x5, n + 4, v, m) /\ Holds(x5, n + 4 + m, p3, 3)
       /\ Holds(x5, n + 4 + m + 3, p5, 5)
  BY <1>5, <1>6, <1>9, Keep
<1>11. /\ n + 0 = n /\ n + (4 + m) = n + 4 + m /\ n + (7 + m) = n + 4 + m + 3
       /\ n + (12 + m) = n + 4 + m + 3 + 5 /\ n + (15 + m) = n + 4 + m + 3 + 5 + 3
  OBVIOUS
<1>12. QED
  BY <1>1, <1>6, <1>10, <1>11, Zenon

\* A packet that rmap_set_cmd made a command, as the invariant has it.
IsCommand(p) == p \in PktType /\ Fits(p) /\ p.resp = 1 /\ ValidCmd(p.cmd)

\* Where rmap_build_hdr puts each field, behind the path.
Leading(p) == <<p.dst, ProtocolId, Instruction(p), p.key>>
Naming(p)  == <<p.src, Byte(p.tr_id, 1), Byte(p.tr_id, 0)>>
Header(p)  == SubSeq(BuildHdr(p), Len(p.path) + 1, HdrSize(p))
HeaderIn(b, p) == /\ Holds(b, 0, Leading(p), 4)
                  /\ Holds(b, 4, p.rpath, 4 * p.rlen)
                  /\ Holds(b, 4 + 4 * p.rlen, Naming(p), 3)
                  /\ Holds(b, 7 + 4 * p.rlen, AddrField(p), 5)
                  /\ Holds(b, 12 + 4 * p.rlen, LengthField(p), 3)

\* The widths of the fields of a command.
LEMMA CommandFields ==
  ASSUME NEW p, IsCommand(p)
  PROVE  /\ p.path \in Seq(Octet) /\ p.rpath \in Seq(Octet) /\ p.dst \in Octet /\ p.key \in Octet
         /\ p.src \in Octet /\ p.tr_id \in Nat /\ p.addr \in Nat /\ p.data_len \in Nat
         /\ p.proto = ProtocolId /\ p.rlen \in 0 .. 3 /\ p.cmd \in 0 .. 15 /\ p.resp = 1
         /\ Len(p.rpath) = 4 * p.rlen /\ HasLength(p)
  BY DEF IsCommand, PktType, Fits, HasLength

\* The address is a zero and four bytes.
LEMMA AddrBytes ==
  ASSUME NEW p, IsCommand(p)
  PROVE  /\ IsSeq(AddrField(p), 5)
         /\ AddrField(p)[2] = Byte(p.addr, 3) /\ AddrField(p)[3] = Byte(p.addr, 2)
         /\ AddrField(p)[4] = Byte(p.addr, 1) /\ AddrField(p)[5] = Byte(p.addr, 0)
<1>1. p.addr \in Nat /\ p.resp = 1
  BY CommandFields
<1>2. PICK a3 \in Octet, a2 \in Octet, a1 \in Octet, a0 \in Octet :
        a3 = Byte(p.addr, 3) /\ a2 = Byte(p.addr, 2) /\ a1 = Byte(p.addr, 1) /\ a0 = Byte(p.addr, 0)
  BY <1>1, ByteType
<1>3. [k \in 1 .. 4 |-> Byte(p.addr, 4 - k)] = <<a3, a2, a1, a0>>
  BY <1>2
<1>4. AddrField(p) = <<0>> \o <<a3, a2, a1, a0>>
  BY <1>1, <1>3 DEF AddrField
<1>5. PICK z \in Octet : z = 0
  BY DEF Octet
<1>6. AddrField(p) = <<z>> \o <<a3, a2, a1, a0>>
  BY <1>4, <1>5
<1>7. /\ <<z>> \o <<a3, a2, a1, a0>> \in Seq(Octet) /\ Len(<<z>> \o <<a3, a2, a1, a0>>) = 5
      /\ (<<z>> \o <<a3, a2, a1, a0>>)[2] = a3 /\ (<<z>> \o <<a3, a2, a1, a0>>)[3] = a2
      /\ (<<z>> \o <<a3, a2, a1, a0>>)[4] = a1 /\ (<<z>> \o <<a3, a2, a1, a0>>)[5] = a0
  OBVIOUS
<1>8. QED
  BY <1>2, <1>6, <1>7, Zenon DEF IsSeq

\* The length field is three bytes, the highest first.
LEMMA LengthBytes ==
  ASSUME NEW p, p.data_len \in Nat
  PROVE  /\ IsSeq(LengthField(p), 3)
         /\ LengthField(p)[1] = Byte(p.data_len, 2) /\ LengthField(p)[2] = Byte(p.data_len, 1)
         /\ LengthField(p)[3] = Byte(p.data_len, 0)
<1>1. PICK a2 \in Octet, a1 \in Octet, a0 \in Octet :
        a2 = Byte(p.data_len, 2) /\ a1 = Byte(p.data_len, 1) /\ a0 = Byte(p.data_len, 0)
  BY ByteType
<1>2. LengthField(p) = <<a2, a1, a0>>
  BY <1>1 DEF LengthField
<1>3. QED
  BY <1>1, <1>2 DEF IsSeq

\* The four bytes before the reply path and the three behind it.
LEMMA LeadingBytes ==
  ASSUME NEW p, IsCommand(p)
  PROVE  /\ IsSeq(Leading(p), 4) /\ IsSeq(Naming(p), 3)
         /\ Instruction(p) \in Octet
<1>1. Instruction(p) \in Octet
  <2>1. p.cmd \in 0 .. 15 /\ p.rlen \in 0 .. 3 /\ p.resp \in {0, 1}
    BY CommandFields
  <2>2. QED
    BY <2>1, InstructionFields, Zenon DEF Instruction
<1>2. ProtocolId \in Octet
  BY DEF Octet, ProtocolId
<1>3. PICK t1 \in Octet, t0 \in Octet : t1 = Byte(p.tr_id, 1) /\ t0 = Byte(p.tr_id, 0)
  BY CommandFields, ByteType
<1>4. p.dst \in Octet /\ p.key \in Octet /\ p.src \in Octet
  BY CommandFields
<1>5. Leading(p) \in Seq(Octet) /\ Len(Leading(p)) = 4
  BY <1>1, <1>2, <1>4 DEF Leading
<1>6. <<p.src, t1, t0>> \in Seq(Octet) /\ Len(<<p.src, t1, t0>>) = 3
  BY <1>4
<1>7. QED
  BY <1>1, <1>3, <1>5, <1>6 DEF IsSeq, Naming

\* rmap_build_hdr writes as many bytes as it announced, each field in its place.
LEMMA HeaderBytes ==
  ASSUME NEW p, IsCommand(p)
  PROVE  /\ Len(BuildHdr(p)) = HdrSize(p)
         /\ IsSeq(Header(p), 15 + 4 * p.rlen) /\ HeaderIn(Header(p), p)
<1> DEFINE r == 4 * p.rlen
           n == Len(p.path)
           B == BuildHdr(p)
<1>1. n \in Nat /\ r \in Nat /\ IsSeq(p.path, n) /\ IsSeq(p.rpath, r)
  BY CommandFields DEF IsSeq
<1>2. HdrSize(p) = n + (15 + r)
  <2>1. MinHdrSize(p) = 15
    BY DEF IsCommand, ValidCmd, MinHdrSize
  <2>2. Len(p.rpath) = r /\ HdrSize(p) = 15 + n + Len(p.rpath)
    BY <2>1, CommandFields DEF HdrSize
  <2>3. 15 + n + r = n + (15 + r)
    BY <1>1
  <2>4. QED
    BY <2>2, <2>3
<1>3. B = InRow(p.path, Leading(p), p.rpath, Naming(p), AddrField(p), LengthField(p))
  BY CommandFields, Zenon DEF BuildHdr, InRow, Leading, Naming
<1>4. /\ IsSeq(Leading(p), 4) /\ IsSeq(Naming(p), 3) /\ IsSeq(AddrField(p), 5)
      /\ IsSeq(LengthField(p), 3)
  BY LeadingBytes, AddrBytes, LengthBytes, CommandFields
<1> HIDE DEF n, r, B
<1>5. /\ IsSeq(B, n + (15 + r))
      /\ Holds(B, n + 0, Leading(p), 4) /\ Holds(B, n + 4, p.rpath, r)
      /\ Holds(B, n + (4 + r), Naming(p), 3) /\ Holds(B, n + (7 + r), AddrField(p), 5)
      /\ Holds(B, n + (12 + r), LengthField(p), 3)
  BY <1>1, <1>3, <1>4, Row, Zenon
<1>6. Header(p) = SubSeq(B, n + 1, n + (15 + r))
  BY <1>2 DEF Header, n, B
<1>7. 15 + r \in Nat /\ 4 + r \in Nat /\ 7 + r \in Nat /\ 12 + r \in Nat
      /\ 0 + 4 <= 15 + r /\ 4 + r <= 15 + r /\ (4 + r) + 3 <= 15 + r
      /\ (7 + r) + 5 <= 15 + r /\ (12 + r) + 3 <= 15 + r
  BY <1>1
<1>8. IsSeq(Header(p), 15 + r)
  BY <1>1, <1>5, <1>6, <1>7, TakenOff, Zenon
<1>9. ASSUME NEW o \in Nat, NEW j \in Nat, NEW q, o + j <= 15 + r, Holds(B, n + o, q, j)
      PROVE  Holds(Header(p), o, q, j)
  BY <1>1, <1>5, <1>6, <1>7, <1>9, TakenOff, Zenon
<1>10. /\ Holds(Header(p), 0, Leading(p), 4) /\ Holds(Header(p), 4, p.rpath, r)
       /\ Holds(Header(p), 4 + r, Naming(p), 3)
  BY <1>1, <1>5, <1>7, <1>9
<1>11. Holds(Header(p), 7 + r, AddrField(p), 5) /\ Holds(Header(p), 12 + r, LengthField(p), 3)
  BY <1>1, <1>5, <1>7, <1>9
<1>12. Len(B) = n + (15 + r)
  BY <1>5 DEF IsSeq
<1>13. QED
  BY <1>2, <1>8, <1>10, <1>11, <1>12 DEF HeaderIn, r, B

-----------------------------------------------------------------------------
\* The bytes of a packet with its data.

\* n bytes of data and their CRC behind the first l.
DataIn(b, l, n) == n > 0 => /\ \A k \in 1 .. n : b[l + k] = DataByte
                            /\ b[l + n + 1] = DataCrc

\* A run of equal bytes.
LEMMA FillSeq ==
  ASSUME NEW n \in Nat, NEW x \in Octet
  PROVE  IsSeq(Fill(n, x), n) /\ \A k \in 1 .. n : Fill(n, x)[k] = x
  BY DEF Fill, IsSeq

\* A header with its CRC, and data with a CRC of its own, if there is any.
LEMMA WithDataBytes ==
  ASSUME NEW h, NEW l \in Nat, IsSeq(h, l), NEW n \in Nat
  PROVE  /\ IsSeq(WithData(h, n), IF n > 0 THEN l + 1 + (n + 1) ELSE l + 1)
         /\ Prefix(h, WithData(h, n), l) /\ DataIn(WithData(h, n), l + 1, n)
<1>1. HdrCrc \in Octet /\ DataByte \in Octet /\ DataCrc \in Octet
  BY DEF HdrCrc, DataByte, DataCrc, Octet
<1>2. IsSeq(<<HdrCrc>>, 1)
  BY <1>1 DEF IsSeq
<1> DEFINE x == h \o <<HdrCrc>>
<1>3. IsSeq(x, l + 1) /\ Prefix(h, x, l)
  BY <1>2, Piece, Zenon
<1>4. CASE n > 0
  <2> DEFINE d == Append(Fill(n, DataByte), DataCrc)
             w == x \o d
  <2>1. WithData(h, n) = w
    BY <1>4 DEF WithData
  <2>2. Fill(n, DataByte) \in Seq(Octet) /\ Len(Fill(n, DataByte)) = n
        /\ \A k \in 1 .. n : Fill(n, DataByte)[k] = DataByte
    BY <1>1, FillSeq, Zenon DEF IsSeq
  <2>3. PICK f \in Seq(Octet) : f = Fill(n, DataByte)
    BY <2>2
  <2>4. Append(f, DataCrc) \in Seq(Octet) /\ Len(Append(f, DataCrc)) = Len(f) + 1
        /\ (\A k \in 1 .. Len(f) : Append(f, DataCrc)[k] = f[k])
        /\ Append(f, DataCrc)[Len(f) + 1] = DataCrc
    BY <1>1
  <2>5. /\ IsSeq(d, n + 1) /\ d[n + 1] = DataCrc
        /\ \A k \in 1 .. n : d[k] = DataByte
    BY <2>2, <2>3, <2>4, Zenon DEF IsSeq
  <2> HIDE DEF d, x
  <2>6. IsSeq(w, l + 1 + (n + 1)) /\ Prefix(x, w, l + 1) /\ Holds(w, l + 1, d, n + 1)
    BY <1>3, <2>5, Piece, Zenon
  <2> HIDE DEF w
  <2>7. Prefix(h, w, l)
    BY <1>3, <2>6 DEF Prefix
  <2>8. \A k \in 1 .. n : w[l + 1 + k] = DataByte
    <3>1. \A k \in 1 .. n : k \in 1 .. n + 1
      OBVIOUS
    <3>2. QED
      BY <2>5, <2>6, <3>1, Zenon DEF Holds
  <2>9. w[l + 1 + (n + 1)] = DataCrc
    BY <2>5, <2>6 DEF Holds
  <2>10. l + 1 + (n + 1) = l + 1 + n + 1
    OBVIOUS
  <2>11. QED
    BY <1>4, <2>1, <2>6, <2>7, <2>8, <2>9, <2>10, Zenon DEF DataIn
<1>5. CASE ~(n > 0)
  <2>1. WithData(h, n) = x \o <<>>
    BY <1>5 DEF WithData
  <2>2. IsSeq(<<>>, 0)
    BY DEF IsSeq
  <2> HIDE DEF x
  <2>3. IsSeq(x \o <<>>, l + 1 + 0) /\ Prefix(x, x \o <<>>, l + 1)
    BY <1>3, <2>2, Piece, Zenon
  <2>4. Prefix(h, x \o <<>>, l)
    BY <1>3, <2>3 DEF Prefix
  <2>5. l + 1 + 0 = l + 1
    OBVIOUS
  <2>6. QED
    BY <1>5, <2>1, <2>3, <2>4, <2>5, Zenon DEF DataIn
<1>6. QED
  BY <1>4, <1>5

\* The size of a packet with a header of l bytes and n bytes of data.
SizeWith(l, n) == IF n > 0 THEN l + 1 + (n + 1) ELSE l + 1

\* What arrives of a command: its header without the path, and its data.
LEMMA CommandBytes ==
  ASSUME NEW p, IsCommand(p)
  PROVE  /\ IsSeq(CommandOf(p), SizeWith(15 + 4 * p.rlen, Carried(p)))
         /\ HeaderIn(CommandOf(p), p)
         /\ DataIn(CommandOf(p), 16 + 4 * p.rlen, Carried(p))
         /\ Carried(p) \in Nat
<1> DEFINE r == 4 * p.rlen
           c == CommandOf(p)
<1>1. r \in Nat /\ Carried(p) \in Nat
  BY CommandFields DEF Carried
<1>2. IsSeq(Header(p), 15 + r) /\ HeaderIn(Header(p), p)
  BY HeaderBytes
<1>3. c = WithData(Header(p), Carried(p))
  BY DEF CommandOf, Header
<1>4. 15 + r \in Nat /\ 15 + r + 1 = 16 + r
  BY <1>1
<1> HIDE DEF r, c
<1>5. /\ IsSeq(c, SizeWith(15 + r, Carried(p))) /\ Prefix(Header(p), c, 15 + r)
      /\ DataIn(c, 15 + r + 1, Carried(p))
  BY <1>1, <1>2, <1>3, <1>4, WithDataBytes, Zenon DEF SizeWith
<1>6. /\ 4 \in Nat /\ 3 \in Nat /\ 5 \in Nat /\ 4 + r \in Nat /\ 7 + r \in Nat /\ 12 + r \in Nat
      /\ 0 + 4 <= 15 + r /\ 4 + r <= 15 + r /\ (4 + r) + 3 <= 15 + r
      /\ (7 + r) + 5 <= 15 + r /\ (12 + r) + 3 <= 15 + r
  BY <1>1
<1>7. /\ Holds(Header(p), 0, Leading(p), 4) /\ Holds(Header(p), 4, p.rpath, r)
      /\ Holds(Header(p), 4 + r, Naming(p), 3) /\ Holds(Header(p), 7 + r, AddrField(p), 5)
      /\ Holds(Header(p), 12 + r, LengthField(p), 3)
  BY <1>2 DEF HeaderIn, r
<1>8. /\ Holds(c, 0, Leading(p), 4) /\ Holds(c, 4, p.rpath, r) /\ Holds(c, 4 + r, Naming(p), 3)
  BY <1>1, <1>4, <1>5, <1>6, <1>7, Keep
<1>9. Holds(c, 7 + r, AddrField(p), 5) /\ Holds(c, 12 + r, LengthField(p), 3)
  BY <1>1, <1>4, <1>5, <1>6, <1>7, Keep
<1>10. QED
  BY <1>1, <1>4, <1>5, <1>8, <1>9 DEF HeaderIn, r, c

-----------------------------------------------------------------------------
\* Decoding.

\* The instruction byte decodes to the fields it was made of.
LEMMA LeadFields ==
  ASSUME NEW b, NEW e \in {0, 1}, NEW c \in 0 .. 15, NEW r \in 0 .. 3, b[3] = e * 64 + c * 4 + r
  PROVE  /\ Lead(b).resp = e /\ Lead(b).cmd = c /\ Lead(b).rlen = r
         /\ Lead(b).dst = b[1] /\ Lead(b).key = b[4] /\ Lead(b).proto = b[2]
  BY InstructionFields DEF Lead

\* The first four bytes of a command tell how the rest is laid out.
LEMMA LeadDecoded ==
  ASSUME NEW p, IsCommand(p), NEW b, Holds(b, 0, Leading(p), 4)
  PROVE  /\ b[2] = ProtocolId
         /\ Lead(b).resp = 1 /\ Lead(b).cmd = p.cmd /\ Lead(b).rlen = p.rlen
         /\ Lead(b).dst = p.dst /\ Lead(b).key = p.key
         /\ MinHdrSize(Lead(b)) = 15 /\ HasLength(Lead(b))
         /\ Skip(Lead(b)) = 4 * p.rlen /\ Shift(Lead(b)) = 4 * p.rlen + 4
<1>1. b[1] = p.dst /\ b[2] = ProtocolId /\ b[3] = Instruction(p) /\ b[4] = p.key
  <2>1. b[0 + 1] = Leading(p)[1] /\ b[0 + 2] = Leading(p)[2] /\ b[0 + 3] = Leading(p)[3]
        /\ b[0 + 4] = Leading(p)[4]
    BY DEF Holds
  <2>2. QED
    BY <2>1 DEF Leading
<1>2. p.resp = 1 /\ p.cmd \in 0 .. 15 /\ p.rlen \in 0 .. 3
  BY CommandFields
<1>3. b[3] = 1 * 64 + p.cmd * 4 + p.rlen
  BY <1>1, <1>2 DEF Instruction
<1>4. /\ Lead(b).resp = 1 /\ Lead(b).cmd = p.cmd /\ Lead(b).rlen = p.rlen
      /\ Lead(b).dst = p.dst /\ Lead(b).key = p.key
  BY <1>1, <1>2, <1>3, LeadFields
<1>5. MinHdrSize(Lead(b)) = 15
  BY <1>4 DEF IsCommand, ValidCmd, MinHdrSize
<1>6. HasLength(Lead(b)) /\ Skip(Lead(b)) = p.rlen * 4 /\ Shift(Lead(b)) = p.rlen * 4 + 4
  BY <1>4 DEF HasLength, Skip, Shift
<1>7. QED
  BY <1>1, <1>2, <1>4, <1>5, <1>6

\* With the whole header there, every field is decoded to what it was.
LEMMA HeaderDecoded ==
  ASSUME NEW p, IsCommand(p), NEW b, HeaderIn(b, p)
  PROVE  /\ Take(b, 4, Skip(Lead(b))) = p.rpath
         /\ b[5 + Skip(Lead(b))] = p.src
         /\ Two(b, 5 + Skip(Lead(b))) = p.tr_id
         /\ Four(b, 8 + Skip(Lead(b))) = p.addr
         /\ DataSize(b, Lead(b)) = p.data_len
<1> DEFINE r == 4 * p.rlen
<1>1. r \in Nat /\ p.rpath \in Seq(Octet) /\ Len(p.rpath) = r
  BY CommandFields
<1>2. Skip(Lead(b)) = r /\ Shift(Lead(b)) = r + 4 /\ HasLength(Lead(b))
  BY LeadDecoded DEF HeaderIn
<1>3. /\ Holds(b, 4, p.rpath, r) /\ Holds(b, 4 + r, Naming(p), 3) /\ Holds(b, 7 + r, AddrField(p), 5)
      /\ Holds(b, 12 + r, LengthField(p), 3)
  BY DEF HeaderIn
<1> HIDE DEF r
<1>4. Take(b, 4, r) = p.rpath
  <2>1. p.rpath = [k \in 1 .. r |-> p.rpath[k]]
    BY <1>1
  <2>2. \A k \in 1 .. r : b[4 + k] = p.rpath[k]
    BY <1>3 DEF Holds
  <2>3. QED
    BY <2>1, <2>2 DEF Take
<1>5. b[4 + r + 1] = p.src /\ b[4 + r + 2] = Byte(p.tr_id, 1) /\ b[4 + r + 3] = Byte(p.tr_id, 0)
  <2>1. /\ b[4 + r + 1] = Naming(p)[1] /\ b[4 + r + 2] = Naming(p)[2] /\ b[4 + r + 3] = Naming(p)[3]
    BY <1>3 DEF Holds
  <2>2. QED
    BY <2>1 DEF Naming
<1>6. Two(b, 5 + r) = p.tr_id
  <2>1. Two(b, 5 + r) = Byte(p.tr_id, 1) * 256 + Byte(p.tr_id, 0)
    <3>1. 5 + r + 1 = 4 + r + 2 /\ 5 + r + 2 = 4 + r + 3
      BY <1>1
    <3>2. QED
      BY <1>5, <3>1, Zenon DEF Two
  <2>2. p.tr_id \in Nat /\ p.tr_id <= MaxId
    BY CommandFields DEF IsCommand, Fits
  <2>3. QED
    BY <2>1, <2>2, TwoBytes
<1>7. Four(b, 8 + r) = p.addr
  <2>1. /\ b[7 + r + 2] = Byte(p.addr, 3) /\ b[7 + r + 3] = Byte(p.addr, 2)
        /\ b[7 + r + 4] = Byte(p.addr, 1) /\ b[7 + r + 5] = Byte(p.addr, 0)
    <3>1. /\ b[7 + r + 2] = AddrField(p)[2] /\ b[7 + r + 3] = AddrField(p)[3]
          /\ b[7 + r + 4] = AddrField(p)[4] /\ b[7 + r + 5] = AddrField(p)[5]
      BY <1>3 DEF Holds
    <3>2. QED
      BY <3>1, AddrBytes
  <2>2. /\ 8 + r + 1 = 7 + r + 2 /\ 8 + r + 2 = 7 + r + 3 /\ 8 + r + 3 = 7 + r + 4
        /\ 8 + r + 4 = 7 + r + 5
    BY <1>1
  <2>3. Four(b, 8 + r) = ((Byte(p.addr, 3) * 256 + Byte(p.addr, 2)) * 256 + Byte(p.addr, 1)) * 256
                         + Byte(p.addr, 0)
    <3>1. Two(b, 8 + r) = Byte(p.addr, 3) * 256 + Byte(p.addr, 2)
      BY <2>1, <2>2, Zenon DEF Two
    <3>2. Three(b, 8 + r) = (Byte(p.addr, 3) * 256 + Byte(p.addr, 2)) * 256 + Byte(p.addr, 1)
      BY <2>1, <2>2, <3>1, Zenon DEF Three
    <3>3. QED
      BY <2>1, <2>2, <3>2, Zenon DEF Four
  <2>4. p.addr \in Nat /\ InFourBytes(p.addr)
    BY CommandFields DEF IsCommand, Fits
  <2>5. QED
    BY <2>3, <2>4, FourBytes
<1>8. Three(b, 12 + r) = p.data_len
  <2>1. /\ b[12 + r + 1] = Byte(p.data_len, 2) /\ b[12 + r + 2] = Byte(p.data_len, 1)
        /\ b[12 + r + 3] = Byte(p.data_len, 0)
    <3>1. /\ b[12 + r + 1] = LengthField(p)[1] /\ b[12 + r + 2] = LengthField(p)[2]
          /\ b[12 + r + 3] = LengthField(p)[3]
      BY <1>3 DEF Holds
    <3>2. QED
      BY <3>1, LengthBytes, CommandFields
  <2>2. Three(b, 12 + r) = (Byte(p.data_len, 2) * 256 + Byte(p.data_len, 1)) * 256 + Byte(p.data_len, 0)
    BY <2>1, Zenon DEF Two, Three
  <2>3. p.data_len \in Nat /\ p.data_len <= MaxData
    BY CommandFields DEF IsCommand, Fits
  <2>4. QED
    BY <2>2, <2>3, ThreeBytes
<1>9. DataSize(b, Lead(b)) = p.data_len
  <2>1. 8 + (r + 4) = 12 + r
    BY <1>1
  <2>2. QED
    BY <1>2, <1>8, <2>1 DEF DataSize
<1>10. 5 + r = 4 + r + 1
  BY <1>1
<1>11. QED
  BY <1>2, <1>4, <1>5, <1>6, <1>7, <1>9, <1>10

\* The fields of what rmap_pkt_from_buffer returns, one by one.
LEMMA DecodedFields ==
  ASSUME NEW b, NEW h, h.resp \in {0, 1}, NEW r, r = Decoded(b, h)
  PROVE  /\ r # Null /\ r.dst = h.dst /\ r.resp = h.resp /\ r.cmd = h.cmd /\ r.key = h.key
         /\ r.rpath = Take(b, 4, Skip(h)) /\ r.src = b[5 + Skip(h)] /\ r.tr_id = Two(b, 5 + Skip(h))
         /\ r.addr = (IF h.resp = 1 THEN Four(b, 8 + Skip(h)) ELSE 0)
         /\ r.data_len = DataSize(b, h) /\ r.data = Take(b, 12 + Shift(h), DataSize(b, h))
         /\ r.data_crc = IF DataSize(b, h) > 0 /\ Len(b) > 12 + Shift(h) + DataSize(b, h)
                         THEN b[12 + Shift(h) + DataSize(b, h) + 1] ELSE 0
<1>1. r.resp = h.resp
  BY DEF Decoded
<1>2. r # Null
  <2>1. Null.resp = -1
    BY DEF Null
  <2>2. r.resp # -1
    BY <1>1
  <2>3. QED
    BY <2>1, <2>2
<1>3. QED
  BY <1>2 DEF Decoded

\* What is left of a command is decoded if, and only if, its header is there
\* and all of the data its length field announces.
LEMMA CommandDecoded ==
  ASSUME NEW p, IsCommand(p), NEW b, NEW l \in Nat, IsSeq(b, l), Prefix(CommandOf(p), b, l)
  PROVE  LET whole == /\ l >= 15 + 4 * p.rlen
                      /\ p.data_len > 0 => l >= 16 + 4 * p.rlen + p.data_len
         IN  /\ ~whole => FromBuffer(b) = Null
             /\ whole => FromBuffer(b) = Decoded(b, Lead(b)) /\ HeaderIn(b, p)
<1> DEFINE r == 4 * p.rlen
           whole == l >= 15 + r /\ (p.data_len > 0 => l >= 16 + r + p.data_len)
           h == Lead(b)
           c == CommandOf(p)
<1>1. r \in Nat /\ Len(b) = l /\ p.data_len \in Nat
  BY CommandFields DEF IsSeq
<1>2. HeaderIn(c, p)
  BY CommandBytes
<1> HIDE DEF c, r
<1>3. ASSUME l >= 4 PROVE Holds(b, 0, Leading(p), 4)
  <2>1. Holds(c, 0, Leading(p), 4) /\ Prefix(c, b, l)
    BY <1>2 DEF HeaderIn, c
  <2>2. 0 \in Nat /\ 4 \in Nat /\ 0 + 4 <= l
    BY <1>3
  <2>3. QED
    BY <2>1, <2>2, Keep, Zenon
<1>4. ASSUME l >= 15 + r PROVE HeaderIn(b, p)
  <2>1. /\ Holds(c, 4, p.rpath, r) /\ Holds(c, 4 + r, Naming(p), 3)
        /\ Holds(c, 7 + r, AddrField(p), 5) /\ Holds(c, 12 + r, LengthField(p), 3) /\ Prefix(c, b, l)
    BY <1>2 DEF HeaderIn, c, r
  <2>2. /\ 4 \in Nat /\ 3 \in Nat /\ 5 \in Nat /\ 4 + r \in Nat /\ 7 + r \in Nat /\ 12 + r \in Nat
        /\ 4 + r <= l /\ (4 + r) + 3 <= l /\ (7 + r) + 5 <= l /\ (12 + r) + 3 <= l
    BY <1>1, <1>4
  <2>3. Holds(b, 4, p.rpath, r)
    BY <1>1, <2>1, <2>2, Keep, Zenon
  <2>4. Holds(b, 4 + r, Naming(p), 3)
    BY <1>1, <2>1, <2>2, Keep, Zenon
  <2>5. Holds(b, 7 + r, AddrField(p), 5)
    BY <1>1, <2>1, <2>2, Keep, Zenon
  <2>6. Holds(b, 12 + r, LengthField(p), 3)
    BY <1>1, <2>1, <2>2, Keep, Zenon
  <2>7. l >= 4
    BY <1>1, <1>4
  <2>8. QED
    BY <1>3, <2>3, <2>4, <2>5, <2>6, <2>7 DEF HeaderIn, r
<1>5. ASSUME l >= 4
      PROVE  /\ b[2] = ProtocolId /\ MinHdrSize(h) = 15 /\ Skip(h) = r /\ Shift(h) = r + 4
             /\ HdrTooShort(b, h) <=> l < 15 + r
  <2>1. b[2] = ProtocolId /\ MinHdrSize(h) = 15 /\ Skip(h) = r /\ Shift(h) = r + 4
    BY <1>3, <1>5, LeadDecoded DEF r
  <2>2. HdrTooShort(b, h) <=> l < 15 + r
    BY <1>1, <2>1 DEF HdrTooShort
  <2>3. QED
    BY <2>1, <2>2
<1>6. ASSUME l >= 15 + r
      PROVE  DataTooShort(b, h) <=> ~(p.data_len > 0 => l >= 16 + r + p.data_len)
  <2>1. DataSize(b, h) = p.data_len
    BY <1>4, <1>6, HeaderDecoded
  <2>2. Shift(h) = r + 4
    BY <1>1, <1>5, <1>6
  <2>3. QED
    BY <1>1, <2>1, <2>2 DEF DataTooShort
<1>7. ASSUME ~whole PROVE FromBuffer(b) = Null
  <2>1. CASE l < 7
    BY <1>1, <2>1 DEF FromBuffer
  <2>2. CASE l >= 7 /\ l < 15 + r
    BY <1>1, <1>5, <2>2 DEF FromBuffer
  <2>3. CASE l >= 15 + r
    <3>1. DataTooShort(b, h)
      BY <1>6, <1>7, <2>3
    <3>2. QED
      BY <3>1 DEF FromBuffer
  <2>4. QED
    BY <1>1, <2>1, <2>2, <2>3
<1>8. ASSUME whole PROVE FromBuffer(b) = Decoded(b, h) /\ HeaderIn(b, p)
  <2>1. l >= 7 /\ l >= 4 /\ l >= 15 + r
    BY <1>1, <1>8
  <2>2. ~DataTooShort(b, h)
    BY <1>6, <1>8, <2>1
  <2>3. ~(Len(b) < 7) /\ b[2] = ProtocolId /\ ~(MinHdrSize(h) < 0) /\ ~HdrTooShort(b, h)
    BY <1>1, <1>5, <2>1
  <2>4. FromBuffer(b) = Decoded(b, h)
    BY <2>2, <2>3, Zenon DEF FromBuffer
  <2>5. QED
    BY <1>4, <2>1, <2>4
<1>9. QED
  BY <1>7, <1>8 DEF r

-----------------------------------------------------------------------------
\* The theorems about commands.

\* Once rmap_set_cmd has accepted a code the packet is a command.
LEMMA PktIsCommand ==
  ASSUME FieldsInv, pkt.resp = 1
  PROVE  IsCommand(pkt)
  BY DEF FieldsInv, IsCommand

\* Before rmap_set_cmd has accepted a code the size that is told is one less
\* than the two paths, and the header written behind them has eleven bytes.
LEMMA NoCommandSize ==
  ASSUME FieldsInv, ~ValidCmd(pkt.cmd)
  PROVE  Len(BuildHdr(pkt)) > HdrSize(pkt)
<1> DEFINE n == Len(pkt.path)
           r == Len(pkt.rpath)
<1>1. /\ pkt.resp = 0 /\ pkt.cmd = 0 /\ pkt.rlen \in 0 .. 3 /\ pkt.proto = ProtocolId
      /\ pkt.path \in Seq(Octet) /\ pkt.rpath \in Seq(Octet) /\ pkt.dst \in Octet
      /\ pkt.key \in Octet /\ pkt.src \in Octet /\ pkt.tr_id \in Nat /\ pkt.data_len \in Nat
  BY DEF FieldsInv, PktType
<1>2. n \in Nat /\ r \in Nat
  BY <1>1
<1>3. AddrField(pkt) = <<0>> /\ HasLength(pkt) /\ MinHdrSize(pkt) = -1
  <2>1. ~IsWrite(0) /\ 0 \notin Reads /\ 0 \notin Writes
    BY DEF IsWrite, Reads, Writes
  <2>2. QED
    BY <1>1, <2>1 DEF AddrField, HasLength, MinHdrSize
<1>4. HdrSize(pkt) = -1 + n + r
  BY <1>3 DEF HdrSize
<1>5. Instruction(pkt) \in Octet /\ ProtocolId \in Octet /\ 0 \in Octet
  <2>1. 0 \in 0 .. 15 /\ 0 \in {0, 1}
    OBVIOUS
  <2>2. 0 * 64 + 0 * 4 + pkt.rlen \in Octet
    BY <1>1, <2>1, InstructionFields, Zenon
  <2>3. ProtocolId \in Octet /\ 0 \in Octet
    BY DEF Octet, ProtocolId
  <2>4. QED
    BY <1>1, <2>2, <2>3, Zenon DEF Instruction
<1>6. PICK t1 \in Octet, t0 \in Octet : t1 = Byte(pkt.tr_id, 1) /\ t0 = Byte(pkt.tr_id, 0)
  BY <1>1, ByteType
<1> DEFINE A == <<pkt.dst, ProtocolId, Instruction(pkt), pkt.key>>
           B == <<pkt.src, t1, t0>>
           C == LengthField(pkt)
<1>7. BuildHdr(pkt) = pkt.path \o A \o pkt.rpath \o B \o <<0>> \o C
  BY <1>1, <1>3, <1>6, Zenon DEF BuildHdr
<1>8. IsSeq(A, 4) /\ IsSeq(B, 3) /\ IsSeq(C, 3) /\ IsSeq(<<0>>, 1)
  BY <1>1, <1>5, <1>6, LengthBytes DEF IsSeq
<1> DEFINE Z == <<0>>
<1> HIDE DEF A, B, C, Z
<1>9. \A x, y \in Seq(Octet) : x \o y \in Seq(Octet) /\ Len(x \o y) = Len(x) + Len(y)
  OBVIOUS
<1>10. IsSeq(pkt.path \o A, n + 4)
  BY <1>1, <1>8, <1>9 DEF IsSeq
<1>11. IsSeq(pkt.path \o A \o pkt.rpath, n + 4 + r)
  BY <1>1, <1>9, <1>10 DEF IsSeq
<1>12. IsSeq(pkt.path \o A \o pkt.rpath \o B, n + 4 + r + 3)
  BY <1>8, <1>9, <1>11 DEF IsSeq
<1>13. IsSeq(pkt.path \o A \o pkt.rpath \o B \o Z, n + 4 + r + 3 + 1)
  BY <1>8, <1>9, <1>12 DEF IsSeq, Z
<1>14. IsSeq(pkt.path \o A \o pkt.rpath \o B \o Z \o C, n + 4 + r + 3 + 1 + 3)
  BY <1>8, <1>9, <1>13 DEF IsSeq
<1>15. Len(BuildHdr(pkt)) = n + 4 + r + 3 + 1 + 3
  BY <1>7, <1>14, Zenon DEF IsSeq, Z
<1> HIDE DEF n, r
<1>16. QED
  BY <1>2, <1>4, <1>15

\* rmap_build_hdr writes exactly the bytes it told the caller to allocate if
\* rmap_set_cmd has accepted a command, whatever the other setters were given
\* and in whatever order they were called, and more than it told if not.
THEOREM AllocatedSize == Spec => []SizeAgrees
<1>1. ASSUME RmapInv, ValidCmd(pkt.cmd) PROVE Len(BuildHdr(pkt)) = HdrSize(pkt)
  <2>1. pkt.resp = 1
    <3>1. ~ValidCmd(0)
      BY DEF ValidCmd, Reads, Writes
    <3>2. QED
      BY <1>1, <3>1 DEF RmapInv, FieldsInv
  <2>2. QED
    BY <1>1, <2>1, PktIsCommand, HeaderBytes DEF RmapInv
<1>2. RmapInv => SizeAgrees
  BY <1>1, NoCommandSize DEF SizeAgrees, RmapInv
<1>3. QED
  BY <1>2, Invariant, PTL

\* The bytes on the link are the command's, from the first on.
LEMMA OnTheLink ==
  ASSUME RmapInv, stage = "link"
  PROVE  /\ IsCommand(pkt)
         /\ \E l \in Nat : /\ IsSeq(buf, l) /\ Prefix(CommandOf(pkt), buf, l)
                           /\ ~cut => l = SizeWith(15 + 4 * pkt.rlen, Carried(pkt))
<1>1. IsCommand(pkt)
  BY PktIsCommand DEF RmapInv
<1>2. PICK n \in Cuts : CutFrom(n)
  BY DEF RmapInv
<1>3. n \in Nat
  BY RmapAssumption
<1> DEFINE c == CommandOf(pkt)
           z == SizeWith(15 + 4 * pkt.rlen, Carried(pkt))
<1>4. c \in Seq(Octet) /\ Len(c) = z
  BY <1>1, CommandBytes DEF IsSeq
<1> HIDE DEF c, z
<1>5. z \in Nat
  BY <1>4
<1>6. n <= z /\ buf = SubSeq(c, 1, z - n) /\ (cut <=> n > 0)
  BY <1>2, <1>4 DEF CutFrom, c
<1>7. z - n \in Nat
  BY <1>3, <1>5, <1>6
<1>8. IsSeq(buf, z - n) /\ Prefix(c, buf, z - n)
  BY <1>3, <1>4, <1>5, <1>6, <1>7 DEF IsSeq, Prefix
<1>9. ~cut => z - n = z
  BY <1>3, <1>5, <1>6
<1>10. QED
  BY <1>1, <1>7, <1>8, <1>9, Zenon DEF c, z

\* Every field of every command that carries its data survives rmap_build_hdr,
\* the link and rmap_pkt_from_buffer, for all lengths, addresses and reply paths.
THEOREM FieldsSurvive == Spec => []RoundTrip
<1>1. RmapInv => RoundTrip
  <2> SUFFICES ASSUME RmapInv, stage = "link", ~cut, Carried(pkt) = pkt.data_len PROVE RoundTrip
    BY DEF RoundTrip
  <2> DEFINE r == 4 * pkt.rlen
             m == pkt.data_len
             R == FromBuffer(buf)
  <2>1. IsCommand(pkt)
    BY OnTheLink
  <2>2. PICK l \in Nat : /\ IsSeq(buf, l) /\ Prefix(CommandOf(pkt), buf, l)
                         /\ ~cut => l = SizeWith(15 + 4 * pkt.rlen, Carried(pkt))
    BY OnTheLink
  <2>3. r \in Nat /\ m \in Nat
    BY <2>1, CommandFields
  <2>4. l = SizeWith(15 + r, m) /\ IsSeq(buf, l) /\ Prefix(CommandOf(pkt), buf, l)
    BY <2>2
  <2>5. l >= 15 + r /\ (m > 0 => l = 17 + r + m)
    BY <2>3, <2>4 DEF SizeWith
  <2>6. l >= 15 + 4 * pkt.rlen /\ (pkt.data_len > 0 => l >= 16 + 4 * pkt.rlen + pkt.data_len)
    BY <2>3, <2>5
  <2>7. R = Decoded(buf, Lead(buf)) /\ HeaderIn(buf, pkt)
    BY <2>1, <2>4, <2>6, CommandDecoded
  <2>8. /\ Lead(buf).resp = 1 /\ Lead(buf).cmd = pkt.cmd /\ Lead(buf).dst = pkt.dst
        /\ Lead(buf).key = pkt.key /\ Shift(Lead(buf)) = r + 4
    BY <2>1, <2>7, LeadDecoded DEF HeaderIn
  <2>9. /\ Take(buf, 4, Skip(Lead(buf))) = pkt.rpath /\ buf[5 + Skip(Lead(buf))] = pkt.src
        /\ Two(buf, 5 + Skip(Lead(buf))) = pkt.tr_id /\ Four(buf, 8 + Skip(Lead(buf))) = pkt.addr
        /\ DataSize(buf, Lead(buf)) = m
    BY <2>1, <2>7, HeaderDecoded
  <2> HIDE DEF r, m, R
  <2>10. /\ R # Null /\ R.dst = pkt.dst /\ R.cmd = pkt.cmd /\ R.key = pkt.key /\ R.src = pkt.src
         /\ R.rpath = pkt.rpath /\ R.tr_id = pkt.tr_id /\ R.addr = pkt.addr
    BY <2>7, <2>8, <2>9, DecodedFields
  <2>11. DataIn(buf, 16 + r, m)
    <3>1. DataIn(CommandOf(pkt), 16 + r, m)
      BY <2>1, CommandBytes DEF r, m
    <3>2. ASSUME m > 0 PROVE \A k \in 1 .. m : buf[16 + r + k] = DataByte
      <4>1. \A k \in 1 .. m : CommandOf(pkt)[16 + r + k] = DataByte
        BY <3>1, <3>2 DEF DataIn
      <4>2. \A k \in 1 .. m : 16 + r + k \in 1 .. l
        BY <2>3, <2>5, <3>2
      <4>3. QED
        BY <2>4, <4>1, <4>2, Zenon DEF Prefix
    <3>3. ASSUME m > 0 PROVE buf[16 + r + m + 1] = DataCrc
      <4>1. CommandOf(pkt)[16 + r + m + 1] = DataCrc
        BY <3>1, <3>3 DEF DataIn
      <4>2. 16 + r + m + 1 \in 1 .. l
        BY <2>3, <2>5, <3>3
      <4>3. QED
        BY <2>4, <4>1, <4>2, Zenon DEF Prefix
    <3>4. QED
      BY <3>2, <3>3 DEF DataIn
  <2>12. R.data = Take(buf, 12 + (r + 4), m)
    BY <2>7, <2>8, <2>9, DecodedFields
  <2>13. R.data = Fill(m, DataByte)
    <3>1. \A k \in 1 .. m : 12 + (r + 4) + k = 16 + r + k /\ m > 0
      BY <2>3
    <3>2. \A k \in 1 .. m : buf[12 + (r + 4) + k] = DataByte
      BY <2>11, <3>1, Zenon DEF DataIn
    <3>3. QED
      BY <2>12, <3>2 DEF Take, Fill
  <2>14. ASSUME m > 0 PROVE R.data_crc = DataCrc
    <3>1. 12 + (r + 4) + m = 16 + r + m /\ l > 12 + (r + 4) + m /\ Len(buf) = l
      BY <2>3, <2>4, <2>5, <2>14 DEF IsSeq
    <3>2. R.data_crc = IF m > 0 /\ Len(buf) > 12 + (r + 4) + m
                       THEN buf[12 + (r + 4) + m + 1] ELSE 0
      BY <2>7, <2>8, <2>9, DecodedFields
    <3>3. R.data_crc = buf[16 + r + m + 1]
      BY <2>14, <3>1, <3>2
    <3>4. QED
      BY <2>11, <2>14, <3>3 DEF DataIn
  <2>15. QED
    BY <2>10, <2>13, <2>14 DEF RoundTrip, R, m
<1>2. QED
  BY <1>1, Invariant, PTL

-----------------------------------------------------------------------------
\* Packets that lost their end.

\* rmap_parse_pkt prints only bytes of its buffer, whatever is in it.
LEMMA ParsedWithin ==
  ASSUME NEW b, NEW l \in Nat, IsSeq(b, l)
  PROVE  \A k \in ParsedOffsets(b) : k < Len(b)
<1>1. Len(b) = l /\ \A j \in 1 .. l : b[j] \in 0 .. 255
  <2>1. ASSUME NEW a \in Seq(Octet) PROVE \A j \in 1 .. Len(a) : a[j] \in Octet
    OBVIOUS
  <2>2. QED
    BY <2>1, Zenon DEF IsSeq, Octet
<1>2. \A j \in Nat : j + 3 <= Len(b) => Three(b, j) \in Int
  <2> SUFFICES ASSUME NEW j \in Nat, j + 3 <= Len(b) PROVE Three(b, j) \in Int
    OBVIOUS
  <2>1. j + 1 \in 1 .. l /\ j + 2 \in 1 .. l /\ j + 3 \in 1 .. l
    BY <1>1
  <2>2. b[j + 1] \in 0 .. 255 /\ b[j + 2] \in 0 .. 255 /\ b[j + 3] \in 0 .. 255
    BY <1>1, <2>1, Zenon
  <2>3. PICK x \in 0 .. 255, y \in 0 .. 255, z \in 0 .. 255 : x = b[j + 1] /\ y = b[j + 2] /\ z = b[j + 3]
    BY <2>2, Zenon
  <2>4. Three(b, j) = (x * 256 + y) * 256 + z
    BY <2>3, Zenon DEF Three, Two
  <2>5. QED
    BY <2>4, SMT
<1>3. ASSUME NEW off \in Nat, NEW size \in Int, NEW k \in Data(b, off, size)
      PROVE  k < Len(b)
  BY <1>1, <1>3 DEF Data
<1>4. ASSUME ~(Len(b) < 4) PROVE Lead(b).rlen \in 0 .. 3 /\ Lead(b).resp \in {0, 1}
  <2>1. b[3] \in 0 .. 255
    BY <1>1, <1>4
  <2>4. \A x \in 0 .. 255 : x % 4 \in 0 .. 3 /\ (x \div 64) % 2 \in {0, 1}
    BY SMT
  <2>2. b[3] % 4 \in 0 .. 3 /\ (b[3] \div 64) % 2 \in {0, 1}
    BY <2>1, <2>4, Zenon
  <2>3. QED
    BY <2>2 DEF Lead
<1>5. ASSUME NEW h, h.rlen \in 0 .. 3, h.resp = 1, NEW k \in ParsedCmd(b, h) PROVE k < Len(b)
  <2> DEFINE s == Skip(h)
  <2>1. s \in Nat
    BY <1>5 DEF Skip
  <2> HIDE DEF s
  <2>2. ~CmdTooShort(b, h)
    BY <1>5 DEF ParsedCmd
  <2>3. Len(b) >= 16 + s
    BY <1>1, <2>1, <2>2 DEF CmdTooShort, s
  <2>4. k \in (8 + s .. 14 + s) \/ k \in Data(b, 12 + 4 + s, Three(b, 12 + s))
    BY <1>5 DEF ParsedCmd, s
  <2>5. CASE k \in 8 + s .. 14 + s
    BY <1>1, <2>1, <2>3, <2>5
  <2>6. CASE k \in Data(b, 12 + 4 + s, Three(b, 12 + s))
    <3>1. 12 + 4 + s \in Nat /\ Three(b, 12 + s) \in Int
      BY <1>1, <1>2, <2>1, <2>3
    <3>2. QED
      BY <1>3, <2>6, <3>1
  <2>7. QED
    BY <2>4, <2>5, <2>6
<1>6. ASSUME NEW h, NEW k \in ParsedReply(b, h) PROVE k < Len(b)
  <2>1. ~(Len(b) < 11)
    BY <1>6 DEF ParsedReply
  <2>2. k \in 8 .. 10 \/ k \in Data(b, 12, Three(b, 8))
    BY <1>6 DEF ParsedReply
  <2>3. CASE k \in 8 .. 10
    BY <1>1, <2>1, <2>3
  <2>4. CASE k \in Data(b, 12, Three(b, 8))
    <3>1. Three(b, 8) \in Int
      BY <1>1, <1>2, <2>1
    <3>2. QED
      BY <1>3, <2>4, <3>1
  <2>5. QED
    BY <2>2, <2>3, <2>4
<1>7. SUFFICES ASSUME NEW k \in ParsedOffsets(b) PROVE k < Len(b)
  OBVIOUS
<1>8. ~(Len(b) < 4)
  BY <1>7 DEF ParsedOffsets
<1>9. CASE Lead(b).resp = 1
  <2>1. k \in ParsedCmd(b, Lead(b))
    BY <1>7, <1>8, <1>9 DEF ParsedOffsets
  <2>2. QED
    BY <1>4, <1>5, <1>8, <1>9, <2>1
<1>10. CASE Lead(b).resp # 1
  <2>1. k \in ParsedReply(b, Lead(b))
    BY <1>7, <1>8, <1>10 DEF ParsedOffsets
  <2>2. QED
    BY <1>6, <2>1
<1>11. QED
  BY <1>9, <1>10

-----------------------------------------------------------------------------
\* The reply of a target.

\* The write bit of a command code tells the reads from the writes.
LEMMA WriteBit ==
  ASSUME NEW c, ValidCmd(c)
  PROVE  /\ c \in 0 .. 15
         /\ IF IsWrite(c) THEN c \in Writes /\ c \notin Reads ELSE c \in Reads /\ c \notin Writes
<1>1. \A x \in Reads : x \in 0 .. 15 /\ (x \div 8) % 2 = 0
  BY SMT DEF Reads
<1>2. \A x \in Writes : x \in 0 .. 15 /\ (x \div 8) % 2 = 1
  BY SMT DEF Writes
<1>3. QED
  BY <1>1, <1>2 DEF ValidCmd, IsWrite

\* The first seven bytes of a reply.
LEMMA ReplyLeadBytes ==
  ASSUME NEW p, IsCommand(p)
  PROVE  /\ IsSeq(ReplyLead(p), 7)
         /\ ReplyLead(p)[1] = p.src /\ ReplyLead(p)[2] = ProtocolId
         /\ ReplyLead(p)[3] = 0 * 64 + p.cmd * 4 + p.rlen /\ ReplyLead(p)[5] = p.dst
         /\ ReplyLead(p)[6] = Byte(p.tr_id, 1) /\ ReplyLead(p)[7] = Byte(p.tr_id, 0)
<1>1. p.cmd \in 0 .. 15 /\ p.rlen \in 0 .. 3 /\ p.src \in Octet /\ p.dst \in Octet /\ p.tr_id \in Nat
  BY CommandFields
<1>2. 0 * 64 + p.cmd * 4 + p.rlen \in Octet
  BY <1>1, InstructionFields
<1>3. p.cmd * 4 + p.rlen = 0 * 64 + p.cmd * 4 + p.rlen
  BY <1>1
<1>4. PICK i \in Octet : i = p.cmd * 4 + p.rlen
  BY <1>2, <1>3
<1>5. PICK t1 \in Octet, t0 \in Octet, o \in Octet, z \in Octet :
         t1 = Byte(p.tr_id, 1) /\ t0 = Byte(p.tr_id, 0) /\ o = ProtocolId /\ z = 0
  <2>1. ProtocolId \in Octet /\ 0 \in Octet
    BY DEF ProtocolId, Octet
  <2>2. QED
    BY <1>1, <2>1, ByteType
<1>6. ReplyLead(p) = <<p.src, o, i, z, p.dst, t1, t0>>
  BY <1>4, <1>5 DEF ReplyLead
<1>7. QED
  BY <1>1, <1>3, <1>4, <1>5, <1>6 DEF IsSeq

\* A reply begins with the bytes of ReplyLead; these decode to the transaction.
LEMMA ReplyLeadDecoded ==
  ASSUME NEW p, IsCommand(p), NEW b, Holds(b, 0, ReplyLead(p), 7)
  PROVE  /\ b[2] = ProtocolId
         /\ Lead(b).resp = 0 /\ Lead(b).cmd = p.cmd /\ Lead(b).dst = p.src
         /\ Skip(Lead(b)) = 0 /\ Shift(Lead(b)) = 0
         /\ b[5] = p.dst /\ Two(b, 5) = p.tr_id
<1>1. /\ b[1] = p.src /\ b[2] = ProtocolId /\ b[3] = 0 * 64 + p.cmd * 4 + p.rlen /\ b[5] = p.dst
      /\ b[6] = Byte(p.tr_id, 1) /\ b[7] = Byte(p.tr_id, 0)
  <2>1. /\ b[1] = ReplyLead(p)[1] /\ b[2] = ReplyLead(p)[2] /\ b[3] = ReplyLead(p)[3]
        /\ b[5] = ReplyLead(p)[5] /\ b[6] = ReplyLead(p)[6] /\ b[7] = ReplyLead(p)[7]
    BY DEF Holds
  <2>2. QED
    BY <2>1, ReplyLeadBytes
<1>2. p.cmd \in 0 .. 15 /\ p.rlen \in 0 .. 3 /\ p.tr_id \in Nat /\ p.tr_id <= MaxId
  BY CommandFields DEF IsCommand, Fits
<1>3. Lead(b).resp = 0 /\ Lead(b).cmd = p.cmd /\ Lead(b).dst = p.src
  BY <1>1, <1>2, LeadFields
<1>4. Skip(Lead(b)) = 0 /\ Shift(Lead(b)) = 0
  BY <1>3 DEF Skip, Shift
<1>5. Two(b, 5) = p.tr_id
  <2>1. 5 + 1 = 6 /\ 5 + 2 = 7
    OBVIOUS
  <2>2. Two(b, 5) = Byte(p.tr_id, 1) * 256 + Byte(p.tr_id, 0)
    BY <1>1, <2>1 DEF Two
  <2>3. QED
    BY <1>2, <2>2, TwoBytes
<1>6. QED
  BY <1>1, <1>3, <1>4, <1>5

\* A write's reply is eight bytes.
LEMMA WriteReply ==
  ASSUME NEW p, IsCommand(p), IsWrite(p.cmd)
  PROVE  IsSeq(ReplyOf(p), 8) /\ Holds(ReplyOf(p), 0, ReplyLead(p), 7)
<1>1. IsSeq(ReplyLead(p), 7)
  BY ReplyLeadBytes
<1>2. ReplyOf(p) = WithData(ReplyLead(p), 0) /\ 7 \in Nat /\ 0 \in Nat
  BY DEF ReplyOf
<1>3. /\ IsSeq(ReplyOf(p), IF 0 > 0 THEN 7 + 1 + (0 + 1) ELSE 7 + 1)
      /\ Prefix(ReplyLead(p), ReplyOf(p), 7)
  BY <1>1, <1>2, WithDataBytes, Zenon
<1>4. QED
  BY <1>3 DEF Prefix, Holds

\* A read's reply has the length and the data behind the lead.
LEMMA ReadReply ==
  ASSUME NEW p, IsCommand(p), ~IsWrite(p.cmd)
  PROVE  /\ IsSeq(ReplyOf(p), SizeWith(11, p.data_len))
         /\ Holds(ReplyOf(p), 0, ReplyLead(p), 7) /\ Holds(ReplyOf(p), 8, LengthField(p), 3)
         /\ DataIn(ReplyOf(p), 12, p.data_len)
<1> DEFINE x == ReplyLead(p) \o <<0>>
           y == x \o LengthField(p)
           b == ReplyOf(p)
<1>1. p.data_len \in Nat
  BY CommandFields
<1>2. IsSeq(ReplyLead(p), 7) /\ IsSeq(<<0>>, 1) /\ IsSeq(LengthField(p), 3)
  <2>1. <<0>> \in Seq(Octet) /\ Len(<<0>>) = 1
    BY DEF Octet
  <2>2. QED
    BY <1>1, <2>1, ReplyLeadBytes, LengthBytes DEF IsSeq
<1>3. IsSeq(x, 7 + 1) /\ Prefix(ReplyLead(p), x, 7)
  BY <1>2, Piece, Zenon
<1>4. b = WithData(y, p.data_len)
  BY DEF ReplyOf
<1> HIDE DEF x
<1>5. IsSeq(y, 7 + 1 + 3) /\ Prefix(x, y, 7 + 1) /\ Holds(y, 7 + 1, LengthField(p), 3)
  BY <1>2, <1>3, Piece, Zenon
<1> HIDE DEF y, b
<1>6. IsSeq(y, 11) /\ Prefix(x, y, 8) /\ Holds(y, 8, LengthField(p), 3)
  <2>1. 7 + 1 = 8 /\ 7 + 1 + 3 = 11
    OBVIOUS
  <2>2. QED
    BY <1>5, <2>1
<1>7. /\ IsSeq(b, IF p.data_len > 0 THEN 11 + 1 + (p.data_len + 1) ELSE 11 + 1)
      /\ Prefix(y, b, 11) /\ DataIn(b, 11 + 1, p.data_len)
  <2>1. 11 \in Nat
    OBVIOUS
  <2>2. QED
    BY <1>1, <1>4, <1>6, <2>1, WithDataBytes, Zenon
<1>8. Holds(b, 8, LengthField(p), 3)
  BY <1>6, <1>7, Keep
<1>9. Holds(b, 0, ReplyLead(p), 7)
  BY <1>3, <1>6, <1>7 DEF Prefix, Holds
<1>10. 11 + 1 = 12
  OBVIOUS
<1>11. QED
  BY <1>7, <1>8, <1>9, <1>10 DEF SizeWith, b

-----------------------------------------------------------------------------
\* The theorems about replies and packets cut short.

\* Whatever is left of a packet, the bytes printed and the data decoded are
\* bytes that arrived, and a decoded header has the fields that were sent.
THEOREM NothingBeyond == Spec => []WithinBuffer
<1>1. RmapInv => WithinBuffer
  <2> SUFFICES ASSUME RmapInv PROVE WithinBuffer
    OBVIOUS
  <2>1. \E l \in Nat : IsSeq(buf, l)
    <3>1. CASE stage = "setup"
      <4>1. IsSeq(<<>>, 0)
        BY DEF IsSeq
      <4>2. QED
        BY <3>1, <4>1 DEF RmapInv
    <3>2. CASE stage = "link"
      BY <3>2, OnTheLink
    <3>3. CASE stage = "reply"
      <4>1. IsCommand(pkt) /\ buf = ReplyOf(pkt)
        BY <3>3, PktIsCommand DEF RmapInv
      <4>2. CASE IsWrite(pkt.cmd)
        BY <4>1, <4>2, WriteReply
      <4>3. CASE ~IsWrite(pkt.cmd)
        <5>1. SizeWith(11, pkt.data_len) \in Nat
          BY <4>1, CommandFields DEF SizeWith
        <5>2. QED
          BY <4>1, <4>3, <5>1, ReadReply
      <4>4. QED
        BY <4>2, <4>3
    <3>4. QED
      BY <3>1, <3>2, <3>3 DEF RmapInv
  <2>2. \A k \in ParsedOffsets(buf) : k < Len(buf)
    BY <2>1, ParsedWithin
  <2>3. ASSUME stage = "link", FromBuffer(buf) # Null
        PROVE  /\ FromBuffer(buf).rpath = pkt.rpath /\ FromBuffer(buf).addr = pkt.addr
               /\ FromBuffer(buf).data_len > 0 =>
                    16 + Len(pkt.rpath) + FromBuffer(buf).data_len <= Len(buf)
    <3>1. IsCommand(pkt)
      BY <2>3, OnTheLink
    <3>2. PICK l \in Nat : IsSeq(buf, l) /\ Prefix(CommandOf(pkt), buf, l)
      BY <2>3, OnTheLink
    <3>3. /\ pkt.data_len > 0 => l >= 16 + 4 * pkt.rlen + pkt.data_len
          /\ FromBuffer(buf) = Decoded(buf, Lead(buf)) /\ HeaderIn(buf, pkt)
      BY <2>3, <3>1, <3>2, CommandDecoded, Zenon
    <3>4. Lead(buf).resp = 1
      BY <3>1, <3>3, LeadDecoded DEF HeaderIn
    <3>5. /\ Take(buf, 4, Skip(Lead(buf))) = pkt.rpath
          /\ Four(buf, 8 + Skip(Lead(buf))) = pkt.addr /\ DataSize(buf, Lead(buf)) = pkt.data_len
      BY <3>1, <3>3, HeaderDecoded
    <3>6. /\ FromBuffer(buf).rpath = pkt.rpath /\ FromBuffer(buf).addr = pkt.addr
          /\ FromBuffer(buf).data_len = pkt.data_len
      BY <3>3, <3>4, <3>5, DecodedFields
    <3>7. Len(pkt.rpath) = 4 * pkt.rlen /\ Len(buf) = l /\ pkt.data_len \in Nat /\ 4 * pkt.rlen \in Nat
      BY <3>1, <3>2, CommandFields DEF IsSeq
    <3>8. QED
      BY <3>3, <3>6, <3>7
  <2>4. QED
    BY <2>2, <2>3 DEF WithinBuffer
<1>2. QED
  BY <1>1, Invariant, PTL

\* The reply to every command decodes to the transaction it answers, and a
\* read's reply to all of its data.
THEOREM ReplyMatches == Spec => []ReplyDecoded
<1>1. RmapInv => ReplyDecoded
  <2> SUFFICES ASSUME RmapInv, stage = "reply" PROVE ReplyDecoded
    BY DEF ReplyDecoded
  <2> DEFINE R == FromBuffer(buf)
             h == Lead(buf)
             m == pkt.data_len
  <2>1. IsCommand(pkt) /\ buf = ReplyOf(pkt) /\ ValidCmd(pkt.cmd) /\ m \in Nat
    BY PktIsCommand, CommandFields DEF RmapInv, IsCommand
  <2>2. Holds(buf, 0, ReplyLead(pkt), 7)
    BY <2>1, WriteReply, ReadReply
  <2>3. /\ buf[2] = ProtocolId /\ h.resp = 0 /\ h.cmd = pkt.cmd /\ h.dst = pkt.src
        /\ Skip(h) = 0 /\ Shift(h) = 0 /\ buf[5] = pkt.dst /\ Two(buf, 5) = pkt.tr_id
    BY <2>1, <2>2, ReplyLeadDecoded
  <2>4. /\ MinHdrSize(h) = IF IsWrite(pkt.cmd) THEN 7 ELSE 11
        /\ HasLength(h) <=> ~IsWrite(pkt.cmd)
    <3>1. IF IsWrite(pkt.cmd) THEN pkt.cmd \in Writes /\ pkt.cmd \notin Reads
          ELSE pkt.cmd \in Reads /\ pkt.cmd \notin Writes
      BY <2>1, WriteBit
    <3>2. HasLength(h) <=> ~IsWrite(pkt.cmd)
      BY <2>3 DEF HasLength
    <3>3. ASSUME IsWrite(pkt.cmd) PROVE MinHdrSize(h) = 7
      <4>1. h.cmd \in Writes /\ h.cmd \notin Reads /\ h.resp # 1
        BY <2>3, <3>1, <3>3
      <4> HIDE DEF h
      <4>2. QED
        BY <4>1, SMT DEF MinHdrSize
    <3>4. ASSUME ~IsWrite(pkt.cmd) PROVE MinHdrSize(h) = 11
      <4>1. h.cmd \in Reads /\ h.cmd \notin Writes /\ h.resp # 1
        BY <2>3, <3>1, <3>4
      <4> HIDE DEF h
      <4>2. QED
        BY <4>1, SMT DEF MinHdrSize
    <3>5. QED
      BY <3>2, <3>3, <3>4
  <2>5. ASSUME R = Decoded(buf, h)
        PROVE  /\ R # Null /\ R.resp = 0 /\ R.cmd = pkt.cmd /\ R.tr_id = pkt.tr_id
               /\ R.dst = pkt.src /\ R.src = pkt.dst /\ R.rpath = <<>>
               /\ R.data = Take(buf, 12, DataSize(buf, h))
    <3>1. 5 + Skip(h) = 5 /\ 12 + Shift(h) = 12 /\ Take(buf, 4, Skip(h)) = <<>>
      BY <2>3 DEF Take
    <3>2. h.resp \in {0, 1}
      BY <2>3
    <3> HIDE DEF h, R
    <3>3. QED
      BY <2>3, <2>5, <3>1, <3>2, DecodedFields
  <2>6. CASE IsWrite(pkt.cmd)
    <3>1. Len(buf) = 8
      BY <2>1, <2>6, WriteReply DEF IsSeq
    <3>2. DataSize(buf, h) = 0
      BY <2>4, <2>6 DEF DataSize
    <3>3. ~DataTooShort(buf, h) /\ ~HdrTooShort(buf, h) /\ ~(MinHdrSize(h) < 0)
      BY <2>3, <2>4, <2>6, <3>1, <3>2 DEF DataTooShort, HdrTooShort
    <3>4. R = Decoded(buf, h)
      BY <2>3, <3>1, <3>3 DEF FromBuffer
    <3>5. Take(buf, 12, 0) = <<>>
      BY DEF Take
    <3> HIDE DEF R, h
    <3>6. QED
      BY <2>5, <2>6, <3>2, <3>4, <3>5 DEF ReplyDecoded, R
  <2>7. CASE ~IsWrite(pkt.cmd)
    <3>1. Len(buf) = SizeWith(11, m) /\ Holds(buf, 8, LengthField(pkt), 3) /\ DataIn(buf, 12, m)
      BY <2>1, <2>7, ReadReply DEF IsSeq
    <3>2. /\ buf[8 + 1] = Byte(m, 2) /\ buf[8 + 2] = Byte(m, 1) /\ buf[8 + 3] = Byte(m, 0)
      <4>1. /\ buf[8 + 1] = LengthField(pkt)[1] /\ buf[8 + 2] = LengthField(pkt)[2]
            /\ buf[8 + 3] = LengthField(pkt)[3]
        BY <3>1 DEF Holds
      <4>2. QED
        BY <2>1, <4>1, LengthBytes
    <3>3. DataSize(buf, h) = m
      <4>1. DataSize(buf, h) = Three(buf, 8)
        BY <2>3, <2>4, <2>7 DEF DataSize
      <4>2. Three(buf, 8) = (Byte(m, 2) * 256 + Byte(m, 1)) * 256 + Byte(m, 0)
        BY <3>2, Zenon DEF Two, Three
      <4>3. m <= MaxData
        BY <2>1 DEF IsCommand, Fits
      <4>4. QED
        BY <2>1, <4>1, <4>2, <4>3, ThreeBytes
    <3> HIDE DEF m
    <3>4. Len(buf) >= 12 /\ (m > 0 => Len(buf) >= 12 + m)
      BY <2>1, <3>1 DEF SizeWith
    <3>5. ~DataTooShort(buf, h) /\ ~HdrTooShort(buf, h) /\ ~(MinHdrSize(h) < 0)
      BY <2>1, <2>3, <2>4, <2>7, <3>3, <3>4 DEF DataTooShort, HdrTooShort
    <3>6. R = Decoded(buf, h)
      BY <2>3, <3>4, <3>5 DEF FromBuffer
    <3>7. Take(buf, 12, m) = Fill(m, DataByte)
      <4>1. \A k \in 1 .. m : m > 0
        BY <2>1
      <4>2. \A k \in 1 .. m : buf[12 + k] = DataByte
        BY <3>1, <4>1, Zenon DEF DataIn
      <4>3. QED
        BY <4>2 DEF Take, Fill
    <3> HIDE DEF R, h
    <3>8. QED
      BY <2>5, <2>7, <3>3, <3>6, <3>7 DEF ReplyDecoded, R, m
  <2>8. QED
    BY <2>6, <2>7
<1>2. QED
  BY <1>1, Invariant, PTL
=============================================================================
