---------------------------- MODULE Framing_proofs ----------------------------
(***************************************************************************)
(* Proofs about Framing: for any header length, size limit, packets and    *)
(* segmentation of the stream no reader hands on a byte twice, leaves one  *)
(* out or exceeds its limit, and a reader whose peer keeps to the format   *)
(* hands on exactly the packets that were sent.                            *)
(***************************************************************************)
EXTENDS Framing, SequenceTheorems, TLAPS

Header == [kind : {"data", "other", "read"}, decl : Sizes]
Packet == [start : Nat, kind : {"data", "other", "read"}, decl : Sizes, body : Sizes]

\* What a reader can see of a header has a kind and a size.
LEMMA HeaderType ==
  ASSUME TypeOK, NEW h \in HeadersAt(pos)
  PROVE  h \in Header
<1>1. \A k \in 1 .. Len(pkts) : pkts[k] \in Packet
  BY ElementOfSeq DEF TypeOK, Packet
<1>2. QED
  BY <1>1 DEF HeadersAt, Header, Packet

\* Where the packets are.
LEMMA PacketType ==
  ASSUME TypeOK
  PROVE  /\ Len(pkts) \in Nat /\ Total \in Nat /\ Hdr \in Nat /\ Hdr > 0
         /\ \A k \in 1 .. Len(pkts) : /\ pkts[k].start \in Nat /\ pkts[k].decl \in Nat
                                      /\ pkts[k].body \in Nat
<1>1. pkts \in Seq(Packet)
  BY DEF TypeOK, Packet
<1>2. Len(pkts) \in Nat
  BY <1>1, LenProperties
<1>3. Total \in Nat
  BY DEF TypeOK, Total
<1>4. ASSUME NEW k \in 1 .. Len(pkts)
      PROVE  pkts[k].start \in Nat /\ pkts[k].decl \in Nat /\ pkts[k].body \in Nat
  <2>1. pkts[k] \in Packet
    BY <1>1, ElementOfSeq
  <2>2. pkts[k].start \in Nat /\ pkts[k].decl \in Sizes /\ pkts[k].body \in Sizes
    BY <2>1 DEF Packet
  <2>3. QED
    BY <2>2, HdrAssumption DEF Sizes
<1>5. QED
  BY <1>2, <1>3, <1>4, HdrAssumption

\* No header is not a header that was peeked at.
LEMMA NoHdrIsNone == NoHdr \notin Header
  BY DEF NoHdr, Header

\* How much recv_exact asks for.
LEMMA NeededType ==
  ASSUME TypeOK PROVE Needed(hdr) \in Nat /\ hdr.decl \in Nat /\ got \in Nat /\ got <= Needed(hdr)
<1>1. hdr.decl \in Nat
  BY HdrAssumption DEF TypeOK, NoHdr, Sizes
<1>2. QED
  BY <1>1, HdrAssumption DEF TypeOK, Needed

\* The piece recv() returns is something, and no more than was asked for.
LEMMA PieceType ==
  ASSUME TypeOK, RecvPiece
  PROVE  /\ Piece \in Nat /\ Piece > 0 /\ Piece <= queue /\ got + Piece <= Needed(hdr)
         /\ pos' = pos + Piece /\ queue' = queue - Piece /\ got' = got + Piece
<1>1. queue \in Nat /\ queue > 0 /\ got < Needed(hdr)
  BY DEF RecvPiece, TypeOK
<1>2. QED
  BY <1>1, NeededType DEF RecvPiece, Piece

\* PeerWrite puts one packet behind the others.
NewPacket(p) ==
  /\ p.kind \in {"data", "other", "read"} /\ p.decl \in Nat /\ p.body \in Nat
  /\ pkts' \in Seq(Packet) /\ Len(pkts') = Len(pkts) + 1
  /\ \A k \in 1 .. Len(pkts) : pkts'[k] = pkts[k]
  /\ pkts'[Len(pkts) + 1] = [start |-> Total, kind |-> p.kind, decl |-> p.decl, body |-> p.body]
  /\ wire' = wire + Hdr + p.body

\* A packet the peer writes begins where the stream ended.
LEMMA Written ==
  ASSUME TypeOK, PeerWrite
  PROVE  \E p \in Kinds[mode] : NewPacket(p)
<1>1. PICK p \in Kinds[mode] :
        /\ pkts' = Append(pkts, [start |-> Total, kind |-> p.kind, decl |-> p.decl, body |-> p.body])
        /\ wire' = wire + Hdr + p.body
  BY DEF PeerWrite
<1> DEFINE new == [start |-> Total, kind |-> p.kind, decl |-> p.decl, body |-> p.body]
<1>2. p.kind \in {"data", "other", "read"} /\ p.decl \in Sizes /\ p.body \in Sizes
  BY KindsAssumption DEF TypeOK
<1>3. Total \in Nat
  BY DEF TypeOK, Total
<1>4. new \in Packet
  BY <1>2, <1>3 DEF Packet
<1>5. pkts \in Seq(Packet)
  BY DEF TypeOK, Packet
<1>6. /\ Append(pkts, new) \in Seq(Packet) /\ Len(Append(pkts, new)) = Len(pkts) + 1
      /\ \A k \in 1 .. Len(pkts) : Append(pkts, new)[k] = pkts[k]
      /\ Append(pkts, new)[Len(pkts) + 1] = new
  BY <1>4, <1>5, AppendProperties
<1>7. p.decl \in Nat /\ p.body \in Nat
  BY <1>2, HdrAssumption DEF Sizes
<1>8. QED
  BY <1>1, <1>2, <1>6, <1>7 DEF NewPacket

\* What one more packet handed on does to out.
LEMMA HandedOn ==
  ASSUME TypeOK, NEW x \in Nat \X Nat, out' = Append(out, x)
  PROVE  /\ out' \in Seq(Nat \X Nat) /\ Len(out') = Len(out) + 1 /\ Len(out) \in Nat
         /\ \A k \in 1 .. Len(out) : out'[k] = out[k]
         /\ out'[Len(out) + 1] = x /\ out' # <<>>
<1>1. out \in Seq(Nat \X Nat)
  BY DEF TypeOK
<1>2. /\ out' \in Seq(Nat \X Nat) /\ Len(out') = Len(out) + 1 /\ Len(out) \in Nat
      /\ \A k \in 1 .. Len(out) : out'[k] = out[k]
      /\ out'[Len(out) + 1] = x
  BY <1>1, AppendProperties, LenProperties
<1>3. QED
  BY <1>2, EmptySeq

\* The packet recv_exact hands on is made of bytes that were read.
LEMMA DoneType ==
  ASSUME TypeOK, ReaderInv, RecvDone
  PROVE  /\ Needed(hdr) \in Nat /\ pos - Needed(hdr) \in Nat /\ hdr \in Header
         /\ Payload(hdr, pos - Needed(hdr)) \in Nat \X Nat
<1>1. Needed(hdr) \in Nat /\ pos \in Nat /\ got = Needed(hdr) /\ got <= pos
  BY NeededType DEF RecvDone, ReaderInv, TypeOK
<1>2. hdr \in Header /\ hdr.decl \in Nat
  BY NeededType DEF RecvDone, ReaderInv, TypeOK, Header
<1>3. QED
  BY <1>1, <1>2, HdrAssumption DEF Payload

\* The steps of the specification, one disjunct per action.
LEMMA NextCases ==
  ASSUME [Next]_vars
  PROVE  \/ PeerWrite \/ PeerClose \/ Segment \/ Deadline \/ UNCHANGED vars
         \/ PeekFramed \/ RecvRaw \/ RecvPiece \/ RecvDone
         \/ \E why \in {"short", "oversized", "late", "closed"} : Drop(why)
<1>1. ASSUME PeekShort \/ PeekOversized \/ RecvTimeout \/ RecvEof
      PROVE  \E why \in {"short", "oversized", "late", "closed"} : Drop(why)
  BY <1>1 DEF PeekShort, PeekOversized, RecvTimeout, RecvEof
<1>2. QED
  BY <1>1 DEF Next, Read, Quiet

\* No step leaves the types.
LEMMA TypeNext == TypeOK /\ ReaderInv /\ [Next]_vars => TypeOK'
<1> SUFFICES ASSUME TypeOK, ReaderInv, [Next]_vars PROVE TypeOK'
  OBVIOUS
<1> USE HdrAssumption
<1>1. CASE PeerWrite
  <2>a. PICK p \in Kinds[mode] : NewPacket(p)
    BY <1>1, Written
  <2>1. pkts' \in Seq(Packet) /\ wire' \in Nat
    BY <2>a DEF NewPacket, TypeOK
  <2>2. QED
    BY <1>1, <2>1 DEF PeerWrite, TypeOK, Packet
<1>2. CASE PeerClose
  BY <1>2 DEF PeerClose, TypeOK
<1>3. CASE Segment
  BY <1>3 DEF Segment, TypeOK
<1>4. CASE Deadline
  BY <1>4 DEF Deadline, TypeOK, stream
<1>5. CASE UNCHANGED vars
  BY <1>5 DEF vars, TypeOK, stream
<1>6. CASE PeekFramed
  <2>1. hdr' \in Header
    BY <1>6, HeaderType DEF PeekFramed
  <2>2. 0 \in 0 .. Needed(hdr')
    BY <2>1 DEF Needed, Header, Sizes
  <2>3. QED
    BY <1>6, <2>1, <2>2 DEF PeekFramed, TypeOK, stream, Header
<1>7. CASE RecvRaw
  <2>1. <<pos, queue>> \in Nat \X Nat
    BY DEF TypeOK
  <2>2. out' \in Seq(Nat \X Nat)
    BY <1>7, <2>1, HandedOn DEF RecvRaw
  <2>3. QED
    BY <1>7, <2>2 DEF RecvRaw, TypeOK, stream
<1>8. CASE RecvPiece
  <2>1. pos' \in Nat /\ queue' \in Nat /\ got' \in 0 .. Needed(hdr)
    BY <1>8, PieceType, NeededType DEF TypeOK
  <2>2. rpc' \in {"idle", "exact", "closed"} /\ cause' \in {"none", "short", "oversized", "late", "closed"}
    BY <1>8 DEF RecvPiece, TypeOK
  <2>3. QED
    BY <1>8, <2>1, <2>2 DEF RecvPiece, TypeOK, stream
<1>9. CASE RecvDone
  <2>1. out' \in Seq(Nat \X Nat)
    BY <1>9, DoneType, HandedOn DEF RecvDone
  <2>2. 0 \in 0 .. Needed(NoHdr)
    BY DEF Needed, NoHdr
  <2>3. QED
    BY <1>9, <2>1, <2>2 DEF RecvDone, TypeOK, stream
<1>10. ASSUME NEW why \in {"short", "oversized", "late", "closed"}, Drop(why) PROVE TypeOK'
  BY <1>10 DEF Drop, TypeOK, stream
<1>11. QED
  BY <1>1, <1>2, <1>3, <1>4, <1>5, <1>6, <1>7, <1>8, <1>9, <1>10, NextCases

\* Only the peer adds bytes to the stream.
LEMMA TotalKept ==
  ASSUME TypeOK, [Next]_vars, ~PeerWrite
  PROVE  Total' = Total /\ UNCHANGED <<pkts, mode>>
<1>1. CASE PeerClose \/ Deadline \/ UNCHANGED vars \/ PeekFramed \/ RecvDone
           \/ \E why \in {"short", "oversized", "late", "closed"} : Drop(why)
  BY <1>1 DEF PeerClose, Deadline, vars, stream, PeekFramed, RecvDone, Drop, Total
<1>2. CASE Segment
  BY <1>2 DEF Segment, TypeOK, Total
<1>3. CASE RecvRaw
  BY <1>3 DEF RecvRaw, TypeOK, Total, stream
<1>4. CASE RecvPiece
  <2>1. UNCHANGED <<pkts, mode, wire>>
    BY <1>4 DEF RecvPiece, stream
  <2>2. QED
    BY <1>4, <2>1, PieceType DEF TypeOK, Total
<1>5. QED
  BY <1>1, <1>2, <1>3, <1>4, NextCases

\* Packets lie end to end in the stream.
LEMMA StreamNext == TypeOK /\ StreamInv /\ [Next]_vars => StreamInv'
<1> SUFFICES ASSUME TypeOK, StreamInv, [Next]_vars PROVE StreamInv'
  OBVIOUS
<1>1. CASE PeerWrite
  <2>a. PICK p \in Kinds[mode] : NewPacket(p)
    BY <1>1, Written
  <2>1. /\ p.body \in Nat /\ wire' = wire + Hdr + p.body
        /\ Len(pkts') = Len(pkts) + 1
        /\ \A k \in 1 .. Len(pkts) : pkts'[k] = pkts[k]
        /\ pkts'[Len(pkts) + 1].start = Total /\ pkts'[Len(pkts) + 1].body = p.body
    BY <2>a DEF NewPacket
  <2>2. /\ Len(pkts) \in Nat /\ Total \in Nat /\ Hdr \in Nat /\ Hdr > 0
        /\ \A k \in 1 .. Len(pkts) : pkts[k].start \in Nat /\ pkts[k].body \in Nat
    BY PacketType
  <2>3. Total' = Total + Hdr + p.body
    BY <1>1, <2>1, <2>2 DEF PeerWrite, Total, TypeOK
  <2>4. \A k \in 0 .. Len(pkts) : Boundary(k)' = Boundary(k)
    BY <2>1, <2>2 DEF Boundary
  <2>5. \A k \in {Len(pkts) + 1} : Boundary(k)' = Total + Hdr + p.body
    BY <2>1, <2>2, <2>3 DEF Boundary
  <2>6. \A k \in 1 .. Len(pkts) : pkts[k].start < Total
    <3>1. SUFFICES ASSUME NEW k \in 1 .. Len(pkts) PROVE pkts[k].start < Total
      OBVIOUS
    <3>2. Boundary(Len(pkts)) = Total /\ Len(pkts) \in 1 .. Len(pkts)
      BY <2>2 DEF Boundary
    <3>a. Boundary(Len(pkts)) = pkts[Len(pkts)].start + Hdr + pkts[Len(pkts)].body
      BY <3>2 DEF StreamInv
    <3>3. pkts[Len(pkts)].start < Total
      BY <2>2, <3>2, <3>a
    <3>4. k < Len(pkts) => pkts[k].start < pkts[Len(pkts)].start
      BY <3>2 DEF StreamInv
    <3>5. QED
      BY <2>2, <3>2, <3>3, <3>4
  <2>7. Boundary(0)' = 0
    BY <2>2, <2>4 DEF StreamInv
  <2>8. ASSUME NEW k \in 1 .. Len(pkts')
        PROVE  Boundary(k)' = pkts'[k].start + Hdr + pkts'[k].body
    <3>1. CASE k \in 1 .. Len(pkts)
      <4>1. Boundary(k) = pkts[k].start + Hdr + pkts[k].body
        BY <3>1 DEF StreamInv
      <4>2. Boundary(k)' = Boundary(k) /\ pkts'[k] = pkts[k]
        BY <2>1, <2>2, <2>4, <3>1
      <4>3. QED
        BY <4>1, <4>2
    <3>2. CASE k = Len(pkts) + 1
      BY <2>1, <2>5, <3>2
    <3>3. QED
      BY <2>1, <2>2, <3>1, <3>2
  <2>9. ASSUME NEW j \in 1 .. Len(pkts'), NEW k \in 1 .. Len(pkts'), j < k
        PROVE  pkts'[j].start < pkts'[k].start
    <3>1. j \in 1 .. Len(pkts) /\ pkts'[j] = pkts[j]
      BY <2>1, <2>2, <2>9
    <3>2. CASE k \in 1 .. Len(pkts)
      <4>1. pkts[j].start < pkts[k].start
        BY <2>9, <3>1, <3>2 DEF StreamInv
      <4>2. QED
        BY <2>1, <3>1, <3>2, <4>1
    <3>3. CASE k = Len(pkts) + 1
      BY <2>1, <2>6, <3>1, <3>3
    <3>4. QED
      BY <2>1, <2>2, <3>2, <3>3
  <2>10. QED
    BY <2>7, <2>8, <2>9 DEF StreamInv
<1>2. CASE ~PeerWrite
  BY <1>2, TotalKept DEF StreamInv, Boundary
<1>3. QED
  BY <1>1, <1>2

\* recv_exact counts what it reads.
LEMMA ReaderNext == TypeOK /\ ReaderInv /\ [Next]_vars => ReaderInv'
<1> SUFFICES ASSUME TypeOK, ReaderInv, [Next]_vars PROVE ReaderInv'
  OBVIOUS
<1>1. CASE PeerWrite \/ PeerClose \/ Segment \/ Deadline \/ UNCHANGED vars
  BY <1>1 DEF PeerWrite, PeerClose, Segment, Deadline, vars, stream, ReaderInv
<1>2. CASE PeekFramed
  <2>1. /\ hdr' \in Header /\ got' = 0 /\ pos' = pos /\ mode' = mode /\ mode # "raw"
        /\ ~Oversized(hdr')
    BY <1>2, HeaderType DEF PeekFramed, stream
  <2>2. mode \in Limited => hdr'.decl <= MaxSize
    BY <2>1, HdrAssumption DEF Oversized, Header, Sizes
  <2>3. QED
    BY <2>1, <2>2, NoHdrIsNone DEF ReaderInv, TypeOK
<1>3. CASE RecvPiece
  <2>1. rpc = "exact" /\ UNCHANGED <<mode, hdr>>
    BY <1>3 DEF RecvPiece, stream
  <2>2. got' <= pos'
    BY <1>3, <2>1, PieceType, NeededType DEF TypeOK, ReaderInv
  <2>3. QED
    BY <2>1, <2>2 DEF ReaderInv
<1>4. CASE RecvRaw \/ RecvDone \/ \E why \in {"short", "oversized", "late", "closed"} : Drop(why)
  BY <1>4 DEF RecvRaw, RecvDone, Drop, ReaderInv
<1>5. QED
  BY <1>1, <1>2, <1>3, <1>4, NextCases

-----------------------------------------------------------------------------
\* No byte is left out or handed on twice, and the limit is kept.

\* The end of what was handed on is a place in the stream.
LEMMA OutEndType == ASSUME TypeOK PROVE OutEnd \in Nat
<1>1. out \in Seq(Nat \X Nat) /\ Len(out) \in Nat
  BY LenProperties DEF TypeOK
<1>2. CASE out = <<>>
  BY <1>2 DEF OutEnd
<1>3. CASE out # <<>>
  <2>1. Len(out) \in 1 .. Len(out)
    BY <1>1, <1>3, EmptySeq
  <2>2. out[Len(out)] \in Nat \X Nat
    BY <1>1, <2>1, ElementOfSeq
  <2>3. QED
    BY <1>3, <2>2 DEF OutEnd
<1>4. QED
  BY <1>2, <1>3

\* One more packet behind the others, when it starts where they end.
LEMMA Extended ==
  ASSUME TypeOK, Contiguous, mode \notin Limited, mode' = mode,
         NEW n \in Nat, out' = Append(out, <<OutEnd, n>>), OutEnd \in Nat, pos' = OutEnd + n
  PROVE  Contiguous' /\ OutEnd' = pos'
<1>1. <<OutEnd, n>> \in Nat \X Nat
  OBVIOUS
<1>2. /\ Len(out') = Len(out) + 1 /\ Len(out) \in Nat
      /\ \A k \in 1 .. Len(out) : out'[k] = out[k]
      /\ out'[Len(out) + 1] = <<OutEnd, n>> /\ out' # <<>>
  BY <1>1, HandedOn
<1>3. OutEnd' = OutEnd + n
  BY <1>2 DEF OutEnd
<1>4. out = <<>> <=> Len(out) = 0
  BY EmptySeq DEF TypeOK
<1>5. out'[1][1] = 0
  <2>1. CASE out = <<>>
    BY <1>2, <1>4, <2>1 DEF OutEnd
  <2>2. CASE out # <<>>
    <3>1. out[1][1] = 0
      BY <2>2 DEF Contiguous
    <3>2. 1 \in 1 .. Len(out)
      BY <1>2, <1>4, <2>2
    <3>3. QED
      BY <1>2, <3>1, <3>2
  <2>3. QED
    BY <2>1, <2>2
<1>6. ASSUME NEW k \in 1 .. Len(out') - 1
      PROVE  out'[k + 1][1] = out'[k][1] + out'[k][2]
  <2>1. CASE k + 1 \in 1 .. Len(out)
    <3>1. k \in 1 .. Len(out) - 1 /\ k \in 1 .. Len(out)
      BY <1>2, <2>1
    <3>2. out[k + 1][1] = out[k][1] + out[k][2]
      BY <3>1 DEF Contiguous
    <3>3. QED
      BY <1>2, <2>1, <3>1, <3>2
  <2>2. CASE k = Len(out)
    <3>1. out # <<>> /\ k \in 1 .. Len(out)
      BY <1>2, <1>4, <2>2
    <3>2. OutEnd = out[k][1] + out[k][2]
      BY <2>2, <3>1 DEF OutEnd
    <3>3. out'[k + 1] = <<OutEnd, n>> /\ out'[k] = out[k]
      BY <1>2, <2>2, <3>1
    <3>4. QED
      BY <3>2, <3>3
  <2>3. QED
    BY <1>2, <2>1, <2>2
<1>7. QED
  BY <1>3, <1>5, <1>6 DEF Contiguous

\* No step leaves a gap.
LEMMA GaplessNext ==
  TypeOK /\ ReaderInv /\ GaplessInv /\ Contiguous /\ [Next]_vars => GaplessInv' /\ Contiguous'
<1> SUFFICES ASSUME TypeOK, ReaderInv, GaplessInv, Contiguous, [Next]_vars
             PROVE  GaplessInv' /\ Contiguous'
  OBVIOUS
<1>1. CASE PeerWrite \/ PeerClose \/ Segment \/ Deadline \/ UNCHANGED vars
  BY <1>1 DEF PeerWrite, PeerClose, Segment, Deadline, vars, stream, GaplessInv, Contiguous, OutEnd
<1>2. CASE PeekFramed
  <2>1. rpc = "idle" /\ rpc' = "exact" /\ got' = 0 /\ UNCHANGED <<mode, pos, out>>
    BY <1>2 DEF PeekFramed, stream
  <2>2. Contiguous'
    BY <2>1 DEF Contiguous
  <2>3. mode \notin Limited => OutEnd = pos
    BY <2>1 DEF Contiguous
  <2>4. GaplessInv'
    BY <2>1, <2>3 DEF GaplessInv, OutEnd, TypeOK
  <2>5. QED
    BY <2>2, <2>4
<1>3. CASE RecvRaw
  <2>1. /\ rpc = "idle" /\ UNCHANGED <<mode, rpc>> /\ out' = Append(out, <<pos, queue>>)
        /\ pos' = pos + queue /\ mode \in {"raw", "fee"}
    BY <1>3 DEF RecvRaw, stream
  <2>2. mode \notin Limited
    BY <2>1 DEF Limited
  <2>3. OutEnd = pos
    BY <2>1, <2>2 DEF Contiguous
  <2>4. pos \in Nat /\ queue \in Nat
    BY DEF TypeOK
  <2>5. Contiguous'
    BY <2>1, <2>2, <2>3, <2>4, Extended
  <2>6. QED
    BY <2>1, <2>5 DEF GaplessInv
<1>4. CASE RecvPiece
  <2>1. rpc = "exact" /\ rpc' # "idle" /\ UNCHANGED <<mode, out>>
    BY <1>4 DEF RecvPiece, stream
  <2>2. Contiguous'
    BY <2>1 DEF Contiguous
  <2>3. pos' = pos + Piece /\ got' = got + Piece /\ Piece \in Nat /\ pos \in Nat /\ got \in Nat
    BY <1>4, PieceType, NeededType DEF TypeOK
  <2>4. mode \notin Limited => OutEnd + got = pos
    BY <2>1 DEF GaplessInv
  <2>5. OutEnd' = OutEnd /\ OutEnd \in Nat
    BY <2>1, OutEndType DEF OutEnd
  <2>6. mode \notin Limited => OutEnd' + got' = pos'
    BY <2>3, <2>4, <2>5
  <2>7. QED
    BY <2>1, <2>2, <2>6 DEF GaplessInv
<1>5. CASE RecvDone
  <2>1. rpc = "exact" /\ rpc' = "idle" /\ UNCHANGED <<mode, pos>> /\ got = Needed(hdr)
    BY <1>5 DEF RecvDone, stream
  <2>2. CASE mode \in Limited
    BY <2>1, <2>2 DEF Contiguous, GaplessInv
  <2>3. CASE mode \notin Limited
    <3>1. OutEnd + Needed(hdr) = pos
      BY <2>1, <2>3 DEF GaplessInv
    <3>2. OutEnd \in Nat /\ Needed(hdr) \in Nat
      BY OutEndType, NeededType
    <3>3. pos - Needed(hdr) = OutEnd
      BY <3>1, <3>2
    <3>4. out' = Append(out, <<OutEnd, Needed(hdr)>>)
      BY <1>5, <2>3, <3>3 DEF RecvDone, Payload
    <3>5. Contiguous'
      BY <2>1, <2>3, <3>1, <3>2, <3>4, Extended
    <3>6. QED
      BY <2>1, <3>5 DEF GaplessInv
  <2>4. QED
    BY <2>2, <2>3
<1>6. CASE \E why \in {"short", "oversized", "late", "closed"} : Drop(why)
  BY <1>6 DEF Drop, stream, GaplessInv, Contiguous
<1>7. QED
  BY <1>1, <1>2, <1>3, <1>4, <1>5, <1>6, NextCases

\* Only a whole packet that Oversized let pass is handed on by the two readers
\* with a limit.
LEMMA LimitNext == TypeOK /\ ReaderInv /\ SizeRespected /\ [Next]_vars => SizeRespected'
<1> SUFFICES ASSUME TypeOK, ReaderInv, SizeRespected, [Next]_vars, mode' \in Limited
             PROVE  \A k \in 1 .. Len(out') : out'[k][2] <= MaxSize
  BY DEF SizeRespected
<1>1. mode' = mode
  BY NextCases DEF PeerWrite, PeerClose, Segment, Deadline, vars, stream, PeekFramed, RecvRaw,
                   RecvPiece, RecvDone, Drop
<1>2. CASE RecvRaw
  BY <1>1, <1>2 DEF RecvRaw, Limited
<1>3. CASE RecvDone
  <2> DEFINE x == Payload(hdr, pos - Needed(hdr))
  <2>1. x \in Nat \X Nat /\ out' = Append(out, x)
    BY <1>3, DoneType DEF RecvDone
  <2>2. /\ Len(out') = Len(out) + 1 /\ Len(out) \in Nat /\ out'[Len(out) + 1] = x
        /\ \A k \in 1 .. Len(out) : out'[k] = out[k]
    BY <2>1, HandedOn
  <2>3. x[2] <= MaxSize
    <3>1. hdr.decl <= MaxSize /\ 0 <= MaxSize
      BY <1>1, <1>3, HdrAssumption DEF RecvDone, ReaderInv
    <3>2. x = <<pos - Needed(hdr) + Hdr, IF hdr.kind = "read" THEN 0 ELSE hdr.decl>>
      BY <1>1 DEF Payload
    <3>3. QED
      BY <3>1, <3>2
  <2>4. \A k \in 1 .. Len(out) : out[k][2] <= MaxSize
    BY <1>1 DEF SizeRespected
  <2>5. QED
    BY <2>2, <2>3, <2>4
<1>4. CASE UNCHANGED out
  BY <1>1, <1>4 DEF SizeRespected
<1>5. QED
  BY <1>2, <1>3, <1>4, NextCases DEF PeerWrite, PeerClose, Segment, Deadline, vars, PeekFramed,
                                     RecvPiece, Drop

\* The invariant holds on a new connection.
LEMMA FramingInit == Init => FramingInv
<1> SUFFICES ASSUME Init PROVE FramingInv
  OBVIOUS
<1>1. /\ pkts = <<>> /\ out = <<>> /\ Len(pkts) = 0 /\ Len(out) = 0 /\ wire = 0 /\ queue = 0
      /\ pos = 0 /\ got = 0 /\ rpc = "idle"
  BY EmptySeq DEF Init
<1>2. TypeOK
  <2>1. 0 \in 0 .. Needed(NoHdr)
    BY HdrAssumption DEF Needed, NoHdr
  <2>2. <<>> \in Seq(Packet) /\ <<>> \in Seq(Nat \X Nat)
    BY EmptySeq
  <2>3. QED
    BY <2>1, <2>2 DEF Init, TypeOK, Packet
<1>3. StreamInv
  BY <1>1 DEF StreamInv, Boundary, Total
<1>4. ReaderInv /\ GaplessInv
  BY <1>1 DEF ReaderInv, GaplessInv
<1>5. Contiguous /\ SizeRespected
  BY <1>1 DEF Contiguous, SizeRespected, OutEnd
<1>6. QED
  BY <1>2, <1>3, <1>4, <1>5 DEF FramingInv

\* No step of the peer, of the network or of the reader breaks it.
LEMMA FramingNext == FramingInv /\ [Next]_vars => FramingInv'
  BY TypeNext, StreamNext, ReaderNext, GaplessNext, LimitNext DEF FramingInv

\* Types: recv_exact never reads past the buffer it was given, for any header
\* length, limit and stream.
THEOREM WithinBuffer == Spec => []TypeOK
<1>1. Init => FramingInv
  BY FramingInit
<1>2. FramingInv /\ [Next]_vars => FramingInv'
  BY FramingNext
<1>3. FramingInv => TypeOK
  BY DEF FramingInv
<1>4. QED
  BY <1>1, <1>2, <1>3, PTL DEF Spec

\* recv_raw_packet, recv_pus_packet and recv_fee_packet hand on every byte
\* they have read, once and in order.
THEOREM NothingSkipped == Spec => []Contiguous
<1>1. Init => FramingInv
  BY FramingInit
<1>2. FramingInv /\ [Next]_vars => FramingInv'
  BY FramingNext
<1>3. FramingInv => Contiguous
  BY DEF FramingInv
<1>4. QED
  BY <1>1, <1>2, <1>3, PTL DEF Spec

\* recv_gresb_packet and rmap_net_to_spw hand on nothing larger than
\* MAX_SPW_PACKET_SIZE.
THEOREM LimitKept == Spec => []SizeRespected
<1>1. Init => FramingInv
  BY FramingInit
<1>2. FramingInv /\ [Next]_vars => FramingInv'
  BY FramingNext
<1>3. FramingInv => SizeRespected
  BY DEF FramingInv
<1>4. QED
  BY <1>1, <1>2, <1>3, PTL DEF Spec

-----------------------------------------------------------------------------
\* A peer that keeps to the format.

\* A packet written later ends no earlier one elsewhere.
LEMMA BoundaryKept ==
  ASSUME TypeOK, PeerWrite
  PROVE  \A k \in 0 .. Len(pkts) : Boundary(k)' = Boundary(k)
<1>1. PICK p \in Kinds[mode] : NewPacket(p)
  BY Written
<1>2. /\ Len(pkts') = Len(pkts) + 1 /\ pkts'[Len(pkts) + 1].start = Total
      /\ \A k \in 1 .. Len(pkts) : pkts'[k] = pkts[k]
  BY <1>1 DEF NewPacket
<1>3. QED
  BY <1>2, PacketType DEF Boundary

\* What was sent stays sent.
LEMMA FramedKept ==
  ASSUME TypeOK, [Next]_vars, OnlyFramed'
  PROVE  OnlyFramed /\ mode' = mode
<1>1. CASE PeerWrite
  <2>1. PICK p \in Kinds[mode] : NewPacket(p)
    BY <1>1, Written
  <2>2. mode' = mode
    BY <1>1 DEF PeerWrite
  <2>3. Len(pkts') = Len(pkts) + 1 /\ \A k \in 1 .. Len(pkts) : pkts'[k] = pkts[k]
    BY <2>1 DEF NewPacket
  <2>4. QED
    BY <2>2, <2>3, PacketType DEF OnlyFramed
<1>2. CASE ~PeerWrite
  BY <1>2, TotalKept DEF OnlyFramed
<1>3. QED
  BY <1>1, <1>2

\* A reader that is in step and finds a whole header finds that of the next
\* packet, and no other.
LEMMA HeaderHere ==
  ASSUME TypeOK, StreamInv, InSync, SyncInv, OnlyFramed, rpc = "idle", queue >= Hdr,
         NEW h \in HeadersAt(pos)
  PROVE  /\ Len(out) \in Nat /\ Len(out) < Len(pkts) /\ h = HeaderOf(Len(out) + 1)
         /\ pos = pkts[Len(out) + 1].start
<1> DEFINE n == Len(out) + 1
<1>1. /\ Len(out) \in Nat /\ Len(pkts) \in Nat /\ Len(out) <= Len(pkts)
      /\ pos = Boundary(Len(out))
  BY PacketType, LenProperties DEF InSync, SyncInv, TypeOK
<1>2. pos # Total
  BY PacketType DEF Total, TypeOK
<1>3. Len(out) < Len(pkts) /\ pos = pkts[n].start
  BY <1>1, <1>2 DEF Boundary
<1>4. n \in 1 .. Len(pkts)
  BY <1>1, <1>3
<1>5. ASSUME NEW k \in 1 .. Len(pkts), pkts[k].start = pos PROVE k = n
  <2>1. k < n => pkts[k].start < pkts[n].start
    BY <1>4 DEF StreamInv
  <2>2. n < k => pkts[n].start < pkts[k].start
    BY <1>4 DEF StreamInv
  <2>3. pos \in Nat /\ k \in Nat /\ n \in Nat
    BY <1>1 DEF TypeOK
  <2>4. QED
    BY <1>3, <1>5, <2>1, <2>2, <2>3
<1> DEFINE here == {k \in 1 .. Len(pkts) : pkts[k].start = pos}
<1>6. here = {n}
  BY <1>3, <1>4, <1>5
<1>7. h \in {[kind |-> pkts[k].kind, decl |-> pkts[k].decl] : k \in here}
  BY <1>6 DEF HeadersAt
<1>8. h = HeaderOf(n)
  BY <1>6, <1>7 DEF HeaderOf
<1>9. QED
  BY <1>1, <1>3, <1>8

\* Every packet of such a peer is as long as it says.
LEMMA BodiesNext ==
  ASSUME SizesTrue, TypeOK, [Next]_vars, OnlyFramed',
         \A k \in 1 .. Len(pkts) : pkts[k].body = pkts[k].decl
  PROVE  \A k \in 1 .. Len(pkts') : pkts'[k].body = pkts'[k].decl
<1>1. CASE PeerWrite
  <2>1. PICK p \in Kinds[mode] : NewPacket(p)
    BY <1>1, Written
  <2>2. /\ Len(pkts') = Len(pkts) + 1 /\ Len(pkts) \in Nat
        /\ \A k \in 1 .. Len(pkts) : pkts'[k] = pkts[k]
        /\ pkts'[Len(pkts) + 1].kind = p.kind /\ pkts'[Len(pkts) + 1].decl = p.decl
        /\ pkts'[Len(pkts) + 1].body = p.body
    BY <2>1, PacketType DEF NewPacket
  <2>3. mode \in Modes \ {"raw"} /\ p.kind # "other"
    BY <2>2, FramedKept DEF OnlyFramed, TypeOK
  <2>4. p.body = p.decl
    BY <2>3 DEF SizesTrue
  <2>5. QED
    BY <2>2, <2>4
<1>2. CASE ~PeerWrite
  BY <1>2, TotalKept
<1>3. QED
  BY <1>1, <1>2

\* recv_exact hands on the packet it is in, and stops where the next begins.
LEMMA DoneInSync ==
  ASSUME TypeOK, StreamInv, ReaderInv, InSync, SyncInv, OnlyFramed, RecvDone,
         \A k \in 1 .. Len(pkts) : pkts[k].body = pkts[k].decl
  PROVE  InSync' /\ SyncInv'
<1> DEFINE n == Len(out) + 1
           x == Payload(hdr, pos - Needed(hdr))
<1>1. /\ rpc = "exact" /\ rpc' = "idle" /\ got = Needed(hdr) /\ out' = Append(out, x)
      /\ UNCHANGED <<mode, pkts, wire, queue, pos>>
  BY DEF RecvDone, stream
<1>2. Len(out) < Len(pkts) /\ hdr = HeaderOf(n) /\ pos = pkts[n].start + got
  BY <1>1 DEF SyncInv
<1>3. x \in Nat \X Nat
  BY DoneType
<1>4. /\ Len(out') = n /\ Len(out) \in Nat /\ out'[n] = x
      /\ \A k \in 1 .. Len(out) : out'[k] = out[k]
  BY <1>1, <1>3, HandedOn
<1>5. Len(pkts) \in Nat /\ n \in 1 .. Len(pkts)
  BY <1>2, <1>4, PacketType
<1>6. /\ pkts[n].start \in Nat /\ pkts[n].decl \in Nat /\ Hdr \in Nat
      /\ pkts[n].body = pkts[n].decl
  BY <1>5, PacketType
<1>7. Needed(hdr) = Hdr + pkts[n].decl /\ hdr.decl = pkts[n].decl /\ hdr.kind = pkts[n].kind
  BY <1>2 DEF Needed, HeaderOf
<1>8. pos - Needed(hdr) = pkts[n].start
  BY <1>1, <1>2, <1>6, <1>7
<1>9. x = Payload(pkts[n], pkts[n].start)
  BY <1>7, <1>8 DEF Payload, Needed
<1>10. InSync'
  <2>1. ASSUME NEW k \in 1 .. Len(out') PROVE out'[k] = Payload(pkts[k], pkts[k].start)
    <3>1. CASE k \in 1 .. Len(out)
      BY <1>4, <3>1 DEF InSync
    <3>2. CASE k = n
      BY <1>4, <1>9, <3>2
    <3>3. QED
      BY <1>4, <3>1, <3>2
  <2>2. \A k \in 1 .. Len(out') : Payload(pkts[k], pkts[k].start)' = Payload(pkts[k], pkts[k].start)
    BY <1>1 DEF Payload, Needed
  <2>3. Len(out') <= Len(pkts')
    BY <1>1, <1>4, <1>5
  <2>4. QED
    BY <2>1, <2>2, <2>3 DEF InSync
<1>11. SyncInv'
  <2>1. Boundary(n) = pkts[n].start + Hdr + pkts[n].body
    BY <1>5 DEF StreamInv
  <2>2. pos = Boundary(n)
    BY <1>1, <1>2, <1>6, <1>7, <2>1
  <2>3. Boundary(Len(out))' = Boundary(n)
    BY <1>1, <1>4 DEF Boundary, Total
  <2>4. QED
    BY <1>1, <2>2, <2>3 DEF SyncInv
<1>12. QED
  BY <1>10, <1>11

\* A reader in step stays in step.
LEMMA FramedNext ==
  ASSUME SizesTrue, FramingInv, FramedInv, [Next]_vars
  PROVE  FramedInv'
<1> SUFFICES ASSUME OnlyFramed'
             PROVE  /\ InSync' /\ SyncInv'
                    /\ \A k \in 1 .. Len(pkts') : pkts'[k].body = pkts'[k].decl
  BY DEF FramedInv, InSync, SyncInv
<1>1. TypeOK /\ StreamInv /\ ReaderInv /\ InSync /\ SyncInv
  BY DEF FramingInv, FramedInv
<1>2. OnlyFramed /\ mode' = mode
  BY <1>1, FramedKept
<1>3. \A k \in 1 .. Len(pkts) : pkts[k].body = pkts[k].decl
  BY <1>2 DEF FramedInv
<1>4. \A k \in 1 .. Len(pkts') : pkts'[k].body = pkts'[k].decl
  BY <1>1, <1>3, BodiesNext
<1>5. Len(out) \in Nat /\ Len(pkts) \in Nat /\ Len(out) <= Len(pkts)
  BY <1>1, <1>2, PacketType, LenProperties DEF InSync, TypeOK
<1>6. ASSUME UNCHANGED <<out, pkts>> PROVE InSync'
  <2>1. \A k \in 1 .. Len(out) : Payload(pkts[k], pkts[k].start)' = Payload(pkts[k], pkts[k].start)
    BY <1>2, <1>6 DEF Payload, Needed
  <2>2. QED
    BY <1>1, <1>2, <1>6, <2>1 DEF InSync
<1>7. CASE PeerWrite
  <2>1. PICK p \in Kinds[mode] : NewPacket(p)
    BY <1>1, <1>7, Written
  <2>2. Len(pkts') = Len(pkts) + 1 /\ \A k \in 1 .. Len(pkts) : pkts'[k] = pkts[k]
    BY <2>1 DEF NewPacket
  <2>3. UNCHANGED <<out, pos, rpc, hdr, got>>
    BY <1>7 DEF PeerWrite
  <2>4. InSync'
    <3>1. ASSUME NEW k \in 1 .. Len(out)
          PROVE  Payload(pkts[k], pkts[k].start)' = Payload(pkts[k], pkts[k].start)
      BY <1>2, <1>5, <2>2 DEF Payload, Needed
    <3>2. QED
      BY <1>1, <1>2, <1>5, <2>2, <2>3, <3>1 DEF InSync
  <2>5. SyncInv'
    <3>1. ASSUME rpc' = "idle" PROVE pos' = Boundary(Len(out))'
      <4>1. pos = Boundary(Len(out))
        BY <1>1, <1>2, <2>3, <3>1 DEF SyncInv
      <4>2. Len(out)' = Len(out) /\ Len(out) \in 0 .. Len(pkts)
        BY <1>5, <2>3
      <4>3. \A k \in 0 .. Len(pkts) : Boundary(k)' = Boundary(k)
        BY <1>1, <1>7, BoundaryKept
      <4>4. Boundary(Len(out))' = Boundary(Len(out))
        BY <4>2, <4>3 DEF Boundary
      <4>5. QED
        BY <2>3, <4>1, <4>4
    <3>2. ASSUME rpc' = "exact"
          PROVE  /\ Len(out') < Len(pkts') /\ hdr' = HeaderOf(Len(out) + 1)'
                 /\ pos' = pkts'[Len(out') + 1].start + got'
      <4>1. /\ Len(out) < Len(pkts) /\ hdr = HeaderOf(Len(out) + 1)
            /\ pos = pkts[Len(out) + 1].start + got
        BY <1>1, <1>2, <2>3, <3>2 DEF SyncInv
      <4>2. pkts'[Len(out) + 1] = pkts[Len(out) + 1] /\ Len(out) < Len(pkts')
        BY <1>5, <2>2, <4>1
      <4>3. QED
        BY <2>3, <4>1, <4>2 DEF HeaderOf
    <3>3. QED
      BY <3>1, <3>2 DEF SyncInv
  <2>6. QED
    BY <1>4, <2>4, <2>5
<1>8. CASE PeerClose \/ Segment \/ Deadline \/ UNCHANGED vars
           \/ \E why \in {"short", "oversized", "late", "closed"} : Drop(why)
  <2>1. /\ UNCHANGED <<out, pkts, mode, pos, hdr, got>> /\ (rpc' = rpc \/ rpc' = "closed")
    BY <1>8 DEF PeerClose, Segment, Deadline, vars, stream, Drop
  <2>2. ~PeerWrite
    <3>1. ASSUME NEW p, NewPacket(p) PROVE FALSE
      BY <1>5, <2>1, <3>1 DEF NewPacket
    <3>2. QED
      BY <1>1, <3>1, Written
  <2>3. Total' = Total
    BY <1>1, <2>2, TotalKept
  <2>4. SyncInv'
    BY <1>1, <2>1, <2>3 DEF SyncInv, OnlyFramed, HeaderOf, Boundary
  <2>5. QED
    BY <1>4, <1>6, <2>1, <2>4
<1>9. CASE PeekFramed
  <2>1. /\ rpc = "idle" /\ queue >= Hdr /\ rpc' = "exact" /\ got' = 0 /\ hdr' \in HeadersAt(pos)
        /\ UNCHANGED <<pkts, pos, out>>
    BY <1>9 DEF PeekFramed, stream
  <2>2. /\ Len(out) < Len(pkts) /\ hdr' = HeaderOf(Len(out) + 1)
        /\ pos = pkts[Len(out) + 1].start
    BY <1>1, <1>2, <2>1, HeaderHere
  <2>3. pos \in Nat
    BY <1>1 DEF TypeOK
  <2>4. SyncInv'
    BY <2>1, <2>2, <2>3 DEF SyncInv, HeaderOf
  <2>5. QED
    BY <1>4, <1>6, <2>1, <2>4
<1>10. CASE RecvRaw
  <2>1. rpc = "idle" /\ mode # "raw"
    BY <1>2, <1>10 DEF RecvRaw, OnlyFramed
  <2>2. PICK h \in HeadersAt(pos) : ~Framed(h) /\ queue >= Hdr
    BY <1>10, <2>1 DEF RecvRaw
  <2>3. Len(out) < Len(pkts) /\ h = HeaderOf(Len(out) + 1)
    BY <1>1, <1>2, <2>1, <2>2, HeaderHere
  <2>4. h.kind # "other"
    BY <1>2, <1>5, <2>3 DEF HeaderOf, OnlyFramed
  <2>5. QED
    BY <2>1, <2>2, <2>4 DEF Framed
<1>11. CASE RecvPiece
  <2>1. rpc = "exact" /\ rpc' # "idle" /\ UNCHANGED <<pkts, out, hdr>>
    BY <1>11 DEF RecvPiece, stream
  <2>2. /\ Len(out) < Len(pkts) /\ hdr = HeaderOf(Len(out) + 1)
        /\ pos = pkts[Len(out) + 1].start + got
    BY <1>1, <1>2, <2>1 DEF SyncInv
  <2>3. pkts[Len(out) + 1].start \in Nat
    BY <1>1, <1>5, <2>2, PacketType
  <2>4. pos' = pkts[Len(out) + 1].start + got'
    BY <1>1, <1>11, <2>2, <2>3, PieceType, NeededType
  <2>5. SyncInv'
    BY <2>1, <2>2, <2>4 DEF SyncInv, HeaderOf
  <2>6. QED
    BY <1>4, <1>6, <2>1, <2>5
<1>12. CASE RecvDone
  BY <1>1, <1>2, <1>3, <1>4, <1>12, DoneInSync
<1>13. QED
  BY <1>7, <1>8, <1>9, <1>10, <1>11, <1>12, NextCases

\* The invariant of the framed readers holds on a new connection.
LEMMA FramedInit == Init => FramedInv
<1> SUFFICES ASSUME Init PROVE FramedInv
  OBVIOUS
<1>1. Len(pkts) = 0 /\ Len(out) = 0 /\ rpc = "idle" /\ pos = 0 /\ queue = 0 /\ wire = 0
  BY EmptySeq DEF Init
<1>2. QED
  BY <1>1 DEF FramedInv, InSync, SyncInv, Boundary, Total

\* Whatever TCP makes of the stream, the k-th packet that recv_pus_packet,
\* recv_gresb_packet, rmap_net_to_spw or (as long as the peer sends FEE packets
\* only) recv_fee_packet hands on is the k-th packet sent, provided the size
\* fields tell the sizes.
THEOREM PacketsAsSent == SizesTrue => (Spec => []InSync)
<1> SUFFICES ASSUME SizesTrue PROVE Spec => []InSync
  OBVIOUS
<1>1. Init => FramingInv /\ FramedInv
  BY FramingInit, FramedInit
<1>2. FramingInv /\ FramedInv /\ [Next]_vars => (FramingInv /\ FramedInv)'
  BY FramingNext, FramedNext
<1>3. FramingInv /\ FramedInv => InSync
  BY DEF FramedInv
<1>4. QED
  BY <1>1, <1>2, <1>3, PTL DEF Spec
=============================================================================
