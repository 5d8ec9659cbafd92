------------------------------- MODULE Framing -------------------------------
(***************************************************************************)
(* How net.c cuts the byte stream of one TCP connection into packets:      *)
(* recv_pus_packet, recv_fee_packet, recv_gresb_packet, recv_raw_packet,   *)
(* the command reader of rmap_net_to_spw, and recv_exact under them.       *)
(*                                                                         *)
(* A byte is its offset in the stream, so that the position alone tells    *)
(* which bytes were read; a packet is where it starts and how long it is.  *)
(* The five readers differ in the header they peek at, in the limit they   *)
(* put on its size field and in what they hand on.  TCP delivers what the  *)
(* peer wrote in segments of any size.                                     *)
(***************************************************************************)
EXTENDS Naturals, Sequences

CONSTANTS
    Modes,    \* the readers: "pus", "fee", "gresb", "raw" and "rmap"
    Hdr,      \* bytes of the header the reader peeks at
    MaxSize,  \* MAX_SPW_PACKET_SIZE
    Kinds,    \* what the peer of each reader sends: kind, size field and body
    MaxPkts   \* bound: packets the peer sends

Limited == {"gresb", "rmap"}     \* the readers that refuse an oversized packet
Sizes   == 0 .. MaxSize + 1

ASSUME ModesAssumption == Modes \subseteq {"pus", "fee", "gresb", "raw", "rmap"}
ASSUME HdrAssumption   == Hdr \in Nat \ {0} /\ MaxSize \in Nat /\ MaxPkts \in Nat
ASSUME KindsAssumption ==
    \A m \in Modes : Kinds[m] \subseteq [kind : {"data", "other", "read"}, decl : Sizes, body : Sizes]

VARIABLES
    mode,     \* the reader of the service, fixed by the options
    pkts,     \* packets the peer wrote, each with the offset it starts at
    wire,     \* bytes written that have not arrived
    queue,    \* bytes in the receive queue
    pos,      \* bytes read
    closing,  \* the peer has closed its end
    rpc,      \* reader: "idle", "exact" (in recv_exact) or "closed" (dropped)
    hdr,      \* the header peeked at
    got,      \* recv_exact: bytes so far
    late,     \* recv_exact: its 30 s deadline has passed
    out,      \* what was handed on: first byte and length of each packet
    cause     \* why the connection was dropped

stream == <<mode, pkts, wire, closing>>
vars   == <<stream, queue, pos, rpc, hdr, got, late, out, cause>>

NoHdr == [kind |-> "none", decl |-> 0]
Total == pos + queue + wire

Init ==
    /\ mode \in Modes
    /\ pkts = <<>> /\ wire = 0 /\ queue = 0 /\ pos = 0 /\ closing = FALSE
    /\ rpc = "idle" /\ hdr = NoHdr /\ got = 0 /\ late = FALSE
    /\ out = <<>> /\ cause = "none"

-----------------------------------------------------------------------------
\* The peer and the network.

PeerWrite ==
    /\ ~closing /\ Len(pkts) < MaxPkts
    /\ \E p \in Kinds[mode] :
          /\ pkts' = Append(pkts, [start |-> Total, kind |-> p.kind, decl |-> p.decl, body |-> p.body])
          /\ wire' = wire + Hdr + p.body
    /\ UNCHANGED <<mode, closing, queue, pos, rpc, hdr, got, late, out, cause>>

PeerClose ==
    /\ ~closing
    /\ closing' = TRUE
    /\ UNCHANGED <<mode, pkts, wire, queue, pos, rpc, hdr, got, late, out, cause>>

Segment ==
    /\ rpc # "closed"
    /\ \E n \in 1 .. wire : queue' = queue + n /\ wire' = wire - n
    /\ UNCHANGED <<mode, pkts, closing, pos, rpc, hdr, got, late, out, cause>>

Eof == closing /\ wire = 0 /\ queue = 0

-----------------------------------------------------------------------------
\* conn_drop, rmap_conn_drop
Drop(why) ==
    /\ rpc' = "closed" /\ cause' = why
    /\ UNCHANGED <<stream, queue, pos, hdr, got, late, out>>

\* What the peeked bytes mean: the header of the packet that starts there, or,
\* in the middle of one, anything.
HeadersAt(x) ==
    LET here == {k \in 1 .. Len(pkts) : pkts[k].start = x}
    IN  IF here = {} THEN [kind : {"data", "other", "read"}, decl : Sizes]
        ELSE {[kind |-> pkts[k].kind, decl |-> pkts[k].decl] : k \in here}

Framed(h) == mode # "raw" /\ ~(mode = "fee" /\ h.kind = "other")

\* recv(..., MSG_PEEK) gives what has arrived, at once.
PeekShort ==
    /\ rpc = "idle" /\ (queue > 0 \/ Eof)
    /\ queue < (IF mode = "raw" THEN 1 ELSE Hdr)
    /\ Drop(IF queue = 0 THEN "closed" ELSE "short")

Oversized_OffByOne(h) == mode \in Limited /\ h.decl > MaxSize + 1
Oversized(h) == mode \in Limited /\ h.decl > MaxSize

PeekOversized ==
    /\ rpc = "idle" /\ mode # "raw" /\ queue >= Hdr
    /\ \E h \in HeadersAt(pos) : Framed(h) /\ Oversized(h)
    /\ Drop("oversized")

PeekFramed_LargeIgnored ==
    /\ rpc = "idle" /\ mode # "raw" /\ queue >= Hdr
    /\ \E h \in HeadersAt(pos) :
          /\ Framed(h) /\ ~Oversized(h)
          /\ IF h.decl > MaxSize THEN UNCHANGED <<hdr, rpc, got, late>>
             ELSE hdr' = h /\ rpc' = "exact" /\ got' = 0 /\ late' = FALSE
    /\ UNCHANGED <<stream, queue, pos, out, cause>>

PeekFramed ==
    /\ rpc = "idle" /\ mode # "raw" /\ queue >= Hdr
    /\ \E h \in HeadersAt(pos) : Framed(h) /\ ~Oversized(h) /\ hdr' = h
    /\ rpc' = "exact" /\ got' = 0 /\ late' = FALSE
    /\ UNCHANGED <<stream, queue, pos, out, cause>>

\* recv_raw_packet: FIONREAD, then one recv() of that many bytes
RecvRaw ==
    /\ rpc = "idle" /\ queue > 0
    /\ \/ mode = "raw"
       \/ mode = "fee" /\ queue >= Hdr /\ \E h \in HeadersAt(pos) : ~Framed(h)
    /\ out'   = Append(out, <<pos, queue>>)
    /\ pos'   = pos + queue
    /\ queue' = 0
    /\ UNCHANGED <<stream, rpc, hdr, got, late, cause>>

-----------------------------------------------------------------------------
\* recv_exact

Needed_HeaderOnly(h) == h.decl
Needed(h) == Hdr + h.decl

Payload_AlwaysStripped(h, x) == <<x + Hdr, IF h.kind = "read" THEN 0 ELSE h.decl>>

\* What the reader hands on of the packet at x: PUS and FEE all of it, GRESB
\* and a pseudo-RMAP write what follows the header, a read nothing.
Payload(h, x) ==
    IF mode \in Limited THEN <<x + Hdr, IF h.kind = "read" THEN 0 ELSE h.decl>>
                        ELSE <<x, Needed(h)>>

Deadline ==
    /\ rpc = "exact" /\ ~late
    /\ late' = TRUE
    /\ UNCHANGED <<stream, queue, pos, rpc, hdr, got, out, cause>>

Piece == IF queue < Needed(hdr) - got THEN queue ELSE Needed(hdr) - got

\* One recv(); the deadline is looked at after it, complete or not.
RecvPiece ==
    /\ rpc = "exact" /\ queue > 0 /\ got < Needed(hdr)
    /\ pos'   = pos + Piece
    /\ queue' = queue - Piece
    /\ got'   = got + Piece
    /\ rpc'   = IF late THEN "closed" ELSE "exact"
    /\ cause' = IF late THEN "late" ELSE cause
    /\ UNCHANGED <<stream, hdr, late, out>>

\* SO_RCVTIMEO is as long as the deadline, and starts later.
RecvTimeout_NotSet == FALSE /\ UNCHANGED vars

RecvTimeout ==
    /\ rpc = "exact" /\ queue = 0 /\ got < Needed(hdr) /\ late /\ ~Eof
    /\ Drop("late")

RecvEof ==
    /\ rpc = "exact" /\ Eof /\ got < Needed(hdr)
    /\ Drop("closed")

RecvDone ==
    /\ rpc = "exact" /\ got = Needed(hdr)
    /\ rpc' = "idle"
    /\ out' = Append(out, Payload(hdr, pos - Needed(hdr)))
    /\ hdr' = NoHdr /\ got' = 0 /\ late' = FALSE
    /\ UNCHANGED <<stream, queue, pos, cause>>

-----------------------------------------------------------------------------
Read == \/ PeekShort \/ PeekOversized \/ PeekFramed \/ RecvRaw
        \/ RecvPiece \/ RecvTimeout \/ RecvEof \/ RecvDone

\* Everything was read and handed on, or the connection is gone.
Quiet == (rpc = "closed" \/ (rpc = "idle" /\ Total = pos)) /\ UNCHANGED vars

Next == PeerWrite \/ PeerClose \/ Segment \/ Deadline \/ Read \/ Quiet

Spec == Init /\ [][Next]_vars

\* poll_socket runs the handler of a readable descriptor, and time passes.
\* The network delivers what was written; the peer need not write or close.
FairSpec == Spec /\ WF_vars(Read) /\ WF_vars(Deadline) /\ WF_vars(Segment)

-----------------------------------------------------------------------------
\* Types; recv_exact never reads past the buffer it was given.
TypeOK ==
    /\ mode \in Modes
    /\ pkts \in Seq([start : Nat, kind : {"data", "other", "read"}, decl : Sizes, body : Sizes])
    /\ wire \in Nat /\ queue \in Nat /\ pos \in Nat /\ closing \in BOOLEAN
    /\ rpc \in {"idle", "exact", "closed"}
    /\ hdr \in [kind : {"data", "other", "read"}, decl : Sizes] \cup {NoHdr}
    /\ got \in 0 .. Needed(hdr)
    /\ late \in BOOLEAN
    /\ out \in Seq(Nat \X Nat)
    /\ cause \in {"none", "short", "oversized", "late", "closed"}

\* The reader frames all that the peer has sent.
OnlyFramed == mode # "raw" /\ \A k \in 1 .. Len(pkts) : pkts[k].kind # "other"

\* The k-th packet handed on is the k-th packet the peer wrote, whole and
\* nothing else, however TCP cut the stream (recv_pus_packet,
\* recv_gresb_packet, rmap_net_to_spw, and recv_fee_packet as long as the peer
\* sends FEE packets only).
InSync ==
    OnlyFramed =>
        /\ Len(out) <= Len(pkts)
        /\ \A k \in 1 .. Len(out) : out[k] = Payload(pkts[k], pkts[k].start)

\* where the last packet handed on ends
OutEnd == IF out = <<>> THEN 0 ELSE out[Len(out)][1] + out[Len(out)][2]

\* A reader that strips no header hands on every byte it has read, once and
\* in order, even when it has lost the packet boundaries (recv_raw_packet,
\* recv_fee_packet on other protocols).
Contiguous ==
    mode \notin Limited =>
        /\ \A k \in 1 .. Len(out) - 1 : out[k + 1][1] = out[k][1] + out[k][2]
        /\ out # <<>> => out[1][1] = 0
        /\ rpc = "idle" => OutEnd = pos

\* Nothing larger than MAX_SPW_PACKET_SIZE is handed on by the readers that
\* check (recv_gresb_packet, rmap_net_to_spw).
SizeRespected == mode \in Limited => \A k \in 1 .. Len(out) : out[k][2] <= MaxSize

\* Why these hold.  The packets lie end to end in the stream: Boundary(k) is
\* where the k-th ends and the next one begins, or will.
Boundary(k) == IF k < Len(pkts) THEN pkts[k + 1].start ELSE Total
HeaderOf(k) == [kind |-> pkts[k].kind, decl |-> pkts[k].decl]

StreamInv ==
    /\ Boundary(0) = 0
    /\ \A k \in 1 .. Len(pkts) : Boundary(k) = pkts[k].start + Hdr + pkts[k].body
    /\ \A j, k \in 1 .. Len(pkts) : j < k => pkts[j].start < pkts[k].start

\* recv_exact has read what it counts, for a packet the reader frames and does
\* not refuse.
ReaderInv ==
    rpc = "exact" =>
        /\ got <= pos /\ hdr # NoHdr /\ mode # "raw"
        /\ mode \in Limited => hdr.decl <= MaxSize

\* Between packets the reader stands where the next one begins, and in
\* recv_exact it holds the header of the packet it is in.
SyncInv ==
    OnlyFramed =>
        /\ rpc = "idle" => pos = Boundary(Len(out))
        /\ rpc = "exact" => /\ Len(out) < Len(pkts)
                            /\ hdr = HeaderOf(Len(out) + 1)
                            /\ pos = pkts[Len(out) + 1].start + got

\* What recv_exact has of the next packet follows what was handed on.
GaplessInv == (mode \notin Limited /\ rpc = "exact") => OutEnd + got = pos

\* The size field of every packet the peer may send says how long it is; only
\* the manual's read commands are otherwise (v_rmap_read.cfg).
SizesTrue == \A m \in Modes \ {"raw"} : \A p \in Kinds[m] : p.kind # "other" => p.body = p.decl

FramingInv == TypeOK /\ StreamInv /\ ReaderInv /\ GaplessInv /\ Contiguous /\ SizeRespected
FramedInv  == /\ InSync /\ SyncInv
              /\ OnlyFramed => \A k \in 1 .. Len(pkts) : pkts[k].body = pkts[k].decl

\* recv_exact returns: a peer that stops in the middle of a packet, or sends
\* it byte by byte, does not hold the poll thread of the service for ever
\* ("bound the whole transfer by the same deadline instead").
HandlerReturns == (rpc = "exact") ~> (rpc # "exact")

\* Every packet the peer wrote is read to its end and handed on, unless the
\* connection is dropped: no reader leaves bytes that have arrived for ever.
Handled == \A k \in 1 .. MaxPkts :
    Len(pkts) >= k ~>
        \/ rpc = "closed"
        \/ /\ rpc = "idle" /\ Len(pkts) >= k
           /\ pos >= pkts[k].start + Hdr + pkts[k].body

-----------------------------------------------------------------------------
\* What the documentation and the comments promise and the code does not keep.

\* recv_pus_packet: "pull in the whole packet, it may span multiple TCP
\* segments": a peer is dropped only if it closed, was late or sent too much.
SegmentsTolerated == cause # "short"
=============================================================================
