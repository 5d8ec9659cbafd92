--------------------------------- MODULE Rmap ---------------------------------
(***************************************************************************)
(* The RMAP packets of rmap.c on their way: a packet is put together with  *)
(* the setters and rmap_build_hdr, crosses the SpW link (which takes the   *)
(* path off and may cut the packet short), is decoded by                   *)
(* rmap_pkt_from_buffer (-E) and by rmap_parse_pkt (the log), and a target *)
(* replies with a packet that rmap_reply_to_clients turns into a record    *)
(* of the pseudo-RMAP port.  A buffer is a sequence of bytes; C's buf[k]   *)
(* is At(k).                                                               *)
(***************************************************************************)
EXTENDS Integers, Sequences

CONSTANTS
    Codes,      \* command codes handed to rmap_set_cmd
    PathLens,   \* lengths handed to rmap_set_dest_path
    RpathLens,  \* lengths handed to rmap_set_reply_path
    DataLens,   \* lengths handed to rmap_set_data_len
    Addrs,      \* addresses handed to rmap_set_data_addr
    Cuts        \* bytes the link may cut off at the end

InFourBytes(a) == a \div 16777216 < 256

ASSUME RmapAssumption == /\ Codes \subseteq 0 .. 255 /\ PathLens \subseteq 0 .. 255
                         /\ RpathLens \subseteq 0 .. 255 /\ DataLens \subseteq Nat
                         /\ Addrs \subseteq Nat /\ Cuts \subseteq Nat
                         /\ \A a \in Addrs : InFourBytes(a)    \* uint32_t

VARIABLES
    stage,  \* "setup", "link", "reply"
    pkt,    \* struct rmap_pkt
    set,    \* which setters have run
    buf,    \* the bytes that arrive
    cut     \* some of them are missing

vars == <<stage, pkt, set, buf, cut>>

-----------------------------------------------------------------------------
ProtocolId == 1
MaxPath    == 15     \* RMAP_MAX_PATH_LEN
MaxRpath   == 12     \* RMAP_MAX_REPLY_PATH_LEN
MaxData    == 16777215
MaxId      == 65535   \* uint16_t
HdrCrc     == 201    \* the bytes the link library puts where the CRCs go
DataCrc    == 202
DataByte   == 170
Null       == [resp |-> -1]

Reads  == {2, 3, 7}         \* RMAP_READ_*, RMAP_READ_MODIFY_WRITE_ADDR_INC
Writes == 8 .. 15           \* RMAP_WRITE_*
ValidCmd(c)   == c \in Reads \cup Writes
IsWrite(c)    == (c \div 8) % 2 = 1
HasLength(p)  == p.resp = 1 \/ ~IsWrite(p.cmd)
Byte(x, k)    == (x \div (256 ^ k)) % 256
Fill(n, b)    == [k \in 1 .. n |-> b]

MinHdrSize_ReplyAsCommand(p) ==
    CASE p.cmd \in Reads  -> 15
      [] p.cmd \in Writes -> IF p.resp = 1 THEN 15 ELSE 7
      [] OTHER            -> -1

MinHdrSize(p) ==
    CASE p.cmd \in Reads  -> IF p.resp = 1 THEN 15 ELSE 11
      [] p.cmd \in Writes -> IF p.resp = 1 THEN 15 ELSE 7
      [] OTHER            -> -1

Instruction(p) == p.resp * 64 + p.cmd * 4 + p.rlen

\* rmap_build_hdr with no buffer: the size to allocate
HdrSize(p) == MinHdrSize(p) + Len(p.path) + Len(p.rpath)

LengthField_TwoBytes(p) == <<Byte(p.data_len, 1), Byte(p.data_len, 0)>>
LengthField(p) == <<Byte(p.data_len, 2), Byte(p.data_len, 1), Byte(p.data_len, 0)>>

AddrField(p) ==
    CASE p.resp = 1 -> <<0>> \o [k \in 1 .. 4 |-> Byte(p.addr, 4 - k)]
      [] p.resp = 0 /\ IsWrite(p.cmd)  -> <<>>
      [] p.resp = 0 /\ ~IsWrite(p.cmd) -> <<0>>

BuildHdr(p) ==
    p.path \o <<p.dst, p.proto, Instruction(p), p.key>> \o p.rpath
           \o <<p.src, Byte(p.tr_id, 1), Byte(p.tr_id, 0)>>
           \o AddrField(p) \o (IF HasLength(p) THEN LengthField(p) ELSE <<>>)

-----------------------------------------------------------------------------
\* rmap_pkt_from_buffer

Take(b, from, n) == [k \in 1 .. n |-> b[from + k]]

\* the number in the two, three or four bytes behind the first k
Two(b, k)   == b[k + 1] * 256 + b[k + 2]
Three(b, k) == Two(b, k) * 256 + b[k + 3]
Four(b, k)  == Three(b, k) * 256 + b[k + 4]

\* the header fields that do not depend on the reply path
Lead(b) == [dst |-> b[1], proto |-> b[2], resp |-> (b[3] \div 64) % 2,
            cmd |-> (b[3] \div 4) % 16, rlen |-> b[3] % 4, key |-> b[4]]

\* offset of the reply path's end, from where the other fields count
Skip(h) == IF h.resp = 1 THEN h.rlen * 4 ELSE 0

\* offset added to RMAP_DATALEN and RMAP_DATA_START
Shift(h) == Skip(h) + (IF h.resp = 1 THEN 4 ELSE 0)

HdrTooShort(b, h) == Len(b) < MinHdrSize(h) + Skip(h)

\* "all headers have data length unless they are a write reply"
DataSize(b, h) == IF HasLength(h) THEN Three(b, 8 + Shift(h)) ELSE 0

DataTooShort(b, h) == DataSize(b, h) > 0 /\ Len(b) < 12 + Shift(h) + DataSize(b, h)

Decoded(b, h) ==
    LET size == DataSize(b, h)
        end  == 12 + Shift(h) + size
    IN  [dst |-> h.dst, proto |-> h.proto, resp |-> h.resp, cmd |-> h.cmd,
         rlen |-> h.rlen, key |-> h.key,
         rpath |-> Take(b, 4, Skip(h)),
         src   |-> b[5 + Skip(h)],
         tr_id |-> Two(b, 5 + Skip(h)),
         addr  |-> IF h.resp = 1 THEN Four(b, 8 + Skip(h)) ELSE 0,
         data_len |-> size,
         data     |-> Take(b, 12 + Shift(h), size),
         hdr_crc  |-> IF Len(b) > 11 THEN b[11 + 1] ELSE 0,
         data_crc |-> IF size > 0 /\ Len(b) > end THEN b[end + 1] ELSE 0]

FromBuffer(b) ==
    IF Len(b) < 7 \/ b[2] # ProtocolId THEN Null
    ELSE LET h == Lead(b)
         IN  IF MinHdrSize(h) < 0 \/ HdrTooShort(b, h) \/ DataTooShort(b, h) THEN Null
             ELSE Decoded(b, h)

-----------------------------------------------------------------------------
\* rmap_parse_pkt and the functions under it: the offsets of the bytes printed

Data(b, off, size) ==
    off .. off + (IF size > Len(b) - off THEN Len(b) - off ELSE size) - 1

CmdTooShort_NoCrc(b, h) == Len(b) < 11 + Skip(h)
CmdTooShort(b, h) == Len(b) < 12 + 4 + Skip(h)

ParsedCmd(b, h) ==
    IF CmdTooShort(b, h) \/ ~ValidCmd(h.cmd) THEN {}
    ELSE LET start == 12 + 4 + Skip(h)
         IN  (8 + Skip(h) .. 14 + Skip(h)) \cup
             (IF h.cmd \in {2, 3} \/ Len(b) <= start THEN {}
              ELSE Data(b, start, Three(b, 12 + Skip(h))))

ParsedReply(b, h) ==
    IF Len(b) < 8 \/ h.key # 0 \/ h.cmd \notin Reads \/ Len(b) < 11 THEN {}
    ELSE (8 .. 10) \cup (IF Len(b) <= 12 THEN {} ELSE Data(b, 12, Three(b, 8)))

ParsedOffsets(b) ==
    IF Len(b) < 4 \/ b[2] # ProtocolId THEN {}
    ELSE LET h == Lead(b) IN IF h.resp = 1 THEN ParsedCmd(b, h) ELSE ParsedReply(b, h)

-----------------------------------------------------------------------------
\* rmap_reply_to_clients: a ten-byte header with the length of the data ...
Announced(p) == p.data_len
\* ... and what is allocated and sent behind it, "data only on write"
Sent(p) == IF IsWrite(p.cmd) THEN p.data ELSE <<>>

-----------------------------------------------------------------------------
\* rmap_create_packet: "initialises protocol id to 1 and all others to 0"
NewPkt == [path |-> <<>>, rpath |-> <<>>, dst |-> 0, proto |-> ProtocolId, resp |-> 0, cmd |-> 0,
           rlen |-> 0, key |-> 0, src |-> 0, tr_id |-> 0, addr |-> 0, data_len |-> 0]

Init == stage = "setup" /\ pkt = NewPkt /\ set = {} /\ buf = <<>> /\ cut = FALSE

Setter(name) == stage = "setup" /\ name \notin set /\ set' = set \cup {name}
                /\ UNCHANGED <<stage, buf, cut>>

\* an error (-1) leaves the packet as it is
SetCmd == /\ Setter("cmd")
          /\ \E c \in Codes : pkt' = IF ValidCmd(c) THEN [pkt EXCEPT !.cmd = c, !.resp = 1] ELSE pkt

SetDestPath == /\ Setter("path")
               /\ \E n \in PathLens : pkt' = IF n > MaxPath THEN pkt ELSE [pkt EXCEPT !.path = Fill(n, 5)]

\* the instruction counts the reply path in words of four
RpathRefused_AnyLength(n) == n > MaxRpath
RpathRefused(n) == n > MaxRpath \/ n % 4 # 0
SetReplyPath ==
    /\ Setter("rpath")
    /\ \E n \in RpathLens :
          pkt' = IF RpathRefused(n) THEN pkt
                 ELSE [pkt EXCEPT !.rpath = Fill(n, 6), !.rlen = n \div 4]

SetDataLen == /\ Setter("len")
              /\ \E n \in DataLens : pkt' = IF n > MaxData THEN pkt ELSE [pkt EXCEPT !.data_len = n]

\* rmap_set_data_addr, rmap_set_dst, rmap_set_src, rmap_set_key, rmap_set_tr_id
SetFields ==
    /\ Setter("fields")
    /\ \E a \in Addrs :
          pkt' = [pkt EXCEPT !.addr = a, !.dst = 254, !.src = 48, !.key = 171, !.tr_id = 515]

\* Of the commands only a write and a read-modify-write carry data.
Carried(p) == IF p.cmd \in {2, 3} THEN 0 ELSE p.data_len
WithData(hdr, n) == hdr \o <<HdrCrc>> \o (IF n > 0 THEN Append(Fill(n, DataByte), DataCrc) ELSE <<>>)

\* What arrives of a command: the path is gone.
CommandOf(p) == WithData(SubSeq(BuildHdr(p), Len(p.path) + 1, HdrSize(p)), Carried(p))

Transmit ==
    /\ stage = "setup" /\ pkt.resp = 1
    /\ \E n \in Cuts : /\ n <= Len(CommandOf(pkt))
                      /\ buf' = SubSeq(CommandOf(pkt), 1, Len(CommandOf(pkt)) - n)
                      /\ cut' = (n > 0)
    /\ stage' = "link"
    /\ UNCHANGED <<pkt, set>>

\* The target (external) answers a read with the data, a write with a status.
ReplyLead(p) == <<p.src, ProtocolId, p.cmd * 4 + p.rlen, 0, p.dst, Byte(p.tr_id, 1), Byte(p.tr_id, 0)>>
ReplyOf(p)   == IF IsWrite(p.cmd) THEN WithData(ReplyLead(p), 0)
                ELSE WithData(ReplyLead(p) \o <<0>> \o LengthField(p), p.data_len)

Reply ==
    /\ stage = "link" /\ ~cut
    /\ buf' = ReplyOf(pkt)
    /\ stage' = "reply"
    /\ UNCHANGED <<pkt, set, cut>>

Next == \/ SetCmd \/ SetDestPath \/ SetReplyPath \/ SetDataLen \/ SetFields
        \/ Transmit \/ Reply

Spec == Init /\ [][Next]_vars

-----------------------------------------------------------------------------
\* rmap_build_hdr writes exactly as many bytes as it told the caller to
\* allocate once rmap_set_cmd has accepted a command, and only then: before
\* that, or after a refused code, more than it told (see SizeOrError).
SizeAgrees ==
    /\ ValidCmd(pkt.cmd)  => Len(BuildHdr(pkt)) = HdrSize(pkt)
    /\ ~ValidCmd(pkt.cmd) => Len(BuildHdr(pkt)) > HdrSize(pkt)

\* rmap_pkt_from_buffer recovers from the bytes of a command that carries its
\* data every field the setters put in, with any reply path.
RoundTrip ==
    (stage = "link" /\ ~cut /\ Carried(pkt) = pkt.data_len) =>
        LET r == FromBuffer(buf)
        IN  /\ r # Null
            /\ r.dst = pkt.dst /\ r.cmd = pkt.cmd /\ r.key = pkt.key /\ r.src = pkt.src
            /\ r.rpath = pkt.rpath /\ r.tr_id = pkt.tr_id /\ r.addr = pkt.addr
            /\ r.data = Fill(pkt.data_len, DataByte)
            /\ pkt.data_len > 0 => r.data_crc = DataCrc

\* The reply of a target decodes to the transaction it answers.
ReplyDecoded ==
    stage = "reply" =>
        LET r == FromBuffer(buf)
        IN  /\ r # Null /\ r.resp = 0 /\ r.cmd = pkt.cmd /\ r.tr_id = pkt.tr_id
            /\ r.dst = pkt.src /\ r.src = pkt.dst /\ r.rpath = <<>>
            /\ r.data = IF IsWrite(pkt.cmd) THEN <<>> ELSE Fill(pkt.data_len, DataByte)

\* A packet that lost its end on the link is never decoded into more data
\* than arrived, and rmap_parse_pkt prints only bytes that arrived.
WithinBuffer ==
    /\ \A k \in ParsedOffsets(buf) : k < Len(buf)
    /\ LET r == FromBuffer(buf)
       IN  (stage = "link" /\ r # Null) =>
               /\ r.rpath = pkt.rpath /\ r.addr = pkt.addr
               /\ r.data_len > 0 => 16 + Len(pkt.rpath) + r.data_len <= Len(buf)

-----------------------------------------------------------------------------
\* Why these hold: the setters keep every field in its width and the reply path
\* in step with the instruction, and the bytes that arrive are those that the
\* fields make, less what was cut off.

Octet   == 0 .. 255
PktType == [path : Seq(Octet), rpath : Seq(Octet), dst : Octet, proto : {ProtocolId},
            resp : {0, 1}, cmd : 0 .. 15, rlen : 0 .. 3, key : Octet, src : Octet,
            tr_id : Nat, addr : Nat, data_len : Nat]

\* numbers that fit in their bytes, and a reply path of rlen words
Fits(p) == /\ p.tr_id <= MaxId /\ p.data_len <= MaxData /\ InFourBytes(p.addr)
           /\ Len(p.rpath) = 4 * p.rlen

FieldsInv ==
    /\ pkt \in PktType /\ Fits(pkt)
    /\ IF pkt.resp = 1 THEN ValidCmd(pkt.cmd) ELSE pkt.cmd = 0

CutFrom(n) == /\ n <= Len(CommandOf(pkt))
              /\ buf = SubSeq(CommandOf(pkt), 1, Len(CommandOf(pkt)) - n)
              /\ cut <=> n > 0

RmapInv ==
    /\ FieldsInv
    /\ stage \in {"setup", "link", "reply"}
    /\ stage # "setup" => pkt.resp = 1
    /\ stage = "setup" => buf = <<>>
    /\ stage = "link" => \E n \in Cuts : CutFrom(n)
    /\ stage = "reply" => buf = ReplyOf(pkt)

-----------------------------------------------------------------------------
\* What the documentation promises and the code does not keep.

\* rmap.c, rmap_build_hdr: "-1 on error, size of header otherwise".  The -1 of
\* rmap_get_min_hdr_size is added to the path lengths, and the sum returned.
SizeOrError == HdrSize(pkt) \in {-1, Len(BuildHdr(pkt))}

\* README.md: "-E" decodes the packets of monitor mode as RMAP, "CMD/REPLY,
\* WRITE/READ": a read command is decoded, too.
ReadDecoded == (stage = "link" /\ ~cut) => FromBuffer(buf) # Null

\* um/usermanual.tex: hdr_crc is the CRC "carried by the packet".
HdrCrcDecoded == LET r == FromBuffer(buf)
                 IN  (stage \in {"link", "reply"} /\ ~cut /\ r # Null) => r.hdr_crc = HdrCrc

\* um/usermanual.tex: replies are forwarded "in the same ten-byte-plus-data
\* format": what is announced follows.
ReplyCarriesData == LET r == FromBuffer(buf)
                    IN  (stage = "reply" /\ r # Null) => Len(Sent(r)) = Announced(r)
=============================================================================
