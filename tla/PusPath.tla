-------------------------------- MODULE PusPath --------------------------------
(***************************************************************************)
(* One PUS packet on its way through the bridge with -P: from the SpW link *)
(* through net_pkt_sink to the clients of the data port, or from the       *)
(* network through net_to_spw to the link.  The packet may lose its end or *)
(* get bits flipped before it arrives.  On its way it is printed, its CRC  *)
(* is checked, its sequence counter is handed to check_pus_sequence        *)
(* (PusSeq), and in the direction of the network it may be taken for an    *)
(* RMAP reply or wrapped into a GRESB packet.                              *)
(***************************************************************************)
EXTENDS SpacePkt, Crc16

CONSTANTS
    Sources,    \* packets sent: type, PUS version, flag, APID, counter, length
    PathBytes,  \* cfg->skip_header_bytes
    Losses,       \* octets lost at the end
    Flips,      \* sets of bits flipped: bursts of at most 16, and any two
    OptionSets     \* command lines: debug, short, crc, rmap, gresb, udp

ASSUME PathAssumption ==
    /\ PathBytes \in Nat /\ Losses \subseteq Nat /\ \A b \in Flips : b \subseteq Nat
    /\ \A h \in Sources :    \* each number within its field
          /\ h.type \in {TM, TC} /\ h.flag \in {0, 1} /\ h.pus \in 0 .. 15
          /\ h.apid \in Nat /\ h.apid <= Largest("apid")
          /\ h.count \in Nat /\ h.count <= Largest("seq_cnt")
          /\ h.len \in Nat /\ h.len >= CrcLen /\ h.len <= 65536

VARIABLES
    way,       \* "idle"; "rx", "rx_done" from the link; "tx", "tx_done" from the net
    opt,       \* the options in cfg
    sent,      \* history: the packet as it was sent
    damage,    \* history: "none", "cut", "bits"
    rx,        \* the octets that arrive
    dumped,    \* offsets of the packet printed as its payload
    crc_err,   \* "CRC error" on stderr
    checked,   \* APID and counter given to check_pus_sequence
    diverted,  \* treated as an RMAP reply
    out        \* what is sent on, <<>> if nothing

rvars == <<way, opt, sent, damage, rx, dumped, crc_err, checked, diverted, out>>

-----------------------------------------------------------------------------
Slice(s, from, n) == SubSeq(s, from + 1, from + n)
Header(h) ==    \* the octets of the headers of a packet h of Sources
    LET empty == [k \in Octets |-> 0]
        typed == Put(Put(empty, "type", h.type), "flag", h.flag)
        named == Put(Put(typed, "apid", h.apid), "seq_cnt", h.count)
        sized == Put(Put(named, "pus", h.pus), "data_len", h.len - 1)
    IN  Put(Put(sized, "st", 3), "seq_flags", 3)

\* the packet an instrument or a control system sends, with its CRC
Whole(h) ==
    LET n == PrimaryHdr + h.len - CrcLen
        body == [k \in 1 .. n |-> IF k - 1 \in Octets THEN Header(h)[k - 1] ELSE 90]
    IN  body \o <<Crc16Buf(body, n) \div 256, Crc16Buf(body, n) % 256>>

Flipped(s, bits) ==
    [k \in 1 .. Len(s) |-> Xor(s[k], Num({j \in 0 .. 7 : 8 * (k - 1) + 7 - j \in bits}))]

\* spw_bridge.c, pus_pkt_crc_valid
CrcValid_LowFirst(s) ==
    /\ Len(s) > CrcLen
    /\ Crc16Buf(s, Len(s) - CrcLen) = s[Len(s)] * 256 + s[Len(s) - 1]

CrcValid(s) ==
    /\ Len(s) > CrcLen
    /\ Crc16Buf(s, Len(s) - CrcLen) = s[Len(s) - 1] * 256 + s[Len(s)]

-----------------------------------------------------------------------------
\* pus_debug_print: the offsets of the payload printed, for the octets s that
\* arrived and the memory p they are in, which goes on after their end.
Avail_Declared(p, off, n) == IF PldSize(p) < 0 THEN 65535 ELSE PldSize(p)
Avail(p, off, n) == IF PldSize(p) < 0 \/ PldSize(p) > n - off THEN n - off ELSE PldSize(p)

PusDump(p, n) ==
    LET off == HdrSizeOf(Type(p))
    IN  IF n < PrimaryHdr \/ ~PktValid(p) \/ PusVersion(p) # PusC \/ off >= n THEN {}
        ELSE off .. off + Avail(p, off, n) - 1

\* spw_debug_print, for GRESB traffic: all of it
Dump(p, n) == IF ~opt.debug \/ opt.short THEN {}
              ELSE IF opt.gresb THEN 0 .. n - 1 ELSE PusDump(p, n)

\* the octets in memory from the start of the packet
Memory(s, beyond) == [k \in Octets |-> IF k < Len(s) THEN s[k + 1] ELSE beyond]

\* check_pus_sequence returns at once for less than a primary header
Checked(s) == IF Len(s) < PrimaryHdr THEN <<>>
              ELSE LET p == Memory(s, 0) IN <<Get(p, "apid"), Get(p, "seq_cnt")>>

\* gresb_create_host_data_pkt and gresb_get_host_data_pkt_size: a protocol
\* octet and the size in 24 bits
HostHdr    == 4
HostPkt(s) == <<0, (Len(s) \div 65536) % 256, (Len(s) \div 256) % 256, Len(s) % 256>> \o s
HostSize(b) == HostHdr + b[2] * 65536 + b[3] * 256 + b[4]

\* net_forward_to_clients
Forwarded(s) == IF opt.gresb THEN SubSeq(HostPkt(s), 1, HostSize(HostPkt(s))) ELSE s

\* The RMAP protocol identifier, the second octet.
LooksLikeRmap(s) == opt.rmap /\ Len(s) > 1 /\ s[2] = 1

\* "CRC error" in either direction
CrcReported(s) == opt.crc /\ ~CrcValid(s)

\* What becomes of a packet from the link; a failed check changes nothing.
Passed_DropsBad(s) == IF LooksLikeRmap(s) \/ CrcReported(s) THEN <<>> ELSE Forwarded(s)
Passed(s) == IF LooksLikeRmap(s) THEN <<>> ELSE Forwarded(s)

-----------------------------------------------------------------------------
PathInit ==
    /\ way = "idle" /\ opt \in OptionSets /\ sent = <<>> /\ damage = "none" /\ rx = <<>>
    /\ dumped = {} /\ crc_err = FALSE /\ checked = <<>> /\ diverted = FALSE /\ out = <<>>

Arrive(dir, s, d) ==
    /\ rx' = s /\ damage' = d /\ way' = dir
    /\ UNCHANGED <<opt, dumped, crc_err, checked, diverted, out>>

\* SpaceWire: the path's octets come first.
FromLink ==
    /\ way = "idle"
    /\ \E h \in Sources :
          LET path == [k \in 1 .. PathBytes |-> 7]
              s == Whole(h)
          IN  /\ sent' = s
              /\ \/ Arrive("rx", path \o s, "none")
                 \/ \E n \in Losses : Arrive("rx", SubSeq(path \o s, 1, Len(path \o s) - n), "cut")
                 \/ \E b \in Flips : Arrive("rx", path \o Flipped(s, b), "bits")

\* The network: TCP keeps a packet whole (Framing), and so does UDP; what was
\* damaged before it was sent arrives damaged.
FromNet ==
    /\ way = "idle"
    /\ \E h \in Sources :
          LET s == Whole(h)
          IN  /\ sent' = s
              /\ \/ Arrive("tx", s, "none")
                 \/ \E b \in Flips : b \cap (32 .. 47) = {} /\ Arrive("tx", Flipped(s, b), "bits")

\* net_pkt_sink, which drops what is not longer than the path
NetPktSink ==
    /\ way = "rx"
    /\ way' = "rx_done"
    /\ LET n == Len(rx) - PathBytes
           s == Slice(rx, PathBytes, n)
       IN  IF n <= 0 THEN UNCHANGED <<dumped, crc_err, checked, diverted, out>>
           ELSE /\ \E beyond \in {0, 255} : dumped' = Dump(Memory(s, beyond), n)
                /\ crc_err'  = CrcReported(s)
                /\ diverted' = LooksLikeRmap(s)
                /\ checked'  = IF LooksLikeRmap(s) THEN <<>> ELSE Checked(s)
                /\ out'      = Passed(s)
    /\ UNCHANGED <<opt, sent, damage, rx>>

\* net_to_spw outside monitor mode: recv_pus_packet checks, recv_dgram_packet
\* does not
NetToSpw ==
    /\ way = "tx"
    /\ way' = "tx_done"
    /\ checked' = IF opt.udp THEN <<>> ELSE Checked(rx)
    /\ crc_err' = (~opt.udp /\ CrcReported(rx))
    /\ \E beyond \in {0, 255} : dumped' = Dump(Memory(rx, beyond), Len(rx))
    /\ out' = rx
    /\ UNCHANGED <<opt, sent, damage, rx, diverted>>

PathNext == FromLink \/ FromNet \/ NetPktSink \/ NetToSpw

PathSpec == PathInit /\ [][PathNext]_rvars

-----------------------------------------------------------------------------
Over    == way \in {"rx_done", "tx_done"}

\* the packet's octets as they arrived
Arrived == IF way = "rx_done" THEN Slice(rx, PathBytes, Len(rx) - PathBytes) ELSE rx

\* The payload part of the printout takes its octets from those that arrived
\* and from no others, whatever length the packet declares; of a packet that
\* arrived whole it shows all that follows the headers.  (The fields of the
\* secondary header are printed without a look at the length: octets 6 to 18 of
\* a shorter packet are not its own.)
DumpFromPacket ==
    Over =>
        /\ dumped \subseteq 0 .. Len(Arrived) - 1
        /\ LET p == Memory(sent, 0)
               off == HdrSizeOf(Type(p))
           IN  (damage = "none" /\ opt.debug /\ ~opt.short /\ ~opt.gresb /\ PusVersion(p) = PusC)
                   => dumped = off .. Len(sent) - 1

\* A burst of up to 16 flipped bits, and any two, are reported; an undamaged
\* packet is not.  (Packets that come by UDP are not checked.)
DamageReported ==
    (Over /\ opt.crc /\ ~(way = "tx_done" /\ opt.udp)) =>
        /\ damage = "none" => ~crc_err
        /\ damage = "bits" => crc_err

\* um/usermanual.tex: "The bridge never drops a packet with a failed check":
\* what is not an RMAP reply goes on as it arrived, damaged or cut, and a GRESB
\* client finds it behind the size of its envelope.  What the sender numbered
\* reaches check_pus_sequence under the sender's APID and counter, whichever
\* way it takes.
NeverDropped ==
    (Over /\ ~diverted /\ Len(Arrived) > 0) =>
        /\ IF way = "rx_done" /\ opt.gresb
           THEN /\ Len(out) = HostHdr + Len(Arrived)
                /\ SubSeq(out, HostHdr + 1, Len(out)) = Arrived
           ELSE out = Arrived
        /\ (damage = "none" /\ ~(way = "tx_done" /\ opt.udp)) =>
               LET p == Memory(sent, 0) IN checked = <<Get(p, "apid"), Get(p, "seq_cnt")>>

-----------------------------------------------------------------------------
\* What the documentation promises and the code does not keep.

\* um/usermanual.tex: RMAP replies are "identified by the RMAP protocol
\* identifier byte": telemetry is not taken for one.
TelemetryForwarded == (way = "rx_done" /\ damage = "none") => ~diverted

\* um/usermanual.tex: "With -P, the bridge verifies this field on every packet
\* in both directions".
CheckedBothWays == (Over /\ opt.crc /\ damage = "bits") => crc_err
=============================================================================
