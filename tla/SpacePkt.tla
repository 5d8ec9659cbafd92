------------------------------- MODULE SpacePkt -------------------------------
(***************************************************************************)
(* The packet library of ecss/: the fields of the CCSDS primary header and *)
(* of the PUS-C secondary header, in a buffer of octets, with the setters  *)
(* of ccsds_pkt.c and ecss_pkt.c called in any order.                      *)
(*                                                                         *)
(* The accessors differ in where a field is, in which packets have it and  *)
(* in which values they take; a record of Layout says where, Readable and  *)
(* Accepted say when.  AP_PUS_VERSION is PUS_C_VERSION, as configured.     *)
(***************************************************************************)
EXTENDS Sequences, BitSets

CONSTANTS
    Values,    \* arguments handed to the setter of each field
    Contents,  \* what every octet of a fresh buffer holds
    MaxCalls   \* bound: calls of setters

VARIABLES
    sp,     \* the buffer: octets by offset
    given,  \* history: what each field should hold, or Unset
    calls   \* setters called

pvars == <<sp, given, calls>>

-----------------------------------------------------------------------------
PrimaryHdr == 6         \* SPP_PKT_HDR_LEN
CrcLen     == 2         \* PUS_ECSS_CRC_LEN
PktSizeMax == 4096      \* AP_PKT_SIZE_MAX
PusA       == 1
PusC       == 2
TM         == 0
TC         == 1
Unset      == -1

\* A field: its first octet, the mask and shift in it, the octets that follow.
F(at, mask, shift, more) == [at |-> at, mask |-> mask, shift |-> shift, more |-> more]

Layout ==
    [version |-> F(0, 224, 5, 0), type |-> F(0, 16, 4, 0), flag |-> F(0, 15, 3, 0),
     apid |-> F(0, 7, 0, 1), seq_flags |-> F(2, 192, 6, 0), seq_cnt |-> F(2, 63, 0, 1),
     data_len |-> F(4, 255, 0, 1),
     pus |-> F(6, 240, 4, 0), time_ref |-> F(6, 15, 0, 0), ack |-> F(6, 15, 0, 0),
     st |-> F(7, 255, 0, 0), sst |-> F(8, 255, 0, 0), msg_cntr |-> F(9, 255, 0, 1),
     dest |-> F(11, 255, 0, 1), source |-> F(9, 255, 0, 1), time |-> F(13, 255, 0, 5)]

Fields == DOMAIN Layout
Octets == 0 .. 18       \* up to the end of the longest header

\* the buffer is of uint8_t; an argument is a uint16_t where the field has two
\* octets, a uint8_t otherwise
ASSUME PktAssumption ==
    /\ Contents \subseteq 0 .. 255
    /\ \A f \in Fields : \A v \in Values[f] :
          v \in Nat /\ v < (IF Layout[f].more = 1 THEN 65536 ELSE 256)

\* The octets after the first: the low octet of a number, and for the
\* timestamp, which is an octet string, what its first octet determines.
Follow(f, v, j) == IF f = "time" THEN (v + 41 * j) % 256 ELSE v % 256
Garbled == 65536     \* a timestamp whose octets do not belong together

\* The bits of a field as they are in the packet, and the packet with the
\* field's bits cleared and v put over them, not masked again.
Raw(p, f) ==
    LET l == Layout[f]
        top == And(p[l.at], l.mask) \div 2 ^ l.shift
    IN  CASE l.more = 0 -> top
          [] l.more = 1 -> top * 256 + p[l.at + 1]
          [] OTHER -> IF \A j \in 1 .. l.more : p[l.at + j] = Follow(f, top, j) THEN top ELSE Garbled

Put(p, f, v) ==
    LET l == Layout[f]
        top == IF l.more = 1 THEN v \div 256 ELSE v
    IN  [k \in DOMAIN p |->
            CASE k = l.at -> Or(And(p[k], 255 - l.mask), (top * 2 ^ l.shift) % 256)
              [] k \in l.at + 1 .. l.at + l.more -> Follow(f, v, k - l.at)
              [] OTHER -> p[k]]

-----------------------------------------------------------------------------
Flag(p)    == Raw(p, "flag") = 1
Type(p)    == Raw(p, "type")

\* ecss_get_pkt_version: all bits set without a secondary header
PusVersion(p) == IF Flag(p) THEN Raw(p, "pus") ELSE 255
VersionValid(v) == v \in {PusA, PusC}

\* The fields of telemetry and of telecommands share octets.
OnlyIn(f) == CASE f \in {"time_ref", "msg_cntr", "dest", "time"} -> {TM}
               [] f \in {"ack", "source"}                        -> {TC}
               [] OTHER                                          -> {TM, TC}
Secondary == {"pus", "time_ref", "ack", "st", "sst", "msg_cntr", "dest", "source", "time"}

Present(p, f) == /\ f \in Secondary => Flag(p)
                 /\ Type(p) \in OnlyIn(f)
                 /\ f = "msg_cntr" => PusVersion(p) = PusC

\* the getter gives the field, not its error value; ecss_get_service_type
\* does not ask for the secondary header
Readable(p, f) == f = "st" \/ Present(p, f)

\* ccsds_get_data_len counts in 16 bits
Get(p, f) == IF f = "data_len" THEN (Raw(p, f) + 1) % 65536 ELSE Raw(p, f)

Largest(f) == CASE f = "apid" -> 2047 [] f = "seq_flags" -> 3 [] f = "seq_cnt" -> 16383
                [] f = "ack" -> 15    [] OTHER -> 65535

Accepted(p, f, v) ==
    /\ Present(p, f)
    /\ v <= Largest(f)
    /\ f = "pus" => VersionValid(v)
    /\ f \in {"st", "sst"} => v # 0

\* What the setter writes of its argument.
Encoded_NotCounted(f, v) == IF f \in {"type", "flag"} /\ v # 0 THEN 1 ELSE v
Encoded(f, v) == CASE f \in {"type", "flag"} -> IF v = 0 THEN 0 ELSE 1
                   [] f = "data_len"         -> (v - 1) % 65536
                   [] OTHER                  -> v

-----------------------------------------------------------------------------
PktInit == /\ sp \in {[k \in Octets |-> c] : c \in Contents}
           /\ given = [f \in Fields |-> Unset]
           /\ calls = 0

\* What a reader should find after f was set to v.
Expected(f, v) == CASE f \in {"type", "flag"} -> IF v = 0 THEN 0 ELSE 1
                    [] f = "version"          -> v % 8
                    [] f = "time_ref"         -> v % 16
                    [] OTHER                  -> v

\* Fields of telemetry and of telecommands that are one place in the packet.
Shares(f, g) == {f, g} \in {{"time_ref", "ack"}, {"msg_cntr", "source"}}

\* What is known of g, and was x, once f has been set to v.  The mask of the
\* secondary header flag takes the top of the APID with it, and the top of a
\* time reference status above 15 is put over the PUS version.
After(f, v, g, x) ==
    CASE g = f \/ Shares(f, g)                    -> Expected(f, v)
      [] f = "flag" /\ g = "apid" /\ x # Unset    -> x % 256
      [] f = "time_ref" /\ g = "pus" /\ x # Unset -> Or(x, v \div 16)
      [] OTHER                                    -> x

Set(f, v) ==
    /\ calls < MaxCalls
    /\ calls' = calls + 1
    /\ IF Accepted(sp, f, v)
       THEN /\ sp' = Put(sp, f, Encoded(f, v))
            /\ given' = [g \in Fields |-> After(f, v, g, given[g])]
       ELSE UNCHANGED <<sp, given>>

PktNext == \E f \in Fields : \E v \in Values[f] : Set(f, v)

PktSpec == PktInit /\ [][PktNext]_pvars

-----------------------------------------------------------------------------
\* ecss_get_pkt_2nd_hdr_size, ecss_get_pkt_hdr_size; a type above 1 has none
SecondHdr(t) == CASE t = TC -> 5 [] t = TM -> 13 [] OTHER -> 0
HdrSizeOf(t) == IF t > 1 THEN 0 ELSE PrimaryHdr + SecondHdr(t)

\* ecss_is_pkt_valid: the CRC function is not used
PktValid(p) == Raw(p, "version") = 0 /\ (Flag(p) => VersionValid(PusVersion(p)))

\* ecss_get_pld_size.  A negative size stands for the
\* size_t 2^64 above it.
PldSize(p) == IF PktValid(p) THEN Get(p, "data_len") - SecondHdr(Type(p)) ELSE 0

\* eccs_get_max_pld_size
MaxPldSize(t) == PktSizeMax - SecondHdr(t) - CrcLen

-----------------------------------------------------------------------------
\* Every field of the two headers reads back what it was last set to, for as
\* long as its packet has it, whatever was set, refused or toggled since, with
\* two exceptions: after ccsds_set_2nd_hdr_flag the APID has lost exactly its
\* top three bits, and after ecss_set_sc_time_ref_status the PUS version has
\* exactly the bits of the argument above its low four added.
ReadsBack == \A f \in Fields :
                (given[f] # Unset /\ Readable(sp, f)) => Get(sp, f) = given[f]

\* ccsds_pkt.c: "set the secondary header flag", ecss_pkt.c: the 4-bit time
\* reference status: a setter changes its field and no other, but the one that
\* is the same place in the other kind of packet.
OthersUntouched ==
    [][\A f \in Fields : (\E v \in Values[f] : Set(f, v)) =>
          \A g \in Fields : g = f \/ Shares(f, g) \/ Raw(sp', g) = Raw(sp, g)]_pvars

\* ecss_pkt.c: the largest payload of the configured maximum packet size,
\* with its headers and its CRC, makes a packet of at most that size.
MaxPldFits == \A t \in {TM, TC} : HdrSizeOf(t) + MaxPldSize(t) + CrcLen <= PktSizeMax
=============================================================================
