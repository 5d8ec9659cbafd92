------------------------------ MODULE MCPackets ------------------------------
(***************************************************************************)
(* The packet code for model checking.  The five parts share no state, so  *)
(* each is explored by itself: codec says which of them moves.             *)
(***************************************************************************)
EXTENDS Rmap, PusPath, Bitman

VARIABLE codec

allvars == <<codec, vars, pvars, cvars, rvars, bvars>>

ZeroDst == <<0, 0, 0, 0, 0>>
OneDst  == <<255, 255, 255, 255, 255>>
TwoDsts == {ZeroDst, OneDst}
OneSrc  == {<<165, 60, 199, 90, 15>>}

\* legal values, values the setter refuses, and values wider than the field
FieldValues ==
    [f \in Fields |->
        CASE f = "version" -> {0, 9}            [] f \in {"type", "flag"} -> {0, 1}
          [] f = "apid" -> {1, 1793, 2048}      [] f = "seq_flags" -> {2, 4}
          [] f = "seq_cnt" -> {16383, 16384}    [] f = "data_len" -> {0, 258}
          [] f = "pus" -> {0, 2}                [] f = "time_ref" -> {5, 21}
          [] f = "ack" -> {9, 16}               [] f \in {"st", "sst"} -> {0, 3}
          [] f = "time" -> {92}                 [] OTHER -> {772}]

\* TM and TC, PUS A, no secondary header; an APID that ends in 1; packets
\* shorter than their headers, exactly as long, and with a payload
PusSources ==
    [type : {TM, TC}, flag : {1}, pus : {PusC}, apid : {257}, count : {16383}, len : {3, 5, 7, 13, 15, 17}]
    \cup [type : {TM}, flag : {0, 1}, pus : {PusA}, apid : {1800}, count : {300}, len : {2, 18}]

\* bursts of up to 16 bits, and two bits far apart
BitFlips == {{0}, {9}, {63}, {3, 4}, {40, 55}, {16, 18, 24, 31}, 24 .. 39, {1, 66}, {13, 70}}

Opt(d, s, c, r, g, u) == [debug |-> d, short |-> s, crc |-> c, rmap |-> r, gresb |-> g, udp |-> u]
CommandLines == {Opt(TRUE, FALSE, TRUE, FALSE, FALSE, FALSE), Opt(TRUE, FALSE, TRUE, TRUE, FALSE, FALSE),
                 Opt(TRUE, TRUE, TRUE, FALSE, TRUE, FALSE), Opt(TRUE, FALSE, FALSE, FALSE, TRUE, FALSE),
                 Opt(FALSE, FALSE, TRUE, FALSE, FALSE, TRUE)}
PlainLine == Opt(TRUE, FALSE, TRUE, FALSE, FALSE, FALSE)

AllInit ==
    /\ codec \in {"rmap", "fields", "crc", "path", "bits"}
    /\ Init
    /\ PktInit /\ (codec # "fields" => sp[0] = 0)
    /\ CrcInit /\ (codec # "crc" => align = 0 /\ seed = 0)
    /\ PathInit /\ (codec # "path" => opt = PlainLine)
    /\ BitmanInit /\ (codec # "bits" => dst = ZeroDst /\ d_off = 0 /\ s_off = 0 /\ nbits = 0)

RmapMoves   == codec = "rmap" /\ Next /\ UNCHANGED <<codec, pvars, cvars, rvars, bvars>>
FieldsMove  == codec = "fields" /\ PktNext /\ UNCHANGED <<codec, vars, cvars, rvars, bvars>>
CrcMoves    == codec = "crc" /\ CrcNext /\ UNCHANGED <<codec, vars, pvars, rvars, bvars>>
PathMoves   == codec = "path" /\ PathNext /\ UNCHANGED <<codec, vars, pvars, cvars, bvars>>
BitsMove    == codec = "bits" /\ BitmanNext /\ UNCHANGED <<codec, vars, pvars, cvars, rvars>>

AllNext == RmapMoves \/ FieldsMove \/ CrcMoves \/ PathMoves \/ BitsMove

AllSpec == AllInit /\ [][AllNext]_allvars
=============================================================================
