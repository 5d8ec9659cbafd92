-------------------------------- MODULE PusSeq --------------------------------
(***************************************************************************)
(* check_pus_sequence, for the packets of one direction: the table of the  *)
(* counter expected next for each APID, and the mismatches it reports in   *)
(* the debug printout, which the keyboard monitor switches on and off.     *)
(***************************************************************************)
EXTENDS Naturals, Sequences

CONSTANTS
    Apids,    \* APIDs of the packets
    SeqMod,   \* the counter wraps at this value, 2^14 in the code
    MaxPkts   \* bound: packets checked

VARIABLES
    seq,       \* *seq, the table that realloc() returned
    n,         \* *n
    debug,     \* cfg->pus_debug
    count,     \* packets checked
    reports,   \* mismatches reported
    expected,  \* history: the counter that continues an APID's packets
    gaps       \* history: packets that did not continue it, with debug on

vars == <<seq, n, debug, count, reports, expected, gaps>>

Unseen == SeqMod     \* no packet of the APID so far

Init == /\ seq = <<>> /\ n = 0 /\ debug \in BOOLEAN /\ count = 0 /\ reports = 0
        /\ expected = [a \in Apids |-> Unseen] /\ gaps = 0

\* The first of the n entries for the APID, or n + 1.
Entry(apid) == CHOOSE i \in 1 .. n + 1 :
                  /\ i = n + 1 \/ seq[i].apid = apid
                  /\ \A j \in 1 .. i - 1 : seq[j].apid # apid

\* realloc() to n + 1 entries; n stays as it is
Track(apid, sctr) ==
    /\ seq' = Append(SubSeq(seq, 1, n), [apid |-> apid, next |-> (sctr + 1) % SeqMod])
    /\ UNCHANGED <<n, reports>>

Compare(i, sctr) ==
    /\ reports' = IF sctr # seq[i].next /\ debug THEN reports + 1 ELSE reports
    /\ seq' = [seq EXCEPT ![i].next = (sctr + 1) % SeqMod]
    /\ UNCHANGED n

CheckPusSequence(apid, sctr) ==
    /\ count < MaxPkts
    /\ count' = count + 1
    /\ IF Entry(apid) = n + 1 THEN Track(apid, sctr) ELSE Compare(Entry(apid), sctr)
    /\ expected' = [expected EXCEPT ![apid] = (sctr + 1) % SeqMod]
    /\ gaps' = IF debug /\ expected[apid] \notin {Unseen, sctr} THEN gaps + 1 ELSE gaps
    /\ UNCHANGED debug

Toggle == debug' = ~debug /\ UNCHANGED <<seq, n, count, reports, expected, gaps>>

Next == Toggle \/ \E apid \in Apids, sctr \in 0 .. SeqMod - 1 : CheckPusSequence(apid, sctr)

Spec == Init /\ [][Next]_vars

-----------------------------------------------------------------------------
\* README.md: "a sequence mismatch is reported in the -D debug printout":
\* every packet that does not continue the counter of its APID is, if the
\* printout is on, reported.
MismatchReported == reports = gaps
=============================================================================
