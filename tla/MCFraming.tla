------------------------------ MODULE MCFraming ------------------------------
(* Instances of Framing: what the peers of each reader send. *)
EXTENDS Framing

Pkt(kind, decl, body) == [kind |-> kind, decl |-> decl, body |-> body]

\* the size field of a well-formed packet is the length of what follows
WellFormed == {Pkt("data", n, n) : n \in Sizes}
PusPkts    == {Pkt("data", n, n) : n \in Sizes \ {0}}
\* FEE packets mixed with a packet of another protocol
FeePkts    == PusPkts \cup {Pkt("other", 0, 1)}
\* a read command has no payload
RmapPkts   == WellFormed \cup {Pkt("read", 0, 0)}
\* and, by the manual, its size field does not matter
RmapManual == WellFormed \cup {Pkt("read", n, 0) : n \in Sizes}

Sent == [m \in Modes |-> CASE m = "pus"  -> PusPkts
                           [] m = "rmap" -> RmapPkts
                           [] m = "fee"  -> FeePkts
                           [] OTHER      -> WellFormed]
SentByManual == [m \in Modes |-> RmapManual]
=============================================================================
