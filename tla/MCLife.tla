------------------------------ MODULE MCLife -------------------------------
(* Instances of Lifecycle. *)
EXTENDS Lifecycle

\* MaxOps never stands in the way: one operation per channel more than packets
ASSUME EnoughOps == MaxOps >= Cardinality(Chans) * (2 * MaxRx + 1) + Cardinality(Senders) * MaxIn
=============================================================================
