------------------------------ MODULE MCDgram -------------------------------
(* Instances of Dgram. *)
EXTENDS Dgram
CONSTANTS h1, h2, h3
=============================================================================
