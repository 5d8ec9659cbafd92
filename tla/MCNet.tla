------------------------------- MODULE MCNet -------------------------------
(* Instances of NetService: which connections are made to which service.   *)
EXTENDS NetService, TLC

CONSTANTS c1, c2, c3

AllToData     == [c \in Conns |-> "data"]
OneToSniffer  == [c \in Conns |-> IF c = c3 THEN "sniff" ELSE "data"]
OneToData     == [c \in Conns |-> IF c = c1 THEN "data" ELSE "rmap"]
RmapAndSniff  == [c \in Conns |-> IF c = c1 THEN "rmap" ELSE "sniff"]

\* sound while every connection is made to the same service
SameConns == Permutations(Conns)
=============================================================================
