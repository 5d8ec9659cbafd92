------------------------------ MODULE Broadcast ------------------------------
(***************************************************************************)
(* What a stream service promises to the clients connected to it           *)
(* (README.md: "every connected peer receives the SpW traffic").  It knows *)
(* nothing of descriptors, connection sets, locks or threads: a service    *)
(* publishes packets one at a time, and a packet has Parts parts.  A       *)
(* member that has begun to receive takes every part of every packet in    *)
(* order until it leaves, and the next packet is published only when all   *)
(* of them have the whole of the last one.                                 *)
(*                                                                         *)
(* A member may wait before it begins, and may leave at any moment, in     *)
(* the middle of a packet too; one that left never receives again.         *)
(*                                                                         *)
(* A stray is a member the services take for another: it may be sent       *)
(* packets of any of them, may miss some, and may come in the middle of    *)
(* the first.  It too is sent every packet it got the start of to the end. *)
(***************************************************************************)
EXTENDS Naturals

CONSTANTS
    Members,   \* those that may ever receive
    Sources,   \* the services
    SourceOf,  \* the service a member listens to
    Parts      \* parts of one packet

VARIABLES
    status,     \* "out", "in", "stray" or "left"
    published,  \* packets a service has published
    cursor      \* by source: number and part last received; part 0 before the first

bvars == <<status, published, cursor>>

Own(m)      == cursor[m][SourceOf[m]]
Begun(m)    == Own(m)[2] # 0
UpToDate(m) == Own(m) = <<published[SourceOf[m]], Parts>>

\* The part a member takes next.
NextPart(m) == IF Own(m)[2] \in 1 .. (Parts - 1)
               THEN <<Own(m)[1], Own(m)[2] + 1>>
               ELSE <<IF Begun(m) THEN Own(m)[1] + 1 ELSE published[SourceOf[m]], 1>>

Init ==
    /\ status \in [Members -> {"out", "in"}]
    /\ published = [s \in Sources |-> 0]
    /\ cursor = [m \in Members |-> [s \in Sources |-> <<0, 0>>]]

Publish(s) ==
    /\ \A m \in Members : (SourceOf[m] = s /\ status[m] = "in" /\ Begun(m)) => UpToDate(m)
    /\ \A m \in Members : status[m] = "stray" => cursor[m][s][2] \in {0, Parts}
    /\ published' = [published EXCEPT ![s] = @ + 1]
    /\ UNCHANGED <<status, cursor>>

\* Nothing is received that was not published.
Receive(m) ==
    /\ status[m] = "in" /\ published[SourceOf[m]] > 0
    /\ NextPart(m)[1] = published[SourceOf[m]]
    /\ cursor' = [cursor EXCEPT ![m][SourceOf[m]] = NextPart(m)]
    /\ UNCHANGED <<status, published>>

\* Part p of the packet s published last is sent to a stray.
Stray(m, s, p) ==
    /\ status[m] = "stray" /\ published[s] > 0
    /\ cursor[m][s][2] \in 1 .. (Parts - 1) =>
          cursor[m][s] = <<published[s], p - 1>>
    /\ cursor[m][s][2] = Parts => cursor[m][s][1] < published[s] /\ p = 1
    /\ cursor' = [cursor EXCEPT ![m][s] = <<published[s], p>>]
    /\ UNCHANGED <<status, published>>

Join(m) ==
    /\ status[m] = "out"
    /\ \E st \in {"in", "stray"} : status' = [status EXCEPT ![m] = st]
    /\ UNCHANGED <<published, cursor>>

Leave(m) ==
    /\ status' = [status EXCEPT ![m] = "left"]
    /\ UNCHANGED <<published, cursor>>

Next == \/ \E s \in Sources : Publish(s)
        \/ \E m \in Members : Receive(m) \/ Join(m) \/ Leave(m)
        \/ \E m \in Members, s \in Sources, p \in 1 .. Parts : Stray(m, s, p)

Spec == Init /\ [][Next]_bvars
=============================================================================
