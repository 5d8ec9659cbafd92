-------------------------------- MODULE Dgram --------------------------------
(***************************************************************************)
(* The data service in UDP mode: recv_dgram_packet and dgram_add_client,   *)
(* run by the poll thread through net_to_spw, and dgram_send_all, run by   *)
(* the SpW poll thread through net_forward_to_clients.                     *)
(***************************************************************************)
EXTENDS Naturals, Sequences, SequencesExt

CONSTANTS
    Hosts,      \* peers: an address with a port
    NoHost,
    Lengths,    \* sizes of the datagrams they send
    FirstCap,   \* entries the client table is first given, 4 in the code
    MaxDgrams,  \* bound: datagrams arriving
    MaxPkts     \* bound: SpW packets pushed

ASSUME DgramAssumption == /\ NoHost \notin Hosts /\ Lengths \subseteq Nat
                          /\ FirstCap \in Nat \ {0}
                          /\ MaxDgrams \in Nat /\ MaxPkts \in Nat

VARIABLES
    sockq,    \* datagrams in the receive queue of the socket
    arrived,  \* datagrams that arrived
    clients,  \* svc->clients, nclients entries long
    cap,      \* svc->clients_cap
    lock,     \* svc->lock is held by dgram_send_all
    ppc,      \* poll thread: "poll" or "add"
    client,   \* its local: who sent the datagram
    i,        \* loop variable of dgram_send_all
    pushed,   \* packets dgram_send_all was called with
    since,    \* history: packets pushed before a host was registered
    rcvd      \* history: packets sent to a host

vars == <<sockq, arrived, clients, cap, lock, ppc, client, i, pushed, since, rcvd>>

Registered(h) == \E k \in 1 .. Len(clients) : clients[k] = h

Init ==
    /\ sockq = <<>> /\ arrived = 0 /\ clients = <<>> /\ cap = 0 /\ lock = FALSE
    /\ ppc = "poll" /\ client = NoHost /\ i = 0 /\ pushed = 0
    /\ since = [h \in Hosts |-> 0] /\ rcvd = [h \in Hosts |-> 0]

Arrive(h) ==
    /\ arrived < MaxDgrams
    /\ arrived' = arrived + 1
    /\ \E n \in Lengths : sockq' = Append(sockq, [from |-> h, len |-> n])
    /\ UNCHANGED <<clients, cap, lock, ppc, client, i, pushed, since, rcvd>>

\* FIONREAD is the size of the first datagram.
RecvDgram ==
    /\ ppc = "poll" /\ sockq # <<>> /\ Head(sockq).len > 0
    /\ sockq'  = Tail(sockq)
    /\ client' = Head(sockq).from
    /\ ppc'    = "add"
    /\ UNCHANGED <<arrived, clients, cap, lock, i, pushed, since, rcvd>>

\* "avail == 0": return -1, with nothing read
RecvNothing ==
    /\ ppc = "poll" /\ sockq # <<>> /\ Head(sockq).len = 0
    /\ UNCHANGED vars

\* select() timed out
PollIdle == ppc = "poll" /\ sockq = <<>> /\ UNCHANGED vars

\* how many entries fit once one more is added
Grown == IF Len(clients) # cap THEN cap ELSE IF cap = 0 THEN FirstCap ELSE cap * 2

Known_AnyPort(h) == clients # <<>>
Known_LastOnly(h) == clients # <<>> /\ Last(clients) = h
Known(h) == Registered(h)

AddClient ==
    /\ ppc = "add" /\ ~lock
    /\ IF Known(client) THEN UNCHANGED <<clients, cap, since>>
       ELSE /\ cap'     = Grown
            /\ clients' = Append(clients, client)
            /\ since'   = [since EXCEPT ![client] = pushed]
    /\ ppc' = "poll" /\ client' = NoHost
    /\ UNCHANGED <<sockq, arrived, lock, i, pushed, rcvd>>

SendAll ==
    /\ ~lock /\ pushed < MaxPkts
    /\ lock' = TRUE /\ i' = 1 /\ pushed' = pushed + 1
    /\ UNCHANGED <<sockq, arrived, clients, cap, ppc, client, since, rcvd>>

\* an error of sendto() is printed, and the loop goes on
SendTo ==
    /\ lock /\ i <= Len(clients)
    /\ rcvd' = [rcvd EXCEPT ![clients[i]] = @ + 1]
    /\ i' = i + 1
    /\ UNCHANGED <<sockq, arrived, clients, cap, lock, ppc, client, pushed, since>>

SendEnd ==
    /\ lock /\ i > Len(clients)
    /\ lock' = FALSE
    /\ UNCHANGED <<sockq, arrived, clients, cap, ppc, client, i, pushed, since, rcvd>>

Poll   == RecvDgram \/ RecvNothing \/ PollIdle \/ AddClient
Sender == SendTo \/ SendEnd
Next   == (\E h \in Hosts : Arrive(h)) \/ Poll \/ SendAll \/ Sender
Spec   == Init /\ [][Next]_vars

\* Both threads are run; neither datagrams nor SpW packets have to come.
FairSpec == Spec /\ WF_vars(Poll) /\ WF_vars(Sender)

-----------------------------------------------------------------------------
\* Types; nclients never exceeds the entries that were allocated.
TypeOK ==
    /\ sockq \in Seq([from : Hosts, len : Lengths]) /\ arrived \in 0 .. MaxDgrams
    /\ clients \in Seq(Hosts) /\ cap \in Nat /\ Len(clients) <= cap
    /\ lock \in BOOLEAN /\ ppc \in {"poll", "add"} /\ client \in Hosts \cup {NoHost}
    /\ i \in Nat /\ pushed \in 0 .. MaxPkts
    /\ since \in [Hosts -> Nat] /\ rcvd \in [Hosts -> Nat]

\* dgram_send_all has still to come to h's entry
Ahead(h) == lock /\ \E k \in 1 .. Len(clients) : k >= i /\ clients[k] = h

Due(h) == IF Registered(h) THEN pushed - since[h] - (IF Ahead(h) THEN 1 ELSE 0) ELSE 0

\* Each registered peer is sent each SpW packet since its registration exactly
\* once, however registrations and pushes interleave (dgram_add_client and
\* dgram_send_all under svc->lock); a peer that was never seen gets nothing.
EachPacketOnce == \A h \in Hosts : rcvd[h] = Due(h)

\* Why: a host has one entry at most, and the loop of dgram_send_all has passed
\* exactly the entries below i while the lock keeps the table as it is.
DgramInv ==
    /\ TypeOK
    /\ ppc = "add" => client \in Hosts
    /\ \A j, k \in 1 .. Len(clients) : clients[j] = clients[k] => j = k
    /\ lock => i > 0
    /\ EachPacketOnce

\* A host whose datagram is in the receive queue with no empty one ahead of it
\* is registered by recv_dgram_packet and dgram_add_client, however long
\* dgram_send_all holds svc->lock.
JoinsUnlessBlocked == \A h \in Hosts :
    (\E k \in 1 .. Len(sockq) : /\ sockq[k].from = h
                               /\ \A j \in 1 .. k : sockq[j].len > 0) ~> Registered(h)

\* The members of a broadcast in one part: a host joins when it is registered
\* and never leaves, and its cursor is the last packet it was sent.
Promise == INSTANCE Broadcast WITH
    Members   <- Hosts,
    Sources   <- {"data"},
    SourceOf  <- [h \in Hosts |-> "data"],
    Parts     <- 1,
    status    <- [h \in Hosts |-> IF Registered(h) THEN "in" ELSE "out"],
    published <- [s \in {"data"} |-> pushed],
    cursor    <- [h \in Hosts |-> [s \in {"data"} |->
                    IF rcvd[h] = 0 THEN <<0, 0>> ELSE <<since[h] + rcvd[h], 1>>]]

\* UDP peers are promised what the clients of a stream service are: the client
\* table, its lock and the two threads do nothing that a plain broadcast of
\* whole packets to hosts that join would not do (dgram_add_client and
\* dgram_send_all).
ImplementsBroadcast == Promise!Spec

-----------------------------------------------------------------------------
\* What the documentation promises and the code does not keep.

\* README.md: "the first datagram from a host registers it as a recipient".
FirstRegisters == \A h \in Hosts :
    (\E k \in 1 .. Len(sockq) : sockq[k].from = h /\ sockq[k].len > 0) ~> Registered(h)
=============================================================================
