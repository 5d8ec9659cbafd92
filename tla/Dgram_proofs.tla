----------------------------- MODULE Dgram_proofs -----------------------------
(***************************************************************************)
(* Proofs about Dgram: the client table never outgrows its memory, and     *)
(* every registered host is sent every packet once.                        *)
(***************************************************************************)
EXTENDS Dgram, SequenceTheorems, TLAPS

\* The table is empty and nothing was sent.
LEMMA DgramInvInit == Init => DgramInv
<1> SUFFICES ASSUME Init PROVE DgramInv
  OBVIOUS
<1>1. TypeOK
  <2>1. /\ sockq \in Seq([from : Hosts, len : Lengths])
        /\ clients \in Seq(Hosts) /\ Len(clients) = 0
    BY EmptySeq DEF Init
  <2>2. /\ arrived \in 0 .. MaxDgrams /\ cap \in Nat /\ Len(clients) <= cap
        /\ i \in Nat /\ pushed \in 0 .. MaxPkts
        /\ since \in [Hosts -> Nat] /\ rcvd \in [Hosts -> Nat]
    BY <2>1, DgramAssumption DEF Init
  <2>3. QED
    BY <2>1, <2>2, Zenon DEF Init, TypeOK
<1>2. EachPacketOnce
  BY DEF Init, EachPacketOnce, Due, Registered
<1>3. QED
  BY <1>1, <1>2 DEF Init, DgramInv

\* No step overruns the table or leaves the types.
LEMMA DgramTypeNext == DgramInv /\ [Next]_vars => TypeOK'
<1> SUFFICES ASSUME DgramInv, [Next]_vars PROVE TypeOK'
  OBVIOUS
<1> USE DgramAssumption DEF DgramInv, TypeOK
<1>1. ASSUME NEW h \in Hosts, Arrive(h) PROVE TypeOK'
  BY <1>1 DEF Arrive
<1>2. CASE RecvDgram
  <2>1. sockq' \in Seq([from : Hosts, len : Lengths]) /\ client' \in Hosts
    <3> DEFINE D == [from : Hosts, len : Lengths]
    <3>1. sockq \in Seq(D) /\ sockq # <<>>
      BY <1>2 DEF RecvDgram
    <3>2. Head(sockq) \in D /\ Tail(sockq) \in Seq(D)
      BY <3>1, HeadTailProperties
    <3>3. QED
      BY <1>2, <3>2 DEF RecvDgram
  <2>2. QED
    BY <1>2, <2>1 DEF RecvDgram
<1>3. CASE AddClient
  <2>1. CASE Known(client)
    BY <1>3, <2>1 DEF AddClient
  <2>2. CASE ~Known(client)
    <3>1. clients' = Append(clients, client) /\ cap' = Grown /\ since' = [since EXCEPT ![client] = pushed]
      BY <1>3, <2>2 DEF AddClient
    <3>2. client \in Hosts
      BY <1>3 DEF AddClient
    <3>3. clients' \in Seq(Hosts) /\ Len(clients') = Len(clients) + 1
      BY <3>1, <3>2, AppendProperties
    <3>4. cap' \in Nat /\ Len(clients) + 1 <= cap'
      BY <3>1 DEF Grown
    <3>5. QED
      BY <1>3, <3>1, <3>2, <3>3, <3>4 DEF AddClient
  <2>3. QED
    BY <2>1, <2>2
<1>4. CASE SendAll
  BY <1>4 DEF SendAll
<1>5. CASE SendTo
  BY <1>5 DEF SendTo
<1>6. CASE SendEnd
  BY <1>6 DEF SendEnd
<1>7. CASE UNCHANGED vars
  BY <1>7 DEF vars
<1>8. QED
  BY <1>1, <1>2, <1>3, <1>4, <1>5, <1>6, <1>7 DEF Next, Poll, Sender, RecvNothing, PollIdle

\* A host that is not in the table is added behind the others, and what was
\* there stays where it was.
LEMMA Added ==
  ASSUME clients \in Seq(Hosts), client \in Hosts, clients' = Append(clients, client)
  PROVE  /\ Len(clients') = Len(clients) + 1 /\ Len(clients) \in Nat
         /\ \A k \in 1 .. Len(clients) : clients'[k] = clients[k]
         /\ clients'[Len(clients) + 1] = client
  BY AppendProperties, LenProperties

\* No step lets a host miss a packet or get one twice.
LEMMA DgramInvNext == DgramInv /\ [Next]_vars => DgramInv'
<1> SUFFICES ASSUME DgramInv, [Next]_vars PROVE DgramInv'
  OBVIOUS
<1>1. TypeOK /\ TypeOK'
  BY DgramTypeNext DEF DgramInv
<1>2. CASE UNCHANGED <<clients, lock, i, pushed, since, rcvd>> /\ (ppc' = "add" => client' \in Hosts)
  BY <1>1, <1>2 DEF DgramInv, EachPacketOnce, Due, Ahead, Registered
<1>3. ASSUME NEW h \in Hosts, Arrive(h) PROVE DgramInv'
  BY <1>2, <1>3 DEF Arrive, DgramInv
<1>4. CASE RecvDgram
  <2>1. client' \in Hosts
    <3> DEFINE D == [from : Hosts, len : Lengths]
    <3>1. sockq \in Seq(D) /\ sockq # <<>>
      BY <1>1, <1>4 DEF RecvDgram, TypeOK
    <3>2. Head(sockq) \in D
      BY <3>1, HeadTailProperties
    <3>3. QED
      BY <1>4, <3>2 DEF RecvDgram
  <2>2. QED
    BY <1>2, <1>4, <2>1 DEF RecvDgram
<1>5. CASE AddClient /\ Known(client)
  BY <1>2, <1>5 DEF AddClient
<1>6. CASE AddClient /\ ~Known(client)
  <2>1. client \in Hosts /\ clients \in Seq(Hosts) /\ ~lock /\ ~lock'
    BY <1>1, <1>6 DEF AddClient, DgramInv, TypeOK
  <2>2. clients' = Append(clients, client) /\ since' = [since EXCEPT ![client] = pushed]
    BY <1>6 DEF AddClient
  <2>3. UNCHANGED <<i, pushed, rcvd>> /\ ppc' = "poll"
    BY <1>6 DEF AddClient
  <2>4. \A k \in 1 .. Len(clients) : clients[k] # client
    BY <1>6 DEF Known, Registered
  <2>5. \A j, k \in 1 .. Len(clients') : clients'[j] = clients'[k] => j = k
    BY <2>1, <2>2, <2>4, Added DEF DgramInv
  <2>6. ASSUME NEW h \in Hosts PROVE rcvd'[h] = Due(h)'
    <3>1. ~Ahead(h) /\ ~Ahead(h)'
      BY <2>1 DEF Ahead
    <3>2. /\ pushed \in Nat /\ since[h] \in Nat /\ since'[h] \in Nat /\ rcvd[h] = Due(h)
          /\ UNCHANGED <<pushed, rcvd>>
      BY <1>1, <2>3 DEF TypeOK, DgramInv, EachPacketOnce
    <3>3. CASE h = client
      <4>1. Registered(h)' /\ ~Registered(h)
        BY <2>1, <2>2, <2>4, <3>3, Added DEF Registered
      <4>2. since'[h] = pushed
        BY <1>1, <2>1, <2>2, <3>3 DEF TypeOK
      <4>3. QED
        BY <3>1, <3>2, <4>1, <4>2 DEF Due
    <3>4. CASE h # client
      <4>1. Registered(h)' <=> Registered(h)
        BY <2>1, <2>2, <3>4, Added DEF Registered
      <4>2. since'[h] = since[h]
        BY <1>1, <2>1, <2>2, <3>4 DEF TypeOK
      <4>3. QED
        BY <3>1, <3>2, <4>1, <4>2 DEF Due
    <3>5. QED
      BY <3>3, <3>4
  <2>7. QED
    BY <1>1, <2>1, <2>3, <2>5, <2>6 DEF DgramInv, EachPacketOnce
<1>7. CASE SendAll
  <2>1. /\ ~lock /\ lock' /\ i' = 1 /\ pushed' = pushed + 1
        /\ UNCHANGED <<clients, ppc, client, since, rcvd>>
    BY <1>7 DEF SendAll
  <2>2. ASSUME NEW h \in Hosts PROVE rcvd'[h] = Due(h)'
    <3>1. ~Ahead(h) /\ (Registered(h)' <=> Registered(h)) /\ (Ahead(h)' <=> Registered(h))
      BY <1>1, <2>1 DEF Ahead, Registered, TypeOK
    <3>2. rcvd[h] = Due(h) /\ pushed \in Nat /\ since[h] \in Nat
      BY <1>1 DEF TypeOK, DgramInv, EachPacketOnce
    <3>3. QED
      BY <2>1, <3>1, <3>2 DEF Due
  <2>3. QED
    BY <1>1, <2>1, <2>2 DEF DgramInv, EachPacketOnce
<1>8. CASE SendTo
  <2>1. /\ lock /\ lock' /\ i \in 1 .. Len(clients) /\ i' = i + 1 /\ Len(clients) \in Nat
        /\ rcvd' = [rcvd EXCEPT ![clients[i]] = @ + 1]
        /\ UNCHANGED <<clients, ppc, client, pushed, since>>
    BY <1>1, <1>8 DEF SendTo, DgramInv, TypeOK
  <2>2. ASSUME NEW h \in Hosts PROVE rcvd'[h] = Due(h)'
    <3>1. /\ rcvd[h] = Due(h) /\ pushed \in Nat /\ since[h] \in Nat /\ rcvd[h] \in Nat
          /\ Registered(h)' <=> Registered(h)
      BY <1>1, <2>1 DEF TypeOK, DgramInv, EachPacketOnce, Registered
    <3>2. CASE h = clients[i]
      <4>1. \A k \in 1 .. Len(clients) : clients[k] = h <=> k = i
        BY <2>1, <3>2 DEF DgramInv
      <4>2. Registered(h) /\ Ahead(h) /\ ~Ahead(h)'
        BY <2>1, <4>1 DEF Registered, Ahead
      <4>3. rcvd'[h] = rcvd[h] + 1
        BY <1>1, <2>1, <3>2 DEF TypeOK
      <4>4. QED
        BY <2>1, <3>1, <4>2, <4>3 DEF Due
    <3>3. CASE h # clients[i]
      <4>1. rcvd'[h] = rcvd[h]
        BY <1>1, <2>1, <3>3 DEF TypeOK
      <4>2. Ahead(h)' <=> Ahead(h)
        BY <2>1, <3>3 DEF Ahead
      <4>3. QED
        BY <2>1, <3>1, <4>1, <4>2 DEF Due
    <3>4. QED
      BY <3>2, <3>3
  <2>3. QED
    BY <1>1, <2>1, <2>2 DEF DgramInv, EachPacketOnce
<1>9. CASE SendEnd
  <2>1. /\ lock /\ ~lock' /\ i > Len(clients)
        /\ UNCHANGED <<clients, ppc, client, i, pushed, since, rcvd>>
    BY <1>9 DEF SendEnd
  <2>2. ASSUME NEW h \in Hosts PROVE rcvd'[h] = Due(h)'
    <3>1. ~Ahead(h) /\ ~Ahead(h)' /\ (Registered(h)' <=> Registered(h))
      BY <1>1, <2>1 DEF Ahead, Registered, TypeOK
    <3>2. rcvd[h] = Due(h)
      BY DEF DgramInv, EachPacketOnce
    <3>3. QED
      BY <2>1, <3>1, <3>2 DEF Due
  <2>3. QED
    BY <1>1, <2>1, <2>2 DEF DgramInv, EachPacketOnce
<1>10. CASE UNCHANGED vars
  BY <1>2, <1>10 DEF vars, DgramInv
<1>11. QED
  BY <1>3, <1>4, <1>5, <1>6, <1>7, <1>8, <1>9, <1>10 DEF Next, Poll, Sender, RecvNothing, PollIdle

\* The invariant holds in every reachable state.
LEMMA DgramInvAlways == Spec => []DgramInv
<1>1. QED
  BY DgramInvInit, DgramInvNext, PTL DEF Spec

\* However many hosts write, in whatever order and against whatever pushes,
\* each registered host is sent each packet exactly once.
THEOREM EveryHostOnce == Spec => []EachPacketOnce
<1>1. DgramInv => EachPacketOnce
  BY DEF DgramInv
<1>2. QED
  BY <1>1, DgramInvAlways, PTL

\* dgram_add_client writes only to entries that were allocated, for any first
\* size and any number of hosts.
THEOREM TableFits == Spec => []TypeOK
<1>1. DgramInv => TypeOK
  BY DEF DgramInv
<1>2. QED
  BY <1>1, DgramInvAlways, PTL

-----------------------------------------------------------------------------
(* Dgram implements Broadcast.                                             *)

\* What a broadcast sees of a host.
StatusOf(h) == IF Registered(h) THEN "in" ELSE "out"
CursorOf(h) == IF rcvd[h] = 0 THEN <<0, 0>> ELSE <<since[h] + rcvd[h], 1>>

\* A step that changes none of it stutters.
LEMMA StutterStep ==
  ASSUME pushed' = pushed, \A h \in Hosts : StatusOf(h)' = StatusOf(h) /\ CursorOf(h)' = CursorOf(h)
  PROVE  UNCHANGED Promise!bvars
  BY DEF Promise!bvars, StatusOf, CursorOf

\* dgram_send_all takes the lock: whoever was sent anything has the last packet.
LEMMA SendAllPublishes ==
  ASSUME DgramInv, SendAll
  PROVE  Promise!Next
<1>1. ~lock /\ pushed' = pushed + 1 /\ UNCHANGED <<clients, since, rcvd>>
  BY DEF SendAll
<1>2. ASSUME NEW h \in Hosts, Registered(h), rcvd[h] # 0
      PROVE  since[h] + rcvd[h] = pushed
  BY <1>1, <1>2 DEF DgramInv, TypeOK, EachPacketOnce, Due, Ahead
<1>3. \A h \in Hosts : StatusOf(h)' = StatusOf(h) /\ CursorOf(h)' = CursorOf(h)
  BY <1>1 DEF StatusOf, CursorOf, Registered
<1>4. \A h \in Hosts : (StatusOf(h) = "in" /\ CursorOf(h)[2] # 0) => CursorOf(h) = <<pushed, 1>>
  BY <1>2 DEF StatusOf, CursorOf
<1>5. Promise!Publish("data")
  <2>1. ASSUME NEW h \in Hosts, Promise!Begun(h), [g \in Hosts |-> StatusOf(g)][h] = "in"
        PROVE  Promise!UpToDate(h)
    <3>1. Promise!Own(h) = CursorOf(h)
      BY DEF Promise!Own, CursorOf
    <3>2. CursorOf(h) = <<pushed, 1>>
      BY <1>4, <2>1, <3>1 DEF Promise!Begun
    <3>3. QED
      BY <3>1, <3>2 DEF Promise!UpToDate
  <2>2. \A h \in Hosts : [g \in Hosts |-> StatusOf(g)][h] # "stray"
    BY DEF StatusOf
  <2>3. /\ [g \in Hosts |-> StatusOf(g)'] = [g \in Hosts |-> StatusOf(g)]
        /\ [g \in Hosts |-> [s \in {"data"} |-> CursorOf(g)']] = [g \in Hosts |-> [s \in {"data"} |-> CursorOf(g)]]
    BY <1>3
  <2>4. [s \in {"data"} |-> pushed'] = [[s \in {"data"} |-> pushed] EXCEPT !["data"] = @ + 1]
    BY <1>1
  <2>5. QED
    BY <2>1, <2>2, <2>3, <2>4 DEF Promise!Publish, StatusOf, CursorOf
<1>6. QED
  BY <1>5 DEF Promise!Next

\* A sendto() is the next packet for the host of the entry.
LEMMA SendToReceives ==
  ASSUME DgramInv, SendTo
  PROVE  Promise!Next
<1>0. /\ lock /\ i \in 1 .. Len(clients) /\ clients[i] \in Hosts
      /\ rcvd \in [Hosts -> Nat] /\ since \in [Hosts -> Nat] /\ pushed \in Nat
  BY DEF DgramInv, TypeOK, SendTo
<1>1. PICK h \in Hosts : h = clients[i]
  BY <1>0
<1>2. /\ rcvd' = [rcvd EXCEPT ![h] = @ + 1] /\ UNCHANGED <<clients, pushed, since>>
      /\ Registered(h) /\ Ahead(h)
  BY <1>0, <1>1 DEF SendTo, Registered, Ahead
<1>3. rcvd[h] = pushed - since[h] - 1
  BY <1>0, <1>2 DEF DgramInv, EachPacketOnce, Due
<1>4. /\ CursorOf(h)' = <<pushed, 1>>
      /\ \A g \in Hosts : g # h => CursorOf(g)' = CursorOf(g)
      /\ \A g \in Hosts : StatusOf(g)' = StatusOf(g)
  BY <1>0, <1>2, <1>3 DEF CursorOf, StatusOf, Registered
<1>5. /\ StatusOf(h) = "in" /\ pushed > 0
      /\ CursorOf(h) = IF rcvd[h] = 0 THEN <<0, 0>> ELSE <<pushed - 1, 1>>
  <2>1. rcvd[h] \in Nat /\ since[h] \in Nat
    BY <1>0
  <2>2. since[h] + rcvd[h] = pushed - 1 /\ pushed > 0
    BY <1>0, <1>3, <2>1
  <2>3. QED
    BY <1>2, <2>2, Zenon DEF CursorOf, StatusOf
<1>6. Promise!NextPart(h) = <<pushed, 1>>
  <2>1. Promise!Own(h) = CursorOf(h)
    BY DEF Promise!Own, CursorOf
  <2>2. CASE rcvd[h] = 0
    BY <1>5, <2>1, <2>2 DEF Promise!NextPart, Promise!Begun
  <2>3. CASE rcvd[h] # 0
    BY <1>0, <1>5, <2>1, <2>3 DEF Promise!NextPart, Promise!Begun
  <2>4. QED
    BY <2>2, <2>3
<1>7. [g \in Hosts |-> [s \in {"data"} |-> CursorOf(g)']]
         = [[g \in Hosts |-> [s \in {"data"} |-> CursorOf(g)]] EXCEPT ![h]["data"] = <<pushed, 1>>]
  BY <1>4
<1>8. Promise!Receive(h)
  <2>1. [g \in Hosts |-> StatusOf(g)][h] = "in" /\ <<pushed, 1>>[1] = pushed
    BY <1>5
  <2>2. [s \in {"data"} |-> pushed][[g \in Hosts |-> "data"][h]] = pushed
    OBVIOUS
  <2>3. [g \in Hosts |-> StatusOf(g)'] = [g \in Hosts |-> StatusOf(g)] /\ pushed' = pushed
    BY <1>2, <1>4
  <2>4. QED
    BY <1>5, <1>6, <1>7, <2>1, <2>2, <2>3 DEF Promise!Receive, StatusOf, CursorOf
<1>9. QED
  BY <1>8 DEF Promise!Next

\* A host that is added joins, one that is known already changes nothing.
LEMMA AddJoins ==
  ASSUME DgramInv, AddClient, ~Known(client)
  PROVE  Promise!Next
<1>1. client \in Hosts /\ clients \in Seq(Hosts) /\ rcvd[client] = 0
  BY DEF AddClient, DgramInv, TypeOK, EachPacketOnce, Due, Known
<1>2. /\ clients' = Append(clients, client) /\ since' = [since EXCEPT ![client] = pushed]
      /\ UNCHANGED <<pushed, rcvd>> /\ since \in [Hosts -> Nat]
  BY DEF AddClient, DgramInv, TypeOK
<1>3. \A h \in Hosts : CursorOf(h)' = CursorOf(h)
  BY <1>1, <1>2 DEF CursorOf
<1>4. \A h \in Hosts : StatusOf(h)' = IF h = client THEN "in" ELSE StatusOf(h)
  <2> SUFFICES ASSUME NEW h \in Hosts PROVE Registered(h)' <=> (h = client \/ Registered(h))
    BY DEF StatusOf
  <2>1. /\ Len(clients') = Len(clients) + 1 /\ Len(clients) \in Nat
        /\ \A k \in 1 .. Len(clients) : clients'[k] = clients[k]
        /\ clients'[Len(clients) + 1] = client
    BY <1>1, <1>2, Added
  <2>2. QED
    BY <2>1 DEF Registered
<1>5. StatusOf(client) = "out"
  BY DEF StatusOf, Known
<1>6. Promise!Join(client)
  BY <1>1, <1>2, <1>3, <1>4, <1>5 DEF Promise!Join, StatusOf, CursorOf
<1>7. QED
  BY <1>1, <1>6 DEF Promise!Next

\* ImplementsBroadcast: a UDP peer is promised what a TCP client is, whole
\* packets in order and without gaps from its registration on.
THEOREM DgramIsBroadcast == Spec => ImplementsBroadcast
<1>1. Init => Promise!Init
  <2> SUFFICES ASSUME Init PROVE Promise!Init
    OBVIOUS
  <2>1. \A h \in Hosts : StatusOf(h) = "out" /\ CursorOf(h) = <<0, 0>>
    BY DEF Init, StatusOf, CursorOf, Registered
  <2>2. QED
    BY <2>1 DEF Init, Promise!Init, StatusOf, CursorOf
<1>2. DgramInv /\ [Next]_vars => [Promise!Next]_(Promise!bvars)
  <2> SUFFICES ASSUME DgramInv, [Next]_vars PROVE [Promise!Next]_(Promise!bvars)
    OBVIOUS
  <2>1. CASE UNCHANGED <<clients, pushed, since, rcvd>>
    BY <2>1, StutterStep DEF StatusOf, CursorOf, Registered
  <2>2. CASE AddClient
    BY <2>1, <2>2, AddJoins DEF AddClient
  <2>3. QED
    BY <2>1, <2>2, SendAllPublishes, SendToReceives
       DEF Next, Poll, Sender, vars, Arrive, RecvDgram, RecvNothing, PollIdle, SendEnd
<1>3. QED
  BY <1>1, <1>2, DgramInvAlways, PTL DEF Spec, ImplementsBroadcast, Promise!Spec
=============================================================================
