-------------------------- MODULE NetService_proofs --------------------------
(***************************************************************************)
(* Proofs about NetService: its type invariant, what is sent on every      *)
(* connection whatever becomes of its descriptor, that whole packets are   *)
(* sent without gaps, what ends the process in client mode, and that it    *)
(* implements Broadcast.                                                   *)
(***************************************************************************)
EXTENDS NetService, TLAPS

\* The steps of the specification, one disjunct per action.
LEMMA NextCases ==
  ASSUME Next
  PROVE  \/ UNCHANGED vars
         \/ \E c \in Conns : Connect(c) \/ PeerSend(c) \/ PeerClose(c)
         \/ \E s \in Services : Accept(s) \/ Refuse(s) \/ Register(s)
         \/ \E s \in Services : Snapshot(s) \/ Select(s) \/ Recheck(s) \/ HandleEnd(s)
                                \/ HandlePacket(s) \/ HandleReturn(s) \/ Discard(s)
         \/ \E s \in Services : HandleDrop(s) \/ ConnDel(s)
         \/ \E t \in SpwThreads : SpwReceive(t)
         \/ \E t \in Pushers : PushLock(t) \/ PushNext(t) \/ PushSend(t) \/ PushFail(t)
                               \/ PushUnlock(t)
  BY Zenon DEF Next, Peers, AcceptLoop, PollLoop, PushLoop

\* NextSvc picks a service that is still to be pushed to.
LEMMA NextSvcInTodo ==
  ASSUME TypeOK, PushInv, NEW t \in Pushers, pst[t] # "idle"
  PROVE  NextSvc(t) \in todo[t] /\ NextSvc(t) \in Services
<1>1. todo[t] \subseteq Services
  BY DEF TypeOK
<1>2. todo[t] # {} /\ todo[t] \subseteq {"sniff", "data", "gresb_rx", "rmap"}
  BY DEF PushInv
<1>3. NextSvc(t) \in todo[t]
  BY <1>2 DEF NextSvc
<1>4. QED
  BY <1>1, <1>3

\* The initial state is well typed: nothing is registered but the connection
\* of client mode.
LEMMA TypeInit == Init => TypeOK
<1> SUFFICES ASSUME Init PROVE TypeOK
  OBVIOUS
<1> USE DEF Init
<1>1. /\ fdtab \in [Fds -> Conns \cup {NoConn}]
      /\ cst \in [Conns -> {"new", "pending", "accepted", "joined", "closed"}]
      /\ inq \in [Conns -> Nat] /\ sent \in [Conns -> 0 .. MaxIn]
      /\ eof \in [Conns -> BOOLEAN]
  BY ConnsAssumption, BoundsAssumption DEF ClientMode
<1>2. connSet \in [Services -> SUBSET {fd \in Fds : fd < FdSetSize}]
  BY FdAssumption DEF Fds
<1>3. nfds \in [Services -> 0 .. FdSetSize]
  BY FdAssumption
<1>4. /\ lock \in [Services -> Pushers \cup {NoThread}]
      /\ apc \in [Services -> {"accept", "set"}]
      /\ afd \in [Services -> {fd \in Fds : fd < FdSetSize}]
      /\ aconn \in [Services -> Conns \cup {NoConn}]
      /\ ppc \in [Services -> {"snap", "select", "recheck", "handle", "push", "del"}]
      /\ readset \in [Services -> SUBSET {fd \in Fds : fd < FdSetSize}]
  BY FdAssumption DEF Fds
<1>5. /\ pst \in [Pushers -> {"idle", "lock", "scan", "send"}]
      /\ todo \in [Pushers -> SUBSET Services]
      /\ pfd \in [Pushers -> Nat] /\ chunk \in [Pushers -> 1 .. Chunks]
      /\ npkt \in [SpwThreads -> 0 .. MaxPkts]
  BY BoundsAssumption
<1>6. got \in [Conns -> [Services -> Nat \X (0 .. Chunks)]]
  <2>1. <<0, 0>> \in Nat \X (0 .. Chunks)
    BY BoundsAssumption
  <2>2. QED
    BY <2>1
<1>7. /\ pushno \in [Services -> Nat] /\ reused \subseteq Conns
      /\ exited \in BOOLEAN
  OBVIOUS
<1>8. QED
  BY <1>1, <1>2, <1>3, <1>4, <1>5, <1>6, <1>7 DEF TypeOK

\* Every operation keeps the types; accept_connections keeps descriptors above
\* FD_SETSIZE out of the sets.
LEMMA TypeNext == TypeOK /\ PushInv /\ [Next]_vars => TypeOK'
<1> SUFFICES ASSUME TypeOK, PushInv, [Next]_vars PROVE TypeOK'
  OBVIOUS
<1> USE DEF TypeOK
<1>1. CASE UNCHANGED vars
  BY <1>1 DEF vars, kernel, members, accepts, polls, pushes, history
<1>2. ASSUME NEW c \in Conns, Connect(c) PROVE TypeOK'
  BY <1>2 DEF Connect, members, accepts, polls, pushes, history
<1>3. ASSUME NEW c \in Conns, PeerSend(c) PROVE TypeOK'
  BY <1>3, BoundsAssumption DEF PeerSend, members, accepts, polls, pushes, history
<1>4. ASSUME NEW c \in Conns, PeerClose(c) PROVE TypeOK'
  BY <1>4 DEF PeerClose, members, accepts, polls, pushes, history
<1>5. ASSUME NEW s \in Services, Accept(s) PROVE TypeOK'
  BY <1>5 DEF Accept, Lowest, FreeFds, FitsFdSet, members, polls, pushes, history
<1>6. ASSUME NEW s \in Services, Refuse(s) PROVE TypeOK'
  BY <1>6 DEF Refuse, members, accepts, polls, pushes, history
<1>7. ASSUME NEW s \in Services, Register(s) PROVE TypeOK'
  <2>1. connSet' \in [Services -> SUBSET {fd \in Fds : fd < FdSetSize}]
    BY <1>7 DEF Register
  <2>2. RaisedNfds(s, afd[s]) \in 0 .. FdSetSize
    <3>1. afd[s] \in Nat /\ afd[s] < FdSetSize /\ nfds[s] \in 0 .. FdSetSize
      BY FdAssumption DEF Fds
    <3>2. QED
      BY <3>1, FdAssumption DEF RaisedNfds
  <2>3. nfds' \in [Services -> 0 .. FdSetSize]
    BY <1>7, <2>2 DEF Register
  <2>4. QED
    BY <1>7, <2>1, <2>3 DEF Register, polls, pushes, history
<1>8. ASSUME NEW s \in Services, Snapshot(s) PROVE TypeOK'
  BY <1>8 DEF Snapshot, kernel, members, accepts, pushes, history
<1>9. ASSUME NEW s \in Services, Select(s) PROVE TypeOK'
  BY <1>9 DEF Select, kernel, members, accepts, pushes, history
<1>10. ASSUME NEW s \in Services, Recheck(s) PROVE TypeOK'
  BY <1>10 DEF Recheck, kernel, members, accepts, pushes, history
<1>11. ASSUME NEW s \in Services, HandleEnd(s) PROVE TypeOK'
  BY <1>11 DEF HandleEnd, kernel, members, accepts, pushes, history
<1>12. ASSUME NEW s \in Services, HandlePacket(s) PROVE TypeOK'
  BY <1>12 DEF HandlePacket, PollRoute, Pushers, Lowest, members, accepts, history
<1>13. ASSUME NEW s \in Services, HandleReturn(s) PROVE TypeOK'
  BY <1>13 DEF HandleReturn, kernel, members, accepts, pushes, history
<1>14. ASSUME NEW s \in Services, Discard(s) PROVE TypeOK'
  <2>1. inq' \in [Conns -> Nat]
    <3>1. PICK fd : inq' = [inq EXCEPT ![fdtab[fd]] = 0]
      BY <1>14 DEF Discard
    <3>2. QED
      BY <3>1
  <2>2. readset' \in [Services -> SUBSET {fd \in Fds : fd < FdSetSize}]
    <3>1. readset' = [readset EXCEPT ![s] = @ \ Lowest(@)]
      BY <1>14 DEF Discard
    <3>2. QED
      BY <3>1
  <2>3. QED
    BY <1>14, <2>1, <2>2 DEF Discard, members, accepts, pushes, history
<1>15. ASSUME NEW s \in Services, HandleDrop(s) PROVE TypeOK'
  BY <1>15 DEF HandleDrop, CloseFd, members, accepts, pushes, history
<1>16. ASSUME NEW s \in Services, ConnDel(s) PROVE TypeOK'
  BY <1>16 DEF ConnDel, ExitsOnDrop, ClientMode, kernel, accepts, pushes, history
<1>17. ASSUME NEW t \in SpwThreads, SpwReceive(t) PROVE TypeOK'
  BY <1>17, BoundsAssumption DEF SpwReceive, SpwRoutes, ForwardRoute, Pushers, kernel, members, accepts, polls, history
<1>18. ASSUME NEW t \in Pushers, PushLock(t) PROVE TypeOK'
  BY <1>18, NextSvcInTodo DEF PushLock, kernel, members, accepts, polls, history
<1>19. ASSUME NEW t \in Pushers, PushNext(t) PROVE TypeOK'
  <2>1. NextSvc(t) \in Services
    BY <1>19, NextSvcInTodo DEF PushNext
  <2>2. Ahead(t) \subseteq Nat
    BY <2>1, FdAssumption DEF Ahead, Fds
  <2>3. pfd' \in [Pushers -> Nat]
    BY <1>19, <2>2 DEF PushNext, Lowest
  <2>4. chunk' \in [Pushers -> 1 .. Chunks]
    BY <1>19, BoundsAssumption DEF PushNext
  <2>5. QED
    BY <1>19, <2>3, <2>4 DEF PushNext, kernel, members, accepts, polls, history
<1>20. ASSUME NEW t \in Pushers, PushSend(t) PROVE TypeOK'
  <2>1. NextSvc(t) \in Services
    BY <1>20, NextSvcInTodo DEF PushSend
  <2>2. reused' \subseteq Conns
    BY <1>20 DEF PushSend
  <2>3. got' \in [Conns -> [Services -> Nat \X (0 .. Chunks)]]
    <3>1. <<pushno[NextSvc(t)], chunk[t]>> \in Nat \X (0 .. Chunks)
      <4>1. pushno[NextSvc(t)] \in Nat /\ chunk[t] \in 1 .. Chunks
        BY <2>1
      <4>2. QED
        BY <4>1, BoundsAssumption
    <3>2. QED
      BY <1>20, <3>1 DEF PushSend
  <2>4. chunk' \in [Pushers -> 1 .. Chunks] /\ pfd' \in [Pushers -> Nat]
    <3>1. chunk[t] \in 1 .. Chunks /\ pfd[t] \in Nat
      OBVIOUS
    <3>2. /\ chunk' = [chunk EXCEPT ![t] = IF chunk[t] < Chunks THEN chunk[t] + 1 ELSE 1]
          /\ pfd' = [pfd EXCEPT ![t] = IF chunk[t] < Chunks THEN pfd[t] ELSE pfd[t] + 1]
      BY <1>20 DEF PushSend
    <3>3. QED
      BY <3>1, <3>2, BoundsAssumption
  <2>5. QED
    BY <1>20, <2>2, <2>3, <2>4 DEF PushSend, kernel, members, accepts, polls
<1>21. ASSUME NEW t \in Pushers, PushFail(t) PROVE TypeOK'
  <2>1. connSet' \in [Services -> SUBSET {fd \in Fds : fd < FdSetSize}]
    BY <1>21 DEF PushFail
  <2>2. fdtab' \in [Fds -> Conns \cup {NoConn}]
    BY <1>21 DEF PushFail, CloseFd
  <2>3. cst' \in [Conns -> {"new", "pending", "accepted", "joined", "closed"}]
    BY <1>21 DEF PushFail, CloseFd
  <2>4. /\ pfd' \in [Pushers -> Nat] /\ chunk' \in [Pushers -> 1 .. Chunks]
        /\ pst' \in [Pushers -> {"idle", "lock", "scan", "send"}]
    BY <1>21, BoundsAssumption DEF PushFail
  <2>5. exited' \in BOOLEAN
    BY <1>21 DEF PushFail, ExitsOnDrop, ClientMode
  <2>6. QED
    BY <1>21, <2>1, <2>2, <2>3, <2>4, <2>5 DEF PushFail, accepts, polls, history
<1>22. ASSUME NEW t \in Pushers, PushUnlock(t) PROVE TypeOK'
  BY <1>22 DEF PushUnlock, kernel, members, accepts, polls, history
<1>23. QED
  BY <1>1, <1>2, <1>3, <1>4, <1>5, <1>6, <1>7, <1>8, <1>9, <1>10, <1>11, <1>12, <1>13,
     <1>14, <1>15, <1>16, <1>17, <1>18, <1>19, <1>20, <1>21, <1>22, NextCases, Zenon

\* The name no thread has is not the name of a thread.
LEMMA NoThreadIsNone == NoThread \notin Pushers
  BY ServicesAssumption, ThreadsAssumption DEF Pushers, NoThread, AllServices

\* What the push loops rest on holds before the first packet.
LEMMA PushInit == Init => PushInv /\ LockInv
  BY NoThreadIsNone DEF Init, PushInv, LockInv, Pushers

pushState == <<pst, todo, pfd, connSet, nfds, lock>>

\* Operations that are not part of a push, and neither register nor delete
\* a connection, leave what the push loops rest on alone.
LEMMA PushStutter ==
  ASSUME PushInv, LockInv, UNCHANGED pushState,
         \A s \in Services : ppc'[s] = "push" \/ pst[s] = "idle"
  PROVE  PushInv' /\ LockInv'
<1>1. \A t \in Pushers : NextSvc(t)' = NextSvc(t)
  BY DEF pushState, NextSvc
<1>2. PushInv'
  BY <1>1 DEF PushInv, pushState
<1>3. LockInv'
  BY <1>1 DEF LockInv, pushState
<1>4. QED
  BY <1>2, <1>3

\* Every operation keeps what the push loops rest on: deleting a connection
\* needs svc->lock, so it never pulls a descriptor from under a push.
LEMMA PushNextInv == TypeOK /\ PushInv /\ LockInv /\ [Next]_vars => PushInv' /\ LockInv'
<1> SUFFICES ASSUME TypeOK, PushInv, LockInv, [Next]_vars PROVE PushInv' /\ LockInv'
  OBVIOUS
<1> USE DEF pushState, members, accepts, polls, pushes
<1>0. \A s \in Services : ppc[s] = "push" \/ pst[s] = "idle"
  BY DEF PushInv
<1>1. CASE UNCHANGED vars
  BY <1>0, <1>1, PushStutter DEF vars
<1>2. ASSUME NEW c \in Conns, Connect(c) \/ PeerSend(c) \/ PeerClose(c) PROVE PushInv' /\ LockInv'
  BY <1>0, <1>2, PushStutter DEF Connect, PeerSend, PeerClose
<1>3. ASSUME NEW s \in Services, Accept(s) \/ Refuse(s) PROVE PushInv' /\ LockInv'
  BY <1>0, <1>3, PushStutter DEF Accept, Refuse
<1>4. ASSUME NEW s \in Services, Register(s) PROVE PushInv' /\ LockInv'
  <2>1. /\ connSet' = [connSet EXCEPT ![s] = @ \cup {afd[s]}]
        /\ nfds' = [nfds EXCEPT ![s] = RaisedNfds(s, afd[s])]
        /\ UNCHANGED <<pst, todo, pfd, lock, ppc>>
    BY <1>4 DEF Register
  <2>2. \A t \in Pushers : NextSvc(t)' = NextSvc(t)
    BY <2>1 DEF NextSvc
  <2>3. afd[s] \in Nat /\ nfds[s] \in Nat
    BY FdAssumption DEF TypeOK, Fds
  <2>4. RaisedNfds(s, afd[s]) \in Nat /\ nfds[s] <= RaisedNfds(s, afd[s])
    BY <2>3 DEF RaisedNfds
  <2>5. \A r \in Services : /\ connSet[r] \subseteq connSet'[r]
                            /\ nfds[r] \in Nat /\ nfds'[r] \in Nat /\ nfds[r] <= nfds'[r]
    BY <2>1, <2>3, <2>4 DEF TypeOK
  <2>6. \A t \in Pushers : pfd[t] \in Nat /\ (pst[t] = "send" => NextSvc(t) \in Services)
    BY NextSvcInTodo DEF TypeOK
  <2>7. PushInv'
    BY <2>1, <2>2, <2>5, <2>6 DEF PushInv
  <2>8. LockInv'
    BY <2>1, <2>2 DEF LockInv
  <2>9. QED
    BY <2>7, <2>8
<1>5. ASSUME NEW s \in Services, Snapshot(s) \/ Select(s) \/ Recheck(s) \/ HandleEnd(s)
                                 \/ Discard(s) \/ HandleDrop(s)
      PROVE  PushInv' /\ LockInv'
  <2>1. \A r \in Services : ppc'[r] = "push" \/ pst[r] = "idle"
    BY <1>0, <1>5 DEF Snapshot, Select, Recheck, HandleEnd, Discard, HandleDrop, TypeOK
  <2>2. UNCHANGED pushState
    BY <1>5 DEF Snapshot, Select, Recheck, HandleEnd, Discard, HandleDrop
  <2>3. QED
    BY <2>1, <2>2, PushStutter
<1>6. ASSUME NEW s \in Services, HandleReturn(s) PROVE PushInv' /\ LockInv'
  <2>1. \A r \in Services : ppc'[r] = "push" \/ pst[r] = "idle"
    BY <1>0, <1>6 DEF HandleReturn, TypeOK
  <2>2. QED
    BY <1>6, <2>1, PushStutter DEF HandleReturn
<1>7. ASSUME NEW s \in Services, HandlePacket(s) PROVE PushInv' /\ LockInv'
  <2>1. s \in Pushers /\ pst[s] = "idle"
    BY <1>7, <1>0 DEF HandlePacket, Pushers
  <2>2. /\ ppc' = [ppc EXCEPT ![s] = "push"]
        /\ todo' = [todo EXCEPT ![s] = PollRoute(s)]
        /\ pst' = [pst EXCEPT ![s] = IF PollRoute(s) = {} THEN "idle" ELSE "lock"]
        /\ UNCHANGED <<pfd, connSet, nfds, lock>>
    BY <1>7 DEF HandlePacket
  <2>3. PollRoute(s) \subseteq {"sniff"}
    BY DEF PollRoute
  <2>4. \A t \in Pushers : t # s => NextSvc(t)' = NextSvc(t) /\ pst'[t] = pst[t] /\ todo'[t] = todo[t]
    BY <2>2 DEF NextSvc, TypeOK
  <2>5. pst'[s] \in {"idle", "lock"} /\ todo'[s] = PollRoute(s) /\ (pst'[s] # "idle" => todo'[s] # {})
    BY <2>1, <2>2 DEF TypeOK
  <2>6. \A r \in Services : ppc'[r] = "push" \/ pst'[r] = "idle"
    BY <1>0, <2>2, <2>4 DEF TypeOK, Pushers
  <2>7. PushInv'
    BY <2>2, <2>3, <2>4, <2>5, <2>6 DEF PushInv
  <2>8. LockInv'
    BY <2>1, <2>2, <2>4, <2>5 DEF LockInv
  <2>9. QED
    BY <2>7, <2>8
<1>8. ASSUME NEW s \in Services, ConnDel(s) PROVE PushInv' /\ LockInv'
  <2>1. /\ connSet' = [connSet EXCEPT ![s] = @ \ Lowest(readset[s])]
        /\ lock[s] = NoThread
        /\ ppc' = [ppc EXCEPT ![s] = "handle"] /\ ppc[s] = "del"
        /\ UNCHANGED <<pst, todo, pfd, nfds, lock>>
    BY <1>8 DEF ConnDel
  <2>2. \A t \in Pushers : NextSvc(t)' = NextSvc(t)
    BY <2>1 DEF NextSvc
  <2>3. \A t \in Pushers : pst[t] = "send" => NextSvc(t) # s
    BY <2>1, NoThreadIsNone DEF LockInv
  <2>4. LockInv'
    BY <2>1, <2>2 DEF LockInv
  <2>5. \A t \in Pushers : pst[t] = "send" => connSet'[NextSvc(t)] = connSet[NextSvc(t)]
    BY <2>1, <2>3, NextSvcInTodo DEF TypeOK
  <2>6. \A r \in Services : ppc'[r] = "push" \/ pst[r] = "idle"
    BY <1>0, <2>1 DEF TypeOK
  <2>7. PushInv'
    BY <2>1, <2>2, <2>5, <2>6 DEF PushInv
  <2>8. QED
    BY <2>4, <2>7
<1>9. ASSUME NEW t \in SpwThreads, SpwReceive(t) PROVE PushInv' /\ LockInv'
  <2>1. PICK route \in SpwRoutes : todo' = [todo EXCEPT ![t] = route]
    BY <1>9 DEF SpwReceive
  <2>2. /\ pst[t] = "idle" /\ pst' = [pst EXCEPT ![t] = "lock"]
        /\ UNCHANGED <<pfd, connSet, nfds, lock, ppc>>
    BY <1>9 DEF SpwReceive
  <2>3. route # {} /\ route \subseteq {"sniff", "data", "gresb_rx", "rmap"}
    BY ServicesAssumption DEF SpwRoutes, ForwardRoute
  <2>4. t \in Pushers /\ t \notin Services
    BY ServicesAssumption, ThreadsAssumption DEF Pushers
  <2>5. \A u \in Pushers : u # t => NextSvc(u)' = NextSvc(u) /\ pst'[u] = pst[u] /\ todo'[u] = todo[u]
    BY <2>1, <2>2 DEF NextSvc, TypeOK
  <2>6. pst'[t] = "lock" /\ todo'[t] = route
    BY <2>1, <2>2, <2>4 DEF TypeOK
  <2>7. \A r \in Services : ppc'[r] = "push" \/ pst'[r] = "idle"
    BY <1>0, <2>2, <2>4, <2>5 DEF Pushers
  <2>8. PushInv'
    BY <2>2, <2>3, <2>5, <2>6, <2>7 DEF PushInv
  <2>9. LockInv'
    BY <2>2, <2>4, <2>5, <2>6 DEF LockInv
  <2>10. QED
    BY <2>8, <2>9
<1>10. ASSUME NEW t \in Pushers, PushLoop(t) PROVE PushInv' /\ LockInv'
  <2>1. pst[t] # "idle" /\ NextSvc(t) \in Services /\ NextSvc(t) \in todo[t]
    BY <1>10, NextSvcInTodo
       DEF PushLoop, PushLock, PushNext, PushSend, PushFail, PushUnlock
  <2> DEFINE s == NextSvc(t)
  <2>2. \A r \in Services : ppc[r] = "push" \/ (pst[r] = "idle" /\ r # t)
    BY <1>0, <2>1
  <2>3. ppc' = ppc
    BY <1>10 DEF PushLoop, PushLock, PushNext, PushSend, PushFail, PushUnlock
  <2>4. CASE PushLock(t)
    <3>1. /\ lock[s] = NoThread /\ lock' = [lock EXCEPT ![s] = t]
          /\ pst[t] = "lock" /\ pst' = [pst EXCEPT ![t] = "scan"]
          /\ pfd' = [pfd EXCEPT ![t] = 0] /\ UNCHANGED <<todo, connSet, nfds>>
      BY <2>4 DEF PushLock
    <3>2. \A u \in Pushers : NextSvc(u)' = NextSvc(u)
      BY <3>1 DEF NextSvc
    <3>3. \A u \in Pushers : u # t => pst'[u] = pst[u] /\ pfd'[u] = pfd[u]
      BY <3>1 DEF TypeOK
    <3>4. pst'[t] = "scan"
      BY <3>1 DEF TypeOK
    <3>5. PushInv'
      BY <2>1, <2>2, <2>3, <3>1, <3>2, <3>3, <3>4 DEF PushInv, Pushers
    <3>6. \A r \in Services : lock'[r] = IF r = s THEN t ELSE lock[r]
      BY <2>1, <3>1 DEF TypeOK
    <3>7. LockInv'
      BY <2>1, <3>1, <3>2, <3>3, <3>4, <3>6, NoThreadIsNone DEF LockInv
    <3>8. QED
      BY <3>5, <3>7
  <2>5. CASE PushNext(t)
    <3>1. PICK fd \in Ahead(t) : pfd' = [pfd EXCEPT ![t] = fd]
      BY <2>5 DEF PushNext, Lowest
    <3>2. /\ pst[t] = "scan" /\ pst' = [pst EXCEPT ![t] = "send"]
          /\ UNCHANGED <<todo, connSet, nfds, lock>>
      BY <2>5 DEF PushNext
    <3>3. \A u \in Pushers : NextSvc(u)' = NextSvc(u)
      BY <3>2 DEF NextSvc
    <3>4. \A u \in Pushers : u # t => pst'[u] = pst[u] /\ pfd'[u] = pfd[u]
      BY <3>1, <3>2 DEF TypeOK
    <3>5. pst'[t] = "send" /\ pfd'[t] \in connSet[s] /\ pfd'[t] < nfds[s]
      BY <3>1, <3>2 DEF TypeOK, Ahead
    <3>6. PushInv'
      BY <2>1, <2>2, <2>3, <3>2, <3>3, <3>4, <3>5 DEF PushInv, Pushers
    <3>7. LockInv'
      BY <3>2, <3>3, <3>4, <3>5 DEF LockInv
    <3>8. QED
      BY <3>6, <3>7
  <2>6. CASE PushSend(t)
    <3>1. /\ pst[t] = "send"
          /\ pst' = [pst EXCEPT ![t] = IF chunk[t] < Chunks THEN "send" ELSE "scan"]
          /\ pfd' = [pfd EXCEPT ![t] = IF chunk[t] < Chunks THEN @ ELSE @ + 1]
          /\ UNCHANGED <<todo, connSet, nfds, lock>>
      BY <2>6 DEF PushSend
    <3>2. \A u \in Pushers : NextSvc(u)' = NextSvc(u)
      BY <3>1 DEF NextSvc
    <3>3. \A u \in Pushers : u # t => pst'[u] = pst[u] /\ pfd'[u] = pfd[u]
      BY <3>1 DEF TypeOK
    <3>4. pst'[t] \in {"scan", "send"} /\ (pst'[t] = "send" => pfd'[t] = pfd[t])
      BY <3>1 DEF TypeOK
    <3>5. PushInv'
      BY <2>1, <2>2, <2>3, <3>1, <3>2, <3>3, <3>4 DEF PushInv, Pushers
    <3>6. LockInv'
      BY <3>1, <3>2, <3>3, <3>4 DEF LockInv
    <3>7. QED
      BY <3>5, <3>6
  <2>7. CASE PushFail(t)
    <3>1. /\ pst[t] = "send" /\ pst' = [pst EXCEPT ![t] = "scan"]
          /\ pfd' = [pfd EXCEPT ![t] = @ + 1]
          /\ connSet' = [connSet EXCEPT ![s] = @ \ {pfd[t]}]
          /\ UNCHANGED <<todo, nfds, lock>>
      BY <2>7 DEF PushFail
    <3>2. \A u \in Pushers : NextSvc(u)' = NextSvc(u)
      BY <3>1 DEF NextSvc
    <3>3. \A u \in Pushers : u # t => pst'[u] = pst[u] /\ pfd'[u] = pfd[u]
      BY <3>1 DEF TypeOK
    <3>4. pst'[t] = "scan"
      BY <3>1 DEF TypeOK
    <3>5. \A u \in Pushers : u # t /\ pst[u] = "send" => NextSvc(u) # s
      BY <2>1, <3>1 DEF LockInv
    <3>6. \A u \in Pushers : u # t /\ pst[u] = "send" => connSet'[NextSvc(u)] = connSet[NextSvc(u)]
      BY <3>1, <3>5, NextSvcInTodo DEF TypeOK
    <3>7. PushInv'
      BY <2>1, <2>2, <2>3, <3>1, <3>2, <3>3, <3>4, <3>6 DEF PushInv, Pushers
    <3>8. LockInv'
      BY <3>1, <3>2, <3>3, <3>4 DEF LockInv
    <3>9. QED
      BY <3>7, <3>8
  <2>8. CASE PushUnlock(t)
    <3>1. /\ pst[t] = "scan" /\ lock' = [lock EXCEPT ![s] = NoThread]
          /\ todo' = [todo EXCEPT ![t] = @ \ {s}]
          /\ pst' = [pst EXCEPT ![t] = IF todo[t] = {s} THEN "idle" ELSE "lock"]
          /\ UNCHANGED <<pfd, connSet, nfds>>
      BY <2>8 DEF PushUnlock
    <3>2. \A u \in Pushers : u # t => NextSvc(u)' = NextSvc(u) /\ pst'[u] = pst[u] /\ todo'[u] = todo[u]
      BY <3>1 DEF NextSvc, TypeOK
    <3>3. /\ pst'[t] \in {"idle", "lock"} /\ todo'[t] = todo[t] \ {s}
          /\ pst'[t] # "idle" => todo'[t] # {}
      BY <2>1, <3>1 DEF TypeOK
    <3>4. PushInv'
      BY <2>1, <2>2, <2>3, <3>1, <3>2, <3>3 DEF PushInv, Pushers
    <3>5. \A r \in Services : lock'[r] = IF r = s THEN NoThread ELSE lock[r]
      BY <2>1, <3>1 DEF TypeOK
    <3>6. \A u \in Pushers : lock[s] = u <=> u = t
      BY <2>1, <3>1 DEF LockInv
    <3>7. LockInv'
      BY <2>1, <3>1, <3>2, <3>3, <3>5, <3>6, NoThreadIsNone DEF LockInv
    <3>8. QED
      BY <3>4, <3>7
  <2>9. QED
    BY <1>10, <2>4, <2>5, <2>6, <2>7, <2>8 DEF PushLoop
<1>11. QED
  BY <1>1, <1>2, <1>3, <1>4, <1>5, <1>6, <1>7, <1>8, <1>9, <1>10, NextCases, Zenon DEF PushLoop

\* No connection is accepted twice and none is being accepted at the start.
LEMMA FdInit == Init => FdInv /\ AcceptInv
  BY ConnsAssumption DEF Init, FdInv, AcceptInv, ClientMode, Fds

\* close() of a descriptor, by whichever thread, closes the connection behind
\* it and no other.
LEMMA CloseKeepsFdInv ==
  ASSUME TypeOK, FdInv, AcceptInv, NEW fd \in Fds, CloseFd(fd), UNCHANGED accepts
  PROVE  FdInv' /\ AcceptInv'
<1>1. \A f \in Fds : fdtab'[f] = IF f = fd THEN NoConn ELSE fdtab[f]
  BY DEF CloseFd, TypeOK
<1>2. \A c \in Conns : cst'[c] = IF c = fdtab[fd] THEN "closed" ELSE cst[c]
  BY ConnsAssumption DEF CloseFd, TypeOK
<1>3. \A f \in Fds : fdtab[f] \in Conns \cup {NoConn}
  BY DEF TypeOK
<1>4. FdInv'
  BY <1>1, <1>2, <1>3 DEF FdInv
<1>5. \A s \in Services : afd[s] \in Fds
  BY DEF TypeOK
<1>6. AcceptInv'
  BY <1>1, <1>2, <1>3, <1>5, ConnsAssumption DEF AcceptInv, accepts
<1>7. QED
  BY <1>4, <1>6

\* Every operation keeps descriptors and connections one to one.
LEMMA FdNext == TypeOK /\ PushInv /\ FdInv /\ AcceptInv /\ [Next]_vars => FdInv' /\ AcceptInv'
<1> SUFFICES ASSUME TypeOK, PushInv, FdInv, AcceptInv, [Next]_vars PROVE FdInv' /\ AcceptInv'
  OBVIOUS
<1>0. ASSUME UNCHANGED <<fdtab, cst, accepts>> PROVE FdInv' /\ AcceptInv'
  BY <1>0 DEF FdInv, AcceptInv, accepts
<1>1. CASE UNCHANGED vars
  BY <1>0, <1>1 DEF vars, kernel
<1>2. ASSUME NEW c \in Conns, Connect(c) PROVE FdInv' /\ AcceptInv'
  <2>1. /\ cst[c] = "new" /\ cst' = [cst EXCEPT ![c] = "pending"]
        /\ UNCHANGED <<fdtab, apc, afd, aconn>>
    BY <1>2 DEF Connect, accepts
  <2>2. \A d \in Conns : cst'[d] = IF d = c THEN "pending" ELSE cst[d]
    BY <2>1 DEF TypeOK
  <2>3. \A f \in Fds : fdtab[f] \in Conns \cup {NoConn}
    BY DEF TypeOK
  <2>4. FdInv'
    BY <2>1, <2>2, <2>3 DEF FdInv
  <2>5. AcceptInv'
    BY <2>1, <2>2 DEF AcceptInv
  <2>6. QED
    BY <2>4, <2>5
<1>3. ASSUME NEW c \in Conns, PeerSend(c) \/ PeerClose(c) PROVE FdInv' /\ AcceptInv'
  BY <1>0, <1>3 DEF PeerSend, PeerClose
<1>4. ASSUME NEW s \in Services, Accept(s) PROVE FdInv' /\ AcceptInv'
  <2>1. PICK c \in Conns, fd \in FreeFds :
           /\ cst[c] = "pending" /\ Target[c] = s
           /\ fdtab' = [fdtab EXCEPT ![fd] = c] /\ cst' = [cst EXCEPT ![c] = "accepted"]
           /\ afd' = [afd EXCEPT ![s] = fd] /\ aconn' = [aconn EXCEPT ![s] = c]
    BY <1>4 DEF Accept, Lowest
  <2>2. apc[s] = "accept" /\ apc' = [apc EXCEPT ![s] = "set"]
    BY <1>4 DEF Accept
  <2>3. fd \in Fds /\ fdtab[fd] = NoConn
    BY DEF FreeFds
  <2>4. \A f \in Fds : fdtab'[f] = IF f = fd THEN c ELSE fdtab[f]
    BY <2>1, <2>3 DEF TypeOK
  <2>5. \A d \in Conns : cst'[d] = IF d = c THEN "accepted" ELSE cst[d]
    BY <2>1 DEF TypeOK
  <2>6. ASSUME NEW f \in Fds PROVE fdtab[f] \in Conns \cup {NoConn} /\ fdtab[f] # c
    <3>1. fdtab[f] # NoConn => cst[fdtab[f]] # "pending"
      BY DEF FdInv
    <3>2. QED
      BY <2>1, <3>1, ConnsAssumption DEF TypeOK
  <2>7. FdInv'
    BY <2>4, <2>5, <2>6 DEF FdInv
  <2>8. \A r \in Services : /\ afd'[r] = IF r = s THEN fd ELSE afd[r]
                            /\ aconn'[r] = IF r = s THEN c ELSE aconn[r]
                            /\ apc'[r] = IF r = s THEN "set" ELSE apc[r]
                            /\ afd[r] \in Fds
    BY <2>1, <2>2 DEF TypeOK
  <2>9. AcceptInv'
    BY <2>1, <2>3, <2>4, <2>5, <2>6, <2>8 DEF AcceptInv
  <2>10. QED
    BY <2>7, <2>9
<1>5. ASSUME NEW s \in Services, Refuse(s) PROVE FdInv' /\ AcceptInv'
  <2>1. PICK c \in Conns : cst[c] = "pending" /\ cst' = [cst EXCEPT ![c] = "closed"]
    BY <1>5 DEF Refuse
  <2>2. UNCHANGED <<fdtab, apc, afd, aconn>>
    BY <1>5 DEF Refuse, accepts
  <2>3. \A d \in Conns : cst'[d] = IF d = c THEN "closed" ELSE cst[d]
    BY <2>1 DEF TypeOK
  <2>4. \A f \in Fds : fdtab[f] \in Conns \cup {NoConn}
    BY DEF TypeOK
  <2>5. FdInv'
    BY <2>1, <2>2, <2>3, <2>4 DEF FdInv
  <2>6. AcceptInv'
    BY <2>1, <2>2, <2>3 DEF AcceptInv
  <2>7. QED
    BY <2>5, <2>6
<1>6. ASSUME NEW s \in Services, Register(s) PROVE FdInv' /\ AcceptInv'
  <2>1. /\ apc[s] = "set" /\ apc' = [apc EXCEPT ![s] = "accept"]
        /\ UNCHANGED <<fdtab, afd, aconn>>
    BY <1>6 DEF Register
  <2>2. aconn[s] \in Conns
    BY <2>1 DEF AcceptInv
  <2>3. \A d \in Conns : cst'[d] = IF d = aconn[s] /\ cst[d] = "accepted" THEN "joined" ELSE cst[d]
    BY <1>6, <2>2 DEF Register, TypeOK
  <2>4. \A f \in Fds : fdtab[f] \in Conns \cup {NoConn}
    BY DEF TypeOK
  <2>5. FdInv'
    BY <2>1, <2>3, <2>4 DEF FdInv
  <2>6. \A r \in Services : apc'[r] = IF r = s THEN "accept" ELSE apc[r]
    BY <2>1 DEF TypeOK
  <2>7. \A r \in Services : r # s /\ apc[r] = "set" => aconn[r] # aconn[s]
    BY <2>1 DEF AcceptInv
  <2>8. AcceptInv'
    BY <2>1, <2>3, <2>6, <2>7 DEF AcceptInv
  <2>9. QED
    BY <2>5, <2>8
<1>7. ASSUME NEW s \in Services, \/ Snapshot(s) \/ Select(s) \/ Recheck(s) \/ HandleEnd(s)
                                 \/ HandlePacket(s) \/ HandleReturn(s) \/ Discard(s) \/ ConnDel(s)
      PROVE  FdInv' /\ AcceptInv'
  <2>1. UNCHANGED <<fdtab, cst, accepts>>
    BY <1>7 DEF Snapshot, Select, Recheck, HandleEnd, HandlePacket, HandleReturn, Discard,
                ConnDel, kernel
  <2>2. QED
    BY <1>0, <2>1
<1>8. ASSUME NEW s \in Services, HandleDrop(s) PROVE FdInv' /\ AcceptInv'
  <2>1. PICK fd \in readset[s] : CloseFd(fd)
    BY <1>8 DEF HandleDrop, Lowest
  <2>2. fd \in Fds
    BY DEF TypeOK
  <2>3. UNCHANGED accepts
    BY <1>8 DEF HandleDrop
  <2>4. QED
    BY <2>1, <2>2, <2>3, CloseKeepsFdInv
<1>9. ASSUME NEW t \in SpwThreads, SpwReceive(t) PROVE FdInv' /\ AcceptInv'
  BY <1>0, <1>9 DEF SpwReceive, kernel
<1>10. ASSUME NEW t \in Pushers, PushLock(t) \/ PushNext(t) \/ PushSend(t) \/ PushUnlock(t)
       PROVE  FdInv' /\ AcceptInv'
  BY <1>0, <1>10 DEF PushLock, PushNext, PushSend, PushUnlock, kernel
<1>11. ASSUME NEW t \in Pushers, PushFail(t) PROVE FdInv' /\ AcceptInv'
  <2>1. CloseFd(pfd[t]) /\ pst[t] = "send" /\ UNCHANGED accepts
    BY <1>11 DEF PushFail
  <2>2. pfd[t] \in Fds
    BY <2>1, NextSvcInTodo DEF PushInv, TypeOK
  <2>3. QED
    BY <2>1, <2>2, CloseKeepsFdInv
<1>12. QED
  BY <1>1, <1>2, <1>3, <1>4, <1>5, <1>6, <1>7, <1>8, <1>9, <1>10, <1>11, NextCases, Zenon

\* Type correctness of the services for any number of services, threads,
\* connections and descriptors.
THEOREM TypeCorrect == Spec => []TypeOK
<1>1. Init => TypeOK /\ PushInv /\ LockInv
  BY TypeInit, PushInit
<1>2. TypeOK /\ PushInv /\ LockInv /\ [Next]_vars => (TypeOK /\ PushInv /\ LockInv)'
  BY TypeNext, PushNextInv
<1>3. QED
  BY <1>1, <1>2, PTL DEF Spec

-----------------------------------------------------------------------------
\* What a send() of a push loop does to the history: it reaches whatever
\* connection the descriptor stands for.
LEMMA SendGot ==
  ASSUME TypeOK, PushInv, NEW t \in Pushers, PushSend(t)
  PROVE  /\ pst[t] = "send" /\ pfd[t] \in Fds /\ fdtab[pfd[t]] \in Conns
         /\ NextSvc(t) \in Services
         /\ pfd[t] \in connSet[NextSvc(t)] /\ pfd[t] < nfds[NextSvc(t)]
         /\ \A c \in Conns, r \in Services :
               got'[c][r] = IF c = fdtab[pfd[t]] /\ r = NextSvc(t)
                            THEN <<pushno[NextSvc(t)], chunk[t]>> ELSE got[c][r]
<1>1. /\ pst[t] = "send" /\ fdtab[pfd[t]] # NoConn
      /\ got' = [got EXCEPT ![fdtab[pfd[t]]][NextSvc(t)] = <<pushno[NextSvc(t)], chunk[t]>>]
  BY DEF PushSend
<1>2. NextSvc(t) \in Services
  BY <1>1, NextSvcInTodo
<1>3. pfd[t] \in connSet[NextSvc(t)] /\ pfd[t] < nfds[NextSvc(t)]
  BY <1>1 DEF PushInv
<1>4. pfd[t] \in Fds
  BY <1>2, <1>3 DEF TypeOK
<1>5. fdtab[pfd[t]] \in Conns
  BY <1>1, <1>4 DEF TypeOK
<1>6. got \in [Conns -> [Services -> Nat \X (0 .. Chunks)]]
  BY DEF TypeOK
<1>7. QED
  BY <1>1, <1>2, <1>3, <1>4, <1>5, <1>6

\* On a number of its own a connection is sent the packets of its service only,
\* and not before it is registered.
LEMMA SendOwn ==
  ASSUME TypeOK, PushInv, FdInv, OwnNumber, NEW t \in Pushers, PushSend(t),
         fdtab[pfd[t]] \notin reused
  PROVE  /\ NextSvc(t) = Target[fdtab[pfd[t]]]
         /\ Member(fdtab[pfd[t]], pfd[t])
<1>1. /\ pfd[t] \in Fds /\ fdtab[pfd[t]] \in Conns /\ NextSvc(t) \in Services
      /\ pfd[t] \in connSet[NextSvc(t)]
  BY SendGot
<1>2. NextSvc(t) = Target[fdtab[pfd[t]]]
  BY <1>1 DEF OwnNumber
<1>3. cst[fdtab[pfd[t]]] # "accepted"
  BY <1>1, <1>2 DEF OwnNumber
<1>4. cst[fdtab[pfd[t]]] = "joined"
  BY <1>1, <1>3, ConnsAssumption DEF FdInv
<1>5. QED
  BY <1>1, <1>2, <1>4 DEF Member

\* In client mode the link has its number to itself from the start.
LEMMA OwnInit == Init => OwnNumber
<1> SUFFICES ASSUME Init, NEW c \in Conns, NEW fd \in Fds, fdtab[fd] = c
             PROVE  /\ \A s \in Services \ {Target[c]} :
                          fd \notin connSet[s] /\ ~(apc[s] = "set" /\ afd[s] = fd)
                    /\ cst[c] = "accepted" => fd \notin connSet[Target[c]]
  BY DEF OwnNumber
<1>1. ClientMode /\ c = ClientConn
  BY ConnsAssumption DEF Init
<1>2. Target[c] = "data"
  BY <1>1, ConnsAssumption
<1>3. QED
  BY <1>1, <1>2 DEF Init

\* Steps that hand out no number and put none into a set.
LEMMA OwnKeep ==
  ASSUME OwnNumber, UNCHANGED <<reused, apc, afd>>,
         \A s \in Services : connSet'[s] \subseteq connSet[s],
         \A c \in Conns, fd \in Fds : fdtab'[fd] = c =>
            fdtab[fd] = c /\ (cst'[c] = "accepted" => cst[c] = "accepted")
  PROVE  OwnNumber'
  BY ConnsAssumption DEF OwnNumber

\* Every operation leaves a connection the number that was its own: only
\* accept_connections hands out numbers or puts them into a set.
LEMMA OwnNext ==
  TypeOK /\ PushInv /\ FdInv /\ AcceptInv /\ OwnNumber /\ [Next]_vars => OwnNumber'
<1> SUFFICES ASSUME TypeOK, PushInv, FdInv, AcceptInv, OwnNumber, [Next]_vars
             PROVE  OwnNumber'
  OBVIOUS
<1> USE ConnsAssumption
<1>a. ASSUME UNCHANGED <<fdtab, cst, connSet, apc, afd, reused>> PROVE OwnNumber'
  BY <1>a, OwnKeep
<1>1. CASE UNCHANGED vars
  BY <1>1, <1>a DEF vars, kernel, members, accepts, history
<1>2. ASSUME NEW c \in Conns, Connect(c) PROVE OwnNumber'
  <2>1. /\ cst' = [cst EXCEPT ![c] = "pending"]
        /\ UNCHANGED <<fdtab, connSet, apc, afd, reused>>
    BY <1>2 DEF Connect, members, accepts, history
  <2>2. \A d \in Conns : cst'[d] = "accepted" => cst[d] = "accepted"
    BY <2>1 DEF TypeOK
  <2>3. QED
    BY <2>1, <2>2, OwnKeep
<1>3. ASSUME NEW c \in Conns, PeerSend(c) \/ PeerClose(c) PROVE OwnNumber'
  BY <1>3, <1>a DEF PeerSend, PeerClose, members, accepts, history
<1>4. ASSUME NEW s \in Services, Accept(s) PROVE OwnNumber'
  <2>1. PICK c \in Conns, fd \in Lowest(FreeFds) :
           /\ cst[c] = "pending" /\ Target[c] = s /\ fdtab' = [fdtab EXCEPT ![fd] = c]
           /\ cst' = [cst EXCEPT ![c] = "accepted"] /\ afd' = [afd EXCEPT ![s] = fd]
           /\ reused' = IF InUse(fd) THEN reused \cup {c} ELSE reused
    BY <1>4 DEF Accept
  <2>2. apc' = [apc EXCEPT ![s] = "set"] /\ connSet' = connSet
    BY <1>4 DEF Accept, members
  <2>3. fd \in Fds /\ fdtab[fd] = NoConn
    BY DEF Lowest, FreeFds
  <2>4. /\ \A f \in Fds : fdtab'[f] = IF f = fd THEN c ELSE fdtab[f]
        /\ \A d \in Conns : d # c => cst'[d] = cst[d]
        /\ \A r \in Services : r # s => apc'[r] = apc[r] /\ afd'[r] = afd[r]
        /\ apc'[s] = "set" /\ afd'[s] = fd
    BY <2>1, <2>2, <2>3 DEF TypeOK
  <2>5. SUFFICES ASSUME NEW d \in Conns, d \notin reused', NEW f \in Fds, fdtab'[f] = d
                 PROVE  /\ \A r \in Services \ {Target[d]} :
                              f \notin connSet[r] /\ ~(apc'[r] = "set" /\ afd'[r] = f)
                        /\ cst'[d] = "accepted" => f \notin connSet[Target[d]]
    BY <2>2 DEF OwnNumber
  <2>6. CASE f = fd
    <3>1. d = c /\ ~InUse(fd)
      BY <2>1, <2>4, <2>5, <2>6
    <3>2. \A r \in Services : fd \notin connSet[r] /\ ~(apc[r] = "set" /\ afd[r] = fd)
      BY <3>1 DEF InUse
    <3>3. QED
      BY <2>1, <2>4, <2>6, <3>1, <3>2
  <2>7. CASE f # fd
    <3>1. fdtab[f] = d /\ d \notin reused
      BY <2>1, <2>4, <2>5, <2>7
    <3>2. d # c
      BY <2>1, <3>1 DEF FdInv
    <3>3. QED
      BY <2>4, <2>7, <3>1, <3>2 DEF OwnNumber
  <2>8. QED
    BY <2>6, <2>7
<1>5. ASSUME NEW s \in Services, Refuse(s) PROVE OwnNumber'
  <2>1. PICK c \in Conns : cst' = [cst EXCEPT ![c] = "closed"]
    BY <1>5 DEF Refuse
  <2>2. UNCHANGED <<fdtab, connSet, apc, afd, reused>>
    BY <1>5 DEF Refuse, members, accepts, history
  <2>3. \A d \in Conns : cst'[d] = "accepted" => cst[d] = "accepted"
    BY <2>1 DEF TypeOK
  <2>4. QED
    BY <2>2, <2>3, OwnKeep
<1>6. ASSUME NEW s \in Services, Register(s) PROVE OwnNumber'
  <2>1. /\ apc[s] = "set" /\ connSet' = [connSet EXCEPT ![s] = @ \cup {afd[s]}]
        /\ cst' = IF cst[aconn[s]] = "accepted" THEN [cst EXCEPT ![aconn[s]] = "joined"] ELSE cst
        /\ apc' = [apc EXCEPT ![s] = "accept"]
        /\ UNCHANGED <<fdtab, afd, reused>>
    BY <1>6 DEF Register, history
  <2>2. /\ \A r \in Services : connSet'[r] = IF r = s THEN connSet[s] \cup {afd[s]} ELSE connSet[r]
        /\ \A r \in Services : apc'[r] = "set" => apc[r] = "set"
        /\ \A d \in Conns : cst'[d] = "accepted" => cst[d] = "accepted" /\ d # aconn[s]
    BY <2>1 DEF TypeOK
  <2>3. SUFFICES ASSUME NEW d \in Conns, d \notin reused, NEW f \in Fds, fdtab[f] = d
                 PROVE  /\ \A r \in Services \ {Target[d]} :
                              f \notin connSet'[r] /\ ~(apc'[r] = "set" /\ afd[r] = f)
                        /\ cst'[d] = "accepted" => f \notin connSet'[Target[d]]
    BY <2>1 DEF OwnNumber
  <2>4. ASSUME NEW r \in Services \ {Target[d]}
        PROVE  f \notin connSet'[r] /\ ~(apc'[r] = "set" /\ afd[r] = f)
    BY <2>1, <2>2, <2>3 DEF OwnNumber
  <2>5. ASSUME cst'[d] = "accepted" PROVE f \notin connSet'[Target[d]]
    <3>1. f \notin connSet[Target[d]] /\ d # aconn[s]
      BY <2>2, <2>3, <2>5 DEF OwnNumber
    <3>2. (Target[d] = s /\ f = afd[s]) => d = aconn[s]
      BY <2>1, <2>3 DEF AcceptInv
    <3>3. QED
      BY <2>2, <3>1, <3>2
  <2>6. QED
    BY <2>4, <2>5
<1>7. ASSUME NEW s \in Services, \/ Snapshot(s) \/ Select(s) \/ Recheck(s) \/ HandleEnd(s)
                                 \/ HandlePacket(s) \/ HandleReturn(s) \/ Discard(s)
      PROVE  OwnNumber'
  BY <1>7, <1>a DEF Snapshot, Select, Recheck, HandleEnd, HandlePacket, HandleReturn, Discard,
                    kernel, members, accepts, history
<1>b. ASSUME NEW fd \in Fds, CloseFd(fd), UNCHANGED <<apc, afd, reused>>,
             \A r \in Services : connSet'[r] \subseteq connSet[r]
      PROVE  OwnNumber'
  <2>1. \A f \in Fds : fdtab'[f] = IF f = fd THEN NoConn ELSE fdtab[f]
    BY <1>b DEF CloseFd, TypeOK
  <2>2. \A d \in Conns : cst'[d] = "accepted" => cst[d] = "accepted"
    BY <1>b DEF CloseFd, TypeOK
  <2>3. QED
    BY <1>b, <2>1, <2>2, OwnKeep
<1>8. ASSUME NEW s \in Services, HandleDrop(s) PROVE OwnNumber'
  <2>1. PICK fd \in Lowest(readset[s]) : CloseFd(fd)
    BY <1>8 DEF HandleDrop
  <2>2. fd \in Fds
    BY DEF TypeOK, Lowest
  <2>3. UNCHANGED <<connSet, apc, afd, reused>>
    BY <1>8 DEF HandleDrop, members, accepts, history
  <2>4. QED
    BY <1>b, <2>1, <2>2, <2>3
<1>9. ASSUME NEW s \in Services, ConnDel(s) PROVE OwnNumber'
  <2>1. /\ connSet' = [connSet EXCEPT ![s] = @ \ Lowest(readset[s])]
        /\ UNCHANGED <<fdtab, cst, apc, afd, reused>>
    BY <1>9 DEF ConnDel, kernel, accepts, history
  <2>2. \A r \in Services : connSet'[r] \subseteq connSet[r]
    BY <2>1 DEF TypeOK
  <2>3. QED
    BY <2>1, <2>2, OwnKeep
<1>10. ASSUME NEW t \in SpwThreads, SpwReceive(t) PROVE OwnNumber'
  BY <1>10, <1>a DEF SpwReceive, kernel, members, accepts, history
<1>11. ASSUME NEW t \in Pushers, PushLock(t) \/ PushNext(t) \/ PushSend(t) \/ PushUnlock(t)
       PROVE  OwnNumber'
  BY <1>11, <1>a DEF PushLock, PushNext, PushSend, PushUnlock, kernel, members, accepts, history
<1>12. ASSUME NEW t \in Pushers, PushFail(t) PROVE OwnNumber'
  <2>1. /\ pst[t] = "send" /\ CloseFd(pfd[t])
        /\ connSet' = [connSet EXCEPT ![NextSvc(t)] = @ \ {pfd[t]}]
        /\ UNCHANGED <<apc, afd, reused>>
    BY <1>12 DEF PushFail, accepts, history
  <2>2. NextSvc(t) \in Services /\ pfd[t] \in Fds
    BY <2>1, NextSvcInTodo DEF PushInv, TypeOK
  <2>3. \A r \in Services : connSet'[r] \subseteq connSet[r]
    BY <2>1 DEF TypeOK
  <2>4. QED
    BY <1>b, <2>1, <2>2, <2>3
<1>13. QED
  BY <1>1, <1>2, <1>3, <1>4, <1>5, <1>6, <1>7, <1>8, <1>9, <1>10, <1>11, <1>12, NextCases

\* Nothing has been delivered at the start.
LEMMA GotInit == Init => GotInv
<1> SUFFICES ASSUME Init PROVE GotInv
  OBVIOUS
<1>1. \A c \in Conns, s \in Services : got[c][s] = <<0, 0>>
  BY DEF Init
<1>2. \A s \in Services, fd \in Fds : ~MidPacket(s, fd)
  BY DEF Init, MidPacket
<1>3. \A c \in Conns : Target[c] \in Services
  BY ConnsAssumption
<1>4. QED
  BY <1>1, <1>2, <1>3 DEF GotInv, UnsentInv, ResumeInv, MemberInv

\* Nothing is sent too early or by the wrong service: a step that sends goes to
\* a number in the set of its service, and no connection goes back to an
\* earlier state.
LEMMA UnsentNext == DeliveryInv /\ [Next]_vars => UnsentInv'
<1> SUFFICES ASSUME DeliveryInv, [Next]_vars PROVE UnsentInv'
  OBVIOUS
<1> USE ConnsAssumption
<1>1. TypeOK /\ PushInv /\ FdInv /\ OwnNumber /\ AcceptInv /\ UnsentInv
  BY DEF DeliveryInv, GotInv
<1>a. ASSUME UNCHANGED got, reused \subseteq reused',
             \A c \in Conns : /\ cst'[c] \in {"new", "pending"} => cst[c] \in {"new", "pending"}
                              /\ cst'[c] = "accepted" => cst[c] \in {"pending", "accepted"}
      PROVE  UnsentInv'
  BY <1>1, <1>a DEF UnsentInv
<1>b. ASSUME UNCHANGED <<got, cst, reused>> PROVE UnsentInv'
  BY <1>1, <1>b DEF UnsentInv
<1>2. CASE UNCHANGED vars
  BY <1>2, <1>b DEF vars, kernel, history
<1>3. ASSUME NEW c \in Conns, Connect(c) PROVE UnsentInv'
  <2>1. cst[c] = "new" /\ cst' = [cst EXCEPT ![c] = "pending"] /\ UNCHANGED <<got, reused>>
    BY <1>3 DEF Connect, history
  <2>2. \A d \in Conns : cst'[d] = IF d = c THEN "pending" ELSE cst[d]
    BY <1>1, <2>1 DEF TypeOK
  <2>3. QED
    BY <1>a, <2>1, <2>2
<1>4. ASSUME NEW c \in Conns, PeerSend(c) \/ PeerClose(c) PROVE UnsentInv'
  BY <1>4, <1>b DEF PeerSend, PeerClose, history
<1>5. ASSUME NEW s \in Services, Accept(s) PROVE UnsentInv'
  <2>1. PICK c \in Conns : cst[c] = "pending" /\ cst' = [cst EXCEPT ![c] = "accepted"]
    BY <1>5 DEF Accept
  <2>2. got' = got /\ reused \subseteq reused'
    BY <1>5 DEF Accept
  <2>3. \A d \in Conns : cst'[d] = IF d = c THEN "accepted" ELSE cst[d]
    BY <1>1, <2>1 DEF TypeOK
  <2>4. QED
    BY <1>a, <2>1, <2>2, <2>3
<1>6. ASSUME NEW s \in Services, Refuse(s) PROVE UnsentInv'
  <2>1. PICK c \in Conns : cst' = [cst EXCEPT ![c] = "closed"]
    BY <1>6 DEF Refuse
  <2>2. UNCHANGED <<got, reused>>
    BY <1>6 DEF Refuse, history
  <2>3. \A d \in Conns : cst'[d] = IF d = c THEN "closed" ELSE cst[d]
    BY <1>1, <2>1 DEF TypeOK
  <2>4. QED
    BY <1>a, <2>2, <2>3
<1>7. ASSUME NEW s \in Services, Register(s) PROVE UnsentInv'
  <2>1. /\ cst' = IF cst[aconn[s]] = "accepted" THEN [cst EXCEPT ![aconn[s]] = "joined"] ELSE cst
        /\ UNCHANGED <<got, reused>>
    BY <1>7 DEF Register, history
  <2>2. \A d \in Conns : cst'[d] = "joined" \/ cst'[d] = cst[d]
    BY <1>1, <2>1 DEF TypeOK
  <2>3. QED
    BY <1>a, <2>1, <2>2
<1>8. ASSUME NEW s \in Services, \/ Snapshot(s) \/ Select(s) \/ Recheck(s) \/ HandleEnd(s)
                                 \/ HandlePacket(s) \/ HandleReturn(s) \/ Discard(s) \/ ConnDel(s)
      PROVE  UnsentInv'
  BY <1>8, <1>b DEF Snapshot, Select, Recheck, HandleEnd, HandlePacket, HandleReturn, Discard,
                    ConnDel, kernel, history
<1>9. ASSUME NEW s \in Services, HandleDrop(s) PROVE UnsentInv'
  <2>1. PICK fd : CloseFd(fd)
    BY <1>9 DEF HandleDrop
  <2>2. \A d \in Conns : cst'[d] = "closed" \/ cst'[d] = cst[d]
    BY <1>1, <2>1 DEF CloseFd, TypeOK
  <2>3. UNCHANGED <<got, reused>>
    BY <1>9 DEF HandleDrop, history
  <2>4. QED
    BY <1>a, <2>2, <2>3
<1>10. ASSUME NEW t \in SpwThreads, SpwReceive(t) PROVE UnsentInv'
  BY <1>10, <1>b DEF SpwReceive, kernel, history
<1>11. ASSUME NEW t \in Pushers, PushLock(t) \/ PushNext(t) \/ PushUnlock(t) PROVE UnsentInv'
  BY <1>11, <1>b DEF PushLock, PushNext, PushUnlock, kernel, history
<1>12. ASSUME NEW t \in Pushers, PushFail(t) PROVE UnsentInv'
  <2>1. CloseFd(pfd[t]) /\ UNCHANGED <<got, reused>>
    BY <1>12 DEF PushFail, history
  <2>2. \A d \in Conns : cst'[d] = "closed" \/ cst'[d] = cst[d]
    BY <1>1, <2>1 DEF CloseFd, TypeOK
  <2>3. QED
    BY <1>a, <2>1, <2>2
<1>13. ASSUME NEW t \in Pushers, PushSend(t) PROVE UnsentInv'
  <2>1. cst' = cst /\ reused' = reused
    BY <1>13 DEF PushSend, kernel
  <2>2. SUFFICES ASSUME NEW c \in Conns, NEW r \in Services,
                        \/ cst[c] \in {"new", "pending"}
                        \/ c \notin reused /\ (r # Target[c] \/ cst[c] = "accepted")
                 PROVE  got'[c][r] = <<0, 0>>
    BY <2>1 DEF UnsentInv
  <2>3. got[c][r] = <<0, 0>>
    BY <1>1, <2>2 DEF UnsentInv
  <2>4. CASE c = fdtab[pfd[t]] /\ r = NextSvc(t)
    <3>1. pfd[t] \in Fds
      BY <1>1, <1>13, SendGot
    <3>2. cst[c] \in {"accepted", "joined"}
      BY <1>1, <2>4, <3>1 DEF FdInv
    <3>3. c \notin reused
      BY <2>2, <3>2
    <3>4. r = Target[c] /\ cst[c] = "joined"
      BY <1>1, <1>13, <2>4, <3>3, SendOwn DEF Member
    <3>5. QED
      BY <2>2, <3>3, <3>4
  <2>5. CASE ~(c = fdtab[pfd[t]] /\ r = NextSvc(t))
    <3>1. \A d \in Conns, q \in Services :
             got'[d][q] = IF d = fdtab[pfd[t]] /\ q = NextSvc(t)
                          THEN <<pushno[NextSvc(t)], chunk[t]>> ELSE got[d][q]
      BY <1>1, <1>13, SendGot
    <3>2. QED
      BY <2>3, <2>5, <3>1
  <2>6. QED
    BY <2>4, <2>5
<1>14. QED
  BY <1>2, <1>3, <1>4, <1>5, <1>6, <1>7, <1>8, <1>9, <1>10, <1>11, <1>12, <1>13, NextCases

\* Steps that deliver nothing, register nobody and do not advance a push.
LEMMA MemberKeep ==
  ASSUME MemberInv, got' = got, nfds' = nfds, reused \subseteq reused',
         \A c \in Conns, fd \in Fds : Member(c, fd)' => Member(c, fd),
         \A r \in Services, fd \in Fds : /\ MidPacket(r, fd)' = MidPacket(r, fd)
                                         /\ LastSent(r, fd)' = LastSent(r, fd)
  PROVE  MemberInv'
  BY ConnsAssumption DEF MemberInv

\* The state of the threads that hold a lock decides what was sent last.
LEMMA SentKeep ==
  ASSUME UNCHANGED <<lock, pushno>>,
         \A r \in Services : lock[r] # NoThread =>
            /\ pst'[lock[r]] = pst[lock[r]] /\ pfd'[lock[r]] = pfd[lock[r]]
            /\ chunk'[lock[r]] = chunk[lock[r]]
  PROVE  \A r \in Services, fd \in Fds : /\ MidPacket(r, fd)' = MidPacket(r, fd)
                                         /\ LastSent(r, fd)' = LastSent(r, fd)
  BY DEF MidPacket, LastSent

\* A step of one push loop changes nothing for the other services.
LEMMA SentElsewhere ==
  ASSUME TypeOK, PushInv, LockInv, NEW t \in Pushers, PushLoop(t),
         NEW r \in Services, r # NextSvc(t), NEW fd \in Fds
  PROVE  /\ MidPacket(r, fd)' = MidPacket(r, fd)
         /\ LastSent(r, fd)' = LastSent(r, fd)
<1>1. lock[r] # t
  BY DEF LockInv
<1>2. lock[r] # NoThread => lock[r] \in Pushers
  BY DEF TypeOK
<1>3. NextSvc(t) \in Services
  BY NextSvcInTodo DEF PushLoop, PushLock, PushNext, PushSend, PushFail, PushUnlock
<1>4. lock'[r] = lock[r] /\ pushno'[r] = pushno[r]
  BY <1>3 DEF PushLoop, PushLock, PushNext, PushSend, PushFail, PushUnlock, history, TypeOK
<1>5. \A u \in Pushers : u # t => pst'[u] = pst[u] /\ pfd'[u] = pfd[u] /\ chunk'[u] = chunk[u]
  <2>1. /\ \E x : pst' = [pst EXCEPT ![t] = x]
        /\ pfd' = pfd \/ \E x : pfd' = [pfd EXCEPT ![t] = x]
        /\ chunk' = chunk \/ \E x : chunk' = [chunk EXCEPT ![t] = x]
    BY DEF PushLoop, PushLock, PushNext, PushSend, PushFail, PushUnlock
  <2>2. QED
    BY <2>1 DEF TypeOK
<1>6. QED
  BY <1>1, <1>2, <1>4, <1>5 DEF MidPacket, LastSent

\* close() makes no member.
LEMMA CloseMember ==
  ASSUME TypeOK, FdInv, NEW fd \in Fds, CloseFd(fd),
         \A s \in Services : connSet'[s] \subseteq connSet[s],
         NEW c \in Conns, NEW g \in Fds, Member(c, g)'
  PROVE  g # fd /\ Member(c, g)
<1>1. \A f \in Fds : fdtab'[f] = IF f = fd THEN NoConn ELSE fdtab[f]
  BY DEF CloseFd, TypeOK
<1>2. \A d \in Conns : cst'[d] = IF d = fdtab[fd] THEN "closed" ELSE cst[d]
  BY ConnsAssumption DEF CloseFd, TypeOK
<1>3. Target[c] \in Services
  BY ConnsAssumption
<1>4. QED
  BY <1>1, <1>2, <1>3, ConnsAssumption DEF Member

\* Every step of a push loop accounts for what each member has received.
LEMMA MemberPush ==
  ASSUME DeliveryInv, NEW t \in Pushers, PushLoop(t)
  PROVE  MemberInv'
<1> USE ConnsAssumption
<1>1. /\ TypeOK /\ PushInv /\ LockInv /\ FdInv /\ OwnNumber /\ MemberInv
  BY DEF DeliveryInv, GotInv
<1>2. PICK s \in Services : s = NextSvc(t)
  BY <1>1, NextSvcInTodo DEF PushLoop, PushLock, PushNext, PushSend, PushFail, PushUnlock
<1>3. \A r \in Services, fd \in Fds : r # s =>
         MidPacket(r, fd)' = MidPacket(r, fd) /\ LastSent(r, fd)' = LastSent(r, fd)
  BY <1>1, <1>2, SentElsewhere
<1>4. /\ pushno \in [Services -> Nat] /\ pfd \in [Pushers -> Nat] /\ chunk \in [Pushers -> 1 .. Chunks]
      /\ pst \in [Pushers -> {"idle", "lock", "scan", "send"}]
      /\ lock \in [Services -> Pushers \cup {NoThread}]
      /\ got \in [Conns -> [Services -> Nat \X (0 .. Chunks)]]
      /\ t # NoThread /\ Fds \subseteq Nat /\ \A r \in Services : nfds[r] \in Nat
      /\ Chunks \in Nat \ {0} /\ pushno[s] \in Nat /\ pfd[t] \in Nat /\ chunk[t] \in 1 .. Chunks
  <2>1. /\ pushno \in [Services -> Nat] /\ pfd \in [Pushers -> Nat] /\ chunk \in [Pushers -> 1 .. Chunks]
        /\ pst \in [Pushers -> {"idle", "lock", "scan", "send"}]
        /\ lock \in [Services -> Pushers \cup {NoThread}]
        /\ got \in [Conns -> [Services -> Nat \X (0 .. Chunks)]]
        /\ nfds \in [Services -> 0 .. FdSetSize]
    BY <1>1 DEF TypeOK
  <2>2. t # NoThread
    BY NoThreadIsNone
  <2>3. Fds \subseteq Nat /\ \A r \in Services : nfds[r] \in Nat
    BY <2>1, FdAssumption DEF Fds
  <2>4. QED
    BY <1>2, <2>1, <2>2, <2>3, BoundsAssumption
<1>5. CASE PushLock(t)
  <2>1. /\ lock[s] = NoThread /\ lock' = [lock EXCEPT ![s] = t]
        /\ pushno' = [pushno EXCEPT ![s] = @ + 1]
        /\ pfd' = [pfd EXCEPT ![t] = 0] /\ pst' = [pst EXCEPT ![t] = "scan"]
        /\ UNCHANGED <<kernel, members, chunk, got, reused>>
    BY <1>2, <1>5 DEF PushLock
  <2>2. lock'[s] = t /\ pushno'[s] = pushno[s] + 1 /\ pfd'[t] = 0 /\ pst'[t] = "scan"
    BY <1>2, <1>4, <2>1
  <2>3. \A fd \in Fds : MidPacket(s, fd)' = MidPacket(s, fd)
    BY <2>1, <2>2 DEF MidPacket
  <2>4. \A fd \in Fds : LastSent(s, fd)' = <<pushno[s], Chunks>> /\ LastSent(s, fd) = <<pushno[s], Chunks>>
    <3>1. SUFFICES ASSUME NEW fd \in Fds
                   PROVE  /\ LastSent(s, fd)' = <<pushno[s], Chunks>>
                          /\ LastSent(s, fd) = <<pushno[s], Chunks>>
      OBVIOUS
    <3>2. LastSent(s, fd) = <<pushno[s], Chunks>>
      BY <2>1 DEF LastSent
    <3>3. ~MidPacket(s, fd)'
      BY <2>1, <2>2 DEF MidPacket
    <3>4. ~(fd < 0) /\ pushno'[s] - 1 = pushno[s]
      BY <1>4, <2>2
    <3>5. LastSent(s, fd)' = <<pushno'[s] - 1, Chunks>>
      BY <1>4, <2>2, <3>3, <3>4 DEF LastSent
    <3>6. QED
      BY <2>2, <3>2, <3>4, <3>5
  <2>5. \A c \in Conns, fd \in Fds : Member(c, fd)' => Member(c, fd)
    BY <2>1 DEF Member, kernel, members
  <2>6. QED
    BY <1>1, <1>3, <2>1, <2>3, <2>4, <2>5, MemberKeep DEF kernel, members
<1>6. CASE PushNext(t)
  <2>1. PICK g \in Lowest(Ahead(t)) : pfd' = [pfd EXCEPT ![t] = g]
    BY <1>6 DEF PushNext
  <2>2. /\ pst[t] = "scan" /\ pst' = [pst EXCEPT ![t] = "send"] /\ chunk' = [chunk EXCEPT ![t] = 1]
        /\ UNCHANGED <<fdtab, cst, connSet, nfds, lock, pushno, got, reused>>
    BY <1>6 DEF PushNext, kernel, members, history
  <2>3. lock[s] = t /\ pfd'[t] = g /\ pst'[t] = "send" /\ chunk'[t] = 1
    BY <1>1, <1>2, <1>4, <2>1, <2>2 DEF LockInv
  <2>4. g \in Ahead(t) /\ (\A f \in Ahead(t) : g <= f) /\ pfd[t] <= g /\ g \in Nat
    <3>1. g \in Ahead(t) /\ \A f \in Ahead(t) : g <= f
      BY DEF Lowest
    <3>2. Ahead(t) \subseteq Nat
      BY <1>1, <1>2, <1>4 DEF Ahead, TypeOK
    <3>3. QED
      BY <3>1, <3>2 DEF Ahead
  <2>5. SUFFICES ASSUME NEW c \in Conns, c \notin reused, NEW fd \in Fds, Member(c, fd),
                        got[c][Target[c]][2] # 0 \/ MidPacket(Target[c], fd)'
                 PROVE  fd < nfds[Target[c]] /\ got[c][Target[c]] = LastSent(Target[c], fd)'
    BY <1>1, <2>2 DEF MemberInv, Member
  <2>6. CASE Target[c] # s
    BY <1>1, <1>3, <2>5, <2>6 DEF MemberInv
  <2>7. CASE Target[c] = s
    <3>1. ~MidPacket(s, fd)' /\ ~MidPacket(s, fd)
      BY <2>2, <2>3 DEF MidPacket
    <3>2. fd < nfds[s] /\ got[c][Target[c]] = LastSent(s, fd)
      BY <1>1, <2>5, <2>7, <3>1 DEF MemberInv
    <3>3. fd < pfd[t] \/ g <= fd
      <4>1. fd \in connSet[s] /\ fd \in Nat /\ pfd[t] \in Nat
        BY <1>4, <2>5, <2>7 DEF Member
      <4>2. pfd[t] <= fd => fd \in Ahead(t)
        BY <1>2, <3>2, <4>1 DEF Ahead
      <4>3. QED
        BY <2>4, <4>1, <4>2
    <3>4. LastSent(s, fd)' = IF fd < g THEN <<pushno[s], Chunks>> ELSE <<pushno[s] - 1, Chunks>>
      BY <1>4, <2>2, <2>3, <3>1 DEF LastSent
    <3>5. LastSent(s, fd) = IF fd < pfd[t] THEN <<pushno[s], Chunks>> ELSE <<pushno[s] - 1, Chunks>>
      BY <1>4, <2>3, <3>1 DEF LastSent
    <3>6. (fd < g) <=> (fd < pfd[t])
      BY <1>4, <2>4, <3>3
    <3>7. QED
      BY <2>7, <3>2, <3>4, <3>5, <3>6
  <2>8. QED
    BY <2>6, <2>7
<1>7. CASE PushSend(t)
  <2> DEFINE c0 == fdtab[pfd[t]]
  <2>1. /\ pst[t] = "send" /\ c0 # NoConn
        /\ chunk' = [chunk EXCEPT ![t] = IF chunk[t] < Chunks THEN @ + 1 ELSE 1]
        /\ pfd' = [pfd EXCEPT ![t] = IF chunk[t] < Chunks THEN @ ELSE @ + 1]
        /\ pst' = [pst EXCEPT ![t] = IF chunk[t] < Chunks THEN "send" ELSE "scan"]
        /\ UNCHANGED <<fdtab, cst, connSet, nfds, lock, pushno, reused>>
    BY <1>2, <1>7 DEF PushSend, kernel, members
  <2>2. lock[s] = t /\ pfd[t] \in Fds /\ pfd[t] < nfds[s] /\ c0 \in Conns
    BY <1>1, <1>2, <2>1 DEF LockInv, PushInv, TypeOK
  <2>3. /\ chunk'[t] = IF chunk[t] < Chunks THEN chunk[t] + 1 ELSE 1
        /\ pfd'[t] = IF chunk[t] < Chunks THEN pfd[t] ELSE pfd[t] + 1
        /\ pst'[t] = IF chunk[t] < Chunks THEN "send" ELSE "scan"
    BY <1>4, <2>1
  <2>4. \A c \in Conns : got'[c][Target[c]] = IF c = c0 /\ Target[c] = s
                                              THEN <<pushno[s], chunk[t]>> ELSE got[c][Target[c]]
    BY <1>1, <1>2, <1>7, SendGot
  <2>6. SUFFICES ASSUME NEW c \in Conns, c \notin reused, NEW fd \in Fds, Member(c, fd),
                        got'[c][Target[c]][2] # 0 \/ MidPacket(Target[c], fd)'
                 PROVE  fd < nfds[Target[c]] /\ got'[c][Target[c]] = LastSent(Target[c], fd)'
    BY <2>1 DEF MemberInv, Member
  <2>7. CASE Target[c] # s
    BY <1>1, <1>3, <2>4, <2>6, <2>7 DEF MemberInv
  <2>8. CASE Target[c] = s /\ fd = pfd[t]
    <3>1. c = c0 /\ cst[c] = "joined"
      BY <2>6, <2>8 DEF Member
    <3>2. got'[c][Target[c]] = <<pushno[s], chunk[t]>>
      BY <2>4, <2>8, <3>1
    <3>3. CASE chunk[t] < Chunks
      <4>1. MidPacket(s, fd)' /\ ~(fd < pfd'[t])
        BY <1>4, <2>1, <2>2, <2>3, <2>8, <3>3 DEF MidPacket
      <4>2. LastSent(s, fd)' = <<pushno[s], chunk'[t] - 1>>
        BY <1>4, <2>1, <2>2, <4>1 DEF LastSent
      <4>3. chunk'[t] - 1 = chunk[t]
        BY <1>4, <2>3, <3>3
      <4>4. QED
        BY <2>2, <2>8, <3>2, <4>2, <4>3
    <3>4. CASE ~(chunk[t] < Chunks)
      <4>a. chunk[t] \in 1 .. Chunks /\ Chunks \in Nat /\ pfd[t] \in Nat /\ pfd'[t] = pfd[t] + 1
        BY <1>4, <2>3, <3>4
      <4>1. chunk[t] = Chunks /\ fd < pfd'[t]
        BY <2>8, <3>4, <4>a
      <4>2. LastSent(s, fd)' = <<pushno[s], Chunks>>
        BY <2>1, <2>2, <4>1 DEF LastSent
      <4>3. QED
        BY <2>2, <2>8, <3>2, <4>1, <4>2
    <3>5. QED
      BY <3>3, <3>4
  <2>9. CASE Target[c] = s /\ fd # pfd[t]
    <3>1. c # c0
      BY <1>1, <2>2, <2>6, <2>9 DEF Member, FdInv
    <3>2. got'[c][Target[c]] = got[c][Target[c]]
      BY <2>4, <3>1
    <3>3. ~MidPacket(s, fd)
      BY <2>2, <2>9 DEF MidPacket
    <3>4. ~MidPacket(s, fd)'
      BY <2>1, <2>2, <2>3, <2>9 DEF MidPacket
    <3>5. fd < nfds[s] /\ got[c][Target[c]] = LastSent(s, fd)
      BY <1>1, <2>6, <2>9, <3>2, <3>4 DEF MemberInv
    <3>6. LastSent(s, fd) = IF fd < pfd[t] THEN <<pushno[s], Chunks>> ELSE <<pushno[s] - 1, Chunks>>
      BY <1>4, <2>2, <3>3 DEF LastSent
    <3>7. LastSent(s, fd)' = IF fd < pfd'[t] THEN <<pushno[s], Chunks>> ELSE <<pushno[s] - 1, Chunks>>
      BY <1>4, <2>1, <2>2, <3>4 DEF LastSent
    <3>8. (fd < pfd'[t]) <=> (fd < pfd[t])
      <4>1. fd \in Nat /\ pfd[t] \in Nat /\ pfd'[t] \in {pfd[t], pfd[t] + 1} /\ fd # pfd[t]
        BY <1>4, <2>3, <2>9
      <4>2. QED
        BY <4>1
    <3>9. QED
      BY <2>9, <3>2, <3>5, <3>6, <3>7, <3>8
  <2>10. QED
    BY <2>7, <2>8, <2>9
<1>8. CASE PushFail(t)
  <2>1. /\ pst[t] = "send" /\ CloseFd(pfd[t])
        /\ connSet' = [connSet EXCEPT ![s] = @ \ {pfd[t]}]
        /\ pfd' = [pfd EXCEPT ![t] = @ + 1] /\ pst' = [pst EXCEPT ![t] = "scan"]
        /\ UNCHANGED <<nfds, lock, pushno, got, reused>>
    BY <1>2, <1>8 DEF PushFail, history
  <2>2. lock[s] = t /\ pfd[t] \in Fds /\ pfd'[t] = pfd[t] + 1 /\ pst'[t] = "scan"
    BY <1>1, <1>2, <1>4, <2>1 DEF LockInv, PushInv, TypeOK
  <2>3. \A r \in Services : connSet'[r] \subseteq connSet[r]
    BY <1>1, <2>1 DEF TypeOK
  <2>6. SUFFICES ASSUME NEW c \in Conns, c \notin reused, NEW fd \in Fds, Member(c, fd)',
                        got[c][Target[c]][2] # 0 \/ MidPacket(Target[c], fd)'
                 PROVE  fd < nfds[Target[c]] /\ got[c][Target[c]] = LastSent(Target[c], fd)'
    BY <2>1 DEF MemberInv
  <2>7. fd # pfd[t] /\ Member(c, fd)
    BY <1>1, <2>1, <2>2, <2>3, <2>6, CloseMember
  <2>8. CASE Target[c] # s
    BY <1>1, <1>3, <2>6, <2>7, <2>8 DEF MemberInv
  <2>9. CASE Target[c] = s
    <3>1. ~MidPacket(s, fd) /\ ~MidPacket(s, fd)'
      BY <2>1, <2>2, <2>7 DEF MidPacket
    <3>2. fd < nfds[s] /\ got[c][Target[c]] = LastSent(s, fd)
      BY <1>1, <2>6, <2>7, <2>9, <3>1 DEF MemberInv
    <3>3. LastSent(s, fd) = IF fd < pfd[t] THEN <<pushno[s], Chunks>> ELSE <<pushno[s] - 1, Chunks>>
      BY <1>4, <2>2, <3>1 DEF LastSent
    <3>4. LastSent(s, fd)' = IF fd < pfd'[t] THEN <<pushno[s], Chunks>> ELSE <<pushno[s] - 1, Chunks>>
      BY <1>4, <2>1, <2>2, <3>1 DEF LastSent
    <3>5. (fd < pfd'[t]) <=> (fd < pfd[t])
      <4>1. fd \in Nat /\ pfd[t] \in Nat /\ pfd'[t] = pfd[t] + 1 /\ fd # pfd[t]
        BY <1>4, <2>2, <2>7
      <4>2. QED
        BY <4>1
    <3>6. QED
      BY <2>9, <3>2, <3>3, <3>4, <3>5
  <2>10. QED
    BY <2>8, <2>9
<1>9. CASE PushUnlock(t)
  <2>1. /\ pst[t] = "scan" /\ Ahead(t) = {} /\ lock' = [lock EXCEPT ![s] = NoThread]
        /\ UNCHANGED <<fdtab, cst, connSet, nfds, pushno, got, reused>>
    BY <1>2, <1>9 DEF PushUnlock, kernel, members, history
  <2>2. lock[s] = t /\ lock'[s] = NoThread
    BY <1>1, <1>2, <1>4, <2>1 DEF LockInv
  <2>3. SUFFICES ASSUME NEW c \in Conns, c \notin reused, NEW fd \in Fds, Member(c, fd),
                        got[c][Target[c]][2] # 0 \/ MidPacket(Target[c], fd)'
                 PROVE  fd < nfds[Target[c]] /\ got[c][Target[c]] = LastSent(Target[c], fd)'
    BY <1>1, <2>1 DEF MemberInv, Member
  <2>4. CASE Target[c] # s
    BY <1>1, <1>3, <2>3, <2>4 DEF MemberInv
  <2>5. CASE Target[c] = s
    <3>1. ~MidPacket(s, fd)'
      BY <2>2 DEF MidPacket
    <3>2. fd < nfds[s] /\ got[c][Target[c]] = LastSent(s, fd)
      BY <1>1, <2>3, <2>5, <3>1 DEF MemberInv
    <3>3. fd < pfd[t]
      BY <1>2, <1>4, <2>1, <2>3, <2>5, <3>2 DEF Member, Ahead
    <3>4. LastSent(s, fd) = <<pushno[s], Chunks>> /\ LastSent(s, fd)' = <<pushno[s], Chunks>>
      BY <2>1, <2>2, <3>3 DEF LastSent
    <3>5. QED
      BY <2>5, <3>2, <3>4
  <2>6. QED
    BY <2>4, <2>5
<1>10. QED
  BY <1>5, <1>6, <1>7, <1>8, <1>9 DEF PushLoop

\* Steps outside the push loops: no thread that holds a lock moves.
LEMMA MemberOutside ==
  ASSUME DeliveryInv, UNCHANGED <<lock, pushno, got, nfds, pfd, chunk>>,
         \A t \in Pushers : pst[t] \in {"scan", "send"} => pst'[t] = pst[t],
         reused \subseteq reused',
         \A c \in Conns, fd \in Fds : Member(c, fd)' => Member(c, fd)
  PROVE  MemberInv'
<1>1. TypeOK /\ LockInv /\ MemberInv
  BY DEF DeliveryInv, GotInv
<1>2. \A r \in Services : lock[r] # NoThread =>
         lock[r] \in Pushers /\ pst[lock[r]] \in {"scan", "send"}
  BY <1>1 DEF TypeOK, LockInv
<1>3. \A r \in Services, fd \in Fds : /\ MidPacket(r, fd)' = MidPacket(r, fd)
                                      /\ LastSent(r, fd)' = LastSent(r, fd)
  BY <1>2, SentKeep
<1>4. QED
  BY <1>1, <1>3, MemberKeep

\* A registered connection has had nothing yet, and no push of its service is
\* under way.
LEMMA MemberRegister ==
  ASSUME DeliveryInv, NEW s \in Services, Register(s)
  PROVE  MemberInv'
<1> USE ConnsAssumption
<1>1. TypeOK /\ AcceptInv /\ UnsentInv /\ MemberInv
  BY DEF DeliveryInv, GotInv
<1>2. /\ apc[s] = "set" /\ lock[s] = NoThread
      /\ connSet' = [connSet EXCEPT ![s] = @ \cup {afd[s]}]
      /\ nfds' = [nfds EXCEPT ![s] = RaisedNfds(s, afd[s])]
      /\ cst' = IF cst[aconn[s]] = "accepted" THEN [cst EXCEPT ![aconn[s]] = "joined"] ELSE cst
      /\ UNCHANGED <<fdtab, lock, pst, pfd, chunk, pushno, got, reused>>
  BY DEF Register, pushes, history
<1>3. /\ aconn[s] \in Conns /\ Target[aconn[s]] = s
      /\ cst[aconn[s]] \in {"accepted", "closed"}
      /\ \A c \in Conns : (fdtab[afd[s]] = c /\ Target[c] = s) => c = aconn[s]
  BY <1>1, <1>2 DEF AcceptInv
<1>4. \A c \in Conns : c # aconn[s] => cst'[c] = cst[c]
  BY <1>1, <1>2 DEF TypeOK
<1>6. \A r \in Services, fd \in Fds : /\ MidPacket(r, fd)' = MidPacket(r, fd)
                                      /\ LastSent(r, fd)' = LastSent(r, fd)
  BY <1>2, SentKeep
<1>7. \A r \in Services : nfds[r] \in Nat /\ nfds'[r] \in Nat /\ nfds[r] <= nfds'[r]
  <2>1. nfds \in [Services -> 0 .. FdSetSize] /\ afd[s] \in Fds
    BY <1>1 DEF TypeOK
  <2>2. (\A r \in Services : nfds[r] \in Nat) /\ afd[s] \in Nat
    BY <2>1, FdAssumption DEF Fds
  <2>3. RaisedNfds(s, afd[s]) \in Nat /\ nfds[s] <= RaisedNfds(s, afd[s])
    BY <2>2 DEF RaisedNfds
  <2>4. QED
    BY <1>2, <2>1, <2>2, <2>3
<1>8. SUFFICES ASSUME NEW c \in Conns, c \notin reused, NEW fd \in Fds, Member(c, fd)',
                      got[c][Target[c]][2] # 0 \/ MidPacket(Target[c], fd)
               PROVE  fd < nfds'[Target[c]] /\ got[c][Target[c]] = LastSent(Target[c], fd)
  BY <1>2, <1>6 DEF MemberInv
<1>9. c # aconn[s]
  <2>1. SUFFICES ASSUME c = aconn[s] PROVE FALSE
    OBVIOUS
  <2>2. cst[c] = "accepted"
    BY <1>1, <1>2, <1>3, <1>8, <2>1 DEF Member, TypeOK
  <2>3. got[c][Target[c]] = <<0, 0>>
    BY <1>1, <1>8, <2>2 DEF UnsentInv
  <2>4. ~MidPacket(Target[c], fd)
    BY <1>2, <1>3, <2>1 DEF MidPacket
  <2>5. QED
    BY <1>8, <2>3, <2>4
<1>10. Member(c, fd)
  <2>1. fd \in connSet[Target[c]] \/ (Target[c] = s /\ fd = afd[s])
    BY <1>1, <1>2, <1>8 DEF Member, TypeOK
  <2>2. QED
    BY <1>2, <1>3, <1>4, <1>8, <1>9, <2>1 DEF Member
<1>11. fd < nfds[Target[c]] /\ got[c][Target[c]] = LastSent(Target[c], fd)
  BY <1>1, <1>8, <1>10 DEF MemberInv
<1>12. fd \in Nat /\ Target[c] \in Services
  BY FdAssumption DEF Fds
<1>13. QED
  BY <1>7, <1>11, <1>12

\* Every operation accounts for what each member has received.
LEMMA MemberNext == DeliveryInv /\ [Next]_vars => MemberInv'
<1> SUFFICES ASSUME DeliveryInv, [Next]_vars PROVE MemberInv'
  OBVIOUS
<1>0. TypeOK /\ PushInv /\ FdInv
  BY DEF DeliveryInv
<1>a. ASSUME UNCHANGED <<fdtab, cst, connSet, nfds, lock, pst, pfd, chunk, pushno, got, reused>> PROVE MemberInv'
  BY <1>a, MemberOutside DEF Member
<1>b. ASSUME UNCHANGED <<fdtab, cst, connSet, nfds, lock, pfd, chunk, pushno, got, reused>>,
             NEW t \in Pushers, pst[t] = "idle", NEW x, pst' = [pst EXCEPT ![t] = x]
      PROVE  MemberInv'
  <2>1. \A u \in Pushers : pst[u] \in {"scan", "send"} => pst'[u] = pst[u]
    BY <1>0, <1>b DEF TypeOK
  <2>2. QED
    BY <1>b, <2>1, MemberOutside DEF Member
<1>1. CASE UNCHANGED vars
  BY <1>1, <1>a DEF vars, kernel, members, pushes, history
<1>2. ASSUME NEW c \in Conns, Connect(c) PROVE MemberInv'
  <2>1. /\ cst[c] = "new" /\ cst' = [cst EXCEPT ![c] = "pending"]
        /\ UNCHANGED <<fdtab, connSet, nfds, lock, pst, pfd, chunk, pushno, got, reused>>
    BY <1>2 DEF Connect, members, pushes, history
  <2>2. \A d \in Conns : cst'[d] = IF d = c THEN "pending" ELSE cst[d]
    BY <1>0, <2>1 DEF TypeOK
  <2>3. QED
    BY <2>1, <2>2, MemberOutside DEF Member
<1>3. ASSUME NEW c \in Conns, PeerSend(c) \/ PeerClose(c) PROVE MemberInv'
  BY <1>3, <1>a DEF PeerSend, PeerClose, members, pushes, history
<1>4. ASSUME NEW s \in Services, Accept(s) PROVE MemberInv'
  <2>1. PICK c \in Conns, fd \in Lowest(FreeFds) :
           /\ cst[c] = "pending" /\ fdtab' = [fdtab EXCEPT ![fd] = c]
           /\ cst' = [cst EXCEPT ![c] = "accepted"]
    BY <1>4 DEF Accept
  <2>2. UNCHANGED <<connSet, nfds, lock, pst, pfd, chunk, pushno, got>> /\ reused \subseteq reused'
    BY <1>4 DEF Accept, members, pushes
  <2>3. \A d \in Conns : cst'[d] = IF d = c THEN "accepted" ELSE cst[d]
    BY <1>0, <2>1 DEF TypeOK
  <2>4. \A f \in Fds : fdtab'[f] = c \/ fdtab'[f] = fdtab[f]
    BY <1>0, <2>1 DEF TypeOK
  <2>5. \A d \in Conns, f \in Fds : Member(d, f)' => Member(d, f)
    BY <2>2, <2>3, <2>4 DEF Member
  <2>6. QED
    BY <2>1, <2>2, <2>3, <2>5, MemberOutside
<1>5. ASSUME NEW s \in Services, Refuse(s) PROVE MemberInv'
  <2>1. PICK c \in Conns : cst' = [cst EXCEPT ![c] = "closed"]
    BY <1>5 DEF Refuse
  <2>2. UNCHANGED <<fdtab, connSet, nfds, lock, pst, pfd, chunk, pushno, got, reused>>
    BY <1>5 DEF Refuse, members, pushes, history
  <2>3. \A d \in Conns : cst'[d] = IF d = c THEN "closed" ELSE cst[d]
    BY <1>0, <2>1 DEF TypeOK
  <2>4. QED
    BY <2>2, <2>3, MemberOutside DEF Member
<1>6. ASSUME NEW s \in Services, Register(s) PROVE MemberInv'
  BY <1>6, MemberRegister
<1>7. ASSUME NEW s \in Services,
             Snapshot(s) \/ Select(s) \/ Recheck(s) \/ HandleEnd(s) \/ HandleReturn(s) \/ Discard(s)
      PROVE  MemberInv'
  BY <1>7, <1>a DEF Snapshot, Select, Recheck, HandleEnd, HandleReturn, Discard,
                    kernel, members, pushes, history
<1>8. ASSUME NEW s \in Services, HandlePacket(s) PROVE MemberInv'
  <2>1. pst[s] = "idle" /\ s \in Pushers
    BY <1>0, <1>8 DEF HandlePacket, PushInv, Pushers
  <2>2. QED
    BY <1>8, <1>b, <2>1 DEF HandlePacket, members, history
<1>9. ASSUME NEW s \in Services, HandleDrop(s) PROVE MemberInv'
  <2>1. PICK fd \in Lowest(readset[s]) : CloseFd(fd)
    BY <1>9 DEF HandleDrop
  <2>2. UNCHANGED <<connSet, nfds, lock, pst, pfd, chunk, pushno, got, reused>>
    BY <1>9 DEF HandleDrop, members, pushes, history
  <2>3. fd \in Fds
    BY <1>0 DEF TypeOK, Lowest
  <2>4. \A c \in Conns, g \in Fds : Member(c, g)' => Member(c, g)
    BY <1>0, <2>1, <2>2, <2>3, CloseMember
  <2>5. QED
    BY <2>2, <2>4, MemberOutside
<1>10. ASSUME NEW s \in Services, ConnDel(s) PROVE MemberInv'
  <2>1. /\ connSet' = [connSet EXCEPT ![s] = @ \ Lowest(readset[s])]
        /\ UNCHANGED <<fdtab, cst, nfds, lock, pst, pfd, chunk, pushno, got, reused>>
    BY <1>10 DEF ConnDel, kernel, pushes, history
  <2>2. \A c \in Conns : connSet'[Target[c]] \subseteq connSet[Target[c]]
    BY <1>0, <2>1, ConnsAssumption DEF TypeOK
  <2>3. QED
    BY <2>1, <2>2, MemberOutside DEF Member
<1>11. ASSUME NEW t \in SpwThreads, SpwReceive(t) PROVE MemberInv'
  <2>1. t \in Pushers
    BY DEF Pushers
  <2>2. QED
    BY <1>11, <1>b, <2>1 DEF SpwReceive, kernel, members, history
<1>12. ASSUME NEW t \in Pushers, PushLoop(t) PROVE MemberInv'
  BY <1>12, MemberPush
<1>13. QED
  BY <1>1, <1>2, <1>3, <1>4, <1>5, <1>6, <1>7, <1>8, <1>9, <1>10, <1>11, <1>12, NextCases
     DEF PushLoop

\* Steps that send nothing and do not advance a push: a connection that has had
\* something keeps its number or loses it.
LEMMA ResumeKeep ==
  ASSUME ResumeInv, UNCHANGED <<got, pushno, lock>>,
         \A r \in Services : lock[r] # NoThread =>
            /\ pst'[lock[r]] = pst[lock[r]] /\ pfd'[lock[r]] = pfd[lock[r]]
            /\ chunk'[lock[r]] = chunk[lock[r]],
         \A c \in Conns, r \in Services, fd \in Fds :
            (fdtab'[fd] = c /\ got[c][r][2] # 0) => fdtab[fd] = c
  PROVE  ResumeInv'
<1>1. \A r \in Services, fd \in Fds : MidPacket(r, fd)' = MidPacket(r, fd)
  BY SentKeep
<1>2. SUFFICES ASSUME NEW c \in Conns, NEW r \in Services, NEW fd \in Fds,
                      fdtab'[fd] = c, got[c][r][2] # 0
               PROVE  IF MidPacket(r, fd) THEN got[c][r] = <<pushno[r], chunk'[lock[r]] - 1>>
                      ELSE /\ got[c][r][2] = Chunks /\ got[c][r][1] <= pushno[r]
                           /\ (lock[r] # NoThread /\ pfd'[lock[r]] <= fd)
                              => got[c][r][1] < pushno[r]
  BY <1>1 DEF ResumeInv
<1>3. fdtab[fd] = c
  BY <1>2
<1>4. IF MidPacket(r, fd) THEN got[c][r] = <<pushno[r], chunk[lock[r]] - 1>>
      ELSE /\ got[c][r][2] = Chunks /\ got[c][r][1] <= pushno[r]
           /\ (lock[r] # NoThread /\ pfd[lock[r]] <= fd) => got[c][r][1] < pushno[r]
  BY <1>2, <1>3 DEF ResumeInv
<1>5. MidPacket(r, fd) => lock[r] # NoThread
  BY DEF MidPacket
<1>6. QED
  BY <1>4, <1>5

\* Every step of a push loop accounts for what was sent to a descriptor,
\* whatever connection it stands for.
LEMMA ResumePush ==
  ASSUME DeliveryInv, NEW t \in Pushers, PushLoop(t)
  PROVE  ResumeInv'
<1> USE ConnsAssumption
<1>1. /\ TypeOK /\ PushInv /\ LockInv /\ FdInv /\ ResumeInv
  BY DEF DeliveryInv, GotInv
<1>2. PICK s \in Services : s = NextSvc(t)
  BY <1>1, NextSvcInTodo DEF PushLoop, PushLock, PushNext, PushSend, PushFail, PushUnlock
<1>3. /\ pushno \in [Services -> Nat] /\ pfd \in [Pushers -> Nat]
      /\ chunk \in [Pushers -> 1 .. Chunks]
      /\ pst \in [Pushers -> {"idle", "lock", "scan", "send"}]
      /\ lock \in [Services -> Pushers \cup {NoThread}]
      /\ got \in [Conns -> [Services -> Nat \X (0 .. Chunks)]]
  BY <1>1 DEF TypeOK
<1>4. /\ t # NoThread /\ Fds \subseteq Nat /\ Chunks \in Nat \ {0}
      /\ pushno[s] \in Nat /\ pfd[t] \in Nat /\ chunk[t] \in 1 .. Chunks
  BY <1>2, <1>3, NoThreadIsNone, FdAssumption, BoundsAssumption DEF Fds
<1>5. ASSUME NEW c \in Conns, NEW r \in Services, r # s, NEW fd \in Fds,
             fdtab'[fd] = c, got'[c][r][2] # 0
      PROVE  IF MidPacket(r, fd)' THEN got'[c][r] = <<pushno'[r], chunk'[lock'[r]] - 1>>
             ELSE /\ got'[c][r][2] = Chunks /\ got'[c][r][1] <= pushno'[r]
                  /\ (lock'[r] # NoThread /\ pfd'[lock'[r]] <= fd) => got'[c][r][1] < pushno'[r]
  <2>1. MidPacket(r, fd)' = MidPacket(r, fd)
    BY <1>1, <1>2, <1>5, SentElsewhere
  <2>2. lock[r] # t /\ (lock[r] # NoThread => lock[r] \in Pushers)
    BY <1>1, <1>2, <1>3, <1>5 DEF LockInv
  <2>3. lock'[r] = lock[r] /\ pushno'[r] = pushno[r]
    BY <1>2, <1>3, <1>5
       DEF PushLoop, PushLock, PushNext, PushSend, PushFail, PushUnlock, history
  <2>4. \A u \in Pushers : u # t => pfd'[u] = pfd[u] /\ chunk'[u] = chunk[u]
    <3>1. /\ pfd' = pfd \/ \E x : pfd' = [pfd EXCEPT ![t] = x]
          /\ chunk' = chunk \/ \E x : chunk' = [chunk EXCEPT ![t] = x]
      BY DEF PushLoop, PushLock, PushNext, PushSend, PushFail, PushUnlock
    <3>2. QED
      BY <1>3, <3>1
  <2>5. got'[c][r] = got[c][r]
    <3>1. CASE PushSend(t)
      <4>1. \A d \in Conns, q \in Services :
               got'[d][q] = IF d = fdtab[pfd[t]] /\ q = NextSvc(t)
                            THEN <<pushno[NextSvc(t)], chunk[t]>> ELSE got[d][q]
        BY <1>1, <3>1, SendGot
      <4>2. QED
        BY <1>2, <1>5, <4>1
    <3>2. CASE ~PushSend(t)
      BY <3>2 DEF PushLoop, PushLock, PushNext, PushFail, PushUnlock, history
    <3>3. QED
      BY <3>1, <3>2
  <2>6. fdtab[fd] = c
    <3>1. CASE PushFail(t)
      BY <1>1, <1>5, <3>1 DEF PushFail, CloseFd, TypeOK
    <3>2. CASE ~PushFail(t)
      BY <1>5, <3>2 DEF PushLoop, PushLock, PushNext, PushSend, PushUnlock, kernel
    <3>3. QED
      BY <3>1, <3>2
  <2>7. IF MidPacket(r, fd) THEN got[c][r] = <<pushno[r], chunk[lock[r]] - 1>>
        ELSE /\ got[c][r][2] = Chunks /\ got[c][r][1] <= pushno[r]
             /\ (lock[r] # NoThread /\ pfd[lock[r]] <= fd) => got[c][r][1] < pushno[r]
    BY <1>1, <1>5, <2>5, <2>6 DEF ResumeInv
  <2>8. MidPacket(r, fd) => lock[r] # NoThread
    BY DEF MidPacket
  <2>9. QED
    BY <2>1, <2>2, <2>3, <2>4, <2>5, <2>7, <2>8
<1>6. SUFFICES ASSUME NEW c \in Conns, NEW fd \in Fds, fdtab'[fd] = c, got'[c][s][2] # 0
               PROVE  IF MidPacket(s, fd)' THEN got'[c][s] = <<pushno'[s], chunk'[lock'[s]] - 1>>
                      ELSE /\ got'[c][s][2] = Chunks /\ got'[c][s][1] <= pushno'[s]
                           /\ (lock'[s] # NoThread /\ pfd'[lock'[s]] <= fd)
                              => got'[c][s][1] < pushno'[s]
  BY <1>5 DEF ResumeInv
<1>7. fd \in Nat /\ got[c][s][1] \in Nat /\ got[c][s][2] \in 0 .. Chunks
  BY <1>3, <1>4, <1>6
\* A member that is not in the middle of a packet.
<1>8. ASSUME fdtab[fd] = c, got[c][s][2] # 0, ~MidPacket(s, fd)
      PROVE  /\ got[c][s][2] = Chunks /\ got[c][s][1] <= pushno[s]
             /\ (lock[s] # NoThread /\ pfd[lock[s]] <= fd) => got[c][s][1] < pushno[s]
  BY <1>1, <1>6, <1>8 DEF ResumeInv
<1>9. CASE PushLock(t)
  <2>1. /\ lock[s] = NoThread /\ lock' = [lock EXCEPT ![s] = t]
        /\ pushno' = [pushno EXCEPT ![s] = @ + 1] /\ pst' = [pst EXCEPT ![t] = "scan"]
        /\ UNCHANGED <<fdtab, got>>
    BY <1>2, <1>9 DEF PushLock, kernel
  <2>2. lock'[s] = t /\ pushno'[s] = pushno[s] + 1 /\ pst'[t] = "scan"
    BY <1>2, <1>3, <2>1
  <2>3. ~MidPacket(s, fd) /\ ~MidPacket(s, fd)'
    BY <2>1, <2>2 DEF MidPacket
  <2>4. QED
    BY <1>4, <1>6, <1>7, <1>8, <2>1, <2>2, <2>3
<1>10. CASE PushNext(t)
  <2>1. PICK g \in Lowest(Ahead(t)) : pfd' = [pfd EXCEPT ![t] = g]
    BY <1>10 DEF PushNext
  <2>2. /\ pst[t] = "scan" /\ chunk' = [chunk EXCEPT ![t] = 1]
        /\ UNCHANGED <<fdtab, lock, pushno, got>>
    BY <1>10 DEF PushNext, kernel, history
  <2>3. lock[s] = t /\ pfd'[t] = g /\ chunk'[t] = 1
    BY <1>1, <1>2, <1>3, <2>1, <2>2 DEF LockInv
  <2>4. pfd[t] <= g /\ g \in Nat
    <3>1. g \in Ahead(t) /\ connSet[s] \subseteq Fds
      BY <1>1 DEF Lowest, TypeOK
    <3>2. QED
      BY <1>2, <1>4, <3>1 DEF Ahead
  <2>5. ~MidPacket(s, fd) /\ ~MidPacket(s, fd)'
    BY <2>2, <2>3 DEF MidPacket
  <2>6. (g <= fd) => (pfd[t] <= fd)
    BY <1>4, <1>7, <2>4
  <2>7. QED
    BY <1>6, <1>8, <2>2, <2>3, <2>5, <2>6
<1>11. CASE PushSend(t)
  <2>1. /\ pst[t] = "send" /\ pfd[t] \in Fds /\ fdtab[pfd[t]] \in Conns
        /\ got'[c][s] = IF c = fdtab[pfd[t]] THEN <<pushno[s], chunk[t]>> ELSE got[c][s]
    BY <1>1, <1>2, <1>11, SendGot
  <2>2. UNCHANGED <<fdtab, lock, pushno>>
    BY <1>11 DEF PushSend, kernel
  <2>3. /\ chunk' = [chunk EXCEPT ![t] = IF chunk[t] < Chunks THEN @ + 1 ELSE 1]
        /\ pfd' = [pfd EXCEPT ![t] = IF chunk[t] < Chunks THEN @ ELSE @ + 1]
        /\ pst' = [pst EXCEPT ![t] = IF chunk[t] < Chunks THEN "send" ELSE "scan"]
    BY <1>11 DEF PushSend
  <2>4. /\ chunk'[t] = IF chunk[t] < Chunks THEN chunk[t] + 1 ELSE 1
        /\ pfd'[t] = IF chunk[t] < Chunks THEN pfd[t] ELSE pfd[t] + 1
        /\ pst'[t] = IF chunk[t] < Chunks THEN "send" ELSE "scan"
    BY <1>3, <2>3
  <2>5. lock[s] = t
    BY <1>1, <1>2, <2>1 DEF LockInv
  <2>6. CASE fd = pfd[t] /\ chunk[t] < Chunks
    <3>1. MidPacket(s, fd)'
      BY <1>4, <2>2, <2>4, <2>5, <2>6 DEF MidPacket
    <3>2. got'[c][s] = <<pushno[s], chunk[t]>> /\ chunk'[t] - 1 = chunk[t]
      BY <1>4, <1>6, <2>1, <2>2, <2>4, <2>6
    <3>3. QED
      BY <2>2, <2>5, <3>1, <3>2
  <2>7. CASE fd = pfd[t] /\ ~(chunk[t] < Chunks)
    <3>1. pst'[t] = "scan" /\ pfd'[t] = fd + 1 /\ chunk[t] = Chunks
      BY <1>4, <2>4, <2>7
    <3>2. ~MidPacket(s, fd)'
      BY <2>2, <2>5, <3>1 DEF MidPacket
    <3>3. got'[c][s] = <<pushno[s], Chunks>>
      BY <1>6, <2>1, <2>2, <2>7, <3>1
    <3>4. QED
      BY <1>4, <1>7, <2>2, <2>5, <3>1, <3>2, <3>3
  <2>8. CASE fd # pfd[t]
    <3>1. c # fdtab[pfd[t]] /\ fdtab[fd] = c
      BY <1>1, <1>6, <2>1, <2>2, <2>8 DEF FdInv
    <3>2. got'[c][s] = got[c][s]
      BY <2>1, <3>1
    <3>3. ~MidPacket(s, fd) /\ ~MidPacket(s, fd)'
      BY <2>2, <2>4, <2>5, <2>8 DEF MidPacket
    <3>4. (pfd'[t] <= fd) => (pfd[t] <= fd)
      BY <1>4, <1>7, <2>4
    <3>5. QED
      BY <1>6, <1>8, <2>2, <2>5, <3>1, <3>2, <3>3, <3>4
  <2>9. QED
    BY <2>6, <2>7, <2>8
<1>12. CASE PushFail(t)
  <2>1. /\ pst[t] = "send" /\ CloseFd(pfd[t])
        /\ pfd' = [pfd EXCEPT ![t] = @ + 1] /\ pst' = [pst EXCEPT ![t] = "scan"]
        /\ UNCHANGED <<lock, pushno, got>>
    BY <1>12 DEF PushFail, history
  <2>2. lock[s] = t /\ pfd[t] \in Fds /\ pfd'[t] = pfd[t] + 1 /\ pst'[t] = "scan"
    BY <1>1, <1>2, <1>3, <2>1 DEF LockInv, PushInv, TypeOK
  <2>3. fd # pfd[t] /\ fdtab[fd] = c
    BY <1>1, <1>6, <2>1, <2>2 DEF CloseFd, TypeOK
  <2>4. ~MidPacket(s, fd) /\ ~MidPacket(s, fd)'
    BY <2>1, <2>2, <2>3 DEF MidPacket
  <2>5. (pfd'[t] <= fd) => (pfd[t] <= fd)
    BY <1>4, <1>7, <2>2
  <2>6. QED
    BY <1>6, <1>8, <2>1, <2>2, <2>3, <2>4, <2>5
<1>13. CASE PushUnlock(t)
  <2>1. /\ pst[t] = "scan" /\ lock' = [lock EXCEPT ![s] = NoThread]
        /\ UNCHANGED <<fdtab, pushno, got>>
    BY <1>2, <1>13 DEF PushUnlock, kernel, history
  <2>2. lock[s] = t /\ lock'[s] = NoThread
    BY <1>1, <1>2, <1>3, <2>1 DEF LockInv
  <2>3. ~MidPacket(s, fd) /\ ~MidPacket(s, fd)'
    BY <2>1, <2>2 DEF MidPacket
  <2>4. QED
    BY <1>6, <1>8, <2>1, <2>2, <2>3
<1>14. QED
  BY <1>9, <1>10, <1>11, <1>12, <1>13 DEF PushLoop

\* Every operation accounts for what was sent to every open descriptor.
LEMMA ResumeNext == DeliveryInv /\ [Next]_vars => ResumeInv'
<1> SUFFICES ASSUME DeliveryInv, [Next]_vars PROVE ResumeInv'
  OBVIOUS
<1> USE ConnsAssumption
<1>1. TypeOK /\ PushInv /\ LockInv /\ UnsentInv /\ ResumeInv
  BY DEF DeliveryInv, GotInv
<1>2. \A r \in Services : lock[r] # NoThread =>
         lock[r] \in Pushers /\ pst[lock[r]] \in {"scan", "send"}
  BY <1>1 DEF TypeOK, LockInv
<1>a. ASSUME UNCHANGED <<got, pushno, lock, pst, pfd, chunk>>,
             \A c \in Conns, r \in Services, fd \in Fds :
                (fdtab'[fd] = c /\ got[c][r][2] # 0) => fdtab[fd] = c
      PROVE  ResumeInv'
  BY <1>1, <1>a, ResumeKeep
<1>b. ASSUME UNCHANGED <<fdtab, got, pushno, lock, pfd, chunk>>,
             NEW t \in Pushers, pst[t] = "idle", NEW x, pst' = [pst EXCEPT ![t] = x]
      PROVE  ResumeInv'
  <2>1. \A r \in Services : lock[r] # NoThread => pst'[lock[r]] = pst[lock[r]]
    BY <1>1, <1>2, <1>b DEF TypeOK
  <2>2. QED
    BY <1>1, <1>b, <2>1, ResumeKeep
<1>3. CASE UNCHANGED vars
  BY <1>3, <1>a DEF vars, kernel, pushes, history
<1>4. ASSUME NEW c \in Conns, Connect(c) \/ PeerSend(c) \/ PeerClose(c) PROVE ResumeInv'
  BY <1>4, <1>a DEF Connect, PeerSend, PeerClose, pushes, history
<1>5. ASSUME NEW s \in Services, Accept(s) PROVE ResumeInv'
  <2>1. PICK c \in Conns, fd \in Lowest(FreeFds) :
           cst[c] = "pending" /\ fdtab' = [fdtab EXCEPT ![fd] = c]
    BY <1>5 DEF Accept
  <2>2. UNCHANGED <<got, pushno, lock, pst, pfd, chunk>>
    BY <1>5 DEF Accept, pushes
  <2>3. \A r \in Services : got[c][r] = <<0, 0>>
    BY <1>1, <2>1 DEF UnsentInv
  <2>4. \A f \in Fds : fdtab'[f] = c \/ fdtab'[f] = fdtab[f]
    BY <1>1, <2>1 DEF TypeOK
  <2>5. QED
    BY <1>a, <2>2, <2>3, <2>4
<1>6. ASSUME NEW s \in Services, Refuse(s) \/ Register(s) PROVE ResumeInv'
  BY <1>6, <1>a DEF Refuse, Register, pushes, history
<1>7. ASSUME NEW s \in Services, \/ Snapshot(s) \/ Select(s) \/ Recheck(s) \/ HandleEnd(s)
                                 \/ HandleReturn(s) \/ Discard(s) \/ ConnDel(s)
      PROVE  ResumeInv'
  BY <1>7, <1>a DEF Snapshot, Select, Recheck, HandleEnd, HandleReturn, Discard, ConnDel,
                    kernel, pushes, history
<1>8. ASSUME NEW s \in Services, HandlePacket(s) PROVE ResumeInv'
  <2>1. pst[s] = "idle" /\ s \in Pushers
    BY <1>1, <1>8 DEF HandlePacket, PushInv, Pushers
  <2>2. QED
    BY <1>8, <1>b, <2>1 DEF HandlePacket, history
<1>9. ASSUME NEW s \in Services, HandleDrop(s) PROVE ResumeInv'
  <2>1. PICK fd : CloseFd(fd)
    BY <1>9 DEF HandleDrop
  <2>2. UNCHANGED <<got, pushno, lock, pst, pfd, chunk>>
    BY <1>9 DEF HandleDrop, pushes, history
  <2>3. \A f \in Fds : fdtab'[f] = NoConn \/ fdtab'[f] = fdtab[f]
    BY <1>1, <2>1 DEF CloseFd, TypeOK
  <2>4. QED
    BY <1>a, <2>2, <2>3
<1>10. ASSUME NEW t \in SpwThreads, SpwReceive(t) PROVE ResumeInv'
  <2>1. t \in Pushers
    BY DEF Pushers
  <2>2. QED
    BY <1>10, <1>b, <2>1 DEF SpwReceive, kernel, history
<1>11. ASSUME NEW t \in Pushers, PushLoop(t) PROVE ResumeInv'
  BY <1>11, ResumePush
<1>12. QED
  BY <1>3, <1>4, <1>5, <1>6, <1>7, <1>8, <1>9, <1>10, <1>11, NextCases DEF PushLoop

-----------------------------------------------------------------------------
\* The state of the push loops accounts for what was sent on every connection,
\* registered or not, for any number of services, clients and SpW threads (the
\* push loops of net.c hold svc->lock throughout).
THEOREM Delivery == Spec => []DeliveryInv
<1>1. Init => DeliveryInv
  BY TypeInit, PushInit, FdInit, OwnInit, GotInit DEF DeliveryInv
<1>2. DeliveryInv /\ [Next]_vars => DeliveryInv'
  BY TypeNext, PushNextInv, FdNext, OwnNext, UnsentNext, MemberNext, ResumeNext
     DEF DeliveryInv, GotInv
<1>3. QED
  BY <1>1, <1>2, PTL DEF Spec

\* Only a push loop sends.
LEMMA OnlyPushSends ==
  ASSUME [Next]_vars, got' # got
  PROVE  \E t \in Pushers : PushSend(t)
  BY NextCases DEF vars, history, Connect, PeerSend, PeerClose, Accept, Refuse, Register,
     Snapshot, Select, Recheck, HandleEnd, HandlePacket, HandleReturn, Discard, HandleDrop,
     ConnDel, SpwReceive, PushLock, PushNext, PushFail, PushUnlock

\* One send() of a push loop goes on where the last one to that client ended.
LEMMA SendContinues ==
  ASSUME DeliveryInv, NEW t \in Pushers, PushSend(t), NEW c \in Conns, c = fdtab[pfd[t]],
         NEW s \in Services, s = NextSvc(t)
  PROVE  IF c \in reused THEN Resumes(got[c][s], got'[c][s])
         ELSE s = Target[c] /\ Continues(got[c][s], got'[c][s])
<1> USE ConnsAssumption
<1>1. TypeOK /\ PushInv /\ LockInv /\ FdInv /\ OwnNumber /\ ResumeInv /\ MemberInv
  BY DEF DeliveryInv, GotInv
<1>2. /\ pst[t] = "send" /\ pfd[t] \in Fds /\ fdtab[pfd[t]] = c
      /\ got'[c][s] = <<pushno[s], chunk[t]>>
  BY <1>1, SendGot
<1>3. PICK fd \in Fds : fd = pfd[t]
  BY <1>2
<1>4. lock[s] = t /\ t # NoThread
  BY <1>1, <1>2, NoThreadIsNone DEF LockInv
<1>5. /\ pushno[s] \in Nat /\ fd \in Nat /\ Chunks \in Nat \ {0} /\ chunk[t] \in 1 .. Chunks
      /\ got[c][s] \in Nat \X (0 .. Chunks)
  BY <1>1, FdAssumption, BoundsAssumption DEF TypeOK, Fds
<1>6. MidPacket(s, fd) <=> chunk[t] > 1
  BY <1>2, <1>3, <1>4 DEF MidPacket
<1>7. Chunks \notin 1 .. (Chunks - 1)
  BY <1>5
<1>8. CASE c \in reused
  <2>1. CASE got[c][s][2] = 0
    BY <1>5, <1>8, <2>1 DEF Resumes
  <2>2. CASE got[c][s][2] # 0 /\ chunk[t] > 1
    <3>1. got[c][s] = <<pushno[s], chunk[t] - 1>>
      BY <1>1, <1>2, <1>3, <1>4, <1>6, <2>2 DEF ResumeInv
    <3>2. chunk[t] - 1 \in 1 .. (Chunks - 1) /\ chunk[t] - 1 + 1 = chunk[t]
      BY <1>5, <2>2
    <3>3. QED
      BY <1>2, <1>8, <3>1, <3>2 DEF Resumes
  <2>3. CASE got[c][s][2] # 0 /\ chunk[t] = 1
    <3>1. got[c][s][2] = Chunks /\ (pfd[lock[s]] <= fd => got[c][s][1] < pushno[s])
      BY <1>1, <1>2, <1>3, <1>4, <1>6, <2>3 DEF ResumeInv
    <3>2. got[c][s][1] < pushno[s] /\ got[c][s][1] \in Nat
      BY <1>3, <1>4, <1>5, <3>1
    <3>3. QED
      BY <1>2, <1>5, <1>7, <1>8, <2>3, <3>1, <3>2 DEF Resumes
  <2>4. QED
    BY <1>5, <2>1, <2>2, <2>3
<1>9. CASE c \notin reused
  <2>1. s = Target[c] /\ Member(c, fd)
    BY <1>1, <1>3, <1>9, SendOwn
  <2>2. CASE chunk[t] > 1
    <3>1. got[c][s] = LastSent(s, fd)
      BY <1>1, <1>6, <1>9, <2>1, <2>2 DEF MemberInv
    <3>2. got[c][s] = <<pushno[s], chunk[t] - 1>>
      BY <1>3, <1>4, <1>5, <1>6, <2>2, <3>1 DEF LastSent
    <3>3. chunk[t] - 1 \in 1 .. (Chunks - 1) /\ chunk[t] - 1 + 1 = chunk[t]
      BY <1>5, <2>2
    <3>4. QED
      BY <1>2, <1>9, <2>1, <3>2, <3>3 DEF Continues
  <2>3. CASE chunk[t] = 1 /\ got[c][s][2] = 0
    BY <1>2, <1>5, <1>9, <2>1, <2>3 DEF Continues
  <2>4. CASE chunk[t] = 1 /\ got[c][s][2] # 0
    <3>1. got[c][s] = LastSent(s, fd)
      BY <1>1, <1>9, <2>1, <2>4 DEF MemberInv
    <3>2. got[c][s] = <<pushno[s] - 1, Chunks>>
      BY <1>3, <1>4, <1>5, <1>6, <2>4, <3>1 DEF LastSent
    <3>3. pushno[s] = pushno[s] - 1 + 1
      BY <1>5
    <3>4. QED
      BY <1>2, <1>7, <1>9, <2>1, <2>4, <3>2, <3>3 DEF Continues
  <2>5. QED
    BY <1>5, <2>2, <2>3, <2>4
<1>10. QED
  BY <1>8, <1>9

\* A connection on a number of its own receives the packets of its service,
\* whole, in order and with none left out in between, and nothing else; on a
\* number that was still in use at most the first packet of a service is cut.
\* This is so whichever threads push and whatever else happens meanwhile.
THEOREM PacketsWhole == Spec => WholePackets
<1>1. ASSUME DeliveryInv, [Next]_vars, NEW c \in Conns, NEW s \in Services,
             got'[c][s] # got[c][s]
      PROVE  IF c \in reused THEN Resumes(got[c][s], got'[c][s])
             ELSE s = Target[c] /\ Continues(got[c][s], got'[c][s])
  <2>1. PICK t \in Pushers : PushSend(t)
    BY <1>1, OnlyPushSends
  <2>2. TypeOK /\ PushInv
    BY <1>1 DEF DeliveryInv
  <2>3. c = fdtab[pfd[t]] /\ s = NextSvc(t)
    <3>1. \A d \in Conns, q \in Services :
             got'[d][q] = IF d = fdtab[pfd[t]] /\ q = NextSvc(t)
                          THEN <<pushno[NextSvc(t)], chunk[t]>> ELSE got[d][q]
      BY <2>1, <2>2, SendGot
    <3>2. QED
      BY <1>1, <3>1
  <2>4. QED
    BY <1>1, <2>1, <2>3, SendContinues
<1>2. DeliveryInv /\ [Next]_vars =>
        [\A c \in Conns, s \in Services : got'[c][s] # got[c][s] =>
            IF c \in reused THEN Resumes(got[c][s], got'[c][s])
            ELSE s = Target[c] /\ Continues(got[c][s], got'[c][s])]_vars
  BY <1>1
<1>3. QED
  BY <1>2, Delivery, PTL DEF Spec, WholePackets

-----------------------------------------------------------------------------
\* Client mode: what ends the process.

\* close() of the descriptor the link had.
LEMMA CloseLink ==
  ASSUME TypeOK, ClientInv, ClientMode, CloseFd(FdMin)
  PROVE  cst'[ClientConn] = "closed"
<1>1. ClientConn \in Conns /\ ClientConn # NoConn /\ FdMin \in Fds
  BY ConnsAssumption, FdAssumption DEF ClientMode, Fds
<1>2. cst \in [Conns -> {"new", "pending", "accepted", "joined", "closed"}]
  BY DEF TypeOK
<1>3. CASE cst[ClientConn] = "closed"
  BY <1>1, <1>2, <1>3 DEF CloseFd
<1>4. CASE cst[ClientConn] # "closed"
  <2>1. fdtab[FdMin] = ClientConn
    BY <1>4 DEF ClientInv
  <2>2. QED
    BY <1>1, <1>2, <2>1 DEF CloseFd
<1>5. QED
  BY <1>3, <1>4

\* close() of any descriptor keeps the link's or closes the link.
LEMMA CloseAny ==
  ASSUME TypeOK, ClientInv, ClientMode, NEW fd \in Fds, CloseFd(fd)
  PROVE  /\ cst[ClientConn] = "closed" => cst'[ClientConn] = "closed"
         /\ cst'[ClientConn] # "closed" => cst'[ClientConn] = "joined" /\ fdtab'[FdMin] = ClientConn
         /\ \A c \in Conns : cst'[c] = "pending" => cst[c] = "pending"
<1>1. ClientConn \in Conns /\ ClientConn # NoConn /\ FdMin \in Fds
  BY ConnsAssumption, FdAssumption DEF ClientMode, Fds
<1>2. /\ cst \in [Conns -> {"new", "pending", "accepted", "joined", "closed"}]
      /\ fdtab \in [Fds -> Conns \cup {NoConn}]
  BY DEF TypeOK
<1>3. /\ \A f \in Fds : fdtab'[f] = IF f = fd THEN NoConn ELSE fdtab[f]
      /\ \A c \in Conns : cst'[c] = IF c = fdtab[fd] THEN "closed" ELSE cst[c]
  BY <1>2, ConnsAssumption DEF CloseFd
<1>4. fd = FdMin => cst'[ClientConn] = "closed"
  BY CloseLink
<1>5. QED
  BY <1>1, <1>3, <1>4 DEF ClientInv

\* In client mode the bridge starts with the target connected.
LEMMA ClientInit == Init => ClientInv
  BY ConnsAssumption, ServicesAssumption, FdAssumption DEF Init, ClientInv, ClientMode, Fds

\* The target keeps its descriptor until the bridge closes it, and the number
\* is used for nothing else meanwhile.
LEMMA ClientNext ==
  TypeOK /\ PushInv /\ AcceptInv /\ ClientInv /\ [Next]_vars => ClientInv'
<1> SUFFICES ASSUME TypeOK, PushInv, AcceptInv, ClientInv, [Next]_vars, ClientMode PROVE ClientInv'
  BY DEF ClientInv
<1>0. /\ ClientConn \in Conns /\ ClientConn # NoConn /\ FdMin \in Fds /\ "data" \in Services
      /\ Target[ClientConn] = "data"
      /\ cst \in [Conns -> {"new", "pending", "accepted", "joined", "closed"}]
      /\ fdtab \in [Fds -> Conns \cup {NoConn}]
      /\ connSet \in [Services -> SUBSET Fds] /\ readset \in [Services -> SUBSET Fds]
      /\ apc \in [Services -> {"accept", "set"}]
      /\ ppc \in [Services -> {"snap", "select", "recheck", "handle", "push", "del"}]
  BY ConnsAssumption, FdAssumption, ServicesAssumption DEF ClientMode, Fds, TypeOK
<1>1. ASSUME UNCHANGED <<fdtab, cst, apc>>, connSet'["data"] \subseteq connSet["data"],
             readset'["data"] \subseteq readset["data"] \cup connSet["data"],
             ppc'["data"] = "del" => ppc["data"] = "del"
      PROVE  ClientInv'
  BY <1>1 DEF ClientInv
<1>2. CASE UNCHANGED vars
  BY <1>1, <1>2 DEF vars, kernel, members, accepts, polls
<1>3. ASSUME NEW c \in Conns, Connect(c) \/ PeerSend(c) \/ PeerClose(c) PROVE ClientInv'
  <2>1. CASE Connect(c)
    <3>1. /\ cst[c] = "new" /\ Target[c] # "data" /\ cst' = [cst EXCEPT ![c] = "pending"]
          /\ UNCHANGED <<fdtab, connSet, readset, apc, ppc>>
      BY <2>1 DEF Connect, Listening, members, accepts, polls
    <3>2. QED
      BY <1>0, <3>1 DEF ClientInv
  <2>2. CASE PeerSend(c) \/ PeerClose(c)
    BY <1>1, <2>2 DEF PeerSend, PeerClose, members, accepts, polls
  <2>3. QED
    BY <1>3, <2>1, <2>2
<1>4. ASSUME NEW s \in Services, Accept(s) PROVE ClientInv'
  <2>1. PICK c \in Conns, fd \in Lowest(FreeFds) :
          /\ cst[c] = "pending" /\ Target[c] = s
          /\ fdtab' = [fdtab EXCEPT ![fd] = c] /\ cst' = [cst EXCEPT ![c] = "accepted"]
    BY <1>4 DEF Accept
  <2>2. fd \in Fds /\ fdtab[fd] = NoConn
    BY DEF Lowest, FreeFds
  <2>3. apc' = [apc EXCEPT ![s] = "set"] /\ UNCHANGED <<connSet, readset, ppc>> /\ s # "data"
    BY <1>4, <2>1 DEF Accept, members, polls, ClientInv
  <2>4. c # ClientConn
    BY <1>0, <2>1, <2>3
  <2>5. QED
    BY <1>0, <2>1, <2>2, <2>3, <2>4 DEF ClientInv
<1>5. ASSUME NEW s \in Services, Refuse(s) PROVE ClientInv'
  <2>1. PICK c \in Conns : cst[c] = "pending" /\ cst' = [cst EXCEPT ![c] = "closed"]
    BY <1>5 DEF Refuse
  <2>2. UNCHANGED <<fdtab, connSet, readset, apc, ppc>>
    BY <1>5 DEF Refuse, members, accepts, polls
  <2>3. QED
    BY <1>0, <2>1, <2>2 DEF ClientInv
<1>6. ASSUME NEW s \in Services, Register(s) PROVE ClientInv'
  <2>1. s # "data" /\ aconn[s] \in Conns /\ aconn[s] # ClientConn
    BY <1>0, <1>6 DEF Register, ClientInv, AcceptInv
  <2>2. /\ connSet'["data"] = connSet["data"] /\ apc'["data"] = apc["data"]
        /\ UNCHANGED <<fdtab, readset, ppc>>
    BY <1>0, <1>6, <2>1 DEF Register, polls
  <2>3. cst'[ClientConn] = cst[ClientConn] /\ \A c \in Conns : cst'[c] = "pending" => cst[c] = "pending"
    BY <1>0, <1>6, <2>1 DEF Register
  <2>4. QED
    BY <2>2, <2>3 DEF ClientInv
<1>7. ASSUME NEW s \in Services, Snapshot(s) PROVE ClientInv'
  BY <1>0, <1>1, <1>7 DEF Snapshot, kernel, members, accepts
<1>8. ASSUME NEW s \in Services, Select(s) PROVE ClientInv'
  <2>1. /\ UNCHANGED <<fdtab, cst, apc, connSet>> /\ \A r \in Services : readset'[r] \subseteq readset[r]
    BY <1>0, <1>8 DEF Select, kernel, members, accepts
  <2>2. ppc'["data"] = "del" => ppc["data"] = "del"
    BY <1>0, <1>8 DEF Select
  <2>3. QED
    BY <1>0, <1>1, <2>1, <2>2
<1>9. ASSUME NEW s \in Services, Recheck(s) \/ HandleEnd(s) \/ HandleReturn(s) PROVE ClientInv'
  <2>1. /\ UNCHANGED <<fdtab, cst, apc, connSet>> /\ \A r \in Services : readset'[r] \subseteq readset[r]
    BY <1>0, <1>9 DEF Recheck, HandleEnd, HandleReturn, kernel, members, accepts
  <2>2. ppc'["data"] = "del" => ppc["data"] = "del"
    BY <1>0, <1>9 DEF Recheck, HandleEnd, HandleReturn
  <2>3. QED
    BY <1>0, <1>1, <2>1, <2>2
<1>10. ASSUME NEW s \in Services, HandlePacket(s) \/ Discard(s) PROVE ClientInv'
  <2>1. /\ UNCHANGED <<fdtab, cst, apc, connSet>> /\ \A r \in Services : readset'[r] \subseteq readset[r]
    BY <1>0, <1>10 DEF HandlePacket, Discard, members, accepts
  <2>2. ppc'["data"] = "del" => ppc["data"] = "del"
    BY <1>0, <1>10 DEF HandlePacket, Discard
  <2>3. QED
    BY <1>0, <1>1, <2>1, <2>2
<1>11. ASSUME NEW s \in Services, HandleDrop(s) PROVE ClientInv'
  <2>1. PICK fd \in Lowest(readset[s]) : CloseFd(fd)
    BY <1>11 DEF HandleDrop
  <2>2. fd \in readset[s] /\ fd \in Fds
    BY <1>0 DEF Lowest
  <2>3. UNCHANGED <<connSet, apc, readset>> /\ ppc' = [ppc EXCEPT ![s] = "del"]
    BY <1>11 DEF HandleDrop, members, accepts
  <2>4. /\ cst[ClientConn] = "closed" => cst'[ClientConn] = "closed"
        /\ cst'[ClientConn] # "closed" => cst'[ClientConn] = "joined" /\ fdtab'[FdMin] = ClientConn
        /\ \A c \in Conns : cst'[c] = "pending" => cst[c] = "pending"
    BY <2>1, <2>2, CloseAny
  <2>5. s = "data" => cst'[ClientConn] = "closed"
    BY <2>1, <2>2, CloseLink DEF ClientInv
  <2>6. ppc'["data"] = "del" => s = "data" \/ ppc["data"] = "del"
    BY <1>0, <2>3
  <2>7. QED
    BY <2>3, <2>4, <2>5, <2>6 DEF ClientInv
<1>12. ASSUME NEW s \in Services, ConnDel(s) PROVE ClientInv'
  <2>1. /\ UNCHANGED <<fdtab, cst, apc>>
        /\ \A r \in Services : readset'[r] \subseteq readset[r] /\ connSet'[r] \subseteq connSet[r]
    BY <1>0, <1>12 DEF ConnDel, kernel, accepts
  <2>2. ppc'["data"] = "del" => ppc["data"] = "del"
    BY <1>0, <1>12 DEF ConnDel
  <2>3. QED
    BY <1>0, <1>1, <2>1, <2>2
<1>13. ASSUME NEW t \in SpwThreads, SpwReceive(t) PROVE ClientInv'
  BY <1>1, <1>13 DEF SpwReceive, kernel, members, accepts, polls
<1>14. ASSUME NEW t \in Pushers, PushLock(t) \/ PushNext(t) \/ PushSend(t) \/ PushUnlock(t)
       PROVE  ClientInv'
  <2>1. UNCHANGED <<kernel, members, accepts, polls>>
    BY <1>14 DEF PushLock, PushNext, PushSend, PushUnlock
  <2>2. QED
    BY <1>1, <2>1 DEF kernel, members, accepts, polls
<1>15. ASSUME NEW t \in Pushers, PushFail(t) PROVE ClientInv'
  <2>1. /\ pst[t] = "send" /\ CloseFd(pfd[t]) /\ UNCHANGED <<apc, readset, ppc>>
        /\ connSet' = [connSet EXCEPT ![NextSvc(t)] = @ \ {pfd[t]}]
    BY <1>15 DEF PushFail, accepts, polls
  <2>2. pfd[t] \in Fds
    BY <1>0, <2>1, NextSvcInTodo DEF PushInv
  <2>3. connSet'["data"] \subseteq connSet["data"]
    BY <1>0, <2>1
  <2>4. /\ cst[ClientConn] = "closed" => cst'[ClientConn] = "closed"
        /\ cst'[ClientConn] # "closed" => cst'[ClientConn] = "joined" /\ fdtab'[FdMin] = ClientConn
        /\ \A c \in Conns : cst'[c] = "pending" => cst[c] = "pending"
    BY <2>1, <2>2, CloseAny
  <2>5. QED
    BY <2>1, <2>3, <2>4 DEF ClientInv
<1>16. QED
  BY <1>2, <1>3, <1>4, <1>5, <1>6, <1>7, <1>8, <1>9, <1>10, <1>11, <1>12, <1>13, <1>14, <1>15, NextCases, Zenon

\* In client mode, with no other port open than the data and the RMAP port,
\* conn_drop and conn_drop_locked end the bridge only after the link to the
\* remote target is closed; in server mode they never do.
THEOREM ExitMeansLinkLost == Services \subseteq {"data", "rmap"} => (Spec => []OnlyLinkLossExits)
<1> SUFFICES ASSUME Services \subseteq {"data", "rmap"} PROVE Spec => []OnlyLinkLossExits
  OBVIOUS
<1>1. Init => ClientInv /\ OnlyLinkLossExits
  BY ClientInit DEF Init, OnlyLinkLossExits
<1>2. ASSUME DeliveryInv, ClientInv, OnlyLinkLossExits, [Next]_vars
      PROVE  ClientInv' /\ OnlyLinkLossExits'
  <2>1. TypeOK /\ PushInv /\ AcceptInv
    BY <1>2 DEF DeliveryInv
  <2>2. ClientInv'
    BY <1>2, <2>1, ClientNext
  <2>3. ASSUME NEW s \in Services, ConnDel(s) PROVE OnlyLinkLossExits'
    <3>1. ASSUME ExitsOnDrop(s) PROVE cst'[ClientConn] = "closed"
      <4>1. s = "data" /\ ClientMode /\ ppc["data"] = "del" /\ cst' = cst
        BY <2>3, <3>1 DEF ExitsOnDrop, ConnDel, kernel
      <4>2. QED
        BY <1>2, <4>1 DEF ClientInv
    <3>2. exited' = ExitsOnDrop(s)
      BY <2>3 DEF ConnDel
    <3>3. QED
      BY <3>1, <3>2 DEF OnlyLinkLossExits
  <2>4. ASSUME NEW t \in Pushers, PushFail(t) PROVE OnlyLinkLossExits'
    <3>1. ASSUME ExitsOnDrop(NextSvc(t)) PROVE cst'[ClientConn] = "closed"
      <4>1. NextSvc(t) = "data" /\ ClientMode
        BY <2>1, <2>4, <3>1, NextSvcInTodo DEF ExitsOnDrop, PushFail
      <4>2. pfd[t] = FdMin /\ CloseFd(pfd[t])
        BY <1>2, <2>1, <2>4, <4>1 DEF PushFail, PushInv, ClientInv
      <4>3. QED
        BY <1>2, <2>1, <4>1, <4>2, CloseLink
    <3>2. exited' = ExitsOnDrop(NextSvc(t))
      BY <2>4 DEF PushFail
    <3>3. QED
      BY <3>1, <3>2 DEF OnlyLinkLossExits
  <2>5. ASSUME ~exited, UNCHANGED exited PROVE OnlyLinkLossExits'
    BY <2>5 DEF OnlyLinkLossExits
  <2>6. ASSUME UNCHANGED vars PROVE OnlyLinkLossExits'
    BY <1>2, <2>6 DEF vars, kernel, OnlyLinkLossExits
  <2>7. UNCHANGED vars \/ (~exited /\ UNCHANGED exited)
        \/ (\E s \in Services : ConnDel(s)) \/ (\E t \in Pushers : PushFail(t))
    <3>1. UNCHANGED vars \/ ~exited
      BY <1>2, Zenon DEF Next
    <3>2. UNCHANGED vars \/ UNCHANGED exited
          \/ (\E s \in Services : ConnDel(s)) \/ (\E t \in Pushers : PushFail(t))
      BY <1>2, NextCases DEF Connect, PeerSend, PeerClose, Accept, Refuse, Register, Snapshot, Select,
         Recheck, HandleEnd, HandlePacket, HandleReturn, Discard, HandleDrop, SpwReceive, PushLock,
         PushNext, PushSend, PushUnlock
    <3>3. QED
      BY <3>1, <3>2
  <2>8. QED
    BY <2>2, <2>3, <2>4, <2>5, <2>6, <2>7
<1>3. QED
  BY <1>1, <1>2, Delivery, PTL DEF Spec

-----------------------------------------------------------------------------
(* NetService implements Broadcast: every step of accept_connections, of   *)
(* poll_socket and of the push loops is a step of a broadcast to members   *)
(* that come and go, or changes nothing the broadcast can see.             *)

\* A service whose lock a push loop holds has published a packet.
PublishedInv == \A s \in Services : lock[s] # NoThread => pushno[s] > 0

\* Only PushLock takes the lock, and it counts the packet as it does.
LEMMA PublishedNext == TypeOK /\ PublishedInv /\ [Next]_vars => PublishedInv'
<1> SUFFICES ASSUME TypeOK, PublishedInv, [Next]_vars PROVE PublishedInv'
  OBVIOUS
<1>1. ASSUME NEW t \in Pushers, PushLock(t) PROVE PublishedInv'
  BY <1>1 DEF PushLock, PublishedInv, TypeOK
<1>2. ASSUME NEW t \in Pushers, PushUnlock(t) PROVE PublishedInv'
  BY <1>2 DEF PushUnlock, PublishedInv, TypeOK, history
<1>3. ASSUME UNCHANGED <<lock, pushno>> PROVE PublishedInv'
  BY <1>3 DEF PublishedInv
<1>4. QED
  BY <1>1, <1>2, <1>3, NextCases DEF vars, history, Connect, PeerSend, PeerClose, Accept, Refuse,
     Register, Snapshot, Select, Recheck, HandleEnd, HandlePacket, HandleReturn, Discard,
     HandleDrop, ConnDel, SpwReceive, PushNext, PushSend, PushFail

\* An open connection has a descriptor, and only a connection that was accepted
\* can have got a number in use.
OpenInv == \A c \in Conns :
    /\ cst[c] \in {"accepted", "joined"} => \E fd \in Fds : fdtab[fd] = c
    /\ c \in reused => cst[c] \notin {"new", "pending"}

LEMMA OpenInit == Init => OpenInv
<1> SUFFICES ASSUME Init, NEW c \in Conns, cst[c] \in {"accepted", "joined"}
             PROVE  \E fd \in Fds : fdtab[fd] = c
  BY DEF Init, OpenInv
<1>1. c = ClientConn /\ ClientMode
  BY ConnsAssumption DEF Init, ClientMode
<1>2. FdMin \in Fds
  BY FdAssumption DEF Fds
<1>3. fdtab[FdMin] = c
  BY <1>1, <1>2 DEF Init
<1>4. QED
  BY <1>2, <1>3

\* close() ends the connection behind the descriptor and no other.
LEMMA OpenClose ==
  ASSUME TypeOK, OpenInv, NEW fd \in Fds, CloseFd(fd), reused' = reused
  PROVE  OpenInv'
<1>1. \A f \in Fds : fdtab'[f] = IF f = fd THEN NoConn ELSE fdtab[f]
  BY DEF CloseFd, TypeOK
<1>2. \A c \in Conns : cst'[c] = IF c = fdtab[fd] THEN "closed" ELSE cst[c]
  BY ConnsAssumption DEF CloseFd, TypeOK
<1>3. QED
  BY <1>1, <1>2 DEF OpenInv

\* accept() opens a connection and only close() ends one.
LEMMA OpenNext == TypeOK /\ PushInv /\ OpenInv /\ [Next]_vars => OpenInv'
<1> SUFFICES ASSUME TypeOK, PushInv, OpenInv, [Next]_vars PROVE OpenInv'
  OBVIOUS
<1>a. ASSUME UNCHANGED <<fdtab, cst, reused>> PROVE OpenInv'
  BY <1>a DEF OpenInv
<1>1. ASSUME NEW c \in Conns, Connect(c) PROVE OpenInv'
  <2>1. /\ cst[c] = "new" /\ cst' = [cst EXCEPT ![c] = "pending"] /\ UNCHANGED <<fdtab, reused>>
    BY <1>1 DEF Connect, history
  <2>2. \A d \in Conns : cst'[d] = IF d = c THEN "pending" ELSE cst[d]
    BY <2>1 DEF TypeOK
  <2>3. QED
    BY <2>1, <2>2 DEF OpenInv
<1>2. ASSUME NEW s \in Services, Accept(s) PROVE OpenInv'
  <2>1. PICK c \in Conns, fd \in Fds :
           /\ fdtab[fd] = NoConn /\ fdtab' = [fdtab EXCEPT ![fd] = c]
           /\ cst' = [cst EXCEPT ![c] = "accepted"] /\ reused' \subseteq reused \cup {c}
    BY <1>2 DEF Accept, Lowest, FreeFds
  <2>2. \A d \in Conns : cst'[d] = IF d = c THEN "accepted" ELSE cst[d]
    BY <2>1 DEF TypeOK
  <2>3. \A f \in Fds : fdtab'[f] = IF f = fd THEN c ELSE fdtab[f]
    BY <2>1 DEF TypeOK
  <2>4. QED
    BY <2>1, <2>2, <2>3, ConnsAssumption DEF OpenInv
<1>3. ASSUME NEW s \in Services, Refuse(s) PROVE OpenInv'
  <2>1. PICK c \in Conns : cst' = [cst EXCEPT ![c] = "closed"]
    BY <1>3 DEF Refuse
  <2>2. UNCHANGED <<fdtab, reused>>
    BY <1>3 DEF Refuse, history
  <2>3. \A d \in Conns : cst'[d] = IF d = c THEN "closed" ELSE cst[d]
    BY <2>1 DEF TypeOK
  <2>4. QED
    BY <2>2, <2>3 DEF OpenInv
<1>4. ASSUME NEW s \in Services, Register(s) PROVE OpenInv'
  <2>1. /\ cst' = IF cst[aconn[s]] = "accepted" THEN [cst EXCEPT ![aconn[s]] = "joined"] ELSE cst
        /\ UNCHANGED <<fdtab, reused>>
    BY <1>4 DEF Register, history
  <2>2. \A d \in Conns : cst'[d] = cst[d] \/ (cst[d] = "accepted" /\ cst'[d] = "joined")
    BY <2>1 DEF TypeOK
  <2>3. QED
    BY <2>1, <2>2 DEF OpenInv
<1>5. ASSUME NEW s \in Services, HandleDrop(s) PROVE OpenInv'
  <2>1. PICK fd \in Lowest(readset[s]) : CloseFd(fd)
    BY <1>5 DEF HandleDrop
  <2>2. fd \in Fds /\ reused' = reused
    BY <1>5 DEF HandleDrop, TypeOK, Lowest, history
  <2>3. QED
    BY <2>1, <2>2, OpenClose
<1>6. ASSUME NEW t \in Pushers, PushFail(t) PROVE OpenInv'
  <2>1. NextSvc(t) \in Services
    BY <1>6, NextSvcInTodo DEF PushFail
  <2>2. pfd[t] \in Fds /\ CloseFd(pfd[t]) /\ reused' = reused
    BY <1>6, <2>1 DEF PushFail, PushInv, TypeOK, history
  <2>3. QED
    BY <2>2, OpenClose
<1>7. QED
  BY <1>1, <1>2, <1>3, <1>4, <1>5, <1>6, <1>a, NextCases DEF vars, kernel, history, PeerSend,
     PeerClose, Snapshot, Select, Recheck, HandleEnd, HandlePacket, HandleReturn, Discard, ConnDel,
     SpwReceive, PushLock, PushNext, PushSend, PushUnlock

\* The status of a connection is that of a member.
LEMMA StatusFun ==
  ASSUME NEW c \in Conns
  PROVE  /\ [d \in Conns |-> BroadcastStatus(d)][c] = BroadcastStatus(c)
         /\ ([d \in Conns |-> BroadcastStatus(d)][c])' = BroadcastStatus(c)'
  OBVIOUS

\* A step in which one connection's status becomes "left" and nothing else
\* that the broadcast sees changes is the broadcast's Leave.
LEMMA LeaveStep ==
  ASSUME NEW d \in Conns, BroadcastStatus(d)' = "left",
         \A c \in Conns \ {d} : BroadcastStatus(c)' = BroadcastStatus(c),
         UNCHANGED <<pushno, got>>
  PROVE  Promise!Leave(d)
  BY DEF Promise!Leave

\* A step that changes no status, packet count or cursor stutters.
LEMMA StutterStep ==
  ASSUME \A c \in Conns : BroadcastStatus(c)' = BroadcastStatus(c), UNCHANGED <<pushno, got>>
  PROVE  UNCHANGED Promise!bvars
  BY DEF Promise!bvars

\* A status depends on nothing but the descriptor table, the lives and the
\* numbers of the connections and the connection sets.
LEMMA StatusSame ==
  ASSUME UNCHANGED <<fdtab, cst, connSet, reused>>, NEW c \in Conns
  PROVE  BroadcastStatus(c)' = BroadcastStatus(c)
  BY DEF BroadcastStatus, Member

\* A number nobody uses, given to a connection that is not registered yet,
\* changes the status of nobody; one still in use makes a stray.
LEMMA AcceptStrays ==
  ASSUME DeliveryInv, OpenInv, NEW s \in Services, Accept(s)
  PROVE  [Promise!Next]_(Promise!bvars)
<1>1. TypeOK
  BY DEF DeliveryInv
<1>2. PICK d \in Conns, fd \in Fds :
         /\ fdtab[fd] = NoConn /\ cst[d] = "pending"
         /\ fdtab' = [fdtab EXCEPT ![fd] = d] /\ cst' = [cst EXCEPT ![d] = "accepted"]
         /\ reused' = IF InUse(fd) THEN reused \cup {d} ELSE reused
  BY DEF Accept, Lowest, FreeFds
<1>3. connSet' = connSet /\ pushno' = pushno /\ got' = got
  BY DEF Accept, members
<1>4. \A c \in Conns : cst'[c] = IF c = d THEN "accepted" ELSE cst[c]
  BY <1>1, <1>2 DEF TypeOK
<1>5. \A f \in Fds : fdtab'[f] = IF f = fd THEN d ELSE fdtab[f]
  BY <1>1, <1>2 DEF TypeOK
<1>6. \A c \in Conns, f \in Fds : Member(c, f)' = Member(c, f)
  BY <1>2, <1>3, <1>4, <1>5, ConnsAssumption DEF Member
<1>7. d \notin reused /\ BroadcastStatus(d) = "out"
  BY <1>2 DEF OpenInv, BroadcastStatus
<1>8. \A c \in Conns \ {d} : BroadcastStatus(c)' = BroadcastStatus(c)
  BY <1>2, <1>4, <1>6 DEF BroadcastStatus
<1>9. CASE InUse(fd)
  <2>1. BroadcastStatus(d)' = "stray"
    BY <1>2, <1>4, <1>9 DEF BroadcastStatus
  <2>2. Promise!Join(d)
    BY <1>3, <1>7, <1>8, <2>1 DEF Promise!Join
  <2>3. QED
    BY <2>2 DEF Promise!Next
<1>10. CASE ~InUse(fd)
  <2>1. BroadcastStatus(d)' = "out"
    BY <1>2, <1>4, <1>7, <1>10 DEF BroadcastStatus
  <2>2. QED
    BY <1>3, <1>7, <1>8, <2>1, StutterStep
<1>11. QED
  BY <1>9, <1>10

\* FD_SET makes a member of the connection that was accepted, if it is still
\* open, and of no other.
LEMMA RegisterJoins ==
  ASSUME DeliveryInv, NEW s \in Services, Register(s)
  PROVE  [Promise!Next]_(Promise!bvars)
<1> USE ConnsAssumption
<1>1. TypeOK /\ AcceptInv
  BY DEF DeliveryInv
<1>2. /\ apc[s] = "set" /\ connSet' = [connSet EXCEPT ![s] = @ \cup {afd[s]}]
      /\ cst' = IF cst[aconn[s]] = "accepted" THEN [cst EXCEPT ![aconn[s]] = "joined"] ELSE cst
      /\ UNCHANGED <<fdtab, pushno, got, reused>>
  BY DEF Register, history
<1>3. /\ aconn[s] \in Conns /\ Target[aconn[s]] = s
      /\ cst[aconn[s]] \in {"accepted", "closed"}
      /\ \A c \in Conns : (fdtab[afd[s]] = c /\ Target[c] = s) => c = aconn[s]
  BY <1>1, <1>2 DEF AcceptInv
<1>4. PICK d \in Conns : d = aconn[s]
  BY <1>3
<1>5. \A c \in Conns : c # d => cst'[c] = cst[c]
  BY <1>1, <1>2, <1>4 DEF TypeOK
<1>6. \A c \in Conns, f \in Fds : c # d => Member(c, f)' = Member(c, f)
  <2> SUFFICES ASSUME NEW c \in Conns, NEW f \in Fds, c # d
               PROVE  Member(c, f)' = Member(c, f)
    OBVIOUS
  <2>1. f \in connSet'[Target[c]] <=>
          (f \in connSet[Target[c]] \/ (Target[c] = s /\ f = afd[s]))
    BY <1>1, <1>2 DEF TypeOK
  <2>2. QED
    BY <1>2, <1>3, <1>4, <1>5, <2>1 DEF Member
<1>7. \A c \in Conns \ {d} : BroadcastStatus(c)' = BroadcastStatus(c)
  BY <1>2, <1>5, <1>6 DEF BroadcastStatus
<1>8. CASE cst[d] = "accepted" /\ d \notin reused
  <2>1. cst'[d] = "joined" /\ BroadcastStatus(d) = "out"
    BY <1>1, <1>2, <1>4, <1>8 DEF TypeOK, BroadcastStatus
  <2>2. CASE BroadcastStatus(d)' = "in"
    <3>1. Promise!Join(d)
      BY <1>2, <1>3, <1>7, <2>1, <2>2 DEF Promise!Join
    <3>2. QED
      BY <1>3, <3>1 DEF Promise!Next
  <2>3. CASE BroadcastStatus(d)' = "left"
    <3>1. Promise!Leave(d)
      BY <1>2, <1>3, <1>7, <2>3, LeaveStep
    <3>2. QED
      BY <1>3, <3>1 DEF Promise!Next
  <2>4. BroadcastStatus(d)' \in {"in", "left"}
    BY <1>2, <1>8, <2>1 DEF BroadcastStatus
  <2>5. QED
    BY <2>2, <2>3, <2>4
<1>9. CASE cst[d] = "closed"
  <2>1. BroadcastStatus(d)' = "left" /\ BroadcastStatus(d) = "left"
    BY <1>2, <1>4, <1>9 DEF BroadcastStatus, Member
  <2>2. QED
    BY <1>2, <1>7, <2>1, StutterStep
<1>10. CASE cst[d] = "accepted" /\ d \in reused
  <2>1. BroadcastStatus(d)' = "stray" /\ BroadcastStatus(d) = "stray"
    BY <1>1, <1>2, <1>4, <1>10 DEF BroadcastStatus, TypeOK
  <2>2. QED
    BY <1>2, <1>7, <2>1, StutterStep
<1>11. QED
  BY <1>3, <1>4, <1>8, <1>9, <1>10

\* close() makes the connection behind the descriptor leave, and no other,
\* whether the descriptor is taken out of a set with it or later.
LEMMA CloseLeaves ==
  ASSUME DeliveryInv, NEW fd \in Fds, CloseFd(fd), UNCHANGED <<pushno, got, reused>>,
         \A r \in Services : connSet[r] \ {fd} \subseteq connSet'[r] /\ connSet'[r] \subseteq connSet[r]
  PROVE  [Promise!Next]_(Promise!bvars)
<1> USE ConnsAssumption
<1>1. TypeOK /\ FdInv
  BY DEF DeliveryInv
<1>2. \A f \in Fds : fdtab'[f] = IF f = fd THEN NoConn ELSE fdtab[f]
  BY <1>1 DEF CloseFd, TypeOK
<1>3. \A c \in Conns : cst'[c] = IF c = fdtab[fd] THEN "closed" ELSE cst[c]
  BY <1>1 DEF CloseFd, TypeOK
<1>4. \A c \in Conns, f \in Fds : c # fdtab[fd] => Member(c, f)' = Member(c, f)
  BY <1>2, <1>3 DEF Member
<1>5. \A c \in Conns \ {fdtab[fd]} : BroadcastStatus(c)' = BroadcastStatus(c)
  BY <1>3, <1>4 DEF BroadcastStatus
<1>6. CASE fdtab[fd] = NoConn
  BY <1>5, <1>6, StutterStep
<1>7. CASE fdtab[fd] \in Conns
  <2>1. PICK d \in Conns : d = fdtab[fd]
    BY <1>7
  <2>2. BroadcastStatus(d)' = "left"
    BY <1>3, <2>1 DEF BroadcastStatus, Member
  <2>3. QED
    BY <1>5, <2>1, <2>2, LeaveStep DEF Promise!Next
<1>8. QED
  BY <1>1, <1>6, <1>7 DEF TypeOK

\* conn_del takes one descriptor out of one set: the connection it stands for
\* by then, if it is one of that service, leaves.
LEMMA ConnDelLeaves ==
  ASSUME DeliveryInv, NEW s \in Services, ConnDel(s)
  PROVE  [Promise!Next]_(Promise!bvars)
<1> USE ConnsAssumption
<1>1. TypeOK /\ FdInv
  BY DEF DeliveryInv
<1>2. /\ connSet' = [connSet EXCEPT ![s] = @ \ Lowest(readset[s])]
      /\ UNCHANGED <<fdtab, cst, pushno, got, reused>>
  BY DEF ConnDel, kernel, history
<1>3. \A f, g \in Lowest(readset[s]) : f = g /\ f \in Fds
  <2>1. readset[s] \subseteq Fds /\ Fds \subseteq Nat
    BY <1>1, FdAssumption DEF TypeOK, Fds
  <2>2. \A f, g \in Lowest(readset[s]) : f \in Fds /\ f \in Nat /\ g \in Nat /\ f <= g /\ g <= f
    BY <2>1 DEF Lowest
  <2>3. \A m, n \in Nat : m <= n /\ n <= m => m = n
    OBVIOUS
  <2>4. QED
    BY <2>2, <2>3
<1>4. \A c \in Conns, f \in Fds :
         Member(c, f)' <=> Member(c, f) /\ ~(Target[c] = s /\ f \in Lowest(readset[s]))
  BY <1>1, <1>2 DEF Member, TypeOK
<1>5. CASE \E d \in Conns, fd \in Lowest(readset[s]) :
              d \notin reused /\ Member(d, fd) /\ Target[d] = s
  <2>1. PICK d \in Conns, fd \in Lowest(readset[s]) :
           d \notin reused /\ Member(d, fd) /\ Target[d] = s
    BY <1>5
  <2>2. fd \in Fds
    BY <1>3
  <2>3. \A f \in Fds : ~Member(d, f)'
    <3>1. fdtab[fd] = d /\ d # NoConn
      BY <2>1 DEF Member
    <3>2. \A f \in Fds : fdtab[f] = d => f = fd
      BY <1>1, <2>2, <3>1 DEF FdInv
    <3>3. \A f \in Fds : Member(d, f) => f = fd
      BY <3>2 DEF Member
    <3>4. QED
      BY <1>4, <2>1, <3>3
  <2>4. BroadcastStatus(d)' = "left"
    BY <1>2, <2>1, <2>3 DEF BroadcastStatus, Member
  <2>5. \A c \in Conns \ {d}, f \in Fds : Member(c, f)' <=> Member(c, f)
    BY <1>3, <1>4, <2>1, <2>2 DEF Member
  <2>6. \A c \in Conns \ {d} : BroadcastStatus(c)' = BroadcastStatus(c)
    BY <1>2, <2>5 DEF BroadcastStatus
  <2>7. QED
    BY <1>2, <2>4, <2>6, LeaveStep DEF Promise!Next
<1>6. CASE ~\E d \in Conns, fd \in Lowest(readset[s]) :
               d \notin reused /\ Member(d, fd) /\ Target[d] = s
  <2>1. \A c \in Conns \ reused, f \in Fds : Member(c, f)' <=> Member(c, f)
    BY <1>4, <1>6
  <2>2. \A c \in Conns : BroadcastStatus(c)' = BroadcastStatus(c)
    BY <1>2, <2>1 DEF BroadcastStatus
  <2>3. QED
    BY <1>2, <2>2, StutterStep
<1>7. QED
  BY <1>5, <1>6

\* Taking svc->lock publishes a packet: with the lock free every member that
\* has begun has the whole of the last one, and no stray is in the middle of one.
LEMMA LockPublishes ==
  ASSUME DeliveryInv, OpenInv, NEW t \in Pushers, PushLock(t)
  PROVE  Promise!Next
<1> USE ConnsAssumption
<1>1. TypeOK /\ PushInv /\ MemberInv /\ ResumeInv
  BY DEF DeliveryInv, GotInv
<1>2. PICK s \in Services : s = NextSvc(t)
  BY <1>1, NextSvcInTodo DEF PushLock
<1>3. /\ lock[s] = NoThread /\ pushno' = [pushno EXCEPT ![s] = @ + 1]
      /\ UNCHANGED <<fdtab, cst, connSet, got, reused>>
  BY <1>2 DEF PushLock, kernel, members
<1>4. ASSUME NEW c \in Conns, Target[c] = s, BroadcastStatus(c) = "in", got[c][Target[c]][2] # 0
      PROVE  got[c][Target[c]] = <<pushno[Target[c]], Chunks>>
  <2>1. PICK fd \in Fds : Member(c, fd)
    BY <1>4 DEF BroadcastStatus
  <2>2. c \notin reused
    BY <1>4 DEF BroadcastStatus
  <2>3. got[c][Target[c]] = LastSent(Target[c], fd)
    BY <1>1, <1>4, <2>1, <2>2 DEF MemberInv
  <2>4. QED
    BY <1>3, <1>4, <2>3 DEF LastSent
<1>5. ASSUME NEW c \in Conns, BroadcastStatus(c) = "stray" PROVE got[c][s][2] \in {0, Chunks}
  <2>1. c \in reused /\ cst[c] # "closed"
    BY <1>5 DEF BroadcastStatus
  <2>2. cst[c] \in {"accepted", "joined"}
    BY <1>1, <2>1 DEF OpenInv, TypeOK
  <2>3. PICK fd \in Fds : fdtab[fd] = c
    BY <2>2 DEF OpenInv
  <2>4. ~MidPacket(s, fd)
    BY <1>3 DEF MidPacket
  <2>5. QED
    BY <1>1, <2>3, <2>4 DEF ResumeInv
<1>6. \A c \in Conns : BroadcastStatus(c)' = BroadcastStatus(c)
  BY <1>3, StatusSame
<1>7. Promise!Publish(s)
  BY <1>3, <1>4, <1>5, <1>6 DEF Promise!Publish, Promise!Begun, Promise!UpToDate, Promise!Own
<1>8. QED
  BY <1>7 DEF Promise!Next

\* One send() is the next part for the member it goes to, or a part for the
\* stray whose number the service still has in its set.
LEMMA SendReceives ==
  ASSUME DeliveryInv, PublishedInv, OpenInv, NEW t \in Pushers, PushSend(t)
  PROVE  Promise!Next
<1> USE ConnsAssumption
<1>1. TypeOK /\ PushInv /\ LockInv /\ FdInv /\ OwnNumber /\ MemberInv /\ ResumeInv
  BY DEF DeliveryInv, GotInv
<1>2. /\ pst[t] = "send" /\ pfd[t] \in Fds /\ fdtab[pfd[t]] \in Conns /\ NextSvc(t) \in Services
  BY <1>1, SendGot
<1>3. PICK s \in Services, fd \in Fds, c \in Conns : s = NextSvc(t) /\ fd = pfd[t] /\ c = fdtab[fd]
  BY <1>2
<1>4. /\ got' = [got EXCEPT ![c][s] = <<pushno[s], chunk[t]>>]
      /\ UNCHANGED <<fdtab, cst, connSet, pushno, reused>>
  BY <1>3 DEF PushSend, kernel, members
<1>5. \A d \in Conns : BroadcastStatus(d)' = BroadcastStatus(d)
  BY <1>4, StatusSame
<1>6. lock[s] = t /\ t # NoThread /\ pushno[s] > 0
  BY <1>1, <1>2, <1>3, NoThreadIsNone DEF LockInv, PublishedInv
<1>7. /\ pushno[s] \in Nat /\ fd \in Nat /\ Chunks \in Nat \ {0} /\ chunk[t] \in 1 .. Chunks
      /\ got \in [Conns -> [Services -> Nat \X (0 .. Chunks)]]
      /\ got[c][s] \in Nat \X (0 .. Chunks)
  BY <1>1, FdAssumption, BoundsAssumption DEF TypeOK, Fds
<1>8. MidPacket(s, fd) <=> chunk[t] > 1
  BY <1>2, <1>3, <1>6 DEF MidPacket
<1>9. Chunks \notin 1 .. (Chunks - 1) /\ Chunks # 0
  BY <1>7
<1>10. CASE c \notin reused
  <2>1. s = Target[c] /\ Member(c, fd)
    BY <1>1, <1>3, <1>10, SendOwn
  <2>2. BroadcastStatus(c) = "in"
    BY <1>10, <2>1 DEF BroadcastStatus, Member
  <2>3. Promise!NextPart(c) = <<pushno[s], chunk[t]>>
    <3>1. CASE chunk[t] > 1
      <4>1. got[c][s] = LastSent(s, fd)
        BY <1>1, <1>8, <1>10, <2>1, <3>1 DEF MemberInv
      <4>2. got[c][s] = <<pushno[s], chunk[t] - 1>>
        BY <1>3, <1>6, <1>7, <1>8, <3>1, <4>1 DEF LastSent
      <4>3. chunk[t] - 1 \in 1 .. (Chunks - 1) /\ chunk[t] - 1 + 1 = chunk[t]
        <5>1. chunk[t] \in 1 .. Chunks /\ Chunks \in Nat /\ chunk[t] > 1
          BY <1>7, <3>1
        <5>2. QED
          BY <5>1
      <4>4. QED
        BY <2>1, <4>2, <4>3 DEF Promise!NextPart, Promise!Own
    <3>2. CASE chunk[t] = 1 /\ got[c][s][2] = 0
      BY <1>7, <2>1, <3>2 DEF Promise!NextPart, Promise!Begun, Promise!Own
    <3>3. CASE chunk[t] = 1 /\ got[c][s][2] # 0
      <4>1. got[c][s] = LastSent(s, fd)
        BY <1>1, <1>10, <2>1, <3>3 DEF MemberInv
      <4>2. got[c][s] = <<pushno[s] - 1, Chunks>>
        BY <1>3, <1>6, <1>7, <1>8, <3>3, <4>1 DEF LastSent
      <4>3. pushno[s] = pushno[s] - 1 + 1
        BY <1>7
      <4>4. QED
        BY <1>9, <2>1, <3>3, <4>2, <4>3 DEF Promise!NextPart, Promise!Begun, Promise!Own
    <3>4. QED
      BY <1>7, <3>1, <3>2, <3>3
  <2>4. Promise!Receive(c)
    BY <1>4, <1>5, <1>6, <2>1, <2>2, <2>3 DEF Promise!Receive
  <2>5. QED
    BY <2>4 DEF Promise!Next
<1>11. CASE c \in reused
  <2>1. BroadcastStatus(c) = "stray"
    BY <1>1, <1>3, <1>11 DEF FdInv, BroadcastStatus
  <2>2. got[c][s][2] \in 1 .. (Chunks - 1) => got[c][s] = <<pushno[s], chunk[t] - 1>>
    BY <1>1, <1>3, <1>6, <1>8, <1>9 DEF ResumeInv
  <2>3. got[c][s][2] = Chunks => got[c][s][1] < pushno[s] /\ chunk[t] = 1
    <3>1. SUFFICES ASSUME got[c][s][2] = Chunks PROVE got[c][s][1] < pushno[s] /\ chunk[t] = 1
      OBVIOUS
    <3>2. CASE chunk[t] > 1
      <4>1. got[c][s] = <<pushno[s], chunk[t] - 1>>
        BY <1>1, <1>3, <1>6, <1>8, <1>9, <3>1, <3>2 DEF ResumeInv
      <4>2. QED
        BY <1>7, <3>1, <4>1
    <3>3. CASE chunk[t] = 1
      <4>1. pfd[lock[s]] <= fd => got[c][s][1] < pushno[s]
        BY <1>1, <1>3, <1>6, <1>8, <1>9, <3>1, <3>3 DEF ResumeInv
      <4>2. QED
        BY <1>3, <1>6, <1>7, <3>3, <4>1
    <3>4. QED
      BY <1>7, <3>2, <3>3
  <2>4. Promise!Stray(c, s, chunk[t])
    BY <1>4, <1>5, <1>6, <2>1, <2>2, <2>3 DEF Promise!Stray
  <2>5. QED
    BY <1>7, <2>4 DEF Promise!Next
<1>12. QED
  BY <1>10, <1>11

\* Every step of NetService is a step of the broadcast or stutters.
LEMMA StepRefines ==
  ASSUME DeliveryInv, PublishedInv, OpenInv, [Next]_vars
  PROVE  [Promise!Next]_(Promise!bvars)
<1> USE ConnsAssumption
<1>1. TypeOK /\ PushInv
  BY DEF DeliveryInv
<1>2. ASSUME UNCHANGED <<fdtab, cst, connSet, pushno, got, reused>> PROVE UNCHANGED Promise!bvars
  BY <1>2, StatusSame, StutterStep
<1>3. ASSUME NEW c \in Conns, Connect(c) PROVE UNCHANGED Promise!bvars
  <2>1. /\ cst[c] = "new" /\ cst' = [cst EXCEPT ![c] = "pending"]
        /\ UNCHANGED <<fdtab, connSet, pushno, got, reused>>
    BY <1>3 DEF Connect, members, history
  <2>2. \A d \in Conns : cst'[d] = IF d = c THEN "pending" ELSE cst[d]
    BY <1>1, <2>1 DEF TypeOK
  <2>3. \A d \in Conns, f \in Fds : Member(d, f)' = Member(d, f)
    BY <2>1, <2>2 DEF Member
  <2>4. \A d \in Conns : BroadcastStatus(d)' = BroadcastStatus(d)
    BY <2>1, <2>2, <2>3 DEF BroadcastStatus
  <2>5. QED
    BY <2>1, <2>4, StutterStep
<1>4. ASSUME NEW s \in Services, Refuse(s) PROVE [Promise!Next]_(Promise!bvars)
  <2>1. PICK c \in Conns : cst[c] = "pending" /\ cst' = [cst EXCEPT ![c] = "closed"]
    BY <1>4 DEF Refuse
  <2>2. UNCHANGED <<fdtab, connSet, pushno, got, reused>>
    BY <1>4 DEF Refuse, members, history
  <2>3. \A d \in Conns : cst'[d] = IF d = c THEN "closed" ELSE cst[d]
    BY <1>1, <2>1 DEF TypeOK
  <2>4. \A d \in Conns, f \in Fds : Member(d, f)' = Member(d, f)
    BY <2>1, <2>2, <2>3 DEF Member
  <2>5. \A d \in Conns \ {c} : BroadcastStatus(d)' = BroadcastStatus(d)
    BY <2>2, <2>3, <2>4 DEF BroadcastStatus
  <2>6. BroadcastStatus(c)' = "left"
    BY <2>3 DEF BroadcastStatus, Member
  <2>7. QED
    BY <2>2, <2>5, <2>6, LeaveStep DEF Promise!Next
<1>5. ASSUME NEW s \in Services, HandleDrop(s) PROVE [Promise!Next]_(Promise!bvars)
  <2>1. PICK fd \in Lowest(readset[s]) : CloseFd(fd)
    BY <1>5 DEF HandleDrop
  <2>2. fd \in Fds /\ UNCHANGED <<connSet, pushno, got, reused>>
    BY <1>1, <1>5 DEF HandleDrop, TypeOK, Lowest, members, history
  <2>3. QED
    BY <2>1, <2>2, CloseLeaves
<1>6. ASSUME NEW t \in Pushers, PushFail(t) PROVE [Promise!Next]_(Promise!bvars)
  <2>1. PICK s \in Services : s = NextSvc(t)
    BY <1>1, <1>6, NextSvcInTodo DEF PushFail
  <2>2. PICK fd \in Fds : fd = pfd[t]
    BY <1>1, <1>6, <2>1 DEF PushFail, PushInv, TypeOK
  <2>3. /\ CloseFd(fd) /\ connSet' = [connSet EXCEPT ![s] = @ \ {fd}]
        /\ UNCHANGED <<pushno, got, reused>>
    BY <1>6, <2>1, <2>2 DEF PushFail, history
  <2>4. \A r \in Services : /\ connSet[r] \ {fd} \subseteq connSet'[r]
                            /\ connSet'[r] \subseteq connSet[r]
    BY <1>1, <2>3 DEF TypeOK
  <2>5. QED
    BY <2>3, <2>4, CloseLeaves
<1>7. ASSUME NEW c \in Conns, PeerSend(c) \/ PeerClose(c)
      PROVE  UNCHANGED <<fdtab, cst, connSet, pushno, got, reused>>
  BY <1>7 DEF PeerSend, PeerClose, members, history
<1>8. ASSUME NEW s \in Services,
             Snapshot(s) \/ Select(s) \/ Recheck(s) \/ HandleEnd(s)
             \/ HandlePacket(s) \/ HandleReturn(s) \/ Discard(s)
      PROVE  UNCHANGED <<fdtab, cst, connSet, pushno, got, reused>>
  BY <1>8 DEF Snapshot, Select, Recheck, HandleEnd, HandlePacket, HandleReturn, Discard,
     kernel, members, history
<1>9. ASSUME NEW t \in SpwThreads, SpwReceive(t)
      PROVE  UNCHANGED <<fdtab, cst, connSet, pushno, got, reused>>
  BY <1>9 DEF SpwReceive, kernel, members, history
<1>10. ASSUME NEW t \in Pushers, PushNext(t) \/ PushUnlock(t)
       PROVE  UNCHANGED <<fdtab, cst, connSet, pushno, got, reused>>
  BY <1>10 DEF PushNext, PushUnlock, kernel, members, history
<1>11. ASSUME UNCHANGED vars PROVE UNCHANGED <<fdtab, cst, connSet, pushno, got, reused>>
  BY <1>11 DEF vars, kernel, members, history
<1>12. QED
  BY <1>2, <1>3, <1>4, <1>5, <1>6, <1>7, <1>8, <1>9, <1>10, <1>11, NextCases, AcceptStrays,
     RegisterJoins, ConnDelLeaves, LockPublishes, SendReceives, Zenon

\* The stream services of net.c implement the broadcast, for any number of
\* services, SpW threads, connections, descriptors and send() calls per packet;
\* what is sent on a number that was still in use is what a stray may get.
THEOREM ServiceIsBroadcast == Spec => ImplementsBroadcast
<1>1. Init => Promise!Init
  <2> SUFFICES ASSUME Init PROVE Promise!Init
    OBVIOUS
  <2>1. \A c \in Conns : BroadcastStatus(c) \in {"out", "in"}
    <3> SUFFICES ASSUME NEW c \in Conns PROVE BroadcastStatus(c) \in {"out", "in"}
      OBVIOUS
    <3>1. CASE c # ClientConn
      BY <3>1 DEF Init, BroadcastStatus
    <3>2. CASE c = ClientConn
      <4>1. ClientMode /\ Target[c] = "data" /\ "data" \in Services
        BY <3>2, ConnsAssumption, ServicesAssumption DEF ClientMode
      <4>2. FdMin \in Fds
        BY FdAssumption DEF Fds
      <4>3. fdtab[FdMin] = c /\ cst[c] = "joined" /\ FdMin \in connSet[Target[c]]
        BY <3>2, <4>1, <4>2 DEF Init
      <4>4. QED
        BY <4>2, <4>3 DEF Init, BroadcastStatus, Member
    <3>3. QED
      BY <3>1, <3>2
  <2>2. QED
    BY <2>1 DEF Init, Promise!Init
<1>2. Init => PublishedInv
  BY DEF Init, PublishedInv
<1>3. Spec => []PublishedInv
  BY <1>2, PublishedNext, TypeCorrect, PTL DEF Spec
<1>4. DeliveryInv => TypeOK /\ PushInv
  BY DEF DeliveryInv
<1>5. Spec => []OpenInv
  BY <1>4, OpenInit, OpenNext, Delivery, PTL DEF Spec
<1>6. DeliveryInv /\ PublishedInv /\ OpenInv /\ [Next]_vars => [Promise!Next]_(Promise!bvars)
  BY StepRefines
<1>7. QED
  BY <1>1, <1>3, <1>5, <1>6, Delivery, PTL DEF Spec, ImplementsBroadcast, Promise!Spec
=============================================================================
