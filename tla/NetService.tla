----------------------------- MODULE NetService -----------------------------
(***************************************************************************)
(* The stream services of net.c: struct net_service, its accept thread     *)
(* (accept_connections), its poll thread (poll_socket and the handlers),   *)
(* and the loops that push a packet to every client of a service           *)
(* (net_forward_to_clients, sniff_push, gresb_push_rx_clients,             *)
(* rmap_reply_to_clients).  A file descriptor is a number the kernel hands *)
(* out again as soon as it is closed; a connection is what the number      *)
(* stands for at the moment.                                               *)
(*                                                                         *)
(* The poll thread of service s, seen as a sender, is named s; the other   *)
(* senders are the SpW poll threads.  The critical sections of a service's *)
(* lock that make no blocking call are one action each; the push loop,     *)
(* which sends with the lock held, takes one action per send().            *)
(***************************************************************************)
EXTENDS Naturals, FiniteSets

CONSTANTS
    Services,    \* the services the options open
    SpwThreads,  \* the threads running poll_spw, two in monitor mode
    Conns,       \* TCP connections, each made once
    NoConn,      \* what a free descriptor stands for
    ClientConn,  \* the connection of client mode, NoConn in server mode
    Target,      \* the service a connection is made to
    FdMin,       \* lowest descriptor number a connection can get
    FdMax,       \* highest descriptor number the process may use
    Taken,       \* numbers in between that other files and clients hold
    FdSetSize,   \* FD_SETSIZE
    Chunks,      \* send() calls that one packet takes in send_all
    MaxPkts,     \* bound: packets each SpW thread receives
    MaxIn        \* bound: packets each peer sends

AllServices == {"data", "rmap", "gresb_tx", "gresb_rx", "sniff"}
Fds         == (FdMin .. FdMax) \ Taken
Pushers     == Services \cup SpwThreads
NoThread    == "none"
ClientMode  == ClientConn # NoConn

ASSUME ServicesAssumption == Services \subseteq AllServices /\ "data" \in Services
ASSUME ThreadsAssumption  == SpwThreads \cap (AllServices \cup {NoThread}) = {}
ASSUME ConnsAssumption    == /\ NoConn \notin Conns
                             /\ ClientConn \in Conns \cup {NoConn}
                             /\ Target \in [Conns -> Services]
                             /\ ClientMode => Target[ClientConn] = "data"
ASSUME FdAssumption       == /\ FdMin \in Nat \ {0} /\ FdMax \in Nat
                             /\ FdSetSize \in Nat /\ FdMin < FdSetSize
                             /\ FdMin <= FdMax /\ FdMin \notin Taken
ASSUME BoundsAssumption   == Chunks \in Nat \ {0} /\ MaxPkts \in Nat /\ MaxIn \in Nat

VARIABLES
    fdtab,    \* kernel: the connection behind each descriptor
    cst,      \* life of a connection
    inq,      \* packets a peer sent that were not read yet
    sent,     \* packets a peer sent in all
    eof,      \* the peer has closed its end
    connSet,  \* svc->conn_set
    nfds,     \* svc->nfds
    lock,     \* holder of svc->lock inside a push loop
    apc,      \* accept thread: "accept" or "set"
    afd,      \* its local fd
    aconn,    \* the connection accept() returned with afd
    ppc,      \* poll thread: where in poll_socket it is
    readset,  \* its local fd_set, handled in ascending order
    pst,      \* a sender: "idle", "lock", "scan" or "send"
    todo,     \* services still to be pushed to
    pfd,      \* loop variable of the push loop
    chunk,    \* next send() of send_all
    npkt,     \* packets an SpW thread received
    exited,   \* exit(EXIT_FAILURE) was called
    pushno,   \* history: packets pushed to a service
    got,      \* history: last chunk of each service sent on a connection
    reused    \* history: connections given a number that was still in use

kernel  == <<fdtab, cst, inq, sent, eof>>
members == <<connSet, nfds>>
accepts == <<apc, afd, aconn>>
polls   == <<ppc, readset>>
pushes  == <<pst, todo, pfd, chunk>>
history == <<pushno, got, reused>>
vars    == <<kernel, members, lock, accepts, polls, pushes, npkt, exited, history>>

-----------------------------------------------------------------------------
Lowest(S) == {x \in S : \A y \in S : x <= y}

FreeFds    == {fd \in Fds : fdtab[fd] = NoConn}
Listening  == IF ClientMode THEN Services \ {"data"} ELSE Services
Discarding == {"gresb_rx", "sniff"}              \* handle_pkt = gresb_rx_discard

\* The services a packet goes to: net_pkt_sink forwards it or, with -R, turns
\* it into an RMAP reply; net_to_spw and gresb_tx_to_spw only mirror it.
ForwardRoute   == {"sniff", "data", "gresb_rx"} \cap Services
SpwRoutes      == {ForwardRoute} \cup
                  (IF "rmap" \in Services THEN {{"rmap"}} ELSE {})
PollRoute(s)   == IF s \in {"data", "gresb_tx"} THEN {"sniff"} \cap Services ELSE {}

\* net_forward_to_clients mirrors first, then serves the data clients.
NextSvc(t) == IF "sniff" \in todo[t] THEN "sniff"
              ELSE IF "data" \in todo[t] THEN "data"
              ELSE IF "gresb_rx" \in todo[t] THEN "gresb_rx" ELSE "rmap"

ExitsOnDrop_Always(s) == ClientMode
ExitsOnDrop_MonitorsOnly(s) == ClientMode /\ s \in Discarding

\* Only rmap_conn_drop and rmap_conn_drop_locked leave the process running.
ExitsOnDrop(s) == ClientMode /\ s # "rmap"

Init ==
    /\ fdtab    = [fd \in Fds |-> IF ClientMode /\ fd = FdMin THEN ClientConn ELSE NoConn]
    /\ cst      = [c \in Conns |-> IF c = ClientConn THEN "joined" ELSE "new"]
    /\ inq      = [c \in Conns |-> 0]
    /\ sent     = [c \in Conns |-> 0]
    /\ eof      = [c \in Conns |-> FALSE]
    /\ connSet  = [s \in Services |-> IF ClientMode /\ s = "data" THEN {FdMin} ELSE {}]
    /\ nfds     = [s \in Services |-> IF ClientMode /\ s = "data" THEN FdMin + 1 ELSE 0]
    /\ lock     = [s \in Services |-> NoThread]
    /\ apc      = [s \in Services |-> "accept"]
    /\ afd      = [s \in Services |-> FdMin]
    /\ aconn    = [s \in Services |-> NoConn]
    /\ ppc      = [s \in Services |-> "snap"]
    /\ readset  = [s \in Services |-> {}]
    /\ pst      = [t \in Pushers |-> "idle"]
    /\ todo     = [t \in Pushers |-> {}]
    /\ pfd      = [t \in Pushers |-> 0]
    /\ chunk    = [t \in Pushers |-> 1]
    /\ npkt     = [t \in SpwThreads |-> 0]
    /\ exited   = FALSE
    /\ pushno   = [s \in Services |-> 0]
    /\ got      = [c \in Conns |-> [s \in Services |-> <<0, 0>>]]
    /\ reused   = {}

-----------------------------------------------------------------------------
\* The peers.

Connect(c) ==
    /\ cst[c] = "new" /\ Target[c] \in Listening
    /\ cst' = [cst EXCEPT ![c] = "pending"]
    /\ UNCHANGED <<fdtab, inq, sent, eof, members, lock, accepts, polls, pushes, npkt, exited, history>>

PeerSend(c) ==
    /\ cst[c] \in {"pending", "accepted", "joined"} /\ ~eof[c] /\ sent[c] < MaxIn
    /\ inq'  = [inq EXCEPT ![c] = @ + 1]
    /\ sent' = [sent EXCEPT ![c] = @ + 1]
    /\ UNCHANGED <<fdtab, cst, eof, members, lock, accepts, polls, pushes, npkt, exited, history>>

PeerClose(c) ==
    /\ cst[c] \in {"pending", "accepted", "joined"} /\ ~eof[c]
    /\ eof' = [eof EXCEPT ![c] = TRUE]
    /\ UNCHANGED <<fdtab, cst, inq, sent, members, lock, accepts, polls, pushes, npkt, exited, history>>

-----------------------------------------------------------------------------
\* accept_connections.  With no free descriptor accept() fails and is retried.

FitsFdSet_OffByOne(fd) == fd <= FdSetSize
FitsFdSet(fd)          == fd < FdSetSize

\* A service still means an earlier connection by the number fd: conn_drop has
\* closed it and conn_del has yet to take it out of the set, or it was closed
\* before accept_connections put it into one.
InUse(fd) == \E r \in Services : fd \in connSet[r] \/ (apc[r] = "set" /\ afd[r] = fd)

Accept(s) ==
    /\ apc[s] = "accept"
    /\ \E c \in Conns, fd \in Lowest(FreeFds) :
          /\ cst[c] = "pending" /\ Target[c] = s /\ FitsFdSet(fd)
          /\ fdtab' = [fdtab EXCEPT ![fd] = c]
          /\ cst'   = [cst EXCEPT ![c] = "accepted"]
          /\ afd'   = [afd EXCEPT ![s] = fd]
          /\ aconn' = [aconn EXCEPT ![s] = c]
          /\ reused' = IF InUse(fd) THEN reused \cup {c} ELSE reused
    /\ apc' = [apc EXCEPT ![s] = "set"]
    /\ UNCHANGED <<inq, sent, eof, members, lock, polls, pushes, npkt, exited, pushno, got>>

\* "connection refused: fd %d above FD_SETSIZE"
Refuse(s) ==
    /\ apc[s] = "accept"
    /\ \E fd \in Lowest(FreeFds) : ~FitsFdSet(fd)
    /\ \E c \in Conns :
          /\ cst[c] = "pending" /\ Target[c] = s
          /\ cst' = [cst EXCEPT ![c] = "closed"]
    /\ UNCHANGED <<fdtab, inq, sent, eof, members, lock, accepts, polls, pushes, npkt, exited, history>>

\* svc->nfds after fd was put into the set
RaisedNfds(s, fd) == IF fd > nfds[s] THEN fd + 1 ELSE nfds[s]

\* The descriptor is registered, whatever became of the connection meanwhile.
Register(s) ==
    /\ apc[s] = "set" /\ lock[s] = NoThread
    /\ connSet' = [connSet EXCEPT ![s] = @ \cup {afd[s]}]
    /\ nfds'    = [nfds EXCEPT ![s] = RaisedNfds(s, afd[s])]
    /\ cst'     = IF cst[aconn[s]] = "accepted" THEN [cst EXCEPT ![aconn[s]] = "joined"]
                                                ELSE cst
    /\ apc'     = [apc EXCEPT ![s] = "accept"]
    /\ UNCHANGED <<fdtab, inq, sent, eof, lock, afd, aconn, polls, pushes, npkt, exited, history>>

-----------------------------------------------------------------------------
\* poll_socket.  The SpW link is up: spw_link_ready holds.

Snapshot(s) ==
    /\ ppc[s] = "snap" /\ lock[s] = NoThread
    /\ readset' = [readset EXCEPT ![s] = {fd \in connSet[s] : fd < nfds[s]}]
    /\ ppc'     = [ppc EXCEPT ![s] = "select"]
    /\ UNCHANGED <<kernel, members, lock, accepts, pushes, npkt, exited, history>>

Readable(fd) == inq[fdtab[fd]] > 0 \/ eof[fdtab[fd]]

\* select() fails with EBADF if it is handed a closed descriptor, and returns
\* 0 after 10 ms with nothing readable; either way the loop starts again.
Select(s) ==
    /\ ppc[s] = "select"
    /\ LET ready == IF \E fd \in readset[s] : fdtab[fd] = NoConn THEN {}
                    ELSE {fd \in readset[s] : Readable(fd)}
       IN  /\ readset' = [readset EXCEPT ![s] = ready]
           /\ ppc' = [ppc EXCEPT ![s] = IF ready = {} THEN "snap" ELSE "recheck"]
    /\ UNCHANGED <<kernel, members, lock, accepts, pushes, npkt, exited, history>>

Recheck(s) ==
    /\ ppc[s] = "recheck" /\ lock[s] = NoThread
    /\ readset' = [readset EXCEPT ![s] = @ \cap connSet[s]]
    /\ ppc'     = [ppc EXCEPT ![s] = "handle"]
    /\ UNCHANGED <<kernel, members, lock, accepts, pushes, npkt, exited, history>>

HandleEnd(s) ==
    /\ ppc[s] = "handle" /\ readset[s] = {}
    /\ ppc' = [ppc EXCEPT ![s] = "snap"]
    /\ UNCHANGED <<kernel, members, lock, accepts, readset, pushes, npkt, exited, history>>

\* One packet was read; net_to_spw and gresb_tx_to_spw go on to mirror it.
HandlePacket(s) ==
    /\ ppc[s] = "handle" /\ s \notin Discarding
    /\ \E fd \in Lowest(readset[s]) :
          /\ fdtab[fd] # NoConn /\ inq[fdtab[fd]] > 0
          /\ inq' = [inq EXCEPT ![fdtab[fd]] = @ - 1]
    /\ ppc'  = [ppc EXCEPT ![s] = "push"]
    /\ todo' = [todo EXCEPT ![s] = PollRoute(s)]
    /\ pst'  = [pst EXCEPT ![s] = IF PollRoute(s) = {} THEN "idle" ELSE "lock"]
    /\ UNCHANGED <<fdtab, cst, sent, eof, members, lock, accepts, readset, pfd, chunk, npkt, exited, history>>

\* The handler returns once the mirroring is done.
HandleReturn(s) ==
    /\ ppc[s] = "push" /\ pst[s] = "idle"
    /\ readset' = [readset EXCEPT ![s] = @ \ Lowest(@)]
    /\ ppc'     = [ppc EXCEPT ![s] = "handle"]
    /\ UNCHANGED <<kernel, members, lock, accepts, pushes, npkt, exited, history>>

\* gresb_rx_discard on a live peer: read what there is, return on EAGAIN.
Discard(s) ==
    /\ ppc[s] = "handle" /\ s \in Discarding
    /\ \E fd \in Lowest(readset[s]) :
          /\ fdtab[fd] # NoConn /\ ~eof[fdtab[fd]]
          /\ inq' = [inq EXCEPT ![fdtab[fd]] = 0]
    /\ readset' = [readset EXCEPT ![s] = @ \ Lowest(@)]
    /\ UNCHANGED <<fdtab, cst, sent, eof, members, lock, accepts, ppc, pushes, npkt, exited, history>>

CloseFd(fd) ==
    /\ fdtab' = [fdtab EXCEPT ![fd] = NoConn]
    /\ cst'   = IF fdtab[fd] = NoConn THEN cst ELSE [cst EXCEPT ![fdtab[fd]] = "closed"]

\* A discarding handler drops on a failed recv() or at the end of the stream.
\* The others drop then too, and also on a packet that is malformed or not
\* complete within 30 s, which nothing to read at all amounts to.
Drops_EofIgnored(s, fd) == fdtab[fd] = NoConn

Drops(s, fd) == s \in Discarding /\ fdtab[fd] # NoConn => eof[fdtab[fd]]

\* conn_drop, rmap_conn_drop: close() first ...
HandleDrop(s) ==
    /\ ppc[s] = "handle"
    /\ \E fd \in Lowest(readset[s]) : Drops(s, fd) /\ CloseFd(fd)
    /\ ppc' = [ppc EXCEPT ![s] = "del"]
    /\ UNCHANGED <<inq, sent, eof, members, lock, accepts, readset, pushes, npkt, exited, history>>

\* ... then conn_del under the lock, and exit() in client mode.
ConnDel(s) ==
    /\ ppc[s] = "del" /\ lock[s] = NoThread
    /\ connSet' = [connSet EXCEPT ![s] = @ \ Lowest(readset[s])]
    /\ readset' = [readset EXCEPT ![s] = @ \ Lowest(@)]
    /\ ppc'     = [ppc EXCEPT ![s] = "handle"]
    /\ exited'  = ExitsOnDrop(s)
    /\ UNCHANGED <<kernel, nfds, lock, accepts, pushes, npkt, history>>

-----------------------------------------------------------------------------
\* The push loops.

SpwReceive(t) ==
    /\ pst[t] = "idle" /\ npkt[t] < MaxPkts
    /\ npkt' = [npkt EXCEPT ![t] = @ + 1]
    /\ \E route \in SpwRoutes : todo' = [todo EXCEPT ![t] = route]
    /\ pst'  = [pst EXCEPT ![t] = "lock"]
    /\ UNCHANGED <<kernel, members, lock, accepts, polls, pfd, chunk, exited, history>>

PushLock(t) ==
    /\ pst[t] = "lock" /\ lock[NextSvc(t)] = NoThread
    /\ lock'   = [lock EXCEPT ![NextSvc(t)] = t]
    /\ pushno' = [pushno EXCEPT ![NextSvc(t)] = @ + 1]
    /\ pfd'    = [pfd EXCEPT ![t] = 0]
    /\ pst'    = [pst EXCEPT ![t] = "scan"]
    /\ UNCHANGED <<kernel, members, accepts, polls, todo, chunk, npkt, exited, got, reused>>

\* for (fd = 0; fd < svc->nfds; fd++) if FD_ISSET(fd, &svc->conn_set)
Ahead(t) == {fd \in connSet[NextSvc(t)] : pfd[t] <= fd /\ fd < nfds[NextSvc(t)]}

PushNext(t) ==
    /\ pst[t] = "scan"
    /\ \E fd \in Lowest(Ahead(t)) : pfd' = [pfd EXCEPT ![t] = fd]
    /\ chunk' = [chunk EXCEPT ![t] = 1]
    /\ pst'   = [pst EXCEPT ![t] = "send"]
    /\ UNCHANGED <<kernel, members, lock, accepts, polls, todo, npkt, exited, history>>

\* A chunk goes to whatever connection the descriptor stands for now.
PushSend(t) ==
    LET s == NextSvc(t)
        c == fdtab[pfd[t]]
        more == chunk[t] < Chunks
    IN  /\ pst[t] = "send" /\ c # NoConn
        /\ got'   = [got EXCEPT ![c][s] = <<pushno[s], chunk[t]>>]
        /\ chunk' = [chunk EXCEPT ![t] = IF more THEN @ + 1 ELSE 1]
        /\ pfd'   = [pfd EXCEPT ![t] = IF more THEN @ ELSE @ + 1]
        /\ pst'   = [pst EXCEPT ![t] = IF more THEN "send" ELSE "scan"]
        /\ UNCHANGED <<kernel, members, lock, accepts, polls, todo, npkt, exited, pushno, reused>>

PushFail_KeepsClient(t) ==
    /\ pst[t] = "send"
    /\ pfd'     = [pfd EXCEPT ![t] = @ + 1]
    /\ chunk'   = [chunk EXCEPT ![t] = 1]
    /\ pst'     = [pst EXCEPT ![t] = "scan"]
    /\ UNCHANGED <<kernel, members, lock, accepts, polls, todo, npkt, exited, history>>

PushFail_RetriesForever(t) == pst[t] = "send" /\ UNCHANGED vars

\* send() failed: a bad descriptor, a peer that is gone, or 30 s without room.
\* conn_drop_locked, rmap_conn_drop_locked.
PushFail(t) ==
    /\ pst[t] = "send"
    /\ CloseFd(pfd[t])
    /\ connSet' = [connSet EXCEPT ![NextSvc(t)] = @ \ {pfd[t]}]
    /\ pfd'     = [pfd EXCEPT ![t] = @ + 1]
    /\ chunk'   = [chunk EXCEPT ![t] = 1]
    /\ pst'     = [pst EXCEPT ![t] = "scan"]
    /\ exited'  = ExitsOnDrop(NextSvc(t))
    /\ UNCHANGED <<inq, sent, eof, nfds, lock, accepts, polls, todo, npkt, history>>

PushUnlock(t) ==
    /\ pst[t] = "scan" /\ Ahead(t) = {}
    /\ lock' = [lock EXCEPT ![NextSvc(t)] = NoThread]
    /\ todo' = [todo EXCEPT ![t] = @ \ {NextSvc(t)}]
    /\ pst'  = [pst EXCEPT ![t] = IF todo[t] = {NextSvc(t)} THEN "idle" ELSE "lock"]
    /\ UNCHANGED <<kernel, members, accepts, polls, pfd, chunk, npkt, exited, history>>

-----------------------------------------------------------------------------
Peers(c)       == Connect(c) \/ PeerSend(c) \/ PeerClose(c)
AcceptLoop(s)  == Accept(s) \/ Refuse(s) \/ Register(s)
PollLoop(s)    == \/ Snapshot(s) \/ Select(s) \/ Recheck(s)
                  \/ HandleEnd(s) \/ HandlePacket(s) \/ HandleReturn(s)
                  \/ Discard(s) \/ HandleDrop(s) \/ ConnDel(s)
PushLoop(t)    == PushLock(t) \/ PushNext(t) \/ PushSend(t) \/ PushFail(t) \/ PushUnlock(t)

\* once exit() was called no thread runs
Next == \/ /\ ~exited
           /\ \/ \E c \in Conns : Peers(c)
              \/ \E s \in Services : AcceptLoop(s) \/ PollLoop(s)
              \/ \E t \in SpwThreads : SpwReceive(t)
              \/ \E t \in Pushers : PushLoop(t)
        \/ exited /\ UNCHANGED vars

Spec == Init /\ [][Next]_vars

\* The kernel runs every runnable thread, and send() and recv() end within
\* their 30 s timeouts.  Nothing makes a peer act or an SpW packet arrive.
Fairness == /\ \A s \in Services : WF_vars(~exited /\ PollLoop(s))
            /\ \A s \in Services : WF_vars(~exited /\ AcceptLoop(s))
            /\ \A t \in Pushers  : WF_vars(~exited /\ PushLoop(t))

FairSpec == Spec /\ Fairness

-----------------------------------------------------------------------------
\* Types of the state net.c keeps; no connection set ever holds a descriptor
\* outside FD_SETSIZE (the guard of accept_connections), where FD_SET and
\* FD_CLR are undefined.
TypeOK ==
    /\ fdtab    \in [Fds -> Conns \cup {NoConn}]
    /\ cst      \in [Conns -> {"new", "pending", "accepted", "joined", "closed"}]
    /\ inq      \in [Conns -> Nat]
    /\ sent     \in [Conns -> 0 .. MaxIn]
    /\ eof      \in [Conns -> BOOLEAN]
    /\ connSet  \in [Services -> SUBSET {fd \in Fds : fd < FdSetSize}]
    /\ nfds     \in [Services -> 0 .. FdSetSize]
    /\ lock     \in [Services -> Pushers \cup {NoThread}]
    /\ apc      \in [Services -> {"accept", "set"}]
    /\ afd      \in [Services -> {fd \in Fds : fd < FdSetSize}]
    /\ aconn    \in [Services -> Conns \cup {NoConn}]
    /\ ppc      \in [Services -> {"snap", "select", "recheck", "handle", "push", "del"}]
    /\ readset  \in [Services -> SUBSET {fd \in Fds : fd < FdSetSize}]
    /\ pst      \in [Pushers -> {"idle", "lock", "scan", "send"}]
    /\ todo     \in [Pushers -> SUBSET Services]
    /\ pfd      \in [Pushers -> Nat]
    /\ chunk    \in [Pushers -> 1 .. Chunks]
    /\ npkt     \in [SpwThreads -> 0 .. MaxPkts]
    /\ exited   \in BOOLEAN
    /\ pushno   \in [Services -> Nat]
    /\ got      \in [Conns -> [Services -> Nat \X (0 .. Chunks)]]
    /\ reused   \subseteq Conns

\* h is the chunk that follows g on a connection that misses nothing.
Continues(g, h) == IF g[2] \in 1 .. (Chunks - 1)
                   THEN h = <<g[1], g[2] + 1>>
                   ELSE h[2] = 1 /\ (g[2] # 0 => h[1] = g[1] + 1)

\* h follows g on a connection that may miss packets and may come in the
\* middle of the first.
Resumes(g, h) == IF g[2] \in 1 .. (Chunks - 1)
                 THEN h = <<g[1], g[2] + 1>>
                 ELSE g[2] # 0 => (h[2] = 1 /\ h[1] > g[1])

\* Whatever is sent on a connection, registered or not, by whichever threads
\* and whatever is accepted, dropped or renumbered meanwhile (the loops under
\* svc->lock in net_forward_to_clients, sniff_push, gresb_push_rx_clients and
\* rmap_reply_to_clients): a connection that was given a number nobody used
\* gets the packets of its own service and of no other, each from its first to
\* its last byte, in the order they were pushed and none left out in between.
\* One given a number that was closed but still in a set may get packets of any
\* service, and the first of each service may be a tail; after that every
\* packet is whole and they keep their order.
WholePackets ==
    [][\A c \in Conns, s \in Services : got'[c][s] # got[c][s] =>
          IF c \in reused THEN Resumes(got[c][s], got'[c][s])
          ELSE s = Target[c] /\ Continues(got[c][s], got'[c][s])]_vars

\* The parts of the inductive invariant behind WholePackets.

\* A thread inside a push loop has a service to push to, and the descriptor
\* it sends to is a member of that service's set below svc->nfds; a poll
\* thread pushes only from within its handler.
PushInv ==
    /\ \A t \in Pushers :
          /\ todo[t] \subseteq {"sniff", "data", "gresb_rx", "rmap"}
          /\ pst[t] # "idle" => todo[t] # {}
          /\ pst[t] = "send" => /\ pfd[t] \in connSet[NextSvc(t)]
                                /\ pfd[t] < nfds[NextSvc(t)]
    /\ \A s \in Services : ppc[s] # "push" => pst[s] = "idle"

\* svc->lock is held by the thread inside the push loop of the service.
LockInv == \A s \in Services, t \in Pushers :
    lock[s] = t <=> (pst[t] \in {"scan", "send"} /\ NextSvc(t) = s)

\* A connection has one descriptor, and only while it is open.
FdInv ==
    /\ \A f, g \in Fds : (fdtab[f] = fdtab[g] /\ fdtab[f] # NoConn) => f = g
    /\ \A f \in Fds : fdtab[f] # NoConn => cst[fdtab[f]] \in {"accepted", "joined"}

\* Between accept() and FD_SET the descriptor may be closed and given to
\* another service, never to another connection of the same one.
AcceptInv == \A s \in Services : apc[s] = "set" =>
    /\ aconn[s] \in Conns /\ Target[aconn[s]] = s
    /\ cst[aconn[s]] \in {"accepted", "closed"}
    /\ \A c \in Conns : (fdtab[afd[s]] = c /\ Target[c] = s) => c = aconn[s]

\* A number that was free of every service when it was handed out stays its
\* connection's own: no other service has it in its set or is about to put it
\* there, and its own service only once it is registered.
OwnNumber == \A c \in Conns \ reused, fd \in Fds : fdtab[fd] = c =>
    /\ \A s \in Services \ {Target[c]} :
          fd \notin connSet[s] /\ ~(apc[s] = "set" /\ afd[s] = fd)
    /\ cst[c] = "accepted" => fd \notin connSet[Target[c]]

\* Thread lock[s] is between two send() calls of one packet to fd.
MidPacket(s, fd) ==
    lock[s] # NoThread /\ pst[lock[s]] = "send" /\ pfd[lock[s]] = fd /\ chunk[lock[s]] > 1

\* What a member of s at fd that misses nothing got last.
LastSent(s, fd) ==
    IF lock[s] = NoThread \/ fd < pfd[lock[s]] THEN <<pushno[s], Chunks>>
    ELSE IF MidPacket(s, fd) THEN <<pushno[s], chunk[lock[s]] - 1>>
    ELSE <<pushno[s] - 1, Chunks>>

\* fd stands for the registered connection c and is in the set of its service.
Member(c, fd) == fdtab[fd] = c /\ cst[c] = "joined" /\ fd \in connSet[Target[c]]

\* Nothing is sent on a connection before it is accepted, nor, on a number of
\* its own, before it is registered or by another service.
UnsentInv == \A c \in Conns, s \in Services :
    \/ cst[c] \in {"new", "pending"}
    \/ c \notin reused /\ (s # Target[c] \/ cst[c] = "accepted")
    => got[c][s] = <<0, 0>>

\* Whoever is at fd and has had something of s has had all but the rest of the
\* packet that is being sent there now.
ResumeInv == \A c \in Conns, s \in Services, fd \in Fds :
    (fdtab[fd] = c /\ got[c][s][2] # 0) =>
    IF MidPacket(s, fd) THEN got[c][s] = <<pushno[s], chunk[lock[s]] - 1>>
    ELSE /\ got[c][s][2] = Chunks /\ got[c][s][1] <= pushno[s]
         /\ (lock[s] # NoThread /\ pfd[lock[s]] <= fd) => got[c][s][1] < pushno[s]

\* A member on a number of its own that has begun to receive misses nothing.
MemberInv == \A c \in Conns \ reused, fd \in Fds :
    (Member(c, fd) /\ (got[c][Target[c]][2] # 0 \/ MidPacket(Target[c], fd)))
    => fd < nfds[Target[c]] /\ got[c][Target[c]] = LastSent(Target[c], fd)

GotInv == UnsentInv /\ ResumeInv /\ MemberInv

\* The state of every push loop accounts, up to the byte, for what was sent on
\* every open connection: a registered client on a number of its own that has
\* had a packet, or part of one, has had everything its service pushed since
\* and nothing else, and one on a number still in use is never left with part
\* of a packet unless a push loop is about to send it the rest.
DeliveryInv == TypeOK /\ PushInv /\ LockInv /\ FdInv /\ AcceptInv /\ OwnNumber /\ GotInv

\* The parts a member of Broadcast has: a connection is out until it is
\* registered, in while the set of its service holds its descriptor, and left
\* for good once it is closed or has lost its place; on a number that was still
\* in use it is a stray from accept() to close().
BroadcastStatus(c) ==
    IF cst[c] = "closed" THEN "left"
    ELSE IF c \in reused THEN "stray"
    ELSE IF cst[c] # "joined" THEN "out"
    ELSE IF \E fd \in Fds : Member(c, fd) THEN "in" ELSE "left"

Promise == INSTANCE Broadcast WITH
    Members   <- Conns,
    Sources   <- Services,
    SourceOf  <- Target,
    Parts     <- Chunks,
    status    <- [c \in Conns |-> BroadcastStatus(c)],
    published <- pushno,
    cursor    <- got

\* The four push loops, with the locks, the descriptor numbers that change
\* hands, the stale handlers and the accept threads around them, do nothing
\* that a broadcast of whole packets to members that come and go would not do,
\* and what reaches a connection whose number was still in use is what
\* Broadcast grants a stray (net_forward_to_clients, sniff_push,
\* gresb_push_rx_clients and rmap_reply_to_clients).
ImplementsBroadcast == Promise!Spec

\* A push loop that took svc->lock gives it back, even if every descriptor it
\* sends to is bad or is closed under its feet.
LockReleased == \A s \in Services : lock[s] # NoThread ~> (lock[s] = NoThread \/ exited)

\* A registered connection whose descriptor select() looks at and whose peer
\* closed it is closed by poll_socket, unless it lost its place in the set.
EofNoticed ==
    \A c \in Conns, fd \in Fds :
        (/\ fdtab[fd] = c /\ cst[c] = "joined" /\ eof[c]
         /\ fd \in connSet[Target[c]] /\ fd < nfds[Target[c]])
        ~> (fdtab[fd] # c \/ fd \notin connSet[Target[c]] \/ exited)

\* Client mode: when the connection to the remote target is closed, conn_drop
\* or conn_drop_locked ends the process.
LinkLossTerminates == (ClientMode /\ cst[ClientConn] = "closed") ~> exited

-----------------------------------------------------------------------------
\* What the documentation and the comments promise and the code does not keep.

\* README.md: "every connected peer receives the SpW traffic": every member
\* of a connection set is below svc->nfds, where the loops look for it.
AllServed == \A s \in Services : \A fd \in connSet[s] : fd < nfds[s]

\* README.md, the same line: a registered connection is a member of the set of
\* its service for as long as it is open.
NoOrphan == \A fd \in Fds : \A c \in Conns :
               (fdtab[fd] = c /\ cst[c] = "joined") => fd \in connSet[Target[c]]

\* README.md, the same line, for every connection: what a peer receives is the
\* packets of the service it connected to, each from its first byte to its last.
PacketsOnly ==
    [][\A c \in Conns, s \in Services : got'[c][s] # got[c][s] =>
          s = Target[c] /\ Continues(got[c][s], got'[c][s])]_vars

\* poll_socket: "re-check membership against the live set so a handler never
\* runs on a closed connection".
HandlerOnLive == \A s \in Services : (ppc[s] = "handle" /\ ~exited) =>
                    \A fd \in Lowest(readset[s]) : fd \in connSet[s]

\* What EofNoticed needs of select(): no set keeps a closed descriptor but the
\* one its poll thread is dropping.  A handler that runs on a number that went
\* to another service closes it beneath that service.
NoDeadMember == \A s \in Services : \A fd \in connSet[s] :
                   fdtab[fd] # NoConn \/ ppc[s] = "del"

\* README.md: "The pseudo-RMAP service traffic is excluded" from what the
\* clients of the sniffer port receive.
SnifferExcludesRmap == \A c \in Conns, s \in {"rmap"} \cap Services :
                          Target[c] = "sniff" => got[c][s][2] = 0

\* README.md: in client mode "if the link is lost, the bridge terminates", and
\* the sniffer "works with any configuration": nothing else ends the bridge.
OnlyLinkLossExits == exited => cst[ClientConn] = "closed"

\* It is kept where the data and the RMAP port are the only ones (net_client.cfg).
\* The number the link had may go to another connection once it is closed,
\* never before, and no other connection is ever in the set of the data port.
ClientInv == ClientMode =>
    /\ cst[ClientConn] # "closed" => cst[ClientConn] = "joined" /\ fdtab[FdMin] = ClientConn
    /\ connSet["data"] \subseteq {FdMin} /\ readset["data"] \subseteq {FdMin}
    /\ apc["data"] = "accept"
    /\ \A c \in Conns : cst[c] = "pending" => Target[c] # "data"
    /\ ppc["data"] = "del" => cst[ClientConn] = "closed"
=============================================================================
