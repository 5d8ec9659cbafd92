----------------------------- MODULE Lifecycle -----------------------------
(***************************************************************************)
(* The life of the bridge process: main() from net_start to spw_release,   *)
(* the SpW poll threads (poll_spw, spw_setup_rx_op and the packet sink),   *)
(* the network threads that transmit (net_to_spw, gresb_tx_to_spw through  *)
(* spw_send_packet_chan), signals, thread cancellation, and the STAR       *)
(* transfer operations that these threads create, wait for and dispose.    *)
(*                                                                         *)
(* pus_op_lock protects only assignments, so what it covers is one action; *)
(* sniff.lock is held across send(), so it is a variable.  The clients,    *)
(* the services and their own locks are in NetService.                     *)
(***************************************************************************)
EXTENDS Naturals, FiniteSets

CONSTANTS
    Chans,       \* SpW channels, two in monitor mode
    Senders,     \* network threads that transmit: data, with -G gresb_tx too
    Sniff,       \* -W was given
    InitialSpw,  \* what cfg.spw may hold before spw_setup_device assigns it
    MaxRx,       \* bound: packets arriving on each channel
    MaxIn,       \* bound: packets each sender receives from its peers
    MaxSig,      \* bound: signals sent to the process
    MaxOps       \* bound: transfer operations created in all

Ops       == 1 .. MaxOps
NoOp      == 0
Monitor   == "ch1" \in Chans
TxThreads == Senders \cup Chans
NoThread  == "none"

ASSUME ChansAssumption   == "ch0" \in Chans /\ Chans \subseteq {"ch0", "ch1"}
ASSUME SendersAssumption == "data" \in Senders /\ Senders \subseteq {"data", "gresb_tx"}
ASSUME ConfigAssumption  == Sniff \in BOOLEAN /\ InitialSpw \subseteq {"null", "garbage"}
ASSUME LifeBounds        == MaxRx \in Nat /\ MaxIn \in Nat /\ MaxSig \in Nat /\ MaxOps \in Nat

VARIABLES
    mpc,        \* main()
    handlers,   \* setup_signals has run
    sigs,       \* signals sent so far
    spw,        \* cfg->spw: "null", "garbage", "set", "freed"
    linkOpen,   \* every channel in use is open (spw_chan_id)
    address,    \* st->p_address: "none", an "empty" path, the "path" of -n
    net,        \* cfg->net: "none", "up", "freed"
    shutdown,   \* st->shutdown
    cancel,     \* network threads pthread_cancel was called on
    spc,        \* network threads
    cpc,        \* SpW poll threads
    tpc,        \* a thread inside spw_send_packet_chan
    own,        \* the operation in a thread's local variable: its TX operation
    rxOwn,      \* the same for the RX operation
    rxOp,       \* st->pus_rx_transfer_op
    txOp,       \* st->pus_tx_transfer_op
    ost,        \* STAR: status of an operation
    disposals,  \* STAR: how often an operation was disposed
    sniffLock,  \* holder of sniff.lock
    nrx,        \* packets that arrived on a channel
    nin,        \* packets a sender received
    late,       \* history: sink calls since shutdown was set
    noPath,     \* history: some packet was created without the routing path
    exited      \* exit() was called, or a signal killed the process

mainVars == <<mpc, handlers, sigs>>
cfgVars  == <<spw, linkOpen, address, net, shutdown>>
pcs      == <<spc, cpc, tpc>>
opVars   == <<own, rxOwn, rxOp, txOp, ost, disposals>>
counts   == <<nrx, nin, late, noPath>>
vars     == <<mainVars, cfgVars, cancel, pcs, opVars, sniffLock, counts, exited>>

-----------------------------------------------------------------------------
Other(ch)   == IF ch = "ch0" THEN "ch1" ELSE "ch0"
TxChan(t)   == IF t \in Senders THEN "ch0" ELSE Other(t)
AllChans    == {"ch0", "ch1"}
NewOps      == {o \in Ops : ost[o] = "none"}
FreshOp     == {o \in NewOps : \A p \in NewOps : o <= p}

Init ==
    /\ mpc = "net_start" /\ handlers = FALSE /\ sigs = 0
    /\ spw \in InitialSpw /\ linkOpen = FALSE /\ address = "none"
    /\ net = "none" /\ shutdown = FALSE
    /\ cancel = {}
    /\ spc = [t \in Senders |-> "off"]
    /\ cpc = [ch \in Chans |-> "off"]
    /\ tpc = [t \in TxThreads |-> "idle"]
    /\ own = [t \in TxThreads |-> NoOp]
    /\ rxOwn = [ch \in Chans |-> NoOp]
    /\ rxOp = [ch \in AllChans |-> NoOp]
    /\ txOp = [ch \in AllChans |-> NoOp]
    /\ ost = [o \in Ops |-> "none"]
    /\ disposals = [o \in Ops |-> 0]
    /\ sniffLock = NoThread
    /\ nrx = [ch \in Chans |-> 0]
    /\ nin = [t \in Senders |-> 0]
    /\ late = [ch \in Chans |-> 0]
    /\ noPath = FALSE
    /\ exited = FALSE

-----------------------------------------------------------------------------
\* main(), up to pause().

NetStart ==
    /\ mpc = "net_start" /\ mpc' = "signals"
    /\ net' = "up"
    /\ spc' = [t \in Senders |-> "poll"]
    /\ UNCHANGED <<handlers, sigs, spw, linkOpen, address, shutdown, cancel, cpc, tpc,
                   opVars, sniffLock, counts, exited>>

SetupSignals ==
    /\ mpc = "signals" /\ mpc' = "setup"
    /\ handlers' = TRUE
    /\ UNCHANGED <<sigs, cfgVars, cancel, pcs, opVars, sniffLock, counts, exited>>

\* spw_setup_device in the order of its visible effects: cfg->spw, the
\* channels, the address, the threads
SetupDevice ==
    /\ mpc = "setup" /\ mpc' = "open"
    /\ spw' = "set"
    /\ UNCHANGED <<handlers, sigs, linkOpen, address, net, shutdown, cancel, pcs, opVars,
                   sniffLock, counts, exited>>

OpenChannels ==
    /\ mpc = "open" /\ mpc' = "address"
    /\ linkOpen' = TRUE
    /\ UNCHANGED <<handlers, sigs, spw, address, net, shutdown, cancel, pcs, opVars,
                   sniffLock, counts, exited>>

\* "monitor mode copies packets verbatim, no routing header on TX"
CreateAddress ==
    /\ mpc = "address" /\ mpc' = "threads"
    /\ address' = IF Monitor THEN "empty" ELSE "path"
    /\ UNCHANGED <<handlers, sigs, spw, linkOpen, net, shutdown, cancel, pcs, opVars,
                   sniffLock, counts, exited>>

StartSpwThreads ==
    /\ mpc = "threads" /\ mpc' = "pause"
    /\ cpc' = [ch \in Chans |-> "top"]
    /\ UNCHANGED <<handlers, sigs, cfgVars, cancel, spc, tpc, opVars, sniffLock, counts, exited>>

\* A signal kills the process before setup_signals; after it the handler
\* returns, and only a pause() that has begun returns with it.
Signal ==
    /\ sigs < MaxSig /\ mpc # "done"
    /\ sigs'   = sigs + 1
    /\ exited' = ~handlers
    /\ mpc'    = IF mpc = "pause" THEN "shutdown" ELSE mpc
    /\ UNCHANGED <<handlers, cfgVars, cancel, pcs, opVars, sniffLock, counts>>

-----------------------------------------------------------------------------
\* main(), after pause().

RequestShutdown ==
    /\ mpc = "shutdown" /\ mpc' = "cancel"
    /\ shutdown' = TRUE
    /\ UNCHANGED <<handlers, sigs, spw, linkOpen, address, net, cancel, pcs, opVars,
                   sniffLock, counts, exited>>

\* net_stop: pthread_cancel on every network thread, then join them all.
CancelNet ==
    /\ mpc = "cancel"
    /\ \/ \E t \in Senders \ cancel : cancel' = cancel \cup {t} /\ mpc' = mpc
       \/ cancel = Senders /\ mpc' = "join_net" /\ UNCHANGED cancel
    /\ UNCHANGED <<handlers, sigs, cfgVars, pcs, opVars, sniffLock, counts, exited>>

JoinNet ==
    /\ mpc = "join_net" /\ \A t \in Senders : spc[t] = "dead"
    /\ mpc' = "cancel_rx"
    /\ UNCHANGED <<handlers, sigs, cfgVars, cancel, pcs, opVars, sniffLock, counts, exited>>

CancelRx_Forgotten ==
    /\ mpc = "cancel_rx" /\ mpc' = "join_spw"
    /\ UNCHANGED <<handlers, sigs, cfgVars, cancel, pcs, opVars, sniffLock, counts, exited>>

\* spw_stop_poll.  STAR_cancelTransferOperationWaits ends the present and
\* every later wait on an operation that has not completed.
CancelRx ==
    /\ mpc = "cancel_rx" /\ mpc' = "join_spw"
    /\ ost' = [o \in Ops |-> IF /\ \E ch \in Chans : rxOp[ch] = o
                                /\ ost[o] \in {"new", "submitted"}
                             THEN "cancelled" ELSE ost[o]]
    /\ UNCHANGED <<handlers, sigs, cfgVars, cancel, pcs, own, rxOwn, rxOp, txOp, disposals,
                   sniffLock, counts, exited>>

JoinSpw_NoWait ==
    /\ mpc = "join_spw"
    /\ mpc' = "net_release"
    /\ UNCHANGED <<handlers, sigs, cfgVars, cancel, pcs, opVars, sniffLock, counts, exited>>

JoinSpw ==
    /\ mpc = "join_spw" /\ \A ch \in Chans : cpc[ch] = "end"
    /\ mpc' = "net_release"
    /\ UNCHANGED <<handlers, sigs, cfgVars, cancel, pcs, opVars, sniffLock, counts, exited>>

NetRelease ==
    /\ mpc = "net_release" /\ mpc' = "dispose"
    /\ net' = "freed"
    /\ UNCHANGED <<handlers, sigs, spw, linkOpen, address, shutdown, cancel, pcs, opVars,
                   sniffLock, counts, exited>>

\* spw_dispose_ops; "cancelled transfer operations are already freed by the API"
LeftOver == {o \in Ops : (\E ch \in Chans : o \in {rxOp[ch], txOp[ch]}) /\ ost[o] # "cancelled"}

DisposeOps ==
    /\ mpc = "dispose" /\ mpc' = "spw_release"
    /\ disposals' = [o \in Ops |-> IF o \in LeftOver THEN disposals[o] + 1 ELSE disposals[o]]
    /\ UNCHANGED <<handlers, sigs, cfgVars, cancel, pcs, own, rxOwn, rxOp, txOp, ost,
                   sniffLock, counts, exited>>

SpwRelease ==
    /\ mpc = "spw_release" /\ mpc' = "done"
    /\ spw' = "freed"
    /\ UNCHANGED <<handlers, sigs, linkOpen, address, net, shutdown, cancel, pcs, opVars,
                   sniffLock, counts, exited>>

-----------------------------------------------------------------------------
\* spw_send_packet_chan, run by a network thread or, in monitor mode, by the
\* sink of the other channel.

StartTx(t) == tpc' = [tpc EXCEPT ![t] = "create"]

TxCreate(t) ==
    /\ tpc[t] = "create"
    /\ \E o \in FreshOp :
          /\ own'  = [own EXCEPT ![t] = o]
          /\ txOp' = [txOp EXCEPT ![TxChan(t)] = o]
          /\ ost'  = [ost EXCEPT ![o] = "submitted"]
    /\ tpc' = [tpc EXCEPT ![t] = "wait"]
    /\ noPath' = (noPath \/ address # "path")
    /\ UNCHANGED <<mainVars, cfgVars, cancel, spc, cpc, rxOwn, rxOp, disposals, sniffLock,
                   nrx, nin, late, exited>>

TxComplete(t) ==
    /\ tpc[t] = "wait"
    /\ ost' = [ost EXCEPT ![own[t]] = "complete"]
    /\ tpc' = [tpc EXCEPT ![t] = "throttle"]
    /\ UNCHANGED <<mainVars, cfgVars, cancel, spc, cpc, own, rxOwn, rxOp, txOp, disposals,
                   sniffLock, counts, exited>>

\* "Error during transfer", exit(EXIT_FAILURE)
TxError(t) ==
    /\ tpc[t] = "wait"
    /\ exited' = TRUE
    /\ UNCHANGED <<mainVars, cfgVars, cancel, pcs, opVars, sniffLock, counts>>

\* usleep() is a cancellation point: a cancelled thread does not get past it
TxThrottle(t) ==
    /\ tpc[t] = "throttle" /\ t \notin cancel
    /\ tpc' = [tpc EXCEPT ![t] = "clear"]
    /\ UNCHANGED <<mainVars, cfgVars, cancel, spc, cpc, opVars, sniffLock, counts, exited>>

TxClear_Never(t) == txOp

\* pus_tx_transfer_op once the transfer is over: cleared if still this one
TxClear(t) == [txOp EXCEPT ![TxChan(t)] = IF @ = own[t] THEN NoOp ELSE @]

TxDispose(t) ==
    /\ tpc[t] = "clear"
    /\ txOp' = TxClear(t)
    /\ disposals' = [disposals EXCEPT ![own[t]] = @ + 1]
    /\ own' = [own EXCEPT ![t] = NoOp]
    /\ tpc' = [tpc EXCEPT ![t] = "idle"]
    /\ UNCHANGED <<mainVars, cfgVars, cancel, spc, cpc, rxOwn, rxOp, ost, sniffLock,
                   counts, exited>>

Tx(t) == TxCreate(t) \/ TxComplete(t) \/ TxError(t) \/ TxThrottle(t) \/ TxDispose(t)

-----------------------------------------------------------------------------
\* Network threads: poll_socket around net_to_spw and gresb_tx_to_spw.

\* What spw_link_ready may return; reading through a pointer that was never
\* assigned, or is freed, can give either answer.
LinkReady == CASE spw = "null" -> {FALSE}
               [] spw = "set"  -> {linkOpen}
               [] OTHER        -> BOOLEAN

NextAfterRead == IF Sniff THEN "mirrorlock" ELSE "transmit"

\* The link is ready, select() returns and the handler reads one packet.
NetPacket(t) ==
    /\ spc[t] = "poll" /\ t \notin cancel /\ nin[t] < MaxIn
    /\ TRUE \in LinkReady
    /\ nin' = [nin EXCEPT ![t] = @ + 1]
    /\ spc' = [spc EXCEPT ![t] = NextAfterRead]
    /\ UNCHANGED <<mainVars, cfgVars, cancel, cpc, tpc, opVars, sniffLock, nrx, late, noPath, exited>>

NetMirrorLock(t) ==
    /\ spc[t] = "mirrorlock" /\ sniffLock = NoThread
    /\ sniffLock' = t
    /\ spc' = [spc EXCEPT ![t] = "mirror"]
    /\ UNCHANGED <<mainVars, cfgVars, cancel, cpc, tpc, opVars, counts, exited>>

\* send_all to the sniffer clients, then unlock
NetMirror(t) ==
    /\ spc[t] = "mirror" /\ t \notin cancel
    /\ sniffLock' = NoThread
    /\ spc' = [spc EXCEPT ![t] = "transmit"]
    /\ UNCHANGED <<mainVars, cfgVars, cancel, cpc, tpc, opVars, counts, exited>>

\* in monitor mode what comes from the network is discarded
NetTransmit(t) ==
    /\ spc[t] = "transmit"
    /\ IF Monitor THEN spc' = [spc EXCEPT ![t] = "poll"] /\ UNCHANGED tpc
                  ELSE spc' = [spc EXCEPT ![t] = "sending"] /\ StartTx(t)
    /\ UNCHANGED <<mainVars, cfgVars, cancel, cpc, opVars, sniffLock, counts, exited>>

NetSent(t) ==
    /\ spc[t] = "sending" /\ tpc[t] = "idle"
    /\ spc' = [spc EXCEPT ![t] = "poll"]
    /\ UNCHANGED <<mainVars, cfgVars, cancel, cpc, tpc, opVars, sniffLock, counts, exited>>

\* Deferred cancellation takes effect in a blocking call: select() or recv(),
\* send() with sniff.lock held, the STAR wait, usleep().
AtCancellationPoint(t) == \/ spc[t] \in {"poll", "mirror"}
                          \/ spc[t] = "sending" /\ tpc[t] \in {"wait", "throttle"}

NetCancelled(t) ==
    /\ t \in cancel /\ AtCancellationPoint(t)
    /\ spc' = [spc EXCEPT ![t] = "dead"]
    /\ tpc' = [tpc EXCEPT ![t] = "idle"]
    /\ UNCHANGED <<mainVars, cfgVars, cancel, cpc, opVars, sniffLock, counts, exited>>

NetThread(t) == NetMirrorLock(t) \/ NetMirror(t) \/ NetTransmit(t) \/ NetSent(t) \/ NetCancelled(t)

-----------------------------------------------------------------------------
\* poll_spw.

\* Where the loop goes at each of its three tests of cfg->spw->shutdown.
Unless_NotTested(next) == next
Unless(next) == IF shutdown THEN "end" ELSE next

SpwTop(ch) ==
    /\ cpc[ch] = "top"
    /\ cpc' = [cpc EXCEPT ![ch] = Unless("setup")]
    /\ UNCHANGED <<mainVars, cfgVars, cancel, spc, tpc, opVars, sniffLock, counts, exited>>

Disposed_Kept(o) == disposals
Disposed(o) == IF o = NoOp THEN disposals ELSE [disposals EXCEPT ![o] = @ + 1]

\* spw_setup_rx_op: create; under pus_op_lock dispose the previous and store
SpwSetupRx(ch) ==
    /\ cpc[ch] = "setup"
    /\ \E o \in FreshOp :
          /\ rxOwn' = [rxOwn EXCEPT ![ch] = o]
          /\ rxOp'  = [rxOp EXCEPT ![ch] = o]
          /\ ost'   = [ost EXCEPT ![o] = "new"]
    /\ disposals' = Disposed(rxOp[ch])
    /\ cpc' = [cpc EXCEPT ![ch] = "submit"]
    /\ UNCHANGED <<mainVars, cfgVars, cancel, spc, tpc, own, txOp, sniffLock, counts, exited>>

SpwSubmitRx(ch) ==
    /\ cpc[ch] = "submit"
    /\ ost' = [ost EXCEPT ![rxOwn[ch]] = IF @ = "new" THEN "submitted" ELSE @]
    /\ cpc' = [cpc EXCEPT ![ch] = "submitted"]
    /\ UNCHANGED <<mainVars, cfgVars, cancel, spc, tpc, own, rxOwn, rxOp, txOp, disposals,
                   sniffLock, counts, exited>>

SpwBeforeWait(ch) ==
    /\ cpc[ch] = "submitted"
    /\ cpc' = [cpc EXCEPT ![ch] = Unless("wait")]
    /\ UNCHANGED <<mainVars, cfgVars, cancel, spc, tpc, opVars, sniffLock, counts, exited>>

\* The device: a packet completes the pending operation, or it ends incomplete.
SpwArrival(ch) ==
    /\ rxOwn[ch] # NoOp /\ ost[rxOwn[ch]] = "submitted" /\ nrx[ch] < MaxRx
    /\ nrx' = [nrx EXCEPT ![ch] = @ + 1]
    /\ \E st \in {"complete", "incomplete"} : ost' = [ost EXCEPT ![rxOwn[ch]] = st]
    /\ UNCHANGED <<mainVars, cfgVars, cancel, pcs, own, rxOwn, rxOp, txOp, disposals,
                   sniffLock, nin, late, noPath, exited>>

SpwWake(ch) ==
    /\ cpc[ch] = "wait" /\ ost[rxOwn[ch]] \in {"complete", "incomplete", "cancelled"}
    /\ cpc' = [cpc EXCEPT ![ch] = IF ost[rxOwn[ch]] = "cancelled" THEN "end" ELSE "woken"]
    /\ UNCHANGED <<mainVars, cfgVars, cancel, spc, tpc, opVars, sniffLock, counts, exited>>

SpwAfterWait(ch) ==
    /\ cpc[ch] = "woken"
    /\ cpc' = [cpc EXCEPT ![ch] =
                  Unless(IF ost[rxOwn[ch]] = "complete" THEN "sink" ELSE "top")]
    /\ UNCHANGED <<mainVars, cfgVars, cancel, spc, tpc, opVars, sniffLock, counts, exited>>

\* cfg->pkt_sink: net_pkt_sink, or spw_pkt_sink_monitor, which copies first
SpwSink(ch) ==
    /\ cpc[ch] = "sink"
    /\ late' = [late EXCEPT ![ch] = IF shutdown THEN @ + 1 ELSE @]
    /\ cpc'  = [cpc EXCEPT ![ch] = "copy"]
    /\ IF Monitor THEN StartTx(ch) ELSE UNCHANGED tpc
    /\ UNCHANGED <<mainVars, cfgVars, cancel, spc, opVars, sniffLock, nrx, nin, noPath, exited>>

SpwCopied(ch) ==
    /\ cpc[ch] = "copy" /\ tpc[ch] = "idle"
    /\ cpc' = [cpc EXCEPT ![ch] = IF Sniff THEN "mirrorlock" ELSE "forward"]
    /\ UNCHANGED <<mainVars, cfgVars, cancel, spc, tpc, opVars, sniffLock, counts, exited>>

SpwMirrorLock(ch) ==
    /\ cpc[ch] = "mirrorlock" /\ sniffLock = NoThread
    /\ sniffLock' = ch
    /\ cpc' = [cpc EXCEPT ![ch] = "mirror"]
    /\ UNCHANGED <<mainVars, cfgVars, cancel, spc, tpc, opVars, counts, exited>>

SpwMirror(ch) ==
    /\ cpc[ch] = "mirror"
    /\ sniffLock' = NoThread
    /\ cpc' = [cpc EXCEPT ![ch] = "forward"]
    /\ UNCHANGED <<mainVars, cfgVars, cancel, spc, tpc, opVars, counts, exited>>

\* the rest of net_forward_to_clients; its sends time out
SpwForward(ch) ==
    /\ cpc[ch] = "forward"
    /\ cpc' = [cpc EXCEPT ![ch] = "top"]
    /\ UNCHANGED <<mainVars, cfgVars, cancel, spc, tpc, opVars, sniffLock, counts, exited>>

SpwThread(ch) == \/ SpwTop(ch) \/ SpwSetupRx(ch) \/ SpwSubmitRx(ch) \/ SpwBeforeWait(ch)
                 \/ SpwWake(ch) \/ SpwAfterWait(ch) \/ SpwSink(ch) \/ SpwCopied(ch)
                 \/ SpwMirrorLock(ch) \/ SpwMirror(ch) \/ SpwForward(ch)

-----------------------------------------------------------------------------
Main == \/ NetStart \/ SetupSignals \/ SetupDevice \/ OpenChannels \/ CreateAddress
        \/ StartSpwThreads \/ RequestShutdown \/ CancelNet \/ JoinNet \/ CancelRx
        \/ JoinSpw \/ NetRelease \/ DisposeOps \/ SpwRelease

Running == ~exited /\ mpc # "done"

\* main() may stay in pause() for ever, and nothing runs after the end.
Idle == (mpc = "pause" \/ ~Running) /\ UNCHANGED vars

Next == \/ /\ Running
           /\ \/ Main \/ Signal
              \/ \E t \in Senders : NetPacket(t) \/ NetThread(t)
              \/ \E ch \in Chans : SpwArrival(ch) \/ SpwThread(ch)
              \/ \E t \in TxThreads : Tx(t)
        \/ Idle

Spec == Init /\ [][Next]_vars

\* Every runnable thread is run; waits and sends that have a timeout end.
\* Neither signals nor packets have to come.
Fairness == /\ WF_vars(Running /\ Main)
            /\ \A t \in Senders : WF_vars(Running /\ NetThread(t))
            /\ \A ch \in Chans : WF_vars(Running /\ SpwThread(ch))
            /\ \A t \in TxThreads : WF_vars(Running /\ Tx(t))

FairSpec == Spec /\ Fairness

-----------------------------------------------------------------------------
ThreadType ==
    /\ spc \in [Senders -> {"off", "poll", "mirrorlock", "mirror", "transmit", "sending", "dead"}]
    /\ cpc \in [Chans -> {"off", "top", "setup", "submit", "submitted", "wait", "woken", "sink",
                          "copy", "mirrorlock", "mirror", "forward", "end"}]
    /\ tpc \in [TxThreads -> {"idle", "create", "wait", "throttle", "clear"}]

OpType ==
    /\ own \in [TxThreads -> Ops \cup {NoOp}]
    /\ rxOwn \in [Chans -> Ops \cup {NoOp}]
    /\ rxOp \in [AllChans -> Ops \cup {NoOp}]
    /\ txOp \in [AllChans -> Ops \cup {NoOp}]
    /\ \A ch \in AllChans \ Chans : rxOp[ch] = NoOp /\ txOp[ch] = NoOp
    /\ ost \in [Ops -> {"none", "new", "submitted", "complete", "incomplete", "cancelled"}]

CountType ==
    /\ disposals \in [Ops -> Nat]
    /\ nrx \in [Chans -> 0 .. MaxRx]
    /\ nin \in [Senders -> 0 .. MaxIn]
    /\ late \in [Chans -> Nat]

\* Types; cfg->spw is "garbage" only until spw_setup_device assigns it, and a
\* channel that is not in use never has a transfer operation.
TypeOK ==
    /\ mpc \in {"net_start", "signals", "setup", "open", "address", "threads", "pause",
                "shutdown", "cancel", "join_net", "cancel_rx", "join_spw", "net_release",
                "dispose", "spw_release", "done"}
    /\ handlers \in BOOLEAN /\ sigs \in 0 .. MaxSig
    /\ spw \in InitialSpw \cup {"set", "freed"}
    /\ linkOpen \in BOOLEAN /\ address \in {"none", "empty", "path"} /\ shutdown \in BOOLEAN
    /\ net \in {"none", "up", "freed"}
    /\ cancel \subseteq Senders
    /\ sniffLock \in TxThreads \cup {NoThread}
    /\ noPath \in BOOLEAN /\ exited \in BOOLEAN
    /\ ThreadType /\ OpType /\ CountType

InSink == {"sink", "copy", "mirrorlock", "mirror", "forward"}

\* The packet sink of an SpW thread never runs on network or SpW state that
\* net_release or spw_release has freed ("call only after the SpW polling
\* thread has wound down", net_release).
SinkStateAlive == \A ch \in Chans : cpc[ch] \in InSink => (net = "up" /\ spw = "set")

\* No thread waits on, reads the packet of, or completes a transfer operation
\* that was disposed, by spw_setup_rx_op, spw_send_packet_chan or
\* spw_dispose_ops.
OpsAliveInUse ==
    /\ \A ch \in Chans :
          cpc[ch] \in InSink \cup {"submit", "submitted", "wait", "woken"} =>
              disposals[rxOwn[ch]] = 0
    /\ \A t \in TxThreads : tpc[t] \in {"wait", "throttle", "clear"} => disposals[own[t]] = 0

\* No operation is given back twice, whether by the thread that made it, by
\* spw_dispose_ops after a thread was cancelled mid-transmit, or by the API
\* on cancellation.
OpsFreedOnce == \A o \in Ops : /\ disposals[o] <= 1
                               /\ ost[o] = "cancelled" => disposals[o] = 0

\* When main() returns every transfer operation has been given back, but for
\* those of threads cancelled mid-transmit whose entry in pus_tx_transfer_op
\* another thread had overwritten: with n transmitting network threads at most
\* n - 1 are lost, and none with one.
Leaked == {o \in Ops : ost[o] \notin {"none", "cancelled"} /\ disposals[o] = 0}
NoOpLeaked == mpc = "done" => Cardinality(Leaked) < Cardinality(Senders)

\* After spw_request_shutdown each SpW thread hands at most one more packet
\* to its sink, the one it had when it tested the flag for the last time.
AtMostOneLateSink == \A ch \in Chans : late[ch] <= 1

\* Once pause() has returned main() gets through net_stop, spw_stop_poll and
\* the releases: no join waits for ever (README.md: "SIGINT, SIGTERM and
\* SIGHUP terminate the program and shut down the device cleanly").
ShutdownCompletes == (mpc = "shutdown") ~> (mpc = "done" \/ exited)

\* spw_bridge.h, spw_link_ready: "true when the SpW link is ready to carry
\* traffic": a network thread, which net_start creates before the device is
\* looked for, gets past the test only then.  It takes a cfg.spw that is null
\* at first, which main() does not see to (v_link_ready.cfg).
LinkReadyTruthful == \A t \in Senders : spc[t] \notin {"off", "poll", "dead"} => linkOpen

-----------------------------------------------------------------------------
\* Why these hold.

\* main() brings things up and takes them down in order: the SpW threads exist
\* from StartSpwThreads on, the joins leave no thread, and only then is
\* anything freed.
Released == {"net_release", "dispose", "spw_release", "done"}
Stopping == {"cancel", "join_net", "cancel_rx", "join_spw"} \cup Released
Started  == {"pause", "shutdown"} \cup Stopping

StageInv ==
    /\ mpc = "net_start" => \A t \in Senders : spc[t] = "off"
    /\ mpc \notin {"net_start", "dispose", "spw_release", "done"} => net = "up"
    /\ mpc \in {"open", "address", "threads"} \cup (Started \ {"done"}) => spw = "set"
    /\ spw = "freed" => mpc = "done"
    /\ mpc \in Stopping <=> shutdown
    /\ mpc \in Released => \A ch \in Chans : cpc[ch] = "end"
    /\ mpc \in Released \cup {"cancel_rx", "join_spw"} => \A t \in Senders : spc[t] = "dead"
    /\ \A ch \in Chans : cpc[ch] # "off" => mpc \in Started

\* A thread that has had its late packet is on its way to the last test.
LateInv == \A ch \in Chans :
    /\ late[ch] <= 1
    /\ late[ch] = 1 => shutdown /\ cpc[ch] \in {"copy", "mirrorlock", "mirror", "forward", "top", "end"}

\* Who is in spw_send_packet_chan, and that a thread which is holds an
\* operation, as does one that was cancelled there.
SendInv(t) ==
    /\ tpc[t] # "idle" => \/ ~Monitor /\ t \in Senders /\ spc[t] = "sending"
                          \/ Monitor /\ t \in Chans /\ cpc[t] = "copy"
    /\ tpc[t] \in {"wait", "throttle", "clear"} => own[t] # NoOp
    /\ own[t] # NoOp => \/ tpc[t] \in {"wait", "throttle", "clear"}
                        \/ ~Monitor /\ t \in Senders /\ spc[t] = "dead"

OwnInv == (\A ch \in Chans : rxOwn[ch] = rxOp[ch]) /\ (\A t \in TxThreads : SendInv(t))

\* An operation has one holder; what pus_tx_transfer_op names is held by a
\* thread that sends on that channel.
HoldInv ==
    /\ \A t, u \in TxThreads : own[t] = own[u] /\ own[t] # NoOp => t = u
    /\ \A t \in TxThreads : \A ch \in Chans : own[t] # NoOp => own[t] # rxOp[ch]
    /\ \A c, d \in Chans : rxOp[c] = rxOp[d] /\ rxOp[c] # NoOp => c = d
    /\ \A c \in Chans : txOp[c] # NoOp => \E t \in TxThreads : TxChan(t) = c /\ own[t] = txOp[c]

\* The state of what is held.  A thread that comes back to spw_setup_rx_op
\* comes with an operation that is over, which is why CancelRx cannot cancel
\* the one it then disposes.
Held(o) == (\E ch \in Chans : rxOp[ch] = o) \/ (\E t \in TxThreads : own[t] = o)

RxInv == \A ch \in Chans :
    /\ cpc[ch] = "off" => rxOp[ch] = NoOp
    /\ cpc[ch] \in InSink \cup {"submit", "submitted", "wait", "woken"} => rxOp[ch] # NoOp
    /\ /\ cpc[ch] \in InSink \cup {"top", "setup", "woken"}
       /\ rxOp[ch] # NoOp
       => ost[rxOp[ch]] \in {"complete", "incomplete"}

Gone == {"spw_release", "done"}

FreeOK(o) ==
    /\ ost[o] = "none" => ~Held(o) /\ disposals[o] = 0
    /\ mpc \notin Gone /\ Held(o) => disposals[o] = 0
    /\ disposals[o] <= 1
    /\ ost[o] = "cancelled" => disposals[o] = 0 /\ \E ch \in Chans : rxOp[ch] = o

FreeInv == \A o \in Ops : FreeOK(o)

\* What is not given back is held; spw_dispose_ops finds it unless another
\* sender has taken the entry of the channel, and one sender has it last.
LeakInv ==
    /\ \A o \in Ops : ost[o] # "none" /\ disposals[o] = 0 => Held(o)
    /\ mpc \in Gone => Leaked \cap LeftOver = {}
    /\ txOp["ch0"] = NoOp => \E t \in Senders : own[t] = NoOp

LifeInv == /\ TypeOK /\ StageInv /\ LateInv /\ OwnInv /\ HoldInv /\ RxInv /\ FreeInv
           /\ LeakInv

-----------------------------------------------------------------------------
\* What the documentation and the comments promise and the code does not keep.

\* README.md, the same line: a signal ends the program whenever it comes.
SignalTerminates == (sigs > 0) ~> (mpc = "done" \/ exited)

\* spw_request_shutdown: "set it before tearing down the network threads so no
\* further packets are forwarded while the net side winds down".
NoLateSink == \A ch \in Chans : late[ch] = 0

\* README.md: "-n PATH routing path": outside monitor mode, which adds none,
\* every transmitted packet was given the address made from it.  A network
\* thread can transmit after the channels are open and before
\* spw_setup_device has made the address (v_no_path.cfg).
PathApplied == ~Monitor => ~noPath
=============================================================================
