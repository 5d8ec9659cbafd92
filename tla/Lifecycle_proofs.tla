--------------------------- MODULE Lifecycle_proofs ---------------------------
(***************************************************************************)
(* Proofs about Lifecycle: however the threads of the bridge, its signals  *)
(* and the device interleave, and for any number of packets and            *)
(* operations, nothing is used after it was freed or freed twice, and what *)
(* is lost at the end is bounded by the number of network threads.         *)
(***************************************************************************)
EXTENDS Lifecycle, FiniteSetTheorems, TLAPS

-----------------------------------------------------------------------------
\* Facts about the constants.

\* A null pointer is not an operation.
LEMMA OpsFact == NoOp \notin Ops /\ Ops \subseteq Nat
  BY LifeBounds DEF NoOp, Ops

\* The threads that transmit are the network threads and the SpW threads, and
\* no thread is both.
LEMMA ThreadsFact ==
  /\ Chans \subseteq AllChans /\ "ch0" \in Chans /\ "ch0" \in AllChans
  /\ Senders \subseteq TxThreads /\ Chans \subseteq TxThreads
  /\ \A t \in TxThreads : t \in Senders \/ t \in Chans
  /\ Senders \cap Chans = {} /\ Senders \cap AllChans = {}
  BY ChansAssumption, SendersAssumption DEF AllChans, TxThreads

\* A network thread sends on the first channel, the sink of a channel on the
\* other one, which in monitor mode is in use.
LEMMA TxChanFact ==
  /\ \A t \in TxThreads : TxChan(t) \in AllChans
  /\ \A t \in Senders : TxChan(t) = "ch0"
  /\ Monitor => Chans = AllChans
  BY ChansAssumption, SendersAssumption, ThreadsFact DEF TxChan, Other, AllChans, Monitor

\* STAR_create*Operation returns an operation that was not in use.
LEMMA FreshFact == \A o \in FreshOp : o \in Ops /\ ost[o] = "none" /\ o # NoOp
  BY OpsFact DEF FreshOp, NewOps

\* A thread inside spw_send_packet_chan sends on a channel that is open.
LEMMA SenderOrSink ==
  ASSUME OwnInv, NEW t \in TxThreads, tpc[t] # "idle"
  PROVE  TxChan(t) \in Chans
  BY ThreadsFact, TxChanFact DEF OwnInv, SendInv

\* After the create step a sender has an operation of its own.
LEMMA OwnOp ==
  ASSUME TypeOK, OwnInv, NEW t \in TxThreads, tpc[t] \in {"wait", "throttle", "clear"}
  PROVE  own[t] \in Ops
  BY DEF TypeOK, OpType, OwnInv, SendInv

-----------------------------------------------------------------------------
\* The steps of the specification.
LEMMA NextCases ==
  ASSUME [Next]_vars
  PROVE  \/ Main \/ Signal
         \/ \E t \in Senders : NetPacket(t) \/ NetThread(t)
         \/ \E ch \in Chans : SpwArrival(ch) \/ SpwThread(ch)
         \/ \E t \in TxThreads : Tx(t)
         \/ UNCHANGED vars
  BY DEF Next, Idle

\* Every step keeps the types.
LEMMA TypeNext == TypeOK /\ OwnInv /\ [Next]_vars => TypeOK'
<1> SUFFICES ASSUME TypeOK, OwnInv, [Next]_vars PROVE TypeOK'
  OBVIOUS
<1> USE DEF cfgVars, mainVars, pcs, opVars, counts
<1>1. CASE Signal
  <2>1. sigs' \in 0 .. MaxSig
    BY <1>1, LifeBounds DEF Signal, TypeOK
  <2>2. exited' \in BOOLEAN
    BY <1>1, Zenon DEF Signal, TypeOK
  <2>3. QED
    BY <1>1, <2>1, <2>2 DEF Signal, TypeOK, ThreadType, OpType, CountType
<1>2. CASE UNCHANGED vars
  BY <1>2 DEF vars, TypeOK, ThreadType, OpType, CountType
<1>3. CASE Main
  <2>a. CASE NetStart
    BY <2>a DEF NetStart, TypeOK, ThreadType, OpType, CountType
  <2>b. CASE SetupSignals
    BY <2>b DEF SetupSignals, TypeOK, ThreadType, OpType, CountType
  <2>c. CASE SetupDevice
    BY <2>c DEF SetupDevice, TypeOK, ThreadType, OpType, CountType
  <2>d. CASE OpenChannels
    BY <2>d DEF OpenChannels, TypeOK, ThreadType, OpType, CountType
  <2>e. CASE CreateAddress
    BY <2>e DEF CreateAddress, TypeOK, ThreadType, OpType, CountType
  <2>f. CASE StartSpwThreads
    BY <2>f DEF StartSpwThreads, TypeOK, ThreadType, OpType, CountType
  <2>g. CASE RequestShutdown
    BY <2>g DEF RequestShutdown, TypeOK, ThreadType, OpType, CountType
  <2>h. CASE JoinNet
    BY <2>h DEF JoinNet, TypeOK, ThreadType, OpType, CountType
  <2>i. CASE JoinSpw
    BY <2>i DEF JoinSpw, TypeOK, ThreadType, OpType, CountType
  <2>j. CASE NetRelease
    BY <2>j DEF NetRelease, TypeOK, ThreadType, OpType, CountType
  <2>k. CASE SpwRelease
    BY <2>k DEF SpwRelease, TypeOK, ThreadType, OpType, CountType
  <2>3. CASE CancelNet
    BY <2>3 DEF CancelNet, TypeOK, ThreadType, OpType, CountType
  <2>4. CASE CancelRx
    BY <2>4 DEF CancelRx, TypeOK, ThreadType, OpType, CountType
  <2>5. CASE DisposeOps
    <3>1. disposals' \in [Ops -> Nat]
      BY <2>5 DEF DisposeOps, TypeOK, CountType
    <3>2. QED
      BY <2>5, <3>1 DEF DisposeOps, TypeOK, ThreadType, OpType, CountType
  <2>6. QED
    BY <1>3, <2>a, <2>b, <2>c, <2>d, <2>e, <2>f, <2>g, <2>h, <2>i, <2>j, <2>k, <2>3, <2>4, <2>5 DEF Main
<1>4. ASSUME NEW t \in Senders, NetPacket(t) \/ NetThread(t) PROVE TypeOK'
  <2>1. t \in TxThreads
    BY ThreadsFact
  <2>2. CASE NetPacket(t)
    <3>1. nin' \in [Senders -> 0 .. MaxIn]
      BY <2>2, LifeBounds DEF NetPacket, TypeOK, CountType
    <3>2. QED
      BY <2>2, <3>1 DEF NetPacket, NextAfterRead, TypeOK, ThreadType, OpType, CountType
  <2>3. CASE NetMirrorLock(t) \/ NetMirror(t) \/ NetTransmit(t)
    BY <2>1, <2>3 DEF NetMirrorLock, NetMirror, NetTransmit, StartTx, TypeOK, ThreadType, OpType, CountType
  <2>4. CASE NetSent(t) \/ NetCancelled(t)
    BY <2>1, <2>4 DEF NetSent, NetCancelled, TypeOK, ThreadType, OpType, CountType
  <2>5. QED
    BY <1>4, <2>2, <2>3, <2>4 DEF NetThread
<1>5. ASSUME NEW ch \in Chans, SpwArrival(ch) \/ SpwThread(ch) PROVE TypeOK'
  <2>1. ch \in TxThreads /\ ch \in AllChans
    BY ThreadsFact
  <2>2. CASE SpwArrival(ch)
    <3>1. nrx' \in [Chans -> 0 .. MaxRx]
      BY <2>2, LifeBounds DEF SpwArrival, TypeOK, CountType
    <3>2. QED
      BY <2>2, <3>1 DEF SpwArrival, TypeOK, ThreadType, OpType, CountType
  <2>3. CASE SpwTop(ch) \/ SpwSubmitRx(ch) \/ SpwBeforeWait(ch) \/ SpwWake(ch) \/ SpwAfterWait(ch)
    BY <2>3 DEF SpwTop, SpwSubmitRx, SpwBeforeWait, SpwWake, SpwAfterWait, Unless,
                TypeOK, ThreadType, OpType, CountType
  <2>4. CASE SpwSetupRx(ch)
    <3>1. disposals' \in [Ops -> Nat]
      <4>1. rxOp[ch] \in Ops \cup {NoOp} /\ disposals \in [Ops -> Nat]
        BY <2>1 DEF TypeOK, OpType, CountType
      <4>2. QED
        BY <2>4, <4>1 DEF SpwSetupRx, Disposed
    <3>2. QED
      BY <2>1, <2>4, <3>1, FreshFact DEF SpwSetupRx, TypeOK, ThreadType, OpType, CountType
  <2>5. CASE SpwSink(ch)
    <3>1. late' \in [Chans -> Nat]
      BY <2>5 DEF SpwSink, TypeOK, CountType
    <3>2. QED
      BY <2>1, <2>5, <3>1 DEF SpwSink, StartTx, TypeOK, ThreadType, OpType, CountType
  <2>6. CASE SpwCopied(ch) \/ SpwMirrorLock(ch) \/ SpwMirror(ch) \/ SpwForward(ch)
    BY <2>1, <2>6 DEF SpwCopied, SpwMirrorLock, SpwMirror, SpwForward, TypeOK, ThreadType, OpType, CountType
  <2>7. QED
    BY <1>5, <2>2, <2>3, <2>4, <2>5, <2>6 DEF SpwThread
<1>6. ASSUME NEW t \in TxThreads, Tx(t) PROVE TypeOK'
  <2>1. TxChan(t) \in AllChans
    BY TxChanFact
  <2>2. CASE TxCreate(t)
    <3>1. noPath' \in BOOLEAN
      BY <2>2, Zenon DEF TxCreate, TypeOK
    <3>2. TxChan(t) \in Chans
      BY <2>2, SenderOrSink DEF TxCreate
    <3>3. OpType'
      BY <2>2, <2>1, <3>2, FreshFact DEF TxCreate, TypeOK, OpType
    <3>4. QED
      BY <2>2, <3>1, <3>3 DEF TxCreate, TypeOK, ThreadType, CountType
  <2>3. CASE TxComplete(t)
    <3>1. own[t] \in Ops
      BY <2>3, OwnOp DEF TxComplete
    <3>2. QED
      BY <2>3, <3>1 DEF TxComplete, TypeOK, ThreadType, OpType, CountType
  <2>a. CASE TxError(t)
    <3>1. UNCHANGED <<mainVars, cfgVars, cancel, pcs, opVars, sniffLock, counts>> /\ exited' \in BOOLEAN
      BY <2>a, Zenon DEF TxError
    <3>2. QED
      BY <3>1 DEF TypeOK, ThreadType, OpType, CountType
  <2>b. CASE TxThrottle(t)
    BY <2>b DEF TxThrottle, TypeOK, ThreadType, OpType, CountType
  <2>4. CASE TxDispose(t)
    <3>1. CountType'
      <4>1. own[t] \in Ops /\ disposals \in [Ops -> Nat]
        BY <2>4, OwnOp DEF TxDispose, TypeOK, CountType
      <4>2. disposals' = [disposals EXCEPT ![own[t]] = @ + 1]
        BY <2>4 DEF TxDispose
      <4>3. disposals' \in [Ops -> Nat]
        BY <4>1, <4>2
      <4>4. QED
        BY <2>4, <4>3 DEF TxDispose, TypeOK, CountType
    <3>2. OpType'
      BY <2>1, <2>4 DEF TxDispose, TxClear, TypeOK, OpType
    <3>3. QED
      BY <2>4, <3>1, <3>2 DEF TxDispose, TypeOK, ThreadType
  <2>5. QED
    BY <1>6, <2>2, <2>3, <2>a, <2>b, <2>4 DEF Tx
<1>7. QED
  BY <1>1, <1>2, <1>3, <1>4, <1>5, <1>6, NextCases

-----------------------------------------------------------------------------
\* What the steps of a thread leave alone.

\* A step of a network thread changes its own counters and nothing of main().
LEMMA NetFrame ==
  ASSUME TypeOK, NEW t \in Senders, NetPacket(t) \/ NetThread(t)
  PROVE  /\ spc[t] \notin {"off", "dead"}
         /\ UNCHANGED <<mpc, spw, net, address, shutdown, cpc, opVars, late, noPath>>
         /\ \A u \in Senders : u # t => spc'[u] = spc[u]
         /\ \A u \in TxThreads : u # t => tpc'[u] = tpc[u]
<1>1. spc \in [Senders -> {"off", "poll", "mirrorlock", "mirror", "transmit", "sending", "dead"}]
      /\ tpc \in [TxThreads -> {"idle", "create", "wait", "throttle", "clear"}]
  BY DEF TypeOK, ThreadType
<1>2. CASE NetPacket(t) \/ NetMirrorLock(t) \/ NetMirror(t)
  BY <1>1, <1>2 DEF NetPacket, NetMirrorLock, NetMirror, mainVars, cfgVars, counts
<1>3. CASE NetTransmit(t) \/ NetSent(t) \/ NetCancelled(t)
  BY <1>1, <1>3 DEF NetTransmit, StartTx, NetSent, NetCancelled, AtCancellationPoint, mainVars, cfgVars,
                    counts
<1>4. QED
  BY <1>2, <1>3 DEF NetThread

\* A step of an SpW thread changes its own counter and nothing of main().
LEMMA SpwFrame ==
  ASSUME TypeOK, NEW ch \in Chans, SpwThread(ch)
  PROVE  /\ cpc[ch] \notin {"off", "end"}
         /\ UNCHANGED <<mpc, spw, net, address, shutdown, spc, own, txOp, noPath>>
         /\ \A c \in Chans : c # ch => cpc'[c] = cpc[c]
<1>1. cpc \in [Chans -> {"off", "top", "setup", "submit", "submitted", "wait", "woken", "sink",
                         "copy", "mirrorlock", "mirror", "forward", "end"}]
  BY DEF TypeOK, ThreadType
<1> USE DEF mainVars, cfgVars, counts, opVars
<1>2. CASE SpwTop(ch) \/ SpwSetupRx(ch) \/ SpwSubmitRx(ch) \/ SpwBeforeWait(ch)
  BY <1>1, <1>2 DEF SpwTop, SpwSetupRx, SpwSubmitRx, SpwBeforeWait
<1>3. CASE SpwWake(ch) \/ SpwAfterWait(ch) \/ SpwSink(ch) \/ SpwCopied(ch)
  BY <1>1, <1>3 DEF SpwWake, SpwAfterWait, SpwSink, SpwCopied
<1>4. CASE SpwMirrorLock(ch) \/ SpwMirror(ch) \/ SpwForward(ch)
  BY <1>1, <1>4 DEF SpwMirrorLock, SpwMirror, SpwForward
<1>5. QED
  BY <1>2, <1>3, <1>4 DEF SpwThread

\* A step inside spw_send_packet_chan changes no thread but its own.
LEMMA TxFrame ==
  ASSUME NEW t \in TxThreads, Tx(t)
  PROVE  /\ tpc[t] # "idle"
         /\ UNCHANGED <<mpc, spw, net, address, shutdown, spc, cpc, rxOwn, rxOp, late>>
  BY DEF Tx, TxCreate, TxComplete, TxError, TxThrottle, TxDispose, mainVars, cfgVars, pcs, opVars, counts

\* A packet that arrives on the link changes no thread.
LEMMA ArrivalFrame ==
  ASSUME NEW ch \in Chans, SpwArrival(ch)
  PROVE  UNCHANGED <<mpc, spw, net, address, shutdown, spc, cpc, tpc, own, rxOwn, rxOp, txOp,
                     disposals, late, noPath>>
  BY DEF SpwArrival, mainVars, cfgVars, pcs

\* main() moves the other threads only when it starts them.
LEMMA MainFrame ==
  ASSUME Main \/ Signal
  PROVE  /\ UNCHANGED <<tpc, own, rxOwn, rxOp, txOp, late, noPath>>
         /\ mpc = "net_start" \/ spc' = spc
         /\ mpc = "threads" \/ cpc' = cpc
<1> USE DEF pcs, opVars, counts
<1>1. CASE NetStart \/ SetupSignals \/ SetupDevice \/ OpenChannels \/ CreateAddress
  BY <1>1 DEF NetStart, SetupSignals, SetupDevice, OpenChannels, CreateAddress
<1>2. CASE StartSpwThreads \/ RequestShutdown \/ CancelNet \/ JoinNet \/ CancelRx
  BY <1>2 DEF StartSpwThreads, RequestShutdown, CancelNet, JoinNet, CancelRx
<1>3. CASE JoinSpw \/ NetRelease \/ DisposeOps \/ SpwRelease \/ Signal
  BY <1>3 DEF JoinSpw, NetRelease, DisposeOps, SpwRelease, Signal
<1>4. QED
  BY <1>1, <1>2, <1>3 DEF Main

-----------------------------------------------------------------------------
\* main() keeps to its order.
LEMMA StageNext == TypeOK /\ StageInv /\ [Next]_vars => StageInv'
<1> SUFFICES ASSUME TypeOK, StageInv, [Next]_vars PROVE StageInv'
  OBVIOUS
<1>1. CASE Main
  <2> USE DEF StageInv, Started, Stopping, Released, mainVars, cfgVars, pcs
  <2>1. CASE NetStart \/ SetupSignals \/ SetupDevice
    BY <2>1 DEF NetStart, SetupSignals, SetupDevice
  <2>2. CASE OpenChannels
    BY <2>2 DEF OpenChannels
  <2>a. CASE CreateAddress
    BY <2>a DEF CreateAddress
  <2>b. CASE StartSpwThreads
    BY <2>b DEF StartSpwThreads
  <2>3. CASE RequestShutdown \/ CancelNet \/ JoinNet
    BY <2>3 DEF RequestShutdown, CancelNet, JoinNet
  <2>4. CASE CancelRx \/ JoinSpw \/ NetRelease
    BY <2>4 DEF CancelRx, JoinSpw, NetRelease
  <2>5. CASE DisposeOps \/ SpwRelease
    BY <2>5 DEF DisposeOps, SpwRelease
  <2>6. QED
    BY <1>1, <2>1, <2>2, <2>a, <2>b, <2>3, <2>4, <2>5 DEF Main
<1>2. CASE Signal
  BY <1>2 DEF Signal, StageInv, Started, Stopping, Released, cfgVars, pcs
<1>3. ASSUME NEW t \in Senders, NetPacket(t) \/ NetThread(t) PROVE StageInv'
  BY <1>3, NetFrame DEF StageInv
<1>4. ASSUME NEW ch \in Chans, SpwArrival(ch) \/ SpwThread(ch) PROVE StageInv'
  <2>1. CASE SpwArrival(ch)
    BY <2>1, ArrivalFrame DEF StageInv
  <2>2. CASE SpwThread(ch)
    BY <2>2, SpwFrame DEF StageInv
  <2>3. QED
    BY <1>4, <2>1, <2>2
<1>5. ASSUME NEW t \in TxThreads, Tx(t) PROVE StageInv'
  BY <1>5, TxFrame DEF StageInv
<1>6. CASE UNCHANGED vars
  BY <1>6 DEF vars, mainVars, cfgVars, pcs, StageInv
<1>7. QED
  BY <1>1, <1>2, <1>3, <1>4, <1>5, <1>6, NextCases

\* Nothing a packet sink needs is freed while it runs.
LEMMA StageSafe == StageInv => SinkStateAlive
  BY DEF StageInv, SinkStateAlive, InSink, Started, Stopping, Released

-----------------------------------------------------------------------------
\* The flag is tested between any two packets of a thread.
LEMMA LateNext == TypeOK /\ StageInv /\ LateInv /\ [Next]_vars => LateInv'
<1> SUFFICES ASSUME TypeOK, StageInv, LateInv, [Next]_vars PROVE LateInv'
  OBVIOUS
<1>1. CASE Main \/ Signal
  <2>1. shutdown => shutdown'
    BY <1>1 DEF Main, Signal, NetStart, SetupSignals, SetupDevice, OpenChannels, CreateAddress,
                StartSpwThreads, RequestShutdown, CancelNet, JoinNet, CancelRx, JoinSpw, NetRelease,
                DisposeOps, SpwRelease, cfgVars
  <2>2. CASE mpc # "threads"
    <3>1. UNCHANGED <<cpc, late>>
      BY <1>1, <2>2, MainFrame
    <3>2. QED
      BY <2>1, <3>1 DEF LateInv
  <2>3. CASE mpc = "threads"
    <3>1. ~shutdown /\ late' = late
      BY <1>1, <2>3, MainFrame DEF StageInv, Stopping, Released
    <3>2. QED
      BY <3>1 DEF LateInv
  <2>4. QED
    BY <2>2, <2>3
<1>2. ASSUME NEW t \in Senders, NetPacket(t) \/ NetThread(t) PROVE LateInv'
  BY <1>2, NetFrame DEF LateInv
<1>3. ASSUME NEW ch \in Chans, SpwArrival(ch) \/ SpwThread(ch) PROVE LateInv'
  <2>1. CASE SpwArrival(ch)
    BY <2>1, ArrivalFrame DEF LateInv
  <2>2. CASE SpwThread(ch)
    <3>1. /\ shutdown' = shutdown /\ cpc[ch] \notin {"off", "end"}
          /\ \A c \in Chans : c # ch => cpc'[c] = cpc[c]
      BY <2>2, SpwFrame
    <3>2. /\ late \in [Chans -> Nat]
          /\ cpc \in [Chans -> {"off", "top", "setup", "submit", "submitted", "wait", "woken", "sink",
                                "copy", "mirrorlock", "mirror", "forward", "end"}]
      BY DEF TypeOK, ThreadType, CountType
    <3>3. CASE SpwSink(ch)
      <4>1. cpc[ch] = "sink" /\ cpc'[ch] = "copy"
        BY <3>2, <3>3 DEF SpwSink
      <4>2. late[ch] = 0
        <5>1. late[ch] \in Nat /\ late[ch] <= 1 /\ late[ch] # 1
          BY <3>2, <4>1 DEF LateInv
        <5>2. QED
          BY <5>1
      <4>3. /\ \A c \in Chans : c # ch => late'[c] = late[c]
            /\ late'[ch] = IF shutdown THEN 1 ELSE 0
        BY <3>2, <3>3, <4>2 DEF SpwSink
      <4>4. ASSUME NEW c \in Chans
            PROVE  /\ late'[c] <= 1
                   /\ late'[c] = 1 =>
                        shutdown' /\ cpc'[c] \in {"copy", "mirrorlock", "mirror", "forward", "top", "end"}
        <5>1. CASE c = ch
          BY <3>1, <4>1, <4>3, <5>1
        <5>2. CASE c # ch
          BY <3>1, <4>3, <5>2 DEF LateInv
        <5>3. QED
          BY <5>1, <5>2
      <4>5. QED
        BY <4>4, Zenon DEF LateInv
    <3>4. CASE ~SpwSink(ch)
      <4>1. late' = late
        BY <2>2, <3>4 DEF SpwThread, SpwTop, SpwSetupRx, SpwSubmitRx, SpwBeforeWait, SpwWake,
              SpwAfterWait, SpwCopied, SpwMirrorLock, SpwMirror, SpwForward, counts
      <4>2. ASSUME late[ch] = 1 PROVE cpc'[ch] \in {"copy", "mirrorlock", "mirror", "forward", "top", "end"}
        <5>1. shutdown /\ cpc[ch] \in {"copy", "mirrorlock", "mirror", "forward", "top", "end"}
          BY <4>2 DEF LateInv
        <5>2. QED
          BY <2>2, <3>2, <3>4, <5>1 DEF SpwThread, SpwTop, SpwSetupRx, SpwSubmitRx, SpwBeforeWait, SpwWake,
              SpwAfterWait, SpwCopied, SpwMirrorLock, SpwMirror, SpwForward, Unless
      <4>3. QED
        BY <3>1, <4>1, <4>2 DEF LateInv
    <3>5. QED
      BY <3>3, <3>4
  <2>3. QED
    BY <1>3, <2>1, <2>2
<1>4. ASSUME NEW t \in TxThreads, Tx(t) PROVE LateInv'
  BY <1>4, TxFrame DEF LateInv
<1>5. CASE UNCHANGED vars
  BY <1>5 DEF vars, cfgVars, pcs, counts, LateInv
<1>6. QED
  BY <1>1, <1>2, <1>3, <1>4, <1>5, NextCases

-----------------------------------------------------------------------------
\* Every step keeps track of who transmits.
LEMMA OwnNext == TypeOK /\ StageInv /\ OwnInv /\ [Next]_vars => OwnInv'
<1> SUFFICES ASSUME TypeOK, StageInv, OwnInv, [Next]_vars PROVE OwnInv'
  OBVIOUS
<1>0. /\ spc \in [Senders -> {"off", "poll", "mirrorlock", "mirror", "transmit", "sending", "dead"}]
      /\ cpc \in [Chans -> {"off", "top", "setup", "submit", "submitted", "wait", "woken", "sink",
                            "copy", "mirrorlock", "mirror", "forward", "end"}]
      /\ tpc \in [TxThreads -> {"idle", "create", "wait", "throttle", "clear"}]
      /\ own \in [TxThreads -> Ops \cup {NoOp}]
  BY DEF TypeOK, ThreadType, OpType
<1>1. CASE Main \/ Signal
  <2>1. UNCHANGED <<tpc, own, rxOwn, rxOp>>
    BY <1>1, MainFrame
  <2>2. ASSUME NEW t \in TxThreads PROVE SendInv(t)'
    <3>1. SendInv(t)
      BY DEF OwnInv
    <3>2. t \in Senders /\ spc[t] # "off" => spc'[t] = spc[t]
      BY <1>1, MainFrame DEF StageInv
    <3>3. t \in Chans /\ cpc[t] # "off" => cpc'[t] = cpc[t]
      BY <1>1, MainFrame DEF StageInv, Started, Stopping, Released
    <3>4. QED
      BY <2>1, <3>1, <3>2, <3>3 DEF SendInv
  <2>3. QED
    BY <2>1, <2>2 DEF OwnInv
<1>2. ASSUME NEW t \in Senders, NetPacket(t) \/ NetThread(t) PROVE OwnInv'
  <2>1. /\ UNCHANGED <<cpc, opVars>>
        /\ \A u \in Senders : u # t => spc'[u] = spc[u]
        /\ \A u \in TxThreads : u # t => tpc'[u] = tpc[u]
    BY <1>2, NetFrame
  <2>2. ASSUME NEW u \in TxThreads, u # t PROVE SendInv(u)'
    BY <2>1, <2>2 DEF SendInv, OwnInv, opVars
  <2>3. SendInv(t)'
    <3>1. SendInv(t) /\ t \in TxThreads /\ t \notin Chans /\ own' = own
      BY <2>1, ThreadsFact DEF OwnInv, opVars
    <3>2. CASE NetPacket(t) \/ NetMirrorLock(t) \/ NetMirror(t)
      <4>1. tpc' = tpc /\ spc[t] \in {"poll", "mirrorlock", "mirror"}
        BY <3>2 DEF NetPacket, NetMirrorLock, NetMirror
      <4>2. QED
        BY <3>1, <4>1 DEF SendInv
    <3>3. CASE NetTransmit(t)
      BY <1>0, <3>1, <3>3 DEF NetTransmit, StartTx, SendInv
    <3>4. CASE NetSent(t)
      BY <1>0, <3>1, <3>4 DEF NetSent, SendInv
    <3>5. CASE NetCancelled(t)
      BY <1>0, <3>1, <3>5 DEF NetCancelled, AtCancellationPoint, SendInv
    <3>6. QED
      BY <1>2, <3>2, <3>3, <3>4, <3>5 DEF NetThread
  <2>4. QED
    BY <2>1, <2>2, <2>3 DEF OwnInv, opVars
<1>3. ASSUME NEW ch \in Chans, SpwThread(ch) PROVE OwnInv'
  <2>1. /\ UNCHANGED <<spc, own>>
        /\ \A c \in Chans : c # ch => cpc'[c] = cpc[c]
    BY <1>3, SpwFrame
  <2>2. ch \in TxThreads /\ ch \notin Senders /\ ch \in AllChans
    BY ThreadsFact
  <2>3. SendInv(ch)
    BY <2>2 DEF OwnInv
  <2>4. CASE SpwSink(ch)
    <3>1. /\ cpc[ch] = "sink" /\ cpc'[ch] = "copy" /\ UNCHANGED <<rxOwn, rxOp>>
          /\ \A u \in TxThreads : u # ch => tpc'[u] = tpc[u]
          /\ IF Monitor THEN tpc'[ch] = "create" ELSE tpc'[ch] = tpc[ch]
      BY <1>0, <2>2, <2>4 DEF SpwSink, StartTx, opVars
    <3>2. SendInv(ch)'
      BY <2>1, <2>2, <2>3, <3>1 DEF SendInv
    <3>3. ASSUME NEW u \in TxThreads, u # ch PROVE SendInv(u)'
      BY <2>1, <3>1, <3>3 DEF SendInv, OwnInv
    <3>4. QED
      BY <3>1, <3>2, <3>3 DEF OwnInv
  <2>5. CASE ~SpwSink(ch)
    <3>1. tpc' = tpc /\ (cpc[ch] = "copy" => tpc[ch] = "idle")
      BY <1>3, <2>5 DEF SpwThread, SpwTop, SpwSetupRx, SpwSubmitRx, SpwBeforeWait, SpwWake,
            SpwAfterWait, SpwCopied, SpwMirrorLock, SpwMirror, SpwForward
    <3>2. SendInv(ch)'
      BY <2>1, <2>2, <2>3, <3>1 DEF SendInv
    <3>3. ASSUME NEW u \in TxThreads, u # ch PROVE SendInv(u)'
      BY <2>1, <3>1, <3>3 DEF SendInv, OwnInv
    <3>4. \A c \in Chans : rxOwn'[c] = rxOp'[c]
      <4>1. CASE SpwSetupRx(ch)
        BY <2>2, <4>1, ThreadsFact DEF SpwSetupRx, OwnInv, TypeOK, OpType
      <4>2. CASE ~SpwSetupRx(ch)
        <5>1. UNCHANGED <<rxOwn, rxOp>>
          BY <1>3, <2>5, <4>2 DEF SpwThread, SpwTop, SpwSubmitRx, SpwBeforeWait, SpwWake,
            SpwAfterWait, SpwCopied, SpwMirrorLock, SpwMirror, SpwForward, opVars
        <5>2. QED
          BY <5>1 DEF OwnInv
      <4>3. QED
        BY <4>1, <4>2
    <3>5. QED
      BY <3>2, <3>3, <3>4 DEF OwnInv
  <2>6. QED
    BY <2>4, <2>5
<1>4. ASSUME NEW ch \in Chans, SpwArrival(ch) PROVE OwnInv'
  BY <1>4, ArrivalFrame DEF OwnInv, SendInv
<1>5. ASSUME NEW t \in TxThreads, Tx(t) PROVE OwnInv'
  <2>1. tpc[t] # "idle" /\ UNCHANGED <<spc, cpc, rxOwn, rxOp>>
    BY <1>5, TxFrame
  <2>2. /\ \A u \in TxThreads : u # t => tpc'[u] = tpc[u] /\ own'[u] = own[u]
        /\ tpc'[t] = "idle" => own'[t] = NoOp
        /\ tpc'[t] # "idle" => tpc'[t] \in {"wait", "throttle", "clear"} /\ own'[t] # NoOp
    <3>1. CASE TxCreate(t)
      BY <1>0, <3>1, FreshFact DEF TxCreate
    <3>2. CASE TxComplete(t) \/ TxError(t) \/ TxThrottle(t) 
      BY <1>0, <3>2 DEF TxComplete, TxError, TxThrottle, pcs, opVars, OwnInv, SendInv
    <3>3. CASE TxDispose(t)
      BY <1>0, <3>3 DEF TxDispose
    <3>4. QED
      BY <1>5, <3>1, <3>2, <3>3 DEF Tx
  <2>3. SendInv(t)'
    BY <2>1, <2>2 DEF OwnInv, SendInv
  <2>4. ASSUME NEW u \in TxThreads, u # t PROVE SendInv(u)'
    BY <2>1, <2>2, <2>4 DEF OwnInv, SendInv
  <2>5. QED
    BY <2>1, <2>3, <2>4 DEF OwnInv
<1>6. CASE UNCHANGED vars
  BY <1>6 DEF vars, pcs, opVars, OwnInv, SendInv
<1>7. QED
  BY <1>1, <1>2, <1>3, <1>4, <1>5, <1>6, NextCases

-----------------------------------------------------------------------------
\* What a step does to the operations.

\* A thread that moves has not been joined.
LEMMA NotGone ==
  ASSUME StageInv, OwnInv
  PROVE  /\ \A t \in TxThreads : tpc[t] # "idle" => mpc \notin Gone
         /\ \A ch \in Chans : cpc[ch] # "end" => mpc \notin Gone
  BY DEF StageInv, OwnInv, SendInv, Released, Gone

\* Only the status of some operations changes, and none is made or cancelled.
OpsQuiet ==
  /\ UNCHANGED <<own, rxOp, txOp, disposals>>
  /\ mpc' \in Gone <=> mpc \in Gone
  /\ \A o \in Ops : /\ ost'[o] = "none" <=> ost[o] = "none"
                    /\ ost'[o] = "cancelled" <=> ost[o] = "cancelled"

\* main() touches transfer operations in two steps only, the cancellation of
\* the receive waits and the disposal.
LEMMA MainOps ==
  ASSUME Main \/ Signal
  PROVE  CancelRx \/ DisposeOps \/ (UNCHANGED opVars /\ (mpc' \in Gone <=> mpc \in Gone))
<1>1. CASE NetStart \/ SetupSignals \/ SetupDevice \/ OpenChannels \/ CreateAddress
  BY <1>1 DEF NetStart, SetupSignals, SetupDevice, OpenChannels, CreateAddress, Gone
<1>2. CASE StartSpwThreads \/ RequestShutdown \/ CancelNet \/ JoinNet
  BY <1>2 DEF StartSpwThreads, RequestShutdown, CancelNet, JoinNet, Gone
<1>3. CASE JoinSpw \/ NetRelease \/ SpwRelease \/ Signal
  BY <1>3 DEF JoinSpw, NetRelease, SpwRelease, Signal, Gone
<1>4. QED
  BY <1>1, <1>2, <1>3 DEF Main

\* What a step can do to the operations: create one to transmit, give one back,
\* replace the receive operation, cancel, dispose, or leave ownership alone.
LEMMA OpCases ==
  ASSUME TypeOK, OwnInv, HoldInv, FreeInv, [Next]_vars
  PROVE  \/ \E t \in TxThreads : TxCreate(t) \/ TxDispose(t)
         \/ \E ch \in Chans : SpwSetupRx(ch)
         \/ CancelRx \/ DisposeOps \/ OpsQuiet
<1>0. ost \in [Ops -> {"none", "new", "submitted", "complete", "incomplete", "cancelled"}]
  BY DEF TypeOK, OpType
<1>1. CASE Main \/ Signal
  BY <1>1, MainOps DEF OpsQuiet, opVars
<1>2. ASSUME NEW t \in Senders, NetPacket(t) \/ NetThread(t) PROVE OpsQuiet
  BY <1>2, NetFrame DEF OpsQuiet, opVars
<1>3. ASSUME NEW ch \in Chans, SpwArrival(ch) PROVE OpsQuiet
  <2>1. UNCHANGED <<mpc, own, rxOp, txOp, disposals>> /\ rxOwn[ch] = rxOp[ch]
    BY <1>3, ArrivalFrame DEF OwnInv
  <2>2. \A o \in Ops : ost'[o] # ost[o] => ost[o] = "submitted" /\ ost'[o] \in {"complete", "incomplete"}
    BY <1>0, <1>3 DEF SpwArrival
  <2>3. QED
    BY <2>1, <2>2 DEF OpsQuiet
<1>4. ASSUME NEW ch \in Chans, SpwThread(ch), ~SpwSetupRx(ch) PROVE OpsQuiet
  <2>1. CASE SpwSubmitRx(ch)
    <3>1. UNCHANGED <<mpc, own, rxOp, txOp, disposals>>
      BY <2>1 DEF SpwSubmitRx, mainVars
    <3>2. \A o \in Ops : ost'[o] # ost[o] => ost[o] = "new" /\ ost'[o] = "submitted"
      BY <1>0, <2>1 DEF SpwSubmitRx
    <3>3. QED
      BY <3>1, <3>2 DEF OpsQuiet
  <2>2. CASE ~SpwSubmitRx(ch)
    <3>1. UNCHANGED <<mpc, opVars>>
      BY <1>4, <2>2 DEF SpwThread, SpwTop, SpwBeforeWait, SpwWake, SpwAfterWait, SpwSink, SpwCopied,
            SpwMirrorLock, SpwMirror, SpwForward, mainVars
    <3>2. QED
      BY <3>1 DEF OpsQuiet, opVars
  <2>3. QED
    BY <2>1, <2>2
<1>5. ASSUME NEW t \in TxThreads, Tx(t), ~TxCreate(t), ~TxDispose(t) PROVE OpsQuiet
  <2>1. UNCHANGED <<mpc, own, rxOp, txOp, disposals>>
    BY <1>5 DEF Tx, TxComplete, TxError, TxThrottle, mainVars, opVars
  <2>2. CASE TxComplete(t)
    <3>1. own[t] \in Ops /\ own[t] # NoOp
      BY <2>2, OwnOp, OpsFact DEF TxComplete
    <3>2. ost[own[t]] \notin {"none", "cancelled"}
      BY <3>1 DEF FreeInv, FreeOK, Held, HoldInv
    <3>3. \A o \in Ops : ost'[o] = IF o = own[t] THEN "complete" ELSE ost[o]
      BY <1>0, <2>2 DEF TxComplete
    <3>4. QED
      BY <2>1, <3>2, <3>3 DEF OpsQuiet
  <2>3. CASE ~TxComplete(t)
    <3>1. UNCHANGED ost
      BY <1>5, <2>3 DEF Tx, TxError, TxThrottle, opVars
    <3>2. QED
      BY <2>1, <3>1 DEF OpsQuiet
  <2>4. QED
    BY <2>2, <2>3
<1>6. CASE UNCHANGED vars
  BY <1>6 DEF vars, mainVars, opVars, OpsQuiet
<1>7. QED
  BY <1>1, <1>2, <1>3, <1>4, <1>5, <1>6, NextCases

\* spw_send_packet_chan takes a new operation ...
Creates(t, o) ==
  /\ o # NoOp /\ ost[o] = "none" /\ ~Held(o) /\ disposals[o] = 0 /\ own[t] = NoOp
  /\ own' = [own EXCEPT ![t] = o] /\ txOp' = [txOp EXCEPT ![TxChan(t)] = o]
  /\ ost' = [ost EXCEPT ![o] = "submitted"]
  /\ UNCHANGED <<mpc, rxOp, disposals>> /\ mpc \notin Gone

\* spw_send_packet_chan takes an operation nobody holds.
LEMMA Created ==
  ASSUME TypeOK, StageInv, OwnInv, FreeInv, NEW t \in TxThreads, TxCreate(t)
  PROVE  \E o \in Ops : Creates(t, o)
<1>1. PICK o \in FreshOp : /\ own' = [own EXCEPT ![t] = o] /\ txOp' = [txOp EXCEPT ![TxChan(t)] = o]
                           /\ ost' = [ost EXCEPT ![o] = "submitted"]
  BY DEF TxCreate
<1>2. o \in Ops /\ o # NoOp /\ ost[o] = "none"
  BY FreshFact
<1>3. ~Held(o) /\ disposals[o] = 0
  BY <1>2 DEF FreeInv, FreeOK
<1>4. tpc[t] = "create" /\ UNCHANGED <<mpc, rxOp, disposals>>
  BY DEF TxCreate, mainVars
<1>5. own[t] = NoOp /\ mpc \notin Gone
  BY <1>4, NotGone, ThreadsFact DEF OwnInv, SendInv
<1>6. QED
  BY <1>1, <1>2, <1>3, <1>4, <1>5 DEF Creates

\* ... and gives back its own.
LEMMA GivenBack ==
  ASSUME TypeOK, StageInv, OwnInv, NEW t \in TxThreads, TxDispose(t)
  PROVE  /\ own[t] \in Ops /\ own[t] # NoOp /\ mpc \notin Gone /\ UNCHANGED <<mpc, rxOp, ost>>
         /\ own' = [own EXCEPT ![t] = NoOp]
         /\ disposals' = [disposals EXCEPT ![own[t]] = @ + 1]
         /\ txOp' = TxClear(t)
  BY OwnOp, OpsFact, NotGone DEF TxDispose, mainVars

\* spw_setup_rx_op replaces an operation that is over, if any.
Replaces(ch, o) ==
  /\ o # NoOp /\ ost[o] = "none" /\ ~Held(o) /\ disposals[o] = 0
  /\ rxOp' = [rxOp EXCEPT ![ch] = o] /\ ost' = [ost EXCEPT ![o] = "new"]
  /\ disposals' = Disposed(rxOp[ch])
  /\ rxOp[ch] # NoOp => rxOp[ch] \in Ops /\ ost[rxOp[ch]] \in {"complete", "incomplete"}
  /\ UNCHANGED <<mpc, own, txOp>> /\ mpc \notin Gone

\* spw_setup_rx_op gives back the old operation and takes one nobody holds.
LEMMA Replaced ==
  ASSUME TypeOK, StageInv, OwnInv, RxInv, FreeInv, NEW ch \in Chans, SpwSetupRx(ch)
  PROVE  \E o \in Ops : Replaces(ch, o)
<1>1. PICK o \in FreshOp : rxOp' = [rxOp EXCEPT ![ch] = o] /\ ost' = [ost EXCEPT ![o] = "new"]
  BY DEF SpwSetupRx
<1>2. o \in Ops /\ o # NoOp /\ ost[o] = "none"
  BY FreshFact
<1>3. ~Held(o) /\ disposals[o] = 0
  BY <1>2 DEF FreeInv, FreeOK
<1>4. cpc[ch] = "setup" /\ UNCHANGED <<mpc, own, txOp>> /\ disposals' = Disposed(rxOp[ch])
  BY DEF SpwSetupRx, mainVars
<1>5. mpc \notin Gone
  BY <1>4, NotGone
<1>6. rxOp[ch] # NoOp => rxOp[ch] \in Ops /\ ost[rxOp[ch]] \in {"complete", "incomplete"}
  BY <1>4, ThreadsFact DEF RxInv, TypeOK, OpType
<1>7. QED
  BY <1>1, <1>2, <1>3, <1>4, <1>5, <1>6 DEF Replaces

-----------------------------------------------------------------------------
\* A thread meets spw_setup_rx_op with an operation that is over.
LEMMA RxNext == TypeOK /\ StageInv /\ OwnInv /\ HoldInv /\ RxInv /\ FreeInv /\ [Next]_vars => RxInv'
<1> SUFFICES ASSUME TypeOK, StageInv, OwnInv, HoldInv, RxInv, FreeInv, [Next]_vars PROVE RxInv'
  OBVIOUS
<1>0. /\ cpc \in [Chans -> {"off", "top", "setup", "submit", "submitted", "wait", "woken", "sink",
                            "copy", "mirrorlock", "mirror", "forward", "end"}]
      /\ ost \in [Ops -> {"none", "new", "submitted", "complete", "incomplete", "cancelled"}]
      /\ rxOp \in [AllChans -> Ops \cup {NoOp}] /\ Chans \subseteq AllChans
      /\ \A ch \in Chans : rxOwn[ch] = rxOp[ch]
  BY ThreadsFact DEF TypeOK, ThreadType, OpType, OwnInv
<1> DEFINE Over(o) == ost[o] \in {"complete", "incomplete"}
<1>1. ASSUME UNCHANGED <<cpc, rxOp>>, \A o \in Ops : Over(o) => Over(o)' PROVE RxInv'
  BY <1>0, <1>1 DEF RxInv
<1>2. CASE Main \/ Signal
  <2>1. \A o \in Ops : Over(o) => Over(o)'
    <3>1. CASE CancelRx
      BY <1>0, <3>1 DEF CancelRx
    <3>2. CASE DisposeOps \/ UNCHANGED opVars
      BY <3>2 DEF DisposeOps, opVars
    <3>3. QED
      BY <1>2, <3>1, <3>2, MainOps
  <2>2. CASE mpc # "threads"
    BY <1>1, <1>2, <2>1, <2>2, MainFrame
  <2>3. CASE mpc = "threads"
    <3>1. rxOp' = rxOp /\ \A ch \in Chans : cpc[ch] = "off"
      BY <1>2, <2>3, MainFrame DEF StageInv, Started, Stopping, Released
    <3>2. \A ch \in Chans : rxOp'[ch] = NoOp
      BY <3>1 DEF RxInv
    <3>3. \A ch \in Chans : cpc'[ch] \in {"off", "top"}
      BY <1>2, <2>3, <3>1 DEF Main, Signal, NetStart, SetupSignals, SetupDevice, OpenChannels, CreateAddress,
                StartSpwThreads, RequestShutdown, CancelNet, JoinNet, CancelRx, JoinSpw, NetRelease,
                DisposeOps, SpwRelease, pcs
    <3>4. QED
      BY <3>2, <3>3 DEF RxInv, InSink
  <2>4. QED
    BY <2>2, <2>3
<1>3. ASSUME NEW t \in Senders, NetPacket(t) \/ NetThread(t) PROVE RxInv'
  BY <1>1, <1>3, NetFrame DEF opVars
<1>4. ASSUME NEW ch \in Chans, SpwArrival(ch) PROVE RxInv'
  <2>1. \A o \in Ops : Over(o) => Over(o)'
    BY <1>0, <1>4 DEF SpwArrival
  <2>2. QED
    BY <1>1, <1>4, <2>1, ArrivalFrame
<1>5. ASSUME NEW ch \in Chans, SpwThread(ch) PROVE RxInv'
  <2>1. \A c \in Chans : c # ch => cpc'[c] = cpc[c]
    BY <1>5, SpwFrame
  <2>2. CASE SpwSetupRx(ch)
    <3>1. PICK o \in Ops : Replaces(ch, o)
      BY <2>2, Replaced
    <3>2. /\ o # NoOp /\ ost[o] = "none" /\ rxOp' = [rxOp EXCEPT ![ch] = o]
          /\ ost' = [ost EXCEPT ![o] = "new"] /\ cpc'[ch] = "submit"
      BY <1>0, <2>2, <3>1 DEF Replaces, SpwSetupRx
    <3>4. \A c \in Chans : c # ch => rxOp'[c] = rxOp[c]
      BY <1>0, <3>2
    <3>5. rxOp'[ch] = o
      BY <1>0, <3>2
    <3>6. ASSUME NEW c \in Chans, c # ch, rxOp[c] # NoOp, Over(rxOp[c]) PROVE ost'[rxOp[c]] \in {"complete", "incomplete"}
      BY <1>0, <3>2, <3>6
    <3>7. QED
      BY <2>1, <3>2, <3>4, <3>5, <3>6 DEF RxInv, InSink
  <2>3. CASE SpwSubmitRx(ch)
    <3>1. cpc[ch] = "submit" /\ cpc'[ch] = "submitted" /\ rxOp' = rxOp
      BY <1>0, <2>3 DEF SpwSubmitRx
    <3>2. \A o \in Ops : Over(o) => ost'[o] \in {"complete", "incomplete"}
      BY <1>0, <2>3 DEF SpwSubmitRx
    <3>3. QED
      BY <1>0, <2>1, <3>1, <3>2 DEF RxInv, InSink
  <2>4. CASE SpwTop(ch) \/ SpwBeforeWait(ch) \/ SpwWake(ch) \/ SpwAfterWait(ch)
    <3>1. UNCHANGED <<rxOp, ost>>
      BY <2>4 DEF SpwTop, SpwBeforeWait, SpwWake, SpwAfterWait, opVars
    <3>2. \/ cpc[ch] = "top" /\ cpc'[ch] \in {"setup", "end"}
          \/ cpc[ch] = "submitted" /\ cpc'[ch] \in {"wait", "end"}
          \/ cpc[ch] = "wait" /\ (cpc'[ch] = "end" \/ (cpc'[ch] = "woken" /\ Over(rxOp[ch])))
          \/ cpc[ch] = "woken" /\ cpc'[ch] \in {"sink", "top", "end"}
      BY <1>0, <2>4 DEF SpwTop, SpwBeforeWait, SpwWake, SpwAfterWait, Unless
    <3>3. QED
      BY <2>1, <3>1, <3>2 DEF RxInv, InSink
  <2>5. CASE SpwSink(ch) \/ SpwCopied(ch) \/ SpwMirrorLock(ch) \/ SpwMirror(ch) \/ SpwForward(ch)
    <3>1. UNCHANGED <<rxOp, ost>>
      BY <2>5 DEF SpwSink, SpwCopied, SpwMirrorLock, SpwMirror, SpwForward, opVars
    <3>2. cpc[ch] \in InSink /\ cpc'[ch] \in InSink \cup {"top"}
      BY <1>0, <2>5 DEF SpwSink, SpwCopied, SpwMirrorLock, SpwMirror, SpwForward, InSink
    <3>3. QED
      BY <2>1, <3>1, <3>2 DEF RxInv, InSink
  <2>6. QED
    BY <1>5, <2>2, <2>3, <2>4, <2>5 DEF SpwThread
<1>6. ASSUME NEW t \in TxThreads, Tx(t) PROVE RxInv'
  <2>1. UNCHANGED <<cpc, rxOp>>
    BY <1>6, TxFrame
  <2>2. \A o \in Ops : Over(o) => Over(o)'
    <3>1. CASE TxCreate(t)
      BY <1>0, <3>1, FreshFact DEF TxCreate
    <3>2. CASE TxComplete(t)
      BY <1>0, <3>2 DEF TxComplete
    <3>3. CASE TxError(t) \/ TxThrottle(t) \/ TxDispose(t)
      BY <3>3 DEF TxError, TxThrottle, TxDispose, opVars
    <3>4. QED
      BY <1>6, <3>1, <3>2, <3>3 DEF Tx
  <2>3. QED
    BY <1>1, <2>1, <2>2
<1>7. CASE UNCHANGED vars
  BY <1>1, <1>7 DEF vars, pcs, opVars
<1>8. QED
  BY <1>2, <1>3, <1>4, <1>5, <1>6, <1>7, NextCases

-----------------------------------------------------------------------------
\* No operation gets a second holder.
LEMMA HoldNext == TypeOK /\ StageInv /\ OwnInv /\ HoldInv /\ RxInv /\ FreeInv /\ [Next]_vars => HoldInv'
<1> SUFFICES ASSUME TypeOK, StageInv, OwnInv, HoldInv, RxInv, FreeInv, [Next]_vars PROVE HoldInv'
  OBVIOUS
<1>0. /\ own \in [TxThreads -> Ops \cup {NoOp}]
      /\ rxOp \in [AllChans -> Ops \cup {NoOp}] /\ txOp \in [AllChans -> Ops \cup {NoOp}]
      /\ Chans \subseteq AllChans /\ \A t \in TxThreads : TxChan(t) \in AllChans
  BY ThreadsFact, TxChanFact DEF TypeOK, OpType
<1>1. ASSUME NEW t \in TxThreads, TxCreate(t) PROVE HoldInv'
  <2>1. PICK o \in Ops : Creates(t, o)
    BY <1>1, Created
  <2>2. /\ o # NoOp /\ own[t] = NoOp /\ rxOp' = rxOp
        /\ \A u \in TxThreads : own[u] # o
        /\ \A ch \in Chans : rxOp[ch] # o
        /\ own' = [own EXCEPT ![t] = o] /\ txOp' = [txOp EXCEPT ![TxChan(t)] = o]
    BY <2>1 DEF Creates, Held
  <2>3. own'[t] = o /\ \A u \in TxThreads : u # t => own'[u] = own[u]
    BY <1>0, <2>2
  <2>4. \A u, v \in TxThreads : own'[u] = own'[v] /\ own'[u] # NoOp => u = v
    BY <2>2, <2>3 DEF HoldInv
  <2>5. \A u \in TxThreads : \A ch \in Chans : own'[u] # NoOp => own'[u] # rxOp'[ch]
    BY <2>2, <2>3 DEF HoldInv
  <2>6. ASSUME NEW c \in Chans, txOp'[c] # NoOp
        PROVE  \E u \in TxThreads : TxChan(u) = c /\ own'[u] = txOp'[c]
    <3>1. CASE c = TxChan(t)
      BY <1>0, <2>2, <2>3, <3>1
    <3>2. CASE c # TxChan(t)
      <4>1. txOp'[c] = txOp[c]
        BY <1>0, <2>2, <3>2
      <4>2. PICK u \in TxThreads : TxChan(u) = c /\ own[u] = txOp[c]
        BY <2>6, <4>1 DEF HoldInv
      <4>3. QED
        BY <2>3, <3>2, <4>1, <4>2
    <3>3. QED
      BY <3>1, <3>2
  <2>7. \A c, d \in Chans : rxOp'[c] = rxOp'[d] /\ rxOp'[c] # NoOp => c = d
    BY <2>2 DEF HoldInv
  <2>8. QED
    BY <2>4, <2>5, <2>6, <2>7 DEF HoldInv, TxChan, Other
<1>2. ASSUME NEW t \in TxThreads, TxDispose(t) PROVE HoldInv'
  <2>1. /\ own' = [own EXCEPT ![t] = NoOp] /\ rxOp' = rxOp /\ own[t] # NoOp
        /\ txOp' = [txOp EXCEPT ![TxChan(t)] = IF @ = own[t] THEN NoOp ELSE @]
    BY <1>2, GivenBack DEF TxClear
  <2>2. own'[t] = NoOp /\ \A u \in TxThreads : u # t => own'[u] = own[u]
    BY <1>0, <2>1
  <2>3. \A u, v \in TxThreads : own'[u] = own'[v] /\ own'[u] # NoOp => u = v
    BY <2>2 DEF HoldInv
  <2>4. \A u \in TxThreads : \A ch \in Chans : own'[u] # NoOp => own'[u] # rxOp'[ch]
    BY <2>1, <2>2 DEF HoldInv
  <2>5. ASSUME NEW c \in Chans, txOp'[c] # NoOp
        PROVE  \E u \in TxThreads : TxChan(u) = c /\ own'[u] = txOp'[c]
    <3>1. txOp'[c] = txOp[c] /\ (c = TxChan(t) => txOp[c] # own[t])
      BY <1>0, <2>1, <2>5
    <3>2. PICK u \in TxThreads : TxChan(u) = c /\ own[u] = txOp[c]
      BY <2>5, <3>1 DEF HoldInv
    <3>3. u # t
      BY <3>1, <3>2
    <3>4. QED
      BY <2>2, <3>1, <3>2, <3>3
  <2>6. \A c, d \in Chans : rxOp'[c] = rxOp'[d] /\ rxOp'[c] # NoOp => c = d
    BY <2>1 DEF HoldInv
  <2>7. QED
    BY <2>3, <2>4, <2>5, <2>6 DEF HoldInv, TxChan, Other
<1>3. ASSUME NEW ch \in Chans, SpwSetupRx(ch) PROVE HoldInv'
  <2>1. PICK o \in Ops : Replaces(ch, o)
    BY <1>3, Replaced
  <2>2. /\ o # NoOp /\ UNCHANGED <<own, txOp>>
        /\ \A u \in TxThreads : own[u] # o
        /\ \A c \in Chans : rxOp[c] # o
        /\ rxOp' = [rxOp EXCEPT ![ch] = o]
    BY <2>1 DEF Replaces, Held
  <2>3. rxOp'[ch] = o /\ \A c \in Chans : c # ch => rxOp'[c] = rxOp[c]
    BY <1>0, <2>2
  <2>4. \A u \in TxThreads : \A c \in Chans : own'[u] # NoOp => own'[u] # rxOp'[c]
    BY <2>2, <2>3 DEF HoldInv
  <2>5. \A c, d \in Chans : rxOp'[c] = rxOp'[d] /\ rxOp'[c] # NoOp => c = d
    BY <2>2, <2>3 DEF HoldInv
  <2>6. QED
    BY <2>2, <2>4, <2>5 DEF HoldInv, TxChan, Other
<1>4. CASE CancelRx \/ DisposeOps \/ OpsQuiet
  <2>1. UNCHANGED <<own, rxOp, txOp>>
    BY <1>4 DEF CancelRx, DisposeOps, OpsQuiet
  <2>2. QED
    BY <2>1 DEF HoldInv, TxChan, Other
<1>5. QED
  BY <1>1, <1>2, <1>3, <1>4, OpCases

\* An operation in use is not given back, and none is given back twice.
LEMMA FreeNext ==
  TypeOK /\ StageInv /\ OwnInv /\ HoldInv /\ RxInv /\ FreeInv /\ [Next]_vars => FreeInv'
<1> SUFFICES ASSUME TypeOK, StageInv, OwnInv, HoldInv, RxInv, FreeInv, [Next]_vars,
                    NEW p \in Ops
             PROVE  FreeOK(p)'
  BY DEF FreeInv
<1>0. /\ own \in [TxThreads -> Ops \cup {NoOp}]
      /\ rxOp \in [AllChans -> Ops \cup {NoOp}] /\ txOp \in [AllChans -> Ops \cup {NoOp}]
      /\ Chans \subseteq AllChans
      /\ ost \in [Ops -> {"none", "new", "submitted", "complete", "incomplete", "cancelled"}]
      /\ disposals \in [Ops -> Nat]
      /\ FreeOK(p) /\ p # NoOp
  BY ThreadsFact, OpsFact DEF TypeOK, OpType, CountType, FreeInv
<1>1. ASSUME NEW t \in TxThreads, TxCreate(t) PROVE FreeOK(p)'
  <2>1. PICK o \in Ops : Creates(t, o)
    BY <1>1, Created
  <2>2. /\ o # NoOp /\ own[t] = NoOp /\ UNCHANGED <<rxOp, disposals, mpc>>
        /\ own' = [own EXCEPT ![t] = o] /\ ost' = [ost EXCEPT ![o] = "submitted"]
        /\ disposals[o] = 0
    BY <2>1 DEF Creates
  <2>3. own'[t] = o /\ \A u \in TxThreads : u # t => own'[u] = own[u]
    BY <1>0, <2>2
  <2>4. p # o => (Held(p)' <=> Held(p)) /\ ost'[p] = ost[p]
    BY <1>0, <2>2, <2>3 DEF Held
  <2>5. CASE p = o
    <3>1. ost'[p] = "submitted"
      BY <1>0, <2>2, <2>5
    <3>2. disposals'[p] = 0
      BY <2>2, <2>5
    <3>3. disposals'[p] <= 1
      BY <3>2
    <3>4. QED
      BY <3>1, <3>2, <3>3 DEF FreeOK
  <2>6. CASE p # o
    BY <1>0, <2>2, <2>4, <2>6 DEF FreeOK
  <2>7. QED
    BY <2>5, <2>6
<1>2. ASSUME NEW t \in TxThreads, TxDispose(t) PROVE FreeOK(p)'
  <2>1. /\ own[t] \in Ops /\ own[t] # NoOp /\ mpc \notin Gone /\ UNCHANGED <<mpc, rxOp, ost>>
        /\ own' = [own EXCEPT ![t] = NoOp]
        /\ disposals' = [disposals EXCEPT ![own[t]] = @ + 1]
    BY <1>2, GivenBack
  <2>2. own'[t] = NoOp /\ \A u \in TxThreads : u # t => own'[u] = own[u]
    BY <1>0, <2>1
  <2>3. Held(p)' <=> Held(p) /\ p # own[t]
    BY <1>0, <2>1, <2>2 DEF Held, HoldInv
  <2>4. CASE p = own[t]
    <3>1. Held(p) /\ disposals[p] = 0 /\ ost[p] # "none"
      BY <1>0, <2>1, <2>4 DEF Held, FreeOK
    <3>2. ost[p] # "cancelled"
      BY <1>0, <2>1, <2>4 DEF FreeOK, HoldInv
    <3>3. disposals'[p] = 1
      BY <1>0, <2>1, <2>4, <3>1
    <3>4. disposals'[p] <= 1
      BY <3>3
    <3>5. QED
      BY <2>1, <2>3, <2>4, <3>1, <3>2, <3>4 DEF FreeOK
  <2>5. CASE p # own[t]
    <3>1. disposals'[p] = disposals[p]
      BY <1>0, <2>1, <2>5
    <3>2. QED
      BY <1>0, <2>1, <2>3, <2>5, <3>1 DEF FreeOK
  <2>6. QED
    BY <2>4, <2>5
<1>3. ASSUME NEW ch \in Chans, SpwSetupRx(ch) PROVE FreeOK(p)'
  <2>1. PICK o \in Ops : Replaces(ch, o)
    BY <1>3, Replaced
  <2>2. /\ o # NoOp /\ UNCHANGED <<own, mpc>> /\ mpc \notin Gone
        /\ rxOp' = [rxOp EXCEPT ![ch] = o] /\ ost' = [ost EXCEPT ![o] = "new"]
        /\ disposals' = Disposed(rxOp[ch]) /\ ~Held(o) /\ disposals[o] = 0
        /\ rxOp[ch] # NoOp => rxOp[ch] \in Ops /\ ost[rxOp[ch]] \in {"complete", "incomplete"}
    BY <2>1 DEF Replaces
  <2>3. rxOp'[ch] = o /\ \A c \in Chans : c # ch => rxOp'[c] = rxOp[c]
    BY <1>0, <2>2
  <2>4. rxOp[ch] # o
    BY <2>2 DEF Held
  <2>5. CASE p = o
    <3>1. ost'[p] = "new" /\ disposals'[p] = 0
      BY <1>0, <2>2, <2>4, <2>5 DEF Disposed
    <3>2. disposals'[p] <= 1
      BY <3>1
    <3>3. QED
      BY <3>1, <3>2 DEF FreeOK
  <2>6. CASE p = rxOp[ch]
    <3>1. Held(p) /\ disposals[p] = 0
      BY <1>0, <2>2, <2>6 DEF Held, FreeOK
    <3>2. ost'[p] \in {"complete", "incomplete"}
      BY <1>0, <2>2, <2>4, <2>6
    <3>3. disposals'[p] = 1
      BY <1>0, <2>2, <2>6, <3>1 DEF Disposed
    <3>4. ~Held(p)'
      BY <1>0, <2>2, <2>3, <2>4, <2>6 DEF Held, HoldInv
    <3>5. disposals'[p] <= 1
      BY <3>3
    <3>6. QED
      BY <3>2, <3>4, <3>5 DEF FreeOK
  <2>7. CASE p # o /\ p # rxOp[ch]
    <3>1. disposals'[p] = disposals[p] /\ ost'[p] = ost[p]
      BY <1>0, <2>2, <2>7 DEF Disposed
    <3>2. Held(p)' <=> Held(p)
      BY <2>2, <2>3, <2>7 DEF Held
    <3>3. (\E c \in Chans : rxOp[c] = p) => (\E c \in Chans : rxOp'[c] = p)
      BY <2>3, <2>7
    <3>4. QED
      BY <1>0, <2>2, <3>1, <3>2, <3>3 DEF FreeOK
  <2>8. QED
    BY <2>5, <2>6, <2>7
<1>4. CASE CancelRx
  <2>1. /\ UNCHANGED <<own, rxOp, disposals>> /\ mpc \notin Gone /\ mpc' \notin Gone
    BY <1>4 DEF CancelRx, Gone
  <2>2. ost'[p] = IF (\E ch \in Chans : rxOp[ch] = p) /\ ost[p] \in {"new", "submitted"}
                  THEN "cancelled" ELSE ost[p]
    BY <1>4 DEF CancelRx
  <2>3. Held(p)' <=> Held(p)
    BY <2>1 DEF Held
  <2>4. (\E ch \in Chans : rxOp[ch] = p) => disposals[p] = 0
    BY <1>0, <2>1 DEF FreeOK, Held
  <2>5. QED
    BY <1>0, <2>1, <2>2, <2>3, <2>4 DEF FreeOK
<1>5. CASE DisposeOps
  <2>1. /\ UNCHANGED <<own, rxOp, txOp, ost>> /\ mpc \notin Gone /\ mpc' \in Gone
        /\ disposals'[p] = IF p \in LeftOver THEN disposals[p] + 1 ELSE disposals[p]
    BY <1>5 DEF DisposeOps, Gone
  <2>2. Held(p)' <=> Held(p)
    BY <2>1 DEF Held
  <2>3. ASSUME p \in LeftOver PROVE Held(p) /\ ost[p] \notin {"none", "cancelled"} /\ disposals'[p] = 1
    <3>1. PICK ch \in Chans : p \in {rxOp[ch], txOp[ch]}
      BY <2>3 DEF LeftOver
    <3>2. p = rxOp[ch] => Held(p)
      BY DEF Held
    <3>3. p = txOp[ch] => Held(p)
      BY <1>0 DEF HoldInv, Held
    <3>4. Held(p)
      BY <3>1, <3>2, <3>3
    <3>5. disposals[p] = 0 /\ ost[p] # "none"
      BY <1>0, <2>1, <3>4 DEF FreeOK
    <3>6. QED
      BY <2>1, <2>3, <3>4, <3>5 DEF LeftOver
  <2>4. CASE p \in LeftOver
    <3>1. disposals'[p] <= 1
      BY <2>3, <2>4
    <3>2. QED
      BY <2>1, <2>3, <2>4, <3>1 DEF FreeOK
  <2>5. CASE p \notin LeftOver
    BY <1>0, <2>1, <2>2, <2>5 DEF FreeOK
  <2>6. QED
    BY <2>4, <2>5
<1>6. CASE OpsQuiet
  <2>1. Held(p)' <=> Held(p)
    BY <1>6 DEF OpsQuiet, Held
  <2>2. QED
    BY <1>0, <1>6, <2>1 DEF OpsQuiet, FreeOK
<1>7. QED
  BY <1>1, <1>2, <1>3, <1>4, <1>5, <1>6, OpCases

\* What is not given back can still be found.
LEMMA LeakNext ==
  TypeOK /\ StageInv /\ OwnInv /\ HoldInv /\ RxInv /\ FreeInv /\ LeakInv /\ [Next]_vars => LeakInv'
<1> SUFFICES ASSUME TypeOK, StageInv, OwnInv, HoldInv, RxInv, FreeInv, LeakInv, [Next]_vars
             PROVE  LeakInv'
  OBVIOUS
<1> DEFINE Kept(o) == ost[o] # "none" /\ disposals[o] = 0 => Held(o)
           LastOne == txOp["ch0"] = NoOp => \E t \in Senders : own[t] = NoOp
<1>0. /\ own \in [TxThreads -> Ops \cup {NoOp}]
      /\ rxOp \in [AllChans -> Ops \cup {NoOp}] /\ txOp \in [AllChans -> Ops \cup {NoOp}]
      /\ Chans \subseteq AllChans /\ "ch0" \in AllChans /\ Senders \subseteq TxThreads
      /\ ost \in [Ops -> {"none", "new", "submitted", "complete", "incomplete", "cancelled"}]
      /\ disposals \in [Ops -> Nat]
      /\ LastOne /\ \A o \in Ops : Kept(o) /\ o # NoOp
  BY ThreadsFact, OpsFact DEF TypeOK, OpType, CountType, LeakInv
<1>1. ASSUME NEW t \in TxThreads, TxCreate(t) PROVE LeakInv'
  <2>1. PICK o \in Ops : Creates(t, o)
    BY <1>1, Created
  <2>2. /\ o # NoOp /\ own[t] = NoOp /\ UNCHANGED <<rxOp, disposals>> /\ mpc' \notin Gone
        /\ own' = [own EXCEPT ![t] = o] /\ ost' = [ost EXCEPT ![o] = "submitted"]
        /\ txOp' = [txOp EXCEPT ![TxChan(t)] = o]
    BY <2>1 DEF Creates
  <2>3. own'[t] = o /\ \A u \in TxThreads : u # t => own'[u] = own[u]
    BY <1>0, <2>2
  <2>4. ASSUME NEW p \in Ops PROVE Kept(p)'
    <3>1. CASE p = o
      BY <2>3, <3>1 DEF Held
    <3>2. CASE p # o
      <4>1. ost'[p] = ost[p] /\ (Held(p) => Held(p)')
        BY <1>0, <2>2, <2>3, <3>2 DEF Held
      <4>2. QED
        BY <1>0, <2>2, <4>1
    <3>3. QED
      BY <3>1, <3>2
  <2>5. LastOne'
    <3>1. CASE t \in Senders
      <4>1. txOp'["ch0"] = o
        BY <1>0, <2>2, <3>1, TxChanFact
      <4>2. QED
        BY <2>2, <4>1
    <3>2. CASE t \notin Senders
      <4>1. txOp'["ch0"] = NoOp => txOp["ch0"] = NoOp
        BY <1>0, <2>2
      <4>2. \A u \in Senders : own'[u] = own[u]
        BY <1>0, <2>3, <3>2
      <4>3. QED
        BY <1>0, <4>1, <4>2
    <3>3. QED
      BY <3>1, <3>2
  <2>6. QED
    BY <2>2, <2>4, <2>5 DEF LeakInv
<1>2. ASSUME NEW t \in TxThreads, TxDispose(t) PROVE LeakInv'
  <2>1. /\ own[t] \in Ops /\ own[t] # NoOp /\ mpc' \notin Gone /\ mpc \notin Gone /\ UNCHANGED <<rxOp, ost>>
        /\ own' = [own EXCEPT ![t] = NoOp]
        /\ disposals' = [disposals EXCEPT ![own[t]] = @ + 1]
    BY <1>2, GivenBack
  <2>2. own'[t] = NoOp /\ \A u \in TxThreads : u # t => own'[u] = own[u]
    BY <1>0, <2>1
  <2>3. ASSUME NEW p \in Ops PROVE Kept(p)'
    <3>1. CASE p = own[t]
      <4>1. disposals'[p] = disposals[p] + 1 /\ disposals[p] \in Nat
        BY <1>0, <2>1, <3>1
      <4>2. disposals'[p] # 0
        BY <4>1
      <4>3. QED
        BY <4>2
    <3>2. CASE p # own[t]
      <4>1. disposals'[p] = disposals[p]
        BY <1>0, <2>1, <3>2
      <4>2. Held(p) => Held(p)'
        BY <2>1, <2>2, <3>2 DEF Held
      <4>3. QED
        BY <1>0, <2>1, <4>1, <4>2
    <3>3. QED
      BY <3>1, <3>2
  <2>4. LastOne'
    <3>1. CASE t \in Senders
      BY <2>2, <3>1
    <3>2. CASE t \notin Senders
      <4>1. Monitor
        BY <1>2, <3>2 DEF TxDispose, OwnInv, SendInv
      <4>2. "data" \in Senders /\ "data" \in TxThreads /\ "data" \notin Chans
        BY SendersAssumption, ThreadsFact
      <4>3. own["data"] = NoOp
        BY <4>1, <4>2 DEF OwnInv, SendInv
      <4>4. own'["data"] = NoOp
        BY <2>2, <3>2, <4>2, <4>3
      <4>5. QED
        BY <4>2, <4>4
    <3>3. QED
      BY <3>1, <3>2
  <2>5. QED
    BY <2>1, <2>3, <2>4 DEF LeakInv
<1>3. ASSUME NEW ch \in Chans, SpwSetupRx(ch) PROVE LeakInv'
  <2>1. PICK o \in Ops : Replaces(ch, o)
    BY <1>3, Replaced
  <2>2. /\ o # NoOp /\ UNCHANGED <<own, txOp>> /\ mpc' \notin Gone
        /\ rxOp' = [rxOp EXCEPT ![ch] = o] /\ ost' = [ost EXCEPT ![o] = "new"]
        /\ disposals' = Disposed(rxOp[ch])
        /\ rxOp[ch] # NoOp => rxOp[ch] \in Ops
    BY <2>1 DEF Replaces
  <2>3. rxOp'[ch] = o /\ \A c \in Chans : c # ch => rxOp'[c] = rxOp[c]
    BY <1>0, <2>2
  <2>4. ASSUME NEW p \in Ops PROVE Kept(p)'
    <3>1. CASE p = o
      BY <2>3, <3>1 DEF Held
    <3>2. CASE p = rxOp[ch]
      <4>1. disposals'[p] = disposals[p] + 1 /\ disposals[p] \in Nat
        BY <1>0, <2>2, <3>2 DEF Disposed
      <4>2. disposals'[p] # 0
        BY <4>1
      <4>3. QED
        BY <4>2
    <3>3. CASE p # o /\ p # rxOp[ch]
      <4>1. disposals'[p] = disposals[p] /\ ost'[p] = ost[p]
        BY <1>0, <2>2, <3>3 DEF Disposed
      <4>2. Held(p) => Held(p)'
        BY <2>2, <2>3, <3>3 DEF Held
      <4>3. QED
        BY <1>0, <4>1, <4>2
    <3>4. QED
      BY <3>1, <3>2, <3>3
  <2>5. QED
    BY <1>0, <2>2, <2>4 DEF LeakInv
<1>4. CASE CancelRx
  <2>1. UNCHANGED <<own, rxOp, txOp, disposals>> /\ mpc' \notin Gone
    BY <1>4 DEF CancelRx, Gone
  <2>2. ASSUME NEW p \in Ops PROVE Kept(p)'
    <3>1. ost'[p] # "none" => ost[p] # "none"
      BY <1>4 DEF CancelRx
    <3>2. Held(p)' <=> Held(p)
      BY <2>1 DEF Held
    <3>3. QED
      BY <1>0, <2>1, <3>1, <3>2
  <2>3. QED
    BY <1>0, <2>1, <2>2 DEF LeakInv
<1>5. CASE DisposeOps
  <2>1. /\ UNCHANGED <<own, rxOp, txOp, ost>>
        /\ disposals' = [o \in Ops |-> IF o \in LeftOver THEN disposals[o] + 1 ELSE disposals[o]]
    BY <1>5 DEF DisposeOps
  <2>2. ASSUME NEW p \in Ops PROVE Kept(p)' /\ (p \in LeftOver => disposals'[p] # 0)
    <3>1. disposals[p] \in Nat /\ disposals'[p] \in Nat
          /\ (disposals'[p] = 0 => disposals[p] = 0 /\ p \notin LeftOver)
      BY <1>0, <2>1
    <3>2. Held(p)' <=> Held(p)
      BY <2>1 DEF Held
    <3>3. QED
      BY <1>0, <2>1, <3>1, <3>2
  <2>3. LeftOver' = LeftOver
    BY <2>1 DEF LeftOver
  <2>4. Leaked' \cap LeftOver' = {}
    BY <2>2, <2>3 DEF Leaked, LeftOver
  <2>5. QED
    BY <1>0, <2>1, <2>2, <2>4 DEF LeakInv
<1>6. CASE OpsQuiet
  <2>1. UNCHANGED <<own, rxOp, txOp, disposals>>
    BY <1>6 DEF OpsQuiet
  <2>2. ASSUME NEW p \in Ops PROVE Kept(p)'
    <3>1. Held(p)' <=> Held(p)
      BY <2>1 DEF Held
    <3>2. QED
      BY <1>0, <1>6, <3>1 DEF OpsQuiet
  <2>3. Leaked' = Leaked /\ LeftOver' = LeftOver
    BY <1>6 DEF OpsQuiet, Leaked, LeftOver
  <2>4. QED
    BY <1>0, <1>6, <2>1, <2>2, <2>3 DEF LeakInv, OpsQuiet
<1>7. QED
  BY <1>1, <1>2, <1>3, <1>4, <1>5, <1>6, OpCases

-----------------------------------------------------------------------------
\* The invariant holds when main() begins.
LEMMA LifeInit == Init => LifeInv
<1> SUFFICES ASSUME Init PROVE LifeInv
  OBVIOUS
<1>1. TypeOK
  <2>1. ThreadType
    BY DEF Init, ThreadType
  <2>2. OpType
    BY DEF Init, OpType
  <2>3. CountType
    BY LifeBounds DEF Init, CountType
  <2>4. sigs \in 0 .. MaxSig
    BY LifeBounds DEF Init
  <2>5. QED
    BY <2>1, <2>2, <2>3, <2>4 DEF Init, TypeOK
<1>2. StageInv
  BY ConfigAssumption DEF Init, StageInv, Started, Stopping, Released
<1>3. LateInv
  BY DEF Init, LateInv
<1>4. OwnInv
  BY ThreadsFact DEF Init, OwnInv, SendInv
<1>5. HoldInv
  BY ThreadsFact DEF Init, HoldInv
<1>6. RxInv
  BY ThreadsFact DEF Init, RxInv, InSink
<1>7. \A o \in Ops : ~Held(o) /\ ost[o] = "none" /\ disposals[o] = 0 /\ disposals[o] <= 1
  BY ThreadsFact, OpsFact DEF Init, Held
<1>8. FreeInv
  BY <1>7 DEF FreeInv, FreeOK
<1>9. LeakInv
  <2>1. \E t \in Senders : own[t] = NoOp
    BY SendersAssumption, ThreadsFact DEF Init
  <2>2. mpc \notin Gone
    BY DEF Init, Gone
  <2>3. QED
    BY <1>7, <2>1, <2>2 DEF LeakInv
<1>10. QED
  BY <1>1, <1>2, <1>3, <1>4, <1>5, <1>6, <1>8, <1>9 DEF LifeInv

\* No step of any thread breaks it.
LEMMA LifeNext == LifeInv /\ [Next]_vars => LifeInv'
  BY TypeNext, StageNext, LateNext, OwnNext, HoldNext, RxNext, FreeNext, LeakNext DEF LifeInv

\* The invariant of the whole process.
LEMMA Life == Spec => []LifeInv
<1>1. Init => LifeInv
  BY LifeInit
<1>2. LifeInv /\ [Next]_vars => LifeInv'
  BY LifeNext
<1>3. QED
  BY <1>1, <1>2, PTL DEF Spec

\* poll_spw's sink never touches what net_release or spw_release has freed.
THEOREM SinkSafe == Spec => []SinkStateAlive
<1>1. LifeInv => SinkStateAlive
  BY StageSafe DEF LifeInv
<1>2. QED
  BY <1>1, Life, PTL

\* No thread waits on, reads or completes an operation that
\* spw_setup_rx_op, spw_send_packet_chan or spw_dispose_ops has disposed.
THEOREM NoUseAfterDispose == Spec => []OpsAliveInUse
<1>1. ASSUME LifeInv PROVE OpsAliveInUse
  <2>1. TypeOK /\ StageInv /\ OwnInv /\ RxInv /\ FreeInv
    BY <1>1 DEF LifeInv
  <2>2. ASSUME NEW ch \in Chans, cpc[ch] \in InSink \cup {"submit", "submitted", "wait", "woken"}
        PROVE  disposals[rxOwn[ch]] = 0
    <3>1. rxOwn[ch] = rxOp[ch] /\ rxOp[ch] \in Ops
      BY <2>1, <2>2, ThreadsFact DEF RxInv, OwnInv, TypeOK, OpType
    <3>2. mpc \notin Gone
      BY <2>1, <2>2, NotGone DEF InSink
    <3>3. QED
      BY <2>1, <3>1, <3>2 DEF FreeInv, FreeOK, Held
  <2>3. ASSUME NEW t \in TxThreads, tpc[t] \in {"wait", "throttle", "clear"}
        PROVE  disposals[own[t]] = 0
    <3>1. own[t] \in Ops /\ mpc \notin Gone
      BY <2>1, <2>3, OwnOp, NotGone
    <3>2. QED
      BY <2>1, <3>1 DEF FreeInv, FreeOK, Held
  <2>4. QED
    BY <2>2, <2>3 DEF OpsAliveInUse
<1>2. QED
  BY <1>1, Life, PTL

\* Neither a thread, spw_dispose_ops nor the API gives an operation back twice.
THEOREM NoDoubleDispose == Spec => []OpsFreedOnce
<1>1. LifeInv => OpsFreedOnce
  BY DEF LifeInv, FreeInv, FreeOK, OpsFreedOnce
<1>2. QED
  BY <1>1, Life, PTL

\* After spw_request_shutdown a thread hands its sink at most one more packet.
THEOREM OneLatePacket == Spec => []AtMostOneLateSink
<1>1. LifeInv => AtMostOneLateSink
  BY DEF LifeInv, LateInv, AtMostOneLateSink
<1>2. QED
  BY <1>1, Life, PTL

-----------------------------------------------------------------------------
\* At the end some sender's operation, if it has one, is the one that
\* pus_tx_transfer_op names.
LEMMA OneFound ==
  ASSUME LifeInv, mpc = "done"
  PROVE  \E t \in Senders : own[t] = NoOp \/ own[t] = txOp["ch0"]
<1>1. CASE txOp["ch0"] = NoOp
  BY <1>1 DEF LifeInv, LeakInv
<1>2. CASE txOp["ch0"] # NoOp
  <2>1. PICK t \in TxThreads : own[t] = txOp["ch0"]
    BY <1>2, ThreadsFact DEF LifeInv, HoldInv
  <2>2. tpc[t] = "idle"
    BY NotGone DEF LifeInv, Gone
  <2>3. t \in Senders
    BY <1>2, <2>1, <2>2 DEF LifeInv, OwnInv, SendInv
  <2>4. QED
    BY <2>1, <2>3
<1>3. QED
  BY <1>1, <1>2

\* What is lost belonged to a cancelled thread that was overtaken.
LEMMA LostBySender ==
  ASSUME LifeInv, mpc = "done", NEW o \in Leaked
  PROVE  o # NoOp /\ o # txOp["ch0"] /\ \E t \in Senders : own[t] = o
<1>1. o \in Ops /\ ost[o] \notin {"none", "cancelled"} /\ disposals[o] = 0 /\ o # NoOp
  BY OpsFact DEF Leaked
<1>2. Held(o)
  BY <1>1 DEF LifeInv, LeakInv
<1>3. o \notin LeftOver
  BY DEF LifeInv, LeakInv, Gone
<1>4. \A ch \in Chans : o # rxOp[ch] /\ o # txOp[ch]
  BY <1>1, <1>3 DEF LeftOver
<1>5. PICK t \in TxThreads : own[t] = o
  BY <1>2, <1>4 DEF Held
<1>6. tpc[t] = "idle"
  BY NotGone DEF LifeInv, Gone
<1>7. t \in Senders
  BY <1>1, <1>5, <1>6 DEF LifeInv, OwnInv, SendInv
<1>8. QED
  BY <1>1, <1>4, <1>5, <1>7, ThreadsFact

\* When main() returns, fewer operations are lost than there are network
\* threads that transmit; none in the modes that have only one.
THEOREM LeakBound == Spec => []NoOpLeaked
<1>1. ASSUME LifeInv, mpc = "done" PROVE Cardinality(Leaked) < Cardinality(Senders)
  <2>1. PICK f \in Senders : own[f] = NoOp \/ own[f] = txOp["ch0"]
    BY <1>1, OneFound
  <2>2. ASSUME NEW o \in Leaked PROVE \E t \in Senders \ {f} : own[t] = o
    BY <1>1, <2>1, LostBySender
  <2>3. CASE Senders = {f}
    <3>1. Leaked = {}
      BY <2>2, <2>3
    <3>2. Cardinality(Leaked) = 0 /\ Cardinality(Senders) = 1
      BY <2>3, <3>1, FS_EmptySet, FS_Singleton
    <3>3. QED
      BY <3>2
  <2>4. CASE Senders # {f}
    <3>1. PICK g : g # f /\ Senders = {f, g}
      BY <2>4, SendersAssumption
    <3>2. Leaked \subseteq {own[g]}
      BY <2>2, <3>1
    <3>3. Cardinality({own[g]}) = 1 /\ IsFiniteSet({own[g]})
      BY FS_Singleton
    <3>4. Cardinality(Leaked) <= 1 /\ Cardinality(Leaked) \in Nat
      BY <3>2, <3>3, FS_Subset, FS_CardinalityType
    <3>5. IsFiniteSet({f}) /\ Cardinality({f}) = 1 /\ g \notin {f} /\ Senders = {f} \cup {g}
      BY <3>1, FS_Singleton
    <3>6. Cardinality(Senders) = 2
      BY <3>5, FS_AddElement
    <3>7. QED
      BY <3>4, <3>6
  <2>5. QED
    BY <2>3, <2>4
<1>2. LifeInv => NoOpLeaked
  BY <1>1 DEF NoOpLeaked
<1>3. QED
  BY <1>2, Life, PTL

-----------------------------------------------------------------------------
\* spw_link_ready: with a cfg.spw that is null until spw_setup_device assigns
\* it, a network thread gets past the test only when the link is open.
THEOREM LinkTruth == InitialSpw = {"null"} => (Spec => []LinkReadyTruthful)
<1> SUFFICES ASSUME InitialSpw = {"null"} PROVE Spec => []LinkReadyTruthful
  OBVIOUS
<1>1. Init => LinkReadyTruthful
  BY DEF Init, LinkReadyTruthful
<1>2. ASSUME LifeInv, LinkReadyTruthful, [Next]_vars PROVE LinkReadyTruthful'
  <2>1. TypeOK /\ StageInv
    BY <1>2 DEF LifeInv
  <2>2. linkOpen => linkOpen'
    BY <1>2, NextCases DEF Main, Signal, NetStart, SetupSignals, SetupDevice, OpenChannels, CreateAddress,
         StartSpwThreads, RequestShutdown, CancelNet, JoinNet, CancelRx, JoinSpw, NetRelease, DisposeOps,
         SpwRelease, NetPacket, NetThread, NetMirrorLock, NetMirror, NetTransmit, NetSent, NetCancelled,
         SpwArrival, SpwThread, SpwTop, SpwSetupRx, SpwSubmitRx, SpwBeforeWait, SpwWake, SpwAfterWait,
         SpwSink, SpwCopied, SpwMirrorLock, SpwMirror, SpwForward, Tx, TxCreate, TxComplete, TxError,
         TxThrottle, TxDispose, cfgVars, vars
  <2>3. ASSUME NEW t \in Senders, NetPacket(t) \/ NetThread(t) PROVE LinkReadyTruthful'
    <3>1. \A u \in Senders : u # t => spc'[u] = spc[u]
      BY <2>1, <2>3, NetFrame
    <3>2. CASE NetPacket(t)
      <4>1. spc[t] = "poll" /\ TRUE \in LinkReady
        BY <3>2 DEF NetPacket
      <4>2. spw # "freed"
        BY <2>1, <4>1 DEF StageInv, Released
      <4>3. spw \in {"null", "set"}
        BY <2>1, <4>2 DEF TypeOK
      <4>4. linkOpen
        BY <4>1, <4>3 DEF LinkReady
      <4>5. QED
        BY <2>2, <4>4 DEF LinkReadyTruthful
    <3>3. CASE NetThread(t)
      <4>1. spc'[t] \notin {"off", "poll", "dead"} => spc[t] \notin {"off", "poll", "dead"}
        BY <2>1, <3>3 DEF NetThread, NetMirrorLock, NetMirror, NetTransmit, NetSent, NetCancelled,
             TypeOK, ThreadType
      <4>2. QED
        BY <1>2, <2>2, <3>1, <4>1 DEF LinkReadyTruthful
    <3>4. QED
      BY <2>3, <3>2, <3>3
  <2>4. CASE Main \/ Signal
    <3>1. \A t \in Senders : spc'[t] \notin {"off", "poll", "dead"} => spc'[t] = spc[t]
      BY <2>4 DEF Main, Signal, NetStart, SetupSignals, SetupDevice, OpenChannels, CreateAddress,
         StartSpwThreads, RequestShutdown, CancelNet, JoinNet, CancelRx, JoinSpw, NetRelease, DisposeOps,
         SpwRelease, pcs
    <3>2. QED
      BY <1>2, <2>2, <3>1 DEF LinkReadyTruthful
  <2>5. ASSUME UNCHANGED spc PROVE LinkReadyTruthful'
    BY <1>2, <2>2, <2>5 DEF LinkReadyTruthful
  <2>6. QED
    BY <1>2, <2>1, <2>3, <2>4, <2>5, NextCases, SpwFrame, ArrivalFrame, TxFrame DEF vars, pcs
<1>3. QED
  BY <1>1, <1>2, Life, PTL DEF Spec
=============================================================================
