# A TLA+ development of spw_bridge

spw_bridge connects a STAR-Dundee SpaceWire device to TCP or UDP peers. Every
packet that arrives on the SpaceWire (SpW) link goes to all network clients;
every packet a client sends is transmitted on the link. Options add a GRESB
port pair, a sniffer port that mirrors the traffic, a pseudo-RMAP port, and a
monitor mode that joins two SpW channels back to back and copies both
directions to the network. This directory holds the models of that program,
the TLC configurations that check them and the proofs TLAPS checks.

All source references are to `src/`; "the manual" is `um/usermanual.tex`.

## 1. Inventory

| Component | Source | State it keeps | Operations | Model |
|---|---|---|---|---|
| Stream services | `net.c` | `struct net_service`: `conn_set`, `nfds`, `lock`, socket, threads; the kernel's descriptor table | `accept_connections`, `poll_socket`, `conn_drop*`, `conn_del`, `net_forward_to_clients`, `sniff_push`, `gresb_push_rx_clients`, `rmap_reply_to_clients`, `gresb_rx_discard` | `NetService` |
| Stream framing | `net.c` | position in the stream, header peeked at, deadline | `recv_exact`, `recv_pus_packet`, `recv_fee_packet`, `recv_gresb_packet`, `recv_raw_packet`, the reader of `rmap_net_to_spw` | `Framing` |
| UDP clients | `net.c` | `clients`, `nclients`, `clients_cap` | `recv_dgram_packet`, `dgram_add_client`, `dgram_send_all` | `Dgram` |
| PUS sequence check | `net.c` | table of expected counters | `check_pus_sequence` | `PusSeq` |
| Process life cycle, SpW threads | `spw_bridge.c`, `net.c`, `spw.c` | `cfg->spw`, `cfg->net`, `shutdown`, transfer operations, threads | `main`, `setup_signals`, `spw_setup_device`, `poll_spw`, `spw_setup_rx_op`, `spw_send_packet_chan`, `net_stop`, `spw_stop_poll`, the releases | `Lifecycle` |
| Options and configuration | `spw_bridge.c`, `net.c`, `spw.c` | `struct bridge_cfg`, services, threads, mutexes | `parse_options`, `opt_*`, `net_start`, `net_stop`, `net_release`, channel checks of `spw_setup_device` | `Options` |
| RMAP packets | `rmap.c`, `rmap.h` | `struct rmap_pkt` | setters, `rmap_build_hdr`, `rmap_pkt_from_buffer`, `rmap_parse_pkt` | `Rmap` |
| PUS packet path | `net.c`, `spw_bridge.c`, `spw.c`, `gresb.c` | options | `net_pkt_sink`, `net_to_spw`, `pus_debug_print`, `pus_pkt_crc_valid`, GRESB envelope | `PusPath` |
| GRESB packets | `gresb.c` | none | size field, ports, envelope | size field in `Framing`, ports in `Options`, envelope in `PusPath` |
| Keyboard monitor | `kbd.c` | terminal settings, debug flags | `kbd_start`, `kbd_monitor`, `kbd_stop` | `Kbd`; what the toggle does to the sequence check in `PusSeq` |
| CCSDS and PUS headers | `ecss/ccsds_pkt.c`, `ecss/ecss_pkt.c` | a packet buffer | getters, setters, size functions | `SpacePkt` |
| Bit copies | `ecss/bitman.c` | none | `bitcpy` | `Bitman` |
| CRC16 | `ecss/crc16.c` | lookup tables | init functions, `crc16_buf`, sliced forms | `Crc16` |
| Byte order, debug macros | `byteorder.h`, `debug.h` | none | macros | not modelled |

### How the parts interact

One accept thread and one poll thread run for every service (data, `gresb_tx`,
`gresb_rx`, `sniff`, `rmap`), one `poll_spw` thread for every channel, the main
thread and the keyboard thread. The poll threads call the handlers, which read
one packet (`Framing`), mirror it to the sniffer (a push loop of `NetService`)
and transmit it (`spw_send_packet_chan`, `Lifecycle`). The `poll_spw` threads
call the packet sink, which pushes to the clients of the services. The shared
state is the connection set of each service, under `svc->lock`, the transfer
operations, under `pus_op_lock`, the pointers `cfg->spw` and `cfg->net`, which
nothing protects, and the flag `shutdown`. The main thread creates all this in
the order network, signals, device, and takes it down with
`pthread_cancel`.

### What is hard

* Descriptor numbers are used as names of connections by three threads, and the
  kernel hands a number out again the moment it is closed.
* The push loops send with `svc->lock` held, and drop clients while they walk
  the set.
* Threads are cancelled, asynchronously to everything they hold: locks, transfer
  operations, half-sent packets.
* A transfer operation is created, stored, waited for, replaced and disposed by
  different threads; the same operation may be freed by the API on cancellation.
* TCP has no packet boundaries, peers stop half-way, and one slow peer is served
  by the same thread as all the others.
* The keyboard thread is detached, changes the terminal the user gets back, and is
  subject to the shell's job control like the whole process.
* Packet headers are bit fields packed by hand; lengths, offsets and masks meet at
  their boundaries, in packets that may have been cut or damaged.
* Each option is a write to a shared record, `net_stop` and `net_release` repeat
  the conditions of `net_start`, and options can come in any order.

`PROJECT.json` lists the hazards one by one, each at its line, with the
properties that would catch it.

### What makes the parts correct

* **Stream services**: a client receives whole packets of its own service, consecutive and in order;
  no descriptor outside `FD_SETSIZE` enters a set; every lock is given back; a
  closed peer is noticed; in client mode exactly the loss of the target ends
  the bridge.
* **Framing**: packets handed on are packets sent; no byte lost or repeated;
  no peer holds the thread for ever.
* **UDP**: every registered peer gets every packet once; whoever writes joins.
* **Life cycle**: shutdown ends; no state is used after it is freed; no operation is
  freed twice or lost.
* **Options**: what is started is stopped, what is locked is initialised.
* **Keyboard**: the terminal is given back as it was; no signal waits for ever.
* **Headers, CRC, bits**: a field reads back what was written and leaves the others
  alone; every form of the CRC is the CRC; only the bits asked for are copied.
* **PUS path**: damage is reported, nothing is dropped or changed for it, and nothing
  is read outside what arrived.
* **RMAP**: decoding inverts encoding; sizes announced are sizes written; nothing
  outside the buffer is read.

## 2. Modules

| Module | Contents |
|---|---|
| `NetService` | stream services, one module for all five services |
| `Broadcast` | abstract specification: what a service promises its clients; `NetService` and `Dgram` implement it |
| `NetService_proofs` | theorems about `NetService`, among them that it implements `Broadcast` |
| `Lifecycle` | process, threads, transfer operations |
| `Framing` | the readers of one TCP connection |
| `Dgram` | UDP mode |
| `PusSeq` | PUS sequence counters |
| `Rmap` | RMAP encoder and decoders |
| `Options` | options, start and stop |
| `Kbd` | keyboard monitor, terminal and job control |
| `BitSets` | numbers as sets of bits; the bitwise operators of C |
| `SpacePkt` | CCSDS and PUS-C header fields |
| `Crc16` | lookup tables and the four ways to the CRC16 |
| `Bitman` | `bitcpy` |
| `PusPath` | a PUS packet through the bridge; uses `SpacePkt` and `Crc16` |
| `Lifecycle_proofs`, `Framing_proofs`, `Dgram_proofs`, `Options_proofs`, `Kbd_proofs`, `Rmap_proofs` | theorems about the module each is named after |
| `Packets_proofs` | theorems about `Crc16`, `SpacePkt`, `PusPath` and `Bitman` |
| `MCNet`, `MCLife`, `MCFraming`, `MCDgram` | instances for TLC; `Options`, `Kbd` and `PusSeq` are run as they are |
| `MCPackets` | `Rmap`, `SpacePkt`, `Crc16`, `Bitman` and `PusPath` in one instance |

An operator `X_Something` next to `X` is `X` with a plausible mistake in it. It
is not part of the model; `PROJECT.json` ("mutants") says which property notices
it when it takes the place of `X`.

### NetService

A connection is a constant that is made once; `fdtab` is the kernel's table,
and a new connection gets the lowest free number, as POSIX requires. `connSet`,
`nfds` and `lock` are the fields of `struct net_service`. Each accept thread has
two steps, `accept()` and the critical section that registers; each poll thread
goes through snapshot, `select`, recheck and the handlers, in ascending order of
descriptors; a thread that pushes takes the lock, then one step for each
`send()`, and either goes on or drops the client. Critical sections without a
blocking call are single actions. `conn_drop` is two actions, because it closes
before it takes the lock. A poll thread that mirrors to the sniffer is a pusher
like an SpW thread. The handlers' reading is one action here and a module of
its own in `Framing`. `pushno`, `got` and `reused` are history variables: the
packets pushed to each service, the last chunk of each service that went out on each
connection, and the connections that were given a number which a service still
meant for an earlier one (`InUse`). `Taken` are numbers below `FdMax` that other files
of the process hold, so that the numbers of connections need not be adjacent.

The link is taken to be ready, and a packet goes to the RMAP clients or to the
others, whichever `net_pkt_sink` decides; in monitor mode the RMAP route does
not exist in the code, so the model allows one route more than the program there.

`got` leaves nothing out: `PushSend` records every `send()` under whatever connection
the number stands for at that moment, registered or not, and whichever service sends.
A connection whose number was closed in the middle of a packet and handed out again
thus has the tail of that packet in `got` before it is registered
(`v_misdirected.cfg`), and one whose number another service still has in its set has
packets of that service (`v_sniffer_rmap.cfg`). The properties say what is promised to
a connection on a number of its own, and what is left to one in `reused`.

### Broadcast

Members join, receive and leave; a service publishes one packet at a time. A member
that has begun to receive takes every part of every packet in order, and a packet is
published only when each of them has all of the last one. A *stray* is taken for another
member: it may be sent packets of any service, miss some, and come in the middle of
the first; what it has begun it gets to the end, and nothing is published before. Nothing
is said of descriptors, sets, locks or threads. The refinement mapping (`Promise` in
`NetService`) makes `pushno` what was published, `got` the cursor, and calls a
connection *in* while it is registered and the set of its service holds its descriptor
(`BroadcastStatus`), *stray* from `accept()` to `close()` if its number was still in
use; once it is closed or has lost its place it has *left* for good. A member may
wait before it begins, because of the connection `nfds` leaves out (section 4).

### Lifecycle

`mpc` walks through `main`: one value for each point at which other threads can
see a difference. A network thread reads a packet when `spw_link_ready` lets it,
optionally mirrors it with `sniff.lock` held, and runs `spw_send_packet_chan`;
an SpW thread runs the loop of `poll_spw` with its three tests of `shutdown`. A
transfer operation is a number with a status and a count of disposals.
Cancellation takes effect only in a blocking call. The STAR library is modelled
from its use: `STAR_cancelTransferOperationWaits` ends the present and later
waits on an operation that is not complete, which is what the comments in `spw.c`
rely on, and the API frees a cancelled operation itself ("cancelled transfer
operations are already freed by the API").

`InitialSpw` is what `cfg.spw` holds before `spw_setup_device` assigns it. `cfg`
is an uninitialised local of `main` and `bridge_cfg_init` does not set the field,
so it may be anything. The passing runs take the benign value, null; the
configuration `v_link_ready.cfg` shows what the other one leads to.

`address` is what `st->p_address` is: nothing, the path of `-n`, or, in monitor mode,
which sends packets on verbatim, an empty path. `noPath` records that a packet was made
without the path of `-n`.

### Framing

The byte stream is positions: a packet is its start and length, so that the
properties can say exactly which bytes were handed on. `mode` chooses the reader.
Peeking gives whatever has arrived; `recv_exact` takes pieces until it has
`Needed` bytes or its deadline passes. When the reader peeks in the middle of a
packet the header it sees is arbitrary.

### Dgram, PusSeq, Options

`Dgram` follows the client table and `svc->lock` in UDP mode, with an entry limit
of 1 instead of 4 so that the table grows in small instances. `PusSeq` is
`check_pus_sequence`, with the debug flag the keyboard toggles. `Options` has one
action for each option with an effect on what is started, then the steps of
`net_start`, `spw_setup_device`, `net_stop` and `net_release`.

### Kbd

The terminal has its own settings or those of single-key mode. The monitor thread
reads the settings, notes that it has, changes them and reads keys, one action each,
since nothing orders them against `main`. `fg` and `stopped` are the shell's view of
the job: a background process that sets its terminal or reads from it is stopped.
`ExitFailure` stands for the `exit(EXIT_FAILURE)` calls of the other threads.

### SpacePkt, Crc16, Bitman, BitSets

`SpacePkt` is a buffer of the 19 octets of the longest header. The accessors are
described by a table of where each field is (`Layout`), which packets have it
(`Present`) and what its setter takes (`Accepted`, `Encoded`); `Raw` and `Put` are
their common code, including that a setter does not mask its value again. `given`
records what each field should hold; `After` says what becomes of it when a field is set:
that field, and the one in the same place of the other kind of packet (`Shares`), get the
value, the flag leaves the low eight bits of the APID, a time reference status adds its
high four bits to the PUS version, and nothing else changes. `Crc16` has the tables and the four ways to
use them, `Division` the definition they are held against. `Bitman` follows one call of
`bitcpy` through its lead-in, `memcpy()` and tail; `putbits8` works on the sets of the
bits of an octet, where a shift moves the members and a mask is an intersection; a shift
by a negative count is undefined in C, so the octet it would mask may come out either way.

All three, and `PusPath`, use `BitSets`: a number of up to 16 bits stands for the set of
its bits (`BitsOf`, and `Num` back), and `&`, `|` and `^` are the set operators. `Iterate`
is a `for` loop as a recursive function. Both forms are ones the provers can reason about.

### PusPath

One packet, in either direction, with -P. A sender's packet arrives whole, cut or with
bits flipped; `net_pkt_sink` or `net_to_spw` prints it, checks it, hands on the
counter, and forwards it. `dumped` is the set of offsets the printout takes the payload
from; memory behind a short packet is zeros or ones. The GRESB envelope is put around
the packet and cut to the size `gresb_get_host_data_pkt_size` computes from it, which is
what is sent.

### Rmap

Buffers are sequences of bytes. The packet is put together by the setters in any
order, turned into bytes with `rmap_build_hdr`, possibly cut short, and decoded by
`rmap_pkt_from_buffer` and `rmap_parse_pkt`; a target's answer follows. `Two`, `Three`
and `Four` are the shifts and ors that put a number together from its bytes. Values
of CRC bytes are markers, since only their position matters to the code modelled.

## 3. Runs

All configurations finish within a few minutes with two workers.

| Run | Instance | Shows |
|---|---|---|
| `net_server` | data service; 3 connections, descriptors 4 to 6, `FD_SETSIZE` 6, 2 sends per packet, 2 packets | `TypeOK`, the inductive invariant `DeliveryInv`, `WholePackets` |
| `net_mirror` | data and sniffer; 2 connections, 2 descriptors | `ImplementsBroadcast`: with two threads pushing to the sniffer and descriptors that change service the services still implement `Broadcast` |
| `net_client` | client mode, RMAP port with two clients, descriptors 4, 5 and 7, fair | `OnlyLinkLossExits`, `LinkLossTerminates`, `LockReleased`, `EofNoticed` |
| `life_bridge` | one channel, two transmitting network threads, one signal, fair | `SinkStateAlive`, `OpsAliveInUse`, `OpsFreedOnce`, `NoOpLeaked`, `AtMostOneLateSink`, `ShutdownCompletes` |
| `life_monitor` | two channels, sniffer | `OpsFreedOnce`, `NoOpLeaked` |
| `framing` | five readers; 3 packets, header of 2 bytes, size limit 1 | `InSync`, `Contiguous`, `SizeRespected`, `HandlerReturns`, `Handled` |
| `dgram` | 3 hosts, 4 datagrams, 2 packets, fair | `EachPacketOnce`, `JoinsUnlessBlocked` |
| `packets` | 8 RMAP command codes, reply paths up to the limit and over it, lengths over one byte; up to 5 setter calls on the two headers; buffers of up to 17 octets at any alignment; bit copies of up to 20 bits; PUS packets of 8 to 24 octets under five command lines | `SizeAgrees`, `RoundTrip`, `ReplyDecoded`, `WithinBuffer`; `ReadsBack`; `CrcByDefinition`; `CopiedExactly`; `DumpFromPacket`, `DamageReported`, `NeverDropped` |
| `options` | up to 4 options in any order | `TypeOK`, `StopMatchesStart`, `PushTargetsReady` |
| `kbd` | 2 keys, 3 moves of the job, fair | `LeftRawOnlyIfOvertaken`, `SignalEnds` |
| `v_sniff_hang` | one channel, sniffer | violates `ShutdownCompletes` |
| `v_pus_sequence` | 2 APIDs | violates `MismatchReported` |

`Lifecycle`, `Framing`, `Dgram` and `Kbd` state a type invariant too. No run lists it;
it holds on the instances above and is a part of the inductive invariants of section 5.

### Bounds

* **Descriptors and connections.** Three connections over three numbers are what it
  takes to have one number equal to `nfds`, one refused at `FD_SETSIZE`, and one
  reused while another connection is open: the first of the three can be closed
  before the last one is accepted.
* **A gap in the numbers** (`Taken`). With the target at 4 and RMAP clients at 5 and 7
  each client raises `nfds` above itself when it registers, so that two members are in one
  `select()`. A push loop that drops one of them between the snapshot and `select()` makes
  it fail with `EBADF` while the other's end of stream waits, which is what `EofNoticed` is
  about. (At 5 and 6 the second would equal `nfds` and be looked at by no loop.)
* **Two sends per packet** distinguish the first, the last and a broken-off packet;
  the proofs cover any number.
* **Two packets** per SpW thread distinguish a packet missed from one repeated.
* **Transfer operations** (`MaxOps`): as many as the packets can make the threads
  create, which `MCLife` asserts (`EnoughOps`), so that the bound never blocks a
  thread. Two packets per channel are needed for a late sink after a late sink.
* **Framing.** A header of two bytes can be split, and a limit of one byte gives
  packets below, at and above it. Three packets allow a loss of synchronisation to
  show in the third.
* **Options.** Pairs of options that overwrite each other need two, with -G, -W or
  -R to change what is started a third and a fourth.
* **Headers.** Five calls are enough to set type, flag and version and then two fields
  that share octets; the values include the largest, one too large and one wider than
  its field.
* **CRC and bits.** 17 octets hold a lead-in of up to seven, a whole word of eight and
  a tail, for each of the eight alignments. 20 bits at offsets up to 13 take in a
  lead-in, whole octets and a tail, and every pair of offsets modulo 8 that matters.
* **Damage.** Bursts of up to 16 bits and pairs far apart are what a CRC16 must find.
* **Deadlock** is checked, except in `packets`, where a packet that has been handled is
  the end, and in `life_monitor` and `v_sniff_hang`, where the shutdown can really hang
  (section 4).

Symmetry is used in `net_server` only, where all connections go to the same service
and no liveness property is checked.

### Fairness

* `NetService`: weak fairness of each accept, poll and push loop. The kernel
  schedules runnable threads, and `send()` and `recv()` have the 30 s timeouts of
  `set_net_recv_timeout` and its counterpart. No peer has to send, read or close,
  and no SpW packet has to arrive.
* `Lifecycle`: weak fairness of main, of each network thread (which includes that a
  pending cancellation takes effect at a cancellation point), of each SpW thread and
  of each transmission, whose wait ends with success or an error. Packets and
  signals do not have to come.
* `Framing`: the reader is run when there is something to read, time passes, and the
  network delivers what was written. The peer need not write or close.
* `Kbd`: main, as long as the job is not stopped. The user need not type, and a stopped
  job need not be continued.
* `Dgram`: both threads run. Datagrams need not come.

## 4. Deviations

Two runs are expected to fail, each with a property that the repository's own
text states.

* `v_sniff_hang`: a network thread cancelled in `send()` keeps `sniff.lock`
  (`net.c:827`), the SpW thread waits for the lock, and `main` for the SpW thread. The
  bridge does not "shut down the device cleanly" but hangs. Without the sniffer
  shutdown always completes (`life_bridge`).
* `v_pus_sequence`: `check_pus_sequence` never increments its count of entries
  (`net.c:514`), so each packet is the first of its APID and no mismatch is reported.

The following configurations also give a counterexample, and are kept for whoever
works on the line in question. Where one names several properties, TLC stops at the
first that fails; leave the one of interest in, or run it with `-continue`.

| Configuration, module | Property | What happens |
|---|---|---|
| `v_descriptors`, MCNet | `AllServed` | `accept_connections` raises `nfds` only if `fd > nfds` (`net.c:398`): a connection whose number equals `nfds` is in the set and in none of the loops, while `README.md` promises that every connected peer receives the traffic |
| `v_descriptors`, MCNet | `NoOrphan` | `conn_drop` closes before it removes (`net.c:424`); the number is reused in between and the new connection is taken out of the set |
| `v_descriptors`, MCNet | `HandlerOnLive` | the recheck of `poll_socket` is made once for all handlers (`net.c:944`) |
| `v_misdirected`, MCNet | `PacketsOnly` | a number closed in the middle of a packet (`net.c:424`) is accepted again and the new connection is sent the tail, before it is registered; or a number in the set of one service goes to a connection of another, which is sent the packets of both. `WholePackets`, proved for every instance, says that this is all: only connections on a number still in use, and only the first packet torn |
| `v_misdirected`, MCNet | `NoDeadMember` | a handler on a stale `readset` (`net.c:944`) closes a number that has gone to the other service, whose set keeps it. `select()` then fails with `EBADF`, and no peer of that service is read, or its end of stream noticed, until a push to the dead number fails. `EofNoticed` is therefore not kept where two listening services pass numbers to each other; `net_client` checks it where each closes only its own |
| `v_sniffer_rmap`, MCNet | `SnifferExcludesRmap` | part of an RMAP reply goes to a sniffer client that got the number of an RMAP client (`net.c:459`) |
| `v_client_exit`, MCNet | `OnlyLinkLossExits` | in client mode a sniffer client that leaves ends the bridge (`net.c:427`) |
| `v_signal_lost`, MCLife | `SignalTerminates` | a signal between `setup_signals` and `pause()` is swallowed (`spw_bridge.c:737`) |
| `v_late_sink`, MCLife | `NoLateSink` | one packet per channel is forwarded after `spw_request_shutdown` (`spw.c:145`); never more (`AtMostOneLateSink`) |
| `v_no_path`, MCLife | `PathApplied` | outside monitor mode a packet is sent before the address with the path exists (`spw.c:649`) |
| `v_link_ready`, MCLife | `LinkReadyTruthful` | `spw_link_ready` follows `cfg->spw` before it is assigned (`spw_bridge.c:712`) |
| `v_header_split`, MCFraming | `SegmentsTolerated` | a header in two segments drops the peer (`net.c:548`) |
| `v_rmap_read`, MCFraming | `InSync` | the size field of a read is not "ignored", as the manual says (`net.c:1003`) |
| `v_empty_dgram`, MCDgram | `FirstRegisters` | an empty datagram blocks the queue (`net.c:634`); hosts ahead of it join (`JoinsUnlessBlocked`) |
| `v_rmap`, Rmap | `SizeOrError` | with no command accepted `rmap_build_hdr` adds the path lengths to the -1 of `rmap_get_min_hdr_size` and returns the sum (`rmap.c:774`), less than it writes; its comment promises "-1 on error, size of header otherwise". `SizeAgrees` says that this is so in no other case |
| `v_rmap`, Rmap | `ReadDecoded` | a read command with a length is not decoded (`rmap.c:920`) |
| `v_rmap`, Rmap | `HdrCrcDecoded` | the header CRC is taken from offset 11 (`rmap.c:917`) |
| `v_rmap`, Rmap | `ReplyCarriesData` | the record of a read reply announces data that is not sent (`net.c:1053`) |
| `v_options`, Options | `LinkIdAsGiven` | `-c` after `-L` replaces the link (`spw_bridge.c:213`) |
| `v_options`, Options | `MonitorChannelsAsGiven` | `-c` after `-M` replaces the first channel (`spw_bridge.c:212`) |
| `v_options`, Options | `TargetAsGiven` | `-p` and `-s` after `-r` replace the target (`spw_bridge.c:225`) |
| `v_options`, Options | `RmapAlwaysListens` | in client mode the RMAP port is bound to the target's address (`net.c:1478`) |
| `v_kbd`, Kbd | `RestoredOnExit` | the terminal stays in single-key mode after `exit()` in another thread, or when `kbd_stop` overtakes the monitor (`kbd.c:40`); `LeftRawOnlyIfOvertaken` says that a clean shutdown leaves it so in no other case |
| `v_kbd`, Kbd | `RunsInBackground` | `tcsetattr()` stops a bridge that was started in the background (`kbd.c:69`); the manual says that only the toggle is missing then |
| `v_packets`, MCPackets | `OthersUntouched` | the secondary header flag's mask is 0x0f instead of 0x08 (`ecss/ccsds_pkt.h:30`, `ecss/ccsds_pkt.c:218`), so setting it clears the top of the APID; a time reference status above 15 is put over the PUS version (`ecss/ecss_pkt.c:171`). `ReadsBack` says exactly what is left of the two, and that no other field is touched. The bridge itself calls neither setter |
| `v_packets`, MCPackets | `TelemetryForwarded` | with -R a telemetry packet whose APID ends in 1 is taken for an RMAP reply (`net.c:1230`) |
| `v_packets`, MCPackets | `CheckedBothWays` | packets that come by UDP are not checked (`net.c:857`); the manual says every packet is, in both directions |
| `v_packets`, MCPackets | `MaxPldFits` | `eccs_get_max_pld_size` leaves out the primary header (`ecss/ecss_pkt.c:1000`) |

Two properties of the packet code are stated with what the code needs to keep them.
`CopiedExactly` leaves out a last piece of fewer than eight bits that crosses an octet
boundary of the destination, for which the masks of `putbits8` are wrong
(`ecss/bitman.c:69`); the bridge makes no such call. `DumpFromPacket` is about the payload
part of the printout: `pus_debug_print` prints the fields of the secondary header without a
look at the length (`spw_bridge.c:597-625`), so of a packet of 6 to 18 octets it shows
memory behind it.

## 5. Proofs

Every safety invariant a run checks has a theorem here; one of them, `DamageReported`,
for bursts only. The inductive invariants are definitions of the modules they are about,
under the properties they explain, or, for the packet modules, of `Packets_proofs`; TLC
finds them to be invariants of the instances of section 3 (`DeliveryInv` in the run
`net_server`).

### Stream services

`NetService_proofs` proves, for any services, SpW threads, connections, descriptor
range, `FD_SETSIZE`, packets and number of sends per packet that satisfy the
assumptions of `NetService`:

* `TypeCorrect`: `Spec => []TypeOK`, and with it that no set ever holds a descriptor
  beyond `FD_SETSIZE`;
* `Delivery`: `Spec => []DeliveryInv`;
* `PacketsWhole`: `Spec => WholePackets`;
* `ExitMeansLinkLost`: `Services \subseteq {"data", "rmap"} => (Spec => []OnlyLinkLossExits)`.

The assumptions are weak: the data service exists, connection and thread names are
distinct from the values that stand for none, every connection has a service, in
client mode the target is a data connection, descriptors are positive and some fit
into an `fd_set`.

`WholePackets` is an action property, and it is not inductive: that the next chunk
continues what a client has depends on where the push loop stands. `DeliveryInv`
adds that:

* `PushInv`: a thread that sends has a service, and its descriptor is a member below
  `nfds`. A registered client can only be dropped by the thread itself or by the
  poll thread's `ConnDel`, which waits for the lock;
* `LockInv`: the lock of a service is held by exactly the thread in its push loop, so
  two packets are never interleaved;
* `FdInv`: a connection has at most one number, only while it is open;
* `AcceptInv`: between `accept()` and `FD_SET` the number may have been closed and
  given away, but never to another connection of the same service, since its only
  accept thread is the one in between. Without it a connection could be registered by
  someone else's step in the middle of a packet;
* `OwnNumber`: a connection that is not in `reused` has its number to itself. No other
  service has it in its set or is about to put it there, and its own service not before it
  is registered. So nothing is sent on it by anyone else, or too early;
* `GotInv`, which has three parts. `UnsentInv`: nothing was sent on a connection before
  `accept()`, nor, on a number of its own, before it was registered or by another
  service. `ResumeInv`, for every connection and every service: whoever has had something
  of a service has had all of its last packet, unless a push loop is in the middle of
  a packet to that number, and then what the loop has sent so far. `MemberInv`: a member
  on a number of its own that has begun has received, last, what the position of the push
  loop says (`LastSent`): everything up to the current packet if the loop is past it, the
  chunks so far if the loop is at it, and the packet before if it is still ahead.

`NextCases` splits a step into its actions once, and each part is shown to be
preserved action by action; `SendContinues` derives the action property for
`PushSend`, the only action that changes `got`.

`ExitMeansLinkLost` needs its hypothesis, since a sniffer client that leaves ends the
bridge (`v_client_exit.cfg`). It rests on `ClientInv`: in client mode the lowest
descriptor is the target's until the bridge closes it, the set of the data service holds
nothing else, no other connection is ever on its way into that set, and its poll thread is
in `conn_del` only after the close. Without the last part the number could have gone
to another connection between `close()` and the removal.

The last theorem of the module is the refinement:

* `ServiceIsBroadcast`: `Spec => ImplementsBroadcast`.

The initial states map to initial states: only the connection of client mode is *in*.
For the steps it uses `DeliveryInv` in both states. A push loop that takes the lock
publishes, and `MemberInv` and `ResumeInv` with the lock free say that every member that has
begun is up to date and no stray is in the middle of a packet. A `send()` to a
connection on a number of its own is a receive, and `LastSent` gives the part it must be;
by `OwnNumber` it can only be a member of the sending service. Any other `send()` is a part
sent to a stray, and `ResumeInv` gives what it may be. No `send()` that goes out is
mapped to a stutter. Registering is a join, or nothing if the connection was closed meanwhile or is a
stray; an accept on a number in use is the join of a stray. Closing a descriptor
and taking it out of the set are a leave of the one connection concerned, or nothing. That a step changes the status of at most one connection is what
`FdInv` and `AcceptInv` are needed for.

### Life cycle

`Lifecycle_proofs` proves, for one channel or two, with and without the sniffer and the
GRESB sender, and for any number of packets, signals and operations:

* `SinkSafe`: `Spec => []SinkStateAlive`;
* `NoUseAfterDispose`: `Spec => []OpsAliveInUse`;
* `NoDoubleDispose`: `Spec => []OpsFreedOnce`;
* `OneLatePacket`: `Spec => []AtMostOneLateSink`;
* `LeakBound`: `Spec => []NoOpLeaked`;
* `LinkTruth`: `InitialSpw = {"null"} => (Spec => []LinkReadyTruthful)`.

The assumptions say what there can be: channel 0 and perhaps channel 1, the data
thread and perhaps that of `gresb_tx`. The last theorem has a hypothesis because the code
keeps the property only then: a `cfg.spw` that happens not to be null passes for a device
(`v_link_ready.cfg`).

All but `LinkTruth` follow from one invariant, `LifeInv`, which says who owns what:

* `StageInv` ties the pointers and the threads to where `main` is: the sink's state is
  alive because `main` frees it after every thread has ended;
* `LateInv`: a thread with a late packet behind it is between that packet and the test at
  the top of its loop;
* `OwnInv`: a thread inside `spw_send_packet_chan` holds an operation from its creation
  on, and a network thread cancelled there keeps it;
* `HoldInv`: no operation has two holders, and the shared field `pus_tx_transfer_op`
  names one that some thread sending on the channel holds. This is what makes the test in
  `TxClear` enough: the field is left alone if the other sender has taken it over;
* `RxInv`: a thread comes back to `spw_setup_rx_op` only with an operation that is over, so
  that the cancellation in `spw_stop_poll` cannot hit the one it is about to dispose;
* `FreeInv`: up to `spw_dispose_ops` what is held has not been given back, nothing is
  given back twice, and what the API freed on cancellation has not been disposed;
* `LeakInv`: what is not given back is held, `spw_dispose_ops` finds it unless another
  sender has taken the field, and one of the senders has it last. Hence the bound.

`OpCases` sorts the steps by what they do to the operations (create, give back,
replace, cancel, dispose, none of these), so that the ownership parts have one case for each
of these and not one for each action.

### Framing

`Framing_proofs` proves, for any header length, size limit, number and sizes of packets,
and every way TCP may cut the stream:

* `WithinBuffer`: `Spec => []TypeOK`, which includes that `recv_exact` never has more than it
  was asked for;
* `NothingSkipped`: `Spec => []Contiguous`;
* `LimitKept`: `Spec => []SizeRespected`;
* `PacketsAsSent`: `SizesTrue => (Spec => []InSync)`.

`SizesTrue` says that the size fields of the packets a peer may send are true. A read
command of the pseudo-RMAP port with a size does not satisfy it (`v_rmap_read.cfg`); packets
of other protocols need not.

`FramingInv` says that packets lie end to end (`StreamInv`), that a reader in `recv_exact` has a
header it did not refuse (`ReaderInv`), and that what it has read of the packet follows
what was handed on (`GaplessInv`). `FramedInv` adds the position (`SyncInv`): between packets the
reader stands at the boundary after as many packets as it handed on, and in a packet it
holds that packet's header. Only with this can it be said that a header peeked at is a
header and not the middle of a packet.

### UDP, options, keyboard

* `Dgram_proofs`: `EveryHostOnce` (`Spec => []EachPacketOnce`), `TableFits`
  (`Spec => []TypeOK`) and `DgramIsBroadcast` (`Spec => ImplementsBroadcast`), for any hosts,
  datagrams, packets and first size of the table. `DgramInv` adds that a host has one entry
  at most and that the loop has passed exactly the entries below `i`. The last theorem says
  that UDP peers are promised what TCP clients are: in `Broadcast` with one part to a packet a
  host joins when it is registered and never leaves, `SendAll` publishes, which it may because
  without the lock every host is up to date, and each `sendto()` is a receive. TLC agrees on
  the instance of `dgram`.
* `Options_proofs`: `StopUndoesStart`, `TargetsReady` and `PathFits`, the three properties
  of the run, for command lines of any length. `OptionsInv` adds that the threads are
  always those of the services that are up (`StageInv`), and that these are all that the options
  ask for once `net_start` has returned.
* `Kbd_proofs`: `TerminalGivenBack` (`Spec => []LeftRawOnlyIfOvertaken`), for any number of
  keys and moves of the job. `KbdInv` adds the order in which the monitor reads, notes
  and changes the settings, and that nothing sets single-key mode again once
  `kbd_stop` has found it.

### RMAP packets

`Rmap_proofs` proves the four properties of the run for all command codes, paths, reply
paths, data lengths and cuts, and all addresses of four bytes: `AllocatedSize`
(`SizeAgrees`), `FieldsSurvive` (`RoundTrip`), `NothingBeyond` (`WithinBuffer`) and
`ReplyMatches` (`ReplyDecoded`). The one assumption beyond types is that an address is a
`uint32_t`. `AllocatedSize` covers packets without an accepted command too, of which it
says that more is written than was told (`NoCommandSize`).

`RmapInv` says that the setters keep each field in its width and the reply path in step
with the instruction, and that the bytes in the buffer are the ones the fields make, less
what was cut off. The rest is about these bytes. Numbers are taken to bytes and back in
`TwoBytes`, `ThreeBytes` and `FourBytes`; `Row` says where each part of a header is, for
any length of the two paths; `CommandBytes` and the lemmas on replies say what arrives; and
`LeadDecoded` and `DecodedFields` say what the decoder makes of it. The provers lose
track of indices when the type of a sequence is in sight, so the proof speaks of sequences
through three predicates of its own: `IsSeq` (bytes, and how many), `Holds` (one sequence
lies in another at an offset) and `Prefix`.

### CRC, headers, packet path, bit copies

`Packets_proofs` proves

* `CrcCorrect`: `CrcSpec => []CrcByDefinition`, for buffers of any length at any address;
* `FieldsReadBack`: `PktSpec => []ReadsBack`, for any contents of the buffer, all arguments
  a setter's C type allows and any number of calls;
* `PacketsPass`: `PathSpec => []NeverDropped`, `DumpStaysInside`:
  `PathSpec => []DumpFromPacket` (the payload part of the printout), for any packets with fields in their widths and lengths up
  to the 65536 octets a length field can say, any path, losses, flipped bits and options;
* `BurstsReported`: `PathSpec => []DamageReported`, if every set of flipped bits starts in
  the packet and spans at most sixteen bits (`Bursts`);
* `BitsCopied`: `BitmanSpec => []CopiedExactly`, for all arrays, offsets and lengths.

The assumptions are the C types: `PktAssumption` (the buffer holds octets, an argument is a
`uint8_t` or `uint16_t`), `PathAssumption` (a sender's numbers fit their fields),
`CrcAssumption`, and `BitmanAssumption` (the arrays hold octets and reach as far as the
bits copied).

*Bits.* `BitsOfNum` and `NumBitsOf` say that a number of 16 bits and its set of bits
determine each other, so an equation between numbers can be shown bit by bit. The
provers do no arithmetic with powers of two, so what a shift does to each bit is stated
once, in lemmas about `Up`, `Hi`, `Double`, `Right` and `Left`.

*Induction.* The induction theorems of the library take an operator and cannot be used.
`WFMin` takes a set, and from it and the well-foundedness of `<` follows `Induct`: a set of
numbers that holds 0 and with each number the next holds all. What a loop (`Iterate`)
computes is then shown by naming the set of counts for which the claim is true.

*CRC.* Eight steps of the division are one use of the table: the table is linear in the
bits of its index, and so is the division. Octet by octet the CRC is then the register of
the division after every eighth bit. A row of the sliced table is the one before it with
a zero octet behind, so, by linearity again, a word of two, four or eight octets is the
sum of what each of its octets becomes after the octets that follow it.

*Bursts.* The register over a packet with its own CRC at the end comes out empty, and only
then does `pus_pkt_crc_valid` accept it. The registers over a packet and over its damaged
form agree up to the first flipped bit, which sets them apart in bit 0 (`FirstApart`). A
difference in bit i is still one, in a bit up to i + 1, after the next step, unless it was
in the top bit and different bits are fed (`StepApart`); so the registers differ when the
burst is over, and what follows is the same in both packets and keeps them apart.

*Headers.* `ReadsBack` is not inductive: it says nothing of a field that is not readable
for the moment, because the type or the flag has been changed, and may be again later.
`Kept` drops that condition and adds that the buffer holds octets. A setter changes the
bits under its mask and the octets that follow and no others. For each pair of fields
these are disjoint from the other's (`PutBeside`), or the two are one place (`SharedRaw`),
or it is one of the two setters that reach further: `MergeOverPus` and the case of the flag
say what the PUS version and the APID then are.

*Path.* `PathInv` says that the octets behind the path are the sent packet, cut or
flipped, and once the packet is handled that the outputs are those the handlers compute
from it. The rest is about these values: the size in the envelope's 24 bits is the
packet's; the headers a sender puts together read back as given (through `Put` and `Raw`);
the length a whole packet declares is the length that arrived.

*Bit copies.* `PieceCopied` is `putbits8`: a piece that stays in an octet, or of exactly eight
bits, lands where it should and nowhere else. `BitInv` says how far the copy is (`Progress`),
that everything up to `d_off` has been copied and nothing else (`Exact`), and that
no piece that is left will be cut (`Aligned`), where the call is one of `PieceFits`. The lead-in
keeps `Aligned` because a piece of eight bits leaves the offset in the octet as it was.

### Only model-checked

* Every liveness property, since fairness is out of the prover's reach: `LinkLossTerminates`,
  `LockReleased`, `EofNoticed`, `ShutdownCompletes`, `HandlerReturns`, `Handled`,
  `JoinsUnlessBlocked`, `SignalEnds`.
* That two flipped bits more than sixteen apart are reported (a part of `DamageReported`). It
  rests on the order of x modulo the polynomial, 32767, which is a computation and not an
  argument the provers could follow; `packets` checks it for the packets of its instance.

## 6. What is left out

* Failing `malloc` and `realloc`, and failing `pthread_create` (except in `kbd_start`).
* Printed output, other than which bytes it is made of; the payload of packets.
* PUS A headers, which are compiled in only if `AP_PUS_VERSION` says so, and the tables
  of service types in `ecss/ecss_pkt_cfg.h`, which no code uses.
* `rmap_crc8`, the counter of packets that are not RMAP, and the flag accessors of
  `gresb.c`, which nothing in the bridge calls.
* Time, other than as timeouts that may expire. The manual says that a peer silent for
  30 s is dropped; `select()` never hands a silent peer to `recv()`, so the code does
  not do it, and stating it needs a clock.
* Device setup (`set_link_speed`, `start_link`) and `spw_rmap_cmd`, which are calls of
  the STAR library without state of the bridge's own.
* The memory of received packets, which belongs to the STAR library.

## 7. Plan

The order of the work so far was by weight: what threads do to connections, what
shutdown does to threads, then the readers, codecs and options, then the abstract
specification of the services, the keyboard and the packet library, then the proofs of
section 5. Next:

1. A theorem about `Options` that the services `Lifecycle` and
   `NetService` take as constants are the ones some command line starts.
2. `NetService` composed with `Framing`, with a clock per connection for the receive
   deadline.
3. That two flipped bits are always reported, once the order of the polynomial can be
   computed in a proof.
