------------------------------- MODULE Options -------------------------------
(***************************************************************************)
(* From the command line to a configured bridge and back: parse_options    *)
(* with the opt_ functions of spw_bridge.c, one action per option in the   *)
(* order getopt() finds them; the sockets, locks and threads net_start     *)
(* makes of the result; the channels and links spw_setup_device takes; and *)
(* what net_stop and net_release give back.                                *)
(***************************************************************************)
EXTENDS Naturals

CONSTANTS
    Hosts,     \* addresses for -s and -r: "local" is one of ours, "remote" is not
    Ports,     \* port numbers for -p, -r and -R
    Channels,  \* channel and link numbers for -c, -L and -M
    Present,   \* the channels the device has
    PathLens,  \* nodes in the argument of -n
    Flags,     \* the options that only set a flag
    MaxOpts    \* bound: options on the command line

None      == "none"
MaxPort   == 65535
MaxPath   == 256                      \* sizeof(cfg->path)
Links     == 0 .. 5                   \* GRESB_VLINK_MAX
Services  == {"data", "gresb_tx", "gresb_rx", "sniff", "rmap"}

ASSUME OptionsAssumption ==
    /\ Hosts \subseteq {"local", "remote"} /\ Ports \subseteq 1 .. MaxPort
    /\ Channels \subseteq Nat /\ Present \subseteq 0 .. 31
    /\ PathLens \subseteq Nat /\ MaxOpts \in Nat
    /\ Flags \subseteq {"P", "D", "N", "C", "F", "E", "X"}

VARIABLES
    stage,    \* main(): "parse", "net", "spw", "run", "stopped", "released", "exit"
    nopts,    \* options parsed
    cfg,      \* struct bridge_cfg
    given,    \* history: the last argument of -L, -M and -r, if any
    up,       \* services net_start has started
    locks,    \* mutexes that are initialised
    threads,  \* threads that run: a service and "accept" or "poll"
    joined,   \* threads net_stop has joined
    opened,   \* channels spw_setup_device opened
    refused   \* the service whose socket could not be bound

vars == <<stage, nopts, cfg, given, up, locks, threads, joined, opened, refused>>

\* bridge_cfg_init
DefaultCfg == [mode |-> "server", host |-> "any", port |-> 1234, rmap_port |-> 2345,
               channel |-> 1, channel2 |-> 0, link_id |-> 1, gresb_link |-> 0, path_len |-> 0,
               monitor |-> FALSE, rmap |-> FALSE, gresb |-> FALSE, sniff |-> FALSE, flags |-> {}]

Init ==
    /\ stage = "parse" /\ nopts = 0 /\ cfg = DefaultCfg
    /\ given = [L |-> {}, M |-> {}, r |-> {}]
    /\ up = {} /\ locks = {} /\ threads = {} /\ joined = {} /\ opened = {}
    /\ refused = None

-----------------------------------------------------------------------------
\* parse_options

Option == /\ stage = "parse" /\ nopts < MaxOpts /\ nopts' = nopts + 1
          /\ UNCHANGED <<stage, up, locks, threads, joined, opened, refused>>

OptChannel == /\ Option /\ UNCHANGED given
              /\ \E c \in Channels : cfg' = [cfg EXCEPT !.channel = c, !.link_id = c]

OptLinkId == /\ Option
             /\ \E l \in Channels : /\ cfg' = [cfg EXCEPT !.link_id = l]
                                    /\ given' = [given EXCEPT !.L = {l}]

OptMonitor ==
    /\ Option
    /\ \E c1, c2 \in Channels :
          /\ cfg' = [cfg EXCEPT !.channel = c1, !.channel2 = c2, !.link_id = c1, !.monitor = TRUE]
          /\ given' = [given EXCEPT !.M = {<<c1, c2>>}]

OptPort   == Option /\ (\E p \in Ports : cfg' = [cfg EXCEPT !.port = p]) /\ UNCHANGED given
OptSource == Option /\ (\E h \in Hosts : cfg' = [cfg EXCEPT !.host = h]) /\ UNCHANGED given
OptClient == /\ Option
             /\ \E h \in Hosts, p \in Ports :
                   /\ cfg' = [cfg EXCEPT !.mode = "client", !.host = h, !.port = p]
                   /\ given' = [given EXCEPT !.r = {<<h, p>>}]
OptUdp    == Option /\ cfg' = [cfg EXCEPT !.mode = "dgram"] /\ UNCHANGED given

\* -R and -R PORT; -G and -G LINKID; -W
OptRmap   == /\ Option /\ UNCHANGED given
             /\ \E p \in Ports \cup {cfg.rmap_port} : cfg' = [cfg EXCEPT !.rmap = TRUE, !.rmap_port = p]
OptGresb  == /\ Option /\ UNCHANGED given
             /\ \E l \in Links : cfg' = [cfg EXCEPT !.gresb = TRUE, !.gresb_link = l]
OptSniff  == Option /\ cfg' = [cfg EXCEPT !.sniff = TRUE] /\ UNCHANGED given

\* parse_path appends to what an earlier -n left, as far as there is room
Appended_Unchecked(n) == cfg.path_len + n
Appended(n) == IF cfg.path_len + n > MaxPath THEN MaxPath ELSE cfg.path_len + n
OptPath   == /\ Option /\ UNCHANGED given
             /\ \E n \in PathLens : cfg' = [cfg EXCEPT !.path_len = Appended(n)]

OptFlag   == Option /\ (\E f \in Flags : cfg' = [cfg EXCEPT !.flags = @ \cup {f}]) /\ UNCHANGED given

Exit == stage' = "exit" /\ UNCHANGED <<nopts, cfg, given, up, locks, threads, joined, opened>>

\* -h, an unknown option, or an argument the opt_ function rejects
OptRejected == stage = "parse" /\ nopts < MaxOpts /\ Exit /\ UNCHANGED refused

-----------------------------------------------------------------------------
\* net_start

WithGresb == cfg.gresb /\ cfg.mode = "server"
Wanted == {"data"} \cup (IF WithGresb THEN {"gresb_tx", "gresb_rx"} ELSE {})
                   \cup (IF cfg.sniff THEN {"sniff"} ELSE {})
                   \cup (IF cfg.rmap THEN {"rmap"} ELSE {})

Rank == [data |-> 1, gresb_tx |-> 2, gresb_rx |-> 3, sniff |-> 4, rmap |-> 5]
Upcoming == {s \in Wanted \ up : \A r \in Wanted \ up : Rank[s] <= Rank[r]}

HostOf(s) == IF s = "sniff" /\ cfg.mode = "client" THEN "any" ELSE cfg.host
PortOf(s) == CASE s = "data"     -> cfg.port
               [] s = "gresb_tx" -> 3000 + 2 * cfg.gresb_link
               [] s = "gresb_rx" -> 3000 + 2 * cfg.gresb_link + 1
               [] s = "sniff"    -> 3064
               [] s = "rmap"     -> cfg.rmap_port

\* The kernel: a listening socket needs an address of this host and a port
\* that no other listening socket has.
Listening == IF cfg.mode = "server" THEN up ELSE up \ {"data"}
CanBind(s) == /\ HostOf(s) # "remote"
              /\ (s = "data" /\ cfg.mode = "dgram") \/ \A r \in Listening : PortOf(r) # PortOf(s)

ThreadsOf(s) == IF s = "data" /\ cfg.mode # "server" THEN {<<s, "poll">>}
                                                     ELSE {<<s, "accept">>, <<s, "poll">>}

ParseDone ==
    /\ stage = "parse" /\ stage' = "net"
    /\ locks' = {"data", "rmap"}
    /\ UNCHANGED <<nopts, cfg, given, up, threads, joined, opened, refused>>

StartService ==
    /\ stage = "net"
    /\ \E s \in Upcoming :
          /\ CanBind(s) \/ (s = "data" /\ cfg.mode = "client")
          /\ up'      = up \cup {s}
          /\ threads' = threads \cup ThreadsOf(s)
          /\ locks'   = locks \cup {s}
    /\ UNCHANGED <<stage, nopts, cfg, given, joined, opened, refused>>

\* "could not bind endpoint"
BindFailed ==
    /\ stage = "net"
    /\ \E s \in Upcoming : /\ ~CanBind(s) /\ (s # "data" \/ cfg.mode # "client")
                           /\ refused' = s
    /\ Exit

\* "Failed to connect"
ConnectFailed == /\ stage = "net" /\ "data" \in Upcoming /\ cfg.mode = "client"
                 /\ Exit /\ UNCHANGED refused

NetStarted ==
    /\ stage = "net" /\ Upcoming = {} /\ stage' = "spw"
    /\ UNCHANGED <<nopts, cfg, given, up, locks, threads, joined, opened, refused>>

-----------------------------------------------------------------------------
\* spw_setup_device

InUse == IF cfg.monitor THEN {cfg.channel, cfg.channel2} ELSE {cfg.channel}

\* "monitor mode requires two different channels", "Non-existent channel"
ChannelsRefused == \/ ~(InUse \subseteq Present)
                   \/ cfg.monitor /\ cfg.channel2 = cfg.channel

SetupFailed == stage = "spw" /\ ChannelsRefused /\ Exit /\ UNCHANGED refused

SetupDevice ==
    /\ stage = "spw" /\ ~ChannelsRefused /\ stage' = "run"
    /\ opened' = InUse
    /\ UNCHANGED <<nopts, cfg, given, up, locks, threads, joined, refused>>

-----------------------------------------------------------------------------
\* net_stop: th_main, th_poll if it was started, and the threads of the options
JoinGresb_AnyMode == cfg.gresb
JoinGresb == cfg.gresb /\ cfg.mode = "server"

Joins == {<<"data", IF cfg.mode = "server" THEN "accept" ELSE "poll">>}
         \cup (threads \cap {<<"data", "poll">>})
         \cup (IF cfg.rmap THEN {"rmap"} \X {"accept", "poll"} ELSE {})
         \cup (IF JoinGresb THEN {"gresb_tx", "gresb_rx"} \X {"accept", "poll"} ELSE {})
         \cup (IF cfg.sniff THEN {"sniff"} \X {"accept", "poll"} ELSE {})

NetStop ==
    /\ stage = "run" /\ stage' = "stopped"
    /\ joined' = Joins
    /\ UNCHANGED <<nopts, cfg, given, up, locks, threads, opened, refused>>

\* net_release destroys these
Destroyed == {"data", "rmap"} \cup (IF WithGresb THEN {"gresb_tx", "gresb_rx"} ELSE {})
                              \cup (IF cfg.sniff THEN {"sniff"} ELSE {})

NetRelease ==
    /\ stage = "stopped" /\ stage' = "released"
    /\ locks' = locks \ Destroyed
    /\ UNCHANGED <<nopts, cfg, given, up, threads, joined, opened, refused>>

Ended == stage \in {"released", "exit"} /\ UNCHANGED vars

Parse == \/ OptChannel \/ OptLinkId \/ OptMonitor \/ OptPort \/ OptSource \/ OptClient
         \/ OptUdp \/ OptRmap \/ OptGresb \/ OptSniff \/ OptPath \/ OptFlag
         \/ OptRejected \/ ParseDone
Next == \/ Parse \/ StartService \/ BindFailed \/ ConnectFailed \/ NetStarted
        \/ SetupFailed \/ SetupDevice \/ NetStop \/ NetRelease \/ Ended

Spec == Init /\ [][Next]_vars

-----------------------------------------------------------------------------
\* Types; the path never outgrows cfg->path, however often -n is given.
TypeOK ==
    /\ stage \in {"parse", "net", "spw", "run", "stopped", "released", "exit"}
    /\ nopts \in 0 .. MaxOpts
    /\ cfg.mode \in {"server", "client", "dgram"} /\ cfg.host \in Hosts \cup {"any"}
    /\ cfg.port \in 1 .. MaxPort /\ cfg.rmap_port \in 1 .. MaxPort
    /\ cfg.path_len \in 0 .. MaxPath /\ cfg.gresb_link \in Links
    /\ up \subseteq Services /\ locks \subseteq Services
    /\ threads \subseteq Services \X {"accept", "poll"} /\ joined \subseteq Services \X {"accept", "poll"}
    /\ opened \subseteq Channels \cup {cfg.channel} /\ refused \in Services \cup {None}

\* net_stop joins exactly the threads net_start created, and net_release
\* leaves no mutex it initialised, for every combination of the options:
\* neither joins a thread that never was, nor forgets one that may still run.
StopMatchesStart ==
    /\ stage \in {"stopped", "released"} => joined = threads
    /\ stage = "released" => locks = {}

\* The services the packet paths lock: net_forward_to_clients (data, the
\* sniffer if its socket is open, gresb_rx in server mode with its socket
\* open), rmap_reply_to_clients.
PushTargets_NoModeTest == {"data"} \cup (IF cfg.rmap THEN {"rmap"} ELSE {})
                          \cup (up \cap {"sniff"}) \cup (IF cfg.gresb THEN {"gresb_rx"} ELSE {})
PushTargets == {"data"} \cup (IF cfg.rmap THEN {"rmap"} ELSE {}) \cup (up \cap {"sniff"})
               \cup (IF cfg.gresb /\ cfg.mode = "server" THEN up \cap {"gresb_rx"} ELSE {})

\* A packet that arrives while the bridge runs is pushed only to services
\* whose mutex net_start initialised and whose threads it started.
PushTargetsReady == stage = "run" => PushTargets \subseteq (locks \cap up)

\* Why: up to net_start nothing runs; from then on the threads are those of the
\* services that are up, which are all that the options ask for once net_start
\* has returned.
CfgType == [mode : {"server", "client", "dgram"}, host : Hosts \cup {"any"}, port : 1 .. MaxPort,
            rmap_port : 1 .. MaxPort, channel : Nat, channel2 : Nat, link_id : Nat,
            gresb_link : Links, path_len : 0 .. MaxPath, monitor : BOOLEAN, rmap : BOOLEAN,
            gresb : BOOLEAN, sniff : BOOLEAN, flags : SUBSET Flags]
GivenType == [L : SUBSET Channels, M : SUBSET (Channels \X Channels), r : SUBSET (Hosts \X Ports)]

StageInv ==
    /\ threads = UNION {ThreadsOf(s) : s \in up}
    /\ stage = "parse" => (up = {} /\ locks = {} /\ joined = {} /\ opened = {})
    /\ stage = "net" => (up \subseteq Wanted /\ locks = {"data", "rmap"} \cup up)
    /\ stage \in {"spw", "run", "stopped"} => (up = Wanted /\ locks = {"data", "rmap"} \cup up)

OptionsInv ==
    /\ TypeOK
    /\ cfg \in CfgType /\ given \in GivenType
    /\ cfg.monitor => cfg.channel2 \in Channels
    /\ StageInv
    /\ StopMatchesStart

-----------------------------------------------------------------------------
\* What the documentation promises and the code does not keep.

\* README.md: "-L LINKID id of the link whose speed is set (default: the
\* channel)": with -L given, wherever it stands, it is that link.
LinkIdAsGiven == stage = "run" => given.L \subseteq {cfg.link_id}

\* README.md, monitor mode: "-c" is ignored; the channels given with -M are
\* the ones opened.
MonitorChannelsAsGiven == stage = "run" => \A m \in given.M : opened = {m[1], m[2]}

\* README.md: "-r HOST:PORT client mode: address and port of the remote
\* target": that is what the bridge connects to.
TargetAsGiven == (stage = "run" /\ cfg.mode = "client") => given.r = {<<cfg.host, cfg.port>>}

\* um/usermanual.tex: "the RMAP service is always started as a listening
\* server, even when the data path runs in client mode".
RmapAlwaysListens == cfg.mode = "client" => refused # "rmap"
=============================================================================
