---------------------------- MODULE Options_proofs ----------------------------
(***************************************************************************)
(* Proofs about Options: for any number of options in any order net_stop   *)
(* and net_release undo exactly what net_start did.                        *)
(***************************************************************************)
EXTENDS Options, TLAPS

\* Upcoming is empty only when every service the options ask for is up.
LEMMA NoneUpcoming == Upcoming = {} => Wanted \subseteq up
<1> SUFFICES ASSUME Upcoming = {}, NEW x \in Wanted, x \notin up PROVE FALSE
  OBVIOUS
<1> DEFINE Rest == Wanted \ up
<1>1. Rest \subseteq Services /\ x \in Rest
  BY DEF Wanted, Services
<1>2. \A s \in Rest : \E r \in Rest : Rank[r] < Rank[s]
  <2>1. \A s \in Services : Rank[s] \in Nat
    BY DEF Rank, Services
  <2>2. QED
    BY <1>1, <2>1 DEF Upcoming
<1>3. /\ "data" \notin Rest /\ "gresb_tx" \notin Rest /\ "gresb_rx" \notin Rest
      /\ "sniff" \notin Rest /\ "rmap" \notin Rest
  BY <1>1, <1>2 DEF Rank, Services
<1>4. QED
  BY <1>1, <1>3 DEF Services

\* What net_stop joins are the threads of the services the options ask for,
\* although it tests the options and not what was started.
LEMMA JoinsAreThreads ==
  ASSUME cfg \in CfgType, up = Wanted, threads = UNION {ThreadsOf(s) : s \in up}
  PROVE  Joins = threads
<1>1. \A x : x \in threads <=> \E s \in Wanted : x \in ThreadsOf(s)
  OBVIOUS
<1>2. Joins \subseteq Services \X {"accept", "poll"} /\ threads \subseteq Services \X {"accept", "poll"}
  <2>1. Wanted \subseteq Services
    BY DEF Wanted, Services
  <2>2. threads \subseteq Services \X {"accept", "poll"}
    BY <1>1, <2>1 DEF ThreadsOf
  <2>3. QED
    BY <2>2 DEF Joins, Services
<1> DEFINE SamePairs == \A s \in Services, w \in {"accept", "poll"} : <<s, w>> \in Joins <=> <<s, w>> \in threads
<1>3. ASSUME cfg.mode = "server" PROVE SamePairs
  <2>1. ASSUME NEW s \in Services, NEW w \in {"accept", "poll"}
        PROVE  <<s, w>> \in threads <=> s \in Wanted
    BY <1>1, <1>3 DEF ThreadsOf
  <2>2. ASSUME NEW s \in Services, NEW w \in {"accept", "poll"}
        PROVE  <<s, w>> \in Joins <=> s \in Wanted
    <3>1. <<"data", "poll">> \in threads
      BY <2>1 DEF Wanted, Services
    <3>2. QED
      BY <1>3, <3>1 DEF Joins, JoinGresb, Wanted, WithGresb, Services
  <2>3. QED
    BY <2>1, <2>2
<1>4. ASSUME cfg.mode # "server" PROVE SamePairs
  <2>1. ASSUME NEW s \in Services, NEW w \in {"accept", "poll"}
        PROVE  <<s, w>> \in threads <=> s \in Wanted /\ (s = "data" => w = "poll")
    <3>1. \A r : <<s, w>> \in ThreadsOf(r) <=> r = s /\ (s = "data" => w = "poll")
      BY <1>4 DEF ThreadsOf
    <3>2. QED
      BY <1>1, <3>1
  <2>2. ASSUME NEW s \in Services, NEW w \in {"accept", "poll"}
        PROVE  <<s, w>> \in Joins <=> s \in Wanted /\ (s = "data" => w = "poll")
    BY <1>4 DEF Joins, JoinGresb, Wanted, WithGresb, Services
  <2>3. QED
    BY <2>1, <2>2
<1>5. ASSUME NEW z \in Services \X {"accept", "poll"} PROVE z \in Joins <=> z \in threads
  <2>1. PICK s \in Services, w \in {"accept", "poll"} : z = <<s, w>>
    OBVIOUS
  <2>2. QED
    BY <1>3, <1>4, <2>1
<1>6. QED
  BY <1>2, <1>5

\* The defaults of bridge_cfg_init.
LEMMA OptionsInvInit == Init => OptionsInv
<1> SUFFICES ASSUME Init PROVE OptionsInv
  OBVIOUS
<1> USE OptionsAssumption DEF Init
<1>1. cfg \in CfgType /\ given \in GivenType
  BY DEF DefaultCfg, CfgType, GivenType, MaxPath, MaxPort, Links
<1>2. TypeOK
  <2>1. /\ cfg.port \in 1 .. MaxPort /\ cfg.rmap_port \in 1 .. MaxPort
        /\ cfg.path_len \in 0 .. MaxPath /\ cfg.gresb_link \in Links /\ nopts \in 0 .. MaxOpts
    BY DEF DefaultCfg, MaxPath, MaxPort, Links
  <2>2. cfg.mode = "server" /\ cfg.host = "any"
    BY DEF DefaultCfg
  <2>3. stage = "parse" /\ refused = None
    OBVIOUS
  <2>4. /\ up \subseteq Services /\ locks \subseteq Services
        /\ threads \subseteq Services \X {"accept", "poll"}
        /\ joined \subseteq Services \X {"accept", "poll"}
        /\ opened \subseteq Channels \cup {cfg.channel}
    OBVIOUS
  <2> HIDE DEF Init
  <2>5. QED
    BY <2>1, <2>2, <2>3, <2>4 DEF TypeOK
<1>3. StageInv /\ StopMatchesStart
  BY DEF StageInv, StopMatchesStart
<1>4. QED
  BY <1>1, <1>2, <1>3 DEF OptionsInv, DefaultCfg

\* An option changes the configuration and nothing else, and nothing has been
\* started yet.
LEMMA OptionKeeps ==
  ASSUME OptionsInv, Option, cfg' \in CfgType, given' \in GivenType,
         cfg'.monitor => cfg'.channel2 \in Channels
  PROVE  OptionsInv'
<1> USE OptionsAssumption
<1>1. /\ stage = "parse" /\ stage' = "parse" /\ nopts' \in 0 .. MaxOpts
      /\ UNCHANGED <<up, locks, threads, joined, opened, refused>>
  BY DEF Option, OptionsInv, TypeOK
<1>2. up = {} /\ locks = {} /\ joined = {} /\ opened = {} /\ threads = {}
  <2>1. up = {} /\ locks = {} /\ joined = {} /\ opened = {}
    BY <1>1 DEF OptionsInv, StageInv
  <2>2. QED
    BY <2>1 DEF OptionsInv, StageInv
<1>3. TypeOK'
  <2>1. /\ cfg'.mode \in {"server", "client", "dgram"} /\ cfg'.host \in Hosts \cup {"any"}
        /\ cfg'.port \in 1 .. MaxPort /\ cfg'.rmap_port \in 1 .. MaxPort
        /\ cfg'.path_len \in 0 .. MaxPath /\ cfg'.gresb_link \in Links
    BY DEF CfgType
  <2>2. refused' \in Services \cup {None}
    BY <1>1 DEF OptionsInv, TypeOK
  <2>3. QED
    BY <1>1, <1>2, <2>1, <2>2 DEF TypeOK
<1>4. StageInv'
  <2>1. threads' = UNION {ThreadsOf(s)' : s \in up'}
    BY <1>1, <1>2
  <2>2. QED
    BY <1>1, <1>2, <2>1 DEF StageInv
<1>5. StopMatchesStart'
  BY <1>1 DEF StopMatchesStart
<1>6. QED
  BY <1>3, <1>4, <1>5 DEF OptionsInv

\* Every option leaves a configuration that net_start can be given.
LEMMA ParseKeeps == OptionsInv /\ Parse => OptionsInv'
<1> SUFFICES ASSUME OptionsInv, Parse PROVE OptionsInv'
  OBVIOUS
<1> USE OptionsAssumption
<1>0. /\ cfg \in CfgType /\ given \in GivenType /\ (cfg.monitor => cfg.channel2 \in Channels)
  BY DEF OptionsInv
<1>1. CASE OptChannel
  <2>1. PICK c \in Channels : cfg' = [cfg EXCEPT !.channel = c, !.link_id = c] /\ UNCHANGED given
    BY <1>1 DEF OptChannel
  <2>2. cfg' \in CfgType
    BY <1>0, <2>1 DEF CfgType
  <2>3. QED
    BY <1>0, <1>1, <2>1, <2>2, OptionKeeps DEF OptChannel, CfgType
<1>2. CASE OptLinkId
  <2>1. PICK l \in Channels : cfg' = [cfg EXCEPT !.link_id = l] /\ given' = [given EXCEPT !.L = {l}]
    BY <1>2 DEF OptLinkId
  <2>2. cfg' \in CfgType /\ given' \in GivenType
    BY <1>0, <2>1 DEF CfgType, GivenType
  <2>3. QED
    BY <1>0, <1>2, <2>1, <2>2, OptionKeeps DEF OptLinkId, CfgType, GivenType
<1>3. CASE OptMonitor
  <2>1. PICK c1, c2 \in Channels :
          /\ cfg' = [cfg EXCEPT !.channel = c1, !.channel2 = c2, !.link_id = c1, !.monitor = TRUE]
          /\ given' = [given EXCEPT !.M = {<<c1, c2>>}]
    BY <1>3 DEF OptMonitor
  <2>2. cfg' \in CfgType /\ given' \in GivenType
    <3>1. cfg' \in CfgType
      BY <1>0, <2>1 DEF CfgType
    <3>2. {<<c1, c2>>} \in SUBSET (Channels \X Channels)
      OBVIOUS
    <3>3. given' \in GivenType
      BY <1>0, <2>1, <3>2 DEF GivenType
    <3>4. QED
      BY <3>1, <3>3
  <2>3. cfg'.channel2 = c2
    BY <1>0, <2>1 DEF CfgType
  <2>4. QED
    BY <1>3, <2>2, <2>3, OptionKeeps DEF OptMonitor
<1>4. ASSUME Option, cfg' \in CfgType, given' \in GivenType,
             cfg'.monitor = cfg.monitor, cfg'.channel2 = cfg.channel2
      PROVE  OptionsInv'
  BY <1>0, <1>4, OptionKeeps
<1>5. CASE OptPort \/ OptSource \/ OptUdp
  BY <1>0, <1>4, <1>5 DEF OptPort, OptSource, OptUdp, CfgType
<1>6. CASE OptClient
  <2>1. PICK h \in Hosts, p \in Ports :
          /\ cfg' = [cfg EXCEPT !.mode = "client", !.host = h, !.port = p]
          /\ given' = [given EXCEPT !.r = {<<h, p>>}]
    BY <1>6 DEF OptClient
  <2>2. cfg' \in CfgType
    BY <1>0, <2>1 DEF CfgType
  <2>3. {<<h, p>>} \in SUBSET (Hosts \X Ports)
    OBVIOUS
  <2>4. given' \in GivenType
    BY <1>0, <2>1, <2>3 DEF GivenType
  <2>5. UNCHANGED <<cfg.monitor, cfg.channel2>>
    BY <1>0, <2>1 DEF CfgType
  <2>6. QED
    BY <1>4, <1>6, <2>2, <2>4, <2>5 DEF OptClient
<1>7. CASE OptRmap
  <2>1. PICK p \in Ports \cup {cfg.rmap_port} : cfg' = [cfg EXCEPT !.rmap = TRUE, !.rmap_port = p]
    BY <1>7 DEF OptRmap
  <2>2. p \in 1 .. MaxPort
    BY <1>0 DEF CfgType
  <2>3. QED
    BY <1>0, <1>4, <1>7, <2>1, <2>2 DEF OptRmap, CfgType
<1>8. CASE OptGresb \/ OptSniff
  <2>1. CASE OptGresb
    <3>1. PICK l \in Links : cfg' = [cfg EXCEPT !.gresb = TRUE, !.gresb_link = l]
      BY <2>1 DEF OptGresb
    <3>2. cfg' \in CfgType
      BY <1>0, <3>1 DEF CfgType
    <3>3. QED
      BY <1>0, <1>4, <2>1, <3>1, <3>2 DEF OptGresb, CfgType
  <2>2. CASE OptSniff
    <3>1. cfg' \in CfgType
      BY <1>0, <2>2 DEF OptSniff, CfgType
    <3>2. QED
      BY <1>0, <1>4, <2>2, <3>1 DEF OptSniff, CfgType
  <2>3. QED
    BY <1>8, <2>1, <2>2
<1>9. CASE OptPath
  <2>1. \A n \in PathLens : Appended(n) \in 0 .. MaxPath
    <3>1. cfg.path_len \in 0 .. MaxPath /\ MaxPath \in Nat
      BY <1>0 DEF CfgType, MaxPath
    <3>2. QED
      BY <3>1 DEF Appended
  <2>2. QED
    BY <1>0, <1>4, <1>9, <2>1 DEF OptPath, CfgType
<1>10. CASE OptFlag
  BY <1>0, <1>4, <1>10 DEF OptFlag, CfgType
<1>11. CASE OptRejected
  BY <1>11 DEF OptRejected, Exit, OptionsInv, TypeOK, StageInv, StopMatchesStart, ThreadsOf
<1>12. CASE ParseDone
  <2>1. /\ stage = "parse" /\ stage' = "net" /\ locks' = {"data", "rmap"}
        /\ UNCHANGED <<nopts, cfg, given, up, threads, joined, opened, refused>>
    BY <1>12 DEF ParseDone
  <2>2. TypeOK'
    BY <2>1 DEF OptionsInv, TypeOK, Services
  <2>3. up = {} /\ threads = UNION {ThreadsOf(s) : s \in up}
    BY <2>1 DEF OptionsInv, StageInv
  <2>4. StageInv'
    BY <2>1, <2>3 DEF StageInv, ThreadsOf
  <2>5. QED
    BY <1>0, <2>1, <2>2, <2>4 DEF OptionsInv, StopMatchesStart
<1>13. QED
  BY <1>1, <1>2, <1>3, <1>5, <1>6, <1>7, <1>9, <1>10, <1>11, <1>12, <1>8 DEF Parse

\* net_start, spw_setup_device, net_stop and net_release.
LEMMA StagesKeep ==
  OptionsInv /\ (StartService \/ BindFailed \/ ConnectFailed \/ NetStarted \/ SetupFailed
                 \/ SetupDevice \/ NetStop \/ NetRelease) => OptionsInv'
<1> USE OptionsAssumption
<1>1. ASSUME OptionsInv, Exit, refused' \in Services \cup {None} PROVE OptionsInv'
  BY <1>1 DEF Exit, OptionsInv, TypeOK, StageInv, StopMatchesStart, ThreadsOf
<1>2. ASSUME OptionsInv, StartService PROVE OptionsInv'
  <2>1. PICK s \in Upcoming : /\ up' = up \cup {s}
                              /\ threads' = threads \cup ThreadsOf(s)
                              /\ locks' = locks \cup {s}
    BY <1>2 DEF StartService
  <2>2. stage = "net" /\ UNCHANGED <<stage, nopts, cfg, given, joined, opened, refused>>
    BY <1>2 DEF StartService
  <2>3. s \in Wanted /\ Wanted \subseteq Services
    BY <2>1 DEF Upcoming, Wanted, Services
  <2>4. TypeOK'
    <3>1. ThreadsOf(s) \subseteq Services \X {"accept", "poll"}
      BY <2>3 DEF ThreadsOf
    <3>2. QED
      BY <1>2, <2>1, <2>2, <2>3, <3>1 DEF OptionsInv, TypeOK
  <2>5. StageInv'
    <3>1. /\ threads = UNION {ThreadsOf(r) : r \in up}
          /\ up \subseteq Wanted /\ locks = {"data", "rmap"} \cup up
      BY <1>2, <2>2 DEF OptionsInv, StageInv
    <3>2. threads' = UNION {ThreadsOf(r) : r \in up'}
      BY <2>1, <3>1
    <3>3. \A r : ThreadsOf(r)' = ThreadsOf(r)
      BY <2>2 DEF ThreadsOf
    <3>4. threads' = UNION {ThreadsOf(r)' : r \in up'}
      BY <3>2, <3>3
    <3>5. up' \subseteq Wanted' /\ locks' = {"data", "rmap"} \cup up'
      BY <2>1, <2>2, <2>3, <3>1 DEF Wanted, WithGresb
    <3>6. QED
      BY <2>2, <3>4, <3>5 DEF StageInv
  <2>6. QED
    BY <1>2, <2>2, <2>4, <2>5 DEF OptionsInv, StopMatchesStart
<1>3. ASSUME OptionsInv, BindFailed PROVE OptionsInv'
  <2>1. Wanted \subseteq Services
    BY DEF Wanted, Services
  <2>2. QED
    BY <1>1, <1>3, <2>1 DEF BindFailed, Upcoming
<1>4. ASSUME OptionsInv, ConnectFailed \/ SetupFailed PROVE OptionsInv'
  BY <1>1, <1>4 DEF ConnectFailed, SetupFailed, OptionsInv, TypeOK
<1>5. ASSUME OptionsInv, NetStarted PROVE OptionsInv'
  <2>1. up = Wanted
    BY <1>5, NoneUpcoming DEF NetStarted, OptionsInv, StageInv
  <2>2. QED
    BY <1>5, <2>1 DEF NetStarted, OptionsInv, TypeOK, StageInv, StopMatchesStart, ThreadsOf,
                      Wanted, WithGresb
<1>6. ASSUME OptionsInv, SetupDevice PROVE OptionsInv'
  <2>1. /\ stage = "spw" /\ stage' = "run" /\ opened' = InUse
        /\ UNCHANGED <<nopts, cfg, given, up, locks, threads, joined, refused>>
    BY <1>6 DEF SetupDevice
  <2>2. opened' \subseteq Channels \cup {cfg.channel}
    BY <1>6, <2>1 DEF InUse, OptionsInv
  <2>3. TypeOK'
    BY <1>6, <2>1, <2>2 DEF OptionsInv, TypeOK
  <2>4. StageInv'
    BY <1>6, <2>1 DEF OptionsInv, StageInv, ThreadsOf, Wanted, WithGresb
  <2>5. QED
    BY <1>6, <2>1, <2>3, <2>4 DEF OptionsInv, StopMatchesStart
<1>7. ASSUME OptionsInv, NetStop PROVE OptionsInv'
  <2>1. /\ stage = "run" /\ stage' = "stopped" /\ joined' = Joins
        /\ UNCHANGED <<nopts, cfg, given, up, locks, threads, opened, refused>>
    BY <1>7 DEF NetStop
  <2>2. joined' = threads'
    BY <1>7, <2>1, JoinsAreThreads DEF OptionsInv, StageInv
  <2>3. TypeOK'
    BY <1>7, <2>1, <2>2 DEF OptionsInv, TypeOK
  <2>4. StageInv'
    BY <1>7, <2>1 DEF OptionsInv, StageInv, ThreadsOf, Wanted, WithGresb
  <2>5. QED
    BY <1>7, <2>1, <2>2, <2>3, <2>4 DEF OptionsInv, StopMatchesStart
<1>8. ASSUME OptionsInv, NetRelease PROVE OptionsInv'
  <2>1. /\ stage = "stopped" /\ stage' = "released" /\ locks' = locks \ Destroyed
        /\ UNCHANGED <<nopts, cfg, given, up, threads, joined, opened, refused>>
    BY <1>8 DEF NetRelease
  <2>2. locks' = {}
    <3>1. locks = {"data", "rmap"} \cup Wanted
      BY <1>8, <2>1 DEF OptionsInv, StageInv
    <3>2. QED
      BY <2>1, <3>1 DEF Destroyed, Wanted
  <2>3. TypeOK'
    BY <1>8, <2>1, <2>2 DEF OptionsInv, TypeOK
  <2>4. StageInv'
    BY <1>8, <2>1 DEF OptionsInv, StageInv, ThreadsOf
  <2>5. QED
    BY <1>8, <2>1, <2>2, <2>3, <2>4 DEF OptionsInv, StopMatchesStart
<1>9. QED
  BY <1>2, <1>3, <1>4, <1>5, <1>6, <1>7, <1>8

\* The invariant holds in every reachable state.
LEMMA OptionsInvAlways == Spec => []OptionsInv
<1>1. OptionsInv /\ [Next]_vars => OptionsInv'
  <2>1. OptionsInv /\ UNCHANGED vars => OptionsInv'
    BY DEF vars, OptionsInv, TypeOK, StageInv, StopMatchesStart, ThreadsOf, Wanted, WithGresb
  <2>2. QED
    BY <2>1, ParseKeeps, StagesKeep DEF Next, Ended
<1>2. QED
  BY <1>1, OptionsInvInit, PTL DEF Spec

\* parse_path never writes behind cfg->path, however often -n is given, and
\* the other fields stay in their ranges.
THEOREM PathFits == Spec => []TypeOK
<1>1. OptionsInv => TypeOK
  BY DEF OptionsInv
<1>2. QED
  BY <1>1, OptionsInvAlways, PTL

\* Whatever options are given, in whatever order and number, net_stop joins
\* the threads net_start created and net_release destroys its mutexes.
THEOREM StopUndoesStart == Spec => []StopMatchesStart
<1>1. OptionsInv => StopMatchesStart
  BY DEF OptionsInv
<1>2. QED
  BY <1>1, OptionsInvAlways, PTL

\* The packet paths lock only mutexes that net_start has initialised.
THEOREM TargetsReady == Spec => []PushTargetsReady
<1>1. OptionsInv => PushTargetsReady
  <2> SUFFICES ASSUME OptionsInv, stage = "run" PROVE PushTargets \subseteq (locks \cap up)
    BY DEF PushTargetsReady
  <2>1. up = Wanted /\ locks = {"data", "rmap"} \cup up
    BY DEF OptionsInv, StageInv
  <2>2. QED
    BY <2>1 DEF PushTargets, Wanted
<1>2. QED
  BY <1>1, OptionsInvAlways, PTL
=============================================================================
