--------------------------- MODULE TeardownProofs ---------------------------
(***************************************************************************)
(* What a command leaves behind when it reports that it is over: no daemon *)
(* that a pid file names, under every fault, and no device, policy routing *)
(* or IPv6 block, even if an earlier command was killed half way.          *)
(***************************************************************************)
EXTENDS SafetyProofs

USE DEF procVars, hostVars

-----------------------------------------------------------------------------
\* A daemon is known to the statements that follow its start, and gone after the
\* teardown has stopped it; only a Ctrl-C clears the files with daemons running.
AllStopped == \A d \in Daemons : proc[d] = "none"

Torn == {"down_v6", "down_policy", "down_tun_default", "down_link", "down_unpin",
         "down_default", "down_dns", "down_resolv", "down_done", "down_raised"}
Clearing == {"start_clash", "clear_pids", "clear_active", "clear_backup", "clear_bak"}

\* The part of NoDaemonLeft that is about a state.
StoppedWhenOver ==
  outcome \in {"down", "down failed", "cleaned", "failed", "rollback failed", "tested"}
    => AllStopped

DaemonsInv ==
  /\ TypeInv
  /\ StoppedWhenOver
  /\ proc["xray"] = "spawned" => pc = "record_xray"
  /\ proc["tun2socks"] = "spawned" => pc = "up_record"
  /\ pc \in {"pick"} \cup Torn => AllStopped
  /\ pc \in Clearing => AllStopped \/ outcome = "interrupted"
  /\ pc = "stop_clash" /\ cmd = "full" => AllStopped
  /\ pc \in {"record_xray", "await_socks", "stop_clash"} \cup {"up_dev", "up_snapshot", "up_main", "up_spawn"}
       => proc["tun2socks"] = "none"
  /\ pc = "down_t2" => proc["xray"] = "none"
  /\ pc # "idle" =>
       /\ outcome \in {"running", "interrupted", "rollback failed"}
       /\ outcome = "interrupted" => cmd = "full"
       /\ outcome = "rollback failed" => cmd = "up" /\ pc \in Clearing

LEMMA StopDaemons ==
  ASSUME TypeInv, NEW d \in Daemons, Dies(d) \/ StopDaemon(d)
  PROVE  /\ \A e \in Daemons : e # d => proc'[e] = proc[e]
         /\ proc'[d] # proc[d] => proc'[d] = "none"
         /\ Dies(d) \/ proc[d] # "spawned" => proc'[d] = "none"
  BY Shapes DEF Dies, Lingers, StopDaemon, Running

LEMMA DaemonsUp ==
  ASSUME DaemonsInv, TypeInv', ApplyUp, UNCHANGED <<cmd, cand, stopped, outcome>>
  PROVE  DaemonsInv'
<1> USE Shapes DEF DaemonsInv, StoppedWhenOver, AllStopped, Daemons, Goto, Torn, Clearing
<1>1. CASE TakeSnapshot
  <2>1. pc = "up_dev" /\ pc' = "up_snapshot" /\ proc' = proc
    BY <1>1 DEF TakeSnapshot
  <2> QED
    BY <2>1
<1>2. ASSUME NEW a, NEW p, NEW q,
             Install(a, p, q), <<p, q>> \in {<<"up_main", "up_spawn">>, <<"up_verify", "up_verify">>,
               <<"up_table", "up_direct">>, <<"up_direct", "up_marks">>,
               <<"up_marks", "up_verify_final">>}
      PROVE  DaemonsInv'
  <2>1. pc = p /\ pc' = q /\ proc' = proc
    BY <1>2 DEF Install
  <2> QED
    BY <1>2, <2>1
<1>3. CASE SpawnTun2socks \/ RecordTun2socks
  BY <1>3 DEF SpawnTun2socks, RecordTun2socks
<1>4. CASE WriteSnapshot \/ DevAppeared \/ BringLinkUp \/ PinServer \/ PinVerified
  BY <1>4 DEF WriteSnapshot, DevAppeared, BringLinkUp, PinServer, PinVerified
<1>5. CASE DeleteDefault \/ DefaultsDeleted \/ AddTunDefault
  BY <1>5 DEF DeleteDefault, DefaultsDeleted, AddTunDefault
<1>6. CASE PinStillHolds \/ BlockIpv6 \/ SteerTunDns \/ FallBackToResolv
  BY <1>6 DEF PinStillHolds, BlockIpv6, SteerTunDns, FallBackToResolv
<1>7. CASE SteerPhysOff \/ WriteResolv \/ StopResolved \/ SaveDnsMode
  BY <1>7 DEF SteerPhysOff, WriteResolv, StopResolved, SaveDnsMode
<1>8. CASE Tun2socksExits
  BY <1>8, StopDaemons DEF Tun2socksExits
<1>9. CASE ApplyUpRaises \/ SnapshotWriteFails
  BY <1>9 DEF ApplyUpRaises, SnapshotWriteFails
<1> QED
  BY <1>1, <1>2, <1>3, <1>4, <1>5, <1>6, <1>7, <1>8, <1>9 DEF ApplyUp

LEMMA DaemonsDown ==
  ASSUME DaemonsInv, TypeInv', ApplyDown, UNCHANGED <<cmd, cand, stopped, outcome>>
  PROVE  DaemonsInv'
<1> USE Shapes DEF DaemonsInv, StoppedWhenOver, AllStopped, Daemons, Goto, Torn, Clearing
<1>1. CASE StopTun2socks
  BY <1>1, StopDaemons DEF StopTun2socks
<1>2. CASE UnblockIpv6 \/ RemoveArtefact \/ PolicyRemoved \/ ApplyDownRaises
  BY <1>2 DEF UnblockIpv6, RemoveArtefact, PolicyRemoved, ApplyDownRaises
<1>3. CASE DeleteTunDefault \/ DeleteLink \/ UnpinServer \/ RestoreDefault
  BY <1>3 DEF DeleteTunDefault, DeleteLink, UnpinServer, RestoreDefault
<1>4. CASE RevertResolved \/ StartResolved \/ RestoreResolv
  BY <1>4 DEF RevertResolved, StartResolved, RestoreResolv
<1> QED
  BY <1>1, <1>2, <1>3, <1>4 DEF ApplyDown

LEMMA DaemonsSession ==
  ASSUME DaemonsInv, TypeInv', Command,
         ~((ApplyUp \/ ApplyDown) /\ UNCHANGED <<cmd, cand, stopped, outcome>>)
  PROVE  DaemonsInv'
<1> USE Shapes DEF DaemonsInv, StoppedWhenOver, AllStopped, Daemons, Goto, Torn, Clearing
<1>1. CASE CandidateFails \/ SpawnXray \/ RecordXray \/ SocksAnswers
  BY <1>1 DEF CandidateFails, SpawnXray, RecordXray, SocksAnswers
<1>2. CASE SocksTimeout
  BY <1>2, StopDaemons DEF SocksTimeout
<1>3. CASE NoneConnects \/ UnitsStopped \/ NoSystemctl \/ SaveActive \/ RollBack
  BY <1>3 DEF NoneConnects, UnitsStopped, NoSystemctl, SaveActive, RollBack, End
<1>4. ASSUME NEW u \in Units, StopUnit(u) \/ StartUnit(u) PROVE DaemonsInv'
  BY <1>4 DEF StopUnit, StartUnit
<1>5. CASE StopXray
  BY <1>5, StopDaemons DEF StopXray
<1>6. CASE Pkill
  BY <1>6 DEF Pkill
<1>7. CASE TornDown \/ TeardownRaised \/ UnitsStarted \/ Measured \/ AllTested
  BY <1>7 DEF TornDown, TeardownRaised, UnitsStarted, Measured, AllTested, End, Report
<1>8. CASE ClearActive \/ ClearBackup \/ ClearResolvBak
  BY <1>8 DEF ClearActive, ClearBackup, ClearResolvBak, End, Report
<1>9. CASE ClearPids
  <2>1. /\ pc = "clear_pids" /\ pc' \in {"clear_active", "clear_backup"}
        /\ UNCHANGED <<cmd, outcome>>
        /\ \A d \in Daemons : proc'[d] \in {"none", proc[d]}
    BY <1>9 DEF ClearPids
  <2> QED
    BY <2>1
<1> QED
  BY <1>1, <1>2, <1>3, <1>4, <1>5, <1>6, <1>7, <1>8, <1>9 DEF Command

LEMMA DaemonsElse ==
  ASSUME DaemonsInv, TypeInv',
         User \/ (Environment /\ UNCHANGED localVars) \/ Crash \/ Interrupt \/ Reboot \/ UNCHANGED vars
  PROVE  DaemonsInv'
<1> USE Shapes DEF DaemonsInv, StoppedWhenOver, AllStopped, Daemons, Goto, Torn, Clearing
<1>1. CASE User
  BY <1>1 DEF User, UpBegins, FullBegins, DownNotRunning, DownBegins, NothingToClean,
     EmergencyBegins, Begin, End, Running
<1>2. CASE (XrayBinds \/ TunAppears) /\ UNCHANGED localVars
  BY <1>2 DEF XrayBinds, TunAppears, localVars
<1>3. ASSUME NEW d \in Daemons, DaemonDies(d) \/ OrphanEnds(d) \/ DyingEnds(d),
             UNCHANGED localVars
      PROVE  DaemonsInv'
  BY <1>3, StopDaemons DEF DaemonDies, OrphanEnds, DyingEnds, localVars
<1>4. ASSUME NEW r \in Routes, LinkRenew(r), UNCHANGED localVars PROVE DaemonsInv'
  BY <1>4 DEF LinkRenew, localVars
<1>5. CASE Crash \/ Interrupt
  <2>1. proc' = [d \in Daemons |-> IF proc[d] = "spawned" THEN "none" ELSE proc[d]]
    BY <1>5 DEF Crash, Interrupt, Unrecorded
  <2>2. proc'["xray"] # "spawned" /\ proc'["tun2socks"] # "spawned"
    BY <2>1
  <2>3. CASE Crash
    BY <2>2, <2>3 DEF Crash, End
  <2>4. CASE Interrupt
    BY <2>2, <2>4 DEF Interrupt
  <2> QED
    BY <1>5, <2>3, <2>4
<1>6. CASE Reboot
  BY <1>6 DEF Reboot, MachineRestarts, End
<1>7. CASE UNCHANGED vars
  BY <1>7 DEF vars, localVars
<1> QED
  BY <1>1, <1>2, <1>3, <1>4, <1>5, <1>6, <1>7 DEF Environment

LEMMA InitDaemons == Init => DaemonsInv
  BY InitType DEF Init, HostInit, DaemonsInv, StoppedWhenOver, AllStopped, Daemons, Torn, Clearing

LEMMA NextDaemons == DaemonsInv /\ [Next]_vars => DaemonsInv'
<1>1. DaemonsInv /\ [Next]_vars => TypeInv'
  BY NextType DEF DaemonsInv
<1> QED
  BY <1>1, DaemonsUp, DaemonsDown, DaemonsSession, DaemonsElse DEF Next, Command

\* No step but a kill of the command or a Ctrl-C lets a running daemon get out of
\* sight: a pid file is cleared when its daemon has been stopped.
LEMMA InSight ==
  ASSUME DaemonsInv, [Next]_vars
  PROVE  outcome' \in {"crashed", "interrupted"} \/ orphans' \subseteq orphans
<1>1. CASE ApplyUp
  BY <1>1 DEF ApplyUp, TakeSnapshot, WriteSnapshot, Install, SpawnTun2socks, RecordTun2socks,
     DevAppeared, BringLinkUp, PinServer, PinVerified, DeleteDefault, DefaultsDeleted,
     AddTunDefault, PinStillHolds, BlockIpv6, SteerTunDns, FallBackToResolv, SteerPhysOff,
     WriteResolv, StopResolved, SaveDnsMode, Tun2socksExits, Dies, ApplyUpRaises,
     SnapshotWriteFails
<1>2. CASE ApplyDown
  BY <1>2 DEF ApplyDown, StopTun2socks, StopDaemon, Dies, Lingers, UnblockIpv6, RemoveArtefact,
     PolicyRemoved, ApplyDownRaises, DeleteTunDefault, DeleteLink, UnpinServer, RestoreDefault,
     RevertResolved, StartResolved, RestoreResolv
<1>3. CASE ClearPids
  <2>1. CASE outcome = "interrupted"
    BY <1>3, <2>1 DEF ClearPids
  <2>2. CASE outcome # "interrupted"
    <3>1. AllStopped
      BY <1>3, <2>2 DEF DaemonsInv, ClearPids, Goto, Clearing
    <3>2. PICK cleared \in SUBSET Daemons : orphans' = orphans \cup {d \in cleared : Running(d)}
      BY <1>3, PidsCleared
    <3> QED
      BY <3>1, <3>2 DEF AllStopped, Running
  <2> QED
    BY <2>1, <2>2
<1>4. CASE Command /\ ~ApplyUp /\ ~ApplyDown /\ ~ClearPids
  BY <1>4 DEF Command, CandidateFails, SpawnXray, RecordXray, SocksAnswers, SocksTimeout,
     StopDaemon, Dies, Lingers, NoneConnects, UnitsStopped, NoSystemctl, SaveActive, RollBack,
     Measured, AllTested, StopUnit, StartUnit, StopXray, Pkill, TornDown, TeardownRaised,
     UnitsStarted, ClearActive, ClearBackup, ClearResolvBak
<1>5. CASE User
  BY <1>5 DEF User, UpBegins, FullBegins, DownNotRunning, DownBegins, NothingToClean,
     EmergencyBegins
<1>6. CASE Environment
  BY <1>6 DEF Environment, XrayBinds, TunAppears, DaemonDies, OrphanEnds, DyingEnds, Dies,
     LinkRenew
<1>7. CASE Crash \/ Interrupt \/ Reboot
  BY <1>7 DEF Crash, Interrupt, Reboot, MachineRestarts, End
<1>8. CASE UNCHANGED vars
  BY <1>8 DEF vars
<1> QED
  BY <1>1, <1>2, <1>3, <1>4, <1>5, <1>6, <1>7, <1>8 DEF Next

\* On every machine and under every fault, a command that reports anything but
\* "up" leaves no daemon that a pid file names (cmd_up stops both before it gives up,
\* the teardown stops them before the first statement that may raise), and the only
\* way for a daemon to lose its pid file while it runs is a command that is killed
\* or cut short by a Ctrl-C.
THEOREM NoDaemonEver == Spec => NoDaemonLeft
<1>1. ASSUME DaemonsInv, DaemonsInv', [Next]_vars
      PROVE  [/\ outcome' \in {"down", "down failed", "cleaned", "failed", "rollback failed",
                               "tested"} => \A d \in Daemons : proc'[d] = "none"
              /\ outcome' \in {"crashed", "interrupted"} \/ orphans' \subseteq orphans]_vars
  BY <1>1, InSight DEF DaemonsInv, StoppedWhenOver, AllStopped
<1> QED
  BY <1>1, InitDaemons, NextDaemons, PTL DEF Spec, NoDaemonLeft

-----------------------------------------------------------------------------
\* What drkvl put into the kernel is there only as long as BACKUP is, and each
\* statement of apply_down may count on what the ones before it have removed.
CleanInv ==
  /\ WayBackInv
  /\ DaemonsInv
  /\ KernelClean
  /\ cmd # "full"
  /\ ~Snap => /\ net.policy = {} /\ net.ip6 = "open" /\ Tun \notin net.defaults
              /\ net.link = "absent" /\ proc["tun2socks"] = "none"
  /\ pc \in Reopened => net.ip6 = "open"
  /\ pc \in Reopened \ {"down_policy"} => net.policy = {}
  /\ pc \in {"down_link", "down_unpin", "down_default"} => Tun \notin net.defaults
  /\ pc \in {"down_unpin", "down_default"} => net.link = "absent"
  /\ pc \in Restored => NetRestored

\* What CleanInv takes from the two invariants it contains.
Placed ==
  /\ TypeInv
  /\ pc # "idle" => outcome \notin {"down", "cleaned"}
  /\ pc \in {"up_done"} \cup BeforePin \cup AfterPin => Snap
  /\ ~Snap \/ pc \in Restored => PhysDefaults # {}
  /\ pc \in {"stop_xray", "pkill"} /\ cmd = "sweep" => ~Snap
  /\ pc = "pkill" => cmd \in {"emergency", "sweep"}
  /\ pc \in Reopened \/ (pc \in Restored /\ cmd # "full") \/ outcome \in {"down", "cleaned"}
       => proc["tun2socks"] = "none"
  /\ pc # "down_raised"

LEMMA PlacedNow == WayBackInv /\ DaemonsInv => Placed
<1> SUFFICES ASSUME WayBackInv, DaemonsInv PROVE Placed
  OBVIOUS
<1>1. /\ TypeInv
      /\ pc \in {"up_done"} \cup BeforePin \cup AfterPin => Snap
      /\ ~Snap \/ pc \in Restored => PhysDefaults # {}
      /\ pc \in {"stop_xray", "pkill"} /\ cmd = "sweep" => ~Snap
      /\ pc = "pkill" => cmd \in {"emergency", "sweep"}
      /\ pc # "down_raised"
  BY DEF WayBackInv, DefaultRecoverable
<1>2. pc # "idle" => outcome \notin {"down", "cleaned"}
  BY DEF DaemonsInv
<1>3. pc \in Reopened \/ (pc \in Restored /\ cmd # "full") \/ outcome \in {"down", "cleaned"}
        => proc["tun2socks"] = "none"
  BY DEF DaemonsInv, Reopened, Restored, StoppedWhenOver, AllStopped, Daemons, Torn, Clearing
<1> QED
  BY <1>1, <1>2, <1>3 DEF Placed

LEMMA PlacedNext == WayBackInv' /\ DaemonsInv' => Placed'
  BY PlacedNow, PTL

LEMMA CleanUp ==
  ASSUME WayBackAssumption, CleanInv, WayBackInv', DaemonsInv', ApplyUp,
         UNCHANGED <<cmd, cand, stopped, outcome>>
  PROVE  CleanInv'
<1> USE Shapes, PlacedNow, PlacedNext DEF Placed, CleanInv, KernelClean, NetRestored, Snap, Goto, Restored,
      Reopened, BeforePin, AfterPin
<1>1. CASE TakeSnapshot
  <2>1. /\ net' = net /\ proc' = proc /\ pc' = "up_snapshot" /\ pc = "up_dev"
        /\ disk'.backup = disk.backup
    BY <1>1 DEF TakeSnapshot
  <2> QED
    BY <2>1 DEF PhysDefaults
<1>2. ASSUME NEW a, NEW p, NEW q,
             Install(a, p, q), <<p, q>> \in {<<"up_main", "up_spawn">>, <<"up_verify", "up_verify">>,
               <<"up_table", "up_direct">>, <<"up_direct", "up_marks">>,
               <<"up_marks", "up_verify_final">>}
      PROVE  CleanInv'
  BY <1>2 DEF Install
<1>3. CASE SpawnTun2socks \/ RecordTun2socks \/ DevAppeared \/ BringLinkUp
  BY <1>3 DEF SpawnTun2socks, RecordTun2socks, DevAppeared, BringLinkUp
<1>4. CASE WriteSnapshot \/ PinServer \/ PinVerified
  BY <1>4 DEF WriteSnapshot, PinServer, PinVerified
<1>5. CASE DeleteDefault \/ DefaultsDeleted \/ AddTunDefault
  BY <1>5 DEF DeleteDefault, DefaultsDeleted, AddTunDefault
<1>6. CASE PinStillHolds \/ BlockIpv6 \/ SteerTunDns \/ FallBackToResolv
  BY <1>6 DEF PinStillHolds, BlockIpv6, SteerTunDns, FallBackToResolv
<1>7. CASE SteerPhysOff \/ WriteResolv \/ StopResolved \/ SaveDnsMode
  BY <1>7 DEF SteerPhysOff, WriteResolv, StopResolved, SaveDnsMode
<1>8. CASE Tun2socksExits
  BY <1>8, DiesRoutes, LinkGoneFields DEF Tun2socksExits, Daemons, LinkGone
<1>9. CASE ApplyUpRaises
  BY <1>9 DEF ApplyUpRaises
<1>10. CASE SnapshotWriteFails
  BY <1>10 DEF SnapshotWriteFails, WayBackAssumption
<1> QED
  BY <1>1, <1>2, <1>3, <1>4, <1>5, <1>6, <1>7, <1>8, <1>9, <1>10 DEF ApplyUp

LEMMA CleanDown ==
  ASSUME WayBackAssumption, CleanInv, WayBackInv', DaemonsInv', ApplyDown,
         UNCHANGED <<cmd, cand, stopped, outcome>>
  PROVE  CleanInv'
<1> USE Shapes, PlacedNow, PlacedNext DEF Placed, CleanInv, KernelClean, NetRestored, Snap, Goto, Restored,
      Reopened, BeforePin, AfterPin, Ineffective, WayBackAssumption
<1>1. CASE StopTun2socks
  BY <1>1, StopRoutes, StopDaemons, LinkGoneFields DEF StopTun2socks, Daemons, LinkGone
<1>2. CASE UnblockIpv6 \/ RemoveArtefact \/ PolicyRemoved
  BY <1>2 DEF UnblockIpv6, RemoveArtefact, PolicyRemoved
<1>3. CASE ApplyDownRaises
  BY <1>3 DEF ApplyDownRaises
<1>4. CASE DeleteTunDefault \/ UnpinServer
  BY <1>4 DEF DeleteTunDefault, UnpinServer
<1>5. CASE DeleteLink
  <2>1. LinkGone.policy = net.policy
    BY DEF LinkGone
  <2> QED
    BY <1>5, <2>1, LinkGoneFields DEF DeleteLink
<1>6. CASE RestoreDefault
  BY <1>6, ConstantsAssumption DEF RestoreDefault
<1>7. CASE RevertResolved \/ StartResolved \/ RestoreResolv
  BY <1>7 DEF RevertResolved, StartResolved, RestoreResolv
<1> QED
  BY <1>1, <1>2, <1>3, <1>4, <1>5, <1>6, <1>7 DEF ApplyDown

LEMMA CleanSession ==
  ASSUME WayBackAssumption, CleanInv, WayBackInv', DaemonsInv', Command,
         ~((ApplyUp \/ ApplyDown) /\ UNCHANGED <<cmd, cand, stopped, outcome>>)
  PROVE  CleanInv'
<1> USE Shapes, PlacedNow, PlacedNext DEF Placed, CleanInv, KernelClean, NetRestored, Snap, Goto, Restored,
      Reopened, BeforePin, AfterPin
<1>1. CASE CandidateFails \/ SpawnXray \/ RecordXray \/ SocksAnswers
  <2>1. proc'["tun2socks"] = proc["tun2socks"]
    BY <1>1 DEF CandidateFails, SpawnXray, RecordXray, SocksAnswers, Daemons
  <2> QED
    BY <1>1, <2>1 DEF CandidateFails, SpawnXray, RecordXray, SocksAnswers
<1>2. CASE SocksTimeout
  <2>1. proc'["tun2socks"] = proc["tun2socks"]
    BY <1>2, StopDaemons DEF SocksTimeout, Daemons
  <2> QED
    BY <1>2, <2>1, StopRoutes, LinkGoneFields DEF SocksTimeout, Daemons, LinkGone
<1>3. CASE NoneConnects \/ UnitsStopped \/ NoSystemctl \/ SaveActive \/ RollBack
  BY <1>3 DEF NoneConnects, UnitsStopped, NoSystemctl, SaveActive, RollBack, End
<1>4. ASSUME NEW u \in Units, StopUnit(u) \/ StartUnit(u) PROVE CleanInv'
  BY <1>4 DEF StopUnit, StartUnit
<1>5. CASE StopXray
  <2>1. proc'["tun2socks"] = proc["tun2socks"]
    BY <1>5, StopDaemons DEF StopXray, Daemons
  <2> QED
    BY <1>5, <2>1, StopRoutes, LinkGoneFields DEF StopXray, Daemons, LinkGone
<1>6. CASE Pkill
  <2>1. /\ proc'["tun2socks"] = "none" /\ net' \in {net, LinkGone}
        /\ UNCHANGED <<disk, cmd, outcome, snap>>
        /\ pc = "pkill" /\ pc' = IF cmd = "emergency" THEN "down_t2" ELSE "clear_pids"
    BY <1>6 DEF Pkill, Daemons
  <2> QED
    BY <2>1, LinkGoneFields DEF LinkGone
<1>7. CASE TornDown \/ TeardownRaised \/ UnitsStarted \/ Measured \/ AllTested
  <2>1. CASE TornDown
    BY <2>1 DEF TornDown
  <2>2. CASE TeardownRaised \/ Measured \/ AllTested
    BY <2>2 DEF TeardownRaised, Measured, AllTested
  <2>3. CASE UnitsStarted
    BY <2>3 DEF UnitsStarted, End, PhysDefaults
  <2> QED
    BY <1>7, <2>1, <2>2, <2>3
<1>8. CASE ClearPids \/ ClearActive \/ ClearBackup \/ ClearResolvBak
  <2>0. CASE ClearPids
    BY <2>0 DEF ClearPids, Daemons
  <2>1. CASE ClearActive
    BY <2>1 DEF ClearActive
  <2>2. CASE ClearBackup
    BY <2>2 DEF ClearBackup
  <2>3. CASE ClearResolvBak
    BY <2>3 DEF ClearResolvBak, End, PhysDefaults
  <2> QED
    BY <1>8, <2>0, <2>1, <2>2, <2>3
<1> QED
  BY <1>1, <1>2, <1>3, <1>4, <1>5, <1>6, <1>7, <1>8 DEF Command

LEMMA CleanElse ==
  ASSUME WayBackAssumption, "full" \notin Commands, CleanInv, WayBackInv', DaemonsInv',
         User \/ (Environment /\ UNCHANGED localVars) \/ Crash \/ Interrupt \/ Reboot \/ UNCHANGED vars
  PROVE  CleanInv'
<1> USE Shapes, PlacedNow, PlacedNext DEF Placed, CleanInv, KernelClean, NetRestored, Snap, Goto, Restored,
      Reopened, BeforePin, AfterPin, PhysDefaults
<1>1. CASE User
  <2>1. CASE \E C \in SUBSET Servers : UpBegins(C)
    BY <2>1 DEF UpBegins, Begin
  <2>2. CASE DownNotRunning \/ DownBegins \/ NothingToClean
    BY <2>2 DEF DownNotRunning, DownBegins, NothingToClean, Begin, End
  <2>3. CASE EmergencyBegins
    BY <2>3 DEF EmergencyBegins, Leftovers, Begin, DevExists
  <2> QED
    BY <1>1, <2>1, <2>2, <2>3 DEF User
<1>2. CASE (XrayBinds \/ TunAppears) /\ UNCHANGED localVars
  BY <1>2 DEF XrayBinds, TunAppears, DevExists, localVars
<1>3. ASSUME NEW d \in Daemons, DaemonDies(d) \/ OrphanEnds(d) \/ DyingEnds(d),
             UNCHANGED localVars
      PROVE  CleanInv'
  <2>1. proc'["tun2socks"] \in {"none", proc["tun2socks"]}
    BY <1>3, StopDaemons DEF DaemonDies, OrphanEnds, DyingEnds, Daemons
  <2> QED
    BY <1>3, <2>1, EndsAlone, LinkGoneFields DEF localVars, LinkGone
<1>4. ASSUME NEW r \in Routes, LinkRenew(r), UNCHANGED localVars PROVE CleanInv'
  BY <1>4 DEF LinkRenew, localVars
<1>5. CASE Crash \/ Interrupt
  <2>1. CASE Interrupt
    BY <2>1 DEF Interrupt, WayBackAssumption
  <2>2. CASE Crash
    <3>1. /\ proc'["tun2socks"] \in {"none", proc["tun2socks"]} /\ pc' = "idle"
          /\ cmd' = "none" /\ outcome' = "crashed" /\ disk'.backup = disk.backup
          /\ net' = net \/ (pc = "up_record" /\ net' = [net EXCEPT !.link = "down"])
      <4>1. net' = net \/ (proc["tun2socks"] = "spawned" /\ net' = [net EXCEPT !.link = "down"])
        BY <2>2 DEF Crash, Unrecorded
      <4>2. proc["tun2socks"] = "spawned" => pc = "up_record"
        BY DEF DaemonsInv
      <4>3. proc'["tun2socks"] \in {"none", proc["tun2socks"]}
        BY <2>2 DEF Crash, Unrecorded, Daemons
      <4>4. pc' = "idle" /\ cmd' = "none" /\ outcome' = "crashed" /\ disk'.backup = disk.backup
        BY <2>2 DEF Crash, End, WayBackAssumption
      <4> QED
        BY <4>1, <4>2, <4>3, <4>4
    <3> QED
      BY <3>1
  <2> QED
    BY <1>5, <2>1, <2>2
<1>6. CASE Reboot
  BY <1>6 DEF Daemons, Reboot, MachineRestarts, PlainNet, HostSetup, End
<1>7. CASE UNCHANGED vars
  BY <1>7 DEF vars, localVars
<1> QED
  BY <1>1, <1>2, <1>3, <1>4, <1>5, <1>6, <1>7 DEF Environment

\* A down or emergency-off that reports success has removed the device, the policy
\* routing and the IPv6 block, whatever killed the commands before it and whatever
\* died meanwhile.  Without speedtest --full: the BACKUP it deletes may be the one
\* that a killed up left behind.
THEOREM KernelCleaned ==
  ASSUME WayBackAssumption, "full" \notin Commands
  PROVE  Spec => []KernelClean
<1>1. Init => CleanInv
  BY InitWayBack, InitDaemons, Shapes DEF Daemons, Init, HostInit, PlainNet, HostSetup, CleanInv,
     KernelClean, NetRestored, Snap, Restored, Reopened, WayBackInv
<1>2. CleanInv /\ [Next]_vars => CleanInv'
  <2>1. CleanInv /\ [Next]_vars => WayBackInv' /\ DaemonsInv'
    BY NextWayBack, NextDaemons DEF CleanInv
  <2> QED
    BY <2>1, CleanUp, CleanDown, CleanSession, CleanElse DEF Next, Command
<1>3. CleanInv => KernelClean
  BY DEF CleanInv
<1> QED
  BY <1>1, <1>2, <1>3, PTL DEF Spec
=============================================================================
