---------------------------- MODULE SafetyProofs ----------------------------
(***************************************************************************)
(* Four safety properties of a session, each from an inductive invariant   *)
(* that ties the machine to the statement a running command has reached.   *)
(* Each names what it assumes of the faults and the machines.              *)
(***************************************************************************)
EXTENDS SessionProofs

USE DEF procVars, hostVars

-----------------------------------------------------------------------------
\* The parts of TypeInv that the invariants of this module rest on.
LEMMA Shapes ==
  ASSUME TypeInv
  PROVE  /\ net \in [link: {"absent", "down", "up"}, defaults: SUBSET (Routes \cup {Tun}),
              pinned: SUBSET Servers, policy: SUBSET ArtefactSet,
              ip6: {"open", "dropped", "disabled"}]
         /\ disk \in [backup: Snapshots \cup {NoSnap}, bak: BOOLEAN, active: SUBSET Units]
         /\ proc \in [Daemons -> {"none", "spawned", "known"}]
         /\ host \in HostSetup
         /\ pc \in {"up_snapshot"} \cup BeforePin \cup AfterPin => snap \in Snapshots
         /\ Tun \notin Routes
         /\ NoSnap \notin Snapshots
  BY ConstantsAssumption DEF TypeInv, TypeOK, HostTypeOK

LEMMA LinkGoneFields ==
  ASSUME TypeInv
  PROVE  /\ LinkGone.link = "absent"
         /\ LinkGone.defaults = net.defaults \ {Tun}
         /\ LinkGone.pinned = net.pinned
         /\ LinkGone.ip6 = net.ip6
         /\ LinkGone.defaults \cap Routes = PhysDefaults
  BY Shapes DEF LinkGone, PhysDefaults

\* What a daemon's end and StopDaemon do to the routes.
LEMMA DiesRoutes ==
  ASSUME NEW d \in Daemons, Dies(d)
  PROVE  net' = net \/ net' = LinkGone
  BY DEF Dies, Frees

LEMMA StopRoutes ==
  ASSUME NEW d \in Daemons, StopDaemon(d)
  PROVE  net' = net \/ net' = LinkGone
  BY DEF StopDaemon, Dies, Lingers, Frees

\* A daemon that ends by itself: nothing of drkvl's own moves, the routes over
\* drkvl0 and the resolver's use of it go together.
LEMMA EndsAlone ==
  ASSUME NEW d \in Daemons, DaemonDies(d) \/ OrphanEnds(d) \/ DyingEnds(d)
  PROVE  /\ UNCHANGED <<net, dns>> \/ (net' = LinkGone /\ dns' = LinkDnsGone)
         /\ UNCHANGED <<host, disk, clash>>
  BY DEF DaemonDies, OrphanEnds, DyingEnds, Dies, Frees

-----------------------------------------------------------------------------
\* No routing loop: the pin is there before the default moves into drkvl0, and
\* the default has left drkvl0 before the pin goes.
LoopInv ==
  /\ TypeInv
  /\ NoRoutingLoop
  /\ Tun \in net.defaults => net.link = "up"
  /\ pc \in AfterPin \cup {"up_done"} => server \in net.pinned
  /\ pc \in {"up_snapshot"} \cup BeforePin \cup AfterPin => snap.server = server
  /\ pc \in BeforePin \cup AfterPin \cup {"up_done"} /\ Snap => disk.backup.server = server
  /\ pc \in {"up_snapshot", "up_verify", "up_del_defaults", "up_tun_default",
             "down_link", "down_unpin"} \cup BeforePin => Tun \notin net.defaults

LEMMA LoopUp ==
  ASSUME LoopInv, TypeInv', ApplyUp
  PROVE  LoopInv'
<1> USE Shapes DEF LoopInv, NoRoutingLoop, Snap, Goto, Attempting, BeforePin, AfterPin
<1>1. CASE TakeSnapshot
  <2>1. snap'.server = server /\ server' = server /\ net' = net /\ pc' = "up_snapshot"
    <3>1. PICK d, k : snap' = Seen(d, k)
      BY <1>1, Zenon DEF TakeSnapshot
    <3> QED
      BY <1>1, <3>1 DEF TakeSnapshot, Seen
  <2>2. disk'.backup = disk.backup /\ Tun \notin net.defaults
    BY <1>1 DEF TakeSnapshot, DevExists
  <2> QED
    BY <2>1, <2>2
<1>2. CASE WriteSnapshot
  BY <1>2 DEF WriteSnapshot
<1>3. ASSUME NEW a, NEW p \in BeforePin \cup AfterPin, NEW q,
             Install(a, p, q), <<p, q>> \in {<<"up_main", "up_spawn">>, <<"up_verify", "up_verify">>,
               <<"up_table", "up_direct">>, <<"up_direct", "up_marks">>,
               <<"up_marks", "up_verify_final">>}
      PROVE  LoopInv'
  BY <1>3 DEF Install
<1>4. CASE SpawnTun2socks \/ RecordTun2socks \/ DevAppeared \/ BringLinkUp
  BY <1>4 DEF SpawnTun2socks, RecordTun2socks, DevAppeared, BringLinkUp
<1>5. CASE PinServer \/ PinVerified
  BY <1>5 DEF PinServer, PinVerified
<1>6. CASE DeleteDefault \/ DefaultsDeleted \/ AddTunDefault
  BY <1>6 DEF DeleteDefault, DefaultsDeleted, AddTunDefault
<1>7. CASE PinStillHolds \/ BlockIpv6 \/ SteerTunDns \/ FallBackToResolv
  BY <1>7 DEF PinStillHolds, BlockIpv6, SteerTunDns, FallBackToResolv
<1>8. CASE SteerPhysOff \/ WriteResolv \/ StopResolved
  BY <1>8 DEF SteerPhysOff, WriteResolv, StopResolved, Snapshots
<1>9. CASE SaveDnsMode
  BY <1>9 DEF SaveDnsMode
<1>10. CASE Tun2socksExits
  BY <1>10, DiesRoutes, LinkGoneFields DEF Tun2socksExits, Daemons
<1>11. CASE ApplyUpRaises \/ SnapshotWriteFails
  BY <1>11 DEF ApplyUpRaises, SnapshotWriteFails
<1> QED
  BY <1>1, <1>2, <1>3, <1>4, <1>5, <1>6, <1>7, <1>8, <1>9, <1>10, <1>11 DEF ApplyUp

LEMMA LoopDown ==
  ASSUME "unchecked" \notin Faults, LoopInv, TypeInv', ApplyDown
  PROVE  LoopInv'
<1> USE Shapes DEF LoopInv, NoRoutingLoop, Snap, Goto, BeforePin, AfterPin, Ineffective
<1>1. CASE StopTun2socks
  BY <1>1, StopRoutes, LinkGoneFields DEF StopTun2socks, Daemons
<1>2. CASE UnblockIpv6 \/ RemoveArtefact \/ PolicyRemoved \/ ApplyDownRaises
  BY <1>2 DEF UnblockIpv6, RemoveArtefact, PolicyRemoved, ApplyDownRaises
<1>3. CASE DeleteTunDefault \/ UnpinServer
  BY <1>3 DEF DeleteTunDefault, UnpinServer
<1>4. CASE DeleteLink
  BY <1>4, LinkGoneFields DEF DeleteLink
<1>5. CASE RestoreDefault
  BY <1>5, ConstantsAssumption DEF RestoreDefault
<1>6. CASE RevertResolved \/ StartResolved \/ RestoreResolv
  BY <1>6 DEF RevertResolved, StartResolved, RestoreResolv
<1> QED
  BY <1>1, <1>2, <1>3, <1>4, <1>5, <1>6 DEF ApplyDown

LEMMA LoopSession ==
  ASSUME LoopInv, TypeInv', Command, ~ApplyUp, ~ApplyDown
  PROVE  LoopInv'
<1> USE Shapes DEF LoopInv, NoRoutingLoop, Snap, Goto, End, BeforePin, AfterPin
<1>1. CASE CandidateFails \/ SpawnXray \/ RecordXray \/ SocksAnswers
  BY <1>1 DEF CandidateFails, SpawnXray, RecordXray, SocksAnswers
<1>2. CASE SocksTimeout
  BY <1>2, StopRoutes, LinkGoneFields DEF SocksTimeout, Daemons
<1>3. CASE NoneConnects \/ UnitsStopped \/ NoSystemctl \/ SaveActive \/ RollBack
  BY <1>3 DEF NoneConnects, UnitsStopped, NoSystemctl, SaveActive, RollBack
<1>4. ASSUME NEW u \in Units, StopUnit(u) \/ StartUnit(u) PROVE LoopInv'
  BY <1>4 DEF StopUnit, StartUnit
<1>5. CASE StopXray
  BY <1>5, StopRoutes, LinkGoneFields DEF StopXray, Daemons
<1>6. CASE Pkill
  BY <1>6, LinkGoneFields DEF Pkill
<1>7. CASE TornDown \/ TeardownRaised \/ UnitsStarted \/ Measured \/ AllTested
  BY <1>7 DEF TornDown, TeardownRaised, UnitsStarted, Measured, AllTested
<1>8. CASE ClearPids \/ ClearActive \/ ClearBackup \/ ClearResolvBak
  BY <1>8 DEF ClearPids, ClearActive, ClearBackup, ClearResolvBak
<1> QED
  BY <1>1, <1>2, <1>3, <1>4, <1>5, <1>6, <1>7, <1>8 DEF Command

LEMMA LoopElse ==
  ASSUME LoopInv, TypeInv',
         User \/ (Environment /\ UNCHANGED localVars) \/ Crash \/ Interrupt \/ Reboot \/ UNCHANGED vars
  PROVE  LoopInv'
<1> USE Shapes DEF LoopInv, NoRoutingLoop, Snap, Begin, End, BeforePin, AfterPin, localVars
<1>1. CASE User
  BY <1>1 DEF User, UpBegins, FullBegins, DownNotRunning, DownBegins, NothingToClean, EmergencyBegins
<1>2. CASE (XrayBinds \/ TunAppears) /\ UNCHANGED localVars
  BY <1>2 DEF XrayBinds, TunAppears, DevExists
<1>3. ASSUME NEW d \in Daemons, DaemonDies(d) \/ OrphanEnds(d) \/ DyingEnds(d),
             UNCHANGED localVars
      PROVE  LoopInv'
  BY <1>3, EndsAlone, LinkGoneFields
<1>4. ASSUME NEW r \in Routes, LinkRenew(r), UNCHANGED localVars PROVE LoopInv'
  BY <1>4 DEF LinkRenew
<1>5. CASE Crash \/ Interrupt
  BY <1>5 DEF Crash, Interrupt, Unrecorded
<1>6. CASE Reboot
  BY <1>6 DEF Reboot, MachineRestarts, PlainNet, HostSetup
<1>7. CASE UNCHANGED vars
  BY <1>7 DEF vars
<1> QED
  BY <1>1, <1>2, <1>3, <1>4, <1>5, <1>6, <1>7 DEF Environment

LEMMA InitLoop == Init => LoopInv
  BY InitType, Shapes DEF Init, HostInit, PlainNet, HostSetup, LoopInv, NoRoutingLoop,
     BeforePin, AfterPin

LEMMA NextLoop == "unchecked" \notin Faults /\ LoopInv /\ [Next]_vars => LoopInv'
<1>1. LoopInv /\ [Next]_vars => TypeInv'
  BY NextType DEF LoopInv
<1> QED
  BY <1>1, LoopUp, LoopDown, LoopSession, LoopElse DEF Next, Command

\* On every machine and under every fault but one, the default route never leads into
\* the tunnel while the packets of the tunnel itself have no way past it (apply_up
\* pins before it reroutes, apply_down unpins after it has deleted the default).  The
\* one is an `ip route del` or `ip link del` of apply_down whose failure it ignores.
THEOREM NoLoopEver ==
  ASSUME "unchecked" \notin Faults
  PROVE  Spec => []NoRoutingLoop
<1>1. LoopInv => NoRoutingLoop
  BY DEF LoopInv
<1> QED
  BY <1>1, InitLoop, NextLoop, PTL DEF Spec

-----------------------------------------------------------------------------
\* IPv6 block.
Rerouted == (AfterPin \ {"up_verify", "up_del_defaults"}) \cup {"up_done"}
Reopened == {"down_policy", "down_tun_default", "down_link", "down_unpin", "down_default"}

BlockInv ==
  /\ TypeInv
  /\ BlockedOnlyWhenTunnelled
  /\ pc \in Rerouted => PhysDefaults = {}
  /\ pc \in Reopened => net.ip6 = "open"

LEMMA BlockUp ==
  ASSUME {"renew", "unchecked"} \cap Faults = {}, BlockInv, TypeInv', ApplyUp
  PROVE  BlockInv'
<1> USE Shapes DEF BlockInv, BlockedOnlyWhenTunnelled, PhysDefaults, Goto, Rerouted, Reopened,
                   AfterPin, Ineffective
<1>1. CASE TakeSnapshot
  <2>1. net' = net /\ pc' = "up_snapshot"
    BY <1>1 DEF TakeSnapshot
  <2> QED
    BY <2>1
<1>2. ASSUME NEW a, NEW p, NEW q,
             Install(a, p, q), <<p, q>> \in {<<"up_main", "up_spawn">>, <<"up_verify", "up_verify">>,
               <<"up_table", "up_direct">>, <<"up_direct", "up_marks">>,
               <<"up_marks", "up_verify_final">>}
      PROVE  BlockInv'
  BY <1>2 DEF Install
<1>3. CASE SpawnTun2socks \/ RecordTun2socks \/ DevAppeared \/ BringLinkUp
  BY <1>3 DEF SpawnTun2socks, RecordTun2socks, DevAppeared, BringLinkUp
<1>4. CASE WriteSnapshot \/ PinServer \/ PinVerified
  BY <1>4 DEF WriteSnapshot, PinServer, PinVerified
<1>5. CASE DeleteDefault \/ DefaultsDeleted \/ AddTunDefault
  BY <1>5 DEF DeleteDefault, DefaultsDeleted, AddTunDefault
<1>6. CASE PinStillHolds \/ BlockIpv6 \/ SteerTunDns \/ FallBackToResolv
  BY <1>6 DEF PinStillHolds, BlockIpv6, SteerTunDns, FallBackToResolv
<1>7. CASE SteerPhysOff \/ WriteResolv \/ StopResolved \/ SaveDnsMode
  BY <1>7 DEF SteerPhysOff, WriteResolv, StopResolved, SaveDnsMode
<1>8. CASE Tun2socksExits
  BY <1>8, DiesRoutes, LinkGoneFields DEF Tun2socksExits, Daemons
<1>9. CASE ApplyUpRaises \/ SnapshotWriteFails
  BY <1>9 DEF ApplyUpRaises, SnapshotWriteFails
<1> QED
  BY <1>1, <1>2, <1>3, <1>4, <1>5, <1>6, <1>7, <1>8, <1>9 DEF ApplyUp

LEMMA BlockDown ==
  ASSUME "unchecked" \notin Faults, BlockInv, TypeInv', ApplyDown
  PROVE  BlockInv'
<1> USE Shapes DEF BlockInv, BlockedOnlyWhenTunnelled, PhysDefaults, Goto, Rerouted, Reopened,
                   AfterPin, Ineffective
<1>1. CASE StopTun2socks
  BY <1>1, StopRoutes, LinkGoneFields DEF StopTun2socks, Daemons
<1>2. CASE UnblockIpv6 \/ RemoveArtefact \/ PolicyRemoved \/ ApplyDownRaises
  BY <1>2 DEF UnblockIpv6, RemoveArtefact, PolicyRemoved, ApplyDownRaises
<1>3. CASE DeleteTunDefault \/ UnpinServer
  BY <1>3 DEF DeleteTunDefault, UnpinServer
<1>4. CASE DeleteLink
  BY <1>4, LinkGoneFields DEF DeleteLink
<1>5. CASE RestoreDefault
  BY <1>5, ConstantsAssumption DEF RestoreDefault
<1>6. CASE RevertResolved \/ StartResolved \/ RestoreResolv
  BY <1>6 DEF RevertResolved, StartResolved, RestoreResolv
<1> QED
  BY <1>1, <1>2, <1>3, <1>4, <1>5, <1>6 DEF ApplyDown

LEMMA BlockSession ==
  ASSUME BlockInv, TypeInv', Command, ~ApplyUp, ~ApplyDown
  PROVE  BlockInv'
<1> USE Shapes DEF BlockInv, BlockedOnlyWhenTunnelled, PhysDefaults, Goto, End, Rerouted,
                   Reopened, AfterPin
<1>1. CASE CandidateFails \/ SpawnXray \/ RecordXray \/ SocksAnswers
  BY <1>1 DEF CandidateFails, SpawnXray, RecordXray, SocksAnswers
<1>2. CASE SocksTimeout
  BY <1>2, StopRoutes, LinkGoneFields DEF SocksTimeout, Daemons
<1>3. CASE NoneConnects \/ UnitsStopped \/ NoSystemctl \/ SaveActive \/ RollBack
  BY <1>3 DEF NoneConnects, UnitsStopped, NoSystemctl, SaveActive, RollBack
<1>4. ASSUME NEW u \in Units, StopUnit(u) \/ StartUnit(u) PROVE BlockInv'
  BY <1>4 DEF StopUnit, StartUnit
<1>5. CASE StopXray
  BY <1>5, StopRoutes, LinkGoneFields DEF StopXray, Daemons
<1>6. CASE Pkill
  BY <1>6, LinkGoneFields DEF Pkill
<1>7. CASE TornDown \/ TeardownRaised \/ UnitsStarted \/ Measured \/ AllTested
  BY <1>7 DEF TornDown, TeardownRaised, UnitsStarted, Measured, AllTested
<1>8. CASE ClearPids \/ ClearActive \/ ClearBackup \/ ClearResolvBak
  BY <1>8 DEF ClearPids, ClearActive, ClearBackup, ClearResolvBak
<1> QED
  BY <1>1, <1>2, <1>3, <1>4, <1>5, <1>6, <1>7, <1>8 DEF Command

LEMMA BlockElse ==
  ASSUME BlockInv, TypeInv', "renew" \notin Faults,
         User \/ (Environment /\ UNCHANGED localVars) \/ Crash \/ Interrupt \/ Reboot \/ UNCHANGED vars
  PROVE  BlockInv'
<1> USE Shapes DEF BlockInv, BlockedOnlyWhenTunnelled, PhysDefaults, Begin, End, Rerouted,
                   Reopened, AfterPin, localVars
<1>1. CASE User
  BY <1>1 DEF User, UpBegins, FullBegins, DownNotRunning, DownBegins, NothingToClean, EmergencyBegins
<1>2. CASE (XrayBinds \/ TunAppears) /\ UNCHANGED localVars
  BY <1>2 DEF XrayBinds, TunAppears, DevExists
<1>3. ASSUME NEW d \in Daemons, DaemonDies(d) \/ OrphanEnds(d) \/ DyingEnds(d),
             UNCHANGED localVars
      PROVE  BlockInv'
  BY <1>3, EndsAlone, LinkGoneFields
<1>4. CASE Crash \/ Interrupt
  BY <1>4 DEF Crash, Interrupt, Unrecorded
<1>5. CASE Reboot
  BY <1>5 DEF Reboot, MachineRestarts, PlainNet
<1>6. CASE UNCHANGED vars
  BY <1>6 DEF vars
<1> QED
  BY <1>1, <1>2, <1>3, <1>4, <1>5, <1>6 DEF Environment, LinkRenew

LEMMA InitBlock == Init => BlockInv
  BY InitType DEF Init, HostInit, PlainNet, BlockInv, BlockedOnlyWhenTunnelled, Rerouted,
     Reopened, AfterPin

LEMMA NextBlock ==
  {"renew", "unchecked"} \cap Faults = {} /\ BlockInv /\ [Next]_vars => BlockInv'
<1>1. BlockInv /\ [Next]_vars => TypeInv'
  BY NextType DEF BlockInv
<1> QED
  BY <1>1, BlockUp, BlockDown, BlockSession, BlockElse DEF Next, Command

\* As long as no network manager adds a default route behind drkvl's back and no
\* unchecked `ip route del` or `ip6tables -D` fails, IPv6 is never cut off on a machine whose IPv4 traffic goes out past the tunnel: apply_up
\* blocks it after the reroute, apply_down unblocks it before the old default is back.
THEOREM BlockFollowsRoute ==
  ASSUME {"renew", "unchecked"} \cap Faults = {}
  PROVE  Spec => []BlockedOnlyWhenTunnelled
<1>1. BlockInv => BlockedOnlyWhenTunnelled
  BY DEF BlockInv
<1> QED
  BY <1>1, InitBlock, NextBlock, PTL DEF Spec

-----------------------------------------------------------------------------
\* The kill switch.  What has been sealed when by the time apply_up comes to its end,
\* and nobody opens it again until the user is told something else.
Blocked == {"up_dns", "up_steer", "up_resolv", "up_stop_resolved", "up_save_dns", "up_done"}

SealInv ==
  /\ BlockInv
  /\ KillSwitch
  /\ outcome = "up" => pc = "idle"
  /\ pc \in Blocked => net.ip6 # "open"
  /\ pc = "up_steer" /\ Tun \in net.defaults => dns.tun
  /\ pc = "up_stop_resolved" => dns.resolv = "placeholder"
  /\ pc \in {"up_save_dns", "up_done"} /\ Tun \in net.defaults => DnsSteered

LEMMA DnsShape ==
  ASSUME TypeInv
  PROVE  dns \in [resolv: {"symlink", "file", "placeholder"}, resolved: BOOLEAN,
                  flag: {"yes", "no", "unknown"}, tun: BOOLEAN]
  BY DEF TypeInv, TypeOK, HostTypeOK

\* Where nothing is promised.
LEMMA Unsealed == BlockInv' /\ outcome' # "up" /\ pc' \notin Blocked => SealInv'
  BY DEF SealInv, KillSwitch, Blocked

LEMMA SealUp ==
  ASSUME SealInv, BlockInv', {"renew", "unchecked"} \cap Faults = {}, ApplyUp,
         UNCHANGED <<cmd, cand, stopped, outcome>>
  PROVE  SealInv'
<1> USE DEF Goto, Blocked
<1>0. TypeInv /\ BlockInv
  BY DEF SealInv, BlockInv
<1>1. pc # "idle" => outcome' # "up"
  BY DEF SealInv
<1>2. CASE \/ TakeSnapshot \/ WriteSnapshot \/ SpawnTun2socks \/ RecordTun2socks \/ DevAppeared
           \/ BringLinkUp \/ PinServer \/ PinVerified \/ DeleteDefault \/ DefaultsDeleted
           \/ AddTunDefault \/ PinStillHolds \/ Tun2socksExits \/ ApplyUpRaises
           \/ SnapshotWriteFails
  <2>1. pc # "idle" /\ pc' \notin Blocked
    BY <1>2 DEF TakeSnapshot, WriteSnapshot, SpawnTun2socks, RecordTun2socks, DevAppeared,
       BringLinkUp, PinServer, PinVerified, DeleteDefault, DefaultsDeleted, AddTunDefault,
       PinStillHolds, Tun2socksExits, ApplyUpRaises, SnapshotWriteFails
  <2> QED
    BY <1>1, <2>1, Unsealed
<1>3. ASSUME NEW a, NEW p, NEW q,
             Install(a, p, q), <<p, q>> \in {<<"up_main", "up_spawn">>, <<"up_verify", "up_verify">>,
               <<"up_table", "up_direct">>, <<"up_direct", "up_marks">>,
               <<"up_marks", "up_verify_final">>}
      PROVE  SealInv'
  <2>1. pc # "idle" /\ pc' \notin Blocked
    BY <1>3 DEF Install
  <2> QED
    BY <1>1, <2>1, Unsealed
<1>4. CASE BlockIpv6
  <2>1. pc = "up_block_v6" /\ pc' = "up_dns" /\ net'.ip6 # "open"
    BY <1>0, <1>4, Shapes DEF BlockIpv6, Ineffective
  <2> QED
    BY <1>1, <2>1 DEF SealInv, KillSwitch
<1>5. CASE SteerTunDns \/ FallBackToResolv
  <2>1. pc = "up_dns" /\ pc' \in {"up_steer", "up_resolv"} /\ net' = net
    BY <1>5 DEF SteerTunDns, FallBackToResolv
  <2>2. pc' = "up_steer" => dns'.tun
    BY <1>0, <1>5, DnsShape DEF SteerTunDns, FallBackToResolv, Ineffective
  <2> QED
    BY <1>1, <2>1, <2>2 DEF SealInv, KillSwitch
<1>6. CASE SteerPhysOff
  <2>1. pc = "up_steer" /\ pc' = "up_save_dns" /\ net' = net
        /\ dns'.tun = dns.tun /\ dns'.flag # "yes"
    BY <1>0, <1>6, DnsShape DEF SteerPhysOff, Ineffective
  <2> QED
    BY <1>1, <2>1 DEF SealInv, KillSwitch, DnsSteered
<1>7. CASE WriteResolv
  <2>1. pc = "up_resolv" /\ pc' = "up_stop_resolved" /\ net' = net /\ dns'.resolv = "placeholder"
    BY <1>0, <1>7, DnsShape DEF WriteResolv
  <2> QED
    BY <1>1, <2>1 DEF SealInv, KillSwitch
<1>8. CASE StopResolved
  <2>1. pc = "up_stop_resolved" /\ pc' = "up_save_dns" /\ net' = net
        /\ dns'.resolv = dns.resolv /\ ~dns'.resolved
    BY <1>0, <1>8, DnsShape DEF StopResolved, Ineffective
  <2> QED
    BY <1>1, <2>1 DEF SealInv, KillSwitch, DnsSteered
<1>9. CASE SaveDnsMode
  <2>1. pc = "up_save_dns" /\ pc' = "up_done" /\ UNCHANGED <<net, dns>>
    BY <1>9 DEF SaveDnsMode
  <2> QED
    BY <1>1, <2>1 DEF SealInv, KillSwitch, DnsSteered
<1> QED
  BY <1>2, <1>3, <1>4, <1>5, <1>6, <1>7, <1>8, <1>9 DEF ApplyUp

LEMMA SealSession ==
  ASSUME SealInv, BlockInv', Command,
         ~(ApplyUp /\ UNCHANGED <<cmd, cand, stopped, outcome>>)
  PROVE  SealInv'
<1> USE DEF Goto, Blocked
<1>1. pc # "idle" => outcome # "up"
  BY DEF SealInv
<1>2. CASE ApplyDown /\ UNCHANGED <<cmd, cand, stopped, outcome>>
  <2>1. pc # "idle" /\ pc' \notin Blocked
    BY <1>2 DEF ApplyDown, StopTun2socks, UnblockIpv6, RemoveArtefact, PolicyRemoved,
       ApplyDownRaises, DeleteTunDefault, DeleteLink, UnpinServer, RestoreDefault, RevertResolved,
       StartResolved, RestoreResolv
  <2> QED
    BY <1>1, <1>2, <2>1, Unsealed
<1>3. CASE \/ CandidateFails \/ SpawnXray \/ RecordXray \/ SocksAnswers \/ SocksTimeout
           \/ UnitsStopped \/ RollBack \/ Measured \/ AllTested \/ StopXray \/ Pkill \/ TornDown
           \/ ClearPids \/ ClearActive \/ ClearBackup
  <2>1. pc # "idle" /\ pc' \notin Blocked /\ outcome' = outcome
    BY <1>3 DEF CandidateFails, SpawnXray, RecordXray, SocksAnswers, SocksTimeout, UnitsStopped,
       RollBack, Measured, AllTested, StopXray, Pkill, TornDown, ClearPids, ClearActive, ClearBackup
  <2> QED
    BY <1>1, <2>1, Unsealed
<1>4. ASSUME NEW u \in Units, StopUnit(u) \/ StartUnit(u) PROVE SealInv'
  <2>1. pc # "idle" /\ pc' \notin Blocked /\ outcome' = outcome
    BY <1>4 DEF StopUnit, StartUnit
  <2> QED
    BY <1>1, <2>1, Unsealed
<1>5. CASE NoneConnects \/ NoSystemctl
  BY <1>5, Unsealed DEF NoneConnects, NoSystemctl, End
<1>6. CASE TeardownRaised
  <2>1. pc # "idle" /\ pc' \notin Blocked /\ (outcome' = outcome \/ outcome' # "up")
    BY <1>6 DEF TeardownRaised, End
  <2> QED
    BY <1>1, <2>1, Unsealed
<1>7. CASE UnitsStarted \/ ClearResolvBak
  <2>1. Report # "up"
    BY <1>1, <1>7 DEF Report, UnitsStarted, ClearResolvBak
  <2>2. pc # "idle" /\ pc' \notin Blocked /\ (outcome' = outcome \/ outcome' = Report)
    BY <1>7 DEF UnitsStarted, ClearResolvBak, End
  <2> QED
    BY <1>1, <2>1, <2>2, Unsealed
<1>8. CASE SaveActive
  <2>1. pc = "up_done" /\ pc' = "idle" /\ outcome' = "up" /\ UNCHANGED <<net, dns>>
    BY <1>8 DEF SaveActive, End
  <2>2. PhysDefaults = {} /\ net.ip6 # "open" /\ (Tun \in net.defaults => DnsSteered)
    BY <2>1 DEF SealInv, BlockInv, Rerouted
  <2> QED
    BY <2>1, <2>2 DEF SealInv, KillSwitch, PhysDefaults, DnsSteered
<1> QED
  BY <1>2, <1>3, <1>4, <1>5, <1>6, <1>7, <1>8 DEF Command

LEMMA SealElse ==
  ASSUME SealInv, BlockInv', "renew" \notin Faults,
         User \/ (Environment /\ UNCHANGED localVars) \/ Crash \/ Interrupt \/ Reboot \/ UNCHANGED vars
  PROVE  SealInv'
<1>0. TypeInv /\ (pc # "idle" => outcome # "up")
  BY DEF SealInv, BlockInv
<1>1. CASE User
  BY <1>1, Unsealed DEF User, UpBegins, FullBegins, DownNotRunning, DownBegins, NothingToClean,
     EmergencyBegins, Begin, End, Blocked
<1>2. CASE (XrayBinds \/ TunAppears) /\ UNCHANGED localVars
  <2>1. /\ net'.defaults = net.defaults /\ net'.ip6 = net.ip6
        /\ UNCHANGED <<dns, pc, outcome>>
    BY <1>0, <1>2, Shapes DEF XrayBinds, TunAppears, localVars
  <2> QED
    BY <2>1 DEF SealInv, KillSwitch, PhysDefaults, DnsSteered
<1>3. ASSUME NEW d \in Daemons, DaemonDies(d) \/ OrphanEnds(d) \/ DyingEnds(d),
             UNCHANGED localVars
      PROVE  SealInv'
  <2>1. UNCHANGED <<net, dns>> \/ (net' = LinkGone /\ dns' = LinkDnsGone)
    BY <1>3, EndsAlone
  <2>2. /\ net'.ip6 = net.ip6 /\ PhysDefaults' = PhysDefaults /\ dns'.resolv = dns.resolv
        /\ Tun \in net'.defaults => UNCHANGED dns /\ Tun \in net.defaults
    BY <1>0, <2>1, DnsShape, LinkGoneFields, Shapes DEF LinkDnsGone, PhysDefaults
  <2>3. UNCHANGED <<pc, outcome>>
    BY <1>3 DEF localVars
  <2> QED
    BY <2>2, <2>3 DEF SealInv, KillSwitch, DnsSteered
<1>4. CASE Crash \/ Interrupt \/ Reboot
  BY <1>4, Unsealed DEF Crash, Interrupt, Reboot, End, Blocked
<1>5. CASE UNCHANGED vars
  BY <1>5 DEF vars, localVars, SealInv, KillSwitch, PhysDefaults, DnsSteered
<1> QED
  BY <1>1, <1>2, <1>3, <1>4, <1>5 DEF Environment, LinkRenew

LEMMA InitSeal == Init => SealInv
  BY InitBlock DEF Init, SealInv, KillSwitch, Blocked

LEMMA NextSeal ==
  {"renew", "unchecked"} \cap Faults = {} /\ SealInv /\ [Next]_vars => SealInv'
<1>1. {"renew", "unchecked"} \cap Faults = {} /\ SealInv /\ [Next]_vars => BlockInv'
  BY NextBlock DEF SealInv
<1> QED
  BY <1>1, SealUp, SealSession, SealElse DEF Next, Command

\* After an up that reported success no packet can bypass the tunnel, on any machine,
\* when xray and tun2socks die one after the other, and whatever was killed, cut short
\* or rebooted before that up: no default leads past it, IPv6 is blocked, and the
\* resolver asks nobody but drkvl0 while that is the default (apply_up, _apply_dns).
THEOREM SealedWhileUp ==
  ASSUME {"renew", "unchecked"} \cap Faults = {}
  PROVE  Spec => []KillSwitch
<1>1. SealInv => KillSwitch
  BY DEF SealInv
<1> QED
  BY <1>1, InitSeal, NextSeal, PTL DEF Spec

-----------------------------------------------------------------------------
\* The way back.  A checked write either happens or ends the command before the next
\* statement, no Ctrl-C hits the full speed test (whose finally deletes BACKUP), every
\* machine has a default route and both programs that apply_down calls unconditionally;
\* without any of these TLC shows how the route is lost.
WayBackAssumption ==
  /\ {"torn", "unchecked", "interrupt"} \cap Faults = {}
  /\ \A h \in Hosts : h.phys # {} /\ {"ip6tables", "iptables"} \subseteq h.tools

NotYetRerouted == {"pick", "stop_clash", "up_verify"} \cup Attempting \cup BeforePin
Restored ==
  {"down_dns", "down_resolv", "down_done", "start_clash",
   "clear_pids", "clear_active", "clear_backup", "clear_bak"}

WayBackInv ==
  /\ TypeInv
  /\ DefaultRecoverable
  /\ pc \in NotYetRerouted \cup Restored => PhysDefaults # {}
  /\ pc \in BeforePin \cup AfterPin \cup {"up_done"} =>
       Snap /\ disk.backup.default \in ViaGateway
  /\ pc \in BeforePin \cup AfterPin => snap.default \in ViaGateway
  /\ pc \in Reopened \cup {"pkill", "down_t2", "down_v6"} => snap = disk.backup
  /\ pc \in {"stop_xray", "pkill"} /\ cmd = "sweep" => ~Snap
  /\ pc \in {"pick", "stop_clash", "up_done", "up_raised"}
            \cup Attempting \cup BeforePin \cup AfterPin => cmd \in {"up", "full"}
  /\ pc = "pkill" => cmd \in {"emergency", "sweep"}
  /\ pc # "down_raised"

LEMMA WayBackUp ==
  ASSUME WayBackAssumption, WayBackInv, TypeInv', ApplyUp,
         UNCHANGED <<cmd, cand, stopped, outcome>>
  PROVE  WayBackInv'
<1> USE Shapes DEF WayBackInv, DefaultRecoverable, PhysDefaults, Snap, Goto, End, Begin,
      NotYetRerouted, Restored, Reopened, Attempting, BeforePin, AfterPin
<1>1. CASE TakeSnapshot
  <2>1. net' = net /\ pc' = "up_snapshot" /\ pc = "up_dev"
    BY <1>1 DEF TakeSnapshot
  <2>2. disk'.backup = disk.backup
    BY <1>1 DEF TakeSnapshot
  <2> QED
    BY <2>1, <2>2
<1>2. ASSUME NEW a, NEW p, NEW q,
             Install(a, p, q), <<p, q>> \in {<<"up_main", "up_spawn">>, <<"up_verify", "up_verify">>,
               <<"up_table", "up_direct">>, <<"up_direct", "up_marks">>,
               <<"up_marks", "up_verify_final">>}
      PROVE  WayBackInv'
  BY <1>2 DEF Install
<1>3. CASE SpawnTun2socks \/ RecordTun2socks \/ DevAppeared \/ BringLinkUp
  BY <1>3 DEF SpawnTun2socks, RecordTun2socks, DevAppeared, BringLinkUp
<1>4. CASE WriteSnapshot \/ PinServer \/ PinVerified
  BY <1>4 DEF WriteSnapshot, PinServer, PinVerified
<1>5. CASE DeleteDefault \/ DefaultsDeleted \/ AddTunDefault
  BY <1>5 DEF DeleteDefault, DefaultsDeleted, AddTunDefault
<1>6. CASE PinStillHolds \/ BlockIpv6 \/ SteerTunDns \/ FallBackToResolv
  BY <1>6 DEF PinStillHolds, BlockIpv6, SteerTunDns, FallBackToResolv
<1>7. CASE SteerPhysOff \/ WriteResolv \/ StopResolved
  <2>1. snap'.default = snap.default
    BY <1>7 DEF SteerPhysOff, WriteResolv, StopResolved, Snapshots
  <2> QED
    BY <1>7, <2>1 DEF SteerPhysOff, WriteResolv, StopResolved
<1>8. CASE SaveDnsMode
  BY <1>8 DEF SaveDnsMode
<1>9. CASE Tun2socksExits
  BY <1>9, DiesRoutes, LinkGoneFields DEF Tun2socksExits, Daemons
<1>10. CASE ApplyUpRaises \/ SnapshotWriteFails
  BY <1>10 DEF ApplyUpRaises, SnapshotWriteFails, WayBackAssumption
<1> QED
  BY <1>1, <1>2, <1>3, <1>4, <1>5, <1>6, <1>7, <1>8, <1>9, <1>10 DEF ApplyUp

LEMMA WayBackDown ==
  ASSUME WayBackAssumption, WayBackInv, TypeInv', ApplyDown,
         UNCHANGED <<cmd, cand, stopped, outcome>>
  PROVE  WayBackInv'
<1> USE Shapes DEF WayBackInv, DefaultRecoverable, PhysDefaults, Snap, Goto, End, Begin,
      NotYetRerouted, Restored, Reopened, Attempting, BeforePin, AfterPin
<1>1. CASE StopTun2socks
  BY <1>1, StopRoutes, LinkGoneFields DEF StopTun2socks, Daemons
<1>2. CASE UnblockIpv6 \/ RemoveArtefact \/ PolicyRemoved
  BY <1>2 DEF UnblockIpv6, RemoveArtefact, PolicyRemoved
<1>3. CASE ApplyDownRaises
  <2>1. host \in Hosts
    BY DEF TypeInv, TypeOK, HostTypeOK
  <2> QED
    BY <1>3, <2>1 DEF ApplyDownRaises, WayBackAssumption
<1>4. CASE DeleteTunDefault \/ UnpinServer
  BY <1>4 DEF DeleteTunDefault, UnpinServer
<1>5. CASE DeleteLink
  BY <1>5, LinkGoneFields DEF DeleteLink
<1>6. CASE RestoreDefault
  BY <1>6, ConstantsAssumption DEF RestoreDefault, Ineffective, WayBackAssumption
<1>7. CASE RevertResolved \/ StartResolved \/ RestoreResolv
  BY <1>7 DEF RevertResolved, StartResolved, RestoreResolv
<1> QED
  BY <1>1, <1>2, <1>3, <1>4, <1>5, <1>6, <1>7 DEF ApplyDown

LEMMA WayBackSession ==
  ASSUME WayBackAssumption, WayBackInv, TypeInv', Command,
         ~((ApplyUp \/ ApplyDown) /\ UNCHANGED <<cmd, cand, stopped, outcome>>)
  PROVE  WayBackInv'
<1> USE Shapes DEF WayBackInv, DefaultRecoverable, PhysDefaults, Snap, Goto, End, Begin,
      NotYetRerouted, Restored, Reopened, Attempting, BeforePin, AfterPin
<1>1. CASE CandidateFails \/ SpawnXray \/ RecordXray \/ SocksAnswers
  BY <1>1 DEF CandidateFails, SpawnXray, RecordXray, SocksAnswers
<1>2. CASE SocksTimeout
  BY <1>2, StopRoutes, LinkGoneFields DEF SocksTimeout, Daemons
<1>3. CASE NoneConnects \/ UnitsStopped \/ NoSystemctl \/ SaveActive \/ RollBack
  BY <1>3 DEF NoneConnects, UnitsStopped, NoSystemctl, SaveActive, RollBack
<1>4. ASSUME NEW u \in Units, StopUnit(u) \/ StartUnit(u) PROVE WayBackInv'
  BY <1>4 DEF StopUnit, StartUnit
<1>5. CASE StopXray
  BY <1>5, StopRoutes, LinkGoneFields DEF StopXray, Daemons
<1>6. CASE Pkill
  BY <1>6, LinkGoneFields DEF Pkill
<1>7. CASE TornDown \/ TeardownRaised \/ UnitsStarted \/ Measured \/ AllTested
  BY <1>7 DEF TornDown, TeardownRaised, UnitsStarted, Measured, AllTested
<1>8. CASE ClearPids \/ ClearActive \/ ClearBackup \/ ClearResolvBak
  BY <1>8 DEF ClearPids, ClearActive, ClearBackup, ClearResolvBak
<1> QED
  BY <1>1, <1>2, <1>3, <1>4, <1>5, <1>6, <1>7, <1>8 DEF Command

LEMMA WayBackElse ==
  ASSUME WayBackAssumption, WayBackInv, TypeInv',
         User \/ (Environment /\ UNCHANGED localVars) \/ Crash \/ Interrupt \/ Reboot \/ UNCHANGED vars
  PROVE  WayBackInv'
<1> USE Shapes DEF WayBackInv, DefaultRecoverable, PhysDefaults, Snap, Goto, End, Begin,
      NotYetRerouted, Restored, Reopened, Attempting, BeforePin, AfterPin
<1>1. CASE User
  <2>1. CASE \E C \in SUBSET Servers : UpBegins(C) \/ FullBegins(C)
    BY <2>1 DEF UpBegins, FullBegins
  <2>2. CASE DownNotRunning \/ DownBegins \/ NothingToClean
    BY <2>2 DEF DownNotRunning, DownBegins, NothingToClean
  <2>3. CASE EmergencyBegins
    BY <2>3 DEF EmergencyBegins, Leftovers
  <2> QED
    BY <1>1, <2>1, <2>2, <2>3 DEF User
<1>2. CASE (XrayBinds \/ TunAppears) /\ UNCHANGED localVars
  BY <1>2 DEF XrayBinds, TunAppears, DevExists, localVars
<1>3. ASSUME NEW d \in Daemons, DaemonDies(d) \/ OrphanEnds(d) \/ DyingEnds(d),
             UNCHANGED localVars
      PROVE  WayBackInv'
  BY <1>3, EndsAlone, LinkGoneFields DEF localVars
<1>4. ASSUME NEW r \in Routes, LinkRenew(r), UNCHANGED localVars PROVE WayBackInv'
  BY <1>4 DEF LinkRenew, localVars
<1>5. CASE Crash \/ Interrupt
  BY <1>5 DEF Crash, Interrupt, Unrecorded, WayBackAssumption
<1>6. CASE Reboot
  <2>1. host \in Hosts
    BY DEF TypeInv, TypeOK, HostTypeOK
  <2> QED
    BY <1>6, <2>1 DEF Reboot, MachineRestarts, PlainNet, HostSetup, WayBackAssumption
<1>7. CASE UNCHANGED vars
  BY <1>7 DEF vars, localVars
<1> QED
  BY <1>1, <1>2, <1>3, <1>4, <1>5, <1>6, <1>7 DEF Environment

LEMMA InitWayBack == WayBackAssumption /\ Init => WayBackInv
<1> SUFFICES ASSUME WayBackAssumption, Init PROVE WayBackInv
  OBVIOUS
<1>1. TypeInv /\ host \in Hosts
  BY InitType DEF Init, HostInit
<1>2. PhysDefaults # {}
  BY <1>1, Shapes DEF Init, HostInit, PlainNet, PhysDefaults, WayBackAssumption, HostSetup
<1> QED
  BY <1>1, <1>2 DEF Init, WayBackInv, DefaultRecoverable, NotYetRerouted, Restored,
     Reopened, Attempting, BeforePin, AfterPin

LEMMA NextWayBack == WayBackAssumption /\ WayBackInv /\ [Next]_vars => WayBackInv'
<1>1. WayBackInv /\ [Next]_vars => TypeInv'
  BY NextType DEF WayBackInv
<1> QED
  BY <1>1, WayBackUp, WayBackDown, WayBackSession, WayBackElse DEF Next, Command

\* Whatever stops a command at whatever statement, the machine never loses its own
\* default route without a BACKUP on disk that names it: `drkvl down` or emergency-off
\* can bring it back.
THEOREM WayBackKept ==
  ASSUME WayBackAssumption
  PROVE  Spec => []DefaultRecoverable
<1>1. WayBackInv => DefaultRecoverable
  BY DEF WayBackInv
<1> QED
  BY <1>1, InitWayBack, NextWayBack, PTL DEF Spec
=============================================================================
